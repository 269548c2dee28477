------------------------------- MODULE NATSLink -------------------------------
(***************************************************************************)
(* The NATS bridge: clients (NATSUpstreamTransport over WebSockets, role   *)
(* "client") and one extension (NATSDownstreamTransport) that find each    *)
(* other through the subjects of a NATS server.  Every client numbers its  *)
(* commands from 1 and publishes them to one subject; the extension        *)
(* answers on the reply subject the request came with.                     *)
(*                                                                         *)
(* The server is the environment: per connection it handles what was       *)
(* written in order and queues what matches the subscriptions it has seen. *)
(* How a stream is cut into messages is the subject of Framing.tla.  A     *)
(* slot holds one connection of one end, slots are used once.              *)
(***************************************************************************)
EXTENDS Naturals, Sequences, FiniteSets

CONSTANTS
    Clients, Extension,     \* the ends of the bridge
    Calls,                  \* the calls of send(method, ...)
    ClientOf,               \* the client a call is made on
    Timed,                  \* the calls made with a positive timeout_ms
    Waiters,                \* the clients that call waitForPeer()
    MaxSlots,               \* bound: connections per end
    MaxDials,               \* bound: connections of all ends
    MaxBreaks               \* bound: close() and stop() calls, connections lost

ASSUME BridgeAssumption ==
    /\ Extension \notin Clients
    /\ IsFiniteSet(Calls)
    /\ ClientOf \in [Calls -> Clients]
    /\ Timed \subseteq Calls
    /\ Waiters \subseteq Clients
    /\ MaxSlots \in Nat
    /\ MaxDials \in Nat
    /\ MaxBreaks \in Nat

Ends == Clients \cup {Extension}
Slots == 1..MaxSlots

VARIABLES
    socket,             \* the current socket of each end, 0 = null
    ready,              \* readyState of each socket
    subscribed,         \* connections whose SUBs the server has handled
    to_server,          \* written to a connection, not yet handled
    from_server,        \* queued by the server for a connection
    peer_seen,          \* per client
    peer_waiters,       \* clients with a call of waitForPeer() that waits
    next_id,            \* per client
    id_of, phase, sent_on, \* per call
    greeted,            \* was the peer seen when the call was made?
    reply,              \* what the extension answered
    started, reconnect_timer, \* the extension's
    handling,           \* requests the extension's handler works on
    breaks              \* close() and stop() calls and connections lost so far

connVars == <<socket, ready, subscribed, to_server, from_server>>
peerVars == <<peer_seen, peer_waiters>>
callVars == <<next_id, id_of, phase, sent_on, greeted>>
extVars == <<started, reconnect_timer, handling>>
vars == <<connVars, peerVars, callVars, reply, extVars, breaks>>

Conns == Ends \X Slots

\* "aborting": closed by its owner before it was open.
ReadyStates == {"none", "connecting", "open", "aborting", "closing", "closed"}

Sub == [type |-> "sub"]
Hello == [type |-> "hello"]
Request(c, id) == [type |-> "command", id |-> id, call |-> c]
Response(u, id, kind) == [type |-> "response", reply_subject |-> u, id |-> id, kind |-> kind]

\* A client numbers at most all calls.
Ids == 1..Cardinality(Calls)
Responses == {Response(u, id, kind) : u \in Clients, id \in Ids, kind \in {"result", "error"}}
Message == {Sub, Hello} \cup {Request(c, id) : c \in Calls, id \in Ids} \cup Responses

CallsInit ==
    /\ next_id = [u \in Clients |-> 1]
    /\ id_of = [c \in Calls |-> 0]
    /\ phase = [c \in Calls |-> "idle"]
    /\ sent_on = [c \in Calls |-> 0]
    /\ greeted = [c \in Calls |-> FALSE]

Init ==
    /\ socket = [e \in Ends |-> 0]
    /\ ready = [conn \in Conns |-> "none"]
    /\ subscribed = {}
    /\ to_server = [conn \in Conns |-> <<>>]
    /\ from_server = [conn \in Conns |-> <<>>]
    /\ peer_seen = [u \in Clients |-> FALSE]
    /\ peer_waiters = {}
    /\ CallsInit
    /\ reply = [c \in Calls |-> "none"]
    /\ started = FALSE
    /\ reconnect_timer = FALSE
    /\ handling = {}
    /\ breaks = 0

-----------------------------------------------------------------------------
(* Connections.                                                            *)

CallsOf(u) == {c \in Calls : ClientOf[c] = u}
Current(e) == <<e, socket[e]>>
IsOpen(e) == socket[e] # 0 /\ ready[Current(e)] = "open"

\* `new WebSocket', in the first unused slot.
Dial(e) ==
    /\ Cardinality({conn \in Conns : ready[conn] # "none"}) < MaxDials
    /\ \E k \in Slots :
        /\ ready[<<e, k>>] = "none"
        /\ \A l \in 1..(k - 1) : ready[<<e, l>>] # "none"
        /\ ready' = [ready EXCEPT ![<<e, k>>] = "connecting"]
        /\ socket' = [socket EXCEPT ![e] = k]

\* close() on the current socket, and this.socket = null.
LetGo(e) ==
    /\ socket' = [socket EXCEPT ![e] = 0]
    /\ ready' = [conn \in Conns |->
          CASE conn = Current(e) /\ ready[conn] = "connecting" -> "aborting"
            [] conn = Current(e) /\ ready[conn] = "open" -> "closing"
            [] OTHER -> ready[conn]]

Break == breaks < MaxBreaks /\ breaks' = breaks + 1

\* The connection is gone, with all that was under way on it.
Gone(e, k) ==
    /\ IF ready[<<e, k>>] \in {"connecting", "open"} THEN Break ELSE UNCHANGED breaks
    /\ ready' = [ready EXCEPT ![<<e, k>>] = "closed"]
    /\ subscribed' = subscribed \ {<<e, k>>}
    /\ to_server' = [to_server EXCEPT ![<<e, k>>] = <<>>]
    /\ from_server' = [from_server EXCEPT ![<<e, k>>] = <<>>]

\* A "message" event; a socket that is not OPEN delivers none.
Receive(e, k, m) ==
    /\ ready[<<e, k>>] = "open"
    /\ from_server[<<e, k>>] # <<>>
    /\ m = Head(from_server[<<e, k>>])
    /\ from_server' = [from_server EXCEPT ![<<e, k>>] = Tail(@)]

Write(e, messages) ==
    to_server' = [to_server EXCEPT ![Current(e)] = @ \o messages]

-----------------------------------------------------------------------------
(* A client: connect(), close(), waitForPeer(), send().                    *)

ClientConnect(u) ==
    /\ socket[u] = 0
    /\ Dial(u)
    /\ UNCHANGED <<subscribed, to_server, from_server, peerVars, callVars, reply, extVars, breaks>>

ClientClose(u) ==
    /\ Break
    /\ LetGo(u)
    /\ peer_seen' = [peer_seen EXCEPT ![u] = FALSE]
    /\ peer_waiters' = peer_waiters \ {u}
    /\ UNCHANGED <<subscribed, to_server, from_server, callVars, reply, extVars>>

\* onOpen and the rest of connect() write to this.socket, whichever that is by
\* now; without one onOpen throws and connect() never returns.
ClientOpens(u, k) ==
    /\ ready[<<u, k>>] = "connecting"
    /\ ready' = [ready EXCEPT ![<<u, k>>] = "open"]
    /\ IF socket[u] # 0 /\ ready'[Current(u)] = "open"
          THEN Write(u, <<Sub, Hello>>)
          ELSE UNCHANGED to_server
    /\ UNCHANGED <<socket, subscribed, from_server, peerVars, callVars, reply, extVars, breaks>>

\* Bug: the pending calls are left to a later event.
EmitClose_leavesCalls(u) == UNCHANGED phase

\* emitClose, inherited: every pending call of the client is rejected.
EmitClose(u) ==
    phase' = [c \in Calls |->
                 IF c \in CallsOf(u) /\ phase[c] = "pending" THEN "rejected" ELSE phase[c]]

\* The socket did not open: the listener of "error", then the catch block of
\* the connect() that dialled, which drops the current socket whatever it is.
ClientDialFails(u, k) ==
    /\ ready[<<u, k>>] \in {"connecting", "aborting"}
    /\ Gone(u, k)
    /\ socket' = [socket EXCEPT ![u] = 0]
    /\ EmitClose(u)
    /\ UNCHANGED <<peerVars, next_id, id_of, sent_on, greeted, reply, extVars>>

\* The listeners of "error" and "close" of a socket that was open.
ClientLost(u, k) ==
    /\ ready[<<u, k>>] \in {"open", "closing"}
    /\ Gone(u, k)
    /\ socket' = [socket EXCEPT ![u] = IF @ = k THEN 0 ELSE @]
    /\ EmitClose(u)
    /\ UNCHANGED <<peerVars, next_id, id_of, sent_on, greeted, reply, extVars>>

\* A call that returns at once leaves nothing behind.
WaitForPeer(u) ==
    /\ u \in Waiters \ peer_waiters
    /\ ~peer_seen[u]
    /\ peer_waiters' = peer_waiters \cup {u}
    /\ UNCHANGED <<connVars, peer_seen, callVars, reply, extVars, breaks>>

WaitTimeout(u) ==
    /\ u \in peer_waiters
    /\ peer_waiters' = peer_waiters \ {u}
    /\ UNCHANGED <<connVars, peer_seen, callVars, reply, extVars, breaks>>

\* publish() throws when there is no socket or it is not open yet, and writes
\* nothing when it is closing.
Send(c) ==
    LET u == ClientOf[c]
    IN  /\ phase[c] = "idle"
        /\ next_id' = [next_id EXCEPT ![u] = @ + 1]
        /\ id_of' = [id_of EXCEPT ![c] = next_id[u]]
        /\ IF socket[u] # 0 /\ ready[Current(u)] \in {"open", "closing"}
              THEN /\ phase' = [phase EXCEPT ![c] = "pending"]
                   /\ sent_on' = [sent_on EXCEPT ![c] = socket[u]]
                   /\ greeted' = [greeted EXCEPT ![c] = peer_seen[u]]
                   /\ IF IsOpen(u) THEN Write(u, <<Request(c, next_id[u])>>)
                                   ELSE UNCHANGED to_server
              ELSE /\ phase' = [phase EXCEPT ![c] = "rejected"]
                   /\ UNCHANGED <<sent_on, greeted, to_server>>
        /\ UNCHANGED <<socket, ready, subscribed, from_server, peerVars, reply, extVars, breaks>>

RequestTimeout(c) ==
    /\ c \in Timed
    /\ phase[c] = "pending"
    /\ phase' = [phase EXCEPT ![c] = "rejected"]
    /\ UNCHANGED <<connVars, peerVars, next_id, id_of, sent_on, greeted, reply, extVars, breaks>>

ClientGreeted(u, k) ==
    /\ Receive(u, k, Hello)
    /\ peer_seen' = [peer_seen EXCEPT ![u] = TRUE]
    /\ peer_waiters' = peer_waiters \ {u}
    /\ UNCHANGED <<socket, ready, subscribed, to_server, callVars, reply, extVars, breaks>>

\* parseAndEmitRecv, inherited: the pending call with the response's id.
ClientAnswered(u, k) ==
    /\ \E m \in Responses :
          /\ Receive(u, k, m)
          /\ phase' = [c \in Calls |->
                IF c \in CallsOf(u) /\ phase[c] = "pending" /\ id_of[c] = m.id
                THEN IF m.kind = "error" THEN "rejected" ELSE "resolved"
                ELSE phase[c]]
    /\ UNCHANGED <<socket, ready, subscribed, to_server, peerVars, next_id, id_of, sent_on,
                   greeted, reply, extVars, breaks>>

-----------------------------------------------------------------------------
(* The extension.                                                          *)

Connect ==
    IF socket[Extension] # 0 /\ ready[Current(Extension)] \in {"connecting", "open"}
    THEN UNCHANGED <<socket, ready>>
    ELSE Dial(Extension)

ExtensionStart ==
    /\ started' = TRUE
    /\ Connect
    /\ UNCHANGED <<subscribed, to_server, from_server, peerVars, callVars, reply,
                   reconnect_timer, handling, breaks>>

ExtensionStop ==
    /\ Break
    /\ started' = FALSE
    /\ reconnect_timer' = FALSE
    /\ LetGo(Extension)
    /\ UNCHANGED <<subscribed, to_server, from_server, peerVars, callVars, reply, handling>>

\* stop() clears the timer, so the handler's own look at `started' succeeds.
ReconnectTimer ==
    /\ reconnect_timer
    /\ reconnect_timer' = FALSE
    /\ Connect
    /\ UNCHANGED <<subscribed, to_server, from_server, peerVars, callVars, reply, started, handling, breaks>>

\* Bug: the hello is published before the subscription is made.
ExtensionOpens_helloFirst(k) ==
    /\ ready[<<Extension, k>>] = "connecting"
    /\ ready' = [ready EXCEPT ![<<Extension, k>>] = "open"]
    /\ Write(Extension, <<Hello, Sub>>)
    /\ UNCHANGED <<socket, subscribed, from_server, peerVars, callVars, reply, extVars, breaks>>

\* A socket is dialled only when no other one is connecting or open, and an
\* aborted one does not open: k is the current socket.
ExtensionOpens(k) ==
    /\ ready[<<Extension, k>>] = "connecting"
    /\ ready' = [ready EXCEPT ![<<Extension, k>>] = "open"]
    /\ Write(Extension, <<Sub, Hello>>)
    /\ UNCHANGED <<socket, subscribed, from_server, peerVars, callVars, reply, extVars, breaks>>

\* The listeners of "error" and "close", with scheduleReconnect().
ExtensionLost(k) ==
    /\ ready[<<Extension, k>>] \in {"connecting", "aborting", "open", "closing"}
    /\ Gone(Extension, k)
    /\ socket' = [socket EXCEPT ![Extension] = IF @ = k THEN 0 ELSE @]
    /\ reconnect_timer' = (reconnect_timer \/ started)
    /\ UNCHANGED <<peerVars, callVars, reply, started, handling>>

\* publish() writes nothing unless the current socket is open.
Publish(m) ==
    IF IsOpen(Extension) THEN Write(Extension, <<m>>) ELSE UNCHANGED to_server

\* Bug: the extension does not answer a client's hello.
ExtensionGreeted_noAnswer(k) ==
    /\ Receive(Extension, k, Hello)
    /\ UNCHANGED <<socket, ready, subscribed, to_server, peerVars, callVars, reply, extVars, breaks>>

ExtensionGreeted(k) ==
    /\ Receive(Extension, k, Hello)
    /\ Publish(Hello)
    /\ UNCHANGED <<socket, ready, subscribed, peerVars, callVars, reply, extVars, breaks>>

\* handlePayload notes the reply subject and starts handleRequest.
ExtensionCalled(k) ==
    /\ \E c \in Calls :
          /\ Receive(Extension, k, Request(c, id_of[c]))
          /\ handling' = handling \cup {c}
    /\ UNCHANGED <<socket, ready, subscribed, to_server, peerVars, callVars, reply,
                   started, reconnect_timer, breaks>>

\* Bug: the answer goes to the reply subject of any client.
Respond_anyone(c, kind) ==
    /\ c \in handling
    /\ handling' = handling \ {c}
    /\ \E u \in Clients : Publish(Response(u, id_of[c], kind))
    /\ reply' = [reply EXCEPT ![c] = kind]
    /\ UNCHANGED <<socket, ready, subscribed, from_server, peerVars, callVars,
                   started, reconnect_timer, breaks>>

\* The handler's result, through sendResponse to the subject the request came
\* with; it is dropped when the socket is not open.
Respond(c, kind) ==
    /\ c \in handling
    /\ handling' = handling \ {c}
    /\ Publish(Response(ClientOf[c], id_of[c], kind))
    /\ reply' = [reply EXCEPT ![c] = kind]
    /\ UNCHANGED <<socket, ready, subscribed, from_server, peerVars, callVars,
                   started, reconnect_timer, breaks>>

-----------------------------------------------------------------------------
(* The server.                                                             *)

\* client_to_browser, browser_to_client and the clients' reply subjects.
Matches(e, m, f) ==
    CASE m.type = "response" -> f = m.reply_subject
      [] m.type = "hello" /\ e = Extension -> f \in Clients
      [] OTHER -> f = Extension

ServerHandles(e, k) ==
    /\ to_server[<<e, k>>] # <<>>
    /\ to_server' = [to_server EXCEPT ![<<e, k>>] = Tail(@)]
    /\ LET m == Head(to_server[<<e, k>>])
       IN  IF m = Sub
           THEN subscribed' = subscribed \cup {<<e, k>>} /\ UNCHANGED from_server
           ELSE /\ from_server' = [conn \in Conns |->
                      IF conn \in subscribed /\ ready[conn] = "open" /\ Matches(e, m, conn[1])
                      THEN Append(from_server[conn], m)
                      ELSE from_server[conn]]
                /\ UNCHANGED subscribed
    /\ UNCHANGED <<socket, ready, peerVars, callVars, reply, extVars, breaks>>

\* It starts the closing handshake: the socket stays this.socket until its
\* close event.
ServerCloses(e, k) ==
    /\ ready[<<e, k>>] = "open"
    /\ Break
    /\ ready' = [ready EXCEPT ![<<e, k>>] = "closing"]
    /\ UNCHANGED <<socket, subscribed, to_server, from_server, peerVars, callVars, reply, extVars>>

-----------------------------------------------------------------------------
Client(u) ==
    \/ ClientConnect(u) \/ ClientClose(u) \/ WaitForPeer(u) \/ WaitTimeout(u)
    \/ \E k \in Slots :
          \/ ClientOpens(u, k) \/ ClientDialFails(u, k) \/ ClientLost(u, k)
          \/ ClientGreeted(u, k) \/ ClientAnswered(u, k)

TheExtension ==
    \/ ExtensionStart \/ ExtensionStop \/ ReconnectTimer
    \/ \E k \in Slots :
          ExtensionOpens(k) \/ ExtensionLost(k) \/ ExtensionGreeted(k) \/ ExtensionCalled(k)
    \/ \E c \in Calls, kind \in {"result", "error"} : Respond(c, kind)

Next ==
    \/ \E u \in Clients : Client(u)
    \/ TheExtension
    \/ \E c \in Calls : Send(c) \/ RequestTimeout(c)
    \/ \E e \in Ends, k \in Slots : ServerHandles(e, k) \/ ServerCloses(e, k)

Spec == Init /\ [][Next]_vars

\* The server and the sockets deliver, and the extension's handler answers.
\* No dial, reconnect, wait or call is assumed.
Fairness ==
    /\ \A e \in Ends, k \in Slots : WF_vars(ServerHandles(e, k))
    /\ \A u \in Clients, k \in Slots : WF_vars(ClientGreeted(u, k) \/ ClientAnswered(u, k))
    /\ \A k \in Slots : WF_vars(ExtensionGreeted(k) \/ ExtensionCalled(k))
    /\ \A c \in Calls : WF_vars(\E kind \in {"result", "error"} : Respond(c, kind))

FairSpec == Spec /\ Fairness

-----------------------------------------------------------------------------
(* Properties.                                                             *)

TypeOK ==
    /\ socket \in [Ends -> 0..MaxSlots]
    /\ ready \in [Conns -> ReadyStates]
    /\ subscribed \subseteq Conns
    /\ to_server \in [Conns -> Seq(Message)]
    /\ from_server \in [Conns -> Seq(Message)]
    /\ peer_seen \in [Clients -> BOOLEAN]
    /\ peer_waiters \subseteq Waiters
    /\ next_id \in [Clients -> Nat]
    /\ id_of \in [Calls -> Nat]
    /\ phase \in [Calls -> {"idle", "pending", "resolved", "rejected"}]
    /\ sent_on \in [Calls -> 0..MaxSlots]
    /\ greeted \in [Calls -> BOOLEAN]
    /\ reply \in [Calls -> {"none", "result", "error"}]
    /\ started \in BOOLEAN
    /\ reconnect_timer \in BOOLEAN
    /\ handling \subseteq Calls
    /\ breaks \in 0..MaxBreaks

Outcome(c) ==
    CASE phase[c] = "idle" -> "unsent"
      [] phase[c] = "pending" -> "waiting"
      [] OTHER -> phase[c]

Outcomes == INSTANCE CommandOutcomes WITH outcome <- [c \in Calls |-> Outcome(c)]

\* Clients that number their commands alike share one extension and one server:
\* still a call resolves only with the result of its own command, also when the
\* answer comes on a later connection of the client.
KeepsPromises == Outcomes!Spec

\* A connection that ends takes its waiting calls with it (lines 176-183).
NoneWaitsOnDeadSocket ==
    \A c \in Calls : phase[c] = "pending" => ready[<<ClientOf[c], sent_on[c]>>] # "closed"

InFlight(m, conn) ==
    \/ \E i \in DOMAIN to_server[conn] : to_server[conn][i] = m
    \/ \E i \in DOMAIN from_server[conn] : from_server[conn][i] = m

\* Whichever end connects first, and whichever reconnects: once both are
\* subscribed and no hello is under way, the client has seen its peer.
NoHelloMissed ==
    \A u \in Clients :
        LET ends == {Current(u), Current(Extension)}
        IN  (/\ ends \subseteq subscribed
             /\ \A conn \in ends : ready[conn] = "open" /\ ~InFlight(Hello, conn))
            => peer_seen[u]

NothingLost == \A conn \in Conns : ready[conn] \in {"none", "connecting", "open"}

\* A command sent after the peer's hello is never forgotten: as long as no
\* connection is lost it is under way, worked on, or its answer is under way.
NoCallForgotten ==
    NothingLost =>
        \A c \in Calls : phase[c] = "pending" /\ greeted[c] =>
            \/ c \in handling
            \/ \E conn \in Conns :
                  \/ InFlight(Request(c, id_of[c]), conn)
                  \/ \E kind \in {"result", "error"} :
                        InFlight(Response(ClientOf[c], id_of[c], kind), conn)

\* The point of waiting for the peer: a command sent after its hello reaches it
\* and is answered, also without a timeout, as long as no connection is lost.
PeerAnswers ==
    \A c \in Calls \ Timed :
        (phase[c] = "pending" /\ greeted[c]) ~> (phase[c] # "pending" \/ ~NothingLost)
=============================================================================
