---------------------- MODULE ReverseWSUpstreamTransport ----------------------
(***************************************************************************)
(* The client's (or proxy's) end of the reverse link: it listens, and the  *)
(* extension dials in.  A peer becomes the current one with its hello; a   *)
(* later hello replaces it.  Commands go to the current peer only.         *)
(*                                                                         *)
(* Peers are the environment.  A connection slot is used again once its    *)
(* socket is closed.  Handlers do not await, so each is one step; what may *)
(* come between are the steps of close(), which awaits the end of the      *)
(* listener, and that comes when every socket it accepted is closed.       *)
(***************************************************************************)
EXTENDS UpstreamTransport, FiniteSets

CONSTANTS
    MaxSlots,       \* bound: sockets that are not closed
    Waiters,        \* the calls of waitForPeer()
    MaxTime         \* bound: instants Date.now() tells apart

ASSUME ReverseAssumption ==
    /\ MaxSlots \in Nat
    /\ MaxTime \in Nat \ {0}

VARIABLES
    listener,           \* reversews_listener: "failed" when its address was taken,
                        \* "closing" while close() awaits its end
    socket,             \* the current peer's slot, 0 = null
    peer_connected_at,  \* 0 = null
    peer_waiters,       \* where each call of waitForPeer stands
    since,              \* its connected_after_ms, 0 = null
    now,                \* Date.now()
    ready,              \* readyState of each accepted socket
    greeted,            \* was the socket's first message a hello?
    received,           \* commands a peer has got
    inbound,            \* answers on their way
    sent_on,            \* the slot a call's command was written to, 0 once it is reused
    reply               \* what a peer answered to a call's command

peerVars == <<listener, socket, peer_connected_at, peer_waiters, since, now, ready, greeted>>
wireVars == <<received, inbound, sent_on, reply>>
vars == <<requestVars, peerVars, wireVars>>

Slots == 1..MaxSlots
Command == [id : Ids, call : Calls]
Response == [id : Ids, kind : {"result", "error"}]

\* "closing": this end has called close(), messages still come in.
\* "ending": the other end or the network ended it, the close event is due.
ReadyStates == {"none", "open", "closing", "ending", "closed"}

PeerTypeOK ==
    /\ listener \in {"none", "listening", "failed", "closing"}
    /\ socket \in 0..MaxSlots
    /\ peer_connected_at \in 0..MaxTime
    /\ peer_waiters \in [Waiters -> {"idle", "waiting", "resolved", "rejected"}]
    /\ since \in [Waiters -> 0..MaxTime]
    /\ now \in 1..MaxTime
    /\ ready \in [Slots -> ReadyStates]
    /\ greeted \in [Slots -> {"awaited", "accepted", "refused"}]
    /\ received \in [Slots -> SUBSET Command]
    /\ inbound \in [Slots -> SUBSET Response]
    /\ sent_on \in [Calls -> 0..MaxSlots]
    /\ reply \in [Calls -> {"none", "result", "error"}]

TypeOK == RequestTypeOK /\ PeerTypeOK

Init ==
    /\ RequestInit
    /\ listener = "none"
    /\ socket = 0
    /\ peer_connected_at = 0
    /\ peer_waiters = [w \in Waiters |-> "idle"]
    /\ since = [w \in Waiters |-> 0]
    /\ now = 1
    /\ ready = [k \in Slots |-> "none"]
    /\ greeted = [k \in Slots |-> "awaited"]
    /\ received = [k \in Slots |-> {}]
    /\ inbound = [k \in Slots |-> {}]
    /\ sent_on = [c \in Calls |-> 0]
    /\ reply = [c \in Calls |-> "none"]

-----------------------------------------------------------------------------
(* The listener.                                                           *)

PeerOpen == socket # 0 /\ ready[socket] = "open"

\* connect() of a ws:// listener.  One that cannot have its address is kept
\* until close().
Connect ==
    /\ listener = "none"
    /\ listener' \in {"listening", "failed"}
    /\ UNCHANGED <<requestVars, socket, peer_connected_at, peer_waiters, since, now,
                   ready, greeted, wireVars>>

RejectWaiters ==
    peer_waiters' = [w \in Waiters |->
                        IF peer_waiters[w] = "waiting" THEN "rejected" ELSE peer_waiters[w]]

\* close() up to its await, or to its end when there is no listener.
Close ==
    /\ ready' = [k \in Slots |-> IF k = socket /\ ready[k] = "open" THEN "closing" ELSE ready[k]]
    /\ socket' = 0
    /\ peer_connected_at' = 0
    /\ \/ listener = "none" /\ RejectWaiters /\ UNCHANGED listener
       \/ listener # "none" /\ listener' = "closing" /\ UNCHANGED peer_waiters
    /\ UNCHANGED <<requestVars, since, now, greeted, wireVars>>

\* The rest of close().
ListenerClosed ==
    /\ listener = "closing"
    /\ \A k \in Slots : ready[k] \in {"none", "closed"}
    /\ listener' = "none"
    /\ RejectWaiters
    /\ UNCHANGED <<requestVars, socket, peer_connected_at, since, now, ready, greeted, wireVars>>

Tick ==
    /\ now < MaxTime
    /\ now' = now + 1
    /\ UNCHANGED <<requestVars, listener, socket, peer_connected_at, peer_waiters, since,
                   ready, greeted, wireVars>>

-----------------------------------------------------------------------------
(* accept() and its listeners.                                             *)

Accept(k) ==
    /\ listener = "listening"
    /\ ready[k] \in {"none", "closed"}
    /\ ready' = [ready EXCEPT ![k] = "open"]
    /\ greeted' = [greeted EXCEPT ![k] = "awaited"]
    /\ received' = [received EXCEPT ![k] = {}]
    /\ inbound' = [inbound EXCEPT ![k] = {}]
    /\ sent_on' = [c \in Calls |-> IF sent_on[c] = k THEN 0 ELSE sent_on[c]]
    /\ UNCHANGED <<requestVars, listener, socket, peer_connected_at, peer_waiters, since,
                   now, reply>>

HelloTimeout(k) ==
    /\ ready[k] = "open"
    /\ greeted[k] = "awaited"
    /\ ready' = [ready EXCEPT ![k] = "closing"]
    /\ UNCHANGED <<requestVars, listener, socket, peer_connected_at, peer_waiters, since,
                   now, greeted, wireVars>>

\* The first message, when it is not a hello.
RefuseHello(k) ==
    /\ ready[k] \in {"open", "closing"}
    /\ greeted[k] = "awaited"
    /\ greeted' = [greeted EXCEPT ![k] = "refused"]
    /\ ready' = [ready EXCEPT ![k] = "closing"]
    /\ UNCHANGED <<requestVars, listener, socket, peer_connected_at, peer_waiters, since,
                   now, wireVars>>

\* Bug: the replaced peer is left open.
AcceptHello_keepsOld(k) ==
    /\ ready[k] \in {"open", "closing"}
    /\ greeted[k] = "awaited"
    /\ greeted' = [greeted EXCEPT ![k] = "accepted"]
    /\ socket' = k
    /\ peer_connected_at' = now
    /\ peer_waiters' = [w \in Waiters |->
                           IF peer_waiters[w] = "waiting" /\ now >= since[w]
                           THEN "resolved" ELSE peer_waiters[w]]
    /\ UNCHANGED <<requestVars, listener, since, now, ready, wireVars>>

\* Bug: the callers that wait are not told.
AcceptHello_keepsWaiters(k) ==
    /\ ready[k] \in {"open", "closing"}
    /\ greeted[k] = "awaited"
    /\ greeted' = [greeted EXCEPT ![k] = "accepted"]
    /\ ready' = [l \in Slots |-> IF l = socket /\ l # k /\ ready[l] = "open"
                                 THEN "closing" ELSE ready[l]]
    /\ socket' = k
    /\ peer_connected_at' = now
    /\ UNCHANGED <<requestVars, listener, peer_waiters, since, now, wireVars>>

\* The first message, a hello: the sender is the current peer from now on.
AcceptHello(k) ==
    /\ ready[k] \in {"open", "closing"}
    /\ greeted[k] = "awaited"
    /\ greeted' = [greeted EXCEPT ![k] = "accepted"]
    /\ ready' = [l \in Slots |-> IF l = socket /\ l # k /\ ready[l] = "open"
                                 THEN "closing" ELSE ready[l]]
    /\ socket' = k
    /\ peer_connected_at' = now
    /\ peer_waiters' = [w \in Waiters |->
                           IF peer_waiters[w] = "waiting" /\ now >= since[w]
                           THEN "resolved" ELSE peer_waiters[w]]
    /\ UNCHANGED <<requestVars, listener, since, now, wireVars>>

\* Bug: the listener does not look whether its socket is the current one.
PeerGone_unguarded(k) ==
    /\ socket' = 0
    /\ peer_connected_at' = 0
    /\ EmitClose({})

\* Bug: the pending requests are rejected, but the peer stays the current one.
PeerGone_keepsSocket(k) ==
    /\ IF greeted[k] = "accepted" /\ socket = k THEN EmitClose({}) ELSE UNCHANGED requestVars
    /\ UNCHANGED <<socket, peer_connected_at>>

\* The listeners of "close" and "error": only the current peer's count.
PeerGone(k) ==
    IF greeted[k] = "accepted" /\ socket = k
    THEN socket' = 0 /\ peer_connected_at' = 0 /\ EmitClose({})
    ELSE UNCHANGED <<requestVars, socket, peer_connected_at>>

\* A protocol error.  Until its hello a socket has no listener for one: it is an
\* uncaught exception then, after which nothing follows.
ErrorEvent(k) ==
    /\ ready[k] \in {"open", "closing"}
    /\ greeted[k] = "accepted"
    /\ ready' = [ready EXCEPT ![k] = "ending"]
    /\ PeerGone(k)
    /\ UNCHANGED <<listener, peer_waiters, since, now, greeted, wireVars>>

\* The peer closes its end, or the connection breaks: a close event follows.
PeerLeaves(k) ==
    /\ ready[k] = "open"
    /\ ready' = [ready EXCEPT ![k] = "ending"]
    /\ UNCHANGED <<requestVars, listener, socket, peer_connected_at, peer_waiters, since,
                   now, greeted, wireVars>>

CloseEvent(k) ==
    /\ ready[k] \in {"closing", "ending"}
    /\ ready' = [ready EXCEPT ![k] = "closed"]
    /\ PeerGone(k)
    /\ UNCHANGED <<listener, peer_waiters, since, now, greeted, wireVars>>

-----------------------------------------------------------------------------
(* waitForPeer().                                                          *)

\* The caller notes Date.now() first, connects, and waits later.
NoteTime(w) ==
    /\ peer_waiters[w] = "idle"
    /\ since[w] = 0
    /\ since' = [since EXCEPT ![w] = now]
    /\ UNCHANGED <<requestVars, listener, socket, peer_connected_at, peer_waiters, now,
                   ready, greeted, wireVars>>

WaitForPeer(w) ==
    /\ peer_waiters[w] = "idle"
    /\ peer_waiters' = [peer_waiters EXCEPT ![w] =
                           IF PeerOpen /\ peer_connected_at >= since[w]
                           THEN "resolved" ELSE "waiting"]
    /\ UNCHANGED <<requestVars, listener, socket, peer_connected_at, since, now,
                   ready, greeted, wireVars>>

WaitTimeout(w) ==
    /\ peer_waiters[w] = "waiting"
    /\ peer_waiters' = [peer_waiters EXCEPT ![w] = "rejected"]
    /\ UNCHANGED <<requestVars, listener, socket, peer_connected_at, since, now,
                   ready, greeted, wireVars>>

-----------------------------------------------------------------------------
(* Commands.                                                               *)

CommandOf(c) == [id |-> next_id, call |-> c]
ResponseTo(m, kind) == [id |-> m.id, kind |-> kind]

Send(c) ==
    /\ phase[c] = "idle"
    /\ \/ /\ PeerOpen
          /\ RegisterCall(c)
          /\ received' = [received EXCEPT ![socket] = @ \cup {CommandOf(c)}]
          /\ sent_on' = [sent_on EXCEPT ![c] = socket]
       \/ /\ ~PeerOpen
          /\ RegisterFails(c)
          /\ UNCHANGED <<received, sent_on>>
    /\ UNCHANGED <<peerVars, inbound, reply>>

PeerAnswers(k, m, kind) ==
    /\ m \in received[k]
    /\ ready[k] \in {"open", "closing"}
    /\ received' = [received EXCEPT ![k] = @ \ {m}]
    /\ inbound' = [inbound EXCEPT ![k] = @ \cup {ResponseTo(m, kind)}]
    /\ reply' = [reply EXCEPT ![m.call] = kind]
    /\ UNCHANGED <<requestVars, peerVars, sent_on>>

\* A replaced peer's messages are still parsed until its socket is closed.
ReceiveResponse(k, m) ==
    /\ m \in inbound[k]
    /\ ready[k] \in {"open", "closing"}
    /\ inbound' = [inbound EXCEPT ![k] = @ \ {m}]
    /\ AcceptResponse(m.id, m.kind)
    /\ UNCHANGED <<peerVars, received, sent_on, reply>>

RequestTimeout(c) ==
    /\ TimerFires(c)
    /\ UNCHANGED <<peerVars, wireVars>>

-----------------------------------------------------------------------------
User ==
    \/ Connect \/ Close \/ Tick
    \/ \E w \in Waiters : NoteTime(w) \/ WaitForPeer(w)
    \/ \E c \in Calls : Send(c)

Loop ==
    \/ ListenerClosed
    \/ \E w \in Waiters : WaitTimeout(w)
    \/ \E c \in Calls : RequestTimeout(c)
    \/ \E k \in Slots :
          \/ HelloTimeout(k) \/ CloseEvent(k)
          \/ \E m \in inbound[k] : ReceiveResponse(k, m)

Peer ==
    \E k \in Slots :
        \/ Accept(k) \/ AcceptHello(k) \/ RefuseHello(k) \/ ErrorEvent(k) \/ PeerLeaves(k)
        \/ \E m \in received[k], kind \in {"result", "error"} : PeerAnswers(k, m, kind)

Next == User \/ Loop \/ Peer

Spec == Init /\ [][Next]_vars

\* Timers fire and sockets that are being closed get their close event (the ws
\* library destroys a socket whose closing handshake takes too long).
Fairness ==
    /\ WF_vars(ListenerClosed)
    /\ \A w \in Waiters : WF_vars(WaitTimeout(w))
    /\ \A c \in Calls : WF_vars(RequestTimeout(c))
    /\ \A k \in Slots : WF_vars(HelloTimeout(k)) /\ WF_vars(CloseEvent(k))

FairSpec == Spec /\ Fairness

-----------------------------------------------------------------------------
(* Properties.                                                             *)

Outcome(c) ==
    CASE phase[c] = "idle" -> "unsent"
      [] phase[c] \in Settled -> phase[c]
      [] OTHER -> "waiting"

Outcomes == INSTANCE CommandOutcomes WITH outcome <- [c \in Calls |-> Outcome(c)]

\* The transport keeps the promise of CommandOutcomes across replaced peers,
\* whose answers are still accepted while their sockets close.
KeepsPromises == Outcomes!Spec

\* There is one reverse extension connection per process (README.md:162): of
\* the peers that said hello, at most one is not being closed.
OnePeerOpen ==
    \A k, l \in Slots :
        /\ greeted[k] = "accepted" /\ ready[k] = "open"
        /\ greeted[l] = "accepted" /\ ready[l] = "open"
        => k = l

\* No waiter is overlooked: none waits while a peer is connected that it would
\* have taken had it come a moment later (the check at line 144 and the loop at
\* line 225 of ReverseWSUpstreamTransport.ts agree).
NoWaiterOverlooked ==
    \A w \in Waiters : peer_waiters[w] = "waiting" => ~(PeerOpen /\ peer_connected_at >= since[w])

\* The error answer to c is taken from the wire in this step.
ErrorArrives(c) ==
    LET m == [id |-> id_of[c], kind |-> "error"]
    IN  \E k \in Slots : m \in inbound[k] /\ m \notin inbound'[k]

\* The current peer's socket has its error or its close event in this step.
CurrentPeerEnds ==
    /\ socket # 0
    /\ socket' = 0
    /\ ready'[socket] # ready[socket]
    /\ ready'[socket] \in {"ending", "closed"}

\* The peer c was sent to has been replaced or dropped by close(): its socket
\* is being closed, or has closed (0: its slot is taken by another).
GivenUp(c) == sent_on[c] = 0 \/ ready[sent_on[c]] # "open"

\* A request without a timer is rejected by its error answer or when the current
\* peer ends, never by the end of a peer that was replaced or has not said
\* hello (lines 211 and 219).  Besides the requests the current peer has got
\* its end rejects only those of peers that were given up before (though a
\* replaced peer that is still closing could have answered them).
RejectedWithCurrentPeer ==
    [][\A c \in Calls \ Timed :
          (phase[c] = "pending" /\ phase'[c] = "rejected" /\ ~ErrorArrives(c)) =>
              CurrentPeerEnds /\ (sent_on[c] = socket \/ GivenUp(c))]_vars

=============================================================================
