--------------------- MODULE ReverseWSDownstreamTransport ---------------------
(***************************************************************************)
(* The extension's end of the reverse link: one WebSocket to the waiting   *)
(* client or proxy, dialled by start() and again by a timer after every    *)
(* error or close.  A slot is used again once its socket is closed.  The   *)
(* module defines the state and the handlers; ReverseWSLink says when the  *)
(* network calls them.                                                     *)
(***************************************************************************)
EXTENDS Naturals, FiniteSets

CONSTANT MaxSlots       \* bound: sockets that are not closed

VARIABLES
    started,            \* is an endpoint configured?
    socket,             \* the active socket's slot, 0 = null
    reconnect_timer,    \* is the timer running?
    ready               \* readyState of each socket

Slots == 1..MaxSlots

\* "failing": the error event was dispatched, the close event comes next.
ReadyStates == {"none", "connecting", "open", "closing", "failing", "closed"}
Free == {"none", "closed"}

TypeOK ==
    /\ started \in BOOLEAN
    /\ socket \in 0..MaxSlots
    /\ reconnect_timer \in BOOLEAN
    /\ ready \in [Slots -> ReadyStates]

Init ==
    /\ started = FALSE
    /\ socket = 0
    /\ reconnect_timer = FALSE
    /\ ready = [k \in Slots |-> "none"]

SocketLives == socket # 0 /\ ready[socket] \in {"connecting", "open"}

\* Nothing runs between a socket's error event and its close event.
MacrotaskMayRun == \A k \in Slots : ready[k] # "failing"

\* connect(), with slot k for the socket if it creates one.
Connect(k) ==
    \/ SocketLives /\ UNCHANGED <<socket, ready>>
    \/ /\ ~SocketLives
       /\ ready[k] \in Free
       /\ ready' = [ready EXCEPT ![k] = "connecting"]
       /\ socket' = k

Start(k) ==
    /\ MacrotaskMayRun
    /\ started' = TRUE
    /\ Connect(k)
    /\ UNCHANGED reconnect_timer

Stop ==
    /\ MacrotaskMayRun
    /\ started' = FALSE
    /\ reconnect_timer' = FALSE
    /\ socket' = 0
    /\ ready' = [k \in Slots |-> IF k = socket /\ SocketLives THEN "closing" ELSE ready[k]]

\* Bug: the timer's handler does not look for an open socket.
ReconnectTimer_always(k) ==
    /\ reconnect_timer
    /\ MacrotaskMayRun
    /\ reconnect_timer' = FALSE
    /\ ready[k] \in Free
    /\ ready' = [ready EXCEPT ![k] = "connecting"]
    /\ socket' = k
    /\ UNCHANGED started

\* stop() clears the timer, so the handler's own look at `started' succeeds.
ReconnectTimer(k) ==
    /\ reconnect_timer
    /\ MacrotaskMayRun
    /\ reconnect_timer' = FALSE
    /\ Connect(k)
    /\ UNCHANGED started

-----------------------------------------------------------------------------
(* Socket events.                                                          *)

OpenEvent(k) ==
    /\ ready[k] = "connecting"
    /\ MacrotaskMayRun
    /\ ready' = [ready EXCEPT ![k] = "open"]
    /\ UNCHANGED <<started, socket, reconnect_timer>>

\* The listeners of "error" and "close", with scheduleReconnect().
SocketGone(k) ==
    /\ socket' = IF socket = k THEN 0 ELSE socket
    /\ reconnect_timer' = (reconnect_timer \/ started)
    /\ UNCHANGED started

ErrorEvent(k) ==
    /\ ready[k] \in {"connecting", "open", "closing"}
    /\ MacrotaskMayRun
    /\ ready' = [ready EXCEPT ![k] = "failing"]
    /\ SocketGone(k)

CloseEvent(k) ==
    /\ \/ ready[k] = "failing"
       \/ ready[k] = "closing" /\ MacrotaskMayRun
    /\ ready' = [ready EXCEPT ![k] = "closed"]
    /\ SocketGone(k)

\* The server starts the closing handshake.
ServerCloses(k) ==
    /\ ready[k] = "open"
    /\ MacrotaskMayRun
    /\ ready' = [ready EXCEPT ![k] = "closing"]
    /\ UNCHANGED <<started, socket, reconnect_timer>>

-----------------------------------------------------------------------------
(* Properties.                                                             *)

\* "opens one WebSocket if none is already open or connecting" (lines 49-50):
\* the one socket that is open or connecting is the one events are sent on and
\* stop() closes; older sockets are all on their way out.
LiveSocketIsActive ==
    \A k \in Slots : ready[k] \in {"connecting", "open"} => socket = k
=============================================================================
