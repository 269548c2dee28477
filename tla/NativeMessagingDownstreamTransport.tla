----------------- MODULE NativeMessagingDownstreamTransport -----------------
(***************************************************************************)
(* The extension's end of the native messaging link                        *)
(* (js/src/transport/NativeMessagingDownstreamTransport.ts): one port to   *)
(* the native host, opened again after an interval when it is lost, and    *)
(* the port each request came from, where its answer goes.  What the       *)
(* handlers of a request do is left to the module that extends this one.   *)
(***************************************************************************)
EXTENDS Naturals

CONSTANTS
  Requests,   \* requests a native host may send
  MaxPorts    \* bound: ports opened in one life of the service worker

VARIABLES
  started,            \* this.started
  port,               \* this.port, NoPort when null
  reconnect_timer,    \* this.reconnect_timer is running
  ports,              \* every port chrome.runtime.connectNative returned
  port_from_request,  \* the port a request came from, NoPort when there is none
  answered            \* the port each request was answered on, NoPort before that

nativeVars == <<started, port, reconnect_timer, ports, port_from_request, answered>>

NoPort == 0
Ports == 1..MaxPorts

(* "lost": the host ended or was never there, onDisconnect is under way.   *)
PortStates == {"unopened", "open", "lost", "closed"}

(* With it: the current port was not closed, a timer runs only while       *)
(* started.                                                                *)
NativeTypeOK ==
  /\ started \in BOOLEAN
  /\ port \in Ports \cup {NoPort}
  /\ reconnect_timer \in BOOLEAN
  /\ ports \in [Ports -> PortStates]
  /\ port_from_request \in [Requests -> Ports \cup {NoPort}]
  /\ answered \in [Requests -> Ports \cup {NoPort}]
  /\ port # NoPort => ports[port] \in {"open", "lost"}
  /\ reconnect_timer => started

NativeInit ==
  /\ started = FALSE
  /\ port = NoPort
  /\ reconnect_timer = FALSE
  /\ ports = [p \in Ports |-> "unopened"]
  /\ port_from_request = [r \in Requests |-> NoPort]
  /\ answered = [r \in Requests |-> NoPort]

-----------------------------------------------------------------------------
(* Bug: an attempt that fails is not followed by another one.             *)
ConnectFails_forgets(timer) ==
  /\ port = NoPort
  /\ reconnect_timer' = timer
  /\ UNCHANGED <<port, ports>>

(* There is no connectNative, or it throws: scheduleReconnect().           *)
ConnectFails(timer) ==
  /\ port = NoPort
  /\ reconnect_timer' = TRUE
  /\ UNCHANGED <<port, ports>>

(* connect(), called only while the transport is started, with timer the   *)
(* value of reconnect_timer: keep the port there is, or open one, or fail. *)
Connect(timer) ==
  \/ /\ port # NoPort
     /\ reconnect_timer' = timer
     /\ UNCHANGED <<port, ports>>
  \/ /\ port = NoPort
     /\ \E p \in Ports : /\ ports[p] = "unopened"
                         /\ \A q \in 1..(p - 1) : ports[q] # "unopened"
                         /\ port' = p
                         /\ ports' = [ports EXCEPT ![p] = "open"]
     /\ reconnect_timer' = timer
  \/ ConnectFails(timer)

(* start(), also what startPollingForClients() does.                       *)
NativeStart ==
  /\ started' = TRUE
  /\ Connect(reconnect_timer)
  /\ UNCHANGED <<port_from_request, answered>>

(* stop(): a port it disconnects has no onDisconnect event of its own.     *)
NativeStop ==
  /\ started
  /\ started' = FALSE
  /\ reconnect_timer' = FALSE
  /\ port' = NoPort
  /\ ports' = [p \in Ports |-> IF p = port /\ ports[p] = "open" THEN "closed" ELSE ports[p]]
  /\ UNCHANGED <<port_from_request, answered>>

(* The timer fires while the transport is started: stop() clears it.       *)
ReconnectTimerFires ==
  /\ reconnect_timer
  /\ Connect(FALSE)
  /\ UNCHANGED <<started, port_from_request, answered>>

(* The native host ends, or Chrome finds that it is not installed.         *)
HostEnds(p) ==
  /\ ports[p] = "open"
  /\ ports' = [ports EXCEPT ![p] = "lost"]
  /\ UNCHANGED <<started, port, reconnect_timer, port_from_request, answered>>

(* onDisconnect of a port, which may no longer be the current one.         *)
OnDisconnect(p) ==
  /\ ports[p] = "lost"
  /\ ports' = [ports EXCEPT ![p] = "closed"]
  /\ port' = IF port = p THEN NoPort ELSE port
  /\ reconnect_timer' = (started \/ reconnect_timer)
  /\ UNCHANGED <<started, port_from_request, answered>>

(* onMessage: handleMessage() notes the port of a request.                 *)
NoteOrigin(r, p) ==
  /\ ports[p] = "open"
  /\ port_from_request' = [port_from_request EXCEPT ![r] = p]
  /\ UNCHANGED <<started, port, reconnect_timer, ports, answered>>

(* Bug: the answer goes to whatever port is current.                       *)
AnswerPort_current(r) == port

(* The port sendResponse() posts on.                                       *)
AnswerPort(r) == port_from_request[r]

(* sendResponse(): postMessage on a disconnected port throws, which ends   *)
(* handleRequest() and loses the answer.                                   *)
SendResponse(r) ==
  IF AnswerPort(r) # NoPort /\ ports[AnswerPort(r)] # "closed"
    THEN /\ answered' = [answered EXCEPT ![r] = AnswerPort(r)]
         /\ port_from_request' = [port_from_request EXCEPT ![r] = NoPort]
    ELSE UNCHANGED <<answered, port_from_request>>

=============================================================================
