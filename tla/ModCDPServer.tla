---------------------------- MODULE ModCDPServer ----------------------------
(***************************************************************************)
(* The server in the extension's service worker                            *)
(* (js/src/server/ModCDPServer.ts): calls of start() by Chrome's events    *)
(* and by the entry point, requests of native hosts, the Mod.configure     *)
(* among them that replaces the upstream under the others, middleware      *)
(* evaluated before and after a command, and the events of the upstream    *)
(* mirrored to the native host (DownstreamTransportSet.ts).  Of the three  *)
(* downstream transports the native messaging one is here; the others have *)
(* modules of their own.                                                   *)
(*                                                                         *)
(* Continuations that only wait for each other run in one step: nothing    *)
(* but a microtask comes between them.  A call to the browser is a stage.  *)
(***************************************************************************)
EXTENDS NativeMessagingDownstreamTransport, Sequences

CONSTANTS
  Starts,     \* calls of start() that may be under way at once
  Events,     \* events of the browser
  Asks        \* what requests ask for

VARIABLES
  started_at,   \* this.started_at is set
  mirrors,      \* listeners mirrorEventsFrom() has added to the client
  upstream,     \* this.client.upstream, whose router is this.client.router
  upstreams,    \* every upstream the client has had
  stage,        \* where each call of start() and each request is
  at,           \* the upstream its current stage uses
  kind,         \* what each request asks for
  phase,        \* the part of handleCommand() a request is in
  middleware,   \* the phases for which middleware is registered
  event,        \* what became of each event of the browser
  shown,        \* how often each event was posted to a host
  from,         \* the port each request arrived on
  wired         \* no step that wires the current upstream has failed

callVars == <<stage, at>>
requestVars == <<kind, phase, from>>
eventVars == <<event, shown>>
upstreamVars == <<upstream, upstreams, wired>>
setupVars == <<started_at, mirrors, middleware>>
vars == <<nativeVars, callVars, requestVars, eventVars, upstreamVars, setupVars>>

Callers == Starts \cup Requests
Modes == {"chromedebugger", "ws"}
MiddlewarePhases == {"request", "response", "event"}

(* Mod.configure with an upstream mode and the middleware it registers, a  *)
(* command that is an expression, or a command of the browser.             *)
Kinds == [mode : Modes, adds : SUBSET MiddlewarePhases]
         \cup [mode : {"custom", "browser"}, adds : {{}}]

ASSUME AsksAssumption == Asks \subseteq Kinds

(* The awaits of the tail that start() and configure() share, and those of *)
(* an evaluation, "refused" where its session is of another upstream.      *)
Setting == {"dialing", "routing", "listing"}
Evaluating == {"finding", "attaching", "running", "refused"}
Stages == {"idle", "failed", "done"} \cup Setting \cup Evaluating

Sockets == {"none", "dialing", "open"}
UpstreamRecords == [mode : Modes, socket : Sockets,
             heard : BOOLEAN, routed : BOOLEAN]

TypeOK ==
  /\ NativeTypeOK
  /\ started_at \in BOOLEAN
  /\ mirrors \in Nat
  /\ upstreams \in Seq(UpstreamRecords)
  /\ upstream = Len(upstreams) /\ upstream # 0
  /\ stage \in [Callers -> Stages]
  /\ at \in [Callers -> 1..upstream]
  /\ kind \in [Requests -> Asks]
  /\ phase \in [Requests -> {"request", "command", "response"}]
  /\ middleware \subseteq MiddlewarePhases
  /\ event \in [Events -> {"fresh", "transforming", "over"}]
  /\ shown \in [Events -> Nat]
  /\ from \in [Requests -> Ports \cup {NoPort}]
  /\ wired \in BOOLEAN

Fresh(mode) == [mode |-> mode, socket |-> "none", heard |-> FALSE, routed |-> FALSE]

(* The constructor takes either upstream; the extension's entry point      *)
(* takes chrome.debugger.                                                  *)
Init ==
  /\ NativeInit
  /\ started_at = FALSE
  /\ mirrors = 0
  /\ \E mode \in Modes : upstreams = <<Fresh(mode)>>
  /\ upstream = 1
  /\ stage = [c \in Callers |-> "idle"]
  /\ at = [c \in Callers |-> 1]
  /\ kind \in [Requests -> Asks]
  /\ phase = [r \in Requests |-> "request"]
  /\ middleware = {}
  /\ event = [e \in Events |-> "fresh"]
  /\ shown = [e \in Events |-> 0]
  /\ from = [r \in Requests |-> NoPort]
  /\ wired = TRUE

Goes(c, s, u) ==
  /\ stage' = [stage EXCEPT ![c] = s]
  /\ at' = [at EXCEPT ![c] = u]

-----------------------------------------------------------------------------
(* The tail start() and configure() share: connect the client, start the   *)
(* router of a ws upstream, list the targets.                              *)

(* Bug: the listeners are registered with the first upstream only.         *)
Hear_once(ups, u) == [ups EXCEPT ![1].heard = TRUE]

(* onRecv and onClose of the client, sets of one listener each.            *)
Hear(ups, u) == [ups EXCEPT ![u].heard = TRUE]

(* The transport is there: the callers in S go on, with the upstream the   *)
(* client has now.  router.start() returns at once when it was called      *)
(* before, even while that call is under way.                              *)
AfterConnect(S, ups, u) ==
  LET needsRouter == ups[u].mode = "ws" /\ ~ups[u].routed IN
  /\ upstreams' = Hear(IF needsRouter THEN [ups EXCEPT ![u].routed = TRUE] ELSE ups, u)
  /\ \E first \in S :
       stage' = [c \in Callers |-> CASE c \notin S -> stage[c]
                                     [] c = first /\ needsRouter -> "routing"
                                     [] OTHER -> "listing"]
  /\ at' = [c \in Callers |-> IF c \in S THEN u ELSE at[c]]

(* client.connect(), called with upstream u in place.                      *)
ConnectClient(c, ups, u) ==
  IF ups[u].mode = "ws" /\ ups[u].socket # "open"
    THEN /\ upstreams' = [ups EXCEPT ![u].socket = "dialing"]
         /\ Goes(c, "dialing", u)
    ELSE AfterConnect({c}, ups, u)

(* Bug: every call of start() installs everything.                         *)
StartFirst_again(s) ==
  /\ stage[s] = "idle"
  /\ started_at' = TRUE
  /\ mirrors' = mirrors + 1
  /\ ConnectClient(s, upstreams, upstream)
  /\ UNCHANGED <<nativeVars, requestVars, eventVars, upstream, wired, middleware>>

(* A call of start() before any other one: everything it installs, up to   *)
(* the first wait.                                                         *)
StartFirst(s) ==
  /\ ~started_at
  /\ stage[s] = "idle"
  /\ started_at' = TRUE
  /\ mirrors' = mirrors + 1
  /\ ConnectClient(s, upstreams, upstream)
  /\ UNCHANGED <<nativeVars, requestVars, eventVars, upstream, wired, middleware>>

(* A later call only starts to poll.                                       *)
StartAgain(s) ==
  /\ started_at
  /\ stage[s] = "idle"
  /\ NativeStart
  /\ UNCHANGED <<callVars, requestVars, eventVars, upstreamVars, setupVars>>

(* The answer to a request, by what its handler returned or threw.         *)
Answer(r) ==
  /\ Goes(r, "done", at[r])
  /\ SendResponse(r)
  /\ UNCHANGED <<started, port, reconnect_timer, ports>>

(* A call of the tail is over: start() polls unless a step of it threw.    *)
TailEnds(c, ok) ==
  IF c \in Requests
    THEN Answer(c)
    ELSE /\ Goes(c, "idle", at[c])
         /\ IF ok THEN NativeStart ELSE UNCHANGED nativeVars

(* The dial of a ws upstream opens.                                        *)
DialOpens(u) ==
  LET waiting == {c \in Callers : stage[c] = "dialing" /\ at[c] = u}
      opened == [upstreams EXCEPT ![u].socket = "open"]
  IN
  /\ upstreams[u].socket = "dialing"
  /\ IF waiting = {} THEN upstreams' = opened /\ UNCHANGED callVars
                     ELSE AfterConnect(waiting, opened, upstream)
  /\ UNCHANGED <<nativeVars, requestVars, eventVars, upstream, wired, setupVars>>

(* It fails, and with it connect() of everyone who waits for it.           *)
DialFails(u) ==
  LET waiting == {c \in Callers : stage[c] = "dialing" /\ at[c] = u} IN
  /\ upstreams[u].socket = "dialing"
  /\ upstreams' = [upstreams EXCEPT ![u].socket = "none"]
  /\ stage' = [c \in Callers |-> IF c \in waiting THEN "failed" ELSE stage[c]]
  /\ wired' = (wired /\ (u # upstream \/ waiting = {}))
  /\ UNCHANGED <<nativeVars, at, requestVars, eventVars, upstream, setupVars>>

CallFails(c) ==
  /\ stage[c] = "failed"
  /\ TailEnds(c, FALSE)
  /\ UNCHANGED <<requestVars, eventVars, upstreamVars, setupVars>>

(* A command of this call can be answered by its upstream.                 *)
Reached(c) == upstreams[at[c]].mode = "ws" => upstreams[at[c]].socket = "open"

(* Target.setAutoAttach and setDiscoverTargets of router.start() are done. *)
RouterStarts(c) ==
  /\ stage[c] = "routing"
  /\ Reached(c)
  /\ Goes(c, "listing", upstream)
  /\ UNCHANGED <<nativeVars, requestVars, eventVars, upstreamVars, setupVars>>

(* One of them failed or timed out: its own listeners are removed.         *)
RouterFails(c) ==
  /\ stage[c] = "routing"
  /\ upstreams' = [upstreams EXCEPT ![at[c]].routed = FALSE]
  /\ wired' = (wired /\ at[c] # upstream)
  /\ Goes(c, "failed", at[c])
  /\ UNCHANGED <<nativeVars, requestVars, eventVars, upstream, setupVars>>

(* upstream.getTargets() ends; chrome.debugger always lists its targets.   *)
TargetsListed(c, ok) ==
  /\ stage[c] = "listing"
  /\ ok => Reached(c)
  /\ ~ok => upstreams[at[c]].mode = "ws"
  /\ TailEnds(c, ok)
  /\ UNCHANGED <<requestVars, eventVars, upstreamVars, setupVars>>

-----------------------------------------------------------------------------
(* client.configure() with another upstream mode: a new upstream and a new *)
(* router, the old ones stopped and closed.                                *)
Replaced(mode) ==
  Append([upstreams EXCEPT ![upstream].routed = FALSE,
                           ![upstream].socket = IF @ = "open" THEN "none" ELSE @],
         Fresh(mode))

(* Mod.configure, up to the first wait of its tail.                        *)
Configure(r) ==
  LET ups == IF kind[r].mode = upstreams[upstream].mode THEN upstreams ELSE Replaced(kind[r].mode)
      alone == \A c \in Callers \ {r} : stage[c] \notin Setting
  IN
  /\ upstream' = Len(ups)
  /\ middleware' = middleware \cup kind[r].adds
  /\ ConnectClient(r, ups, Len(ups))
  /\ wired' = (wired \/ alone \/ Len(ups) # upstream)

(* evaluateInServiceWorker() starts: where is the worker's own target?     *)
Evaluate(r) == Goes(r, "finding", upstream)

(* handleCommand() once its request middleware has run.                    *)
Execute(r) ==
  /\ phase' = [phase EXCEPT ![r] = "command"]
  /\ CASE kind[r].mode \in Modes -> Configure(r)
       [] kind[r].mode = "custom" -> Evaluate(r) /\ UNCHANGED <<upstreamVars, middleware>>
       [] OTHER -> Goes(r, "attaching", upstream) /\ UNCHANGED <<upstreamVars, middleware>>

(* A request arrives on a port.  It touches the lease (ClientLease.tla)    *)
(* and goes through the request middleware first.                          *)
Receive(r, p) ==
  /\ stage[r] = "idle"
  /\ NoteOrigin(r, p)
  /\ from' = [from EXCEPT ![r] = p]
  /\ IF "request" \in middleware
       THEN Evaluate(r) /\ UNCHANGED <<phase, upstreamVars, middleware>>
       ELSE Execute(r)
  /\ UNCHANGED <<kind, eventVars, started_at, mirrors>>

(* The targets are listed; attach to the worker, by the router of now.     *)
Found(r) ==
  /\ stage[r] = "finding"
  /\ Reached(r)
  /\ Goes(r, "attaching", upstream)
  /\ UNCHANGED <<nativeVars, requestVars, eventVars, upstreamVars, setupVars>>

(* A route is there.  A command of the browser runs on the router's own    *)
(* upstream, an expression on the one the client has now, which does not   *)
(* know a session of another one.                                          *)
Attached(r) ==
  LET expression == phase[r] # "command" \/ kind[r].mode = "custom" IN
  /\ stage[r] = "attaching"
  /\ Reached(r)
  /\ IF expression /\ at[r] # upstream THEN Goes(r, "refused", upstream)
                                       ELSE Goes(r, "running", at[r])
  /\ UNCHANGED <<nativeVars, requestVars, eventVars, upstreamVars, setupVars>>

(* It has run: on to the next part of handleCommand().                     *)
Ran(r) ==
  /\ stage[r] = "running"
  /\ Reached(r)
  /\ CASE phase[r] = "request" ->
            /\ Execute(r)
            /\ UNCHANGED nativeVars
       [] phase[r] = "command" /\ "response" \in middleware ->
            /\ Evaluate(r)
            /\ phase' = [phase EXCEPT ![r] = "response"]
            /\ UNCHANGED <<nativeVars, upstreamVars, middleware>>
       [] OTHER ->
            /\ Answer(r)
            /\ UNCHANGED <<phase, upstreamVars, middleware>>
  /\ UNCHANGED <<kind, from, eventVars, started_at, mirrors>>

(* A step of it fails, in the browser or with the socket.                  *)
EvaluationFails(r) ==
  /\ stage[r] \in Evaluating
  /\ Answer(r)
  /\ UNCHANGED <<requestVars, eventVars, upstreamVars, setupVars>>

-----------------------------------------------------------------------------
(* sendEvent(): what the listeners post when there is a port.              *)
Show(e) == shown' = [shown EXCEPT ![e] = @ + IF port = NoPort THEN 0 ELSE mirrors]

(* An event of a ws upstream whose messages the client hears; those of     *)
(* chrome.debugger reach the router's listeners only.                      *)
EventArrives(e, u) ==
  /\ event[e] = "fresh"
  /\ upstreams[u].socket = "open" /\ upstreams[u].heard
  /\ \/ /\ "event" \in middleware
        /\ event' = [event EXCEPT ![e] = "transforming"]
        /\ UNCHANGED shown
     \/ /\ "event" \notin middleware
        /\ event' = [event EXCEPT ![e] = "over"]
        /\ Show(e)
  /\ UNCHANGED <<nativeVars, callVars, requestVars, upstreamVars, setupVars>>

(* The event middleware has run; one that throws or returns null drops it. *)
EventTransformed(e, ok) ==
  /\ event[e] = "transforming"
  /\ event' = [event EXCEPT ![e] = "over"]
  /\ IF ok THEN Show(e) ELSE UNCHANGED shown
  /\ UNCHANGED <<nativeVars, callVars, requestVars, upstreamVars, setupVars>>

-----------------------------------------------------------------------------
SocketCloses(u) ==
  /\ upstreams[u].socket = "open"
  /\ upstreams' = [upstreams EXCEPT ![u].socket = "none"]
  /\ UNCHANGED <<nativeVars, callVars, requestVars, eventVars, upstream, wired, setupVars>>

(* A typed command on a ws upstream without a socket dials first.          *)
Redial(c) ==
  /\ stage[c] \in {"routing", "listing"} \cup Evaluating
  /\ upstreams[at[c]].mode = "ws" /\ upstreams[at[c]].socket = "none"
  /\ upstreams' = [upstreams EXCEPT ![at[c]].socket = "dialing"]
  /\ UNCHANGED <<nativeVars, callVars, requestVars, eventVars, upstream, wired, setupVars>>

(* The steps of the port that the server has no part in.                   *)
PortStep ==
  /\ \/ NativeStop
     \/ ReconnectTimerFires
     \/ \E p \in Ports : HostEnds(p) \/ OnDisconnect(p)
  /\ UNCHANGED <<callVars, requestVars, eventVars, upstreamVars, setupVars>>

Next ==
  \/ \E s \in Starts : StartFirst(s) \/ StartAgain(s)
  \/ \E u \in DOMAIN upstreams : DialOpens(u) \/ DialFails(u) \/ SocketCloses(u)
  \/ \E c \in Callers :
       \/ CallFails(c) \/ RouterStarts(c) \/ RouterFails(c) \/ Redial(c)
       \/ \E ok \in BOOLEAN : TargetsListed(c, ok)
  \/ \E r \in Requests :
       \/ Found(r) \/ Attached(r) \/ Ran(r) \/ EvaluationFails(r)
       \/ \E p \in Ports : Receive(r, p)
  \/ \E e \in Events :
       \/ \E u \in DOMAIN upstreams : EventArrives(e, u)
       \/ \E ok \in BOOLEAN : EventTransformed(e, ok)
  \/ PortStep

Spec == Init /\ [][Next]_vars

-----------------------------------------------------------------------------
(* While the transport is started there is a port, or the next attempt at  *)
(* one is due.                                                             *)
KeepsPolling == started => port # NoPort \/ reconnect_timer

(* However many calls of start() overlap, a host sees an event once.       *)
NoEventTwice == \A e \in Events : shown[e] <= 1

(* An answer goes to the host that asked, also when it comes after that    *)
(* host's port was lost and another one was opened.                        *)
AnswersGoHome == \A r \in Requests : answered[r] \in {NoPort, from[r]}

(* Whatever calls of start() and Mod.configure overlapped: once no caller  *)
(* waits for its dial, the upstream in place is heard and, if it is a      *)
(* websocket, its router listens; unless a dial or a router.start() on it  *)
(* failed and no Mod.configure was sent on its own since.                  *)
UpstreamIsWired ==
  started_at /\ wired /\ (\A c \in Callers : stage[c] = "dialing" => at[c] # upstream)
    => /\ upstreams[upstream].heard
       /\ upstreams[upstream].mode = "ws" => upstreams[upstream].routed

=============================================================================
