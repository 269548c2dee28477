------------------------- MODULE WSUpstreamTransport -------------------------
(***************************************************************************)
(* The client's WebSocket transport to a browser.  send() dials on demand: *)
(* it awaits connect(), which shares one connect_promise among concurrent  *)
(* callers, and then hands the command to UpstreamTransport.send.  Dial    *)
(* attempt k resolves the URL (an HTTP discovery request unless the URL is *)
(* already a ws:// one) and opens socket k, so attempts and sockets share  *)
(* their numbers.                                                          *)
(*                                                                         *)
(* The program runs on one event loop: a macrotask (socket event, timer)   *)
(* starts only when no continuation is queued.  Calls by the user may come *)
(* from continuations too and are not held back.                           *)
(***************************************************************************)
EXTENDS UpstreamTransport

CONSTANT MaxSockets     \* bound: dial attempts

ASSUME MaxSocketsAssumption == MaxSockets \in Nat

VARIABLES
    awaits,             \* the dial attempt a connecting call awaits, 0 = none
    ws,                 \* WSUpstreamTransport.ws: a socket number, 0 = null
    connect_promise,    \* WSUpstreamTransport.connect_promise, 0 = null
    attempts,           \* how many dial attempts were started
    attempt,            \* the state of each attempt's promise
    sock,               \* readyState of each socket, as its events show it
    url,                \* kind of config.upstream_ws_cdp_url, "none" when there is none
    received,           \* commands the browser has got on a socket
    inbound,            \* responses on their way to the client
    sent_on,            \* the socket a call's command was written to
    reply               \* what the browser answered to a call's command

connVars == <<awaits, ws, connect_promise, attempts, attempt, sock, url>>
wireVars == <<received, inbound, sent_on, reply>>
vars == <<requestVars, connVars, wireVars>>

Sockets == 1..MaxSockets
Command == [id : Ids, call : Calls]
Response == [id : Ids, kind : {"result", "error"}]

\* "resolved": the ws:// URL is known, the continuation that dials is queued.
\* "failing": the promise is rejected, the catch block of connect() queued.
AttemptStates == {"unused", "discovering", "resolved", "opening",
                  "fulfilled", "failing", "failed"}

\* "failing": the error event was dispatched and the close event follows in
\* the same task.
SocketStates == {"none", "connecting", "open", "closing", "failing", "closed"}

Urls == {"none", "discovery", "ws"}

ConnTypeOK ==
    /\ awaits \in [Calls -> 0..MaxSockets]
    /\ ws \in 0..MaxSockets
    /\ connect_promise \in 0..MaxSockets
    /\ attempts \in 0..MaxSockets
    /\ attempt \in [Sockets -> AttemptStates]
    /\ sock \in [Sockets -> SocketStates]
    /\ url \in Urls
    /\ received \in [Sockets -> SUBSET Command]
    /\ inbound \in [Sockets -> SUBSET Response]
    /\ sent_on \in [Calls -> 0..MaxSockets]
    /\ reply \in [Calls -> {"none", "result", "error"}]

TypeOK == RequestTypeOK /\ ConnTypeOK

Init ==
    /\ RequestInit
    /\ awaits = [c \in Calls |-> 0]
    /\ ws = 0
    /\ connect_promise = 0
    /\ attempts = 0
    /\ attempt = [k \in Sockets |-> "unused"]
    /\ sock = [k \in Sockets |-> "none"]
    /\ url \in Urls
    /\ received = [k \in Sockets |-> {}]
    /\ inbound = [k \in Sockets |-> {}]
    /\ sent_on = [c \in Calls |-> 0]
    /\ reply = [c \in Calls |-> "none"]

-----------------------------------------------------------------------------
WsOpen == ws # 0 /\ sock[ws] = "open"

Waiting(k) == {c \in Calls : phase[c] = "connecting" /\ awaits[c] = k}

\* No continuation is queued, so the event loop may run its next task.
MicrotasksDone ==
    /\ \A c \in Calls : phase[c] # "connected"
    /\ \A k \in Sockets : attempt[k] \notin {"resolved", "failing"}

\* ... and no socket is between its error and its close event.
MacrotaskMayRun ==
    /\ MicrotasksDone
    /\ \A k \in Sockets : sock[k] # "failing"

-----------------------------------------------------------------------------
(* Calls of the user: update(), send(), connect(), close().                *)

Update(u) ==
    /\ url # u
    /\ url' = u
    /\ UNCHANGED <<requestVars, awaits, ws, connect_promise, attempts, attempt, sock, wireVars>>

\* The part of connect() that creates connect_promise.
StartAttempt ==
    /\ ~WsOpen
    /\ connect_promise = 0
    /\ url # "none"
    /\ attempts < MaxSockets
    /\ attempts' = attempts + 1
    /\ connect_promise' = attempts + 1
    /\ attempt' = [attempt EXCEPT ![attempts + 1] =
                      IF url = "ws" THEN "resolved" ELSE "discovering"]
    /\ UNCHANGED <<ws, sock, url, wireVars>>

Connect ==
    /\ StartAttempt
    /\ UNCHANGED <<requestVars, awaits>>

SendStartsAttempt(c) ==
    /\ phase[c] = "idle"
    /\ StartAttempt
    /\ phase' = [phase EXCEPT ![c] = "connecting"]
    /\ awaits' = [awaits EXCEPT ![c] = attempts + 1]
    /\ UNCHANGED <<next_id, pending, id_of>>

\* connect() throws when there is nothing to dial.
SendWithoutUrl(c) ==
    /\ phase[c] = "idle"
    /\ ~WsOpen
    /\ connect_promise = 0
    /\ url = "none"
    /\ phase' = [phase EXCEPT ![c] = "rejected"]
    /\ UNCHANGED <<next_id, pending, id_of, connVars, wireVars>>

SendOnOpenSocket(c) ==
    /\ phase[c] = "idle"
    /\ WsOpen
    /\ phase' = [phase EXCEPT ![c] = "connected"]
    /\ UNCHANGED <<next_id, pending, id_of, connVars, wireVars>>

\* connect() awaits the promise another call created, which may have settled.
SendJoinsAttempt(c) ==
    /\ phase[c] = "idle"
    /\ ~WsOpen
    /\ connect_promise # 0
    /\ phase' = [phase EXCEPT ![c] =
                    CASE attempt[connect_promise] = "fulfilled" -> "connected"
                      [] attempt[connect_promise] \in {"failing", "failed"} -> "rejected"
                      [] OTHER -> "connecting"]
    /\ awaits' = [awaits EXCEPT ![c] = connect_promise]
    /\ UNCHANGED <<next_id, pending, id_of, ws, connect_promise, attempts, attempt,
                   sock, url, wireVars>>

Close ==
    /\ sock' = [k \in Sockets |->
                   IF k = ws /\ sock[k] \in {"connecting", "open"} THEN "closing" ELSE sock[k]]
    /\ ws' = 0
    /\ connect_promise' = 0
    /\ UNCHANGED <<requestVars, awaits, attempts, attempt, url, wireVars>>

-----------------------------------------------------------------------------
(* Continuations and events of the dial attempt and its socket.            *)

\* resolveCdpWebSocketUrl returns.
Resolves(k) ==
    \/ attempt[k] = "resolved"
    \/ attempt[k] = "discovering" /\ MacrotaskMayRun

\* It has returned: the URL is stored and socket k created.
Dial(k) ==
    /\ Resolves(k)
    /\ attempt' = [attempt EXCEPT ![k] = "opening"]
    /\ sock' = [sock EXCEPT ![k] = "connecting"]
    /\ ws' = k
    /\ url' = "ws"
    /\ UNCHANGED <<requestVars, awaits, connect_promise, attempts, wireVars>>

\* The discovery request failed, or the URL is stored and new WebSocket throws.
AttemptFails(k) ==
    /\ Resolves(k)
    /\ url' \in IF attempt[k] = "resolved" THEN {"ws"} ELSE {url, "ws"}
    /\ attempt' = [attempt EXCEPT ![k] = "failing"]
    /\ phase' = [c \in Calls |-> IF c \in Waiting(k) THEN "rejected" ELSE phase[c]]
    /\ UNCHANGED <<next_id, pending, id_of, awaits, ws, connect_promise, attempts, sock, wireVars>>

\* The catch block of the connect() that created attempt k.
ConnectCatches(k) ==
    /\ attempt[k] = "failing"
    /\ attempt' = [attempt EXCEPT ![k] = "failed"]
    /\ connect_promise' = 0
    /\ UNCHANGED <<requestVars, awaits, ws, attempts, sock, url, wireVars>>

OpenEvent(k) ==
    /\ sock[k] = "connecting"
    /\ MacrotaskMayRun
    /\ sock' = [sock EXCEPT ![k] = "open"]
    /\ attempt' = [attempt EXCEPT ![k] = "fulfilled"]
    /\ phase' = [c \in Calls |-> IF c \in Waiting(k) THEN "connected" ELSE phase[c]]
    /\ UNCHANGED <<next_id, pending, id_of, awaits, ws, connect_promise, attempts,
                   url, wireVars>>

\* Bug: a listener that returns early for a socket that is not this.ws.
SocketGone_currentOnly(k, others) ==
    /\ IF ws = k
          THEN ws' = 0 /\ connect_promise' = 0 /\ EmitClose(others)
          ELSE UNCHANGED <<requestVars, ws, connect_promise>>
    /\ received' = [received EXCEPT ![k] = {}]
    /\ inbound' = [inbound EXCEPT ![k] = {}]
    /\ UNCHANGED <<awaits, attempts, url, sent_on, reply>>

\* The listeners of "error" and of "close" do the same to the transport; the
\* one onError adds while the socket opens rejects the attempt.
SocketGone(k, others) ==
    /\ ws' = IF ws = k THEN 0 ELSE ws
    /\ connect_promise' = 0
    /\ EmitClose(others)
    /\ received' = [received EXCEPT ![k] = {}]
    /\ inbound' = [inbound EXCEPT ![k] = {}]
    /\ UNCHANGED <<awaits, attempts, url, sent_on, reply>>

\* Bug: no onError listener while the socket opens.
ErrorEvent_noReject(k) ==
    /\ sock[k] \in {"connecting", "open", "closing"}
    /\ MacrotaskMayRun
    /\ sock' = [sock EXCEPT ![k] = "failing"]
    /\ UNCHANGED attempt
    /\ SocketGone(k, {})

ErrorEvent(k) ==
    /\ sock[k] \in {"connecting", "open", "closing"}
    /\ MacrotaskMayRun
    /\ sock' = [sock EXCEPT ![k] = "failing"]
    /\ attempt' = [attempt EXCEPT ![k] = IF @ = "opening" THEN "failing" ELSE @]
    /\ SocketGone(k, IF attempt[k] = "opening" THEN Waiting(k) ELSE {})

CloseEvent(k) ==
    /\ \/ sock[k] = "failing" /\ MicrotasksDone
       \/ sock[k] = "closing" /\ attempt[k] # "opening" /\ MacrotaskMayRun
    /\ sock' = [sock EXCEPT ![k] = "closed"]
    /\ UNCHANGED attempt
    /\ SocketGone(k, {})

\* The browser starts the closing handshake: readyState is CLOSING until the
\* close event.
BrowserCloses(k) ==
    /\ sock[k] = "open"
    /\ MacrotaskMayRun
    /\ sock' = [sock EXCEPT ![k] = "closing"]
    /\ UNCHANGED <<requestVars, awaits, ws, connect_promise, attempts, attempt,
                   url, wireVars>>

-----------------------------------------------------------------------------
(* The command itself.                                                     *)

CommandOf(c) == [id |-> next_id, call |-> c]
ResponseTo(m, kind) == [id |-> m.id, kind |-> kind]

\* The continuation of send() after connect(): UpstreamTransport.send.
Dispatch(c) ==
    /\ phase[c] = "connected"
    /\ \/ /\ WsOpen
          /\ RegisterCall(c)
          /\ received' = [received EXCEPT ![ws] = @ \cup {CommandOf(c)}]
          /\ sent_on' = [sent_on EXCEPT ![c] = ws]
       \/ /\ ~WsOpen
          /\ RegisterFails(c)
          /\ UNCHANGED <<received, sent_on>>
    /\ UNCHANGED <<connVars, inbound, reply>>

BrowserAnswers(k, m, kind) ==
    /\ m \in received[k]
    /\ received' = [received EXCEPT ![k] = @ \ {m}]
    /\ inbound' = [inbound EXCEPT ![k] = @ \cup {ResponseTo(m, kind)}]
    /\ reply' = [reply EXCEPT ![m.call] = kind]
    /\ UNCHANGED <<requestVars, connVars, sent_on>>

\* A "message" event; a socket that is not OPEN delivers none.
ReceiveResponse(k, m) ==
    /\ m \in inbound[k]
    /\ sock[k] = "open"
    /\ MacrotaskMayRun
    /\ inbound' = [inbound EXCEPT ![k] = @ \ {m}]
    /\ AcceptResponse(m.id, m.kind)
    /\ UNCHANGED <<connVars, received, sent_on, reply>>

RequestTimeout(c) ==
    /\ MacrotaskMayRun
    /\ TimerFires(c)
    /\ UNCHANGED <<connVars, wireVars>>

-----------------------------------------------------------------------------
User ==
    \/ Connect
    \/ Close
    \/ \E u \in Urls : Update(u)
    \/ \E c \in Calls : SendStartsAttempt(c) \/ SendWithoutUrl(c) \/ SendOnOpenSocket(c)
                       \/ SendJoinsAttempt(c)

Loop ==
    \/ \E k \in Sockets :
          \/ Dial(k) \/ AttemptFails(k) \/ ConnectCatches(k)
          \/ OpenEvent(k) \/ ErrorEvent(k) \/ CloseEvent(k)
          \/ \E m \in inbound[k] : ReceiveResponse(k, m)
    \/ \E c \in Calls : Dispatch(c) \/ RequestTimeout(c)

Browser ==
    \E k \in Sockets :
        \/ BrowserCloses(k)
        \/ \E m \in received[k], kind \in {"result", "error"} : BrowserAnswers(k, m, kind)

Next == User \/ Loop \/ Browser

Spec == Init /\ [][Next]_vars

\* The event loop runs what is queued, timers fire, a discovery request and
\* a dial end one way or the other, and a closing socket gets its close event.
\* Nothing is assumed of the user or of the browser's answers.
Fairness ==
    /\ \A k \in Sockets :
          /\ WF_vars(Dial(k) \/ AttemptFails(k))
          /\ WF_vars(ConnectCatches(k))
          /\ WF_vars(sock[k] = "connecting" /\ (OpenEvent(k) \/ ErrorEvent(k)))
          /\ WF_vars(sock[k] \in {"closing", "failing"} /\ (ErrorEvent(k) \/ CloseEvent(k)))
    /\ \A c \in Calls : WF_vars(Dispatch(c)) /\ WF_vars(RequestTimeout(c))

FairSpec == Spec /\ Fairness

-----------------------------------------------------------------------------
(* Properties.                                                             *)

\* What a caller holds, in the terms of CommandOutcomes.
Outcome(c) ==
    CASE phase[c] = "idle" -> "unsent"
      [] phase[c] \in Settled -> phase[c]
      [] OTHER -> "waiting"

Outcomes == INSTANCE CommandOutcomes WITH outcome <- [c \in Calls |-> Outcome(c)]

\* What is on the wire of socket k belongs to a command written to it.
WireMatchesCalls ==
    /\ \A c \in Calls : reply[c] # "none" => id_of[c] # 0
    /\ \A k \in Sockets : \A m \in received[k] :
           /\ id_of[m.call] = m.id
           /\ sent_on[m.call] = k
           /\ reply[m.call] = "none"
    /\ \A k \in Sockets : \A m \in inbound[k] :
           \E c \in Calls : id_of[c] = m.id /\ reply[c] = m.kind

\* connect_promise and the awaiting calls refer to attempts that were started.
AttemptsAreStarted ==
    /\ connect_promise <= attempts
    /\ \A k \in Sockets : attempt[k] = "unused" <=> k > attempts
    /\ \A k \in Sockets : sock[k] # "none" => k <= attempts

\* The transport keeps the promise of CommandOutcomes: whatever closes,
\* reconnects and times out in between, a promise settles once and resolves
\* only with the result the browser gave to its own command.
KeepsPromises == Outcomes!Spec

\* No request waits on a socket whose close event was handled: emitClose
\* (lines 212-219) leaves nobody behind, also when another socket has become
\* the current one.
NoneWaitsOnDeadSocket ==
    \A c \in Calls : phase[c] = "pending" =>
        /\ sent_on[c] \in Sockets
        /\ sock[sent_on[c]] \notin {"failing", "closed"}

\* A send() that awaits connect() awaits an attempt that is still running, and
\* an attempt that opens a socket (lines 94-109) has not missed the event that
\* ends it: no error or close event of the socket leaves a caller waiting.
AwaitedAttemptRuns ==
    /\ \A c \in Calls : phase[c] = "connecting" =>
           /\ awaits[c] \in Sockets
           /\ attempt[awaits[c]] \in {"discovering", "resolved", "opening"}
    /\ \A k \in Sockets : attempt[k] = "opening" => sock[k] \in {"connecting", "closing"}

\* A command is on at most one socket, and an answer in flight is for an id
\* whose command was sent: ids are never used for two commands.
IdsNameOneCommand ==
    \A k, l \in Sockets : \A m \in received[k], n \in received[l] :
        m.id = n.id => k = l /\ m = n

\* Every send with a timeout settles, through failed dials, lost sockets and
\* a browser that never answers (the timer at line 127 of UpstreamTransport
\* only starts after connect()).
TimedCallsSettle ==
    \A c \in Timed : phase[c] # "idle" ~> phase[c] \in Settled

\* A send without a timeout on a socket that closes settles too.
ClosedSocketSettlesCalls ==
    \A c \in Calls :
        (phase[c] = "pending" /\ sock[sent_on[c]] = "closing") ~> phase[c] \in Settled

=============================================================================
