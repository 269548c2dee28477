------------------------------- MODULE Proxy -------------------------------
(***************************************************************************)
(* The standalone proxy (js/src/proxy/proxy.ts): each downstream websocket *)
(* gets a ModCDPClient of its own, which launches a browser or finds one,  *)
(* connects its upstream and sets up the extension                         *)
(* (js/src/client/ModCDPClient.ts, js/src/launcher); what the downstream   *)
(* client sends before that is queued.  In reversews mode every client     *)
(* shares one listener for the extension's peer, and no client connects:   *)
(* the proxy waits for the peer instead.                                   *)
(***************************************************************************)
EXTENDS Naturals, Sequences

CONSTANTS
  Sockets,      \* downstream websockets
  MaxMessages   \* bound: messages on each of them

ASSUME MessagesAssumption == MaxMessages \in [Sockets -> Nat]

VARIABLES
  mode,            \* launcher and upstream of the proxy's configuration
  socket,          \* the downstream websockets
  stage,           \* the await connectDownstream() of each is in
  connected,       \* its flag
  sent,            \* messages each downstream client has sent
  queue,           \* queued_raw_messages
  handed,          \* messages given to cdp.send(), in order
  active_clients,  \* the clients, by their socket
  launched,        \* launcher.launched is set
  browser,         \* the process the launcher spawned
  upstream,        \* the client's own websocket or pipe
  clean,           \* connect() and every dial were over when the socket closed
  listener,        \* the shared transport's reversews_listener
  peer,            \* it has a peer
  closing,         \* how far close() of the proxy is
  visited          \* clients it has called close() of

messageVars == <<sent, queue, handed>>
clientVars == <<launched, browser, upstream>>
sharedVars == <<listener, peer>>
proxyVars == <<closing, visited>>
vars == <<mode, socket, stage, connected, messageVars, active_clients, clientVars, clean,
          sharedVars, proxyVars>>

(* A websocket upstream to a browser that is there or that the launcher    *)
(* spawns, a pipe to one it spawns, the listener for the extension: what   *)
(* the constructor of ModCDPClient accepts.  Where it throws, no try block *)
(* of connectDownstream() catches that and Node ends the process.          *)
Modes == {"remote", "local", "pipe", "reversews"}

Connecting == {"preparing", "launching", "dialing", "setup"}
Waiting == {"waiting", "relisting", "waiting_again"}
Stages == {"none", "failing", "ended", "stuck"} \cup Connecting \cup Waiting

(* "stray": left behind by a launch() that failed.                         *)
BrowserStates == {"none", "up", "ending", "stray"}

TypeOK ==
  /\ mode \in Modes
  /\ socket \in [Sockets -> {"none", "open", "closing", "closed"}]
  /\ stage \in [Sockets -> Stages]
  /\ connected \in [Sockets -> BOOLEAN]
  /\ sent \in [Sockets -> Nat]
  /\ queue \in [Sockets -> Seq(Nat)]
  /\ handed \in [Sockets -> Seq(Nat)]
  /\ active_clients \subseteq Sockets
  /\ launched \in [Sockets -> BOOLEAN]
  /\ browser \in [Sockets -> BrowserStates]
  /\ upstream \in [Sockets -> {"closed", "dialing", "open"}]
  /\ clean \in [Sockets -> BOOLEAN]
  /\ listener \in {"none", "starting", "listening", "failed", "closing"}
  /\ peer \in BOOLEAN
  /\ closing \in {"no", "clients", "sockets"}
  /\ visited \subseteq Sockets

(* startProxy(): in reversews mode it starts the listener at once.         *)
Init ==
  /\ mode \in Modes
  /\ socket = [s \in Sockets |-> "none"]
  /\ stage = [s \in Sockets |-> "none"]
  /\ connected = [s \in Sockets |-> FALSE]
  /\ sent = [s \in Sockets |-> 0]
  /\ queue = [s \in Sockets |-> <<>>]
  /\ handed = [s \in Sockets |-> <<>>]
  /\ active_clients = {}
  /\ launched = [s \in Sockets |-> FALSE]
  /\ browser = [s \in Sockets |-> "none"]
  /\ upstream = [s \in Sockets |-> "closed"]
  /\ clean = [s \in Sockets |-> FALSE]
  /\ listener = IF mode = "reversews" THEN "starting" ELSE "none"
  /\ peer = FALSE
  /\ closing = "no"
  /\ visited = {}

-----------------------------------------------------------------------------
(* What the actions share.                                                 *)

(* The sockets in S are connected: their queues go to cdp.send().          *)
Connect(S) ==
  /\ connected' = [s \in Sockets |-> s \in S \/ connected[s]]
  /\ handed' = [s \in Sockets |-> IF s \in S THEN handed[s] \o queue[s] ELSE handed[s]]
  /\ queue' = [s \in Sockets |-> IF s \in S THEN <<>> ELSE queue[s]]
  /\ UNCHANGED sent

(* close() of the shared transport: its waiters are rejected once the      *)
(* listener is closed.  A first wait goes on to connect(), which opens     *)
(* another listener, a second one is over.                                 *)
RejectWaiters ==
  /\ stage' = [s \in Sockets |-> CASE stage[s] = "waiting" -> "relisting"
                                   [] stage[s] = "waiting_again" -> "ended"
                                   [] OTHER -> stage[s]]
  /\ listener' = IF \E s \in Sockets : stage[s] = "waiting" THEN "starting" ELSE "none"

CloseShared ==
  /\ peer' = FALSE
  /\ IF listener = "none" THEN RejectWaiters
                          ELSE listener' = "closing" /\ UNCHANGED stage

CloseUpstream(s) ==
  upstream' = [upstream EXCEPT ![s] = IF @ = "open" THEN "closed" ELSE @]

(* Bug: close() of the client leaves the browser it launched.              *)
CloseClient_browser(s) ==
  /\ launched' = [launched EXCEPT ![s] = FALSE]
  /\ CloseUpstream(s)
  /\ UNCHANGED browser

(* close() of the client: the launcher's browser, then the upstream.       *)
CloseClient(s) ==
  /\ launched' = [launched EXCEPT ![s] = FALSE]
  /\ IF launched[s] /\ browser[s] = "up"
       THEN browser' = [browser EXCEPT ![s] = "ending"] /\ UNCHANGED upstream
       ELSE CloseUpstream(s) /\ UNCHANGED browser

(* close() of the proxy goes from one client to the next, and on, without  *)
(* letting any other task run unless a close() it awaits is under way.     *)
NoneAwaited == listener # "closing" /\ \A s \in visited : browser[s] # "ending"

LoopRuns == closing = "clients" /\ NoneAwaited

-----------------------------------------------------------------------------
(* A downstream websocket opens: connectDownstream(), up to its first      *)
(* wait.  A peer counts if it connected in the millisecond of the call.    *)
Open(s) ==
  /\ ~LoopRuns
  /\ socket[s] = "none"
  /\ closing # "sockets"
  /\ socket' = [socket EXCEPT ![s] = "open"]
  /\ active_clients' = active_clients \cup {s}
  /\ \/ /\ mode # "reversews"
        /\ stage' = [stage EXCEPT ![s] = "preparing"]
        /\ UNCHANGED <<connected, messageVars>>
     \/ /\ mode = "reversews"
        /\ stage' = [stage EXCEPT ![s] = "waiting"]
        /\ UNCHANGED <<connected, messageVars>>
     \/ /\ mode = "reversews" /\ peer
        /\ stage' = [stage EXCEPT ![s] = "ended"]
        /\ Connect({s})
  /\ UNCHANGED <<mode, clientVars, clean, sharedVars, proxyVars>>

(* Bug: a message that comes while a peer is there is not queued.          *)
Handles_peer(s) == connected[s] \/ peer

Handles(s) == connected[s]

(* A message: queued, or handed to the client, whose websocket dials again *)
(* when it is gone.  It is a command: one that does not parse ends the     *)
(* process, as a constructor that throws does.                             *)
Message(s) ==
  LET m == sent[s] + 1 IN
  /\ ~LoopRuns
  /\ socket[s] = "open"
  /\ sent[s] < MaxMessages[s]
  /\ sent' = [sent EXCEPT ![s] = m]
  /\ IF Handles(s)
       THEN /\ handed' = [handed EXCEPT ![s] = Append(@, m)]
            /\ upstream' = [upstream EXCEPT ![s] =
                 IF @ = "closed" /\ mode \in {"remote", "local"} THEN "dialing" ELSE @]
            /\ UNCHANGED queue
       ELSE /\ queue' = [queue EXCEPT ![s] = Append(@, m)]
            /\ UNCHANGED <<handed, upstream>>
  /\ UNCHANGED <<mode, socket, stage, connected, active_clients, launched, browser, clean,
                 sharedVars, proxyVars>>

-----------------------------------------------------------------------------
(* connect() of a client.                                                  *)

(* Bug: the downstream websocket stays open after a failure.               *)
Fail_open(s) ==
  /\ stage' = [stage EXCEPT ![s] = "ended"]
  /\ active_clients' = active_clients \ {s}
  /\ CloseClient(s)

(* connect() threw: the client is closed, then its websocket.              *)
Fail(s) ==
  /\ stage' = [stage EXCEPT ![s] = "failing"]
  /\ active_clients' = active_clients \ {s}
  /\ CloseClient(s)

(* The injector is prepared: the launcher spawns its browser.              *)
Spawn(s) ==
  /\ ~LoopRuns
  /\ stage[s] = "preparing"
  /\ stage' = [stage EXCEPT ![s] = "launching"]
  /\ browser' = [browser EXCEPT ![s] = IF mode = "remote" THEN @ ELSE "up"]
  /\ UNCHANGED <<mode, socket, connected, messageVars, active_clients, launched, upstream, clean,
                 sharedVars, proxyVars>>

PrepareFails(s) ==
  /\ ~LoopRuns
  /\ stage[s] = "preparing"
  /\ Fail(s)
  /\ UNCHANGED <<mode, socket, connected, messageVars, clean, sharedVars, proxyVars>>

(* launch() returns; the upstream is dialled.                              *)
Launched(s) ==
  /\ ~LoopRuns
  /\ stage[s] = "launching"
  /\ mode # "remote" => browser[s] = "up"
  /\ stage' = [stage EXCEPT ![s] = "dialing"]
  /\ launched' = [launched EXCEPT ![s] = TRUE]
  /\ upstream' = [upstream EXCEPT ![s] = "dialing"]
  /\ UNCHANGED <<mode, socket, connected, messageVars, active_clients, browser, clean, sharedVars,
                 proxyVars>>

(* launch() throws.  Its browser is closed, or not: when a pipe does not   *)
(* become ready, or DevToolsActivePort cannot be read, launch() throws     *)
(* without close(), and nothing refers to the process any more.            *)
LaunchFails(s) ==
  /\ ~LoopRuns
  /\ stage[s] = "launching"
  /\ stage' = [stage EXCEPT ![s] = "failing"]
  /\ active_clients' = active_clients \ {s}
  /\ \E left \in {"none", "stray"} :
       /\ left = "stray" => browser[s] = "up"
       /\ browser' = [browser EXCEPT ![s] = left]
  /\ UNCHANGED <<mode, socket, connected, messageVars, launched, upstream, clean, sharedVars,
                 proxyVars>>

(* The dial of connect() or of a later command opens; a pipe only needs    *)
(* the handles the launcher set.                                           *)
DialOpens(s) ==
  /\ ~LoopRuns
  /\ upstream[s] = "dialing"
  /\ upstream' = [upstream EXCEPT ![s] = "open"]
  /\ stage' = [stage EXCEPT ![s] = IF @ = "dialing" THEN "setup" ELSE @]
  /\ UNCHANGED <<mode, socket, connected, messageVars, active_clients, launched, browser, clean,
                 sharedVars, proxyVars>>

DialFails(s) ==
  /\ ~LoopRuns
  /\ upstream[s] = "dialing"
  /\ IF stage[s] # "dialing"
       THEN /\ upstream' = [upstream EXCEPT ![s] = "closed"]
            /\ UNCHANGED <<stage, active_clients, launched, browser>>
       ELSE /\ stage' = [stage EXCEPT ![s] = "failing"]
            /\ active_clients' = active_clients \ {s}
            /\ launched' = [launched EXCEPT ![s] = FALSE]
            /\ browser' = [browser EXCEPT ![s] = IF launched[s] /\ @ = "up" THEN "ending" ELSE @]
            /\ upstream' = [upstream EXCEPT ![s] = "closed"]
  /\ UNCHANGED <<mode, socket, connected, messageVars, clean, sharedVars, proxyVars>>

(* A command of router.start(), the injector or Mod.configure finds the    *)
(* websocket gone.                                                         *)
Redial(s) ==
  /\ ~LoopRuns
  /\ stage[s] = "setup"
  /\ upstream[s] = "closed" /\ mode \in {"remote", "local"}
  /\ upstream' = [upstream EXCEPT ![s] = "dialing"]
  /\ UNCHANGED <<mode, socket, stage, connected, messageVars, active_clients, launched, browser,
                 clean, sharedVars, proxyVars>>

SetupEnds(s) ==
  /\ ~LoopRuns
  /\ stage[s] = "setup"
  /\ upstream[s] = "open"
  /\ stage' = [stage EXCEPT ![s] = "ended"]
  /\ Connect({s})
  /\ UNCHANGED <<mode, socket, active_clients, clientVars, clean, sharedVars, proxyVars>>

SetupFails(s) ==
  /\ ~LoopRuns
  /\ stage[s] = "setup"
  /\ Fail(s)
  /\ UNCHANGED <<mode, socket, connected, messageVars, clean, sharedVars, proxyVars>>

(* The client is closed after a failure: close its websocket.              *)
FailureEnds(s) ==
  /\ stage[s] = "failing"
  /\ browser[s] # "ending"
  /\ stage' = [stage EXCEPT ![s] = "ended"]
  /\ socket' = [socket EXCEPT ![s] = IF @ = "open" THEN "closing" ELSE @]
  /\ UNCHANGED <<mode, connected, messageVars, active_clients, clientVars, clean, sharedVars,
                 proxyVars>>

(* terminateProcess() is done; the close() that awaits it goes on.         *)
BrowserEnds(s) ==
  /\ ~LoopRuns
  /\ browser[s] = "ending"
  /\ browser' = [browser EXCEPT ![s] = "none"]
  /\ CloseUpstream(s)
  /\ UNCHANGED <<mode, socket, stage, connected, messageVars, active_clients, launched, clean,
                 sharedVars, proxyVars>>

(* The browser dies, or closes the upstream's connection.                  *)
BrowserCrashes(s) ==
  /\ ~LoopRuns
  /\ browser[s] = "up"
  /\ browser' = [browser EXCEPT ![s] = "none"]
  /\ CloseUpstream(s)
  /\ UNCHANGED <<mode, socket, stage, connected, messageVars, active_clients, launched, clean,
                 sharedVars, proxyVars>>

UpstreamCloses(s) ==
  /\ ~LoopRuns
  /\ upstream[s] = "open"
  /\ CloseUpstream(s)
  /\ UNCHANGED <<mode, socket, stage, connected, messageVars, active_clients, launched, browser,
                 clean, sharedVars, proxyVars>>

-----------------------------------------------------------------------------
(* The wait for the extension's peer in reversews mode.                    *)

(* listening, or the address is taken.  connect() of those who waited for  *)
(* it returns or is caught, and they wait for a peer again.                *)
ListenerUp(ok) ==
  /\ ~LoopRuns
  /\ listener = "starting"
  /\ listener' = IF ok THEN "listening" ELSE "failed"
  /\ stage' = [s \in Sockets |-> IF stage[s] = "relisting" THEN "waiting_again" ELSE stage[s]]
  /\ UNCHANGED <<mode, socket, connected, messageVars, active_clients, clientVars, clean, peer,
                 proxyVars>>

(* accept() gets a hello, of the first peer or of one that replaces it:    *)
(* every waiter goes on.                                                   *)
PeerConnects ==
  LET S == {s \in Sockets : stage[s] \in {"waiting", "waiting_again"}} IN
  /\ ~LoopRuns
  /\ listener = "listening"
  /\ peer' = TRUE
  /\ stage' = [s \in Sockets |-> IF s \in S THEN "ended" ELSE stage[s]]
  /\ Connect(S)
  /\ UNCHANGED <<mode, socket, active_clients, clientVars, clean, listener, proxyVars>>

PeerLost ==
  /\ ~LoopRuns
  /\ peer
  /\ peer' = FALSE
  /\ UNCHANGED <<mode, socket, stage, connected, messageVars, active_clients, clientVars, clean,
                 listener, proxyVars>>

(* upstream_reversews_wait_timeout_ms, the first time: connect() again,    *)
(* which waits for a "listening" that a listener emits only once.          *)
WaitTimesOut(s) ==
  /\ ~LoopRuns
  /\ stage[s] = "waiting"
  /\ IF listener \in {"none", "starting"}
       THEN /\ listener' = "starting"
            /\ stage' = [stage EXCEPT ![s] = "relisting"]
       ELSE /\ stage' = [stage EXCEPT ![s] = "stuck"]
            /\ UNCHANGED listener
  /\ UNCHANGED <<mode, socket, connected, messageVars, active_clients, clientVars, clean, peer,
                 proxyVars>>

(* The second time nothing follows.                                        *)
SecondWaitTimesOut(s) ==
  /\ ~LoopRuns
  /\ stage[s] = "waiting_again"
  /\ stage' = [stage EXCEPT ![s] = "ended"]
  /\ UNCHANGED <<mode, socket, connected, messageVars, active_clients, clientVars, clean,
                 sharedVars, proxyVars>>

(* A listener is closed.  One that was starting never says "listening".    *)
ListenerClosed ==
  /\ ~LoopRuns
  /\ listener = "closing"
  /\ listener' = IF \E s \in Sockets : stage[s] = "waiting" THEN "starting" ELSE "none"
  /\ stage' = [s \in Sockets |-> CASE stage[s] = "waiting" -> "relisting"
                                   [] stage[s] = "relisting" -> "stuck"
                                   [] stage[s] = "waiting_again" -> "ended"
                                   [] OTHER -> stage[s]]
  /\ UNCHANGED <<mode, socket, connected, messageVars, active_clients, clientVars, clean, peer,
                 proxyVars>>

-----------------------------------------------------------------------------
(* close() of a client in either mode.                                     *)
CloseCdp(s) ==
  IF mode = "reversews" THEN CloseShared /\ UNCHANGED clientVars
                        ELSE CloseClient(s) /\ UNCHANGED <<sharedVars, stage>>

(* A downstream websocket is closed, by either side.                       *)
SocketCloses(s) ==
  /\ ~LoopRuns
  /\ socket[s] \in {"open", "closing"}
  /\ socket' = [socket EXCEPT ![s] = "closed"]
  /\ active_clients' = active_clients \ {s}
  /\ CloseCdp(s)
  /\ clean' = [clean EXCEPT ![s] = stage[s] \in {"failing", "ended"} /\ upstream[s] # "dialing"]
  /\ UNCHANGED <<mode, connected, messageVars, proxyVars>>

(* close() of the proxy calls close() of every client, one after the       *)
(* other.                                                                  *)
LoopMayGoOn == closing = "no" \/ LoopRuns

CloseNext(s) ==
  /\ LoopMayGoOn
  /\ s \in active_clients \ visited
  /\ closing' = "clients"
  /\ visited' = visited \cup {s}
  /\ CloseCdp(s)
  /\ UNCHANGED <<mode, socket, connected, messageVars, active_clients, clean>>

(* With no client left, in the same task: every downstream websocket is    *)
(* closed, and no other one can open.                                      *)
CloseSockets ==
  /\ LoopMayGoOn
  /\ active_clients \subseteq visited
  /\ closing' = "sockets"
  /\ active_clients' = {}
  /\ socket' = [s \in Sockets |-> IF socket[s] = "open" THEN "closing" ELSE socket[s]]
  /\ UNCHANGED <<mode, stage, connected, messageVars, clientVars, clean, sharedVars, visited>>

Next ==
  \/ \E s \in Sockets :
       \/ Open(s) \/ Message(s) \/ SocketCloses(s)
       \/ Spawn(s) \/ PrepareFails(s) \/ Launched(s) \/ LaunchFails(s)
       \/ DialOpens(s) \/ DialFails(s) \/ Redial(s) \/ SetupEnds(s) \/ SetupFails(s)
       \/ FailureEnds(s) \/ BrowserEnds(s) \/ BrowserCrashes(s) \/ UpstreamCloses(s)
       \/ WaitTimesOut(s) \/ SecondWaitTimesOut(s)
       \/ CloseNext(s)
  \/ \E ok \in BOOLEAN : ListenerUp(ok)
  \/ PeerConnects \/ PeerLost \/ ListenerClosed
  \/ CloseSockets

(* Every await has a timeout of its own, a process can be killed, a        *)
(* closing handshake ends, and close() goes on once what it awaits is over.*)
Fairness ==
  /\ \A s \in Sockets :
       /\ WF_vars(Spawn(s) \/ PrepareFails(s) \/ Launched(s) \/ LaunchFails(s) \/ FailureEnds(s))
       /\ WF_vars(DialOpens(s) \/ DialFails(s))
       /\ WF_vars(SetupEnds(s) \/ SetupFails(s))
       /\ WF_vars(BrowserEnds(s))
       /\ WF_vars(WaitTimesOut(s) \/ SecondWaitTimesOut(s))
       /\ WF_vars(socket[s] = "closing" /\ SocketCloses(s))
  /\ WF_vars(\E ok \in BOOLEAN : ListenerUp(ok))
  /\ WF_vars(ListenerClosed)
  /\ WF_vars(LoopRuns /\ (CloseSockets \/ \E s \in Sockets : CloseNext(s)))

Spec == Init /\ [][Next]_vars /\ Fairness

-----------------------------------------------------------------------------
(* What a downstream client sends reaches its ModCDPClient once and in the *)
(* order sent, across the switch from the queue to direct handling; none   *)
(* of it stays in the queue of a connected socket.                         *)
InOrder ==
  \A s \in Sockets :
    /\ handed[s] \o queue[s] = [i \in 1..sent[s] |-> i]
    /\ connected[s] => queue[s] = <<>>

(* Of a closed downstream websocket nothing is left, neither a browser nor *)
(* an upstream, unless it closed while its connect() or a dial was under   *)
(* way, or launch() failed without closing what it spawned (a stray one).  *)
NothingLeftBehind ==
  \A s \in Sockets :
    socket[s] = "closed" /\ clean[s] /\ browser[s] # "ending"
      => browser[s] \in {"none", "stray"} /\ upstream[s] = "closed"

(* Where every client connects for itself, a downstream websocket ends up  *)
(* connected or closed.                                                    *)
SocketSettles ==
  \A s \in Sockets :
    mode # "reversews" /\ socket[s] = "open" ~> connected[s] \/ socket[s] = "closed"

(* A downstream websocket that opens while a peer is there is served by    *)
(* it, when the peer stays and nobody closes the websocket or the proxy.   *)
PeerServes ==
  \A s \in Sockets :
    /\ [](socket[s] # "none" => socket[s] = "open" /\ peer /\ closing = "no")
    /\ <>(socket[s] = "open")
    => <>connected[s]

=============================================================================
