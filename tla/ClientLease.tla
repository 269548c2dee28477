----------------------------- MODULE ClientLease -----------------------------
(***************************************************************************)
(* The lease that keeps a browser open: the server closes the browser when *)
(* no downstream request arrived for downstream_client_timeout_ms          *)
(* (DownstreamTransportSet.ts), and clients that asked for that send a     *)
(* Mod.ping every client_heartbeat_interval_ms once their Mod.configure    *)
(* has been answered (ModCDPClient.ts).  One lease and one configuration   *)
(* serve all clients.                                                      *)
(*                                                                         *)
(* Time is discrete.  A countdown that has reached 0 stops the clock until *)
(* its step is taken; only the lease timer may be later than its countdown.*)
(***************************************************************************)
EXTENDS Integers

CONSTANTS
  Clients,          \* clients of the server
  Wanting,          \* those with downstream_close_browser_on_disconnect
  Interval,         \* client_heartbeat_interval_ms, the same in every client
  Timeouts,         \* the values downstream_client_timeout_ms takes
  DefaultTimeout,   \* its value in a server nobody has configured
  TimeoutOf,        \* the value each client configures
  Late,             \* how late a heartbeat timer may fire
  Trip,             \* the longest time a message takes
  Configuring       \* the longest time Mod.configure takes in the server

(* A heartbeat arrives before the lease of the configure request is over.  *)
ASSUME LeaseAssumption ==
  /\ Wanting \subseteq Clients
  /\ Interval \in Nat \ {0} /\ Late \in Nat /\ Trip \in Nat /\ Configuring \in Nat
  /\ Timeouts \subseteq Nat \ {0}
  /\ DefaultTimeout \in Timeouts
  /\ TimeoutOf \in [Clients -> Timeouts]
  /\ \A T \in Timeouts : Configuring + Trip + (Interval + Late) + Trip < T

VARIABLES
  state,      \* per client: where its connect() and its life are
  due,        \* per client: time left for its current step
  pings,      \* per client: time left for each ping under way
  lease,      \* time left of downstream_client_lease, NoLease when null
  timeout,    \* downstream_client_timeout_ms in the server
  close,      \* downstream_close_browser_on_disconnect in the server
  closed      \* Browser.close was sent

leaseVars == <<state, due, pings, lease, timeout, close, closed>>

NoLease == -1
Handled == {"received", "applied", "answered"}   \* the configure request arrived
States == {"out", "sent", "beating", "live", "gone"} \cup Handled
Timed == {"sent", "beating"} \cup Handled

LeaseTypeOK ==
  /\ state \in [Clients -> States]
  /\ due \in [Clients -> Nat]
  /\ pings \in [Clients -> SUBSET (0..Trip)]
  /\ lease \in Nat \cup {NoLease}
  /\ timeout \in Timeouts
  /\ close \in BOOLEAN
  /\ closed \in BOOLEAN

LeaseInit ==
  /\ state = [c \in Clients |-> "out"]
  /\ due = [c \in Clients |-> 0]
  /\ pings = [c \in Clients |-> {}]
  /\ lease = NoLease
  /\ timeout = DefaultTimeout
  /\ close = FALSE
  /\ closed = FALSE

-----------------------------------------------------------------------------
(* Bug: a running lease is left to run out.                                *)
TouchClientLease_once == lease' = IF lease = NoLease THEN timeout ELSE lease

(* touchClientLease(), run before every request is handled.                *)
TouchClientLease == lease' = timeout

Becomes(c, s, time) ==
  /\ state' = [state EXCEPT ![c] = s]
  /\ due' = [due EXCEPT ![c] = time]

(* connect() sends Mod.configure.                                          *)
SendConfigure(c) ==
  /\ state[c] = "out"
  /\ Becomes(c, "sent", Trip)
  /\ UNCHANGED <<pings, lease, timeout, close, closed>>

(* The request touches the lease with the timeout configured before it,    *)
(* and waits for the request middlewares.                                  *)
ReceiveConfigure(c) ==
  /\ state[c] = "sent"
  /\ TouchClientLease
  /\ Becomes(c, "received", Configuring)
  /\ UNCHANGED <<pings, timeout, close, closed>>

(* Bug: a new configuration drops the lease granted under the old one.     *)
ApplyConfigure_drops(c) ==
  /\ state[c] = "received"
  /\ timeout' = TimeoutOf[c]
  /\ close' = (c \in Wanting)
  /\ lease' = NoLease
  /\ Becomes(c, "applied", due[c])
  /\ UNCHANGED <<pings, closed>>

(* downstream.update(): the configuration of the last client counts for    *)
(* all of them.                                                            *)
ApplyConfigure(c) ==
  /\ state[c] = "received"
  /\ timeout' = TimeoutOf[c]
  /\ close' = (c \in Wanting)
  /\ Becomes(c, "applied", due[c])
  /\ UNCHANGED <<pings, lease, closed>>

(* The server's upstream is connected, or is not: an error answer rejects  *)
(* connect() and nothing more comes of this client.                        *)
AnswerConfigure(c) ==
  /\ state[c] = "applied"
  /\ \/ Becomes(c, "answered", Trip)
     \/ Becomes(c, "gone", 0)
  /\ UNCHANGED <<pings, lease, timeout, close, closed>>

(* _startHeartbeat(): only for a client that wants the browser closed.     *)
StartHeartbeat(c) ==
  /\ state[c] = "answered"
  /\ IF c \in Wanting
     THEN Becomes(c, "beating", Interval + Late)
     ELSE Becomes(c, "live", 0)
  /\ UNCHANGED <<pings, lease, timeout, close, closed>>

Heartbeat(c) ==
  /\ state[c] = "beating"
  /\ due[c] <= Late
  /\ pings' = [pings EXCEPT ![c] = @ \cup {Trip}]
  /\ Becomes(c, "beating", Interval + Late)
  /\ UNCHANGED <<lease, timeout, close, closed>>

ReceivePing(c) ==
  /\ \E time \in pings[c] : pings' = [pings EXCEPT ![c] = @ \ {time}]
  /\ TouchClientLease
  /\ UNCHANGED <<state, due, timeout, close, closed>>

(* Any other request of a connected client.                                *)
ReceiveCommand(c) ==
  /\ state[c] \in {"beating", "live"}
  /\ TouchClientLease
  /\ UNCHANGED <<state, due, pings, timeout, close, closed>>

(* close(), a crash, or the loss of the connection, which stops the        *)
(* heartbeat for good.                                                     *)
Leave(c) ==
  /\ state[c] \notin {"out", "gone"}
  /\ Becomes(c, "gone", 0)
  /\ UNCHANGED <<pings, lease, timeout, close, closed>>

(* The lease timer.                                                        *)
ExpireLease ==
  /\ lease = 0
  /\ lease' = NoLease
  /\ closed' = close
  /\ UNCHANGED <<state, due, pings, timeout, close>>

Tick ==
  /\ \A c \in Clients : /\ state[c] \in Timed => due[c] > 0
                        /\ 0 \notin pings[c]
  /\ due' = [c \in Clients |-> IF state[c] \in Timed THEN due[c] - 1 ELSE due[c]]
  /\ pings' = [c \in Clients |-> {time - 1 : time \in pings[c]}]
  /\ lease' = IF lease > 0 THEN lease - 1 ELSE lease
  /\ UNCHANGED <<state, timeout, close, closed>>

LeaseNext ==
  /\ ~closed
  /\ \/ \E c \in Clients :
          \/ SendConfigure(c) \/ ReceiveConfigure(c) \/ ApplyConfigure(c)
          \/ AnswerConfigure(c) \/ StartHeartbeat(c) \/ Heartbeat(c)
          \/ ReceivePing(c) \/ ReceiveCommand(c) \/ Leave(c)
     \/ ExpireLease
     \/ Tick

(* Time passes and timers fire.                                            *)
LeaseFairness == WF_leaseVars(~closed /\ Tick) /\ WF_leaseVars(~closed /\ ExpireLease)
            /\ \A c \in Clients : WF_leaseVars(~closed /\ ReceivePing(c))

LeaseSpec == LeaseInit /\ [][LeaseNext]_leaseVars /\ LeaseFairness

-----------------------------------------------------------------------------
(* The lease never closes the browser under a client that asked for the    *)
(* closing and is connected or being configured: neither while its         *)
(* configure request is worked on, nor between two late heartbeats, and    *)
(* whatever timeout another client has configured meanwhile.               *)
NotClosedUnderClient ==
  closed => \A c \in Wanting : state[c] \notin Handled \cup {"beating"}

(* Once all clients are gone and the closing was asked for last, the       *)
(* browser is closed, also when the last client went during its configure. *)
ClosedWhenAllGone ==
  (\A c \in Clients : state[c] = "gone") /\ close ~> closed
=============================================================================
