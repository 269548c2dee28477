---------------------------- MODULE ReverseWSLink ----------------------------
(***************************************************************************)
(* Both ends of the reverse link and the network between them: one         *)
(* extension, one listening process.  A slot is one TCP connection; each   *)
(* end has its own readyState for it and learns of the other end's close   *)
(* some time later.  The extension's sockets deliver on separate           *)
(* connections, so the hello of an older socket may come after that of a   *)
(* newer one.  Faults (a broken connection, a hello slower than the        *)
(* server's timer) are bounded by MaxFaults, user operations are not.      *)
(***************************************************************************)
EXTENDS ReverseWSUpstreamTransport

CONSTANT MaxFaults      \* bound: network faults

ASSUME FaultAssumption == MaxFaults \in Nat

VARIABLES
    ext_started, ext_socket, ext_timer, ext_ready,  \* the extension's end
    accepted,           \* slots whose connection the server has accepted
    hello_sent,         \* slots whose hello has been sent
    faults              \* faults so far

Extension == INSTANCE ReverseWSDownstreamTransport WITH
    started <- ext_started, socket <- ext_socket, reconnect_timer <- ext_timer,
    ready <- ext_ready

proxyVars == <<requestVars, peerVars, wireVars>>
extVars == <<ext_started, ext_socket, ext_timer, ext_ready>>
netVars == <<accepted, hello_sent, faults>>
linkVars == <<proxyVars, extVars, netVars>>

LinkTypeOK ==
    /\ TypeOK
    /\ Extension!TypeOK
    /\ accepted \subseteq Slots
    /\ hello_sent \subseteq Slots
    /\ faults \in 0..MaxFaults

LinkInit ==
    /\ Init
    /\ Extension!Init
    /\ accepted = {}
    /\ hello_sent = {}
    /\ faults = 0

\* A slot is used for a new connection when both ends are done with it.
Unused(k) == ext_ready[k] \in Extension!Free /\ ready[k] \in {"none", "closed"}

Fault == faults < MaxFaults /\ faults' = faults + 1

-----------------------------------------------------------------------------
(* The extension's steps.                                                  *)

Dials(k) == ext_ready'[k] = "connecting" /\ ext_ready[k] # "connecting"

\* A connection in an unused slot, the first one.
InSlot(k) ==
    /\ Dials(k) => Unused(k) /\ \A l \in 1..(k - 1) : ~Unused(l)
    /\ accepted' = IF Dials(k) THEN accepted \ {k} ELSE accepted
    /\ hello_sent' = IF Dials(k) THEN hello_sent \ {k} ELSE hello_sent
    /\ UNCHANGED <<proxyVars, faults>>

ExtensionStarts(k) == Extension!Start(k) /\ InSlot(k)

ExtensionReconnects(k) == Extension!ReconnectTimer(k) /\ InSlot(k)

ExtensionStops == Extension!Stop /\ UNCHANGED <<proxyVars, netVars>>

\* The "open" listener sends the hello.
ExtensionOpens(k) ==
    /\ k \in accepted
    /\ Extension!OpenEvent(k)
    /\ hello_sent' = hello_sent \cup {k}
    /\ UNCHANGED <<proxyVars, accepted, faults>>

\* No one listens, or the connection was closed before it was open.
DialFails(k) ==
    /\ ext_ready[k] = "connecting"
    /\ IF k \in accepted THEN ready[k] # "open" ELSE listener # "listening"
    /\ Extension!ErrorEvent(k)
    /\ UNCHANGED <<proxyVars, netVars>>

ExtensionLearns(k) ==
    /\ k \in accepted
    /\ ready[k] # "open"
    /\ Extension!ServerCloses(k)
    /\ UNCHANGED <<proxyVars, netVars>>

ExtensionCloses(k) == Extension!CloseEvent(k) /\ UNCHANGED <<proxyVars, netVars>>

ExtensionFaults(k) ==
    /\ Fault
    /\ Extension!ErrorEvent(k)
    /\ UNCHANGED <<proxyVars, accepted, hello_sent>>

-----------------------------------------------------------------------------
(* The server's steps.                                                     *)

ServerAccepts(k) ==
    /\ ext_ready[k] = "connecting"
    /\ k \notin accepted
    /\ Accept(k)
    /\ accepted' = accepted \cup {k}
    /\ UNCHANGED <<extVars, hello_sent, faults>>

ServerGreeted(k) ==
    /\ k \in hello_sent
    /\ AcceptHello(k)
    /\ UNCHANGED <<extVars, netVars>>

\* A client that closed its end, or gave up dialling.
ServerLearns(k) ==
    /\ ext_ready[k] \notin {"connecting", "open"}
    /\ PeerLeaves(k)
    /\ UNCHANGED <<extVars, netVars>>

ServerCloseEvent(k) == CloseEvent(k) /\ UNCHANGED <<extVars, netVars>>

ServerFaults(k) ==
    /\ Fault
    /\ ErrorEvent(k) \/ PeerLeaves(k) \/ HelloTimeout(k)
    /\ UNCHANGED <<extVars, accepted, hello_sent>>

ServerUser ==
    /\ Connect \/ Close \/ ListenerClosed
    /\ UNCHANGED <<extVars, netVars>>

-----------------------------------------------------------------------------
LinkNext ==
    \/ ExtensionStops \/ ServerUser
    \/ \E k \in Slots :
          \/ ExtensionStarts(k) \/ ExtensionReconnects(k)
          \/ ExtensionOpens(k) \/ DialFails(k) \/ ExtensionLearns(k)
          \/ ExtensionCloses(k) \/ ExtensionFaults(k)
          \/ ServerAccepts(k) \/ ServerGreeted(k) \/ ServerLearns(k)
          \/ ServerCloseEvent(k) \/ ServerFaults(k)

LinkSpec == LinkInit /\ [][LinkNext]_linkVars

\* The reconnect timer fires, the network delivers, closing sockets close.
LinkFairness ==
    /\ WF_linkVars(\E k \in Slots : ExtensionReconnects(k))
    /\ \A k \in Slots :
          /\ WF_linkVars(ExtensionOpens(k) \/ DialFails(k))
          /\ WF_linkVars(ExtensionLearns(k))
          /\ WF_linkVars(ExtensionCloses(k))
          /\ WF_linkVars(ServerAccepts(k))
          /\ WF_linkVars(ServerGreeted(k))
          /\ WF_linkVars(ServerLearns(k))
          /\ WF_linkVars(ServerCloseEvent(k))

LinkFairSpec == LinkSpec /\ LinkFairness

-----------------------------------------------------------------------------
Linked ==
    /\ socket # 0
    /\ ready[socket] = "open"
    /\ ext_socket = socket
    /\ ext_ready[socket] = "open"

LiveSocketIsActive == Extension!LiveSocketIsActive

\* The ends agree: a connection that is open at both of them is the one the
\* extension uses, and the one the process uses as soon as its hello is there.
EndsAgree ==
    \A k \in Slots :
        ext_ready[k] = "open" /\ ready[k] = "open" =>
            ext_socket = k /\ (socket = k \/ greeted[k] = "awaited")

\* When the extension stays started, the process keeps listening and nothing
\* fails any more, the two ends agree on one open connection and keep it:
\* sockets that replace and close each other do not go on doing so.
LinkComesUp == <>[](ext_started /\ listener = "listening") => <>[]Linked
=============================================================================
