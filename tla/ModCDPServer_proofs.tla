------------------------- MODULE ModCDPServer_proofs -------------------------
(***************************************************************************)
(* The invariants of the extension's server for any number of requests,    *)
(* calls of start(), events and ports.  The inductive invariant has four   *)
(* independent parts, each over its own variables: the port, where answers *)
(* go, what the mirror showed, and the upstreams with the calls at them.   *)
(*                                                                         *)
(* The last section is about the lease of the same server (ClientLease),   *)
(* whose state is its own.                                                 *)
(***************************************************************************)
EXTENDS ModCDPServer, ClientLease, TLAPS

(* The first part of TypeOK: the transport keeps polling.                  *)
PortInv == NativeTypeOK /\ KeepsPolling

(* The origin of a request and the port of its answer are where it came    *)
(* from, and it has neither before it came.                                *)
OriginInv ==
  \A r \in Requests :
    /\ port_from_request[r] \in {NoPort, from[r]}
    /\ answered[r] \in {NoPort, from[r]}
    /\ stage[r] = "idle" => port_from_request[r] = NoPort /\ answered[r] = NoPort

(* One mirror once started_at is set; an event not dealt with is unseen.   *)
MirrorInv ==
  /\ started_at \in BOOLEAN
  /\ mirrors = IF started_at THEN 1 ELSE 0
  /\ event \in [Events -> {"fresh", "transforming", "over"}]
  /\ shown \in [Events -> 0..1]
  /\ \A e \in Events : event[e] # "over" => shown[e] = 0

(* The rest of TypeOK.                                                     *)
CallTypeOK ==
  /\ upstreams \in Seq(UpstreamRecords)
  /\ upstream = Len(upstreams) /\ upstream # 0
  /\ stage \in [Callers -> Stages]
  /\ at \in [Callers -> 1..upstream]
  /\ kind \in [Requests -> Asks]
  /\ phase \in [Requests -> {"request", "command", "response"}]
  /\ middleware \subseteq MiddlewarePhases
  /\ from \in [Requests -> Ports \cup {NoPort}]
  /\ wired \in BOOLEAN
  /\ started_at \in BOOLEAN

CallInv == CallTypeOK /\ UpstreamIsWired

IInv == PortInv /\ OriginInv /\ MirrorInv /\ CallInv

LEMMA InvInit == Init => IInv
  <1> SUFFICES ASSUME Init PROVE IInv
    OBVIOUS
  <1>1. PortInv
    BY DEF Init, NativeInit, PortInv, NativeTypeOK, KeepsPolling, PortStates
  <1>2. OriginInv
    BY DEF Init, NativeInit, OriginInv
  <1>3. MirrorInv
    <2>1. ~started_at /\ mirrors = 0
      BY DEF Init
    <2>2. started_at \in BOOLEAN
      BY DEF Init
    <2>3. event = [e \in Events |-> "fresh"] /\ shown = [e \in Events |-> 0]
      BY DEF Init
    <2> QED
      BY <2>1, <2>2, <2>3 DEF MirrorInv
  <1>4. CallInv
    <2>1. PICK mode \in Modes : upstreams = <<Fresh(mode)>>
      BY DEF Init
    <2>2. Fresh(mode) \in UpstreamRecords
      BY DEF Fresh, UpstreamRecords, Sockets
    <2>3. upstreams \in Seq(UpstreamRecords) /\ Len(upstreams) = 1
      BY <2>1, <2>2
    <2>4. started_at = FALSE /\ wired = TRUE
      BY DEF Init
    <2>5. /\ stage = [c \in Callers |-> "idle"] /\ at = [c \in Callers |-> 1]
          /\ kind \in [Requests -> Asks] /\ phase = [r \in Requests |-> "request"]
          /\ middleware = {} /\ from = [r \in Requests |-> NoPort] /\ upstream = 1
      BY DEF Init
    <2>6. stage \in [Callers -> Stages] /\ at \in [Callers -> 1..upstream]
      BY <2>5 DEF Stages
    <2>7. phase \in [Requests -> {"request", "command", "response"}]
      BY <2>5
    <2>8. from \in [Requests -> Ports \cup {NoPort}]
      BY <2>5
    <2>9. wired \in BOOLEAN /\ started_at \in BOOLEAN
      BY <2>4
    <2>10. upstream = Len(upstreams) /\ upstream # 0 /\ middleware \subseteq MiddlewarePhases
      BY <2>3, <2>5
    <2>11. CallTypeOK
      BY <2>3, <2>5, <2>6, <2>7, <2>8, <2>9, <2>10 DEF CallTypeOK
    <2> QED
      BY <2>4, <2>11 DEF CallInv, UpstreamIsWired
  <1> QED
    BY <1>1, <1>2, <1>3, <1>4 DEF IInv

-----------------------------------------------------------------------------
(* The port.                                                               *)

(* All that a step can do to the variables of the transport.               *)
PortChange ==
  \/ UNCHANGED nativeVars
  \/ NativeStart
  \/ NativeStop
  \/ ReconnectTimerFires
  \/ \E p \in Ports : HostEnds(p) \/ OnDisconnect(p)
  \/ \E r \in Requests, p \in Ports : NoteOrigin(r, p)
  \/ \E r \in Requests : SendResponse(r) /\ UNCHANGED <<started, port, reconnect_timer, ports>>

LEMMA ConnectFacts ==
  ASSUME NativeTypeOK, NEW timer \in BOOLEAN, Connect(timer)
  PROVE  /\ port' \in Ports \cup {NoPort} /\ reconnect_timer' \in BOOLEAN
         /\ ports' \in [Ports -> PortStates]
         /\ port' # NoPort => ports'[port'] \in {"open", "lost"}
         /\ port' # NoPort \/ reconnect_timer'
  <1> USE DEF NativeTypeOK
  <1>1. CASE port # NoPort /\ reconnect_timer' = timer /\ UNCHANGED <<port, ports>>
    BY <1>1
  <1>2. ASSUME NEW p \in Ports, port' = p, ports' = [ports EXCEPT ![p] = "open"],
               reconnect_timer' = timer
        PROVE  /\ port' \in Ports \cup {NoPort} /\ reconnect_timer' \in BOOLEAN
               /\ ports' \in [Ports -> PortStates]
               /\ port' # NoPort => ports'[port'] \in {"open", "lost"}
               /\ port' # NoPort \/ reconnect_timer'
    <2>1. p # NoPort
      BY DEF Ports, NoPort
    <2>2. ports' \in [Ports -> PortStates] /\ ports'[p] = "open"
      BY <1>2 DEF PortStates
    <2> QED
      BY <1>2, <2>1, <2>2
  <1>3. CASE ConnectFails(timer)
    BY <1>3 DEF ConnectFails
  <1> QED
    BY <1>1, <1>2, <1>3 DEF Connect

LEMMA PortStepInv == PortInv /\ PortChange => PortInv'
  <1> SUFFICES ASSUME PortInv, PortChange PROVE PortInv'
    OBVIOUS
  <1> USE DEF PortInv, KeepsPolling
  <1>1. CASE UNCHANGED nativeVars
    BY <1>1 DEF nativeVars, NativeTypeOK
  <1>2. CASE NativeStart
    <2>1. reconnect_timer \in BOOLEAN /\ Connect(reconnect_timer)
      BY <1>2 DEF NativeStart, NativeTypeOK
    <2> QED
      BY <1>2, <2>1, ConnectFacts DEF NativeStart, NativeTypeOK
  <1>3. CASE NativeStop
    BY <1>3 DEF NativeStop, NativeTypeOK, PortStates
  <1>4. CASE ReconnectTimerFires
    <2>1. Connect(FALSE) /\ started
      BY <1>4 DEF ReconnectTimerFires, NativeTypeOK
    <2> QED
      BY <1>4, <2>1, ConnectFacts DEF ReconnectTimerFires, NativeTypeOK
  <1>5. ASSUME NEW p \in Ports, HostEnds(p) PROVE PortInv'
    BY <1>5 DEF HostEnds, NativeTypeOK, PortStates
  <1>6. ASSUME NEW p \in Ports, OnDisconnect(p) PROVE PortInv'
    BY <1>6 DEF OnDisconnect, NativeTypeOK, PortStates
  <1>7. ASSUME NEW r \in Requests, NEW p \in Ports, NoteOrigin(r, p) PROVE PortInv'
    BY <1>7 DEF NoteOrigin, NativeTypeOK
  <1>8. ASSUME NEW r \in Requests, SendResponse(r),
               UNCHANGED <<started, port, reconnect_timer, ports>>
        PROVE  PortInv'
    BY <1>8 DEF SendResponse, AnswerPort, NativeTypeOK
  <1> QED
    BY <1>1, <1>2, <1>3, <1>4, <1>5, <1>6, <1>7, <1>8 DEF PortChange

LEMMA TailPort ==
  ASSUME NEW c \in Callers, NEW ok \in BOOLEAN, TailEnds(c, ok)
  PROVE  PortChange
  BY DEF TailEnds, Answer, PortChange

LEMMA NextPort == [Next]_vars => PortChange
  <1> SUFFICES ASSUME [Next]_vars PROVE PortChange
    OBVIOUS
  <1>1. CASE UNCHANGED vars
    BY <1>1 DEF vars, PortChange
  <1>2. ASSUME NEW s \in Starts, StartFirst(s) \/ StartAgain(s) PROVE PortChange
    BY <1>2 DEF StartFirst, StartAgain, PortChange
  <1>3. ASSUME NEW u, DialOpens(u) \/ DialFails(u) \/ SocketCloses(u) PROVE PortChange
    BY <1>3 DEF DialOpens, DialFails, SocketCloses, PortChange
  <1>4. ASSUME NEW c \in Callers, RouterStarts(c) \/ RouterFails(c) \/ Redial(c) PROVE PortChange
    BY <1>4 DEF RouterStarts, RouterFails, Redial, PortChange
  <1>5. ASSUME NEW c \in Callers, NEW ok \in BOOLEAN, CallFails(c) \/ TargetsListed(c, ok)
        PROVE  PortChange
    BY <1>5, TailPort DEF CallFails, TargetsListed
  <1>6. ASSUME NEW r \in Requests, Found(r) \/ Attached(r) \/ EvaluationFails(r) PROVE PortChange
    BY <1>6 DEF Found, Attached, EvaluationFails, Answer, PortChange
  <1>7. ASSUME NEW r \in Requests, Ran(r) PROVE PortChange
    BY <1>7 DEF Ran, Answer, PortChange
  <1>8. ASSUME NEW r \in Requests, NEW p \in Ports, Receive(r, p) PROVE PortChange
    BY <1>8 DEF Receive, PortChange
  <1>9. ASSUME NEW e \in Events, NEW u, EventArrives(e, u) PROVE PortChange
    BY <1>9 DEF EventArrives, PortChange
  <1>10. ASSUME NEW e \in Events, NEW ok \in BOOLEAN, EventTransformed(e, ok) PROVE PortChange
    BY <1>10 DEF EventTransformed, PortChange
  <1>11. CASE PortStep
    BY <1>11 DEF PortStep, PortChange
  <1> QED
    BY <1>1, <1>2, <1>3, <1>4, <1>5, <1>6, <1>7, <1>8, <1>9, <1>10, <1>11 DEF Next

-----------------------------------------------------------------------------
(* The calls and the upstreams.                                            *)

LEMMA GoesFacts ==
  ASSUME CallTypeOK, NEW c \in Callers, NEW s \in Stages, NEW u, Goes(c, s, u)
  PROVE  /\ stage' \in [Callers -> Stages] /\ stage'[c] = s /\ at'[c] = u
         /\ \A d \in Callers \ {c} : stage'[d] = stage[d] /\ at'[d] = at[d]
         /\ \A n \in Nat : u \in 1..n /\ upstream <= n => at' \in [Callers -> 1..n]
  BY DEF Goes, CallTypeOK

(* What AfterConnect leaves: upstream u wired, S past its dial.            *)
Connected(S, ups, u) ==
  /\ upstreams' \in Seq(UpstreamRecords) /\ Len(upstreams') = Len(ups)
  /\ upstreams'[u].heard
  /\ upstreams'[u].mode = "ws" => upstreams'[u].routed
  /\ stage' \in [Callers -> Stages]
  /\ at' \in [Callers -> 1..Len(ups)]
  /\ \A c \in S : stage'[c] \in {"routing", "listing"}
  /\ \A c \in Callers \ S : stage'[c] = stage[c] /\ at'[c] = at[c]

LEMMA ReplaceFacts ==
  ASSUME NEW ups \in Seq(UpstreamRecords), NEW u \in 1..Len(ups), NEW x \in UpstreamRecords
  PROVE  /\ [ups EXCEPT ![u] = x] \in Seq(UpstreamRecords)
         /\ Len([ups EXCEPT ![u] = x]) = Len(ups)
         /\ [ups EXCEPT ![u] = x][u] = x
         /\ \A v \in 1..Len(ups) : v # u => [ups EXCEPT ![u] = x][v] = ups[v]
  OBVIOUS

LEMMA HeardFacts ==
  ASSUME NEW ups \in Seq(UpstreamRecords), NEW u \in 1..Len(ups), NEW b \in BOOLEAN
  PROVE  /\ [ups EXCEPT ![u].heard = b] \in Seq(UpstreamRecords)
         /\ Len([ups EXCEPT ![u].heard = b]) = Len(ups)
         /\ [ups EXCEPT ![u].heard = b][u] = [ups[u] EXCEPT !.heard = b]
         /\ \A v \in 1..Len(ups) : v # u => [ups EXCEPT ![u].heard = b][v] = ups[v]
  <1>1. ups[u] \in UpstreamRecords
    OBVIOUS
  <1>2. [ups[u] EXCEPT !.heard = b] \in UpstreamRecords
    BY <1>1 DEF UpstreamRecords
  <1>3. [ups EXCEPT ![u].heard = b] = [ups EXCEPT ![u] = [ups[u] EXCEPT !.heard = b]]
    OBVIOUS
  <1> QED
    BY <1>2, <1>3, ReplaceFacts

LEMMA RoutedFacts ==
  ASSUME NEW ups \in Seq(UpstreamRecords), NEW u \in 1..Len(ups), NEW b \in BOOLEAN
  PROVE  /\ [ups EXCEPT ![u].routed = b] \in Seq(UpstreamRecords)
         /\ Len([ups EXCEPT ![u].routed = b]) = Len(ups)
         /\ [ups EXCEPT ![u].routed = b][u] = [ups[u] EXCEPT !.routed = b]
         /\ \A v \in 1..Len(ups) : v # u => [ups EXCEPT ![u].routed = b][v] = ups[v]
  <1>1. ups[u] \in UpstreamRecords
    OBVIOUS
  <1>2. [ups[u] EXCEPT !.routed = b] \in UpstreamRecords
    BY <1>1 DEF UpstreamRecords
  <1>3. [ups EXCEPT ![u].routed = b] = [ups EXCEPT ![u] = [ups[u] EXCEPT !.routed = b]]
    OBVIOUS
  <1> QED
    BY <1>2, <1>3, ReplaceFacts

LEMMA SocketFacts ==
  ASSUME NEW ups \in Seq(UpstreamRecords), NEW u \in 1..Len(ups), NEW b \in Sockets
  PROVE  /\ [ups EXCEPT ![u].socket = b] \in Seq(UpstreamRecords)
         /\ Len([ups EXCEPT ![u].socket = b]) = Len(ups)
         /\ [ups EXCEPT ![u].socket = b][u] = [ups[u] EXCEPT !.socket = b]
         /\ \A v \in 1..Len(ups) : v # u => [ups EXCEPT ![u].socket = b][v] = ups[v]
  <1>1. ups[u] \in UpstreamRecords
    OBVIOUS
  <1>2. [ups[u] EXCEPT !.socket = b] \in UpstreamRecords
    BY <1>1 DEF UpstreamRecords
  <1>3. [ups EXCEPT ![u].socket = b] = [ups EXCEPT ![u] = [ups[u] EXCEPT !.socket = b]]
    OBVIOUS
  <1> QED
    BY <1>2, <1>3, ReplaceFacts

LEMMA AfterConnectFacts ==
  ASSUME CallTypeOK, NEW S \in SUBSET Callers, NEW ups \in Seq(UpstreamRecords),
         NEW u \in 1..Len(ups), upstream <= Len(ups), AfterConnect(S, ups, u)
  PROVE  Connected(S, ups, u)
  <1> DEFINE needsRouter == ups[u].mode = "ws" /\ ~ups[u].routed
             routed == IF needsRouter THEN [ups EXCEPT ![u].routed = TRUE] ELSE ups
  <1>1. routed \in Seq(UpstreamRecords) /\ Len(routed) = Len(ups)
    <2>1. CASE needsRouter
      <3>1. routed = [ups EXCEPT ![u].routed = TRUE]
        BY <2>1
      <3> QED
        BY <3>1, RoutedFacts
    <2> QED
      BY <2>1
  <1>2. ups[u] \in UpstreamRecords
    OBVIOUS
  <1>3. routed[u].mode = "ws" => routed[u].routed
    BY <1>2 DEF UpstreamRecords
  <1> HIDE DEF routed
  <1>4. upstreams' = [routed EXCEPT ![u].heard = TRUE]
    BY DEF AfterConnect, Hear, routed
  <1>5. routed[u] \in UpstreamRecords
    BY <1>1
  <1>6. upstreams'[u] = [routed[u] EXCEPT !.heard = TRUE]
    BY <1>1, <1>4, HeardFacts
  <1>7. /\ upstreams'[u].heard
        /\ upstreams'[u].mode = "ws" => upstreams'[u].routed
    BY <1>3, <1>5, <1>6 DEF UpstreamRecords
  <1>8. upstreams' \in Seq(UpstreamRecords) /\ Len(upstreams') = Len(ups)
    BY <1>1, <1>4, HeardFacts
  <1>9. PICK first \in S :
          stage' = [c \in Callers |-> CASE c \notin S -> stage[c]
                                        [] c = first /\ needsRouter -> "routing"
                                        [] OTHER -> "listing"]
    BY DEF AfterConnect
  <1>10. /\ stage' \in [Callers -> Stages]
         /\ \A c \in S : stage'[c] \in {"routing", "listing"}
         /\ \A c \in Callers \ S : stage'[c] = stage[c]
    BY <1>9 DEF CallTypeOK, Stages, Setting
  <1>11. at' = [c \in Callers |-> IF c \in S THEN u ELSE at[c]]
    BY DEF AfterConnect
  <1>12. \A c \in Callers : at[c] \in 1..Len(ups)
    BY DEF CallTypeOK
  <1>13. at' \in [Callers -> 1..Len(ups)] /\ \A c \in Callers \ S : at'[c] = at[c]
    BY <1>11, <1>12
  <1> QED
    BY <1>7, <1>8, <1>10, <1>13 DEF Connected

(* A call in the tail waits for the dial of upstream u, or it is wired.    *)
LEMMA ConnectClientFacts ==
  ASSUME CallTypeOK, NEW c \in Callers, NEW ups \in Seq(UpstreamRecords),
         NEW u \in 1..Len(ups), upstream <= Len(ups), ConnectClient(c, ups, u)
  PROVE  \/ Connected({c}, ups, u)
         \/ /\ upstreams' \in Seq(UpstreamRecords) /\ Len(upstreams') = Len(ups)
            /\ stage' \in [Callers -> Stages] /\ at' \in [Callers -> 1..Len(ups)]
            /\ stage'[c] = "dialing" /\ at'[c] = u
            /\ \A d \in Callers \ {c} : stage'[d] = stage[d] /\ at'[d] = at[d]
  <1>1. CASE ups[u].mode = "ws" /\ ups[u].socket # "open"
    <2>1. upstreams' = [ups EXCEPT ![u].socket = "dialing"] /\ Goes(c, "dialing", u)
      BY <1>1 DEF ConnectClient
    <2>2. upstreams' \in Seq(UpstreamRecords) /\ Len(upstreams') = Len(ups)
      BY <2>1, SocketFacts DEF Sockets
    <2>3. "dialing" \in Stages
      BY DEF Stages, Setting
    <2>4. at' \in [Callers -> 1..Len(ups)]
      BY <2>1, <2>3, GoesFacts
    <2> QED
      BY <2>1, <2>2, <2>3, <2>4, GoesFacts
  <1>2. CASE ~(ups[u].mode = "ws" /\ ups[u].socket # "open")
    BY <1>2, AfterConnectFacts DEF ConnectClient
  <1> QED
    BY <1>1, <1>2

(* The conclusion of UpstreamIsWired.                                      *)
Wired == /\ upstreams[upstream].heard
         /\ upstreams[upstream].mode = "ws" => upstreams[upstream].routed

(* A waits for the dial of the upstream in place.                          *)
Awaited == \E c \in Callers : stage[c] = "dialing" /\ at[c] = upstream

LEMMA WiredForm == UpstreamIsWired <=> (started_at /\ wired => Wired \/ Awaited)
  BY DEF UpstreamIsWired, Wired, Awaited

LEMMA ReplacedFacts ==
  ASSUME CallTypeOK, NEW mode \in Modes
  PROVE  Replaced(mode) \in Seq(UpstreamRecords) /\ Len(Replaced(mode)) = upstream + 1
  <1> DEFINE socket == IF upstreams[upstream].socket = "open" THEN "none"
                                                              ELSE upstreams[upstream].socket
             stopped == [upstreams EXCEPT ![upstream].routed = FALSE]
  <1>1. /\ upstream \in 1..Len(upstreams) /\ upstreams \in Seq(UpstreamRecords)
        /\ upstream = Len(upstreams)
    BY DEF CallTypeOK
  <1>2. upstreams[upstream] \in UpstreamRecords
    BY <1>1
  <1>3. socket \in Sockets
    BY <1>2 DEF UpstreamRecords, Sockets
  <1> HIDE DEF socket
  <1>4. stopped \in Seq(UpstreamRecords) /\ Len(stopped) = Len(upstreams)
    BY <1>1, RoutedFacts
  <1>5. stopped[upstream].socket = upstreams[upstream].socket
    BY <1>1, <1>2, RoutedFacts DEF UpstreamRecords
  <1>6. Replaced(mode) = Append([stopped EXCEPT ![upstream].socket = socket], Fresh(mode))
    BY <1>5 DEF Replaced, socket
  <1>7. Fresh(mode) \in UpstreamRecords
    BY DEF Fresh, UpstreamRecords, Sockets
  <1> HIDE DEF stopped
  <1>8. upstream \in 1..Len(stopped)
    BY <1>1, <1>4
  <1>9. /\ [stopped EXCEPT ![upstream].socket = socket] \in Seq(UpstreamRecords)
        /\ Len([stopped EXCEPT ![upstream].socket = socket]) = Len(stopped)
    BY <1>3, <1>4, <1>8, SocketFacts
  <1> QED
    BY <1>1, <1>4, <1>6, <1>7, <1>9

LEMMA ConfigureFacts ==
  ASSUME CallTypeOK, NEW r \in Requests, kind[r].mode \in Modes, Configure(r)
  PROVE  /\ upstreams' \in Seq(UpstreamRecords) /\ upstream' = Len(upstreams') /\ upstream' # 0
         /\ stage' \in [Callers -> Stages] /\ at' \in [Callers -> 1..upstream']
         /\ middleware' \subseteq MiddlewarePhases /\ wired' \in BOOLEAN
         /\ stage'[r] \in Setting
         /\ \A d \in Callers \ {r} : stage'[d] = stage[d]
         /\ Wired' \/ Awaited'
  <1> DEFINE ups == IF kind[r].mode = upstreams[upstream].mode THEN upstreams
                                                               ELSE Replaced(kind[r].mode)
  <1>1. upstream = Len(upstreams) /\ upstream # 0 /\ upstreams \in Seq(UpstreamRecords)
    BY DEF CallTypeOK
  <1>2. ups \in Seq(UpstreamRecords) /\ Len(ups) \in Nat \ {0} /\ upstream <= Len(ups)
    <2>1. CASE kind[r].mode = upstreams[upstream].mode
      BY <1>1, <2>1
    <2>2. CASE kind[r].mode # upstreams[upstream].mode
      BY <1>1, <2>2, ReplacedFacts
    <2> QED
      BY <2>1, <2>2
  <1>3. upstream' = Len(ups) /\ ConnectClient(r, ups, Len(ups))
    BY DEF Configure
  <1>4. wired' \in BOOLEAN
    BY DEF Configure, CallTypeOK
  <1>5. kind[r].adds \subseteq MiddlewarePhases
    <2>1. kind[r] \in Kinds
      BY AsksAssumption DEF CallTypeOK
    <2> QED
      BY <2>1 DEF Kinds
  <1>6. middleware' \subseteq MiddlewarePhases
    BY <1>5 DEF Configure, CallTypeOK
  <1> HIDE DEF ups
  <1>7. r \in Callers
    BY DEF Callers
  <1>8. CASE Connected({r}, ups, Len(ups))
    <2>1. Wired'
      BY <1>2, <1>3, <1>8 DEF Connected, Wired
    <2> QED
      BY <1>2, <1>3, <1>4, <1>6, <1>7, <1>8, <2>1 DEF Connected, Setting
  <1>9. CASE /\ upstreams' \in Seq(UpstreamRecords) /\ Len(upstreams') = Len(ups)
             /\ stage' \in [Callers -> Stages] /\ at' \in [Callers -> 1..Len(ups)]
             /\ stage'[r] = "dialing" /\ at'[r] = Len(ups)
             /\ \A d \in Callers \ {r} : stage'[d] = stage[d] /\ at'[d] = at[d]
    <2>1. Awaited'
      BY <1>3, <1>7, <1>9 DEF Awaited
    <2> QED
      BY <1>2, <1>3, <1>4, <1>6, <1>7, <1>9, <2>1 DEF Setting
  <1>10. Len(ups) \in 1..Len(ups)
    BY <1>2
  <1> QED
    BY <1>2, <1>3, <1>7, <1>8, <1>9, <1>10, ConnectClientFacts

(* A step that leaves the upstreams alone and takes nobody from or to a    *)
(* dial keeps CallInv.                                                     *)
LEMMA QuietStep ==
  ASSUME CallInv, UNCHANGED <<upstreamVars, started_at>>,
         stage' \in [Callers -> Stages], at' \in [Callers -> 1..upstream],
         \A c \in Callers : stage[c] = "dialing" => stage'[c] = "dialing" /\ at'[c] = at[c],
         UNCHANGED <<kind, middleware>>,
         phase' \in [Requests -> {"request", "command", "response"}],
         from' \in [Requests -> Ports \cup {NoPort}]
  PROVE  CallInv'
  BY DEF CallInv, CallTypeOK, UpstreamIsWired, upstreamVars

(* One caller that does not dial moves on, but not to a dial.              *)
LEMMA MoveStep ==
  ASSUME CallInv, NEW c \in Callers, NEW s \in Stages, NEW u \in 1..upstream, Goes(c, s, u),
         stage[c] # "dialing", UNCHANGED <<upstreamVars, started_at, kind, middleware>>,
         phase' \in [Requests -> {"request", "command", "response"}],
         from' \in [Requests -> Ports \cup {NoPort}]
  PROVE  CallInv'
  <1>1. CallTypeOK /\ upstream \in Nat
    BY DEF CallInv, CallTypeOK
  <1>2. stage' \in [Callers -> Stages] /\ at' \in [Callers -> 1..upstream]
    BY <1>1, GoesFacts
  <1>3. \A d \in Callers : stage[d] = "dialing" => stage'[d] = "dialing" /\ at'[d] = at[d]
    BY <1>1, GoesFacts
  <1> QED
    BY <1>2, <1>3, QuietStep

LEMMA StageNames == Stages = {"idle", "failed", "done", "dialing", "routing", "listing",
                              "finding", "attaching", "running", "refused"}
  BY DEF Stages, Setting, Evaluating

LEMMA TailStep ==
  ASSUME CallInv, NEW c \in Callers, NEW ok \in BOOLEAN, TailEnds(c, ok), stage[c] # "dialing",
         UNCHANGED <<requestVars, upstreamVars, setupVars>>
  PROVE  CallInv'
  <1>1. at[c] \in 1..upstream
    BY DEF CallInv, CallTypeOK
  <1>2. Goes(c, "done", at[c]) \/ Goes(c, "idle", at[c])
    BY DEF TailEnds, Answer
  <1>3. /\ phase' \in [Requests -> {"request", "command", "response"}]
        /\ from' \in [Requests -> Ports \cup {NoPort}]
    BY DEF CallInv, CallTypeOK, requestVars
  <1> QED
    BY <1>1, <1>2, <1>3, MoveStep, StageNames DEF requestVars, setupVars

LEMMA StartFirstStep ==
  ASSUME CallInv, NEW s \in Starts, StartFirst(s) PROVE CallInv'
  <1>1. CallTypeOK /\ s \in Callers /\ upstream \in 1..Len(upstreams) /\ upstream <= Len(upstreams)
    BY DEF CallInv, CallTypeOK, Callers
  <1>2. upstreams \in Seq(UpstreamRecords) /\ ConnectClient(s, upstreams, upstream)
    BY <1>1 DEF StartFirst, CallTypeOK
  <1>3. /\ upstreams' \in Seq(UpstreamRecords) /\ Len(upstreams') = Len(upstreams)
        /\ stage' \in [Callers -> Stages] /\ at' \in [Callers -> 1..Len(upstreams)]
        /\ Wired' \/ Awaited'
    BY <1>1, <1>2, ConnectClientFacts DEF Connected, Wired, Awaited, StartFirst
  <1>4. started_at' \in BOOLEAN /\ UNCHANGED <<upstream, requestVars, wired, middleware>>
    BY DEF StartFirst
  <1>5. CallTypeOK'
    BY <1>1, <1>3, <1>4 DEF CallTypeOK, requestVars
  <1>6. UpstreamIsWired'
    BY <1>3 DEF UpstreamIsWired, Wired, Awaited
  <1> QED
    BY <1>5, <1>6 DEF CallInv

LEMMA DialOpensStep ==
  ASSUME CallInv, NEW u \in DOMAIN upstreams, DialOpens(u) PROVE CallInv'
  <1> DEFINE waiting == {c \in Callers : stage[c] = "dialing" /\ at[c] = u}
             opened == [upstreams EXCEPT ![u].socket = "open"]
  <1>1. CallTypeOK /\ u \in 1..Len(upstreams) /\ upstreams \in Seq(UpstreamRecords)
    BY DEF CallInv, CallTypeOK
  <1>2. /\ opened \in Seq(UpstreamRecords) /\ Len(opened) = Len(upstreams)
        /\ opened[u] = [upstreams[u] EXCEPT !.socket = "open"]
        /\ \A v \in 1..Len(upstreams) : v # u => opened[v] = upstreams[v]
    BY <1>1, SocketFacts DEF Sockets
  <1>3. \A v \in 1..Len(upstreams) : /\ opened[v].heard = upstreams[v].heard
                                     /\ opened[v].mode = upstreams[v].mode
                                     /\ opened[v].routed = upstreams[v].routed
    <2>1. upstreams[u] \in UpstreamRecords
      BY <1>1
    <2> QED
      BY <1>2, <2>1 DEF UpstreamRecords
  <1> HIDE DEF opened
  <1>4. UNCHANGED <<requestVars, upstream, wired, setupVars>>
    BY DEF DialOpens
  <1>5. CASE waiting = {}
    <2>1. upstreams' = opened /\ UNCHANGED callVars
      BY <1>5 DEF DialOpens, opened
    <2>2. CallTypeOK'
      BY <1>1, <1>2, <1>4, <2>1 DEF CallTypeOK, requestVars, setupVars, callVars
    <2>3. upstream \in 1..Len(upstreams)
      BY <1>1 DEF CallTypeOK
    <2>4. Wired => Wired'
      BY <1>3, <1>4, <2>1, <2>3 DEF Wired
    <2>5. Awaited => Awaited'
      BY <1>4, <2>1 DEF Awaited, callVars
    <2>6. UpstreamIsWired'
      BY <1>4, <2>4, <2>5 DEF CallInv, UpstreamIsWired, Wired, Awaited, setupVars
    <2> QED
      BY <2>2, <2>6 DEF CallInv
  <1>6. CASE waiting # {}
    <2>1. AfterConnect(waiting, opened, upstream)
      BY <1>6 DEF DialOpens, opened
    <2>2. waiting \in SUBSET Callers /\ upstream \in 1..Len(opened) /\ upstream <= Len(opened)
      BY <1>1, <1>2 DEF CallTypeOK
    <2> HIDE DEF waiting
    <2>3. Connected(waiting, opened, upstream)
      BY <1>1, <1>2, <2>1, <2>2, AfterConnectFacts
    <2>4. Wired'
      BY <1>4, <2>3 DEF Connected, Wired
    <2>5. CallTypeOK'
      BY <1>1, <1>2, <1>4, <2>3 DEF Connected, CallTypeOK, requestVars, setupVars
    <2> QED
      BY <2>4, <2>5 DEF CallInv, UpstreamIsWired, Wired
  <1> QED
    BY <1>5, <1>6

(* A change of an upstream's socket leaves its wiring.                     *)
LEMMA SocketStep ==
  ASSUME CallInv, NEW u \in 1..Len(upstreams), NEW b \in Sockets,
         upstreams' = [upstreams EXCEPT ![u].socket = b],
         stage' \in [Callers -> Stages], at' = at,
         UNCHANGED <<requestVars, upstream, setupVars>>, wired' \in BOOLEAN,
         wired' => wired,
         wired' /\ Awaited => Awaited'
  PROVE  CallInv'
  <1>1. CallTypeOK /\ upstreams \in Seq(UpstreamRecords) /\ upstream \in 1..Len(upstreams)
    BY DEF CallInv, CallTypeOK
  <1>2. /\ upstreams' \in Seq(UpstreamRecords) /\ Len(upstreams') = Len(upstreams)
        /\ upstreams'[u] = [upstreams[u] EXCEPT !.socket = b]
        /\ \A v \in 1..Len(upstreams) : v # u => upstreams'[v] = upstreams[v]
    BY <1>1, SocketFacts
  <1>3. upstreams[u] \in UpstreamRecords
    BY <1>1
  <1>4. Wired => Wired'
    BY <1>1, <1>2, <1>3 DEF Wired, UpstreamRecords
  <1>5. CallTypeOK'
    BY <1>1, <1>2 DEF CallTypeOK, requestVars, setupVars
  <1>6. UpstreamIsWired'
    BY <1>4 DEF CallInv, UpstreamIsWired, Wired, Awaited, setupVars
  <1> QED
    BY <1>5, <1>6 DEF CallInv

LEMMA DialFailsStep ==
  ASSUME CallInv, NEW u \in DOMAIN upstreams, DialFails(u) PROVE CallInv'
  <1>1. CallTypeOK /\ u \in 1..Len(upstreams)
    BY DEF CallInv, CallTypeOK
  <1> DEFINE waiting == {c \in Callers : stage[c] = "dialing" /\ at[c] = u}
  <1>2. /\ upstreams' = [upstreams EXCEPT ![u].socket = "none"]
        /\ stage' = [c \in Callers |-> IF c \in waiting THEN "failed" ELSE stage[c]]
        /\ wired' = (wired /\ (u # upstream \/ waiting = {}))
        /\ at' = at /\ UNCHANGED <<requestVars, upstream, setupVars>>
    BY DEF DialFails
  <1>3. stage' \in [Callers -> Stages]
    BY <1>1, <1>2 DEF CallTypeOK, Stages
  <1>4. wired' \in BOOLEAN /\ (wired' => wired)
    BY <1>1, <1>2 DEF CallTypeOK
  <1>5. wired' /\ Awaited => Awaited'
    BY <1>2 DEF Awaited
  <1> QED
    BY <1>1, <1>2, <1>3, <1>4, <1>5, SocketStep DEF Sockets

LEMMA SocketClosesStep ==
  ASSUME CallInv, NEW u \in DOMAIN upstreams, SocketCloses(u) PROVE CallInv'
  <1>1. CallTypeOK /\ u \in 1..Len(upstreams)
    BY DEF CallInv, CallTypeOK
  <1>2. /\ upstreams' = [upstreams EXCEPT ![u].socket = "none"]
        /\ stage' = stage /\ at' = at /\ wired' = wired
        /\ UNCHANGED <<requestVars, upstream, setupVars>>
    BY DEF SocketCloses, callVars
  <1>3. stage' \in [Callers -> Stages] /\ wired' \in BOOLEAN /\ (Awaited => Awaited')
    BY <1>1, <1>2 DEF CallTypeOK, Awaited
  <1> QED
    BY <1>1, <1>2, <1>3, SocketStep DEF Sockets

LEMMA RedialStep ==
  ASSUME CallInv, NEW c \in Callers, Redial(c) PROVE CallInv'
  <1>1. CallTypeOK /\ at[c] \in 1..Len(upstreams)
    BY DEF CallInv, CallTypeOK
  <1>2. /\ upstreams' = [upstreams EXCEPT ![at[c]].socket = "dialing"]
        /\ stage' = stage /\ at' = at /\ wired' = wired
        /\ UNCHANGED <<requestVars, upstream, setupVars>>
    BY DEF Redial, callVars
  <1>3. stage' \in [Callers -> Stages] /\ wired' \in BOOLEAN /\ (Awaited => Awaited')
    BY <1>1, <1>2 DEF CallTypeOK, Awaited
  <1> QED
    BY <1>1, <1>2, <1>3, SocketStep DEF Sockets

LEMMA RouterFailsStep ==
  ASSUME CallInv, NEW c \in Callers, RouterFails(c) PROVE CallInv'
  <1>1. CallTypeOK /\ at[c] \in 1..Len(upstreams) /\ upstreams \in Seq(UpstreamRecords)
    BY DEF CallInv, CallTypeOK
  <1>2. /\ stage[c] = "routing" /\ Goes(c, "failed", at[c])
        /\ upstreams' = [upstreams EXCEPT ![at[c]].routed = FALSE]
        /\ wired' = (wired /\ at[c] # upstream)
        /\ UNCHANGED <<requestVars, upstream, setupVars>>
    BY DEF RouterFails
  <1>3. "failed" \in Stages /\ upstream \in Nat /\ upstream <= upstream /\ at[c] \in 1..upstream
    BY <1>1 DEF Stages, CallTypeOK
  <1>4. /\ stage' \in [Callers -> Stages] /\ at' \in [Callers -> 1..upstream]
        /\ \A d \in Callers \ {c} : stage'[d] = stage[d] /\ at'[d] = at[d]
    BY <1>1, <1>2, <1>3, GoesFacts
  <1>5. /\ upstreams' \in Seq(UpstreamRecords) /\ Len(upstreams') = Len(upstreams)
        /\ \A v \in 1..Len(upstreams) : v # at[c] => upstreams'[v] = upstreams[v]
    <2> DEFINE u == at[c]
    <2>1. upstreams' = [upstreams EXCEPT ![u].routed = FALSE]
      BY <1>2
    <2>2. u \in 1..Len(upstreams) /\ FALSE \in BOOLEAN
      BY <1>1
    <2> HIDE DEF u
    <2>3. /\ [upstreams EXCEPT ![u].routed = FALSE] \in Seq(UpstreamRecords)
          /\ Len([upstreams EXCEPT ![u].routed = FALSE]) = Len(upstreams)
          /\ \A v \in 1..Len(upstreams) :
               v # u => [upstreams EXCEPT ![u].routed = FALSE][v] = upstreams[v]
      BY <1>1, <2>2, RoutedFacts
    <2>4. /\ upstreams' \in Seq(UpstreamRecords) /\ Len(upstreams') = Len(upstreams)
          /\ \A v \in 1..Len(upstreams) : v # u => upstreams'[v] = upstreams[v]
      BY <2>1, <2>3
    <2> QED
      BY <2>4 DEF u
  <1>6. wired' \in BOOLEAN
    BY <1>1, <1>2 DEF CallTypeOK
  <1>7. CallTypeOK'
    BY <1>1, <1>2, <1>4, <1>5, <1>6 DEF CallTypeOK, requestVars, setupVars
  <1>8. Awaited => Awaited'
    BY <1>2, <1>4 DEF Awaited
  <1>9. wired' /\ Wired => Wired'
    <2>1. upstream' = upstream /\ upstream \in 1..Len(upstreams)
      BY <1>1, <1>2 DEF CallTypeOK
    <2>2. wired' => upstreams'[upstream] = upstreams[upstream]
      BY <1>2, <1>5, <2>1
    <2> QED
      BY <2>1, <2>2 DEF Wired
  <1>10. wired' => wired
    BY <1>2
  <1>11. UpstreamIsWired'
    BY <1>2, <1>8, <1>9, <1>10 DEF CallInv, UpstreamIsWired, Wired, Awaited, setupVars
  <1> QED
    BY <1>7, <1>11 DEF CallInv

(* Part of a request's way through handleCommand().                        *)
LEMMA ExecuteStep ==
  ASSUME CallInv, NEW r \in Requests, Execute(r), stage[r] # "dialing",
         UNCHANGED <<kind, started_at>>, from' \in [Requests -> Ports \cup {NoPort}]
  PROVE  CallInv'
  <1>1. CallTypeOK /\ r \in Callers /\ upstream \in 1..upstream
    BY DEF CallInv, CallTypeOK, Callers
  <1>2. phase' \in [Requests -> {"request", "command", "response"}]
    BY <1>1 DEF Execute, CallTypeOK
  <1>3. CASE kind[r].mode \in Modes
    <2>1. Configure(r)
      BY <1>3 DEF Execute, Modes
    <2>2. CallTypeOK'
      BY <1>1, <1>2, <1>3, <2>1, ConfigureFacts DEF CallTypeOK
    <2>3. Wired' \/ Awaited'
      BY <1>1, <1>3, <2>1, ConfigureFacts
    <2> QED
      BY <2>2, <2>3 DEF CallInv, UpstreamIsWired, Wired, Awaited
  <1>4. CASE kind[r].mode \notin Modes
    <2>1. UNCHANGED <<upstreamVars, middleware>>
      BY <1>4 DEF Execute
    <2>2. Goes(r, "finding", upstream) \/ Goes(r, "attaching", upstream)
      BY <1>4 DEF Execute, Evaluate, Modes
    <2> QED
      BY <1>1, <1>2, <2>1, <2>2, MoveStep, StageNames
  <1> QED
    BY <1>3, <1>4

LEMMA ReceiveStep ==
  ASSUME CallInv, NEW r \in Requests, NEW p \in Ports, Receive(r, p) PROVE CallInv'
  <1>1. CallTypeOK /\ r \in Callers /\ upstream \in 1..upstream
    BY DEF CallInv, CallTypeOK, Callers
  <1>2. /\ stage[r] = "idle" /\ UNCHANGED <<kind, started_at>>
        /\ from' \in [Requests -> Ports \cup {NoPort}]
    BY <1>1 DEF Receive, CallTypeOK
  <1>3. CASE "request" \in middleware
    <2>1. Goes(r, "finding", upstream) /\ UNCHANGED <<phase, upstreamVars, middleware>>
      BY <1>3 DEF Receive, Evaluate
    <2>2. phase' \in [Requests -> {"request", "command", "response"}]
      BY <1>1, <2>1 DEF CallTypeOK
    <2> QED
      BY <1>1, <1>2, <2>1, <2>2, MoveStep, StageNames
  <1>4. CASE "request" \notin middleware
    BY <1>2, <1>4, ExecuteStep DEF Receive
  <1> QED
    BY <1>3, <1>4

LEMMA RanStep ==
  ASSUME CallInv, NEW r \in Requests, Ran(r) PROVE CallInv'
  <1>1. /\ CallTypeOK /\ r \in Callers /\ upstream \in 1..upstream
        /\ at[r] \in 1..upstream
    BY DEF CallInv, CallTypeOK, Callers
  <1>2. /\ stage[r] = "running" /\ UNCHANGED <<kind, from, started_at>>
        /\ from' \in [Requests -> Ports \cup {NoPort}]
    BY <1>1 DEF Ran, CallTypeOK
  <1>3. CASE phase[r] = "request"
    BY <1>2, <1>3, ExecuteStep DEF Ran
  <1>4. CASE phase[r] = "command" /\ "response" \in middleware
    <2>1. /\ Goes(r, "finding", upstream) /\ UNCHANGED <<upstreamVars, middleware>>
          /\ phase' = [phase EXCEPT ![r] = "response"]
      BY <1>4 DEF Ran, Evaluate
    <2>2. phase' \in [Requests -> {"request", "command", "response"}]
      BY <1>1, <2>1 DEF CallTypeOK
    <2> QED
      BY <1>1, <1>2, <2>1, <2>2, MoveStep, StageNames
  <1>5. CASE phase[r] # "request" /\ ~(phase[r] = "command" /\ "response" \in middleware)
    <2>1. Goes(r, "done", at[r]) /\ UNCHANGED <<phase, upstreamVars, middleware>>
      BY <1>5 DEF Ran, Answer
    <2>2. phase' \in [Requests -> {"request", "command", "response"}]
      BY <1>1, <2>1 DEF CallTypeOK
    <2> QED
      BY <1>1, <1>2, <2>1, <2>2, MoveStep, StageNames
  <1> QED
    BY <1>3, <1>4, <1>5

LEMMA CallStep == CallInv /\ [Next]_vars => CallInv'
  <1> SUFFICES ASSUME CallInv, [Next]_vars PROVE CallInv'
    OBVIOUS
  <1>1. CallTypeOK /\ upstream \in 1..upstream
    BY DEF CallInv, CallTypeOK
  <1>2. /\ phase \in [Requests -> {"request", "command", "response"}]
        /\ from \in [Requests -> Ports \cup {NoPort}]
        /\ stage \in [Callers -> Stages] /\ at \in [Callers -> 1..upstream]
        /\ Requests \subseteq Callers /\ Starts \subseteq Callers
    BY <1>1 DEF CallTypeOK, Callers
  <1>3. ASSUME UNCHANGED <<callVars, requestVars, upstreamVars, setupVars>> PROVE CallInv'
    BY <1>2, <1>3, QuietStep DEF callVars, requestVars, setupVars
  <1>4. CASE UNCHANGED vars
    BY <1>3, <1>4 DEF vars
  <1>5. ASSUME NEW s \in Starts, StartFirst(s) \/ StartAgain(s) PROVE CallInv'
    BY <1>3, <1>5, StartFirstStep DEF StartAgain
  <1>6. ASSUME NEW u \in DOMAIN upstreams, DialOpens(u) \/ DialFails(u) \/ SocketCloses(u)
        PROVE  CallInv'
    BY <1>6, DialOpensStep, DialFailsStep, SocketClosesStep
  <1>7. ASSUME NEW c \in Callers, CallFails(c) PROVE CallInv'
    BY <1>7, TailStep DEF CallFails
  <1>8. ASSUME NEW c \in Callers, RouterStarts(c) PROVE CallInv'
    <2>1. stage[c] = "routing" /\ Goes(c, "listing", upstream)
      BY <1>8 DEF RouterStarts
    <2> QED
      BY <1>1, <1>2, <1>8, <2>1, MoveStep, StageNames DEF RouterStarts, requestVars, setupVars
  <1>9. ASSUME NEW c \in Callers, RouterFails(c) \/ Redial(c) PROVE CallInv'
    BY <1>9, RouterFailsStep, RedialStep
  <1>10. ASSUME NEW c \in Callers, NEW ok \in BOOLEAN, TargetsListed(c, ok) PROVE CallInv'
    BY <1>10, TailStep DEF TargetsListed
  <1>11. ASSUME NEW r \in Requests, Found(r) \/ Attached(r) PROVE CallInv'
    <2>1. /\ stage[r] # "dialing" /\ UNCHANGED <<requestVars, upstreamVars, setupVars>>
          /\ \/ Goes(r, "attaching", upstream) \/ Goes(r, "refused", upstream)
             \/ Goes(r, "running", at[r])
      BY <1>11 DEF Found, Attached
    <2>2. at[r] \in 1..upstream /\ r \in Callers
      BY <1>2
    <2>3. UNCHANGED <<upstreamVars, started_at, kind, middleware, phase, from>>
      BY <2>1 DEF requestVars, setupVars
    <2> QED
      BY <1>1, <1>2, <2>1, <2>2, <2>3, MoveStep, StageNames
  <1>12. ASSUME NEW r \in Requests, Ran(r) PROVE CallInv'
    BY <1>12, RanStep
  <1>13. ASSUME NEW r \in Requests, EvaluationFails(r) PROVE CallInv'
    <2>1. /\ stage[r] # "dialing" /\ UNCHANGED <<requestVars, upstreamVars, setupVars>>
          /\ Goes(r, "done", at[r])
      BY <1>13 DEF EvaluationFails, Evaluating, Answer
    <2>2. at[r] \in 1..upstream /\ r \in Callers
      BY <1>2
    <2>3. UNCHANGED <<upstreamVars, started_at, kind, middleware, phase, from>>
      BY <2>1 DEF requestVars, setupVars
    <2> QED
      BY <1>1, <1>2, <2>1, <2>2, <2>3, MoveStep, StageNames
  <1>14. ASSUME NEW r \in Requests, NEW p \in Ports, Receive(r, p) PROVE CallInv'
    BY <1>14, ReceiveStep
  <1>15. ASSUME NEW e \in Events, NEW u, EventArrives(e, u) PROVE CallInv'
    BY <1>3, <1>15 DEF EventArrives
  <1>16. ASSUME NEW e \in Events, NEW ok \in BOOLEAN, EventTransformed(e, ok) PROVE CallInv'
    BY <1>3, <1>16 DEF EventTransformed
  <1>17. CASE PortStep
    BY <1>3, <1>17 DEF PortStep
  <1> QED
    BY <1>4, <1>5, <1>6, <1>7, <1>8, <1>9, <1>10, <1>11, <1>12, <1>13, <1>14, <1>15, <1>16,
       <1>17 DEF Next

-----------------------------------------------------------------------------
(* Where answers go.                                                       *)

(* No request becomes idle.                                                *)
NoneReturns == \A r \in Requests : stage'[r] = "idle" => stage[r] = "idle"

LEMMA OriginKept ==
  ASSUME OriginInv, NoneReturns, UNCHANGED <<port_from_request, answered, from>>
  PROVE  OriginInv'
  BY DEF OriginInv, NoneReturns

LEMMA GoesOn ==
  ASSUME CallTypeOK, NEW c \in Callers, NEW s \in Stages, NEW u, Goes(c, s, u),
         s # "idle" \/ c \notin Requests
  PROVE  NoneReturns
  <1>1. stage' = [stage EXCEPT ![c] = s] /\ stage \in [Callers -> Stages]
    BY DEF Goes, CallTypeOK
  <1> QED
    BY <1>1 DEF NoneReturns, Callers

LEMMA AnswerOrigin ==
  ASSUME OriginInv, CallTypeOK, NativeTypeOK, NEW r \in Requests, Answer(r), from' = from
  PROVE  OriginInv'
  <1>1. Goes(r, "done", at[r]) /\ SendResponse(r)
    BY DEF Answer
  <1>2. r \in Callers /\ "done" \in Stages
    BY DEF Callers, Stages
  <1>3. NoneReturns /\ stage'[r] = "done"
    BY <1>1, <1>2, GoesOn, GoesFacts
  <1>4. CASE AnswerPort(r) # NoPort /\ ports[AnswerPort(r)] # "closed"
    <2>1. /\ answered' = [answered EXCEPT ![r] = port_from_request[r]]
          /\ port_from_request' = [port_from_request EXCEPT ![r] = NoPort]
      BY <1>1, <1>4 DEF SendResponse, AnswerPort
    <2>2. /\ answered'[r] = port_from_request[r] /\ port_from_request'[r] = NoPort
          /\ \A q \in Requests \ {r} : /\ answered'[q] = answered[q]
                                       /\ port_from_request'[q] = port_from_request[q]
      BY <2>1 DEF NativeTypeOK
    <2> QED
      BY <1>3, <2>2 DEF OriginInv, NoneReturns
  <1>5. CASE ~(AnswerPort(r) # NoPort /\ ports[AnswerPort(r)] # "closed")
    BY <1>1, <1>3, <1>5, OriginKept DEF SendResponse
  <1> QED
    BY <1>4, <1>5

LEMMA TailOrigin ==
  ASSUME OriginInv, CallTypeOK, NativeTypeOK, NEW c \in Callers, NEW ok \in BOOLEAN,
         TailEnds(c, ok), from' = from
  PROVE  OriginInv'
  <1>1. CASE c \in Requests
    BY <1>1, AnswerOrigin DEF TailEnds
  <1>2. CASE c \notin Requests
    <2>1. Goes(c, "idle", at[c]) /\ UNCHANGED <<port_from_request, answered>>
      BY <1>2 DEF TailEnds, NativeStart, nativeVars
    <2> QED
      BY <1>2, <2>1, GoesOn, OriginKept, StageNames
  <1> QED
    BY <1>1, <1>2

LEMMA ConnectGoesOn ==
  ASSUME CallTypeOK, NEW c \in Callers, NEW ups \in Seq(UpstreamRecords),
         NEW u \in 1..Len(ups), upstream <= Len(ups), ConnectClient(c, ups, u)
  PROVE  NoneReturns
  <1>1. stage'[c] \in {"routing", "listing", "dialing"}
        /\ \A d \in Callers \ {c} : stage'[d] = stage[d]
    BY ConnectClientFacts DEF Connected
  <1> QED
    BY <1>1 DEF NoneReturns, Callers

LEMMA ExecuteGoesOn ==
  ASSUME CallTypeOK, NEW r \in Requests, Execute(r)
  PROVE  NoneReturns /\ stage'[r] # "idle"
  <1>1. r \in Callers
    BY DEF Callers
  <1>2. CASE kind[r].mode \in Modes
    <2>1. Configure(r)
      BY <1>2 DEF Execute, Modes
    <2>2. stage'[r] \in Setting /\ \A d \in Callers \ {r} : stage'[d] = stage[d]
      BY <1>2, <2>1, ConfigureFacts
    <2> QED
      BY <2>2 DEF NoneReturns, Setting, Callers
  <1>3. CASE kind[r].mode \notin Modes
    <2>1. Goes(r, "finding", upstream) \/ Goes(r, "attaching", upstream)
      BY <1>3 DEF Execute, Evaluate, Modes
    <2>2. NoneReturns
      BY <1>1, <2>1, GoesOn, StageNames
    <2>3. stage'[r] # "idle"
      BY <1>1, <2>1, GoesFacts, StageNames
    <2> QED
      BY <2>2, <2>3
  <1> QED
    BY <1>2, <1>3

LEMMA ReceiveOrigin ==
  ASSUME OriginInv, CallTypeOK, NativeTypeOK, NEW r \in Requests, NEW p \in Ports, Receive(r, p)
  PROVE  OriginInv'
  <1>1. r \in Callers /\ stage[r] = "idle" /\ answered[r] = NoPort
    BY DEF Receive, OriginInv, Callers
  <1>2. NoneReturns /\ stage'[r] # "idle"
    <2>1. CASE "request" \in middleware
      <3>1. Goes(r, "finding", upstream)
        BY <2>1 DEF Receive, Evaluate
      <3> QED
        BY <1>1, <3>1, GoesOn, GoesFacts, StageNames
    <2>2. CASE "request" \notin middleware
      BY <2>2, ExecuteGoesOn DEF Receive
    <2> QED
      BY <2>1, <2>2
  <1>3. /\ from' = [from EXCEPT ![r] = p] /\ answered' = answered
        /\ port_from_request' = [port_from_request EXCEPT ![r] = p]
    BY DEF Receive, NoteOrigin
  <1>4. /\ from'[r] = p /\ port_from_request'[r] = p
        /\ \A q \in Requests \ {r} : /\ from'[q] = from[q]
                                     /\ port_from_request'[q] = port_from_request[q]
    BY <1>3 DEF CallTypeOK, NativeTypeOK
  <1> QED
    BY <1>1, <1>2, <1>3, <1>4 DEF OriginInv, NoneReturns

LEMMA RanOrigin ==
  ASSUME OriginInv, CallTypeOK, NativeTypeOK, NEW r \in Requests, Ran(r)
  PROVE  OriginInv'
  <1>1. r \in Callers /\ from' = from
    BY DEF Ran, Callers
  <1>2. CASE phase[r] = "request"
    <2>1. Execute(r) /\ UNCHANGED nativeVars
      BY <1>2 DEF Ran
    <2> QED
      BY <1>1, <2>1, ExecuteGoesOn, OriginKept DEF nativeVars
  <1>3. CASE phase[r] = "command" /\ "response" \in middleware
    <2>1. Goes(r, "finding", upstream) /\ UNCHANGED nativeVars
      BY <1>3 DEF Ran, Evaluate
    <2> QED
      BY <1>1, <2>1, GoesOn, OriginKept, StageNames DEF nativeVars
  <1>4. CASE phase[r] # "request" /\ ~(phase[r] = "command" /\ "response" \in middleware)
    <2>1. Answer(r)
      BY <1>4 DEF Ran
    <2> QED
      BY <1>1, <2>1, AnswerOrigin
  <1> QED
    BY <1>2, <1>3, <1>4

LEMMA DialOrigin ==
  ASSUME OriginInv, CallTypeOK, NEW u \in DOMAIN upstreams, DialOpens(u) \/ DialFails(u)
  PROVE  OriginInv'
  <1> DEFINE waiting == {c \in Callers : stage[c] = "dialing" /\ at[c] = u}
             opened == [upstreams EXCEPT ![u].socket = "open"]
  <1>1. UNCHANGED <<nativeVars, requestVars>>
    BY DEF DialOpens, DialFails
  <1>2. NoneReturns
    <2>1. CASE DialFails(u)
      <3>1. stage' = [c \in Callers |-> IF c \in waiting THEN "failed" ELSE stage[c]]
        BY <2>1 DEF DialFails
      <3> QED
        BY <3>1 DEF NoneReturns, Callers
    <2>2. CASE DialOpens(u) /\ waiting = {}
      <3>1. stage' = stage
        BY <2>2 DEF DialOpens, callVars
      <3> QED
        BY <3>1 DEF NoneReturns
    <2>3. CASE DialOpens(u) /\ waiting # {}
      <3>1. AfterConnect(waiting, opened, upstream)
        BY <2>3 DEF DialOpens
      <3>2. u \in 1..Len(upstreams) /\ upstreams \in Seq(UpstreamRecords)
        BY DEF CallTypeOK
      <3>3. opened \in Seq(UpstreamRecords) /\ Len(opened) = Len(upstreams)
        BY <3>2, SocketFacts DEF Sockets
      <3>4. waiting \in SUBSET Callers /\ upstream \in 1..Len(opened) /\ upstream <= Len(opened)
        BY <3>3 DEF CallTypeOK
      <3> HIDE DEF waiting, opened
      <3>5. Connected(waiting, opened, upstream)
        BY <3>1, <3>3, <3>4, AfterConnectFacts
      <3> QED
        BY <3>5 DEF Connected, NoneReturns, Callers
    <2> QED
      BY <2>1, <2>2, <2>3
  <1> QED
    BY <1>1, <1>2, OriginKept DEF nativeVars, requestVars

LEMMA OriginStep == IInv /\ [Next]_vars => OriginInv'
  <1> SUFFICES ASSUME IInv, [Next]_vars PROVE OriginInv'
    OBVIOUS
  <1>1. OriginInv /\ CallTypeOK /\ NativeTypeOK
    BY DEF IInv, PortInv, CallInv
  <1>2. ASSUME stage' = stage, UNCHANGED <<port_from_request, answered, from>> PROVE OriginInv'
    BY <1>1, <1>2, OriginKept DEF NoneReturns
  <1>3. CASE UNCHANGED vars
    BY <1>2, <1>3 DEF vars, nativeVars, callVars, requestVars
  <1>4. ASSUME NEW s \in Starts, StartFirst(s) PROVE OriginInv'
    <2>1. /\ s \in Callers /\ upstreams \in Seq(UpstreamRecords)
          /\ upstream \in 1..Len(upstreams) /\ upstream <= Len(upstreams)
          /\ ConnectClient(s, upstreams, upstream)
      BY <1>1, <1>4 DEF CallTypeOK, StartFirst, Callers
    <2> QED
      BY <1>1, <1>4, <2>1, ConnectGoesOn, OriginKept DEF StartFirst, nativeVars, requestVars
  <1>5. ASSUME NEW s \in Starts, StartAgain(s) PROVE OriginInv'
    BY <1>2, <1>5 DEF StartAgain, NativeStart, callVars, requestVars
  <1>6. ASSUME NEW u \in DOMAIN upstreams, DialOpens(u) \/ DialFails(u) PROVE OriginInv'
    BY <1>1, <1>6, DialOrigin
  <1>7. ASSUME NEW u, SocketCloses(u) PROVE OriginInv'
    BY <1>2, <1>7 DEF SocketCloses, nativeVars, callVars, requestVars
  <1>8. ASSUME NEW c \in Callers, NEW ok \in BOOLEAN, CallFails(c) \/ TargetsListed(c, ok)
        PROVE  OriginInv'
    BY <1>1, <1>8, TailOrigin DEF CallFails, TargetsListed, requestVars
  <1>9. ASSUME NEW c \in Callers, RouterStarts(c) \/ RouterFails(c) PROVE OriginInv'
    <2>1. /\ Goes(c, "listing", upstream) \/ Goes(c, "failed", at[c])
          /\ UNCHANGED <<nativeVars, requestVars>>
      BY <1>9 DEF RouterStarts, RouterFails
    <2> QED
      BY <1>1, <2>1, GoesOn, OriginKept, StageNames DEF nativeVars, requestVars
  <1>10. ASSUME NEW c \in Callers, Redial(c) PROVE OriginInv'
    BY <1>2, <1>10 DEF Redial, nativeVars, callVars, requestVars
  <1>11. ASSUME NEW r \in Requests, Found(r) \/ Attached(r) PROVE OriginInv'
    <2>1. /\ \/ Goes(r, "attaching", upstream) \/ Goes(r, "refused", upstream)
             \/ Goes(r, "running", at[r])
          /\ r \in Callers /\ UNCHANGED <<nativeVars, requestVars>>
      BY <1>11 DEF Found, Attached, Callers
    <2> QED
      BY <1>1, <2>1, GoesOn, OriginKept, StageNames DEF nativeVars, requestVars
  <1>12. ASSUME NEW r \in Requests, Ran(r) PROVE OriginInv'
    BY <1>1, <1>12, RanOrigin
  <1>13. ASSUME NEW r \in Requests, EvaluationFails(r) PROVE OriginInv'
    BY <1>1, <1>13, AnswerOrigin DEF EvaluationFails, requestVars
  <1>14. ASSUME NEW r \in Requests, NEW p \in Ports, Receive(r, p) PROVE OriginInv'
    BY <1>1, <1>14, ReceiveOrigin
  <1>15. ASSUME NEW e \in Events, NEW u, EventArrives(e, u) PROVE OriginInv'
    BY <1>2, <1>15 DEF EventArrives, nativeVars, callVars, requestVars
  <1>16. ASSUME NEW e \in Events, NEW ok \in BOOLEAN, EventTransformed(e, ok) PROVE OriginInv'
    BY <1>2, <1>16 DEF EventTransformed, nativeVars, callVars, requestVars
  <1>17. CASE PortStep
    <2>1. UNCHANGED <<port_from_request, answered>>
      BY <1>17 DEF PortStep, NativeStop, ReconnectTimerFires, HostEnds, OnDisconnect
    <2> QED
      BY <1>2, <1>17, <2>1 DEF PortStep, callVars, requestVars
  <1> QED
    BY <1>3, <1>4, <1>5, <1>6, <1>7, <1>8, <1>9, <1>10, <1>11, <1>12, <1>13, <1>14, <1>15,
       <1>16, <1>17 DEF Next

-----------------------------------------------------------------------------
(* What the mirror shows.                                                  *)

LEMMA ShowOnce ==
  ASSUME MirrorInv, NEW e \in Events, event[e] # "over", Show(e)
  PROVE  shown' \in [Events -> 0..1] /\ \A f \in Events \ {e} : shown'[f] = shown[f]
  <1>1. mirrors \in 0..1 /\ shown[e] = 0 /\ shown \in [Events -> 0..1]
    BY DEF MirrorInv
  <1> DEFINE seen == shown[e] + IF port = NoPort THEN 0 ELSE mirrors
  <1>2. seen \in 0..1
    BY <1>1
  <1>3. shown' = [shown EXCEPT ![e] = seen]
    BY DEF Show
  <1> HIDE DEF seen
  <1> QED
    BY <1>1, <1>2, <1>3

LEMMA EventDealtWith ==
  ASSUME MirrorInv, UNCHANGED setupVars, NEW e \in Events, event[e] # "over",
         NEW s \in {"transforming", "over"}, event' = [event EXCEPT ![e] = s],
         \/ UNCHANGED shown
         \/ Show(e) /\ s = "over"
  PROVE  MirrorInv'
  <1>1. event \in [Events -> {"fresh", "transforming", "over"}] /\ shown \in [Events -> 0..1]
    BY DEF MirrorInv
  <1>2. /\ event' \in [Events -> {"fresh", "transforming", "over"}]
        /\ event'[e] = s /\ \A f \in Events \ {e} : event'[f] = event[f]
    BY <1>1
  <1>3. CASE UNCHANGED shown
    BY <1>2, <1>3 DEF MirrorInv, setupVars
  <1>4. CASE Show(e) /\ s = "over"
    BY <1>2, <1>4, ShowOnce DEF MirrorInv, setupVars
  <1> QED
    BY <1>3, <1>4

LEMMA MirrorStep == MirrorInv /\ [Next]_vars => MirrorInv'
  <1> SUFFICES ASSUME MirrorInv, [Next]_vars PROVE MirrorInv'
    OBVIOUS
  <1>1. ASSUME UNCHANGED <<eventVars, started_at, mirrors>> PROVE MirrorInv'
    BY <1>1 DEF MirrorInv, eventVars
  <1>2. CASE UNCHANGED vars
    BY <1>1, <1>2 DEF vars, setupVars
  <1>3. ASSUME NEW s \in Starts, StartFirst(s) PROVE MirrorInv'
    BY <1>3 DEF MirrorInv, StartFirst, eventVars
  <1>4. ASSUME NEW s \in Starts, StartAgain(s) PROVE MirrorInv'
    BY <1>1, <1>4 DEF StartAgain, setupVars
  <1>5. ASSUME NEW u, DialOpens(u) \/ DialFails(u) \/ SocketCloses(u) PROVE MirrorInv'
    BY <1>1, <1>5 DEF DialOpens, DialFails, SocketCloses, setupVars
  <1>6. ASSUME NEW c \in Callers, NEW ok \in BOOLEAN,
               CallFails(c) \/ RouterStarts(c) \/ RouterFails(c) \/ Redial(c)
                 \/ TargetsListed(c, ok)
        PROVE  MirrorInv'
    BY <1>1, <1>6 DEF CallFails, RouterStarts, RouterFails, Redial, TargetsListed, setupVars
  <1>7. ASSUME NEW r \in Requests, Found(r) \/ Attached(r) \/ Ran(r) \/ EvaluationFails(r)
        PROVE  MirrorInv'
    BY <1>1, <1>7 DEF Found, Attached, Ran, EvaluationFails, setupVars
  <1>8. ASSUME NEW r \in Requests, NEW p \in Ports, Receive(r, p) PROVE MirrorInv'
    BY <1>1, <1>8 DEF Receive
  <1>9. ASSUME NEW e \in Events, NEW u, EventArrives(e, u) PROVE MirrorInv'
    BY <1>9, EventDealtWith DEF EventArrives
  <1>10. ASSUME NEW e \in Events, NEW ok \in BOOLEAN, EventTransformed(e, ok) PROVE MirrorInv'
    BY <1>10, EventDealtWith DEF EventTransformed
  <1>11. CASE PortStep
    BY <1>1, <1>11 DEF PortStep, setupVars
  <1> QED
    BY <1>2, <1>3, <1>4, <1>5, <1>6, <1>7, <1>8, <1>9, <1>10, <1>11 DEF Next

-----------------------------------------------------------------------------
LEMMA InvHolds == Spec => []IInv
  <1>1. IInv /\ [Next]_vars => IInv'
    BY NextPort, PortStepInv, CallStep, OriginStep, MirrorStep DEF IInv
  <1> QED
    BY InvInit, <1>1, PTL DEF Spec

(* Type correctness, and the reconnect timer runs only while the transport *)
(* is started.                                                             *)
THEOREM TypeCorrect == Spec => []TypeOK
  <1>1. IInv => TypeOK
    <2> SUFFICES ASSUME IInv PROVE TypeOK
      OBVIOUS
    <2>1. mirrors \in Nat /\ shown \in [Events -> Nat]
      BY DEF IInv, MirrorInv
    <2>2. event \in [Events -> {"fresh", "transforming", "over"}]
      BY DEF IInv, MirrorInv
    <2> QED
      BY <2>1, <2>2 DEF IInv, PortInv, CallInv, CallTypeOK, TypeOK
  <1> QED
    BY <1>1, InvHolds, PTL

(* A started transport has a port or its next attempt is due: connect()    *)
(* and scheduleReconnect() of NativeMessagingDownstreamTransport.ts.       *)
THEOREM PollsOn == Spec => []KeepsPolling
  <1>1. IInv => KeepsPolling
    BY DEF IInv, PortInv
  <1> QED
    BY <1>1, InvHolds, PTL

(* start() mirrors the events once, however its calls overlap.             *)
THEOREM ShownOnce == Spec => []NoEventTwice
  <1>1. IInv => NoEventTwice
    BY DEF IInv, MirrorInv, NoEventTwice
  <1> QED
    BY <1>1, InvHolds, PTL

(* sendResponse() answers on the port of the request.                      *)
THEOREM AnsweredAtHome == Spec => []AnswersGoHome
  <1>1. IInv => AnswersGoHome
    BY DEF IInv, OriginInv, AnswersGoHome
  <1> QED
    BY <1>1, InvHolds, PTL

(* The upstream in place is heard and routed once nobody dials it, for any *)
(* number of overlapping calls of start() and Mod.configure.               *)
THEOREM StaysWired == Spec => []UpstreamIsWired
  <1>1. IInv => UpstreamIsWired
    BY DEF IInv, CallInv
  <1> QED
    BY <1>1, InvHolds, PTL


-----------------------------------------------------------------------------
(* The lease, for every number of clients and every interval, lateness,    *)
(* message delay and timeout that meets LeaseAssumption: a race between    *)
(* the lease's countdown and the client's, won by the client as long as    *)
(* the countdowns keep the order Outlives states.                          *)

USE LeaseAssumption

(* Time until a client's next touch of the lease at the latest, by state.  *)
Gap == Trip + (Interval + Late) + Trip

(* The lease is set and outlives the next touch client c still owes it.    *)
Outlives(c) ==
  /\ state[c] \in {"received", "applied"} => due[c] + Gap < lease
  /\ state[c] = "answered" => due[c] + (Interval + Late) + Trip < lease
  /\ state[c] = "beating" =>
       \/ due[c] + Trip < lease
       \/ \E time \in pings[c] : time < lease

(* No step of a client is awaited longer than it takes at most.            *)
DueBounded ==
  \A c \in Clients :
    /\ state[c] = "sent" => due[c] <= Trip
    /\ state[c] \in {"received", "applied"} => due[c] <= Configuring
    /\ state[c] = "answered" => due[c] <= Trip
    /\ state[c] = "beating" => due[c] <= Interval + Late

LeaseInv ==
  /\ LeaseTypeOK
  /\ DueBounded
  /\ ~closed => \A c \in Wanting : Outlives(c)
  /\ NotClosedUnderClient

LEMMA LeaseInvInit == LeaseInit => LeaseInv
  <1> SUFFICES ASSUME LeaseInit PROVE LeaseInv
    OBVIOUS
  <1>1. LeaseTypeOK
    BY DEF LeaseInit, LeaseTypeOK, States, NoLease
  <1>2. \A c \in Clients : state[c] = "out"
    BY DEF LeaseInit
  <1>3. DueBounded /\ (\A c \in Wanting : Outlives(c))
    BY <1>2 DEF DueBounded, Outlives
  <1> QED
    BY <1>1, <1>3 DEF LeaseInit, LeaseInv, NotClosedUnderClient

LEMMA BecomesFacts ==
  ASSUME LeaseTypeOK, NEW c \in Clients, NEW s \in States, NEW time \in Nat, Becomes(c, s, time)
  PROVE  /\ state' \in [Clients -> States] /\ due' \in [Clients -> Nat]
         /\ state'[c] = s /\ due'[c] = time
         /\ \A d \in Clients \ {c} : state'[d] = state[d] /\ due'[d] = due[d]
  BY DEF Becomes, LeaseTypeOK

(* A touch serves every client, whatever the timeout in force.             *)
LEMMA TouchServes ==
  ASSUME LeaseTypeOK, DueBounded, TouchClientLease, NEW c \in Clients,
         state[c] \in Handled \cup {"beating"}
  PROVE  /\ lease' \in Nat
         /\ state[c] \in {"received", "applied"} => due[c] + Gap < lease'
         /\ state[c] = "answered" => due[c] + (Interval + Late) + Trip < lease'
         /\ state[c] = "beating" => due[c] + Trip < lease'
  <1>1. /\ lease' \in Nat /\ Configuring + Gap < lease'
    BY DEF TouchClientLease, LeaseTypeOK, Gap
  <1>2. due[c] \in Nat
    BY DEF LeaseTypeOK
  <1> QED
    BY <1>1, <1>2 DEF DueBounded, Gap

(* A step of client c alone: what is left to show is about c.              *)
LEMMA OneClient ==
  ASSUME LeaseInv, ~closed, NEW c \in Clients, NEW s \in States, NEW time \in Nat, Becomes(c, s, time),
         UNCHANGED <<lease, closed>>,
         pings' \in [Clients -> SUBSET (0..Trip)],
         \A d \in Clients \ {c} : pings'[d] = pings[d],
         timeout' \in Timeouts, close' \in BOOLEAN,
         s = "sent" => time <= Trip,
         s = "applied" => time <= Configuring /\ (c \in Wanting => time + Gap < lease),
         s = "answered" => time <= Trip /\ (c \in Wanting => time + (Interval + Late) + Trip < lease),
         s = "beating" => /\ time <= Interval + Late
                          /\ c \in Wanting =>
                                \/ time + Trip < lease
                                \/ \E t \in pings'[c] : t < lease,
         s # "received"
  PROVE  LeaseInv'
  <1> USE DEF LeaseInv
  <1>1. /\ state' \in [Clients -> States] /\ due' \in [Clients -> Nat]
        /\ state'[c] = s /\ due'[c] = time
        /\ \A d \in Clients \ {c} : state'[d] = state[d] /\ due'[d] = due[d]
    BY BecomesFacts
  <1>2. LeaseTypeOK'
    BY <1>1 DEF LeaseTypeOK
  <1>3. DueBounded'
    BY <1>1 DEF DueBounded
  <1>4. ASSUME NEW d \in Wanting, d # c PROVE Outlives(d)'
    <2>1. d \in Clients /\ Outlives(d)
      OBVIOUS
    <2> QED
      BY <1>1, <1>4, <2>1 DEF Outlives
  <1>5. c \in Wanting => Outlives(c)'
    BY <1>1 DEF Outlives
  <1> QED
    BY <1>2, <1>3, <1>4, <1>5 DEF NotClosedUnderClient

(* A step that touches the lease.                                          *)
LEMMA TouchStep ==
  ASSUME LeaseInv, ~closed, TouchClientLease, UNCHANGED <<state, due, timeout, close, closed>>,
         pings' \in [Clients -> SUBSET (0..Trip)]
  PROVE  LeaseInv'
  <1> USE DEF LeaseInv
  <1>1. LeaseTypeOK' /\ DueBounded'
    BY DEF LeaseTypeOK, DueBounded, TouchClientLease
  <1>2. ASSUME NEW c \in Wanting PROVE Outlives(c)'
    <2>1. c \in Clients
      OBVIOUS
    <2>2. CASE state[c] \in Handled \cup {"beating"}
      BY <2>1, <2>2, TouchServes DEF Outlives
    <2>3. CASE state[c] \notin Handled \cup {"beating"}
      BY <2>3 DEF Outlives, Handled
    <2> QED
      BY <2>2, <2>3
  <1> QED
    BY <1>1, <1>2 DEF NotClosedUnderClient

LEMMA ReceiveConfigureStep ==
  ASSUME LeaseInv, ~closed, NEW c \in Clients, ReceiveConfigure(c)
  PROVE  LeaseInv'
  <1> USE DEF LeaseInv
  <1>1. /\ Becomes(c, "received", Configuring) /\ TouchClientLease
        /\ UNCHANGED <<pings, timeout, close, closed>>
    BY DEF ReceiveConfigure
  <1>2. "received" \in States /\ Configuring \in Nat
    BY DEF States, Handled
  <1>3. /\ state' \in [Clients -> States] /\ due' \in [Clients -> Nat]
        /\ state'[c] = "received" /\ due'[c] = Configuring
        /\ \A d \in Clients \ {c} : state'[d] = state[d] /\ due'[d] = due[d]
    BY <1>1, <1>2, BecomesFacts
  <1>4. lease' \in Nat /\ Configuring + Gap < lease'
    BY <1>1 DEF TouchClientLease, LeaseTypeOK, Gap
  <1>5. LeaseTypeOK' /\ DueBounded'
    BY <1>1, <1>3, <1>4 DEF LeaseTypeOK, DueBounded
  <1>6. Outlives(c)'
    BY <1>3, <1>4 DEF Outlives
  <1>7. ASSUME NEW d \in Wanting, d # c PROVE Outlives(d)'
    <2>1. d \in Clients
      OBVIOUS
    <2>2. CASE state[d] \in Handled \cup {"beating"}
      BY <1>1, <1>3, <1>7, <2>1, <2>2, TouchServes DEF Outlives
    <2>3. CASE state[d] \notin Handled \cup {"beating"}
      BY <1>3, <1>7, <2>1, <2>3 DEF Outlives, Handled
    <2> QED
      BY <2>2, <2>3
  <1> QED
    BY <1>1, <1>5, <1>6, <1>7 DEF NotClosedUnderClient

(* The steps of one client that leave the lease alone.                     *)
LEMMA ClientSteps ==
  ASSUME LeaseInv, ~closed, NEW c \in Clients,
         \/ SendConfigure(c) \/ ApplyConfigure(c) \/ AnswerConfigure(c)
         \/ StartHeartbeat(c) \/ Heartbeat(c) \/ Leave(c)
  PROVE  LeaseInv'
  <1> USE DEF LeaseInv
  <1>0. /\ Trip \in Nat /\ Interval + Late \in Nat /\ Configuring \in Nat /\ 0 \in Nat
        /\ due[c] \in Nat /\ pings \in [Clients -> SUBSET (0..Trip)]
        /\ timeout \in Timeouts /\ close \in BOOLEAN /\ lease \in Int
        /\ {"sent", "applied", "answered", "beating", "live", "gone"} \subseteq States
    BY DEF LeaseTypeOK, States, Handled, NoLease
  <1>1. CASE SendConfigure(c)
    <2>1. /\ Becomes(c, "sent", Trip) /\ UNCHANGED <<pings, lease, timeout, close, closed>>
      BY <1>1 DEF SendConfigure
    <2> QED
      BY <1>0, <2>1, OneClient
  <1>2. CASE ApplyConfigure(c)
    <2>1. /\ Becomes(c, "applied", due[c]) /\ UNCHANGED <<pings, lease, closed>>
          /\ timeout' \in Timeouts /\ close' \in BOOLEAN /\ state[c] = "received"
      BY <1>2 DEF ApplyConfigure
    <2>2. due[c] <= Configuring /\ (c \in Wanting => due[c] + Gap < lease)
      BY <2>1 DEF DueBounded, Outlives
    <2> QED
      BY <1>0, <2>1, <2>2, OneClient
  <1>3. CASE AnswerConfigure(c)
    <2>1. /\ Becomes(c, "answered", Trip) \/ Becomes(c, "gone", 0)
          /\ UNCHANGED <<pings, lease, timeout, close, closed>> /\ state[c] = "applied"
      BY <1>3 DEF AnswerConfigure
    <2>2. c \in Wanting => Trip + (Interval + Late) + Trip < lease
      <3>1. c \in Wanting => due[c] + Gap < lease
        BY <2>1 DEF Outlives
      <3> QED
        BY <1>0, <3>1 DEF Gap
    <2>3. CASE Becomes(c, "answered", Trip)
      BY <1>0, <2>1, <2>2, <2>3, OneClient
    <2>4. CASE Becomes(c, "gone", 0)
      BY <1>0, <2>1, <2>4, OneClient
    <2> QED
      BY <2>1, <2>3, <2>4
  <1>4. CASE StartHeartbeat(c)
    <2>1. /\ UNCHANGED <<pings, lease, timeout, close, closed>> /\ state[c] = "answered"
          /\ \/ Becomes(c, "beating", Interval + Late)
             \/ Becomes(c, "live", 0)
      BY <1>4 DEF StartHeartbeat
    <2>2. c \in Wanting => (Interval + Late) + Trip < lease
      <3>1. c \in Wanting => due[c] + (Interval + Late) + Trip < lease
        BY <2>1 DEF Outlives
      <3> QED
        BY <1>0, <3>1
    <2>3. CASE Becomes(c, "beating", Interval + Late)
      BY <1>0, <2>1, <2>2, <2>3, OneClient
    <2>4. CASE Becomes(c, "live", 0)
      BY <1>0, <2>1, <2>4, OneClient
    <2> QED
      BY <2>1, <2>3, <2>4
  <1>5. CASE Heartbeat(c)
    <2>1. /\ Becomes(c, "beating", Interval + Late) /\ UNCHANGED <<lease, timeout, close, closed>>
          /\ pings' = [pings EXCEPT ![c] = @ \cup {Trip}] /\ state[c] = "beating"
      BY <1>5 DEF Heartbeat
    <2>2. /\ pings' \in [Clients -> SUBSET (0..Trip)]
          /\ \A d \in Clients \ {c} : pings'[d] = pings[d]
          /\ pings'[c] = pings[c] \cup {Trip}
      BY <1>0, <2>1
    <2>3. c \in Wanting => \E t \in pings'[c] : t < lease
      <3>1. c \in Wanting => (due[c] + Trip < lease \/ \E t \in pings[c] : t < lease)
        BY <2>1 DEF Outlives
      <3>2. due[c] + Trip < lease => Trip < lease
        BY <1>0
      <3> QED
        BY <2>2, <3>1, <3>2
    <2> QED
      BY <1>0, <2>1, <2>2, <2>3, OneClient
  <1>6. CASE Leave(c)
    <2>1. /\ Becomes(c, "gone", 0) /\ UNCHANGED <<pings, lease, timeout, close, closed>>
      BY <1>6 DEF Leave
    <2> QED
      BY <1>0, <2>1, OneClient
  <1> QED
    BY <1>1, <1>2, <1>3, <1>4, <1>5, <1>6

(* The lease cannot run out while a wanting client owes it a touch.        *)
LEMMA ExpireStep ==
  ASSUME LeaseInv, ~closed, ExpireLease
  PROVE  LeaseInv'
  <1> USE DEF LeaseInv
  <1>1. \A c \in Wanting : state[c] \notin Handled \cup {"beating"}
    <2> SUFFICES ASSUME NEW c \in Wanting, state[c] \in Handled \cup {"beating"} PROVE FALSE
      OBVIOUS
    <2>1. /\ lease = 0 /\ due[c] \in Nat /\ pings[c] \subseteq 0..Trip
          /\ Trip \in Nat /\ Interval + Late \in Nat
      BY DEF ExpireLease, LeaseTypeOK
    <2>2. Outlives(c)
      OBVIOUS
    <2> QED
      BY <2>1, <2>2 DEF Outlives, Handled, Gap
  <1>2. LeaseTypeOK' /\ DueBounded'
    BY DEF ExpireLease, LeaseTypeOK, DueBounded
  <1> QED
    BY <1>1, <1>2 DEF ExpireLease, NotClosedUnderClient, Outlives, Handled

(* The lease's countdown never loses the lead over a client's.             *)
LEMMA TickStep ==
  ASSUME LeaseInv, ~closed, Tick
  PROVE  LeaseInv'
  <1> USE DEF LeaseInv
  <1>1. /\ UNCHANGED <<state, timeout, close, closed>>
        /\ \A c \in Clients : due'[c] = IF state[c] \in Timed THEN due[c] - 1 ELSE due[c]
        /\ \A c \in Clients : pings'[c] = {time - 1 : time \in pings[c]}
        /\ lease' = IF lease > 0 THEN lease - 1 ELSE lease
        /\ \A c \in Clients : state[c] \in Timed => due[c] > 0
        /\ \A c \in Clients : 0 \notin pings[c]
    BY DEF Tick
  <1>2. /\ \A c \in Clients : due[c] \in Nat /\ pings[c] \subseteq 0..Trip
        /\ lease \in Nat \cup {NoLease}
    BY DEF LeaseTypeOK
  <1>3. due' \in [Clients -> Nat]
    <2>1. \A c \in Clients : due'[c] \in Nat
      BY <1>1, <1>2
    <2> QED
      BY <2>1 DEF Tick
  <1>4. pings' \in [Clients -> SUBSET (0..Trip)]
    <2>1. ASSUME NEW c \in Clients PROVE \A time \in pings[c] : time - 1 \in 0..Trip
      BY <1>1, <1>2
    <2>2. \A c \in Clients : {time - 1 : time \in pings[c]} \in SUBSET (0..Trip)
      BY <2>1
    <2> QED
      BY <2>2 DEF Tick
  <1>5. LeaseTypeOK'
    BY <1>1, <1>2, <1>3, <1>4 DEF LeaseTypeOK, NoLease
  <1>6. DueBounded'
    BY <1>1, <1>2 DEF DueBounded, Timed, Handled
  <1>7. ASSUME NEW c \in Wanting PROVE Outlives(c)'
    <2>1. c \in Clients /\ Outlives(c)
      OBVIOUS
    <2>2. CASE state[c] \in {"received", "applied", "answered"}
      <3>1. state[c] \in Timed /\ due[c] > 0
        BY <1>1, <2>1, <2>2 DEF Timed, Handled
      <3> QED
        BY <1>1, <1>2, <2>1, <2>2, <3>1 DEF Outlives, Gap
    <2>3. CASE state[c] = "beating"
      <3>1. due'[c] = due[c] - 1 /\ due[c] > 0
        BY <1>1, <2>1, <2>3 DEF Timed
      <3>2. CASE due[c] + Trip < lease
        BY <1>1, <1>2, <2>1, <2>3, <3>1, <3>2 DEF Outlives
      <3>3. ASSUME NEW time \in pings[c], time < lease PROVE Outlives(c)'
        <4>1. time - 1 \in pings'[c] /\ time \in Nat
          BY <1>1, <1>2, <2>1
        <4>2. lease > 0 /\ lease' = lease - 1 /\ time - 1 < lease'
          BY <1>1, <1>2, <3>3, <4>1
        <4> QED
          BY <1>1, <2>3, <4>1, <4>2 DEF Outlives
      <3> QED
        BY <2>1, <2>3, <3>2, <3>3 DEF Outlives
    <2>4. CASE state[c] \notin {"received", "applied", "answered", "beating"}
      BY <1>1, <2>4 DEF Outlives
    <2> QED
      BY <2>2, <2>3, <2>4
  <1> QED
    BY <1>1, <1>5, <1>6, <1>7 DEF NotClosedUnderClient

LEMMA LeaseInvNext == LeaseInv /\ [LeaseNext]_leaseVars => LeaseInv'
  <1> SUFFICES ASSUME LeaseInv, [LeaseNext]_leaseVars PROVE LeaseInv'
    OBVIOUS
  <1>1. CASE UNCHANGED leaseVars
    BY <1>1 DEF leaseVars, LeaseInv, LeaseTypeOK, DueBounded, Outlives, NotClosedUnderClient
  <1>2. ASSUME ~closed, NEW c \in Clients, ReceivePing(c) \/ ReceiveCommand(c)
        PROVE  LeaseInv'
    <2>1. /\ TouchClientLease /\ UNCHANGED <<state, due, timeout, close, closed>>
          /\ pings' \in [Clients -> SUBSET (0..Trip)]
      BY <1>2 DEF ReceivePing, ReceiveCommand, LeaseInv, LeaseTypeOK
    <2> QED
      BY <1>2, <2>1, TouchStep
  <1>3. ASSUME ~closed, NEW c \in Clients, ReceiveConfigure(c)
        PROVE  LeaseInv'
    BY <1>3, ReceiveConfigureStep
  <1>4. ASSUME ~closed, NEW c \in Clients,
               \/ SendConfigure(c) \/ ApplyConfigure(c) \/ AnswerConfigure(c)
               \/ StartHeartbeat(c) \/ Heartbeat(c) \/ Leave(c)
        PROVE  LeaseInv'
    BY <1>4, ClientSteps
  <1>5. CASE ~closed /\ ExpireLease
    BY <1>5, ExpireStep
  <1>6. CASE ~closed /\ Tick
    BY <1>6, TickStep
  <1> QED
    BY <1>1, <1>2, <1>3, <1>4, <1>5, <1>6 DEF LeaseNext

(* The states of clients, messages and the lease have their types.         *)
THEOREM LeaseTyped == LeaseSpec => []LeaseTypeOK
  <1>1. LeaseInv => LeaseTypeOK
    BY DEF LeaseInv
  <1> QED
    BY <1>1, LeaseInvInit, LeaseInvNext, PTL DEF LeaseSpec

(* A lease longer than a configure request and a late heartbeat together   *)
(* never closes the browser under a client that depends on it, for every   *)
(* choice of the times.                                                    *)
THEOREM LeaseKeepsBrowser == LeaseSpec => []NotClosedUnderClient
  <1>1. LeaseInv => NotClosedUnderClient
    BY DEF LeaseInv
  <1> QED
    BY <1>1, LeaseInvInit, LeaseInvNext, PTL DEF LeaseSpec
=============================================================================
