---------------------- MODULE WSUpstreamTransport_proofs ----------------------
(***************************************************************************)
(* Proofs about WSUpstreamTransport, for any set of calls and any bounds.  *)
(* IInv is inductive: the map of pending promises agrees with the calls,   *)
(* ids are fresh, and what is on the wire belongs to the call it was sent  *)
(* for.  From it follow the invariants the runs check and the refinement   *)
(* of CommandOutcomes.  One lemma per part of IInv shows that every step   *)
(* keeps that part.                                                        *)
(***************************************************************************)
EXTENDS WSUpstreamTransport, UpstreamTransport_proofs

IInv ==
    /\ RequestInv
    /\ ConnTypeOK
    /\ WireMatchesCalls
    /\ AttemptsAreStarted
    /\ NoneWaitsOnDeadSocket
    /\ AwaitedAttemptRuns

USE MaxSocketsAssumption DEF Sockets, AttemptStates, SocketStates

\* The initial state satisfies the inductive invariant.
LEMMA InitIInv == Init => IInv
  <1> SUFFICES ASSUME Init PROVE IInv
    OBVIOUS
  <1> USE DEF Init
  <1>1. RequestInv
    BY RequestInitInv
  <1>2. ConnTypeOK
    <2>1. received \in [Sockets -> SUBSET Command] /\ inbound \in [Sockets -> SUBSET Response]
      OBVIOUS
    <2> QED
      BY <2>1 DEF ConnTypeOK
  <1>3. /\ WireMatchesCalls
        /\ AttemptsAreStarted
        /\ NoneWaitsOnDeadSocket
        /\ AwaitedAttemptRuns
    BY DEF RequestInit, WireMatchesCalls, AttemptsAreStarted, NoneWaitsOnDeadSocket,
           AwaitedAttemptRuns
  <1> QED
    BY <1>1, <1>2, <1>3 DEF IInv

\* Every step keeps the pending map, the ids and the calls in agreement.
LEMMA RequestStep == IInv /\ [Next]_vars => RequestInv'
  <1> SUFFICES ASSUME IInv, [Next]_vars PROVE RequestInv'
    OBVIOUS
  <1> USE DEF IInv
  <1>1. CASE Connect
    <2>1. UNCHANGED requestVars
      BY <1>1 DEF Connect, StartAttempt
    <2> QED
      BY <2>1, RequestStutterInv
  <1>2. CASE Close
    <2>1. UNCHANGED requestVars
      BY <1>2 DEF Close
    <2> QED
      BY <2>1, RequestStutterInv
  <1>3. ASSUME NEW c \in Calls, SendStartsAttempt(c)
         PROVE  RequestInv'
    <2>1. /\ UNCHANGED <<next_id, pending, id_of>>
          /\ phase' \in [Calls -> Phases]
          /\ \A d \in Calls : \/ phase'[d] = phase[d]
                               \/ /\ phase[d] \in {"idle", "connecting"}
                                  /\ phase'[d] \in {"connecting", "connected", "rejected"}
      BY <1>3 DEF SendStartsAttempt, StartAttempt, RequestInv, RequestTypeOK, Phases
    <2> QED
      BY <2>1, ConnectMovesInv
  <1>4. ASSUME NEW c \in Calls, SendOnOpenSocket(c)
         PROVE  RequestInv'
    <2>1. /\ UNCHANGED <<next_id, pending, id_of>>
          /\ phase' \in [Calls -> Phases]
          /\ \A d \in Calls : \/ phase'[d] = phase[d]
                               \/ /\ phase[d] \in {"idle", "connecting"}
                                  /\ phase'[d] \in {"connecting", "connected", "rejected"}
      BY <1>4 DEF SendOnOpenSocket, RequestInv, RequestTypeOK, Phases
    <2> QED
      BY <2>1, ConnectMovesInv
  <1>5. ASSUME NEW c \in Calls, SendJoinsAttempt(c)
         PROVE  RequestInv'
    <2>1. /\ UNCHANGED <<next_id, pending, id_of>>
          /\ phase' \in [Calls -> Phases]
          /\ \A d \in Calls : \/ phase'[d] = phase[d]
                               \/ /\ phase[d] \in {"idle", "connecting"}
                                  /\ phase'[d] \in {"connecting", "connected", "rejected"}
      BY <1>5 DEF SendJoinsAttempt, RequestInv, RequestTypeOK, Phases
    <2> QED
      BY <2>1, ConnectMovesInv
  <1>6. ASSUME NEW k \in Sockets, Dial(k)
         PROVE  RequestInv'
    <2>1. UNCHANGED requestVars
      BY <1>6 DEF Dial
    <2> QED
      BY <2>1, RequestStutterInv
  <1>7. ASSUME NEW k \in Sockets, AttemptFails(k)
         PROVE  RequestInv'
    <2>1. /\ UNCHANGED <<next_id, pending, id_of>>
          /\ phase' \in [Calls -> Phases]
          /\ \A d \in Calls : \/ phase'[d] = phase[d]
                               \/ /\ phase[d] \in {"idle", "connecting"}
                                  /\ phase'[d] \in {"connecting", "connected", "rejected"}
      BY <1>7 DEF AttemptFails, Waiting, RequestInv, RequestTypeOK, Phases
    <2> QED
      BY <2>1, ConnectMovesInv
  <1>8. ASSUME NEW k \in Sockets, ConnectCatches(k)
         PROVE  RequestInv'
    <2>1. UNCHANGED requestVars
      BY <1>8 DEF ConnectCatches
    <2> QED
      BY <2>1, RequestStutterInv
  <1>9. ASSUME NEW k \in Sockets, OpenEvent(k)
         PROVE  RequestInv'
    <2>1. /\ UNCHANGED <<next_id, pending, id_of>>
          /\ phase' \in [Calls -> Phases]
          /\ \A d \in Calls : \/ phase'[d] = phase[d]
                               \/ /\ phase[d] \in {"idle", "connecting"}
                                  /\ phase'[d] \in {"connecting", "connected", "rejected"}
      BY <1>9 DEF OpenEvent, Waiting, RequestInv, RequestTypeOK, Phases
    <2> QED
      BY <2>1, ConnectMovesInv
  <1>10. ASSUME NEW k \in Sockets, ErrorEvent(k)
         PROVE  RequestInv'
    <2>1. \A d \in Waiting(k) : phase[d] = "connecting"
      BY DEF Waiting
    <2>2. Waiting(k) \in SUBSET Calls
      BY DEF Waiting
    <2> QED
      BY <1>10, <2>1, <2>2, EmitCloseInv DEF ErrorEvent, SocketGone
  <1>11. ASSUME NEW k \in Sockets, CloseEvent(k)
         PROVE  RequestInv'
    BY <1>11, EmitCloseInv DEF CloseEvent, SocketGone
  <1>12. ASSUME NEW k \in Sockets, NEW m \in inbound[k], ReceiveResponse(k, m)
         PROVE  RequestInv'
    <2>1. m.id \in Ids
      BY DEF ConnTypeOK, Response
    <2> QED
      BY <1>12, <2>1, AcceptResponseInv DEF ReceiveResponse
  <1>13. ASSUME NEW c \in Calls, Dispatch(c)
         PROVE  RequestInv'
    BY <1>13, RegisterCallInv, RegisterFailsInv DEF Dispatch
  <1>14. ASSUME NEW c \in Calls, RequestTimeout(c)
         PROVE  RequestInv'
    BY <1>14, TimerFiresInv DEF RequestTimeout
  <1>15. ASSUME NEW k \in Sockets, BrowserCloses(k)
         PROVE  RequestInv'
    <2>1. UNCHANGED requestVars
      BY <1>15 DEF BrowserCloses
    <2> QED
      BY <2>1, RequestStutterInv
  <1>16. ASSUME NEW k \in Sockets, NEW m \in received[k], NEW kind \in {"result", "error"},
                BrowserAnswers(k, m, kind)
         PROVE  RequestInv'
    <2>1. UNCHANGED requestVars
      BY <1>16 DEF BrowserAnswers
    <2> QED
      BY <2>1, RequestStutterInv
  <1>17. CASE UNCHANGED vars
    <2>1. UNCHANGED requestVars
      BY <1>17 DEF vars
    <2> QED
      BY <2>1, RequestStutterInv
  <1>21. ASSUME NEW c \in Calls, SendWithoutUrl(c)
         PROVE  RequestInv'
    <2>1. /\ UNCHANGED <<next_id, pending, id_of>>
          /\ phase' \in [Calls -> Phases]
          /\ \A d \in Calls : \/ phase'[d] = phase[d]
                               \/ /\ phase[d] \in {"idle", "connecting"}
                                  /\ phase'[d] \in {"connecting", "connected", "rejected"}
      BY <1>21 DEF SendWithoutUrl, RequestInv, RequestTypeOK, Phases
    <2> QED
      BY <2>1, ConnectMovesInv
  <1>22. ASSUME NEW u \in Urls, Update(u)
         PROVE  RequestInv'
    <2>1. UNCHANGED requestVars
      BY <1>22 DEF Update
    <2> QED
      BY <2>1, RequestStutterInv
  <1> HIDE DEF IInv
  <1>18. CASE User
    BY <1>1, <1>2, <1>3, <1>4, <1>5, <1>18, <1>21, <1>22 DEF User
  <1>19. CASE Loop
    BY <1>6, <1>7, <1>8, <1>9, <1>10, <1>11, <1>12, <1>13, <1>14, <1>19 DEF Loop
  <1>20. CASE Browser
    BY <1>15, <1>16, <1>20 DEF Browser
  <1> QED
    BY <1>17, <1>18, <1>19, <1>20 DEF Next

\* Every step keeps the types of the connection and of the wire.
LEMMA ConnTypeStep == IInv /\ [Next]_vars => ConnTypeOK'
  <1> SUFFICES ASSUME RequestTypeOK, ConnTypeOK, [Next]_vars PROVE ConnTypeOK'
    BY DEF IInv, RequestInv
  <1> USE DEF ConnTypeOK, Urls, connVars, wireVars
  <1>1. CASE Connect
    BY <1>1 DEF Connect, StartAttempt
  <1>2. CASE Close
    BY <1>2 DEF Close
  <1>3. ASSUME NEW c \in Calls, SendStartsAttempt(c)
         PROVE  ConnTypeOK'
    BY <1>3 DEF SendStartsAttempt, StartAttempt
  <1>4. ASSUME NEW c \in Calls, SendOnOpenSocket(c)
         PROVE  ConnTypeOK'
    BY <1>4 DEF SendOnOpenSocket
  <1>5. ASSUME NEW c \in Calls, SendJoinsAttempt(c)
         PROVE  ConnTypeOK'
    BY <1>5 DEF SendJoinsAttempt
  <1>6. ASSUME NEW k \in Sockets, Dial(k)
         PROVE  ConnTypeOK'
    BY <1>6 DEF Dial
  <1>7. ASSUME NEW k \in Sockets, AttemptFails(k)
         PROVE  ConnTypeOK'
    BY <1>7 DEF AttemptFails
  <1>8. ASSUME NEW k \in Sockets, ConnectCatches(k)
         PROVE  ConnTypeOK'
    BY <1>8 DEF ConnectCatches
  <1>9. ASSUME NEW k \in Sockets, OpenEvent(k)
         PROVE  ConnTypeOK'
    BY <1>9 DEF OpenEvent
  <1>10. ASSUME NEW k \in Sockets, ErrorEvent(k)
         PROVE  ConnTypeOK'
    BY <1>10 DEF ErrorEvent, SocketGone
  <1>11. ASSUME NEW k \in Sockets, CloseEvent(k)
         PROVE  ConnTypeOK'
    BY <1>11 DEF CloseEvent, SocketGone
  <1>12. ASSUME NEW k \in Sockets, NEW m \in inbound[k], ReceiveResponse(k, m)
         PROVE  ConnTypeOK'
    BY <1>12 DEF ReceiveResponse
  <1>13. ASSUME NEW c \in Calls, Dispatch(c)
         PROVE  ConnTypeOK'
    <2>1. CASE WsOpen
      <3>1. next_id \in Ids
        BY <1>13, <2>1 DEF Dispatch, RegisterCall, TakeId
      <3>2. CommandOf(c) \in Command
        BY <3>1 DEF Command, CommandOf
      <3>3. ws \in Sockets
        BY <2>1 DEF WsOpen
      <3>4. /\ received' = [received EXCEPT ![ws] = @ \cup {CommandOf(c)}]
            /\ sent_on' = [sent_on EXCEPT ![c] = ws]
            /\ UNCHANGED <<connVars, inbound, reply>>
        BY <1>13, <2>1 DEF Dispatch
      <3>5. received[ws] \cup {CommandOf(c)} \in SUBSET Command
        BY <3>2, <3>3
      <3>6. received' \in [Sockets -> SUBSET Command]
        BY <3>3, <3>4, <3>5
      <3> QED
        BY <3>3, <3>4, <3>6
    <2>2. CASE ~WsOpen
      BY <1>13, <2>2 DEF Dispatch
    <2> QED
      BY <2>1, <2>2
  <1>14. ASSUME NEW c \in Calls, RequestTimeout(c)
         PROVE  ConnTypeOK'
    BY <1>14 DEF RequestTimeout
  <1>15. ASSUME NEW k \in Sockets, BrowserCloses(k)
         PROVE  ConnTypeOK'
    BY <1>15 DEF BrowserCloses
  <1>16. ASSUME NEW k \in Sockets, NEW m \in received[k], NEW kind \in {"result", "error"},
                BrowserAnswers(k, m, kind)
         PROVE  ConnTypeOK'
    <2>1. m.id \in Ids /\ m.call \in Calls
      BY DEF Command
    <2>2. ResponseTo(m, kind) \in Response
      BY <2>1 DEF Response, ResponseTo
    <2> QED
      BY <1>16, <2>1, <2>2 DEF BrowserAnswers
  <1>17. CASE UNCHANGED vars
    BY <1>17 DEF vars
  <1>21. ASSUME NEW c \in Calls, SendWithoutUrl(c)
         PROVE  ConnTypeOK'
    BY <1>21 DEF SendWithoutUrl
  <1>22. ASSUME NEW u \in Urls, Update(u)
         PROVE  ConnTypeOK'
    BY <1>22 DEF Update
  <1> HIDE DEF ConnTypeOK
  <1>18. CASE User
    BY <1>1, <1>2, <1>3, <1>4, <1>5, <1>18, <1>21, <1>22 DEF User
  <1>19. CASE Loop
    BY <1>6, <1>7, <1>8, <1>9, <1>10, <1>11, <1>12, <1>13, <1>14, <1>19 DEF Loop
  <1>20. CASE Browser
    BY <1>15, <1>16, <1>20 DEF Browser
  <1> QED
    BY <1>17, <1>18, <1>19, <1>20 DEF Next

\* A step that sends and answers nothing leaves the wire in agreement.
LEMMA WireStutter ==
    ASSUME IInv, UNCHANGED <<id_of, sent_on, reply>>,
           \A k \in Sockets : received'[k] \subseteq received[k] /\ inbound'[k] \subseteq inbound[k]
    PROVE  WireMatchesCalls'
  <1>1. WireMatchesCalls
    BY DEF IInv
  <1> QED
    BY <1>1 DEF WireMatchesCalls

\* Every step keeps the wire in agreement with the calls.
LEMMA WireStep == IInv /\ [Next]_vars => WireMatchesCalls'
  <1> SUFFICES ASSUME IInv, [Next]_vars PROVE WireMatchesCalls'
    OBVIOUS
  <1>0. /\ received \in [Sockets -> SUBSET Command]
        /\ inbound \in [Sockets -> SUBSET Response]
        /\ sent_on \in [Calls -> 0..MaxSockets]
        /\ reply \in [Calls -> {"none", "result", "error"}]
        /\ id_of \in [Calls -> 0..MaxId]
        /\ WireMatchesCalls
    BY DEF IInv, ConnTypeOK, RequestInv, RequestTypeOK
  <1>1. CASE Connect
    <2>1. /\ UNCHANGED <<id_of, sent_on, reply>>
          /\ \A l \in Sockets : received'[l] \subseteq received[l] /\ inbound'[l] \subseteq inbound[l]
      BY <1>1, <1>0 DEF Connect, StartAttempt, requestVars, wireVars
    <2> QED
      BY <2>1, WireStutter
  <1>2. CASE Close
    <2>1. /\ UNCHANGED <<id_of, sent_on, reply>>
          /\ \A l \in Sockets : received'[l] \subseteq received[l] /\ inbound'[l] \subseteq inbound[l]
      BY <1>2, <1>0 DEF Close, requestVars, wireVars
    <2> QED
      BY <2>1, WireStutter
  <1>3. ASSUME NEW c \in Calls, SendStartsAttempt(c)
         PROVE  WireMatchesCalls'
    <2>1. /\ UNCHANGED <<id_of, sent_on, reply>>
          /\ \A l \in Sockets : received'[l] \subseteq received[l] /\ inbound'[l] \subseteq inbound[l]
      BY <1>3, <1>0 DEF SendStartsAttempt, StartAttempt, requestVars, wireVars
    <2> QED
      BY <2>1, WireStutter
  <1>4. ASSUME NEW c \in Calls, SendOnOpenSocket(c)
         PROVE  WireMatchesCalls'
    <2>1. /\ UNCHANGED <<id_of, sent_on, reply>>
          /\ \A l \in Sockets : received'[l] \subseteq received[l] /\ inbound'[l] \subseteq inbound[l]
      BY <1>4, <1>0 DEF SendOnOpenSocket, requestVars, wireVars
    <2> QED
      BY <2>1, WireStutter
  <1>5. ASSUME NEW c \in Calls, SendJoinsAttempt(c)
         PROVE  WireMatchesCalls'
    <2>1. /\ UNCHANGED <<id_of, sent_on, reply>>
          /\ \A l \in Sockets : received'[l] \subseteq received[l] /\ inbound'[l] \subseteq inbound[l]
      BY <1>5, <1>0 DEF SendJoinsAttempt, requestVars, wireVars
    <2> QED
      BY <2>1, WireStutter
  <1>6. ASSUME NEW k \in Sockets, Dial(k)
         PROVE  WireMatchesCalls'
    <2>1. /\ UNCHANGED <<id_of, sent_on, reply>>
          /\ \A l \in Sockets : received'[l] \subseteq received[l] /\ inbound'[l] \subseteq inbound[l]
      BY <1>6, <1>0 DEF Dial, requestVars, wireVars
    <2> QED
      BY <2>1, WireStutter
  <1>7. ASSUME NEW k \in Sockets, AttemptFails(k)
         PROVE  WireMatchesCalls'
    <2>1. /\ UNCHANGED <<id_of, sent_on, reply>>
          /\ \A l \in Sockets : received'[l] \subseteq received[l] /\ inbound'[l] \subseteq inbound[l]
      BY <1>7, <1>0 DEF AttemptFails, requestVars, wireVars
    <2> QED
      BY <2>1, WireStutter
  <1>8. ASSUME NEW k \in Sockets, ConnectCatches(k)
         PROVE  WireMatchesCalls'
    <2>1. /\ UNCHANGED <<id_of, sent_on, reply>>
          /\ \A l \in Sockets : received'[l] \subseteq received[l] /\ inbound'[l] \subseteq inbound[l]
      BY <1>8, <1>0 DEF ConnectCatches, requestVars, wireVars
    <2> QED
      BY <2>1, WireStutter
  <1>9. ASSUME NEW k \in Sockets, OpenEvent(k)
         PROVE  WireMatchesCalls'
    <2>1. /\ UNCHANGED <<id_of, sent_on, reply>>
          /\ \A l \in Sockets : received'[l] \subseteq received[l] /\ inbound'[l] \subseteq inbound[l]
      BY <1>9, <1>0 DEF OpenEvent, requestVars, wireVars
    <2> QED
      BY <2>1, WireStutter
  <1>10. ASSUME NEW k \in Sockets, ErrorEvent(k)
         PROVE  WireMatchesCalls'
    <2>1. /\ UNCHANGED <<id_of, sent_on, reply>>
          /\ \A l \in Sockets : received'[l] \subseteq received[l] /\ inbound'[l] \subseteq inbound[l]
      BY <1>10, <1>0 DEF ErrorEvent, SocketGone, EmitClose
    <2> QED
      BY <2>1, WireStutter
  <1>11. ASSUME NEW k \in Sockets, CloseEvent(k)
         PROVE  WireMatchesCalls'
    <2>1. /\ UNCHANGED <<id_of, sent_on, reply>>
          /\ \A l \in Sockets : received'[l] \subseteq received[l] /\ inbound'[l] \subseteq inbound[l]
      BY <1>11, <1>0 DEF CloseEvent, SocketGone, EmitClose
    <2> QED
      BY <2>1, WireStutter
  <1>12. ASSUME NEW k \in Sockets, NEW m \in inbound[k], ReceiveResponse(k, m)
         PROVE  WireMatchesCalls'
    <2>1. /\ UNCHANGED <<id_of, sent_on, reply>>
          /\ \A l \in Sockets : received'[l] \subseteq received[l] /\ inbound'[l] \subseteq inbound[l]
      BY <1>12, <1>0 DEF ReceiveResponse, AcceptResponse
    <2> QED
      BY <2>1, WireStutter
  <1>13. ASSUME NEW c \in Calls, Dispatch(c)
         PROVE  WireMatchesCalls'
    <2>1. CASE ~WsOpen
      <3>1. /\ id_of' = [id_of EXCEPT ![c] = next_id] /\ next_id \in Ids
            /\ UNCHANGED <<sent_on, reply, received, inbound>>
        BY <1>13, <2>1 DEF Dispatch, RegisterFails, TakeId
      <3>2. id_of[c] = 0
        BY <1>13 DEF Dispatch, IInv, RequestInv, IdsAreFresh
      <3> QED
        BY <1>0, <3>1, <3>2 DEF WireMatchesCalls, Ids, Command, Response
    <2>2. CASE WsOpen
      <3>1. /\ id_of' = [id_of EXCEPT ![c] = next_id] /\ next_id \in Ids
            /\ sent_on' = [sent_on EXCEPT ![c] = ws] /\ ws \in Sockets
            /\ received' = [received EXCEPT ![ws] = received[ws] \cup {CommandOf(c)}]
            /\ UNCHANGED <<reply, inbound>>
        BY <1>13, <2>2 DEF Dispatch, RegisterCall, TakeId, WsOpen, IInv, ConnTypeOK
      <3>2. id_of[c] = 0 /\ reply[c] = "none"
        BY <1>13, <1>0 DEF Dispatch, IInv, RequestInv, IdsAreFresh, WireMatchesCalls
      <3>3. ASSUME NEW d \in Calls, reply'[d] # "none" PROVE id_of'[d] # 0
        BY <1>0, <3>1, <3>2, <3>3 DEF WireMatchesCalls
      <3>4. CommandOf(c).id = next_id /\ CommandOf(c).call = c
        BY DEF CommandOf
      <3>5. ASSUME NEW k \in Sockets, NEW m \in received'[k]
            PROVE  id_of'[m.call] = m.id /\ sent_on'[m.call] = k /\ reply'[m.call] = "none"
        <4>1. CASE m \in received[k]
          <5>1. m.call \in Calls /\ m.id \in Ids
            BY <1>0, <4>1 DEF Command
          <5>2. m.call # c
            BY <1>0, <3>2, <4>1, <5>1 DEF WireMatchesCalls, Ids
          <5> QED
            BY <1>0, <3>1, <4>1, <5>1, <5>2 DEF WireMatchesCalls
        <4>2. CASE m \notin received[k]
          <5>1. k = ws /\ m = CommandOf(c)
            BY <1>0, <3>1, <3>5, <4>2
          <5> QED
            BY <1>0, <3>1, <3>2, <3>4, <5>1
        <4> QED
          BY <4>1, <4>2
      <3>6. ASSUME NEW k \in Sockets, NEW m \in inbound'[k]
            PROVE  \E d \in Calls : id_of'[d] = m.id /\ reply'[d] = m.kind
        <4>1. m \in inbound[k] /\ m.id \in Ids
          BY <1>0, <3>1, <3>6 DEF Response
        <4>2. PICK d \in Calls : id_of[d] = m.id /\ reply[d] = m.kind
          BY <1>0, <4>1 DEF WireMatchesCalls
        <4>3. d # c
          BY <3>2, <4>1, <4>2 DEF Ids
        <4> QED
          BY <1>0, <3>1, <4>2, <4>3
      <3> QED
        BY <3>3, <3>5, <3>6 DEF WireMatchesCalls
    <2> QED
      BY <2>1, <2>2
  <1>14. ASSUME NEW c \in Calls, RequestTimeout(c)
         PROVE  WireMatchesCalls'
    <2>1. /\ UNCHANGED <<id_of, sent_on, reply>>
          /\ \A l \in Sockets : received'[l] \subseteq received[l] /\ inbound'[l] \subseteq inbound[l]
      BY <1>14, <1>0 DEF RequestTimeout, TimerFires, wireVars
    <2> QED
      BY <2>1, WireStutter
  <1>15. ASSUME NEW k \in Sockets, BrowserCloses(k)
         PROVE  WireMatchesCalls'
    <2>1. /\ UNCHANGED <<id_of, sent_on, reply>>
          /\ \A l \in Sockets : received'[l] \subseteq received[l] /\ inbound'[l] \subseteq inbound[l]
      BY <1>15, <1>0 DEF BrowserCloses, requestVars, wireVars
    <2> QED
      BY <2>1, WireStutter
  <1>16. ASSUME NEW k \in Sockets, NEW m \in received[k], NEW kind \in {"result", "error"},
                BrowserAnswers(k, m, kind)
         PROVE  WireMatchesCalls'
    <2>1. /\ m \in Command /\ m.id \in Ids /\ m.call \in Calls
          /\ id_of[m.call] = m.id /\ sent_on[m.call] = k /\ reply[m.call] = "none"
      BY <1>0 DEF Command, WireMatchesCalls
    <2>2. /\ received' = [received EXCEPT ![k] = received[k] \ {m}]
          /\ inbound' = [inbound EXCEPT ![k] = inbound[k] \cup {ResponseTo(m, kind)}]
          /\ reply' = [reply EXCEPT ![m.call] = kind]
          /\ UNCHANGED <<id_of, sent_on>>
      BY <1>16 DEF BrowserAnswers, requestVars
    <2>3. ASSUME NEW d \in Calls, reply'[d] # "none" PROVE id_of'[d] # 0
      BY <1>0, <2>1, <2>2, <2>3 DEF WireMatchesCalls, Ids
    <2>4. ASSUME NEW l \in Sockets, NEW n \in received'[l]
          PROVE  id_of'[n.call] = n.id /\ sent_on'[n.call] = l /\ reply'[n.call] = "none"
      <3>1. /\ n \in received[l] /\ n \in Command /\ n.call \in Calls
            /\ id_of[n.call] = n.id /\ sent_on[n.call] = l /\ reply[n.call] = "none"
        BY <1>0, <2>2, <2>4 DEF Command, WireMatchesCalls
      <3>2. n.call # m.call
        <4> SUFFICES ASSUME n.call = m.call PROVE FALSE
          OBVIOUS
        <4>1. l = k /\ n.id = m.id
          BY <2>1, <3>1
        <4>2. n = m
          BY <2>1, <3>1, <4>1 DEF Command
        <4> QED
          BY <1>0, <2>2, <2>4, <4>1, <4>2
      <3> QED
        BY <1>0, <2>1, <2>2, <3>1, <3>2
    <2>5. ResponseTo(m, kind).id = m.id /\ ResponseTo(m, kind).kind = kind
      BY DEF ResponseTo
    <2>6. ASSUME NEW l \in Sockets, NEW n \in inbound'[l]
          PROVE  \E d \in Calls : id_of'[d] = n.id /\ reply'[d] = n.kind
      <3>1. CASE n \in inbound[l]
        <4>1. n.kind \in {"result", "error"}
          BY <1>0, <3>1 DEF Response
        <4>2. PICK d \in Calls : id_of[d] = n.id /\ reply[d] = n.kind
          BY <1>0, <3>1 DEF WireMatchesCalls
        <4>3. d # m.call
          BY <2>1, <4>1, <4>2
        <4> QED
          BY <1>0, <2>2, <4>2, <4>3
      <3>2. CASE n \notin inbound[l]
        <4>1. n = ResponseTo(m, kind)
          BY <1>0, <2>2, <2>6, <3>2
        <4> QED
          BY <1>0, <2>1, <2>2, <2>5, <4>1
      <3> QED
        BY <3>1, <3>2
    <2> QED
      BY <2>3, <2>4, <2>6 DEF WireMatchesCalls
  <1>17. CASE UNCHANGED vars
    <2>1. /\ UNCHANGED <<id_of, sent_on, reply>>
          /\ \A l \in Sockets : received'[l] \subseteq received[l] /\ inbound'[l] \subseteq inbound[l]
      BY <1>17, <1>0 DEF vars, requestVars, wireVars
    <2> QED
      BY <2>1, WireStutter
  <1>21. ASSUME NEW c \in Calls, SendWithoutUrl(c)
         PROVE  WireMatchesCalls'
    <2>1. /\ UNCHANGED <<id_of, sent_on, reply>>
          /\ \A l \in Sockets : received'[l] \subseteq received[l] /\ inbound'[l] \subseteq inbound[l]
      BY <1>21, <1>0 DEF SendWithoutUrl, requestVars, wireVars
    <2> QED
      BY <2>1, WireStutter
  <1>22. ASSUME NEW u \in Urls, Update(u)
         PROVE  WireMatchesCalls'
    <2>1. /\ UNCHANGED <<id_of, sent_on, reply>>
          /\ \A l \in Sockets : received'[l] \subseteq received[l] /\ inbound'[l] \subseteq inbound[l]
      BY <1>22, <1>0 DEF Update, requestVars, wireVars
    <2> QED
      BY <2>1, WireStutter
  <1>18. CASE User
    BY <1>1, <1>2, <1>3, <1>4, <1>5, <1>18, <1>21, <1>22 DEF User
  <1>19. CASE Loop
    BY <1>6, <1>7, <1>8, <1>9, <1>10, <1>11, <1>12, <1>13, <1>14, <1>19 DEF Loop
  <1>20. CASE Browser
    BY <1>15, <1>16, <1>20 DEF Browser
  <1> QED
    BY <1>17, <1>18, <1>19, <1>20 DEF Next

\* Every step keeps connect_promise and the waiting calls on started attempts,
\* and a call that awaits an attempt on one that still runs.
LEMMA AttemptStep == IInv /\ [Next]_vars => AttemptsAreStarted' /\ AwaitedAttemptRuns'
  <1> SUFFICES ASSUME RequestTypeOK, PendingMatchesCalls, ConnTypeOK, AttemptsAreStarted,
                      AwaitedAttemptRuns, [Next]_vars
               PROVE  AttemptsAreStarted' /\ AwaitedAttemptRuns'
    BY DEF IInv, RequestInv
  <1> USE DEF AttemptsAreStarted, AwaitedAttemptRuns
  <1>0. /\ awaits \in [Calls -> 0..MaxSockets]
        /\ connect_promise \in 0..MaxSockets
        /\ attempts \in 0..MaxSockets
        /\ attempt \in [Sockets -> AttemptStates]
        /\ sock \in [Sockets -> SocketStates]
        /\ phase \in [Calls -> Phases]
    BY DEF ConnTypeOK, RequestTypeOK
  <1> HIDE DEF AttemptStates, SocketStates
  <1>1. CASE Connect
    BY <1>1, <1>0 DEF Connect, StartAttempt, connVars, requestVars
  <1>2. CASE Close
    BY <1>2, <1>0 DEF Close, connVars, requestVars
  <1>3. ASSUME NEW c \in Calls, SendStartsAttempt(c)
         PROVE  AttemptsAreStarted' /\ AwaitedAttemptRuns'
    BY <1>3, <1>0 DEF SendStartsAttempt, StartAttempt, connVars, requestVars
  <1>4. ASSUME NEW c \in Calls, SendOnOpenSocket(c)
         PROVE  AttemptsAreStarted' /\ AwaitedAttemptRuns'
    BY <1>4, <1>0 DEF SendOnOpenSocket, Waiting, connVars
  <1>5. ASSUME NEW c \in Calls, SendJoinsAttempt(c)
         PROVE  AttemptsAreStarted' /\ AwaitedAttemptRuns'
    <2>1. attempt[connect_promise] \in AttemptStates /\ attempt[connect_promise] # "unused"
      BY <1>5, <1>0 DEF SendJoinsAttempt
    <2> QED
      BY <1>5, <1>0, <2>1 DEF SendJoinsAttempt, AttemptStates
  <1>6. ASSUME NEW k \in Sockets, Dial(k)
         PROVE  AttemptsAreStarted' /\ AwaitedAttemptRuns'
    BY <1>6, <1>0 DEF Dial, Resolves, connVars, requestVars
  <1>7. ASSUME NEW k \in Sockets, AttemptFails(k)
         PROVE  AttemptsAreStarted' /\ AwaitedAttemptRuns'
    BY <1>7, <1>0 DEF AttemptFails, Resolves, Waiting, connVars
  <1>8. ASSUME NEW k \in Sockets, ConnectCatches(k)
         PROVE  AttemptsAreStarted' /\ AwaitedAttemptRuns'
    BY <1>8, <1>0 DEF ConnectCatches, connVars, requestVars
  <1>9. ASSUME NEW k \in Sockets, OpenEvent(k)
         PROVE  AttemptsAreStarted' /\ AwaitedAttemptRuns'
    BY <1>9, <1>0 DEF OpenEvent, Waiting, connVars
  <1>10. ASSUME NEW k \in Sockets, ErrorEvent(k)
         PROVE  AttemptsAreStarted' /\ AwaitedAttemptRuns'
    BY <1>10, <1>0 DEF ErrorEvent, SocketGone, EmitClose, Waiting
  <1>11. ASSUME NEW k \in Sockets, CloseEvent(k)
         PROVE  AttemptsAreStarted' /\ AwaitedAttemptRuns'
    BY <1>11, <1>0 DEF CloseEvent, SocketGone, EmitClose
  <1>12. ASSUME NEW k \in Sockets, NEW m \in inbound[k], ReceiveResponse(k, m)
         PROVE  AttemptsAreStarted' /\ AwaitedAttemptRuns'
    BY <1>12, <1>0 DEF ReceiveResponse, AcceptResponse, connVars, Settled
  <1>13. ASSUME NEW c \in Calls, Dispatch(c)
         PROVE  AttemptsAreStarted' /\ AwaitedAttemptRuns'
    BY <1>13, <1>0 DEF Dispatch, RegisterCall, RegisterFails, connVars
  <1>14. ASSUME NEW c \in Calls, RequestTimeout(c)
         PROVE  AttemptsAreStarted' /\ AwaitedAttemptRuns'
    BY <1>14, <1>0 DEF RequestTimeout, TimerFires, connVars
  <1>15. ASSUME NEW k \in Sockets, BrowserCloses(k)
         PROVE  AttemptsAreStarted' /\ AwaitedAttemptRuns'
    BY <1>15, <1>0 DEF BrowserCloses, connVars, requestVars
  <1>16. ASSUME NEW k \in Sockets, NEW m \in received[k], NEW kind \in {"result", "error"},
                BrowserAnswers(k, m, kind)
         PROVE  AttemptsAreStarted' /\ AwaitedAttemptRuns'
    BY <1>16, <1>0 DEF BrowserAnswers, connVars, requestVars
  <1>17. CASE UNCHANGED vars
    BY <1>17, <1>0 DEF vars, connVars, requestVars
  <1>21. ASSUME NEW c \in Calls, SendWithoutUrl(c)
         PROVE  AttemptsAreStarted' /\ AwaitedAttemptRuns'
    BY <1>21, <1>0 DEF SendWithoutUrl, Waiting, connVars
  <1>22. ASSUME NEW u \in Urls, Update(u)
         PROVE  AttemptsAreStarted' /\ AwaitedAttemptRuns'
    BY <1>22, <1>0 DEF Update, connVars, requestVars
  <1> HIDE DEF AttemptsAreStarted, AwaitedAttemptRuns
  <1>18. CASE User
    BY <1>1, <1>2, <1>3, <1>4, <1>5, <1>18, <1>21, <1>22 DEF User
  <1>19. CASE Loop
    BY <1>6, <1>7, <1>8, <1>9, <1>10, <1>11, <1>12, <1>13, <1>14, <1>19 DEF Loop
  <1>20. CASE Browser
    BY <1>15, <1>16, <1>20 DEF Browser
  <1> QED
    BY <1>17, <1>18, <1>19, <1>20 DEF Next

\* Every step keeps the pending calls on sockets whose close event is still to
\* come, because that event empties the pending map.
LEMMA DeadSocketStep == IInv /\ [Next]_vars => NoneWaitsOnDeadSocket'
  <1> SUFFICES ASSUME IInv, [Next]_vars PROVE NoneWaitsOnDeadSocket'
    OBVIOUS
  <1>0. /\ sent_on \in [Calls -> 0..MaxSockets]
        /\ sock \in [Sockets -> SocketStates]
        /\ phase \in [Calls -> Phases]
        /\ ws \in 0..MaxSockets
        /\ NoneWaitsOnDeadSocket
    BY DEF IInv, ConnTypeOK, RequestInv, RequestTypeOK
  <1> USE DEF NoneWaitsOnDeadSocket
  <1> HIDE DEF SocketStates
  <1>1. CASE Connect
    BY <1>1, <1>0 DEF Connect, StartAttempt, connVars, requestVars, wireVars
  <1>2. CASE Close
    BY <1>2, <1>0 DEF Close, connVars, requestVars, wireVars
  <1>3. ASSUME NEW c \in Calls, SendStartsAttempt(c)
         PROVE  NoneWaitsOnDeadSocket'
    BY <1>3, <1>0 DEF SendStartsAttempt, StartAttempt, wireVars
  <1>4. ASSUME NEW c \in Calls, SendOnOpenSocket(c)
         PROVE  NoneWaitsOnDeadSocket'
    BY <1>4, <1>0 DEF SendOnOpenSocket, Waiting, connVars, wireVars
  <1>5. ASSUME NEW c \in Calls, SendJoinsAttempt(c)
         PROVE  NoneWaitsOnDeadSocket'
    BY <1>5, <1>0 DEF SendJoinsAttempt, wireVars
  <1>6. ASSUME NEW k \in Sockets, Dial(k)
         PROVE  NoneWaitsOnDeadSocket'
    BY <1>6, <1>0 DEF Dial, Resolves, connVars, requestVars, wireVars
  <1>7. ASSUME NEW k \in Sockets, AttemptFails(k)
         PROVE  NoneWaitsOnDeadSocket'
    BY <1>7, <1>0 DEF AttemptFails, Resolves, Waiting, connVars, wireVars
  <1>8. ASSUME NEW k \in Sockets, ConnectCatches(k)
         PROVE  NoneWaitsOnDeadSocket'
    BY <1>8, <1>0 DEF ConnectCatches, connVars, requestVars, wireVars
  <1>9. ASSUME NEW k \in Sockets, OpenEvent(k)
         PROVE  NoneWaitsOnDeadSocket'
    BY <1>9, <1>0 DEF OpenEvent, Waiting, connVars, wireVars
  <1>10. ASSUME NEW k \in Sockets, ErrorEvent(k)
         PROVE  NoneWaitsOnDeadSocket'
    <2>1. Waiting(k) \in SUBSET Calls /\ \A c \in Waiting(k) : phase[c] = "connecting"
      BY DEF Waiting
    <2> QED
      BY <1>10, <2>1, EmitCloseInv DEF ErrorEvent, SocketGone, IInv
  <1>11. ASSUME NEW k \in Sockets, CloseEvent(k)
         PROVE  NoneWaitsOnDeadSocket'
    BY <1>11, EmitCloseInv DEF CloseEvent, SocketGone, IInv
  <1>12. ASSUME NEW k \in Sockets, NEW m \in inbound[k], ReceiveResponse(k, m)
         PROVE  NoneWaitsOnDeadSocket'
    BY <1>12, <1>0 DEF ReceiveResponse, AcceptResponse, connVars, Settled
  <1>13. ASSUME NEW c \in Calls, Dispatch(c)
         PROVE  NoneWaitsOnDeadSocket'
    <2>1. CASE WsOpen
      <3>1. /\ phase' = [phase EXCEPT ![c] = "pending"]
            /\ sent_on' = [sent_on EXCEPT ![c] = ws]
            /\ sock' = sock
            /\ ws \in Sockets /\ sock[ws] = "open"
        BY <1>13, <1>0, <2>1 DEF Dispatch, RegisterCall, connVars, WsOpen
      <3> QED
        BY <1>0, <3>1
    <2>2. CASE ~WsOpen
      BY <1>13, <1>0, <2>2 DEF Dispatch, RegisterFails, connVars
    <2> QED
      BY <2>1, <2>2
  <1>14. ASSUME NEW c \in Calls, RequestTimeout(c)
         PROVE  NoneWaitsOnDeadSocket'
    BY <1>14, <1>0 DEF RequestTimeout, TimerFires, connVars, wireVars
  <1>15. ASSUME NEW k \in Sockets, BrowserCloses(k)
         PROVE  NoneWaitsOnDeadSocket'
    BY <1>15, <1>0 DEF BrowserCloses, connVars, requestVars, wireVars
  <1>16. ASSUME NEW k \in Sockets, NEW m \in received[k], NEW kind \in {"result", "error"},
                BrowserAnswers(k, m, kind)
         PROVE  NoneWaitsOnDeadSocket'
    BY <1>16, <1>0 DEF BrowserAnswers, connVars, requestVars, wireVars
  <1>17. CASE UNCHANGED vars
    BY <1>17, <1>0 DEF vars, connVars, requestVars, wireVars
  <1>21. ASSUME NEW c \in Calls, SendWithoutUrl(c)
         PROVE  NoneWaitsOnDeadSocket'
    BY <1>21, <1>0 DEF SendWithoutUrl, Waiting, connVars, wireVars
  <1>22. ASSUME NEW u \in Urls, Update(u)
         PROVE  NoneWaitsOnDeadSocket'
    BY <1>22, <1>0 DEF Update, connVars, requestVars, wireVars
  <1> HIDE DEF NoneWaitsOnDeadSocket
  <1>18. CASE User
    BY <1>1, <1>2, <1>3, <1>4, <1>5, <1>18, <1>21, <1>22 DEF User
  <1>19. CASE Loop
    BY <1>6, <1>7, <1>8, <1>9, <1>10, <1>11, <1>12, <1>13, <1>14, <1>19 DEF Loop
  <1>20. CASE Browser
    BY <1>15, <1>16, <1>20 DEF Browser
  <1> QED
    BY <1>17, <1>18, <1>19, <1>20 DEF Next

\* IInv is inductive.
LEMMA IInvStep == IInv /\ [Next]_vars => IInv'
  BY RequestStep, ConnTypeStep, WireStep, AttemptStep, DeadSocketStep DEF IInv

\* IInv holds in every reachable state.
THEOREM Invariance == Spec => []IInv
  <1>1. Init => IInv
    BY InitIInv
  <1>2. IInv /\ [Next]_vars => IInv'
    BY IInvStep
  <1> QED
    BY <1>1, <1>2, PTL DEF Spec

\* The types of the transport, its map of promises and its connection.
THEOREM TypeCorrect == Spec => []TypeOK
  <1>1. IInv => TypeOK
    BY DEF IInv, RequestInv, TypeOK
  <1> QED
    BY <1>1, Invariance, PTL

\* UpstreamTransport's pending map and the promises agree in every state: no
\* entry outlives its promise and no waiting promise loses its entry.
THEOREM PendingCorrect == Spec => []PendingMatchesCalls
  <1>1. IInv => PendingMatchesCalls
    BY DEF IInv, RequestInv
  <1> QED
    BY <1>1, Invariance, PTL

\* emitClose leaves no request waiting on a socket that is gone.
THEOREM NoOrphans == Spec => []NoneWaitsOnDeadSocket
  <1>1. IInv => NoneWaitsOnDeadSocket
    BY DEF IInv
  <1> QED
    BY <1>1, Invariance, PTL

\* A send() that awaits connect() awaits an attempt that still runs.
THEOREM AwaitersReleased == Spec => []AwaitedAttemptRuns
  <1>1. IInv => AwaitedAttemptRuns
    BY DEF IInv
  <1> QED
    BY <1>1, Invariance, PTL

\* An id names one command on one socket.
THEOREM IdsUnique == Spec => []IdsNameOneCommand
  <1>1. IInv => IdsNameOneCommand
    <2> SUFFICES ASSUME IInv, NEW k \in Sockets, NEW l \in Sockets,
                        NEW m \in received[k], NEW n \in received[l], m.id = n.id
                 PROVE  k = l /\ m = n
      BY DEF IdsNameOneCommand
    <2>1. m \in Command /\ n \in Command
      BY DEF IInv, ConnTypeOK
    <2>2. /\ m.call \in Calls /\ n.call \in Calls /\ m.id \in Ids
      BY <2>1 DEF Command
    <2>3. /\ id_of[m.call] = m.id /\ sent_on[m.call] = k
          /\ id_of[n.call] = n.id /\ sent_on[n.call] = l
      BY DEF IInv, WireMatchesCalls
    <2>4. m.call = n.call
      BY <2>2, <2>3 DEF IInv, RequestInv, IdsAreFresh, Ids
    <2> QED
      BY <2>1, <2>3, <2>4 DEF Command
  <1> QED
    BY <1>1, Invariance, PTL

-----------------------------------------------------------------------------
(* The transport implements CommandOutcomes: every step is a stutter, or    *)
(* issues, answers, resolves or rejects calls as CommandOutcomes allows.    *)

\* A step in which no caller sees a change is a stutter of CommandOutcomes.
LEMMA StutterMaps ==
    ASSUME UNCHANGED reply, \A c \in Calls : Outcome(c)' = Outcome(c)
    PROVE  UNCHANGED Outcomes!vars
  BY DEF Outcomes!vars

\* A step that rejects the calls of S and changes no other maps to Reject(S).
LEMMA RejectMaps ==
    ASSUME NEW S \in SUBSET Calls, UNCHANGED reply,
           \A c \in S : phase[c] \notin Settled /\ phase'[c] = "rejected",
           \A c \in Calls \ S : Outcome(c)' = Outcome(c)
    PROVE  Outcomes!Next
  <1>1. \A c \in S : Outcome(c) \notin Outcomes!Settled /\ Outcome(c)' = "rejected"
    BY DEF Outcome, Settled, Outcomes!Settled
  <1>2. Outcomes!Reject(S)
    BY <1>1 DEF Outcomes!Reject
  <1> QED
    BY <1>2 DEF Outcomes!Next

\* A step that takes one idle call into connect() maps to Issue.
LEMMA IssueMaps ==
    ASSUME NEW c \in Calls, phase[c] = "idle", UNCHANGED reply,
           phase \in [Calls -> Phases],
           phase' = [phase EXCEPT ![c] = "connecting"] \/ phase' = [phase EXCEPT ![c] = "connected"]
    PROVE  Outcomes!Next
  <1>1. Outcome(c) = "unsent" /\ Outcome(c)' = "waiting"
    BY DEF Outcome, Settled
  <1>2. \A d \in Calls : d # c => Outcome(d)' = Outcome(d)
    BY DEF Outcome
  <1>3. Outcomes!Issue(c)
    BY <1>1, <1>2 DEF Outcomes!Issue
  <1> QED
    BY <1>3 DEF Outcomes!Next

\* Every step of the transport is a step of CommandOutcomes or a stutter.
LEMMA StepMaps == IInv /\ [Next]_vars => [Outcomes!Next]_(Outcomes!vars)
  <1> SUFFICES ASSUME IInv, [Next]_vars PROVE [Outcomes!Next]_(Outcomes!vars)
    OBVIOUS
  <1>0. phase \in [Calls -> Phases] /\ RequestInv
    BY DEF IInv, RequestInv, RequestTypeOK
  <1>1. CASE Connect
    <2>1. UNCHANGED <<phase, reply>>
      BY <1>1 DEF Connect, StartAttempt, requestVars, wireVars
    <2> QED
      BY <2>1, StutterMaps DEF Outcome
  <1>2. CASE Close
    <2>1. UNCHANGED <<phase, reply>>
      BY <1>2 DEF Close, requestVars, wireVars
    <2> QED
      BY <2>1, StutterMaps DEF Outcome
  <1>3. ASSUME NEW c \in Calls, SendStartsAttempt(c)
         PROVE  [Outcomes!Next]_(Outcomes!vars)
    BY <1>3, <1>0, IssueMaps DEF SendStartsAttempt, StartAttempt, wireVars
  <1>4. ASSUME NEW c \in Calls, SendOnOpenSocket(c)
         PROVE  [Outcomes!Next]_(Outcomes!vars)
    BY <1>4, <1>0, IssueMaps DEF SendOnOpenSocket, wireVars
  <1>5. ASSUME NEW c \in Calls, SendJoinsAttempt(c)
         PROVE  [Outcomes!Next]_(Outcomes!vars)
    <2>1. /\ phase[c] = "idle" /\ UNCHANGED reply
          /\ \/ phase' = [phase EXCEPT ![c] = "connecting"]
             \/ phase' = [phase EXCEPT ![c] = "connected"]
             \/ phase' = [phase EXCEPT ![c] = "rejected"]
      BY <1>5 DEF SendJoinsAttempt, wireVars
    <2>2. CASE phase' = [phase EXCEPT ![c] = "rejected"]
      <3>1. {c} \in SUBSET Calls /\ phase[c] \notin Settled /\ phase'[c] = "rejected"
        BY <1>0, <2>1, <2>2 DEF Settled
      <3>2. \A d \in Calls \ {c} : Outcome(d)' = Outcome(d)
        BY <1>0, <2>2 DEF Outcome
      <3> QED
        BY <2>1, <3>1, <3>2, RejectMaps
    <2> QED
      BY <1>0, <2>1, <2>2, IssueMaps
  <1>6. ASSUME NEW k \in Sockets, Dial(k)
         PROVE  [Outcomes!Next]_(Outcomes!vars)
    <2>1. UNCHANGED <<phase, reply>>
      BY <1>6 DEF Dial, requestVars, wireVars
    <2> QED
      BY <2>1, StutterMaps DEF Outcome
  <1>7. ASSUME NEW k \in Sockets, AttemptFails(k)
         PROVE  [Outcomes!Next]_(Outcomes!vars)
    <2>1. Waiting(k) \in SUBSET Calls /\ UNCHANGED reply
      BY <1>7 DEF AttemptFails, Waiting, wireVars
    <2>2. \A c \in Waiting(k) : phase[c] \notin Settled /\ phase'[c] = "rejected"
      BY <1>7 DEF AttemptFails, Waiting, Settled
    <2>3. \A c \in Calls \ Waiting(k) : Outcome(c)' = Outcome(c)
      BY <1>7 DEF AttemptFails, Outcome
    <2> QED
      BY <2>1, <2>2, <2>3, RejectMaps
  <1>8. ASSUME NEW k \in Sockets, ConnectCatches(k)
         PROVE  [Outcomes!Next]_(Outcomes!vars)
    <2>1. UNCHANGED <<phase, reply>>
      BY <1>8 DEF ConnectCatches, requestVars, wireVars
    <2> QED
      BY <2>1, StutterMaps DEF Outcome
  <1>9. ASSUME NEW k \in Sockets, OpenEvent(k)
         PROVE  [Outcomes!Next]_(Outcomes!vars)
    <2>1. UNCHANGED reply
      BY <1>9 DEF OpenEvent, wireVars
    <2>2. \A c \in Calls : \/ phase'[c] = phase[c]
                          \/ (phase[c] = "connecting" /\ phase'[c] = "connected")
      BY <1>9 DEF OpenEvent, Waiting
    <2> QED
      BY <2>1, <2>2, StutterMaps DEF Outcome, Settled
  <1>10. ASSUME NEW k \in Sockets, ErrorEvent(k)
         PROVE  [Outcomes!Next]_(Outcomes!vars)
    <2>1. UNCHANGED reply /\ RequestInv
      BY <1>10, <1>0 DEF ErrorEvent, SocketGone
    <2>2. \A c \in Calls : \/ phase'[c] = phase[c]
                          \/ (phase'[c] = "rejected" /\ phase[c] \in {"pending", "connecting"})
      <3>1. Waiting(k) \in SUBSET Calls /\ \A c \in Waiting(k) : phase[c] = "connecting"
        BY DEF Waiting
      <3> QED
        BY <1>10, <1>0, <3>1, EmitCloseInv DEF ErrorEvent, SocketGone
    <2> DEFINE S == {c \in Calls : phase'[c] # phase[c]}
    <2>3. \A c \in S : phase[c] \notin Settled /\ phase'[c] = "rejected"
      BY <2>2 DEF Settled
    <2>4. \A c \in Calls \ S : Outcome(c)' = Outcome(c)
      BY DEF Outcome
    <2>5. S \in SUBSET Calls
      OBVIOUS
    <2> HIDE DEF S
    <2> QED
      BY <2>1, <2>3, <2>4, <2>5, RejectMaps
  <1>11. ASSUME NEW k \in Sockets, CloseEvent(k)
         PROVE  [Outcomes!Next]_(Outcomes!vars)
    <2>1. UNCHANGED reply /\ RequestInv
      BY <1>11, <1>0 DEF CloseEvent, SocketGone
    <2>2. \A c \in Calls : \/ phase'[c] = phase[c]
                          \/ (phase'[c] = "rejected" /\ phase[c] \in {"pending", "connecting"})
      BY <1>11, <1>0, EmitCloseInv DEF CloseEvent, SocketGone
    <2> DEFINE S == {c \in Calls : phase'[c] # phase[c]}
    <2>3. \A c \in S : phase[c] \notin Settled /\ phase'[c] = "rejected"
      BY <2>2 DEF Settled
    <2>4. \A c \in Calls \ S : Outcome(c)' = Outcome(c)
      BY DEF Outcome
    <2>5. S \in SUBSET Calls
      OBVIOUS
    <2> HIDE DEF S
    <2> QED
      BY <2>1, <2>3, <2>4, <2>5, RejectMaps
  <1>12. ASSUME NEW k \in Sockets, NEW m \in inbound[k], ReceiveResponse(k, m)
         PROVE  [Outcomes!Next]_(Outcomes!vars)
    <2>1. m \in Response /\ m.id \in Ids /\ UNCHANGED reply
      BY <1>12 DEF ReceiveResponse, IInv, ConnTypeOK, Response
    <2>2. AcceptResponse(m.id, m.kind)
      BY <1>12 DEF ReceiveResponse
    <2>3. CASE pending[m.id] = NoCall
      <3>1. UNCHANGED <<phase, reply>>
        BY <2>1, <2>2, <2>3 DEF AcceptResponse
      <3> QED
        BY <3>1, StutterMaps DEF Outcome
    <2>4. CASE pending[m.id] # NoCall
      <3>0. PICK c \in Calls : c = pending[m.id]
        BY <1>0, <2>1, <2>4 DEF RequestInv, RequestTypeOK
      <3>1. id_of[c] = m.id /\ phase[c] = "pending"
        BY <1>0, <2>1, <2>4, <3>0 DEF RequestInv, PendingMatchesCalls
      <3>2. phase' = [phase EXCEPT ![c] = IF m.kind = "error" THEN "rejected" ELSE "resolved"]
        BY <2>2, <2>4, <3>0 DEF AcceptResponse
      <3>3. reply[c] = m.kind /\ m.kind \in {"result", "error"}
        <4>1. PICK d \in Calls : id_of[d] = m.id /\ reply[d] = m.kind
          BY DEF IInv, WireMatchesCalls
        <4>2. d = c
          BY <1>0, <2>1, <3>1, <4>1 DEF RequestInv, IdsAreFresh, Ids
        <4> QED
          BY <2>1, <4>1, <4>2 DEF Response
      <3>4. \A d \in Calls \ {c} : Outcome(d)' = Outcome(d)
        BY <1>0, <3>2 DEF Outcome
      <3>5. CASE m.kind = "error"
        <4>1. {c} \in SUBSET Calls /\ phase[c] \notin Settled /\ phase'[c] = "rejected"
          BY <1>0, <3>1, <3>2, <3>5 DEF Settled
        <4> QED
          BY <2>1, <3>4, <4>1, RejectMaps
      <3>6. CASE m.kind = "result"
        <4>1. Outcome(c) = "waiting" /\ Outcome(c)' = "resolved"
          BY <1>0, <3>1, <3>2, <3>6 DEF Outcome, Settled
        <4>2. [d \in Calls |-> Outcome(d)]' =
                  [[d \in Calls |-> Outcome(d)] EXCEPT ![c] = "resolved"]
          BY <3>4, <4>1
        <4>3. Outcomes!Resolve(c)
          BY <2>1, <3>1, <3>3, <3>6, <4>1, <4>2 DEF Outcomes!Resolve
        <4> QED
          BY <4>3 DEF Outcomes!Next
      <3> QED
        BY <3>3, <3>5, <3>6
    <2> QED
      BY <2>3, <2>4
  <1>13. ASSUME NEW c \in Calls, Dispatch(c)
         PROVE  [Outcomes!Next]_(Outcomes!vars)
    <2>1. phase[c] = "connected" /\ UNCHANGED reply
      BY <1>13 DEF Dispatch
    <2>2. \/ phase' = [phase EXCEPT ![c] = "pending"]
          \/ phase' = [phase EXCEPT ![c] = "rejected"]
      BY <1>13 DEF Dispatch, RegisterCall, RegisterFails
    <2>3. CASE phase' = [phase EXCEPT ![c] = "pending"]
      BY <1>0, <2>1, <2>3, StutterMaps DEF Outcome, Settled
    <2>4. CASE phase' = [phase EXCEPT ![c] = "rejected"]
      <3>1. {c} \in SUBSET Calls /\ phase[c] \notin Settled /\ phase'[c] = "rejected"
        BY <1>0, <2>1, <2>4 DEF Settled
      <3>2. \A d \in Calls \ {c} : Outcome(d)' = Outcome(d)
        BY <1>0, <2>4 DEF Outcome
      <3> QED
        BY <2>1, <3>1, <3>2, RejectMaps
    <2> QED
      BY <2>2, <2>3, <2>4
  <1>14. ASSUME NEW c \in Calls, RequestTimeout(c)
         PROVE  [Outcomes!Next]_(Outcomes!vars)
    <2>1. phase[c] = "pending" /\ UNCHANGED reply
      BY <1>14, <1>0, TimerFiresInv DEF RequestTimeout, wireVars
    <2>2. phase' = [phase EXCEPT ![c] = "rejected"]
      BY <1>14 DEF RequestTimeout, TimerFires
    <2>3. {c} \in SUBSET Calls /\ phase[c] \notin Settled /\ phase'[c] = "rejected"
      BY <1>0, <2>1, <2>2 DEF Settled
    <2>4. \A d \in Calls \ {c} : Outcome(d)' = Outcome(d)
      BY <1>0, <2>2 DEF Outcome
    <2> QED
      BY <2>1, <2>3, <2>4, RejectMaps
  <1>15. ASSUME NEW k \in Sockets, BrowserCloses(k)
         PROVE  [Outcomes!Next]_(Outcomes!vars)
    <2>1. UNCHANGED <<phase, reply>>
      BY <1>15 DEF BrowserCloses, requestVars, wireVars
    <2> QED
      BY <2>1, StutterMaps DEF Outcome
  <1>16. ASSUME NEW k \in Sockets, NEW m \in received[k], NEW kind \in {"result", "error"},
                BrowserAnswers(k, m, kind)
         PROVE  [Outcomes!Next]_(Outcomes!vars)
    <2>1. /\ m.id \in Ids /\ m.call \in Calls
          /\ id_of[m.call] = m.id /\ reply[m.call] = "none"
      BY DEF IInv, ConnTypeOK, Command, WireMatchesCalls
    <2>2. reply' = [reply EXCEPT ![m.call] = kind] /\ UNCHANGED phase
      BY <1>16 DEF BrowserAnswers, requestVars
    <2>3. phase[m.call] # "idle"
      BY <1>0, <2>1 DEF RequestInv, IdsAreFresh, Ids
    <2>4. Outcome(m.call) # "unsent"
      BY <2>3 DEF Outcome, Settled
    <2>5. UNCHANGED [c \in Calls |-> Outcome(c)]
      BY <2>2 DEF Outcome
    <2>6. Outcomes!Answer(m.call, kind)
      BY <2>1, <2>2, <2>4, <2>5 DEF Outcomes!Answer
    <2> QED
      BY <2>1, <2>6 DEF Outcomes!Next
  <1>17. CASE UNCHANGED vars
    <2>1. UNCHANGED <<phase, reply>>
      BY <1>17 DEF vars, requestVars, wireVars
    <2> QED
      BY <2>1, StutterMaps DEF Outcome
  <1>21. ASSUME NEW c \in Calls, SendWithoutUrl(c)
         PROVE  [Outcomes!Next]_(Outcomes!vars)
    <2>1. /\ phase[c] = "idle" /\ UNCHANGED reply
          /\ phase' = [phase EXCEPT ![c] = "rejected"]
      BY <1>21 DEF SendWithoutUrl, wireVars
    <2>2. {c} \in SUBSET Calls /\ phase[c] \notin Settled /\ phase'[c] = "rejected"
      BY <1>0, <2>1 DEF Settled
    <2>3. \A d \in Calls \ {c} : Outcome(d)' = Outcome(d)
      BY <1>0, <2>1 DEF Outcome
    <2> QED
      BY <2>1, <2>2, <2>3, RejectMaps
  <1>22. ASSUME NEW u \in Urls, Update(u)
         PROVE  [Outcomes!Next]_(Outcomes!vars)
    <2>1. UNCHANGED <<phase, reply>>
      BY <1>22 DEF Update, requestVars, wireVars
    <2> QED
      BY <2>1, StutterMaps DEF Outcome
  <1>18. CASE User
    BY <1>1, <1>2, <1>3, <1>4, <1>5, <1>18, <1>21, <1>22 DEF User
  <1>19. CASE Loop
    BY <1>6, <1>7, <1>8, <1>9, <1>10, <1>11, <1>12, <1>13, <1>14, <1>19 DEF Loop
  <1>20. CASE Browser
    BY <1>15, <1>16, <1>20 DEF Browser
  <1> QED
    BY <1>17, <1>18, <1>19, <1>20 DEF Next

\* WSUpstreamTransport keeps the promise of UpstreamTransport.send: each promise
\* settles at most once, and resolves only with the browser's result for it.
THEOREM Refinement == Spec => KeepsPromises
  <1>1. ASSUME Init
        PROVE  Outcomes!Init
    <2>1. \A c \in Calls : phase[c] = "idle"
      BY <1>1 DEF Init, RequestInit
    <2>2. \A c \in Calls : Outcome(c) = "unsent"
      BY <2>1 DEF Outcome, Settled
    <2> QED
      BY <1>1, <2>2 DEF Init, Outcomes!Init
  <1>2. IInv /\ [Next]_vars => [Outcomes!Next]_(Outcomes!vars)
    BY StepMaps
  <1> QED
    BY <1>1, <1>2, Invariance, PTL DEF Spec, KeepsPromises, Outcomes!Spec
=============================================================================
