------------------------- MODULE ReverseWSLink_proofs -------------------------
(***************************************************************************)
(* Proofs about the reverse link, for any calls, waiters and bounds: first *)
(* about its listening end, ReverseWSUpstreamTransport, then about both    *)
(* ends and the network.                                                   *)
(*                                                                         *)
(* IInv is inductive for the listening end: besides the agreement of the   *)
(* pending map and the wire with the calls it says that the current peer   *)
(* has said hello and is not closed, that no other peer that said hello is *)
(* open, and that commands were written to such peers only.                *)
(***************************************************************************)
EXTENDS ReverseWSLink, UpstreamTransport_proofs

\* What is on the wire belongs to the call it was sent for.
WireMatchesCalls ==
    /\ \A c \in Calls : reply[c] # "none" => id_of[c] # 0
    /\ \A k \in Slots : \A m \in received[k] :
           id_of[m.call] = m.id /\ sent_on[m.call] = k /\ reply[m.call] = "none"
    /\ \A k \in Slots : \A m \in inbound[k] :
           \E c \in Calls : id_of[c] = m.id /\ reply[c] = m.kind

\* The current peer, the other peers and the calls sent to either.
PeerInv ==
    /\ socket # 0 => /\ greeted[socket] = "accepted"
                     /\ ready[socket] \in {"open", "closing", "ending"}
    /\ \A k \in Slots : greeted[k] = "accepted" /\ ready[k] = "open" => socket = k
    /\ \A c \in Calls : sent_on[c] # 0 => greeted[sent_on[c]] = "accepted"

IInv ==
    /\ RequestInv
    /\ PeerTypeOK
    /\ WireMatchesCalls
    /\ PeerInv
    /\ NoWaiterOverlooked

USE ReverseAssumption DEF Slots, ReadyStates

\* The initial state satisfies the inductive invariant.
LEMMA InitIInv == Init => IInv
  <1> SUFFICES ASSUME Init PROVE IInv
    OBVIOUS
  <1> USE DEF Init
  <1>1. RequestInv
    BY RequestInitInv
  <1>2. PeerTypeOK
    <2>1. received \in [Slots -> SUBSET Command] /\ inbound \in [Slots -> SUBSET Response]
      OBVIOUS
    <2> QED
      BY <2>1 DEF PeerTypeOK
  <1>3. WireMatchesCalls /\ PeerInv /\ NoWaiterOverlooked
    BY DEF RequestInit, WireMatchesCalls, PeerInv, NoWaiterOverlooked
  <1> QED
    BY <1>1, <1>2, <1>3 DEF IInv

\* Every step keeps the pending map, the ids and the calls in agreement.
LEMMA RequestStep == IInv /\ [Next]_vars => RequestInv'
  <1> SUFFICES ASSUME RequestInv, PeerTypeOK, [Next]_vars PROVE RequestInv'
    BY DEF IInv
  <1>1. CASE Connect
    <2>1. UNCHANGED requestVars
      BY <1>1 DEF Connect
    <2> QED
      BY <2>1, RequestStutterInv
  <1>2. CASE Close
    <2>1. UNCHANGED requestVars
      BY <1>2 DEF Close
    <2> QED
      BY <2>1, RequestStutterInv
  <1>3. CASE Tick
    <2>1. UNCHANGED requestVars
      BY <1>3 DEF Tick
    <2> QED
      BY <2>1, RequestStutterInv
  <1>4. ASSUME NEW w \in Waiters, NoteTime(w)
         PROVE  RequestInv'
    <2>1. UNCHANGED requestVars
      BY <1>4 DEF NoteTime
    <2> QED
      BY <2>1, RequestStutterInv
  <1>5. ASSUME NEW w \in Waiters, WaitForPeer(w)
         PROVE  RequestInv'
    <2>1. UNCHANGED requestVars
      BY <1>5 DEF WaitForPeer
    <2> QED
      BY <2>1, RequestStutterInv
  <1>6. ASSUME NEW c \in Calls, Send(c)
         PROVE  RequestInv'
    BY <1>6, RegisterCallInv, RegisterFailsInv DEF Send
  <1>7. CASE ListenerClosed
    <2>1. UNCHANGED requestVars
      BY <1>7 DEF ListenerClosed
    <2> QED
      BY <2>1, RequestStutterInv
  <1>8. ASSUME NEW w \in Waiters, WaitTimeout(w)
         PROVE  RequestInv'
    <2>1. UNCHANGED requestVars
      BY <1>8 DEF WaitTimeout
    <2> QED
      BY <2>1, RequestStutterInv
  <1>9. ASSUME NEW c \in Calls, RequestTimeout(c)
         PROVE  RequestInv'
    BY <1>9, TimerFiresInv DEF RequestTimeout
  <1>10. ASSUME NEW k \in Slots, HelloTimeout(k)
         PROVE  RequestInv'
    <2>1. UNCHANGED requestVars
      BY <1>10 DEF HelloTimeout
    <2> QED
      BY <2>1, RequestStutterInv
  <1>11. ASSUME NEW k \in Slots, CloseEvent(k)
         PROVE  RequestInv'
    <2>1. CASE UNCHANGED requestVars
      BY <2>1, RequestStutterInv
    <2>2. CASE EmitClose({})
      BY <2>2, EmitCloseInv
    <2> QED
      BY <1>11, <2>1, <2>2 DEF CloseEvent, PeerGone
  <1>12. ASSUME NEW k \in Slots, NEW m \in inbound[k], ReceiveResponse(k, m)
         PROVE  RequestInv'
    <2>1. m.id \in Ids
      BY DEF PeerTypeOK, Response
    <2> QED
      BY <1>12, <2>1, AcceptResponseInv DEF ReceiveResponse
  <1>13. ASSUME NEW k \in Slots, Accept(k)
         PROVE  RequestInv'
    <2>1. UNCHANGED requestVars
      BY <1>13 DEF Accept
    <2> QED
      BY <2>1, RequestStutterInv
  <1>14. ASSUME NEW k \in Slots, AcceptHello(k)
         PROVE  RequestInv'
    <2>1. UNCHANGED requestVars
      BY <1>14 DEF AcceptHello
    <2> QED
      BY <2>1, RequestStutterInv
  <1>15. ASSUME NEW k \in Slots, RefuseHello(k)
         PROVE  RequestInv'
    <2>1. UNCHANGED requestVars
      BY <1>15 DEF RefuseHello
    <2> QED
      BY <2>1, RequestStutterInv
  <1>16. ASSUME NEW k \in Slots, ErrorEvent(k)
         PROVE  RequestInv'
    <2>1. CASE UNCHANGED requestVars
      BY <2>1, RequestStutterInv
    <2>2. CASE EmitClose({})
      BY <2>2, EmitCloseInv
    <2> QED
      BY <1>16, <2>1, <2>2 DEF ErrorEvent, PeerGone
  <1>17. ASSUME NEW k \in Slots, PeerLeaves(k)
         PROVE  RequestInv'
    <2>1. UNCHANGED requestVars
      BY <1>17 DEF PeerLeaves
    <2> QED
      BY <2>1, RequestStutterInv
  <1>18. ASSUME NEW k \in Slots, NEW m \in received[k], NEW kind \in {"result", "error"},
                PeerAnswers(k, m, kind)
         PROVE  RequestInv'
    <2>1. UNCHANGED requestVars
      BY <1>18 DEF PeerAnswers
    <2> QED
      BY <2>1, RequestStutterInv
  <1>19. CASE UNCHANGED vars
    <2>1. UNCHANGED requestVars
      BY <1>19 DEF vars
    <2> QED
      BY <2>1, RequestStutterInv
  <1>20. CASE User
    BY <1>1, <1>2, <1>3, <1>4, <1>5, <1>6, <1>20 DEF User
  <1>21. CASE Loop
    BY <1>7, <1>8, <1>9, <1>10, <1>11, <1>12, <1>21 DEF Loop
  <1>22. CASE Peer
    BY <1>13, <1>14, <1>15, <1>16, <1>17, <1>18, <1>22 DEF Peer
  <1> QED
    BY <1>19, <1>20, <1>21, <1>22 DEF Next

\* Every step keeps the types of the peers and of the wire.
LEMMA PeerTypeStep == IInv /\ [Next]_vars => PeerTypeOK'
  <1> SUFFICES ASSUME RequestTypeOK, PeerTypeOK, [Next]_vars PROVE PeerTypeOK'
    BY DEF IInv, RequestInv
  <1> USE DEF PeerTypeOK, peerVars, wireVars
  <1>1. CASE Connect
    BY <1>1 DEF Connect
  <1>2. CASE Close
    BY <1>2 DEF Close, RejectWaiters
  <1>3. CASE Tick
    BY <1>3 DEF Tick
  <1>4. ASSUME NEW w \in Waiters, NoteTime(w)
         PROVE  PeerTypeOK'
    BY <1>4 DEF NoteTime
  <1>5. ASSUME NEW w \in Waiters, WaitForPeer(w)
         PROVE  PeerTypeOK'
    BY <1>5 DEF WaitForPeer
  <1>6. ASSUME NEW c \in Calls, Send(c)
         PROVE  PeerTypeOK'
    <2>1. CASE PeerOpen
      <3>1. next_id \in Ids
        BY <1>6, <2>1 DEF Send, RegisterCall, TakeId
      <3>2. CommandOf(c) \in Command
        BY <3>1 DEF Command, CommandOf
      <3>3. socket \in Slots
        BY <2>1 DEF PeerOpen
      <3>4. /\ received' = [received EXCEPT ![socket] = @ \cup {CommandOf(c)}]
            /\ sent_on' = [sent_on EXCEPT ![c] = socket]
            /\ UNCHANGED <<peerVars, inbound, reply>>
        BY <1>6, <2>1 DEF Send
      <3>5. received[socket] \cup {CommandOf(c)} \in SUBSET Command
        BY <3>2, <3>3
      <3>6. received' \in [Slots -> SUBSET Command]
        BY <3>3, <3>4, <3>5
      <3> QED
        BY <3>3, <3>4, <3>6
    <2>2. CASE ~PeerOpen
      BY <1>6, <2>2 DEF Send
    <2> QED
      BY <2>1, <2>2
  <1>7. CASE ListenerClosed
    BY <1>7 DEF ListenerClosed, RejectWaiters
  <1>8. ASSUME NEW w \in Waiters, WaitTimeout(w)
         PROVE  PeerTypeOK'
    BY <1>8 DEF WaitTimeout
  <1>9. ASSUME NEW c \in Calls, RequestTimeout(c)
         PROVE  PeerTypeOK'
    BY <1>9 DEF RequestTimeout
  <1>10. ASSUME NEW k \in Slots, HelloTimeout(k)
         PROVE  PeerTypeOK'
    BY <1>10 DEF HelloTimeout
  <1>11. ASSUME NEW k \in Slots, CloseEvent(k)
         PROVE  PeerTypeOK'
    BY <1>11 DEF CloseEvent, PeerGone
  <1>12. ASSUME NEW k \in Slots, NEW m \in inbound[k], ReceiveResponse(k, m)
         PROVE  PeerTypeOK'
    BY <1>12 DEF ReceiveResponse
  <1>13. ASSUME NEW k \in Slots, Accept(k)
         PROVE  PeerTypeOK'
    BY <1>13 DEF Accept
  <1>14. ASSUME NEW k \in Slots, AcceptHello(k)
         PROVE  PeerTypeOK'
    BY <1>14 DEF AcceptHello
  <1>15. ASSUME NEW k \in Slots, RefuseHello(k)
         PROVE  PeerTypeOK'
    BY <1>15 DEF RefuseHello
  <1>16. ASSUME NEW k \in Slots, ErrorEvent(k)
         PROVE  PeerTypeOK'
    BY <1>16 DEF ErrorEvent, PeerGone
  <1>17. ASSUME NEW k \in Slots, PeerLeaves(k)
         PROVE  PeerTypeOK'
    BY <1>17 DEF PeerLeaves
  <1>18. ASSUME NEW k \in Slots, NEW m \in received[k], NEW kind \in {"result", "error"},
                PeerAnswers(k, m, kind)
         PROVE  PeerTypeOK'
    <2>1. m.id \in Ids /\ m.call \in Calls
      BY DEF Command
    <2>2. ResponseTo(m, kind) \in Response
      BY <2>1 DEF Response, ResponseTo
    <2> QED
      BY <1>18, <2>1, <2>2 DEF PeerAnswers
  <1>19. CASE UNCHANGED vars
    BY <1>19 DEF vars
  <1> HIDE DEF PeerTypeOK
  <1>20. CASE User
    BY <1>1, <1>2, <1>3, <1>4, <1>5, <1>6, <1>20 DEF User
  <1>21. CASE Loop
    BY <1>7, <1>8, <1>9, <1>10, <1>11, <1>12, <1>21 DEF Loop
  <1>22. CASE Peer
    BY <1>13, <1>14, <1>15, <1>16, <1>17, <1>18, <1>22 DEF Peer
  <1> QED
    BY <1>19, <1>20, <1>21, <1>22 DEF Next

\* A step that sends and answers nothing leaves the wire in agreement.
LEMMA WireStutter ==
    ASSUME IInv, UNCHANGED <<id_of, sent_on, reply>>,
           \A k \in Slots : received'[k] \subseteq received[k] /\ inbound'[k] \subseteq inbound[k]
    PROVE  WireMatchesCalls'
  <1>1. WireMatchesCalls
    BY DEF IInv
  <1> QED
    BY <1>1 DEF WireMatchesCalls

\* Every step keeps the wire in agreement with the calls.
LEMMA WireStep == IInv /\ [Next]_vars => WireMatchesCalls'
  <1> SUFFICES ASSUME IInv, [Next]_vars PROVE WireMatchesCalls'
    OBVIOUS
  <1>0. /\ received \in [Slots -> SUBSET Command]
        /\ inbound \in [Slots -> SUBSET Response]
        /\ sent_on \in [Calls -> 0..MaxSlots]
        /\ reply \in [Calls -> {"none", "result", "error"}]
        /\ id_of \in [Calls -> 0..MaxId]
        /\ socket \in 0..MaxSlots
        /\ WireMatchesCalls
    BY DEF IInv, PeerTypeOK, RequestInv, RequestTypeOK
  <1>1. CASE Connect
    <2>1. /\ UNCHANGED <<id_of, sent_on, reply>>
          /\ \A l \in Slots : received'[l] \subseteq received[l] /\ inbound'[l] \subseteq inbound[l]
      BY <1>1, <1>0 DEF Connect, requestVars, wireVars
    <2> QED
      BY <2>1, WireStutter
  <1>2. CASE Close
    <2>1. /\ UNCHANGED <<id_of, sent_on, reply>>
          /\ \A l \in Slots : received'[l] \subseteq received[l] /\ inbound'[l] \subseteq inbound[l]
      BY <1>2, <1>0 DEF Close, requestVars, wireVars
    <2> QED
      BY <2>1, WireStutter
  <1>3. CASE Tick
    <2>1. /\ UNCHANGED <<id_of, sent_on, reply>>
          /\ \A l \in Slots : received'[l] \subseteq received[l] /\ inbound'[l] \subseteq inbound[l]
      BY <1>3, <1>0 DEF Tick, requestVars, wireVars
    <2> QED
      BY <2>1, WireStutter
  <1>4. ASSUME NEW w \in Waiters, NoteTime(w)
         PROVE  WireMatchesCalls'
    <2>1. /\ UNCHANGED <<id_of, sent_on, reply>>
          /\ \A l \in Slots : received'[l] \subseteq received[l] /\ inbound'[l] \subseteq inbound[l]
      BY <1>4, <1>0 DEF NoteTime, requestVars, wireVars
    <2> QED
      BY <2>1, WireStutter
  <1>5. ASSUME NEW w \in Waiters, WaitForPeer(w)
         PROVE  WireMatchesCalls'
    <2>1. /\ UNCHANGED <<id_of, sent_on, reply>>
          /\ \A l \in Slots : received'[l] \subseteq received[l] /\ inbound'[l] \subseteq inbound[l]
      BY <1>5, <1>0 DEF WaitForPeer, requestVars, wireVars
    <2> QED
      BY <2>1, WireStutter
  <1>6. ASSUME NEW c \in Calls, Send(c)
         PROVE  WireMatchesCalls'
    <2>1. id_of[c] = 0 /\ reply[c] = "none"
      BY <1>6, <1>0 DEF Send, IInv, RequestInv, IdsAreFresh, WireMatchesCalls
    <2>2. /\ next_id \in Ids /\ id_of' = [id_of EXCEPT ![c] = next_id]
          /\ UNCHANGED <<inbound, reply>>
      BY <1>6 DEF Send, RegisterCall, RegisterFails, TakeId
    <2>3. \A l \in Slots : \A m \in received[l] : m.call # c /\ m.call \in Calls
      BY <1>0, <2>1 DEF WireMatchesCalls, Command, Ids
    <2>4. \A l \in Slots : \A m \in inbound'[l] :
              \E d \in Calls : id_of'[d] = m.id /\ reply'[d] = m.kind
      <3> SUFFICES ASSUME NEW l \in Slots, NEW m \in inbound[l]
                   PROVE  \E d \in Calls : id_of'[d] = m.id /\ reply'[d] = m.kind
        BY <2>2
      <3>1. PICK d \in Calls : id_of[d] = m.id /\ reply[d] = m.kind
        BY <1>0 DEF WireMatchesCalls
      <3>2. m.id \in Ids
        BY <1>0 DEF Response
      <3>3. d # c
        BY <2>1, <3>1, <3>2 DEF Ids
      <3> QED
        BY <1>0, <2>2, <3>1, <3>3
    <2>5. \A d \in Calls : reply'[d] # "none" => id_of'[d] # 0
      BY <1>0, <2>1, <2>2 DEF WireMatchesCalls, Ids
    <2>6. CASE PeerOpen
      <3>1. socket \in Slots /\ socket # 0
        BY <1>0, <2>6 DEF PeerOpen
      <3>2. /\ received' = [received EXCEPT ![socket] = @ \cup {CommandOf(c)}]
            /\ sent_on' = [sent_on EXCEPT ![c] = socket]
        BY <1>6, <2>6 DEF Send
      <3>3. \A l \in Slots : \A m \in received'[l] :
               m \in received[l] \/ (l = socket /\ m = CommandOf(c))
        BY <1>0, <3>1, <3>2
      <3>4. CommandOf(c).id = next_id /\ CommandOf(c).call = c
        BY DEF CommandOf
      <3>5. \A l \in Slots : \A m \in received'[l] :
               id_of'[m.call] = m.id /\ sent_on'[m.call] = l /\ reply'[m.call] = "none"
        BY <1>0, <2>1, <2>2, <2>3, <3>1, <3>2, <3>3, <3>4 DEF WireMatchesCalls
      <3> QED
        BY <2>4, <2>5, <3>5 DEF WireMatchesCalls
    <2>7. CASE ~PeerOpen
      <3>1. UNCHANGED <<received, sent_on>>
        BY <1>6, <2>7 DEF Send
      <3> QED
        BY <1>0, <2>2, <2>3, <2>4, <2>5, <3>1 DEF WireMatchesCalls
    <2> QED
      BY <2>6, <2>7
  <1>7. CASE ListenerClosed
    <2>1. /\ UNCHANGED <<id_of, sent_on, reply>>
          /\ \A l \in Slots : received'[l] \subseteq received[l] /\ inbound'[l] \subseteq inbound[l]
      BY <1>7, <1>0 DEF ListenerClosed, requestVars, wireVars
    <2> QED
      BY <2>1, WireStutter
  <1>8. ASSUME NEW w \in Waiters, WaitTimeout(w)
         PROVE  WireMatchesCalls'
    <2>1. /\ UNCHANGED <<id_of, sent_on, reply>>
          /\ \A l \in Slots : received'[l] \subseteq received[l] /\ inbound'[l] \subseteq inbound[l]
      BY <1>8, <1>0 DEF WaitTimeout, requestVars, wireVars
    <2> QED
      BY <2>1, WireStutter
  <1>9. ASSUME NEW c \in Calls, RequestTimeout(c)
         PROVE  WireMatchesCalls'
    <2>1. /\ UNCHANGED <<id_of, sent_on, reply>>
          /\ \A l \in Slots : received'[l] \subseteq received[l] /\ inbound'[l] \subseteq inbound[l]
      BY <1>9, <1>0 DEF RequestTimeout, TimerFires, requestVars, wireVars
    <2> QED
      BY <2>1, WireStutter
  <1>10. ASSUME NEW k \in Slots, HelloTimeout(k)
         PROVE  WireMatchesCalls'
    <2>1. /\ UNCHANGED <<id_of, sent_on, reply>>
          /\ \A l \in Slots : received'[l] \subseteq received[l] /\ inbound'[l] \subseteq inbound[l]
      BY <1>10, <1>0 DEF HelloTimeout, requestVars, wireVars
    <2> QED
      BY <2>1, WireStutter
  <1>11. ASSUME NEW k \in Slots, CloseEvent(k)
         PROVE  WireMatchesCalls'
    <2>1. /\ UNCHANGED <<id_of, sent_on, reply>>
          /\ \A l \in Slots : received'[l] \subseteq received[l] /\ inbound'[l] \subseteq inbound[l]
      BY <1>11, <1>0 DEF CloseEvent, PeerGone, EmitClose, requestVars, wireVars
    <2> QED
      BY <2>1, WireStutter
  <1>12. ASSUME NEW k \in Slots, NEW m \in inbound[k], ReceiveResponse(k, m)
         PROVE  WireMatchesCalls'
    <2>1. /\ UNCHANGED <<id_of, sent_on, reply>>
          /\ \A l \in Slots : received'[l] \subseteq received[l] /\ inbound'[l] \subseteq inbound[l]
      BY <1>12, <1>0 DEF ReceiveResponse, AcceptResponse, requestVars, wireVars
    <2> QED
      BY <2>1, WireStutter
  <1>13. ASSUME NEW k \in Slots, Accept(k)
         PROVE  WireMatchesCalls'
    <2>1. \A l \in Slots : \A m \in received[l] : m.call \in Calls
      BY <1>0 DEF Command
    <2>2. /\ received' = [received EXCEPT ![k] = {}]
          /\ inbound' = [inbound EXCEPT ![k] = {}]
          /\ sent_on' = [c \in Calls |-> IF sent_on[c] = k THEN 0 ELSE sent_on[c]]
          /\ UNCHANGED <<id_of, reply>>
      BY <1>13 DEF Accept, requestVars
    <2>3. \A l \in Slots : /\ received'[l] \subseteq received[l]
                          /\ inbound'[l] \subseteq inbound[l]
      BY <1>0, <2>2
    <2>4. \A l \in Slots : \A m \in received'[l] : sent_on'[m.call] = l
      <3> SUFFICES ASSUME NEW l \in Slots, NEW m \in received'[l]
                   PROVE  sent_on'[m.call] = l
        OBVIOUS
      <3>1. m \in received[l]
        BY <2>3
      <3>2. l # k
        BY <1>0, <2>2
      <3>3. sent_on[m.call] = l /\ m.call \in Calls
        BY <1>0, <2>1, <3>1 DEF WireMatchesCalls
      <3> QED
        BY <2>2, <3>2, <3>3
    <2> QED
      BY <1>0, <2>2, <2>3, <2>4 DEF WireMatchesCalls
  <1>14. ASSUME NEW k \in Slots, AcceptHello(k)
         PROVE  WireMatchesCalls'
    <2>1. /\ UNCHANGED <<id_of, sent_on, reply>>
          /\ \A l \in Slots : received'[l] \subseteq received[l] /\ inbound'[l] \subseteq inbound[l]
      BY <1>14, <1>0 DEF AcceptHello, requestVars, wireVars
    <2> QED
      BY <2>1, WireStutter
  <1>15. ASSUME NEW k \in Slots, RefuseHello(k)
         PROVE  WireMatchesCalls'
    <2>1. /\ UNCHANGED <<id_of, sent_on, reply>>
          /\ \A l \in Slots : received'[l] \subseteq received[l] /\ inbound'[l] \subseteq inbound[l]
      BY <1>15, <1>0 DEF RefuseHello, requestVars, wireVars
    <2> QED
      BY <2>1, WireStutter
  <1>16. ASSUME NEW k \in Slots, ErrorEvent(k)
         PROVE  WireMatchesCalls'
    <2>1. /\ UNCHANGED <<id_of, sent_on, reply>>
          /\ \A l \in Slots : received'[l] \subseteq received[l] /\ inbound'[l] \subseteq inbound[l]
      BY <1>16, <1>0 DEF ErrorEvent, PeerGone, EmitClose, requestVars, wireVars
    <2> QED
      BY <2>1, WireStutter
  <1>17. ASSUME NEW k \in Slots, PeerLeaves(k)
         PROVE  WireMatchesCalls'
    <2>1. /\ UNCHANGED <<id_of, sent_on, reply>>
          /\ \A l \in Slots : received'[l] \subseteq received[l] /\ inbound'[l] \subseteq inbound[l]
      BY <1>17, <1>0 DEF PeerLeaves, requestVars, wireVars
    <2> QED
      BY <2>1, WireStutter
  <1>18. ASSUME NEW k \in Slots, NEW m \in received[k], NEW kind \in {"result", "error"},
                PeerAnswers(k, m, kind)
         PROVE  WireMatchesCalls'
    <2>1. m \in Command /\ m.id \in Ids /\ m.call \in Calls
      BY <1>0 DEF Command
    <2>2. /\ received' = [received EXCEPT ![k] = @ \ {m}]
          /\ inbound' = [inbound EXCEPT ![k] = @ \cup {ResponseTo(m, kind)}]
          /\ reply' = [reply EXCEPT ![m.call] = kind]
          /\ UNCHANGED <<id_of, sent_on>>
      BY <1>18 DEF PeerAnswers, requestVars
    <2>3. id_of[m.call] = m.id /\ sent_on[m.call] = k /\ reply[m.call] = "none"
      BY <1>0 DEF WireMatchesCalls
    <2>4. \A l \in Slots : \A n \in received'[l] :
             n \in received[l] /\ n.call # m.call /\ n.call \in Calls
      <3> SUFFICES ASSUME NEW l \in Slots, NEW n \in received'[l]
                   PROVE  n \in received[l] /\ n.call # m.call /\ n.call \in Calls
        OBVIOUS
      <3>1. n \in received[l] /\ (l = k => n # m)
        BY <1>0, <2>2
      <3>2. n \in Command
        BY <1>0, <3>1
      <3>3. id_of[n.call] = n.id /\ sent_on[n.call] = l
        BY <1>0, <3>1 DEF WireMatchesCalls
      <3> QED
        BY <2>1, <2>3, <3>1, <3>2, <3>3 DEF Command
    <2>5. \A l \in Slots : \A n \in inbound'[l] :
             n \in inbound[l] \/ n = ResponseTo(m, kind)
      BY <1>0, <2>2
    <2>6. \A l \in Slots : \A n \in inbound'[l] :
             \E d \in Calls : id_of'[d] = n.id /\ reply'[d] = n.kind
      <3> SUFFICES ASSUME NEW l \in Slots, NEW n \in inbound'[l]
                   PROVE  \E d \in Calls : id_of'[d] = n.id /\ reply'[d] = n.kind
        OBVIOUS
      <3>1. CASE n = ResponseTo(m, kind)
        <4>1. n.id = m.id /\ n.kind = kind
          BY <3>1 DEF ResponseTo
        <4>2. id_of'[m.call] = n.id /\ reply'[m.call] = n.kind
          BY <1>0, <2>1, <2>2, <2>3, <4>1
        <4> QED
          BY <2>1, <4>2
      <3>2. CASE n \in inbound[l]
        <4>1. PICK d \in Calls : id_of[d] = n.id /\ reply[d] = n.kind
          BY <1>0, <3>2 DEF WireMatchesCalls
        <4>2. n.kind \in {"result", "error"}
          BY <1>0, <3>2 DEF Response
        <4>3. d # m.call
          BY <2>3, <4>1, <4>2
        <4> QED
          BY <1>0, <2>1, <2>2, <4>1, <4>3
      <3> QED
        BY <2>5, <3>1, <3>2
    <2>7. \A d \in Calls : reply'[d] # "none" => id_of'[d] # 0
      BY <1>0, <2>1, <2>2, <2>3 DEF WireMatchesCalls, Ids
    <2>8. \A l \in Slots : \A n \in received'[l] :
             id_of'[n.call] = n.id /\ sent_on'[n.call] = l /\ reply'[n.call] = "none"
      BY <1>0, <2>1, <2>2, <2>4 DEF WireMatchesCalls
    <2> QED
      BY <2>6, <2>7, <2>8 DEF WireMatchesCalls
  <1>19. CASE UNCHANGED vars
    <2>1. /\ UNCHANGED <<id_of, sent_on, reply>>
          /\ \A l \in Slots : received'[l] \subseteq received[l] /\ inbound'[l] \subseteq inbound[l]
      BY <1>19, <1>0 DEF vars, requestVars, wireVars
    <2> QED
      BY <2>1, WireStutter
  <1>20. CASE User
    BY <1>1, <1>2, <1>3, <1>4, <1>5, <1>6, <1>20 DEF User
  <1>21. CASE Loop
    BY <1>7, <1>8, <1>9, <1>10, <1>11, <1>12, <1>21 DEF Loop
  <1>22. CASE Peer
    BY <1>13, <1>14, <1>15, <1>16, <1>17, <1>18, <1>22 DEF Peer
  <1> QED
    BY <1>19, <1>20, <1>21, <1>22 DEF Next

\* Every step keeps what is known of the current peer and the others.
LEMMA PeerStep == IInv /\ [Next]_vars => PeerInv'
  <1> SUFFICES ASSUME PeerTypeOK, PeerInv, [Next]_vars PROVE PeerInv'
    BY DEF IInv
  <1> USE DEF PeerInv
  <1>0. /\ socket \in 0..MaxSlots
        /\ ready \in [Slots -> ReadyStates]
        /\ greeted \in [Slots -> {"awaited", "accepted", "refused"}]
        /\ sent_on \in [Calls -> 0..MaxSlots]
    BY DEF PeerTypeOK
  <1>1. CASE Connect
    BY <1>1, <1>0 DEF Connect, peerVars, wireVars
  <1>2. CASE Close
    BY <1>2, <1>0 DEF Close, peerVars, wireVars
  <1>3. CASE Tick
    BY <1>3, <1>0 DEF Tick, peerVars, wireVars
  <1>4. ASSUME NEW w \in Waiters, NoteTime(w)
         PROVE  PeerInv'
    BY <1>4, <1>0 DEF NoteTime, peerVars, wireVars
  <1>5. ASSUME NEW w \in Waiters, WaitForPeer(w)
         PROVE  PeerInv'
    BY <1>5, <1>0 DEF WaitForPeer, peerVars, wireVars
  <1>6. ASSUME NEW c \in Calls, Send(c)
         PROVE  PeerInv'
    BY <1>6, <1>0 DEF Send, PeerOpen, peerVars, wireVars
  <1>7. CASE ListenerClosed
    BY <1>7, <1>0 DEF ListenerClosed, peerVars, wireVars
  <1>8. ASSUME NEW w \in Waiters, WaitTimeout(w)
         PROVE  PeerInv'
    BY <1>8, <1>0 DEF WaitTimeout, peerVars, wireVars
  <1>9. ASSUME NEW c \in Calls, RequestTimeout(c)
         PROVE  PeerInv'
    BY <1>9, <1>0 DEF RequestTimeout, peerVars, wireVars
  <1>10. ASSUME NEW k \in Slots, HelloTimeout(k)
         PROVE  PeerInv'
    BY <1>10, <1>0 DEF HelloTimeout, peerVars, wireVars
  <1>11. ASSUME NEW k \in Slots, CloseEvent(k)
         PROVE  PeerInv'
    BY <1>11, <1>0 DEF CloseEvent, PeerGone, peerVars, wireVars
  <1>12. ASSUME NEW k \in Slots, NEW m \in inbound[k], ReceiveResponse(k, m)
         PROVE  PeerInv'
    BY <1>12, <1>0 DEF ReceiveResponse, peerVars, wireVars
  <1>13. ASSUME NEW k \in Slots, Accept(k)
         PROVE  PeerInv'
    BY <1>13, <1>0 DEF Accept, peerVars, wireVars
  <1>14. ASSUME NEW k \in Slots, AcceptHello(k)
         PROVE  PeerInv'
    BY <1>14, <1>0 DEF AcceptHello, peerVars, wireVars
  <1>15. ASSUME NEW k \in Slots, RefuseHello(k)
         PROVE  PeerInv'
    BY <1>15, <1>0 DEF RefuseHello, peerVars, wireVars
  <1>16. ASSUME NEW k \in Slots, ErrorEvent(k)
         PROVE  PeerInv'
    BY <1>16, <1>0 DEF ErrorEvent, PeerGone, peerVars, wireVars
  <1>17. ASSUME NEW k \in Slots, PeerLeaves(k)
         PROVE  PeerInv'
    BY <1>17, <1>0 DEF PeerLeaves, peerVars, wireVars
  <1>18. ASSUME NEW k \in Slots, NEW m \in received[k], NEW kind \in {"result", "error"},
                PeerAnswers(k, m, kind)
         PROVE  PeerInv'
    BY <1>18, <1>0 DEF PeerAnswers, peerVars, wireVars
  <1>19. CASE UNCHANGED vars
    BY <1>19, <1>0 DEF vars, peerVars, wireVars
  <1> HIDE DEF PeerInv
  <1>20. CASE User
    BY <1>1, <1>2, <1>3, <1>4, <1>5, <1>6, <1>20 DEF User
  <1>21. CASE Loop
    BY <1>7, <1>8, <1>9, <1>10, <1>11, <1>12, <1>21 DEF Loop
  <1>22. CASE Peer
    BY <1>13, <1>14, <1>15, <1>16, <1>17, <1>18, <1>22 DEF Peer
  <1> QED
    BY <1>19, <1>20, <1>21, <1>22 DEF Next

\* Every step keeps NoWaiterOverlooked.
LEMMA WaiterStep == IInv /\ [Next]_vars => NoWaiterOverlooked'
  <1> SUFFICES ASSUME PeerTypeOK, PeerInv, NoWaiterOverlooked, [Next]_vars
               PROVE  NoWaiterOverlooked'
    BY DEF IInv
  <1> USE DEF NoWaiterOverlooked, PeerOpen
  <1>0. /\ socket \in 0..MaxSlots
        /\ peer_connected_at \in 0..MaxTime
        /\ peer_waiters \in [Waiters -> {"idle", "waiting", "resolved", "rejected"}]
        /\ since \in [Waiters -> 0..MaxTime]
        /\ now \in 1..MaxTime
        /\ ready \in [Slots -> ReadyStates]
        /\ socket # 0 => greeted[socket] = "accepted"
                         /\ ready[socket] \in {"open", "closing", "ending"}
    BY DEF PeerTypeOK, PeerInv
  <1>1. CASE Connect
    BY <1>1, <1>0 DEF Connect, peerVars, wireVars
  <1>2. CASE Close
    BY <1>2, <1>0 DEF Close, RejectWaiters, peerVars, wireVars
  <1>3. CASE Tick
    BY <1>3, <1>0 DEF Tick, peerVars, wireVars
  <1>4. ASSUME NEW w \in Waiters, NoteTime(w)
         PROVE  NoWaiterOverlooked'
    BY <1>4, <1>0 DEF NoteTime, peerVars, wireVars
  <1>5. ASSUME NEW w \in Waiters, WaitForPeer(w)
         PROVE  NoWaiterOverlooked'
    BY <1>5, <1>0 DEF WaitForPeer, peerVars, wireVars
  <1>6. ASSUME NEW c \in Calls, Send(c)
         PROVE  NoWaiterOverlooked'
    BY <1>6, <1>0 DEF Send, peerVars, wireVars
  <1>7. CASE ListenerClosed
    BY <1>7, <1>0 DEF ListenerClosed, RejectWaiters, peerVars, wireVars
  <1>8. ASSUME NEW w \in Waiters, WaitTimeout(w)
         PROVE  NoWaiterOverlooked'
    BY <1>8, <1>0 DEF WaitTimeout, peerVars, wireVars
  <1>9. ASSUME NEW c \in Calls, RequestTimeout(c)
         PROVE  NoWaiterOverlooked'
    BY <1>9, <1>0 DEF RequestTimeout, peerVars, wireVars
  <1>10. ASSUME NEW k \in Slots, HelloTimeout(k)
         PROVE  NoWaiterOverlooked'
    BY <1>10, <1>0 DEF HelloTimeout, peerVars, wireVars
  <1>11. ASSUME NEW k \in Slots, CloseEvent(k)
         PROVE  NoWaiterOverlooked'
    BY <1>11, <1>0 DEF CloseEvent, PeerGone, peerVars, wireVars
  <1>12. ASSUME NEW k \in Slots, NEW m \in inbound[k], ReceiveResponse(k, m)
         PROVE  NoWaiterOverlooked'
    BY <1>12, <1>0 DEF ReceiveResponse, peerVars, wireVars
  <1>13. ASSUME NEW k \in Slots, Accept(k)
         PROVE  NoWaiterOverlooked'
    BY <1>13, <1>0 DEF Accept, peerVars, wireVars
  <1>14. ASSUME NEW k \in Slots, AcceptHello(k)
         PROVE  NoWaiterOverlooked'
    BY <1>14, <1>0 DEF AcceptHello, peerVars, wireVars
  <1>15. ASSUME NEW k \in Slots, RefuseHello(k)
         PROVE  NoWaiterOverlooked'
    BY <1>15, <1>0 DEF RefuseHello, peerVars, wireVars
  <1>16. ASSUME NEW k \in Slots, ErrorEvent(k)
         PROVE  NoWaiterOverlooked'
    BY <1>16, <1>0 DEF ErrorEvent, PeerGone, peerVars, wireVars
  <1>17. ASSUME NEW k \in Slots, PeerLeaves(k)
         PROVE  NoWaiterOverlooked'
    BY <1>17, <1>0 DEF PeerLeaves, peerVars, wireVars
  <1>18. ASSUME NEW k \in Slots, NEW m \in received[k], NEW kind \in {"result", "error"},
                PeerAnswers(k, m, kind)
         PROVE  NoWaiterOverlooked'
    BY <1>18, <1>0 DEF PeerAnswers, peerVars, wireVars
  <1>19. CASE UNCHANGED vars
    BY <1>19, <1>0 DEF vars, peerVars, wireVars
  <1> HIDE DEF NoWaiterOverlooked
  <1>20. CASE User
    BY <1>1, <1>2, <1>3, <1>4, <1>5, <1>6, <1>20 DEF User
  <1>21. CASE Loop
    BY <1>7, <1>8, <1>9, <1>10, <1>11, <1>12, <1>21 DEF Loop
  <1>22. CASE Peer
    BY <1>13, <1>14, <1>15, <1>16, <1>17, <1>18, <1>22 DEF Peer
  <1> QED
    BY <1>19, <1>20, <1>21, <1>22 DEF Next

\* IInv is inductive.
LEMMA IInvStep == IInv /\ [Next]_vars => IInv'
  BY RequestStep, PeerTypeStep, WireStep, PeerStep, WaiterStep DEF IInv

\* IInv holds in every reachable state.
THEOREM Invariance == Spec => []IInv
  <1>1. Init => IInv
    BY InitIInv
  <1>2. IInv /\ [Next]_vars => IInv'
    BY IInvStep
  <1> QED
    BY <1>1, <1>2, PTL DEF Spec

\* The types of the reverse transport, its map of promises and its peers.
THEOREM TypeCorrect == Spec => []TypeOK
  <1>1. IInv => TypeOK
    BY DEF IInv, RequestInv, TypeOK
  <1> QED
    BY <1>1, Invariance, PTL

\* ReverseWSUpstreamTransport.accept keeps one peer: of those that said hello,
\* at most one is not being closed.
THEOREM OnePeer == Spec => []OnePeerOpen
  <1>1. IInv => OnePeerOpen
    BY DEF IInv, PeerInv, OnePeerOpen
  <1> QED
    BY <1>1, Invariance, PTL

\* waitForPeer and accept agree: no caller waits while a peer that suits it is
\* connected.
THEOREM WaitersSeen == Spec => []NoWaiterOverlooked
  <1>1. IInv => NoWaiterOverlooked
    BY DEF IInv
  <1> QED
    BY <1>1, Invariance, PTL

\* The step of RejectedWithCurrentPeer.
WithCurrentPeer ==
    \A c \in Calls \ Timed :
        (phase[c] = "pending" /\ phase'[c] = "rejected" /\ ~ErrorArrives(c)) =>
            CurrentPeerEnds /\ (sent_on[c] = socket \/ GivenUp(c))

\* A request that waits on an open peer waits on the current one.
LEMMA OnCurrentOrGivenUp ==
    ASSUME PeerTypeOK, PeerInv, socket # 0, NEW c \in Calls
    PROVE  sent_on[c] = socket \/ GivenUp(c)
  BY DEF PeerTypeOK, PeerInv, GivenUp

\* No other event than its error answer and the end of the current peer rejects
\* an untimed request.
LEMMA CurrentPeerStep == IInv /\ [Next]_vars => WithCurrentPeer
  <1> SUFFICES ASSUME IInv, [Next]_vars PROVE WithCurrentPeer
    OBVIOUS
  <1>0. /\ RequestInv /\ PeerTypeOK /\ WireMatchesCalls /\ PeerInv
        /\ phase \in [Calls -> Phases]
        /\ ready \in [Slots -> ReadyStates]
        /\ sent_on \in [Calls -> 0..MaxSlots]
        /\ inbound \in [Slots -> SUBSET Response]
    BY DEF IInv, PeerTypeOK, RequestInv, RequestTypeOK
  <1>1. CASE Connect
    <2>1. UNCHANGED phase
      BY <1>1 DEF Connect, requestVars
    <2> QED
      BY <2>1 DEF WithCurrentPeer
  <1>2. CASE Close
    <2>1. UNCHANGED phase
      BY <1>2 DEF Close, requestVars
    <2> QED
      BY <2>1 DEF WithCurrentPeer
  <1>3. CASE Tick
    <2>1. UNCHANGED phase
      BY <1>3 DEF Tick, requestVars
    <2> QED
      BY <2>1 DEF WithCurrentPeer
  <1>4. ASSUME NEW w \in Waiters, NoteTime(w)
         PROVE  WithCurrentPeer
    <2>1. UNCHANGED phase
      BY <1>4 DEF NoteTime, requestVars
    <2> QED
      BY <2>1 DEF WithCurrentPeer
  <1>5. ASSUME NEW w \in Waiters, WaitForPeer(w)
         PROVE  WithCurrentPeer
    <2>1. UNCHANGED phase
      BY <1>5 DEF WaitForPeer, requestVars
    <2> QED
      BY <2>1 DEF WithCurrentPeer
  <1>6. ASSUME NEW c \in Calls, Send(c)
         PROVE  WithCurrentPeer
    <2>1. phase[c] = "idle" /\ \A d \in Calls : d # c => phase'[d] = phase[d]
      BY <1>6, <1>0 DEF Send, RegisterCall, RegisterFails
    <2> QED
      BY <2>1 DEF WithCurrentPeer
  <1>7. CASE ListenerClosed
    <2>1. UNCHANGED phase
      BY <1>7 DEF ListenerClosed, requestVars
    <2> QED
      BY <2>1 DEF WithCurrentPeer
  <1>8. ASSUME NEW w \in Waiters, WaitTimeout(w)
         PROVE  WithCurrentPeer
    <2>1. UNCHANGED phase
      BY <1>8 DEF WaitTimeout, requestVars
    <2> QED
      BY <2>1 DEF WithCurrentPeer
  <1>9. ASSUME NEW c \in Calls, RequestTimeout(c)
         PROVE  WithCurrentPeer
    <2>1. c \in Timed /\ \A d \in Calls : d # c => phase'[d] = phase[d]
      BY <1>9, <1>0 DEF RequestTimeout, TimerFires
    <2> QED
      BY <2>1 DEF WithCurrentPeer
  <1>10. ASSUME NEW k \in Slots, HelloTimeout(k)
         PROVE  WithCurrentPeer
    <2>1. UNCHANGED phase
      BY <1>10 DEF HelloTimeout, requestVars
    <2> QED
      BY <2>1 DEF WithCurrentPeer
  <1>11. ASSUME NEW k \in Slots, CloseEvent(k)
         PROVE  WithCurrentPeer
    <2>1. CASE greeted[k] = "accepted" /\ socket = k
      <3>1. ready' = [ready EXCEPT ![k] = "closed"] /\ socket' = 0 /\ ready[k] # "closed"
        BY <1>11, <2>1 DEF CloseEvent, PeerGone
      <3>2. CurrentPeerEnds
        BY <1>0, <2>1, <3>1 DEF CurrentPeerEnds
      <3> QED
        BY <1>0, <2>1, <3>2, OnCurrentOrGivenUp DEF WithCurrentPeer
    <2>2. CASE ~(greeted[k] = "accepted" /\ socket = k)
      <3>1. UNCHANGED phase
        BY <1>11, <2>2 DEF CloseEvent, PeerGone, requestVars
      <3> QED
        BY <3>1 DEF WithCurrentPeer
    <2> QED
      BY <2>1, <2>2
  <1>12. ASSUME NEW k \in Slots, NEW m \in inbound[k], ReceiveResponse(k, m)
         PROVE  WithCurrentPeer
    <2>1. m \in Response /\ m.id \in Ids
      BY <1>0 DEF PeerTypeOK, Response
    <2>2. PICK d \in Calls : id_of[d] = m.id /\ reply[d] = m.kind
      BY <1>0 DEF WireMatchesCalls
    <2>3. AcceptResponse(m.id, m.kind)
      BY <1>12 DEF ReceiveResponse
    <2>4. CASE pending[m.id] = NoCall
      BY <2>3, <2>4 DEF AcceptResponse, WithCurrentPeer
    <2>5. CASE pending[m.id] # NoCall
      <3>1. pending[m.id] \in Calls /\ id_of[pending[m.id]] = m.id
        BY <1>0, <2>1, <2>5 DEF RequestInv, RequestTypeOK, PendingMatchesCalls
      <3>2. pending[m.id] = d
        BY <1>0, <2>1, <2>2, <3>1 DEF RequestInv, IdsAreFresh, Ids
      <3>3. phase' = [phase EXCEPT ![d] = IF m.kind = "error" THEN "rejected" ELSE "resolved"]
        BY <2>3, <2>5, <3>2 DEF AcceptResponse
      <3>4. CASE m.kind = "error"
        <4>1. m = [id |-> id_of[d], kind |-> "error"]
          BY <2>1, <2>2, <3>4 DEF Response
        <4>2. m \in inbound[k] /\ m \notin inbound'[k]
          BY <1>0, <1>12 DEF ReceiveResponse
        <4>3. ErrorArrives(d)
          BY <4>1, <4>2 DEF ErrorArrives
        <4> QED
          BY <1>0, <3>3, <4>3 DEF WithCurrentPeer
      <3>5. CASE m.kind # "error"
        BY <1>0, <3>3, <3>5 DEF WithCurrentPeer
      <3> QED
        BY <3>4, <3>5
    <2> QED
      BY <2>4, <2>5
  <1>13. ASSUME NEW k \in Slots, Accept(k)
         PROVE  WithCurrentPeer
    <2>1. UNCHANGED phase
      BY <1>13 DEF Accept, requestVars
    <2> QED
      BY <2>1 DEF WithCurrentPeer
  <1>14. ASSUME NEW k \in Slots, AcceptHello(k)
         PROVE  WithCurrentPeer
    <2>1. UNCHANGED phase
      BY <1>14 DEF AcceptHello, requestVars
    <2> QED
      BY <2>1 DEF WithCurrentPeer
  <1>15. ASSUME NEW k \in Slots, RefuseHello(k)
         PROVE  WithCurrentPeer
    <2>1. UNCHANGED phase
      BY <1>15 DEF RefuseHello, requestVars
    <2> QED
      BY <2>1 DEF WithCurrentPeer
  <1>16. ASSUME NEW k \in Slots, ErrorEvent(k)
         PROVE  WithCurrentPeer
    <2>1. CASE greeted[k] = "accepted" /\ socket = k
      <3>1. ready' = [ready EXCEPT ![k] = "ending"] /\ socket' = 0 /\ ready[k] # "ending"
        BY <1>16, <2>1 DEF ErrorEvent, PeerGone
      <3>2. CurrentPeerEnds
        BY <1>0, <2>1, <3>1 DEF CurrentPeerEnds
      <3> QED
        BY <1>0, <2>1, <3>2, OnCurrentOrGivenUp DEF WithCurrentPeer
    <2>2. CASE ~(greeted[k] = "accepted" /\ socket = k)
      <3>1. UNCHANGED phase
        BY <1>16, <2>2 DEF ErrorEvent, PeerGone, requestVars
      <3> QED
        BY <3>1 DEF WithCurrentPeer
    <2> QED
      BY <2>1, <2>2
  <1>17. ASSUME NEW k \in Slots, PeerLeaves(k)
         PROVE  WithCurrentPeer
    <2>1. UNCHANGED phase
      BY <1>17 DEF PeerLeaves, requestVars
    <2> QED
      BY <2>1 DEF WithCurrentPeer
  <1>18. ASSUME NEW k \in Slots, NEW m \in received[k], NEW kind \in {"result", "error"},
                PeerAnswers(k, m, kind)
         PROVE  WithCurrentPeer
    <2>1. UNCHANGED phase
      BY <1>18 DEF PeerAnswers, requestVars
    <2> QED
      BY <2>1 DEF WithCurrentPeer
  <1>19. CASE UNCHANGED vars
    <2>1. UNCHANGED phase
      BY <1>19 DEF vars, requestVars
    <2> QED
      BY <2>1 DEF WithCurrentPeer
  <1>20. CASE User
    BY <1>1, <1>2, <1>3, <1>4, <1>5, <1>6, <1>20 DEF User
  <1>21. CASE Loop
    BY <1>7, <1>8, <1>9, <1>10, <1>11, <1>12, <1>21 DEF Loop
  <1>22. CASE Peer
    BY <1>13, <1>14, <1>15, <1>16, <1>17, <1>18, <1>22 DEF Peer
  <1> QED
    BY <1>19, <1>20, <1>21, <1>22 DEF Next

\* ReverseWSUpstreamTransport.accept: emitClose runs in the close and error
\* listeners of the current peer only (lines 211 and 219); of the requests it
\* rejects those of other peers had been given up before.
THEOREM RejectedByCurrent == Spec => RejectedWithCurrentPeer
  <1>1. IInv /\ [Next]_vars => [WithCurrentPeer]_vars
    BY CurrentPeerStep
  <1> QED
    BY <1>1, Invariance, PTL DEF Spec, RejectedWithCurrentPeer, WithCurrentPeer

-----------------------------------------------------------------------------
(* The transport implements CommandOutcomes.                               *)

\* A step in which no caller sees a change is a stutter of CommandOutcomes.
LEMMA StutterMaps ==
    ASSUME UNCHANGED reply, \A c \in Calls : Outcome(c)' = Outcome(c)
    PROVE  UNCHANGED Outcomes!vars
  BY DEF Outcomes!vars

\* A step that rejects the calls of S and changes no other maps to Reject(S).
LEMMA RejectMaps ==
    ASSUME NEW S \in SUBSET Calls, UNCHANGED reply,
           \A c \in S : phase[c] \notin Settled /\ phase'[c] = "rejected",
           \A c \in Calls \ S : Outcome(c)' = Outcome(c)
    PROVE  Outcomes!Next
  <1>1. \A c \in S : Outcome(c) \notin Outcomes!Settled /\ Outcome(c)' = "rejected"
    BY DEF Outcome, Settled, Outcomes!Settled
  <1>2. Outcomes!Reject(S)
    BY <1>1 DEF Outcomes!Reject
  <1> QED
    BY <1>2 DEF Outcomes!Next

\* A step that registers one idle call maps to Issue.
LEMMA IssueMaps ==
    ASSUME NEW c \in Calls, phase[c] = "idle", UNCHANGED reply,
           phase \in [Calls -> Phases], phase' = [phase EXCEPT ![c] = "pending"]
    PROVE  Outcomes!Next
  <1>1. Outcome(c) = "unsent" /\ Outcome(c)' = "waiting"
    BY DEF Outcome, Settled
  <1>2. \A d \in Calls : d # c => Outcome(d)' = Outcome(d)
    BY DEF Outcome
  <1>3. Outcomes!Issue(c)
    BY <1>1, <1>2 DEF Outcomes!Issue
  <1> QED
    BY <1>3 DEF Outcomes!Next

\* Every step of the transport is a step of CommandOutcomes or a stutter.
LEMMA StepMaps == IInv /\ [Next]_vars => [Outcomes!Next]_(Outcomes!vars)
  <1> SUFFICES ASSUME IInv, [Next]_vars PROVE [Outcomes!Next]_(Outcomes!vars)
    OBVIOUS
  <1>0. phase \in [Calls -> Phases] /\ RequestInv
    BY DEF IInv, RequestInv, RequestTypeOK
  <1>1. CASE Connect
    <2>1. UNCHANGED <<phase, reply>>
      BY <1>1 DEF Connect, requestVars, wireVars
    <2> QED
      BY <2>1, StutterMaps DEF Outcome
  <1>2. CASE Close
    <2>1. UNCHANGED <<phase, reply>>
      BY <1>2 DEF Close, requestVars, wireVars
    <2> QED
      BY <2>1, StutterMaps DEF Outcome
  <1>3. CASE Tick
    <2>1. UNCHANGED <<phase, reply>>
      BY <1>3 DEF Tick, requestVars, wireVars
    <2> QED
      BY <2>1, StutterMaps DEF Outcome
  <1>4. ASSUME NEW w \in Waiters, NoteTime(w)
         PROVE  [Outcomes!Next]_(Outcomes!vars)
    <2>1. UNCHANGED <<phase, reply>>
      BY <1>4 DEF NoteTime, requestVars, wireVars
    <2> QED
      BY <2>1, StutterMaps DEF Outcome
  <1>5. ASSUME NEW w \in Waiters, WaitForPeer(w)
         PROVE  [Outcomes!Next]_(Outcomes!vars)
    <2>1. UNCHANGED <<phase, reply>>
      BY <1>5 DEF WaitForPeer, requestVars, wireVars
    <2> QED
      BY <2>1, StutterMaps DEF Outcome
  <1>6. ASSUME NEW c \in Calls, Send(c)
         PROVE  [Outcomes!Next]_(Outcomes!vars)
    <2>1. phase[c] = "idle" /\ UNCHANGED reply
      BY <1>6 DEF Send
    <2>2. \/ phase' = [phase EXCEPT ![c] = "pending"]
          \/ phase' = [phase EXCEPT ![c] = "rejected"]
      BY <1>6 DEF Send, RegisterCall, RegisterFails
    <2>3. CASE phase' = [phase EXCEPT ![c] = "pending"]
      BY <1>0, <2>1, <2>3, IssueMaps
    <2>4. CASE phase' = [phase EXCEPT ![c] = "rejected"]
      <3>1. {c} \in SUBSET Calls /\ phase[c] \notin Settled /\ phase'[c] = "rejected"
        BY <1>0, <2>1, <2>4 DEF Settled
      <3>2. \A d \in Calls \ {c} : Outcome(d)' = Outcome(d)
        BY <1>0, <2>4 DEF Outcome
      <3> QED
        BY <2>1, <3>1, <3>2, RejectMaps
    <2> QED
      BY <2>2, <2>3, <2>4
  <1>7. CASE ListenerClosed
    <2>1. UNCHANGED <<phase, reply>>
      BY <1>7 DEF ListenerClosed, requestVars, wireVars
    <2> QED
      BY <2>1, StutterMaps DEF Outcome
  <1>8. ASSUME NEW w \in Waiters, WaitTimeout(w)
         PROVE  [Outcomes!Next]_(Outcomes!vars)
    <2>1. UNCHANGED <<phase, reply>>
      BY <1>8 DEF WaitTimeout, requestVars, wireVars
    <2> QED
      BY <2>1, StutterMaps DEF Outcome
  <1>9. ASSUME NEW c \in Calls, RequestTimeout(c)
         PROVE  [Outcomes!Next]_(Outcomes!vars)
    <2>1. phase[c] = "pending" /\ UNCHANGED reply
      BY <1>9, <1>0, TimerFiresInv DEF RequestTimeout, wireVars
    <2>2. phase' = [phase EXCEPT ![c] = "rejected"]
      BY <1>9 DEF RequestTimeout, TimerFires
    <2>3. {c} \in SUBSET Calls /\ phase[c] \notin Settled /\ phase'[c] = "rejected"
      BY <1>0, <2>1, <2>2 DEF Settled
    <2>4. \A d \in Calls \ {c} : Outcome(d)' = Outcome(d)
      BY <1>0, <2>2 DEF Outcome
    <2> QED
      BY <2>1, <2>3, <2>4, RejectMaps
  <1>10. ASSUME NEW k \in Slots, HelloTimeout(k)
         PROVE  [Outcomes!Next]_(Outcomes!vars)
    <2>1. UNCHANGED <<phase, reply>>
      BY <1>10 DEF HelloTimeout, requestVars, wireVars
    <2> QED
      BY <2>1, StutterMaps DEF Outcome
  <1>11. ASSUME NEW k \in Slots, CloseEvent(k)
         PROVE  [Outcomes!Next]_(Outcomes!vars)
    <2>1. UNCHANGED reply
      BY <1>11 DEF CloseEvent, wireVars
    <2>2. CASE UNCHANGED requestVars
      BY <2>1, <2>2, StutterMaps DEF Outcome, requestVars
    <2>3. CASE EmitClose({})
      <3>1. \A c \in Calls : \/ phase'[c] = phase[c]
                            \/ (phase'[c] = "rejected" /\ phase[c] \in {"pending", "connecting"})
        BY <1>0, <2>3, EmitCloseInv
      <3> DEFINE S == {c \in Calls : phase'[c] # phase[c]}
      <3>2. \A c \in S : phase[c] \notin Settled /\ phase'[c] = "rejected"
        BY <3>1 DEF Settled
      <3>3. \A c \in Calls \ S : Outcome(c)' = Outcome(c)
        BY DEF Outcome
      <3>4. S \in SUBSET Calls
        OBVIOUS
      <3> HIDE DEF S
      <3> QED
        BY <2>1, <3>2, <3>3, <3>4, RejectMaps
    <2> QED
      BY <1>11, <2>2, <2>3 DEF CloseEvent, PeerGone
  <1>12. ASSUME NEW k \in Slots, NEW m \in inbound[k], ReceiveResponse(k, m)
         PROVE  [Outcomes!Next]_(Outcomes!vars)
    <2>1. m \in Response /\ m.id \in Ids /\ UNCHANGED reply
      BY <1>12 DEF ReceiveResponse, IInv, PeerTypeOK, Response
    <2>2. AcceptResponse(m.id, m.kind)
      BY <1>12 DEF ReceiveResponse
    <2>3. CASE pending[m.id] = NoCall
      <3>1. UNCHANGED <<phase, reply>>
        BY <2>1, <2>2, <2>3 DEF AcceptResponse
      <3> QED
        BY <3>1, StutterMaps DEF Outcome
    <2>4. CASE pending[m.id] # NoCall
      <3>0. PICK c \in Calls : c = pending[m.id]
        BY <1>0, <2>1, <2>4 DEF RequestInv, RequestTypeOK
      <3>1. id_of[c] = m.id /\ phase[c] = "pending"
        BY <1>0, <2>1, <2>4, <3>0 DEF RequestInv, PendingMatchesCalls
      <3>2. phase' = [phase EXCEPT ![c] = IF m.kind = "error" THEN "rejected" ELSE "resolved"]
        BY <2>2, <2>4, <3>0 DEF AcceptResponse
      <3>3. reply[c] = m.kind /\ m.kind \in {"result", "error"}
        <4>1. PICK d \in Calls : id_of[d] = m.id /\ reply[d] = m.kind
          BY DEF IInv, WireMatchesCalls
        <4>2. d = c
          BY <1>0, <2>1, <3>1, <4>1 DEF RequestInv, IdsAreFresh, Ids
        <4> QED
          BY <2>1, <4>1, <4>2 DEF Response
      <3>4. \A d \in Calls \ {c} : Outcome(d)' = Outcome(d)
        BY <1>0, <3>2 DEF Outcome
      <3>5. CASE m.kind = "error"
        <4>1. {c} \in SUBSET Calls /\ phase[c] \notin Settled /\ phase'[c] = "rejected"
          BY <1>0, <3>1, <3>2, <3>5 DEF Settled
        <4> QED
          BY <2>1, <3>4, <4>1, RejectMaps
      <3>6. CASE m.kind = "result"
        <4>1. Outcome(c) = "waiting" /\ Outcome(c)' = "resolved"
          BY <1>0, <3>1, <3>2, <3>6 DEF Outcome, Settled
        <4>2. [d \in Calls |-> Outcome(d)]' =
                  [[d \in Calls |-> Outcome(d)] EXCEPT ![c] = "resolved"]
          BY <3>4, <4>1
        <4>3. Outcomes!Resolve(c)
          BY <2>1, <3>1, <3>3, <3>6, <4>1, <4>2 DEF Outcomes!Resolve
        <4> QED
          BY <4>3 DEF Outcomes!Next
      <3> QED
        BY <3>3, <3>5, <3>6
    <2> QED
      BY <2>3, <2>4
  <1>13. ASSUME NEW k \in Slots, Accept(k)
         PROVE  [Outcomes!Next]_(Outcomes!vars)
    <2>1. UNCHANGED <<phase, reply>>
      BY <1>13 DEF Accept, requestVars, wireVars
    <2> QED
      BY <2>1, StutterMaps DEF Outcome
  <1>14. ASSUME NEW k \in Slots, AcceptHello(k)
         PROVE  [Outcomes!Next]_(Outcomes!vars)
    <2>1. UNCHANGED <<phase, reply>>
      BY <1>14 DEF AcceptHello, requestVars, wireVars
    <2> QED
      BY <2>1, StutterMaps DEF Outcome
  <1>15. ASSUME NEW k \in Slots, RefuseHello(k)
         PROVE  [Outcomes!Next]_(Outcomes!vars)
    <2>1. UNCHANGED <<phase, reply>>
      BY <1>15 DEF RefuseHello, requestVars, wireVars
    <2> QED
      BY <2>1, StutterMaps DEF Outcome
  <1>16. ASSUME NEW k \in Slots, ErrorEvent(k)
         PROVE  [Outcomes!Next]_(Outcomes!vars)
    <2>1. UNCHANGED reply
      BY <1>16 DEF ErrorEvent, wireVars
    <2>2. CASE UNCHANGED requestVars
      BY <2>1, <2>2, StutterMaps DEF Outcome, requestVars
    <2>3. CASE EmitClose({})
      <3>1. \A c \in Calls : \/ phase'[c] = phase[c]
                            \/ (phase'[c] = "rejected" /\ phase[c] \in {"pending", "connecting"})
        BY <1>0, <2>3, EmitCloseInv
      <3> DEFINE S == {c \in Calls : phase'[c] # phase[c]}
      <3>2. \A c \in S : phase[c] \notin Settled /\ phase'[c] = "rejected"
        BY <3>1 DEF Settled
      <3>3. \A c \in Calls \ S : Outcome(c)' = Outcome(c)
        BY DEF Outcome
      <3>4. S \in SUBSET Calls
        OBVIOUS
      <3> HIDE DEF S
      <3> QED
        BY <2>1, <3>2, <3>3, <3>4, RejectMaps
    <2> QED
      BY <1>16, <2>2, <2>3 DEF ErrorEvent, PeerGone
  <1>17. ASSUME NEW k \in Slots, PeerLeaves(k)
         PROVE  [Outcomes!Next]_(Outcomes!vars)
    <2>1. UNCHANGED <<phase, reply>>
      BY <1>17 DEF PeerLeaves, requestVars, wireVars
    <2> QED
      BY <2>1, StutterMaps DEF Outcome
  <1>18. ASSUME NEW k \in Slots, NEW m \in received[k], NEW kind \in {"result", "error"},
                PeerAnswers(k, m, kind)
         PROVE  [Outcomes!Next]_(Outcomes!vars)
    <2>1. /\ m.id \in Ids /\ m.call \in Calls
          /\ id_of[m.call] = m.id /\ reply[m.call] = "none"
      BY DEF IInv, PeerTypeOK, Command, WireMatchesCalls
    <2>2. reply' = [reply EXCEPT ![m.call] = kind] /\ UNCHANGED phase
      BY <1>18 DEF PeerAnswers, requestVars
    <2>3. phase[m.call] # "idle"
      BY <1>0, <2>1 DEF RequestInv, IdsAreFresh, Ids
    <2>4. Outcome(m.call) # "unsent"
      BY <2>3 DEF Outcome, Settled
    <2>5. UNCHANGED [c \in Calls |-> Outcome(c)]
      BY <2>2 DEF Outcome
    <2>6. Outcomes!Answer(m.call, kind)
      BY <2>1, <2>2, <2>4, <2>5 DEF Outcomes!Answer
    <2> QED
      BY <2>1, <2>6 DEF Outcomes!Next
  <1>19. CASE UNCHANGED vars
    <2>1. UNCHANGED <<phase, reply>>
      BY <1>19 DEF vars, requestVars, wireVars
    <2> QED
      BY <2>1, StutterMaps DEF Outcome
  <1>20. CASE User
    BY <1>1, <1>2, <1>3, <1>4, <1>5, <1>6, <1>20 DEF User
  <1>21. CASE Loop
    BY <1>7, <1>8, <1>9, <1>10, <1>11, <1>12, <1>21 DEF Loop
  <1>22. CASE Peer
    BY <1>13, <1>14, <1>15, <1>16, <1>17, <1>18, <1>22 DEF Peer
  <1> QED
    BY <1>19, <1>20, <1>21, <1>22 DEF Next

\* ReverseWSUpstreamTransport keeps the promise of UpstreamTransport.send when
\* peers replace each other: a promise settles at most once, and resolves only
\* with the result a peer gave for it.
THEOREM Refinement == Spec => KeepsPromises
  <1>1. ASSUME Init
        PROVE  Outcomes!Init
    <2>1. \A c \in Calls : phase[c] = "idle"
      BY <1>1 DEF Init, RequestInit
    <2>2. \A c \in Calls : Outcome(c) = "unsent"
      BY <2>1 DEF Outcome, Settled
    <2> QED
      BY <1>1, <2>2 DEF Init, Outcomes!Init
  <1>2. IInv /\ [Next]_vars => [Outcomes!Next]_(Outcomes!vars)
    BY StepMaps
  <1> QED
    BY <1>1, <1>2, Invariance, PTL DEF Spec, KeepsPromises, Outcomes!Spec

-----------------------------------------------------------------------------
(* Both ends and the network.                                              *)

\* The listening end goes on as by itself: a step of the link is one of its
\* own steps or leaves it alone.
LEMMA LinkStepMaps == [LinkNext]_linkVars => [Next]_vars
  <1> SUFFICES ASSUME [LinkNext]_linkVars PROVE [Next]_vars
    OBVIOUS
  <1> USE DEF proxyVars, vars
  <1>1. CASE UNCHANGED linkVars
    BY <1>1 DEF linkVars
  <1>2. CASE ExtensionStops \/ ServerUser
    BY <1>2 DEF ExtensionStops, ServerUser, Next, User, Loop
  <1>3. ASSUME NEW k \in Slots,
               \/ ExtensionStarts(k) \/ ExtensionReconnects(k)
               \/ ExtensionOpens(k) \/ DialFails(k) \/ ExtensionLearns(k)
               \/ ExtensionCloses(k) \/ ExtensionFaults(k)
        PROVE  [Next]_vars
    BY <1>3 DEF ExtensionStarts, ExtensionReconnects, InSlot, ExtensionOpens, DialFails,
                ExtensionLearns, ExtensionCloses, ExtensionFaults
  <1>4. ASSUME NEW k \in Slots,
               \/ ServerAccepts(k) \/ ServerGreeted(k) \/ ServerLearns(k)
               \/ ServerCloseEvent(k) \/ ServerFaults(k)
        PROVE  [Next]_vars
    BY <1>4 DEF ServerAccepts, ServerGreeted, ServerLearns, ServerCloseEvent, ServerFaults,
                Next, Loop, Peer
  <1> QED
    BY <1>1, <1>2, <1>3, <1>4 DEF LinkNext

\* The link implements its listening end: everything proved about
\* ReverseWSUpstreamTransport with a free environment holds with this extension.
THEOREM LinkImplementsUpstream == LinkSpec => Spec
  <1>1. LinkInit => Init
    BY DEF LinkInit
  <1> QED
    BY <1>1, LinkStepMaps, PTL DEF LinkSpec, Spec

-----------------------------------------------------------------------------
(* The extension's end.                                                    *)

\* While the extension is started, its timer runs or a socket's end starts it.
KeepsTrying ==
    ext_started => ext_timer \/ \E k \in Slots : ext_ready[k] \notin Extension!Free

ExtensionInv ==
    /\ Extension!TypeOK
    /\ LiveSocketIsActive
    /\ KeepsTrying

\* The extension's end starts with nothing open and nothing to do.
LEMMA ExtensionInvInit == Extension!Init => ExtensionInv
  <1> SUFFICES ASSUME Extension!Init PROVE ExtensionInv
    OBVIOUS
  <1>1. Extension!TypeOK
    <2>1. ext_started \in BOOLEAN /\ ext_timer \in BOOLEAN
      BY DEF Extension!Init
    <2>2. ext_socket \in 0..MaxSlots /\ ext_ready \in [Slots -> Extension!ReadyStates]
      BY DEF Extension!Init, Extension!Slots, Extension!ReadyStates
    <2> QED
      BY <2>1, <2>2 DEF Extension!TypeOK, Extension!Slots
  <1>2. LiveSocketIsActive
    BY DEF Extension!Init, LiveSocketIsActive, Extension!LiveSocketIsActive, Extension!Slots
  <1>3. KeepsTrying
    BY DEF Extension!Init, KeepsTrying
  <1> QED
    BY <1>1, <1>2, <1>3 DEF ExtensionInv

\* Every handler of the extension keeps it, whoever calls it and when.
LEMMA ExtensionInvStep ==
    ASSUME ExtensionInv,
           \/ Extension!Stop
           \/ \E k \in Slots :
                 \/ Extension!Start(k) \/ Extension!ReconnectTimer(k)
                 \/ Extension!OpenEvent(k) \/ Extension!ErrorEvent(k) \/ Extension!CloseEvent(k)
                 \/ Extension!ServerCloses(k)
    PROVE  ExtensionInv'
  <1>0. /\ ext_ready \in [Slots -> Extension!ReadyStates]
        /\ ext_socket \in 0..MaxSlots
        /\ ext_started \in BOOLEAN /\ ext_timer \in BOOLEAN
        /\ \A l \in Slots : ext_ready[l] \in {"connecting", "open"} => ext_socket = l
        /\ KeepsTrying
    BY DEF ExtensionInv, Extension!TypeOK, LiveSocketIsActive, Extension!LiveSocketIsActive,
           Extension!Slots
  <1> USE DEF Extension!Slots, Extension!ReadyStates, Extension!Free
  <1>1. ASSUME NEW k \in Slots, Extension!Start(k)
       PROVE  ExtensionInv'
    <2>1. Extension!TypeOK'
      BY <1>0, <1>1 DEF Extension!Start, Extension!Connect, Extension!SocketLives, Extension!TypeOK
    <2>2. LiveSocketIsActive'
      BY <1>0, <1>1 DEF Extension!Start, Extension!Connect, Extension!SocketLives, LiveSocketIsActive,
                      Extension!LiveSocketIsActive
    <2>3. KeepsTrying'
      BY <1>0, <1>1 DEF Extension!Start, Extension!Connect, Extension!SocketLives, KeepsTrying
    <2> QED
      BY <2>1, <2>2, <2>3 DEF ExtensionInv
  <1>2. ASSUME NEW k \in Slots, Extension!ReconnectTimer(k)
       PROVE  ExtensionInv'
    <2>1. Extension!TypeOK'
      <3>1. ext_started' \in BOOLEAN /\ ext_timer' \in BOOLEAN
        BY <1>0, <1>2 DEF Extension!ReconnectTimer
      <3>2. ext_socket' \in 0..MaxSlots /\ ext_ready' \in [Slots -> Extension!ReadyStates]
        BY <1>0, <1>2 DEF Extension!ReconnectTimer, Extension!Connect, Extension!SocketLives
      <3> QED
        BY <3>1, <3>2 DEF Extension!TypeOK
    <2>2. LiveSocketIsActive'
      BY <1>0, <1>2 DEF Extension!ReconnectTimer, Extension!Connect, Extension!SocketLives, LiveSocketIsActive,
                      Extension!LiveSocketIsActive
    <2>3. KeepsTrying'
      BY <1>0, <1>2 DEF Extension!ReconnectTimer, Extension!Connect, Extension!SocketLives, KeepsTrying
    <2> QED
      BY <2>1, <2>2, <2>3 DEF ExtensionInv
  <1>3. CASE Extension!Stop
    <2>1. Extension!TypeOK'
      <3>1. ext_started' \in BOOLEAN /\ ext_timer' \in BOOLEAN
        BY <1>0, <1>3 DEF Extension!Stop
      <3>2. ext_socket' \in 0..MaxSlots /\ ext_ready' \in [Slots -> Extension!ReadyStates]
        BY <1>0, <1>3 DEF Extension!Stop, Extension!SocketLives
      <3> QED
        BY <3>1, <3>2 DEF Extension!TypeOK
    <2>2. LiveSocketIsActive'
      BY <1>0, <1>3 DEF Extension!Stop, Extension!SocketLives, LiveSocketIsActive,
                      Extension!LiveSocketIsActive
    <2>3. KeepsTrying'
      BY <1>0, <1>3 DEF Extension!Stop, Extension!SocketLives, KeepsTrying
    <2> QED
      BY <2>1, <2>2, <2>3 DEF ExtensionInv
  <1>4. ASSUME NEW k \in Slots, Extension!OpenEvent(k)
       PROVE  ExtensionInv'
    <2>1. Extension!TypeOK'
      BY <1>0, <1>4 DEF Extension!OpenEvent, Extension!TypeOK
    <2>2. LiveSocketIsActive'
      BY <1>0, <1>4 DEF Extension!OpenEvent, LiveSocketIsActive,
                      Extension!LiveSocketIsActive
    <2>3. KeepsTrying'
      BY <1>0, <1>4 DEF Extension!OpenEvent, KeepsTrying
    <2> QED
      BY <2>1, <2>2, <2>3 DEF ExtensionInv
  <1>5. ASSUME NEW k \in Slots, Extension!ErrorEvent(k)
       PROVE  ExtensionInv'
    <2>1. Extension!TypeOK'
      BY <1>0, <1>5 DEF Extension!ErrorEvent, Extension!SocketGone, Extension!TypeOK
    <2>2. LiveSocketIsActive'
      BY <1>0, <1>5 DEF Extension!ErrorEvent, Extension!SocketGone, LiveSocketIsActive,
                      Extension!LiveSocketIsActive
    <2>3. KeepsTrying'
      BY <1>0, <1>5 DEF Extension!ErrorEvent, Extension!SocketGone, KeepsTrying
    <2> QED
      BY <2>1, <2>2, <2>3 DEF ExtensionInv
  <1>6. ASSUME NEW k \in Slots, Extension!CloseEvent(k)
       PROVE  ExtensionInv'
    <2>1. Extension!TypeOK'
      BY <1>0, <1>6 DEF Extension!CloseEvent, Extension!SocketGone, Extension!TypeOK
    <2>2. LiveSocketIsActive'
      BY <1>0, <1>6 DEF Extension!CloseEvent, Extension!SocketGone, LiveSocketIsActive,
                      Extension!LiveSocketIsActive
    <2>3. KeepsTrying'
      BY <1>0, <1>6 DEF Extension!CloseEvent, Extension!SocketGone, KeepsTrying
    <2> QED
      BY <2>1, <2>2, <2>3 DEF ExtensionInv
  <1>7. ASSUME NEW k \in Slots, Extension!ServerCloses(k)
       PROVE  ExtensionInv'
    <2>1. Extension!TypeOK'
      BY <1>0, <1>7 DEF Extension!ServerCloses, Extension!TypeOK
    <2>2. LiveSocketIsActive'
      BY <1>0, <1>7 DEF Extension!ServerCloses, LiveSocketIsActive,
                      Extension!LiveSocketIsActive
    <2>3. KeepsTrying'
      BY <1>0, <1>7 DEF Extension!ServerCloses, KeepsTrying
    <2> QED
      BY <2>1, <2>2, <2>3 DEF ExtensionInv
  <1> QED
    BY <1>1, <1>2, <1>3, <1>4, <1>5, <1>6, <1>7

\* A step of the link is a step of one end's handlers, or of the network alone.
LEMMA ExtensionStep == ExtensionInv /\ [LinkNext]_linkVars => ExtensionInv'
  <1> SUFFICES ASSUME ExtensionInv, [LinkNext]_linkVars PROVE ExtensionInv'
    OBVIOUS
  <1>1. CASE UNCHANGED extVars
    BY <1>1 DEF extVars, ExtensionInv, Extension!TypeOK, LiveSocketIsActive,
                Extension!LiveSocketIsActive, KeepsTrying
  <1>2. CASE UNCHANGED linkVars \/ ServerUser
    <2>1. UNCHANGED extVars
      BY <1>2 DEF linkVars, ServerUser
    <2> QED
      BY <1>1, <2>1
  <1>3. ASSUME NEW k \in Slots,
               \/ ServerAccepts(k) \/ ServerGreeted(k) \/ ServerLearns(k)
               \/ ServerCloseEvent(k) \/ ServerFaults(k)
        PROVE  ExtensionInv'
    <2>1. UNCHANGED extVars
      BY <1>3 DEF ServerAccepts, ServerGreeted, ServerLearns, ServerCloseEvent, ServerFaults
    <2> QED
      BY <1>1, <2>1
  <1>4. CASE ExtensionStops
    <2>1. Extension!Stop
      BY <1>4 DEF ExtensionStops
    <2> QED
      BY <2>1, ExtensionInvStep
  <1>5. ASSUME NEW k \in Slots,
               \/ ExtensionStarts(k) \/ ExtensionReconnects(k)
               \/ ExtensionOpens(k) \/ DialFails(k) \/ ExtensionLearns(k)
               \/ ExtensionCloses(k) \/ ExtensionFaults(k)
        PROVE  ExtensionInv'
    <2>1. \/ Extension!Start(k) \/ Extension!ReconnectTimer(k)
          \/ Extension!OpenEvent(k) \/ Extension!ErrorEvent(k) \/ Extension!CloseEvent(k)
          \/ Extension!ServerCloses(k)
      BY <1>5 DEF ExtensionStarts, ExtensionReconnects, ExtensionOpens, DialFails,
                  ExtensionLearns, ExtensionCloses, ExtensionFaults
    <2> QED
      BY <2>1, ExtensionInvStep
  <1> QED
    BY <1>2, <1>3, <1>4, <1>5 DEF LinkNext

-----------------------------------------------------------------------------
(* What the two ends know of each other.                                   *)

\* A connection goes through its stages in order at both ends: dialled,
\* accepted, open and its hello sent, greeted.
StagesInOrder ==
    /\ hello_sent \subseteq accepted
    /\ accepted \subseteq Slots
    /\ \A k \in Slots :
          /\ k \in accepted => ext_ready[k] # "none"
          /\ ready[k] \in {"none", "closed"} \/ k \in accepted
          /\ k \in accepted => ready[k] # "none"
          /\ ext_ready[k] = "open" => k \in hello_sent
          /\ k \in hello_sent => ext_ready[k] # "connecting"
          /\ greeted[k] # "refused"
          /\ greeted[k] = "accepted" /\ ready[k] \notin {"none", "closed"} => k \in hello_sent

LinkInv ==
    /\ IInv
    /\ ExtensionInv
    /\ StagesInOrder

\* Dialling in an unused slot starts its stages anew; until then the extension
\* does not touch them.
LEMMA InSlotStages ==
    ASSUME LinkInv, NEW k \in Slots, InSlot(k),
           Extension!Connect(k)
    PROVE  StagesInOrder'
  <1>1. /\ ext_ready \in [Slots -> Extension!ReadyStates]
        /\ UNCHANGED <<ready, greeted>>
        /\ accepted' = IF Dials(k) THEN accepted \ {k} ELSE accepted
        /\ hello_sent' = IF Dials(k) THEN hello_sent \ {k} ELSE hello_sent
        /\ Dials(k) => Unused(k)
    BY DEF InSlot, LinkInv, ExtensionInv, Extension!TypeOK, Extension!Slots, proxyVars, peerVars
  <1>2. CASE UNCHANGED ext_ready
    <2>1. ~Dials(k)
      BY <1>2 DEF Dials
    <2> QED
      BY <1>1, <1>2, <2>1 DEF LinkInv, StagesInOrder
  <1>3. CASE ext_ready[k] \in Extension!Free /\ ext_ready' = [ext_ready EXCEPT ![k] = "connecting"]
    <2>1. Dials(k)
      BY <1>1, <1>3 DEF Dials, Extension!Free
    <2>2. ready[k] \in {"none", "closed"}
      BY <1>1, <2>1 DEF Unused
    <2> QED
      BY <1>1, <1>3, <2>1, <2>2 DEF LinkInv, StagesInOrder
  <1> QED
    BY <1>2, <1>3 DEF Extension!Connect

\* Every step of the link keeps the stages in order.
LEMMA StagesStep == LinkInv /\ [LinkNext]_linkVars => StagesInOrder'
  <1> SUFFICES ASSUME LinkInv, [LinkNext]_linkVars PROVE StagesInOrder'
    OBVIOUS
  <1>0. /\ ext_ready \in [Slots -> Extension!ReadyStates]
        /\ ext_socket \in 0..MaxSlots
        /\ ready \in [Slots -> ReadyStates]
        /\ greeted \in [Slots -> {"awaited", "accepted", "refused"}]
        /\ StagesInOrder
    BY DEF LinkInv, IInv, PeerTypeOK, ExtensionInv, Extension!TypeOK, Extension!Slots
  <1> USE DEF Extension!ReadyStates
  <1>1. CASE UNCHANGED linkVars
    BY <1>0, <1>1 DEF linkVars, proxyVars, peerVars, extVars, netVars, StagesInOrder
  <1>2. CASE ExtensionStops
    BY <1>0, <1>2 DEF ExtensionStops, Extension!Stop, Extension!SocketLives, proxyVars, peerVars,
                      netVars, StagesInOrder, Extension!Slots
  <1>3. CASE ServerUser
    <2>1. CASE Connect
      BY <1>0, <1>3, <2>1 DEF ServerUser, Connect, extVars, netVars, StagesInOrder
    <2>2. CASE Close
      BY <1>0, <1>3, <2>2 DEF ServerUser, Close, extVars, netVars, StagesInOrder
    <2>3. CASE ListenerClosed
      BY <1>0, <1>3, <2>3 DEF ServerUser, ListenerClosed, extVars, netVars, StagesInOrder
    <2> QED
      BY <1>3, <2>1, <2>2, <2>3 DEF ServerUser
  <1>4. ASSUME NEW k \in Slots, ExtensionStarts(k) \/ ExtensionReconnects(k)
        PROVE  StagesInOrder'
    BY <1>4, InSlotStages DEF ExtensionStarts, ExtensionReconnects, Extension!Start,
                              Extension!ReconnectTimer
  <1>5. ASSUME NEW k \in Slots, ExtensionOpens(k)
        PROVE  StagesInOrder'
    BY <1>0, <1>5 DEF ExtensionOpens, Extension!OpenEvent, proxyVars, peerVars, StagesInOrder
  <1>6. ASSUME NEW k \in Slots, DialFails(k) \/ ExtensionFaults(k)
        PROVE  StagesInOrder'
    BY <1>0, <1>6 DEF DialFails, ExtensionFaults, Extension!ErrorEvent, proxyVars, peerVars, netVars,
                      StagesInOrder
  <1>7. ASSUME NEW k \in Slots, ExtensionLearns(k)
        PROVE  StagesInOrder'
    BY <1>0, <1>7 DEF ExtensionLearns, Extension!ServerCloses, proxyVars, peerVars, netVars,
                      StagesInOrder
  <1>8. ASSUME NEW k \in Slots, ExtensionCloses(k)
        PROVE  StagesInOrder'
    BY <1>0, <1>8 DEF ExtensionCloses, Extension!CloseEvent, proxyVars, peerVars, netVars,
                      StagesInOrder
  <1>9. ASSUME NEW k \in Slots, ServerAccepts(k)
        PROVE  StagesInOrder'
    BY <1>0, <1>9 DEF ServerAccepts, Accept, extVars, StagesInOrder
  <1>10. ASSUME NEW k \in Slots, ServerGreeted(k)
         PROVE  StagesInOrder'
    BY <1>0, <1>10 DEF ServerGreeted, AcceptHello, extVars, netVars, StagesInOrder
  <1>11. ASSUME NEW k \in Slots, ServerLearns(k)
         PROVE  StagesInOrder'
    BY <1>0, <1>11 DEF ServerLearns, PeerLeaves, extVars, netVars, StagesInOrder
  <1>12. ASSUME NEW k \in Slots, ServerCloseEvent(k)
         PROVE  StagesInOrder'
    BY <1>0, <1>12 DEF ServerCloseEvent, CloseEvent, extVars, netVars, StagesInOrder
  <1>13. ASSUME NEW k \in Slots, ServerFaults(k)
         PROVE  StagesInOrder'
    <2>1. CASE ErrorEvent(k)
      BY <1>0, <1>13, <2>1 DEF ServerFaults, ErrorEvent, extVars, StagesInOrder
    <2>2. CASE HelloTimeout(k)
      BY <1>0, <1>13, <2>2 DEF ServerFaults, HelloTimeout, extVars, StagesInOrder
    <2>3. CASE PeerLeaves(k)
      BY <1>0, <1>13, <2>3 DEF ServerFaults, PeerLeaves, extVars, StagesInOrder
    <2> QED
      BY <1>13, <2>1, <2>2, <2>3 DEF ServerFaults
  <1> QED
    BY <1>1, <1>2, <1>3, <1>4, <1>5, <1>6, <1>7, <1>8, <1>9, <1>10, <1>11, <1>12, <1>13
       DEF LinkNext

\* LinkInv holds in every reachable state.
THEOREM LinkInvariance == LinkSpec => []LinkInv
  <1>1. LinkInit => LinkInv
    <2> SUFFICES ASSUME LinkInit PROVE LinkInv
      OBVIOUS
    <2>1. IInv /\ ExtensionInv
      BY InitIInv, ExtensionInvInit DEF LinkInit
    <2>2. StagesInOrder
      BY DEF LinkInit, Init, Extension!Init, StagesInOrder, Extension!Slots
    <2> QED
      BY <2>1, <2>2 DEF LinkInv
  <1>2. LinkInv /\ [LinkNext]_linkVars => LinkInv'
    BY LinkStepMaps, IInvStep, ExtensionStep, StagesStep DEF LinkInv
  <1> QED
    BY <1>1, <1>2, PTL DEF LinkSpec

\* connect() opens a WebSocket only if none is open or connecting: the
\* extension's live socket is always the one it sends on.
THEOREM OneLiveSocket == LinkSpec => []LiveSocketIsActive
  <1>1. LinkInv => LiveSocketIsActive
    BY DEF LinkInv, ExtensionInv
  <1> QED
    BY <1>1, LinkInvariance, PTL

\* scheduleReconnect() is never forgotten: an extension that is started has its
\* timer running or a socket whose end will start it.
THEOREM ExtensionKeepsTrying == LinkSpec => []KeepsTrying
  <1>1. LinkInv => KeepsTrying
    BY DEF LinkInv, ExtensionInv
  <1> QED
    BY <1>1, LinkInvariance, PTL

\* The two ends use the same connection: of the connections open at both, the
\* extension's is the only one, and the process has it or will at its hello.
THEOREM EndsUseOneConnection == LinkSpec => []EndsAgree
  <1>1. LinkInv => EndsAgree
    <2> SUFFICES ASSUME LinkInv, NEW k \in Slots, ext_ready[k] = "open", ready[k] = "open"
                 PROVE  ext_socket = k /\ (socket = k \/ greeted[k] = "awaited")
      BY DEF EndsAgree
    <2>1. ext_socket = k
      BY DEF LinkInv, ExtensionInv, LiveSocketIsActive, Extension!LiveSocketIsActive, Extension!Slots
    <2>2. greeted[k] \in {"awaited", "accepted"}
      BY DEF LinkInv, StagesInOrder, IInv, PeerTypeOK
    <2>3. greeted[k] = "accepted" => socket = k
      BY DEF LinkInv, IInv, PeerInv
    <2> QED
      BY <2>1, <2>2, <2>3
  <1> QED
    BY <1>1, LinkInvariance, PTL
=============================================================================
