----------------------- MODULE UpstreamTransport_proofs -----------------------
(***************************************************************************)
(* Lemmas about the handlers of UpstreamTransport, one per handler and     *)
(* independent of the transport that calls them: each keeps the types, and *)
(* each keeps the agreement of the pending map with the calls.             *)
(***************************************************************************)
EXTENDS UpstreamTransport, TLAPS

RequestInv == RequestTypeOK /\ PendingMatchesCalls /\ IdsAreFresh

USE UpstreamAssumption DEF RequestTypeOK, Ids, Phases, Settled

\* The initial maps agree.
LEMMA RequestInitInv == RequestInit => RequestInv
  BY DEF RequestInit, RequestInv, PendingMatchesCalls, IdsAreFresh

\* Registering a call whose raw send succeeds keeps the agreement: the id is new.
LEMMA RegisterCallInv ==
    ASSUME NEW c \in Calls, RequestInv, RegisterCall(c), phase[c] \in {"idle", "connected"}
    PROVE  RequestInv'
  <1> USE DEF RequestInv, RegisterCall, TakeId
  <1>1. RequestTypeOK'
    OBVIOUS
  <1>2. \A d \in Calls : id_of'[d] = IF d = c THEN next_id ELSE id_of[d]
    OBVIOUS
  <1>3. \A i \in Ids : pending'[i] = IF i = next_id THEN c ELSE pending[i]
    OBVIOUS
  <1>4. \A d \in Calls : phase'[d] = IF d = c THEN "pending" ELSE phase[d]
    OBVIOUS
  <1>5. PendingMatchesCalls'
    BY <1>1, <1>2, <1>3, <1>4 DEF PendingMatchesCalls, IdsAreFresh
  <1>6. IdsAreFresh'
    BY <1>2, <1>4 DEF IdsAreFresh
  <1> QED
    BY <1>1, <1>5, <1>6

\* So does one whose raw send throws: the id is used up, the entry is gone.
LEMMA RegisterFailsInv ==
    ASSUME NEW c \in Calls, RequestInv, RegisterFails(c), phase[c] \in {"idle", "connected"}
    PROVE  RequestInv'
  <1> USE DEF RequestInv, RegisterFails, TakeId
  <1>1. RequestTypeOK'
    OBVIOUS
  <1>2. \A d \in Calls : id_of'[d] = IF d = c THEN next_id ELSE id_of[d]
    OBVIOUS
  <1>3. \A d \in Calls : phase'[d] = IF d = c THEN "rejected" ELSE phase[d]
    OBVIOUS
  <1>4. PendingMatchesCalls'
    BY <1>1, <1>2, <1>3 DEF PendingMatchesCalls, IdsAreFresh
  <1>5. IdsAreFresh'
    BY <1>2, <1>3 DEF IdsAreFresh
  <1> QED
    BY <1>1, <1>4, <1>5

\* The timer of a call rejects that call only.
LEMMA TimerFiresInv ==
    ASSUME NEW c \in Calls, RequestInv, TimerFires(c)
    PROVE  /\ RequestInv'
           /\ phase[c] = "pending"
  <1> USE DEF RequestInv, TimerFires
  <1>1. RequestTypeOK'
    OBVIOUS
  <1>2. pending[id_of[c]] = c /\ phase[c] = "pending"
    BY DEF PendingMatchesCalls, IdsAreFresh
  <1>3. PendingMatchesCalls'
    BY <1>1, <1>2 DEF PendingMatchesCalls, IdsAreFresh
  <1>4. IdsAreFresh'
    BY <1>2 DEF IdsAreFresh
  <1> QED
    BY <1>1, <1>2, <1>3, <1>4

\* An answer settles at most the call that was sent under its id.
LEMMA AcceptResponseInv ==
    ASSUME NEW id \in Ids, NEW kind, RequestInv, AcceptResponse(id, kind)
    PROVE  /\ RequestInv'
           /\ pending[id] # NoCall =>
                 /\ id_of[pending[id]] = id
                 /\ phase[pending[id]] = "pending"
  <1> USE DEF RequestInv, AcceptResponse
  <1>1. CASE pending[id] = NoCall
    <2>1. UNCHANGED <<next_id, pending, id_of, phase>>
      BY <1>1
    <2> QED
      BY <1>1, <2>1 DEF PendingMatchesCalls, IdsAreFresh
  <1>2. CASE pending[id] # NoCall
    <2> DEFINE d == pending[id]
    <2>1. d \in Calls /\ id_of[d] = id /\ phase[d] = "pending"
      BY <1>2 DEF PendingMatchesCalls
    <2>2. /\ pending' = [pending EXCEPT ![id] = NoCall]
          /\ \A c \in Calls : c # d => phase'[c] = phase[c]
          /\ phase'[d] \in Settled
          /\ phase' \in [Calls -> Phases]
      BY <1>2, <2>1
    <2>3. PendingMatchesCalls'
      BY <1>2, <2>1, <2>2 DEF PendingMatchesCalls, IdsAreFresh
    <2>4. IdsAreFresh'
      BY <2>1, <2>2 DEF IdsAreFresh
    <2> QED
      BY <2>1, <2>2, <2>3, <2>4
  <1> QED
    BY <1>1, <1>2

\* emitClose leaves nobody pending, whatever other calls the event rejects.
LEMMA EmitCloseInv ==
    ASSUME NEW others \in SUBSET Calls, RequestInv, EmitClose(others),
           \A c \in others : phase[c] = "connecting"
    PROVE  /\ RequestInv'
           /\ \A c \in Calls : phase'[c] # "pending"
           /\ \A c \in Calls : phase'[c] = phase[c]
                            \/ (phase'[c] = "rejected" /\ phase[c] \in {"pending", "connecting"})
  <1> USE DEF RequestInv, EmitClose
  <1>1. \A c \in Calls : c \in PendingCalls <=> phase[c] = "pending"
    BY DEF PendingCalls, PendingMatchesCalls
  <1>2. RequestTypeOK'
    OBVIOUS
  <1>3. PendingMatchesCalls'
    BY <1>1, <1>2 DEF PendingMatchesCalls
  <1>4. \A c \in Calls : phase'[c] = phase[c]
                       \/ (phase'[c] = "rejected" /\ phase[c] \in {"pending", "connecting"})
    BY <1>1
  <1>5. IdsAreFresh'
    BY <1>4 DEF IdsAreFresh
  <1> QED
    BY <1>1, <1>2, <1>3, <1>4, <1>5

\* A step that touches none of the maps keeps the agreement.
LEMMA RequestStutterInv ==
    ASSUME RequestInv, UNCHANGED requestVars
    PROVE  RequestInv'
  <1>1. UNCHANGED <<next_id, pending, id_of, phase>>
    BY DEF requestVars
  <1>2. RequestTypeOK'
    BY <1>1 DEF RequestInv
  <1>3. IdsAreFresh'
    BY <1>1 DEF RequestInv, IdsAreFresh
  <1>4. PendingMatchesCalls'
    <2>1. PendingMatchesCalls
      BY DEF RequestInv
    <2> QED
      BY <1>1, <2>1, Zenon DEF PendingMatchesCalls
  <1> QED
    BY <1>2, <1>3, <1>4 DEF RequestInv

\* So does a step that only moves calls that have no id yet.
LEMMA ConnectMovesInv ==
    ASSUME RequestInv,
           UNCHANGED <<next_id, pending, id_of>>,
           phase' \in [Calls -> Phases],
           \A c \in Calls : \/ phase'[c] = phase[c]
                            \/ /\ phase[c] \in {"idle", "connecting"}
                               /\ phase'[c] \in {"connecting", "connected", "rejected"}
    PROVE  RequestInv'
  <1>1. RequestTypeOK'
    BY DEF RequestInv
  <1>2. PendingMatchesCalls'
    <2>1. RequestTypeOK /\ PendingMatchesCalls /\ IdsAreFresh
      BY DEF RequestInv
    <2>2. \A c \in Calls : phase[c] = "pending" <=> phase'[c] = "pending"
      OBVIOUS
    <2> QED
      BY <2>1, <2>2 DEF PendingMatchesCalls
  <1>3. IdsAreFresh'
    BY DEF RequestInv, IdsAreFresh
  <1> QED
    BY <1>1, <1>2, <1>3 DEF RequestInv
=============================================================================
