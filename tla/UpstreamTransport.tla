-------------------------- MODULE UpstreamTransport --------------------------
(***************************************************************************)
(* The request multiplexer every upstream transport inherits: ids handed   *)
(* out from next_id, the `pending' map from ids to the promises waiting    *)
(* for them, one timer per entry, and the three ways an entry leaves the   *)
(* map (its answer, its timer, emitClose).  The module defines the state   *)
(* and the handlers; a transport module says when its raw channel calls    *)
(* them.                                                                   *)
(***************************************************************************)
EXTENDS Naturals

CONSTANTS
    Calls,      \* the calls of send(method, ...), one element per call
    NoCall,     \* "no entry" in the pending map
    Timed,      \* the calls made with a positive timeout_ms
    MaxId       \* bound: ids handed out

ASSUME UpstreamAssumption ==
    /\ NoCall \notin Calls
    /\ Timed \subseteq Calls
    /\ MaxId \in Nat

VARIABLES
    next_id,    \* UpstreamTransport.next_id
    pending,    \* UpstreamTransport.pending: the call waiting for each id
    id_of,      \* the id each call's command was sent under, 0 before
    phase       \* where each call of send() stands

requestVars == <<next_id, pending, id_of, phase>>

Ids == 1..MaxId

\* "connecting" and "connected" are used by transports whose send() first
\* awaits connect().
Phases == {"idle", "connecting", "connected", "pending", "resolved", "rejected"}
Settled == {"resolved", "rejected"}

RequestTypeOK ==
    /\ next_id \in 1..(MaxId + 1)
    /\ pending \in [Ids -> Calls \cup {NoCall}]
    /\ id_of \in [Calls -> 0..MaxId]
    /\ phase \in [Calls -> Phases]

\* Bug: ids handed out from 0.
RequestInit_fromZero ==
    /\ next_id = 0
    /\ pending = [i \in Ids |-> NoCall]
    /\ id_of = [c \in Calls |-> 0]
    /\ phase = [c \in Calls |-> "idle"]

RequestInit ==
    /\ next_id = 1
    /\ pending = [i \in Ids |-> NoCall]
    /\ id_of = [c \in Calls |-> 0]
    /\ phase = [c \in Calls |-> "idle"]

\* The promise executor of send(): `const id = this.next_id++', then the
\* entry is set and the raw send attempted.
TakeId(c) ==
    /\ next_id \in Ids
    /\ next_id' = next_id + 1
    /\ id_of' = [id_of EXCEPT ![c] = next_id]

RegisterCall(c) ==
    /\ TakeId(c)
    /\ pending' = [pending EXCEPT ![next_id] = c]
    /\ phase' = [phase EXCEPT ![c] = "pending"]

\* The raw send threw: the catch block has removed the entry again.
RegisterFails(c) ==
    /\ TakeId(c)
    /\ phase' = [phase EXCEPT ![c] = "rejected"]
    /\ UNCHANGED pending

\* The timer of call c: it rejects only if it could delete the entry.
TimerFires(c) ==
    /\ c \in Timed
    /\ id_of[c] \in Ids
    /\ pending[id_of[c]] # NoCall
    /\ pending' = [pending EXCEPT ![id_of[c]] = NoCall]
    /\ phase' = [phase EXCEPT ![c] = "rejected"]
    /\ UNCHANGED <<next_id, id_of>>

\* Bug: the answered entry stays in the map.
AcceptResponse_keepsEntry(id, kind) ==
    /\ \/ pending[id] = NoCall /\ UNCHANGED phase
       \/ /\ pending[id] # NoCall
          /\ phase' = [phase EXCEPT ![pending[id]] =
                          IF kind = "error" THEN "rejected" ELSE "resolved"]
    /\ UNCHANGED <<next_id, pending, id_of>>

\* parseAndEmitRecv on a message that carries an id.  The answer to an id
\* nobody waits for is dropped.
AcceptResponse(id, kind) ==
    /\ \/ /\ pending[id] = NoCall
          /\ UNCHANGED <<pending, phase>>
       \/ /\ pending[id] # NoCall
          /\ pending' = [pending EXCEPT ![id] = NoCall]
          /\ phase' = [phase EXCEPT ![pending[id]] =
                          IF kind = "error" THEN "rejected" ELSE "resolved"]
    /\ UNCHANGED <<next_id, id_of>>

PendingCalls == {c \in Calls : \E i \in Ids : pending[i] = c}

\* Bug: a closed connection starts the ids over.
EmitClose_resetsIds(others) ==
    /\ pending' = [i \in Ids |-> NoCall]
    /\ phase' = [c \in Calls |->
                    IF c \in PendingCalls \cup others THEN "rejected" ELSE phase[c]]
    /\ next_id' = 1
    /\ UNCHANGED id_of

\* emitClose: every pending call is rejected and the map emptied.  `others'
\* are the calls the same socket event rejects by another path.
EmitClose(others) ==
    /\ pending' = [i \in Ids |-> NoCall]
    /\ phase' = [c \in Calls |->
                    IF c \in PendingCalls \cup others THEN "rejected" ELSE phase[c]]
    /\ UNCHANGED <<next_id, id_of>>

\* The map and the promises agree: an entry is the call that was sent under
\* its id and still waits, and every waiting call has its entry.
PendingMatchesCalls ==
    /\ \A i \in Ids : pending[i] # NoCall =>
           /\ id_of[pending[i]] = i
           /\ phase[pending[i]] = "pending"
    /\ \A c \in Calls : phase[c] = "pending" =>
           /\ id_of[c] \in Ids
           /\ pending[id_of[c]] = c

\* Ids are handed out once, and only to calls that have passed connect().
IdsAreFresh ==
    /\ \A c \in Calls : id_of[c] < next_id
    /\ \A c \in Calls : phase[c] \in {"idle", "connecting", "connected"} => id_of[c] = 0
    /\ \A c, d \in Calls : id_of[c] = id_of[d] /\ id_of[c] # 0 => c = d
=============================================================================
