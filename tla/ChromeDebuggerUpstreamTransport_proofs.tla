---------------- MODULE ChromeDebuggerUpstreamTransport_proofs ----------------
(***************************************************************************)
(* Proofs about ChromeDebuggerUpstreamTransport, for any number of calls   *)
(* and targets.  Every request and every answer on its way carries a       *)
(* promise (Sound, Truthful) about its target, stated so that it survives  *)
(* whatever the browser does meanwhile: the target still has the property  *)
(* the message speaks of, or it was lost since the call began.             *)
(***************************************************************************)
EXTENDS ChromeDebuggerUpstreamTransport, Naturals, TLAPS

USE ConstantsAssumption



Started(c) == phase[c] # "idle"

(* What a request of call c relies on.                                     *)
Sound(r) ==
  r.call \in Calls =>
    /\ Started(r.call)
    /\ r.to \in {"naming", "listing", "attaching"} =>
          r.target \in live \cup lostSince[r.call]
    /\ r.to = "naming" => r.target \in Pages
    /\ r.to \in {"enabling", "sending"} =>
          r.target \in ours \cup Foreign \cup lostSince[r.call]

(* What an answer to call c tells.                                         *)
Truthful(m) ==
  m.type = "answer" /\ m.call \in Calls =>
    /\ Started(m.call)
    /\ m.to = "choosing" => m.targets \subseteq live \cup lostSince[m.call]
    /\ m.to = "creating" => m.target \in Pages \cap (live \cup lostSince[m.call])
    /\ m.to = "naming" => m.target \in Pages
    /\ m.to \in {"naming", "listing"} =>
          /\ m.target \in m.targets \cup lostSince[m.call]
          /\ m.target \in live \cup lostSince[m.call]
    /\ m.to = "attaching" =>
          IF m.result = "error" THEN m.target \in lostSince[m.call]
          ELSE m.target \in ours \cup Foreign \cup lostSince[m.call]
    /\ m.to \in {"enabling", "sending"} =>
          IF m.result = "ok" THEN m.target \in ours \cup Foreign \cup lostSince[m.call]
          ELSE m.target \in Foreign \cup lostSince[m.call]

(* An answer that lets the worker add its target to attached_debuggees is  *)
(* followed by the detach event when the target was detached meanwhile.    *)
Confirms(m) == m.type = "answer" /\ m.to = "enabling" /\ m.result = "ok"

ConfirmedIsLive ==
  \A i \in DOMAIN queue :
     Confirms(queue[i]) =>
        \/ queue[i].target \in ours
        \/ \E j \in DOMAIN queue : j > i /\ queue[j] = Detached(queue[i].target)

(* Nothing of this worker is under way before the listeners are there.     *)
ListensFirst ==
  ~listening => /\ attached_debuggees = {}
                /\ resolved = {}
                /\ \A r \in request : r.call = NoCall
                /\ \A i \in DOMAIN queue : queue[i].type = "answer" => queue[i].call = NoCall

BrowserConsistent == ours \subseteq live /\ live \cap unborn = {}

MessagesKept ==
  /\ \A r \in request : Sound(r)
  /\ \A i \in DOMAIN queue : Truthful(queue[i])

DetachIsLoss ==
  \A t \in Targets : DetachQueued(t) => \A c \in Calls : Started(c) => t \in lostSince[c]

IInv ==
  /\ TypeOK
  /\ BrowserConsistent
  /\ ListensFirst
  /\ AttachedIsLive
  /\ ConfirmedIsLive
  /\ DetachIsLoss
  /\ MessagesKept
  /\ RejectedForCause

-----------------------------------------------------------------------------
(* Sequences and messages.                                                 *)

LEMMA TailFacts ==
  ASSUME NEW S, NEW q \in Seq(S), q # <<>>
  PROVE  /\ Tail(q) \in Seq(S)
         /\ 1 \in DOMAIN q /\ Head(q) = q[1] /\ Head(q) \in S
         /\ \A i \in DOMAIN Tail(q) : i \in Nat /\ i + 1 \in DOMAIN q /\ Tail(q)[i] = q[i + 1]
         /\ \A i \in DOMAIN q : i \in Nat /\ (i = 1 \/ (i - 1 \in DOMAIN Tail(q) /\ Tail(q)[i - 1] = q[i]))
  <1>1. /\ Tail(q) \in Seq(S) /\ Len(Tail(q)) = Len(q) - 1
        /\ DOMAIN Tail(q) = 1..Len(Tail(q)) /\ DOMAIN q = 1..Len(q) /\ Len(q) \in Nat /\ Len(q) >= 1
    OBVIOUS
  <1>2. \A i \in 1..Len(Tail(q)) : Tail(q)[i] = q[i + 1]
    OBVIOUS
  <1>3. Head(q) = q[1] /\ q[1] \in S
    BY <1>1
  <1> QED
    BY <1>1, <1>2, <1>3

LEMMA AppendFacts ==
  ASSUME NEW S, NEW q \in Seq(S), NEW m \in S
  PROVE  /\ Append(q, m) \in Seq(S)
         /\ DOMAIN q \subseteq DOMAIN Append(q, m)
         /\ \A i \in DOMAIN q : i \in Nat /\ Append(q, m)[i] = q[i] /\ Len(q) + 1 > i
         /\ Len(q) + 1 \in DOMAIN Append(q, m) /\ Append(q, m)[Len(q) + 1] = m
         /\ \A i \in DOMAIN Append(q, m) : i \in DOMAIN q \/ i = Len(q) + 1
  OBVIOUS

LEMMA MapFacts ==
  ASSUME NEW S, NEW q \in Seq(S), NEW f \in [DOMAIN q -> S]
  PROVE  f \in Seq(S) /\ DOMAIN f = DOMAIN q
  <1>1. DOMAIN q = 1..Len(q) /\ Len(q) \in Nat
    OBVIOUS
  <1> QED
    BY <1>1

LEMMA MessageFields ==
  /\ \A r \in Requests : /\ r.call \in Calls \cup {NoCall} /\ r.to \in Awaits
                         /\ r.target \in Targets \cup {NoTarget}
                         /\ Orphan(r) \in Requests
                         /\ Orphan(r).call = NoCall
  /\ \A m \in Messages :
       \/ /\ m.type = "answer" /\ m.call \in Calls \cup {NoCall} /\ m.to \in Awaits
          /\ m.target \in Targets \cup {NoTarget} /\ m.result \in Results
          /\ m.targets \subseteq Targets
          /\ Orphan(m) \in Messages
          /\ Orphan(m).type = "answer" /\ Orphan(m).call = NoCall
          /\ Orphan(m).to = m.to /\ Orphan(m).target = m.target /\ Orphan(m).result = m.result
       \/ m.type = "detached" /\ m.target \in Targets /\ m = Detached(m.target)
  BY DEF Requests, Messages, Answers, Detaches, Orphan, Detached

-----------------------------------------------------------------------------
(* Waiting and settling.                                                   *)

LEMMA AwaitFacts ==
  ASSUME TypeOK, NEW c \in Calls, NEW to \in Awaits, NEW t \in Targets \cup {NoTarget},
         Await(c, to, t)
  PROVE  /\ phase' \in [Calls -> Phases] /\ target' \in [Calls -> Targets \cup {NoTarget}]
         /\ request' \subseteq Requests
         /\ phase'[c] = to /\ \A d \in Calls \ {c} : phase'[d] = phase[d] /\ target'[d] = target[d]
         /\ \A r \in request' : r \in request \/ (r.call = c /\ r.to = to /\ r.target = t)
         /\ \A d \in Calls : Started(d)' <=> (Started(d) \/ d = c)
  <1>1. [call |-> c, to |-> to, target |-> t] \in Requests
    BY DEF Requests
  <1>2. to # "idle" /\ to \in Phases
    BY DEF Awaits, Phases
  <1> QED
    BY <1>1, <1>2 DEF Await, TypeOK, Started

LEMMA SettleFacts ==
  ASSUME TypeOK, NEW c \in Calls, NEW how \in {"done", "failed"}, NEW t \in Targets \cup {NoTarget},
         Settle(c, how, t)
  PROVE  /\ phase' \in [Calls -> Phases] /\ target' \in [Calls -> Targets \cup {NoTarget}]
         /\ request' = request
         /\ phase'[c] = how /\ target'[c] = t
         /\ \A d \in Calls \ {c} : phase'[d] = phase[d] /\ target'[d] = target[d]
         /\ Started(c)' /\ \A d \in Calls \ {c} : Started(d)' <=> Started(d)
  BY DEF Settle, TypeOK, Started, Phases

-----------------------------------------------------------------------------
(* What the start of a call and the handling of an answer have in common,  *)
(* and why each keeps the invariant.                                       *)

NewRequestsSound ==
  \A r \in request' : r \in request \/ (r.call \in Calls /\ Sound(r)')

Begun(c) ==
  /\ phase[c] = "idle"
  /\ \A d \in Calls : Started(d)' <=> (Started(d) \/ d = c)
  /\ lostSince' = [lostSince EXCEPT ![c] = Closed \cup {t \in Targets : DetachQueued(t)}]
  /\ UNCHANGED <<attached_debuggees, queue, browserVars>>
  /\ NewRequestsSound
  /\ listening'
  /\ \A d \in Calls : phase'[d] = "failed" =>
        d # c /\ phase[d] = "failed" /\ target'[d] = target[d]

Handled(m) ==
  /\ \A d \in Calls : Started(d)' <=> Started(d)
  /\ queue' = Tail(queue)
  /\ UNCHANGED <<browserVars, lostSince>>
  /\ NewRequestsSound
  /\ attached_debuggees' \subseteq attached_debuggees \cup {t \in {m.target} : Confirms(m)}
  /\ listening'
  /\ RejectedForCause'

(* The promises of messages under way survive.                             *)
LEMMA PromisesKept ==
  ASSUME TypeOK,
         \A c \in Calls : Started(c) =>
            /\ Started(c)'
            /\ lostSince[c] \subseteq lostSince'[c]
            /\ live \subseteq live' \cup lostSince'[c]
            /\ ours \subseteq ours' \cup lostSince'[c]
  PROVE  /\ \A r : Sound(r) => Sound(r)'
         /\ \A m : Truthful(m) => Truthful(m)'
  <1>1. ASSUME NEW r, Sound(r), r.call \in Calls
        PROVE  Sound(r)'
    BY <1>1 DEF Sound
  <1>2. \A r : Sound(r) => Sound(r)'
    BY <1>1 DEF Sound
  <1>3. ASSUME NEW m, Truthful(m), m.type = "answer", m.call \in Calls
        PROVE  Truthful(m)'
    <2> DEFINE c == m.call
    <2>1. /\ Started(c) /\ Started(c)' /\ lostSince[c] \subseteq lostSince'[c]
          /\ live \cup lostSince[c] \subseteq live' \cup lostSince'[c]
          /\ ours \cup Foreign \cup lostSince[c] \subseteq ours' \cup Foreign \cup lostSince'[c]
      BY <1>3 DEF Truthful
    <2>2. m.to = "choosing" => m.targets \subseteq live' \cup lostSince'[c]
      BY <1>3, <2>1 DEF Truthful
    <2>3. /\ m.to = "creating" => m.target \in Pages \cap (live' \cup lostSince'[c])
          /\ m.to = "naming" => m.target \in Pages
      BY <1>3, <2>1 DEF Truthful
    <2>4. m.to \in {"naming", "listing"} =>
            /\ m.target \in m.targets \cup lostSince'[c]
            /\ m.target \in live' \cup lostSince'[c]
      BY <1>3, <2>1 DEF Truthful
    <2>5. m.to = "attaching" =>
            IF m.result = "error" THEN m.target \in lostSince'[c]
            ELSE m.target \in ours' \cup Foreign \cup lostSince'[c]
      BY <1>3, <2>1 DEF Truthful
    <2>6. m.to \in {"enabling", "sending"} =>
            IF m.result = "ok" THEN m.target \in ours' \cup Foreign \cup lostSince'[c]
            ELSE m.target \in Foreign \cup lostSince'[c]
      BY <1>3, <2>1 DEF Truthful
    <2> QED
      BY <2>1, <2>2, <2>3, <2>4, <2>5, <2>6 DEF Truthful
  <1>4. \A m : Truthful(m) => Truthful(m)'
    BY <1>3 DEF Truthful
  <1> QED
    BY <1>2, <1>4

LEMMA BegunKeeps ==
  ASSUME IInv, TypeOK', NEW c \in Calls, Begun(c)
  PROVE  IInv'
  <1> USE DEF IInv
  <1>1. lostSince' \in [Calls -> SUBSET Targets] /\ \A d \in Calls \ {c} : lostSince'[d] = lostSince[d]
    BY DEF Begun, TypeOK
  <1>2. /\ \A r : Sound(r) => Sound(r)'
        /\ \A m : Truthful(m) => Truthful(m)'
    <2>1. \A d \in Calls : Started(d) =>
            /\ Started(d)'
            /\ lostSince[d] \subseteq lostSince'[d]
            /\ live \subseteq live' \cup lostSince'[d]
            /\ ours \subseteq ours' \cup lostSince'[d]
      BY <1>1 DEF Begun, Started, browserVars
    <2> QED
      BY <2>1, PromisesKept
  <1>3. MessagesKept'
    BY <1>2 DEF Begun, MessagesKept, NewRequestsSound
  <1>4. DetachIsLoss'
    <2>1. \A t : DetachQueued(t)' <=> DetachQueued(t)
      BY DEF Begun, DetachQueued
    <2>2. lostSince'[c] = Closed \cup {t \in Targets : DetachQueued(t)}
      BY DEF Begun, TypeOK
    <2>3. ASSUME NEW t \in Targets, DetachQueued(t), NEW d \in Calls, d # c, Started(d)'
          PROVE  t \in lostSince'[d]
      BY <2>3, <1>1 DEF DetachIsLoss, Begun
    <2> QED
      BY <2>1, <2>2, <2>3 DEF DetachIsLoss
  <1>5. RejectedForCause'
    BY <1>1 DEF RejectedForCause, Begun
  <1>6. /\ BrowserConsistent' /\ AttachedIsLive' /\ ConfirmedIsLive'
    BY DEF Begun, BrowserConsistent, AttachedIsLive, ConfirmedIsLive, DetachQueued, browserVars
  <1> QED
    BY <1>3, <1>4, <1>5, <1>6 DEF ListensFirst, Begun

(* The worker takes the first message off the queue.                       *)
LEMMA TakenKeeps ==
  ASSUME IInv, queue # <<>>, queue' = Tail(queue), UNCHANGED <<browserVars, lostSince>>,
         \A c \in Calls : Started(c)' <=> Started(c)
  PROVE  /\ ConfirmedIsLive' /\ DetachIsLoss' /\ BrowserConsistent'
         /\ queue' \in Seq(Messages)
         /\ \A i \in DOMAIN queue' : \E j \in DOMAIN queue : queue'[i] = queue[j]
         /\ (\A i \in DOMAIN queue : Truthful(queue[i]))'
         /\ \A r : Sound(r) => Sound(r)'
         /\ \A t : DetachQueued(t) => DetachQueued(t)' \/ Head(queue) = Detached(t)
         /\ \A t : DetachQueued(t)' => DetachQueued(t)
  <1> USE DEF IInv
  <1>1. queue \in Seq(Messages)
    BY DEF TypeOK, Messages
  <1>2. /\ Tail(queue) \in Seq(Messages)
        /\ 1 \in DOMAIN queue /\ Head(queue) = queue[1]
        /\ \A i \in DOMAIN Tail(queue) : i \in Nat /\ i + 1 \in DOMAIN queue /\ Tail(queue)[i] = queue[i + 1]
        /\ \A i \in DOMAIN queue : i \in Nat /\ (i = 1 \/ (i - 1 \in DOMAIN Tail(queue) /\ Tail(queue)[i - 1] = queue[i]))
    BY <1>1, TailFacts
  <1>3. /\ \A t : DetachQueued(t) => DetachQueued(t)' \/ Head(queue) = Detached(t)
        /\ \A t : DetachQueued(t)' => DetachQueued(t)
    <2>1. \A t : (\E i \in DOMAIN queue : queue[i] = Detached(t))
                   => \/ queue[1] = Detached(t)
                      \/ \E i \in DOMAIN Tail(queue) : Tail(queue)[i] = Detached(t)
      BY <1>2
    <2>2. \A t : (\E i \in DOMAIN Tail(queue) : Tail(queue)[i] = Detached(t))
                   => \E i \in DOMAIN queue : queue[i] = Detached(t)
      BY <1>2
    <2> QED
      BY <1>2, <2>1, <2>2 DEF DetachQueued
  <1>4. /\ \A r : Sound(r) => Sound(r)'
        /\ \A x : Truthful(x) => Truthful(x)'
    BY PromisesKept DEF browserVars
  <1>5. /\ \A i \in DOMAIN queue' : \E j \in DOMAIN queue : queue'[i] = queue[j]
        /\ (\A i \in DOMAIN queue : Truthful(queue[i]))'
    BY <1>2, <1>4 DEF MessagesKept
  <1>6. ConfirmedIsLive'
    <2>1. SUFFICES ASSUME NEW i \in DOMAIN Tail(queue), Confirms(Tail(queue)[i]),
                          Tail(queue)[i].target \notin ours
                   PROVE  \E j \in DOMAIN Tail(queue) :
                             j > i /\ Tail(queue)[j] = Detached(Tail(queue)[i].target)
      BY DEF ConfirmedIsLive, Confirms, browserVars
    <2>2. PICK j \in DOMAIN queue : j > i + 1 /\ queue[j] = Detached(queue[i + 1].target)
      BY <2>1, <1>2 DEF ConfirmedIsLive
    <2>3. i \in Nat /\ j \in Nat /\ j - 1 > i /\ j - 1 \in DOMAIN Tail(queue) /\ Tail(queue)[j - 1] = queue[j]
      BY <1>2, <2>2
    <2> QED
      BY <1>2, <2>2, <2>3
  <1>7. DetachIsLoss' /\ BrowserConsistent'
    BY <1>3 DEF DetachIsLoss, BrowserConsistent, browserVars
  <1> QED
    BY <1>2, <1>3, <1>4, <1>5, <1>6, <1>7

LEMMA HandledKeeps ==
  ASSUME IInv, TypeOK', NEW m, queue # <<>>, m = Head(queue), m.type = "answer", Handled(m)
  PROVE  IInv'
  <1> USE DEF IInv
  <1>1. /\ queue' = Tail(queue) /\ UNCHANGED <<browserVars, lostSince>>
        /\ \A c \in Calls : Started(c)' <=> Started(c)
    BY DEF Handled
  <1>2. MessagesKept'
    BY <1>1, TakenKeeps DEF Handled, MessagesKept, NewRequestsSound
  <1>3. AttachedIsLive'
    <2>1. ASSUME Confirms(m)
          PROVE  m.target \in ours \/ DetachQueued(m.target)
      <3>1. 1 \in DOMAIN queue /\ m = queue[1]
        BY TailFacts DEF TypeOK
      <3> QED
        BY <2>1, <3>1 DEF ConfirmedIsLive, DetachQueued
    <2>2. \A t : DetachQueued(t) => DetachQueued(t)'
      BY <1>1, TakenKeeps DEF Detached
    <2> QED
      BY <2>1, <2>2 DEF AttachedIsLive, Handled, browserVars
  <1>4. ListensFirst' /\ RejectedForCause'
    BY DEF Handled, ListensFirst
  <1> QED
    BY <1>1, <1>2, <1>3, <1>4, TakenKeeps

(* The first message of a queue under the invariant.                       *)
LEMMA HeadIsKept ==
  ASSUME IInv, queue # <<>>
  PROVE  /\ Head(queue) \in Messages
         /\ Truthful(Head(queue))
         /\ Head(queue).type = "answer" /\ Head(queue).call \in Calls => listening
         /\ queue \in Seq(Messages) /\ Tail(queue) \in Seq(Messages)
  <1>1. queue \in Seq(Messages)
    BY DEF IInv, TypeOK, Messages
  <1>2. 1 \in DOMAIN queue /\ Head(queue) = queue[1] /\ Head(queue) \in Messages /\ Tail(queue) \in Seq(Messages)
    BY <1>1, TailFacts
  <1> QED
    BY <1>1, <1>2 DEF IInv, MessagesKept, ListensFirst

-----------------------------------------------------------------------------
(* The calls' beginnings.                                                  *)

StartActions(c) ==
  \/ SendDefault(c) \/ GetTargets(c)
  \/ \E t \in Targets : SendRouted(c, t) \/ AttachToTarget(c, t)

LEMMA StartStep ==
  ASSUME IInv, NEW c \in Calls, StartActions(c)
  PROVE  TypeOK' /\ Begun(c)
  <1> USE DEF IInv
  <1> DEFINE lost == Closed \cup {t \in Targets : DetachQueued(t)}
  <1>1. PICK k \in Kinds : Start(c, k)
    BY DEF StartActions, SendDefault, GetTargets, SendRouted, AttachToTarget, Kinds
  <1>2. /\ phase[c] = "idle" /\ kind' \in [Calls -> Kinds]
        /\ lostSince' = [lostSince EXCEPT ![c] = lost]
        /\ lostSince' \in [Calls -> SUBSET Targets] /\ lostSince'[c] = lost
        /\ UNCHANGED <<attached_debuggees, queue, live, unborn, ours>>
    BY <1>1 DEF Start, TypeOK, Closed, browserVars
  <1>3. listening' /\ resolved' = resolved
    BY DEF StartActions, SendDefault, GetTargets, SendRouted, AttachToTarget, ListensFirst, TypeOK
  <1>4. \E to \in Awaits, t \in Targets \cup {NoTarget} :
           /\ Await(c, to, t)
           /\ \/ to \in {"reading", "choosing"}
              \/ to \in {"listing", "attaching"} /\ t \in Targets \ unborn
              \/ to = "sending" /\ t \in attached_debuggees
    <2>1. CASE SendDefault(c) \/ GetTargets(c)
      BY <2>1 DEF SendDefault, GetTargets, Awaits
    <2>2. CASE \E t \in Targets : SendRouted(c, t) \/ AttachToTarget(c, t)
      <3>1. PICK t \in Targets : SendRouted(c, t) \/ AttachToTarget(c, t)
        BY <2>2
      <3>2. t \in Targets \ unborn
        BY <3>1 DEF SendRouted, AttachToTarget
      <3>3. \/ Await(c, "listing", t)
            \/ Await(c, "attaching", t)
            \/ Await(c, "sending", t) /\ t \in attached_debuggees
        BY <3>1 DEF SendRouted, AttachToTarget
      <3>4. {"listing", "attaching", "sending"} \subseteq Awaits
        BY DEF Awaits
      <3> QED
        BY <3>2, <3>3, <3>4
    <2> QED
      BY <2>1, <2>2 DEF StartActions
  <1>5. PICK to \in Awaits, t \in Targets \cup {NoTarget} :
           /\ Await(c, to, t)
           /\ \/ to \in {"reading", "choosing"}
              \/ to \in {"listing", "attaching"} /\ t \in Targets \ unborn
              \/ to = "sending" /\ t \in attached_debuggees
    BY <1>4
  <1>6. /\ phase' \in [Calls -> Phases] /\ target' \in [Calls -> Targets \cup {NoTarget}]
        /\ request' \subseteq Requests
        /\ phase'[c] = to /\ \A d \in Calls \ {c} : phase'[d] = phase[d] /\ target'[d] = target[d]
        /\ \A r \in request' : r \in request \/ (r.call = c /\ r.to = to /\ r.target = t)
        /\ \A d \in Calls : Started(d)' <=> (Started(d) \/ d = c)
    BY <1>5, AwaitFacts
  <1>7. TypeOK'
    BY <1>2, <1>3, <1>6 DEF TypeOK
  <1>8. NewRequestsSound
    <2>1. SUFFICES ASSUME NEW r \in request', r.call = c, r.to = to, r.target = t
                   PROVE  Sound(r)'
      BY <1>6 DEF NewRequestsSound
    <2>2. Started(c)'
      BY <1>6
    <2>3. t \in Targets \ unborn => t \in live \cup lost
      BY DEF Closed
    <2>4. t \in attached_debuggees => t \in ours \cup lost
      BY DEF AttachedIsLive, TypeOK
    <2> QED
      BY <2>1, <2>2, <2>3, <2>4, <1>2, <1>5 DEF Sound
  <1>9. \A d \in Calls : phase'[d] = "failed" =>
           d # c /\ phase[d] = "failed" /\ target'[d] = target[d]
    BY <1>6 DEF Awaits
  <1> QED
    BY <1>2, <1>3, <1>6, <1>7, <1>8, <1>9 DEF Begun, browserVars

-----------------------------------------------------------------------------
(* The answers.                                                            *)

(* m is the answer the worker handles next.                                *)
Next1(m) ==
  /\ queue # <<>> /\ m = Head(queue)
  /\ \E to \in Awaits : Answered(m, to)
  /\ resolved' \subseteq Targets
  /\ attached_debuggees' \subseteq attached_debuggees \cup {t \in {m.target} : Confirms(m)}
  /\ listening'

LEMMA AnswerFacts ==
  ASSUME IInv, NEW m, Next1(m)
  PROVE  /\ m.type = "answer" /\ m.call \in Calls /\ m \in Messages /\ Truthful(m)
         /\ m.target \in Targets \cup {NoTarget} /\ m.targets \subseteq Targets /\ m.result \in Results
         /\ m.to \in Awaits
         /\ Started(m.call)
         /\ listening
         /\ queue' = Tail(queue) /\ queue' \in Seq(Messages)
         /\ UNCHANGED <<kind, live, unborn, ours, lostSince>>
         /\ attached_debuggees' \subseteq Targets
  <1>1. /\ m.type = "answer" /\ m.call \in Calls /\ queue' = Tail(queue) /\ m.to \in Awaits
        /\ UNCHANGED <<kind, live, unborn, ours, lostSince>>
    BY DEF Next1, Answered, browserVars
  <1>2. m \in Messages /\ Truthful(m) /\ listening /\ Tail(queue) \in Seq(Messages)
    BY <1>1, HeadIsKept DEF Next1
  <1>3. /\ m.target \in Targets \cup {NoTarget} /\ m.targets \subseteq Targets /\ m.result \in Results
        /\ Started(m.call)
    BY <1>1, <1>2, MessageFields DEF Truthful
  <1>4. Confirms(m) => m.target \in Targets
    BY <1>1, <1>2 DEF Confirms, Truthful, IInv, TypeOK
  <1>5. attached_debuggees' \subseteq Targets
    BY <1>4 DEF Next1, IInv, TypeOK
  <1> QED
    BY <1>1, <1>2, <1>3, <1>5

LEMMA AwaitHandled ==
  ASSUME IInv, NEW m, Next1(m),
         NEW to \in Awaits, NEW t \in Targets \cup {NoTarget}, Await(m.call, to, t),
         to \in {"naming", "listing", "attaching"} => t \in live \cup lostSince[m.call],
         to = "naming" => t \in Pages,
         to \in {"enabling", "sending"} => t \in ours \cup Foreign \cup lostSince[m.call]
  PROVE  TypeOK' /\ Handled(m)
  <1> USE DEF IInv
  <1> DEFINE c == m.call
  <1>1. c \in Calls
    BY AnswerFacts
  <1>2. /\ phase' \in [Calls -> Phases] /\ target' \in [Calls -> Targets \cup {NoTarget}]
        /\ request' \subseteq Requests
        /\ phase'[c] = to /\ \A d \in Calls \ {c} : phase'[d] = phase[d] /\ target'[d] = target[d]
        /\ \A r \in request' : r \in request \/ (r.call = c /\ r.to = to /\ r.target = t)
        /\ \A d \in Calls : Started(d)' <=> (Started(d) \/ d = c)
    BY <1>1, AwaitFacts
  <1>3. TypeOK'
    BY <1>2, AnswerFacts DEF TypeOK, Messages, Next1
  <1>5. ASSUME NEW r, r.call = c, r.to = to, r.target = t
        PROVE  Sound(r)'
    BY <1>1, <1>2, <1>5, AnswerFacts DEF Sound
  <1>6. RejectedForCause'
    <2>1. to # "failed"
      BY DEF Awaits
    <2> QED
      BY <1>1, <1>2, <2>1, AnswerFacts DEF RejectedForCause
  <1> QED
    BY <1>1, <1>2, <1>3, <1>5, <1>6, AnswerFacts DEF Handled, NewRequestsSound, Next1, browserVars

LEMMA SettleHandled ==
  ASSUME IInv, NEW m, Next1(m),
         NEW how \in {"done", "failed"}, NEW t \in Targets \cup {NoTarget}, Settle(m.call, how, t),
         how = "failed" => t \in Foreign \cup lostSince[m.call]
  PROVE  TypeOK' /\ Handled(m)
  <1> USE DEF IInv
  <1> DEFINE c == m.call
  <1>1. c \in Calls /\ Started(c)
    BY AnswerFacts
  <1>2. /\ phase' \in [Calls -> Phases] /\ target' \in [Calls -> Targets \cup {NoTarget}]
        /\ request' = request
        /\ phase'[c] = how /\ target'[c] = t
        /\ \A d \in Calls \ {c} : phase'[d] = phase[d] /\ target'[d] = target[d]
        /\ Started(c)' /\ \A d \in Calls \ {c} : Started(d)' <=> Started(d)
    BY <1>1, SettleFacts
  <1>3. TypeOK'
    BY <1>2, AnswerFacts DEF TypeOK, Messages, Next1
  <1>4. RejectedForCause'
    BY <1>1, <1>2, AnswerFacts DEF RejectedForCause
  <1> QED
    BY <1>1, <1>2, <1>3, <1>4, AnswerFacts DEF Handled, NewRequestsSound, Next1, browserVars

LEMMA HandleStep ==
  ASSUME IInv, queue # <<>>, NEW m, m = Head(queue), HandleAnswer(m)
  PROVE  TypeOK' /\ Handled(m)
  <1> USE DEF IInv
  <1>0. /\ m.type = "answer" /\ m.call \in Calls /\ Truthful(m) /\ listening
        /\ m.targets \subseteq Targets /\ m.result \in Results
        /\ m.target \in Targets \cup {NoTarget}
    <2>1. m.type = "answer" /\ m.call \in Calls
      BY DEF HandleAnswer, ListRead, DefaultChosen, TabCreated, TabNamed, DebuggeeFound,
             AttachAnswered, AutoAttachAnswered, SendAnswered, Answered
    <2> QED
      BY <2>1, HeadIsKept, MessageFields
  <1> USE <1>0
  <1>1. CASE ListRead(m)
    <2>1. Next1(m)
      BY <1>1 DEF ListRead, Next1, TypeOK, Awaits
    <2> QED
      BY <1>1, <2>1, SettleHandled DEF ListRead
  <1>2. CASE DefaultChosen(m)
    <2>1. Next1(m) /\ m.to = "choosing"
      BY <1>2 DEF DefaultChosen, Next1, TypeOK, Awaits, Answered
    <2>2. CASE \E t \in m.targets \cap Pages : Await(m.call, "listing", t)
      BY <2>1, <2>2, AwaitHandled DEF Truthful, Awaits
    <2>3. CASE Await(m.call, "creating", NoTarget)
      BY <2>1, <2>3, AwaitHandled DEF Awaits
    <2> QED
      BY <1>2, <2>2, <2>3 DEF DefaultChosen
  <1>3. CASE TabCreated(m)
    <2>1. Next1(m) /\ m.to = "creating" /\ Await(m.call, "naming", m.target)
      BY <1>3 DEF TabCreated, Next1, TypeOK, Awaits, Answered
    <2>2. m.target \in Pages \cap (live \cup lostSince[m.call])
      BY <2>1 DEF Truthful
    <2> QED
      BY <2>1, <2>2, AwaitHandled DEF Awaits
  <1>4. CASE TabNamed(m)
    <2>1. Next1(m) /\ m.to = "naming"
      BY <1>4 DEF TabNamed, Next1, TypeOK, Awaits, Answered
    <2>2. /\ m.target \in Pages /\ m.target \in m.targets \cup lostSince[m.call]
          /\ m.target \in live \cup lostSince[m.call]
      BY <2>1 DEF Truthful
    <2>3. CASE m.target \in resolved'
      <3>1. Await(m.call, "listing", m.target)
        BY <1>4, <2>3 DEF TabNamed
      <3> QED
        BY <2>1, <2>2, <3>1, AwaitHandled DEF Awaits
    <2>4. CASE m.target \notin resolved'
      <3>1. Settle(m.call, "failed", m.target) /\ m.target \in lostSince[m.call]
        BY <1>4, <2>2, <2>4 DEF TabNamed
      <3> QED
        BY <2>1, <3>1, SettleHandled
    <2> QED
      BY <2>3, <2>4
  <1>5. CASE DebuggeeFound(m)
    <2>1. m.to = "listing"
      BY <1>5 DEF DebuggeeFound, Answered
    <2>2. /\ m.target \in m.targets \cup lostSince[m.call]
          /\ m.target \in live \cup lostSince[m.call]
      BY <2>1 DEF Truthful
    <2>3. /\ m.target \in Targets
      BY <2>2 DEF TypeOK
    <2>4. Next1(m)
      BY <1>5, <2>3 DEF DebuggeeFound, AfterAttach, Next1, TypeOK, Awaits, Answered
    <2>5. CASE m.target \in m.targets \cap attached_debuggees
      <3>1. m.target \in ours \cup lostSince[m.call]
        BY <2>5, <2>3 DEF AttachedIsLive, DetachIsLoss, Truthful
      <3>2. \/ Settle(m.call, "done", m.target)
            \/ Await(m.call, "sending", m.target)
        BY <1>5, <2>5 DEF DebuggeeFound, AfterAttach
      <3>3. CASE Settle(m.call, "done", m.target)
        BY <2>4, <3>3, SettleHandled
      <3>4. CASE Await(m.call, "sending", m.target)
        BY <2>4, <3>1, <3>4, AwaitHandled DEF Awaits
      <3> QED
        BY <3>2, <3>3, <3>4
    <2>6. CASE m.target \notin m.targets \cap attached_debuggees
      <3>1. CASE m.target \in m.targets
        <4>1. Await(m.call, "attaching", m.target)
          BY <1>5, <2>6, <3>1 DEF DebuggeeFound
        <4> QED
          BY <2>2, <2>4, <4>1, AwaitHandled DEF Awaits
      <3>2. CASE m.target \notin m.targets
        <4>1. Settle(m.call, "failed", m.target)
          BY <1>5, <2>6, <3>2 DEF DebuggeeFound
        <4> QED
          BY <2>2, <2>4, <3>2, <4>1, SettleHandled
      <3> QED
        BY <3>1, <3>2
    <2> QED
      BY <2>5, <2>6
  <1>6. CASE AttachAnswered(m)
    <2>1. Next1(m) /\ m.to = "attaching"
      BY <1>6 DEF AttachAnswered, Next1, TypeOK, Awaits, Answered
    <2>2. CASE m.result \in {"ok", "already attached"}
      <3>1. Await(m.call, "enabling", m.target) /\ m.target \in ours \cup Foreign \cup lostSince[m.call]
        BY <1>6, <2>1, <2>2 DEF AttachAnswered, Truthful
      <3> QED
        BY <2>1, <3>1, AwaitHandled DEF Awaits
    <2>3. CASE m.result = "error"
      <3>1. Settle(m.call, "failed", m.target) /\ m.target \in lostSince[m.call]
        BY <1>6, <2>1, <2>3 DEF AttachAnswered, Truthful
      <3> QED
        BY <2>1, <3>1, SettleHandled
    <2> QED
      BY <2>2, <2>3 DEF Results
  <1>7. CASE AutoAttachAnswered(m)
    <2>1. m.to = "enabling"
      BY <1>7 DEF AutoAttachAnswered, Answered
    <2>2. CASE m.result = "ok"
      <3>1. m.target \in ours \cup Foreign \cup lostSince[m.call]
        BY <2>1, <2>2 DEF Truthful
      <3>2. m.target \in Targets
        BY <3>1 DEF TypeOK
      <3>3. Next1(m)
        BY <1>7, <2>1, <2>2, <3>2 DEF AutoAttachAnswered, AfterAttach, Next1, TypeOK, Awaits, Answered, Confirms
      <3>4. \/ Settle(m.call, "done", m.target)
            \/ Await(m.call, "sending", m.target)
        BY <1>7, <2>2 DEF AutoAttachAnswered, AfterAttach
      <3>5. CASE Settle(m.call, "done", m.target)
        BY <3>3, <3>5, SettleHandled
      <3>6. CASE Await(m.call, "sending", m.target)
        BY <3>1, <3>3, <3>6, AwaitHandled DEF Awaits
      <3> QED
        BY <3>4, <3>5, <3>6
    <2>3. CASE m.result # "ok"
      <3>1. Next1(m) /\ Settle(m.call, "failed", m.target)
        BY <1>7, <2>1, <2>3 DEF AutoAttachAnswered, Next1, TypeOK, Awaits, Answered
      <3>2. m.target \in Foreign \cup lostSince[m.call]
        BY <2>1, <2>3 DEF Truthful, Results
      <3> QED
        BY <3>1, <3>2, SettleHandled
    <2> QED
      BY <2>2, <2>3
  <1>8. CASE SendAnswered(m)
    <2>1. Next1(m) /\ m.to = "sending"
      BY <1>8 DEF SendAnswered, Next1, TypeOK, Awaits, Answered
    <2>2. CASE m.result = "ok"
      <3>1. Settle(m.call, "done", m.target)
        BY <1>8, <2>2 DEF SendAnswered
      <3> QED
        BY <2>1, <3>1, SettleHandled
    <2>3. CASE m.result # "ok"
      <3>1. Settle(m.call, "failed", m.target)
        BY <1>8, <2>3 DEF SendAnswered
      <3>2. m.target \in Foreign \cup lostSince[m.call]
        BY <2>1, <2>3 DEF Truthful, Results
      <3> QED
        BY <2>1, <3>1, <3>2, SettleHandled
    <2> QED
      BY <2>2, <2>3
  <1> QED
    BY <1>1, <1>2, <1>3, <1>4, <1>5, <1>6, <1>7, <1>8 DEF HandleAnswer

-----------------------------------------------------------------------------
(* The other steps.                                                        *)

LEMMA DetachStep ==
  ASSUME IInv, OnDetach \/ DropOrphan
  PROVE  IInv'
  <1> USE DEF IInv
  <1>1. /\ queue # <<>> /\ queue' = Tail(queue)
        /\ UNCHANGED <<resolved, listening, kind, phase, target, request, browserVars, lostSince>>
    BY DEF OnDetach, DropOrphan, workerVars
  <1>2. \A c \in Calls : Started(c)' <=> Started(c)
    BY <1>1 DEF Started
  <1>3. attached_debuggees' \subseteq attached_debuggees
    BY DEF OnDetach, DropOrphan, workerVars
  <1>4. TypeOK'
    BY <1>1, <1>2, <1>3, TakenKeeps DEF TypeOK, Messages, browserVars
  <1>5. AttachedIsLive'
    <2>1. \A t \in attached_debuggees' : Head(queue) # Detached(t)
      BY DEF OnDetach, DropOrphan, ListensFirst, Detached, workerVars
    <2>2. \A t : DetachQueued(t) => DetachQueued(t)' \/ Head(queue) = Detached(t)
      BY <1>1, <1>2, TakenKeeps
    <2> QED
      BY <1>1, <1>3, <2>1, <2>2 DEF AttachedIsLive, browserVars
  <1>6. ListensFirst'
    BY <1>1, <1>2, <1>3, TakenKeeps DEF ListensFirst
  <1>7. MessagesKept'
    BY <1>1, <1>2, TakenKeeps DEF MessagesKept
  <1>8. RejectedForCause'
    BY <1>1 DEF RejectedForCause
  <1> QED
    BY <1>1, <1>2, <1>4, <1>5, <1>6, <1>7, <1>8, TakenKeeps

LEMMA RestartStep ==
  ASSUME IInv, WorkerRestarts
  PROVE  IInv'
  <1> USE DEF IInv, WorkerRestarts
  <1> DEFINE kept(i) == IF queue[i].type = "answer" THEN Orphan(queue[i]) ELSE queue[i]
  <1>1. queue \in Seq(Messages)
    BY DEF TypeOK, Messages
  <1>2. /\ \A i \in DOMAIN queue : queue[i] \in Messages
        /\ DOMAIN queue \subseteq Nat
    BY <1>1
  <1>3. \A i \in DOMAIN queue : kept(i) \in Messages
    BY <1>2, MessageFields
  <1>4. queue' \in Seq(Messages) /\ DOMAIN queue' = DOMAIN queue
        /\ \A i \in DOMAIN queue : queue'[i] = kept(i)
    <2>1. queue' \in [DOMAIN queue -> Messages]
      BY <1>3
    <2> QED
      BY <1>1, <2>1, MapFacts
  <1>5. \A i \in DOMAIN queue :
          /\ queue'[i].type = queue[i].type
          /\ Confirms(queue'[i]) <=> Confirms(queue[i])
          /\ queue'[i].target = queue[i].target
          /\ queue'[i].type = "answer" => queue'[i].call = NoCall
          /\ \A t : queue'[i] = Detached(t) <=> queue[i] = Detached(t)
    <2> SUFFICES ASSUME NEW i \in DOMAIN queue
                 PROVE  /\ queue'[i].type = queue[i].type
                        /\ Confirms(queue'[i]) <=> Confirms(queue[i])
                        /\ queue'[i].target = queue[i].target
                        /\ queue'[i].type = "answer" => queue'[i].call = NoCall
                        /\ \A t : queue'[i] = Detached(t) <=> queue[i] = Detached(t)
      OBVIOUS
    <2>1. CASE queue[i].type = "answer"
      <3>1. queue'[i] = Orphan(queue[i])
        BY <1>4, <2>1
      <3>2. /\ Orphan(queue[i]).type = "answer" /\ Orphan(queue[i]).call = NoCall
            /\ Orphan(queue[i]).to = queue[i].to /\ Orphan(queue[i]).target = queue[i].target
            /\ Orphan(queue[i]).result = queue[i].result
        BY <1>2, <2>1, MessageFields
      <3> QED
        BY <2>1, <3>1, <3>2 DEF Confirms, Detached
    <2>2. CASE queue[i].type # "answer"
      BY <1>4, <2>2
    <2> QED
      BY <2>1, <2>2
  <1>6. /\ phase' \in [Calls -> Phases]
        /\ \A c \in Calls : Started(c)' <=> Started(c)
        /\ \A c \in Calls : phase'[c] = "failed" <=> phase[c] = "failed"
    BY DEF TypeOK, Started, Phases, Awaits
  <1>7. request' \subseteq Requests /\ \A r \in request' : r.call = NoCall
    BY MessageFields DEF TypeOK
  <1>8. TypeOK'
    BY <1>4, <1>6, <1>7 DEF TypeOK, Messages, browserVars
  <1>9. ListensFirst'
    BY <1>4, <1>5, <1>7 DEF ListensFirst
  <1>10. AttachedIsLive'
    BY DEF AttachedIsLive
  <1>11. ConfirmedIsLive'
    <2>1. \A i \in DOMAIN queue : \A j \in DOMAIN queue :
            queue'[j] = Detached(queue'[i].target) <=> queue[j] = Detached(queue[i].target)
      BY <1>5
    <2> QED
      BY <1>4, <1>5, <2>1 DEF ConfirmedIsLive, browserVars
  <1>12. DetachIsLoss'
    <2>1. \A t : DetachQueued(t)' <=> DetachQueued(t)
      BY <1>4, <1>5 DEF DetachQueued
    <2> QED
      BY <1>6, <2>1 DEF DetachIsLoss
  <1>13. MessagesKept'
    BY <1>4, <1>5, <1>7 DEF MessagesKept, Sound, Truthful
  <1>14. RejectedForCause' /\ BrowserConsistent'
    BY <1>6 DEF RejectedForCause, BrowserConsistent, browserVars
  <1> QED
    BY <1>8, <1>9, <1>10, <1>11, <1>12, <1>13, <1>14

(* The browser carries out a request and appends the answer m.             *)
LEMMA AnswerKeeps ==
  ASSUME IInv, NEW r \in request, NEW result \in Results,
         NEW t \in Targets \cup {NoTarget}, NEW S \in SUBSET Targets,
         Answer(r, result, t, S),
         ours \subseteq ours', live \subseteq live', BrowserConsistent',
         live' \subseteq Targets, unborn' \subseteq Targets,
         r.to = "enabling" /\ result = "ok" => t \in ours',
         r.call \in Calls =>
           Truthful([type |-> "answer", call |-> r.call, to |-> r.to,
                     target |-> t, result |-> result, targets |-> S])'
  PROVE  IInv'
  <1> USE DEF IInv
  <1> DEFINE m == [type |-> "answer", call |-> r.call, to |-> r.to,
                   target |-> t, result |-> result, targets |-> S]
  <1>1. /\ queue' = Append(queue, m) /\ request' = request \ {r}
        /\ UNCHANGED <<attached_debuggees, resolved, listening, kind, phase, target, lostSince>>
    BY DEF Answer, workerVars
  <1>2. queue \in Seq(Messages) /\ m \in Messages
    BY DEF TypeOK, Requests, Messages, Answers
  <1>3. /\ queue' \in Seq(Messages)
        /\ DOMAIN queue \subseteq DOMAIN queue'
        /\ \A i \in DOMAIN queue : queue'[i] = queue[i]
        /\ \A i \in DOMAIN queue' : i \in DOMAIN queue \/ queue'[i] = m
    BY <1>1, <1>2, AppendFacts
  <1>4. TypeOK'
    BY <1>1, <1>3 DEF TypeOK, Messages, BrowserConsistent
  <1>5. /\ \A x : Sound(x) => Sound(x)'
        /\ \A x : Truthful(x) => Truthful(x)'
    BY <1>1, PromisesKept DEF Started
  <1>6. MessagesKept'
    <2>1. (m.call \in Calls => Truthful(m)') /\ (m.call \notin Calls => Truthful(m)')
      BY DEF Truthful
    <2> QED
      BY <1>1, <1>3, <1>5, <2>1 DEF MessagesKept
  <1>7. AttachedIsLive'
    BY <1>1, <1>3 DEF AttachedIsLive, DetachQueued
  <1>8. ConfirmedIsLive'
    BY <1>3 DEF ConfirmedIsLive, Confirms
  <1>9. DetachIsLoss'
    <2>1. \A u : m # Detached(u)
      BY DEF Detached
    <2>2. \A u : DetachQueued(u)' => DetachQueued(u)
      BY <1>3, <2>1 DEF DetachQueued
    <2> QED
      BY <1>1, <2>2 DEF DetachIsLoss, Started
  <1>10. ListensFirst' /\ RejectedForCause'
    BY <1>1, <1>3 DEF ListensFirst, RejectedForCause
  <1> QED
    BY <1>4, <1>6, <1>7, <1>8, <1>9, <1>10

LEMMA AnswerStep ==
  ASSUME IInv, NEW r \in request,
         \/ BrowserLists(r) \/ BrowserAttaches(r) \/ BrowserRuns(r)
         \/ \E t \in Targets : BrowserCreates(r, t)
  PROVE  IInv'
  <1> USE DEF IInv
  <1>1. /\ r \in Requests /\ Sound(r)
        /\ r.target \in Targets \cup {NoTarget}
        /\ live \in SUBSET Targets /\ {} \in SUBSET Targets
        /\ {"ok", "error", "already attached"} \subseteq Results
        /\ r.call \in Calls => lostSince'[r.call] = lostSince[r.call] /\ Started(r.call)'
    BY MessageFields DEF TypeOK, MessagesKept, Results, Sound, Started, BrowserLists, BrowserAttaches,
       BrowserRuns, BrowserCreates, Answer, workerVars
  <1>2. CASE BrowserLists(r)
    <2>1. Answer(r, "ok", r.target, live) /\ UNCHANGED <<live, unborn, ours>>
          /\ r.to \in {"reading", "choosing", "naming", "listing"}
      BY <1>2 DEF BrowserLists, browserVars
    <2>2. r.call \in Calls =>
            Truthful([type |-> "answer", call |-> r.call, to |-> r.to,
                      target |-> r.target, result |-> "ok", targets |-> live])'
      BY <1>1, <2>1 DEF Sound, Truthful
    <2> QED
      BY <1>1, <2>1, <2>2, AnswerKeeps DEF BrowserConsistent, TypeOK
  <1>3. CASE BrowserAttaches(r)
    <2>0. /\ r.to = "attaching" /\ UNCHANGED <<live, unborn>>
          /\ r.call \in Calls => r.target \in live \cup lostSince[r.call]
      BY <1>1, <1>3 DEF BrowserAttaches, Sound
    <2>1. CASE /\ r.target \in live \ (ours \cup Foreign)
               /\ ours' = ours \cup {r.target}
               /\ Answer(r, "ok", r.target, {})
      <3>1. Truthful([type |-> "answer", call |-> r.call, to |-> r.to,
                      target |-> r.target, result |-> "ok", targets |-> {}])'
        BY <1>1, <2>0, <2>1 DEF Truthful
      <3> QED
        BY <1>1, <2>0, <2>1, <3>1, AnswerKeeps DEF BrowserConsistent, TypeOK
    <2>2. CASE /\ r.target \in live \cap (ours \cup Foreign)
               /\ Answer(r, "already attached", r.target, {})
               /\ UNCHANGED ours
      <3>1. Truthful([type |-> "answer", call |-> r.call, to |-> r.to,
                      target |-> r.target, result |-> "already attached", targets |-> {}])'
        BY <1>1, <2>0, <2>2 DEF Truthful
      <3> QED
        BY <1>1, <2>0, <2>2, <3>1, AnswerKeeps DEF BrowserConsistent, TypeOK
    <2>3. CASE /\ r.target \notin live
               /\ Answer(r, "error", r.target, {})
               /\ UNCHANGED ours
      <3>1. Truthful([type |-> "answer", call |-> r.call, to |-> r.to,
                      target |-> r.target, result |-> "error", targets |-> {}])'
        BY <1>1, <2>0, <2>3 DEF Truthful
      <3> QED
        BY <1>1, <2>0, <2>3, <3>1, AnswerKeeps DEF BrowserConsistent, TypeOK
    <2> QED
      BY <1>3, <2>1, <2>2, <2>3 DEF BrowserAttaches
  <1>4. CASE BrowserRuns(r)
    <2>0. /\ UNCHANGED <<live, unborn, ours>> /\ r.to \in {"enabling", "sending"}
          /\ r.call \in Calls => r.target \in ours \cup Foreign \cup lostSince[r.call]
      BY <1>1, <1>4 DEF BrowserRuns, browserVars, Sound
    <2>1. CASE r.target \in ours
      <3>1. Answer(r, "ok", r.target, {})
        BY <1>4, <2>1 DEF BrowserRuns
      <3>2. r.call \in Calls =>
              Truthful([type |-> "answer", call |-> r.call, to |-> r.to,
                        target |-> r.target, result |-> "ok", targets |-> {}])'
        BY <1>1, <2>0, <2>1 DEF Truthful
      <3> QED
        BY <1>1, <2>0, <2>1, <3>1, <3>2, AnswerKeeps DEF BrowserConsistent, TypeOK
    <2>2. CASE r.target \notin ours
      <3>1. Answer(r, "error", r.target, {})
        BY <1>4, <2>2 DEF BrowserRuns
      <3>2. r.call \in Calls =>
              Truthful([type |-> "answer", call |-> r.call, to |-> r.to,
                        target |-> r.target, result |-> "error", targets |-> {}])'
        BY <1>1, <2>0, <2>2 DEF Truthful
      <3> QED
        BY <1>1, <2>0, <2>2, <3>1, <3>2, AnswerKeeps DEF BrowserConsistent, TypeOK
    <2> QED
      BY <2>1, <2>2
  <1>5. ASSUME NEW t \in Targets, BrowserCreates(r, t)
        PROVE  IInv'
    <2>1. /\ Answer(r, "ok", t, {}) /\ r.to = "creating" /\ t \in unborn \cap Pages
          /\ live' = live \cup {t} /\ unborn' = unborn \ {t} /\ ours' = ours
      BY <1>5 DEF BrowserCreates
    <2>2. r.call \in Calls =>
            Truthful([type |-> "answer", call |-> r.call, to |-> r.to,
                      target |-> t, result |-> "ok", targets |-> {}])'
      BY <1>1, <2>1 DEF Truthful
    <2> QED
      BY <1>1, <2>1, <2>2, AnswerKeeps DEF BrowserConsistent, TypeOK
  <1> QED
    BY <1>2, <1>3, <1>4, <1>5

LEMMA LossStep ==
  ASSUME IInv, NEW t \in Targets, TargetCloses(t) \/ UserCancels(t)
  PROVE  IInv'
  <1> USE DEF IInv
  <1>1. /\ Lose(t) /\ ours' = ours \ {t} /\ live' \subseteq live /\ live \subseteq live' \cup {t}
        /\ lostSince' = [c \in Calls |-> lostSince[c] \cup {t}]
        /\ UNCHANGED <<attached_debuggees, resolved, listening, kind, phase, target, request, unborn>>
        /\ ours' \subseteq live'
    BY DEF TargetCloses, UserCancels, Lose, workerVars, BrowserConsistent
  <1>2. queue \in Seq(Messages) /\ Detached(t) \in Messages
    BY DEF TypeOK, Messages, Detaches, Detached
  <1>3. /\ queue' \in Seq(Messages)
        /\ DOMAIN queue \subseteq DOMAIN queue'
        /\ \A i \in DOMAIN queue : queue'[i] = queue[i]
        /\ \A i \in DOMAIN queue' : i \in DOMAIN queue \/ queue'[i] = Detached(t)
        /\ t \in ours => \E j \in DOMAIN queue' :
                            queue'[j] = Detached(t) /\ \A i \in DOMAIN queue : j > i
    <2>1. CASE t \in ours
      <3>1. queue' = Append(queue, Detached(t))
        BY <1>1, <2>1 DEF Lose
      <3> QED
        BY <1>2, <3>1, AppendFacts
    <2>2. CASE t \notin ours
      BY <1>1, <1>2, <2>2 DEF Lose
    <2> QED
      BY <2>1, <2>2
  <1>4. TypeOK'
    BY <1>1, <1>3 DEF TypeOK, Messages
  <1>5. /\ \A x : Sound(x) => Sound(x)'
        /\ \A x : Truthful(x) => Truthful(x)'
    <2>1. \A c \in Calls : /\ lostSince'[c] = lostSince[c] \cup {t}
                           /\ Started(c)' <=> Started(c)
      BY <1>1 DEF Started
    <2> QED
      BY <1>1, <2>1, PromisesKept
  <1>6. MessagesKept'
    <2>1. Truthful(Detached(t))'
      BY DEF Truthful, Detached
    <2> QED
      BY <1>1, <1>3, <1>5, <2>1 DEF MessagesKept
  <1>7. AttachedIsLive'
    BY <1>1, <1>3 DEF AttachedIsLive, DetachQueued
  <1>8. ConfirmedIsLive'
    <2>1. ~Confirms(Detached(t))
      BY DEF Confirms, Detached
    <2>2. SUFFICES ASSUME NEW i \in DOMAIN queue, Confirms(queue[i]), queue[i].target \notin ours'
                   PROVE  \E j \in DOMAIN queue' : j > i /\ queue'[j] = Detached(queue[i].target)
      BY <1>3, <2>1 DEF ConfirmedIsLive, Confirms
    <2>3. CASE queue[i].target \in ours
      <3>1. queue[i].target = t /\ t \in ours
        BY <1>1, <2>2, <2>3
      <3> QED
        BY <1>3, <3>1
    <2>4. CASE queue[i].target \notin ours
      BY <1>3, <2>2, <2>4 DEF ConfirmedIsLive
    <2> QED
      BY <2>3, <2>4
  <1>9. DetachIsLoss'
    <2>1. \A u \in Targets : DetachQueued(u)' => DetachQueued(u) \/ u = t
      BY <1>3 DEF DetachQueued, Detached
    <2> QED
      BY <1>1, <2>1 DEF DetachIsLoss, Started
  <1>10. /\ ListensFirst' /\ RejectedForCause' /\ BrowserConsistent'
    BY <1>1, <1>3 DEF ListensFirst, RejectedForCause, BrowserConsistent, Detached
  <1> QED
    BY <1>4, <1>6, <1>7, <1>8, <1>9, <1>10

LEMMA QuietStep ==
  ASSUME IInv, Connect \/ (\E t \in Targets : TargetOpens(t)) \/ UNCHANGED vars
  PROVE  IInv'
  <1> USE DEF IInv
  <1>1. /\ UNCHANGED <<attached_debuggees, resolved, kind, phase, target, request, queue, ours, lostSince>>
        /\ listening => listening'
        /\ listening' \in BOOLEAN
        /\ live \subseteq live' /\ live' \subseteq Targets /\ unborn' \subseteq unborn
        /\ live' \cap unborn' = {}
    BY DEF Connect, TargetOpens, vars, workerVars, browserVars, TypeOK, BrowserConsistent
  <1>2. TypeOK'
    <2>1. queue' \in Seq(Messages) /\ request' \subseteq Requests
      BY <1>1 DEF TypeOK
    <2>2. /\ kind' \in [Calls -> Kinds] /\ phase' \in [Calls -> Phases]
          /\ target' \in [Calls -> Targets \cup {NoTarget}]
          /\ lostSince' \in [Calls -> SUBSET Targets]
      BY <1>1 DEF TypeOK
    <2>3. /\ attached_debuggees' \subseteq Targets /\ resolved' \subseteq Targets
          /\ ours' \subseteq Targets /\ unborn' \subseteq Targets
      BY <1>1 DEF TypeOK
    <2> QED
      BY <1>1, <2>1, <2>2, <2>3 DEF TypeOK
  <1>3. MessagesKept'
    <2>1. /\ \A x : Sound(x) => Sound(x)'
          /\ \A x : Truthful(x) => Truthful(x)'
      BY <1>1, PromisesKept DEF Started
    <2> QED
      BY <1>1, <2>1 DEF MessagesKept
  <1>4. /\ AttachedIsLive' /\ ConfirmedIsLive' /\ DetachIsLoss' /\ RejectedForCause'
    BY <1>1 DEF AttachedIsLive, ConfirmedIsLive, DetachIsLoss, DetachQueued, RejectedForCause, Started
  <1>5. BrowserConsistent' /\ ListensFirst'
    BY <1>1 DEF BrowserConsistent, ListensFirst
  <1> QED
    BY <1>2, <1>3, <1>4, <1>5

-----------------------------------------------------------------------------
LEMMA InvInit == Init => IInv
  <1> SUFFICES ASSUME Init PROVE IInv
    OBVIOUS
  <1>1. TypeOK
    <2>1. queue \in Seq(Messages)
      BY DEF Init
    <2> QED
      BY <2>1 DEF Init, TypeOK, Phases, Kinds
  <1> QED
    BY <1>1 DEF Init, IInv, BrowserConsistent, ListensFirst, AttachedIsLive, ConfirmedIsLive,
       DetachIsLoss, DetachQueued, MessagesKept, RejectedForCause

LEMMA InvNext == IInv /\ [Next]_vars => IInv'
  <1> SUFFICES ASSUME IInv, [Next]_vars PROVE IInv'
    OBVIOUS
  <1>1. CASE Connect \/ (\E t \in Targets : TargetOpens(t)) \/ UNCHANGED vars
    BY <1>1, QuietStep
  <1>2. ASSUME NEW c \in Calls, StartActions(c)
        PROVE  IInv'
    BY <1>2, StartStep, BegunKeeps
  <1>3. ASSUME queue # <<>>, HandleAnswer(Head(queue))
        PROVE  IInv'
    <2> DEFINE m == Head(queue)
    <2>1. TypeOK' /\ Handled(m)
      BY <1>3, HandleStep
    <2>2. m.type = "answer"
      BY <1>3 DEF HandleAnswer, ListRead, DefaultChosen, TabCreated, TabNamed, DebuggeeFound,
                  AttachAnswered, AutoAttachAnswered, SendAnswered, Answered
    <2> QED
      BY <1>3, <2>1, <2>2, HandledKeeps
  <1>4. CASE OnDetach \/ DropOrphan
    BY <1>4, DetachStep
  <1>5. CASE WorkerRestarts
    BY <1>5, RestartStep
  <1>6. ASSUME NEW r \in request,
               \/ BrowserLists(r) \/ BrowserAttaches(r) \/ BrowserRuns(r)
               \/ \E t \in Targets : BrowserCreates(r, t)
        PROVE  IInv'
    BY <1>6, AnswerStep
  <1>7. ASSUME NEW t \in Targets, TargetCloses(t) \/ UserCancels(t)
        PROVE  IInv'
    BY <1>7, LossStep
  <1> QED
    BY <1>1, <1>2, <1>3, <1>4, <1>5, <1>6, <1>7
       DEF Next, WorkerActs, BrowserActs, StartActions

(* The state of the worker, of the messages and of the browser has its     *)
(* type, whatever calls run together.                                      *)
THEOREM TypeCorrect == Spec => []TypeOK
  <1>1. IInv => TypeOK
    BY DEF IInv
  <1> QED
    BY <1>1, InvInit, InvNext, PTL DEF Spec

(* A debuggee the worker takes for attached is attached or about to be     *)
(* reported detached: attached_debuggees never keeps a dead entry.         *)
THEOREM AttachedStaysLive == Spec => []AttachedIsLive
  <1>1. IInv => AttachedIsLive
    BY DEF IInv
  <1> QED
    BY <1>1, InvInit, InvNext, PTL DEF Spec

(* A call is rejected only when another debugger holds its target or the   *)
(* target was lost since the call began: concurrent attaches, a restarted  *)
(* worker and handled detach events never fail a call.                     *)
THEOREM RejectionsHaveCause == Spec => []RejectedForCause
  <1>1. IInv => RejectedForCause
    BY DEF IInv
  <1> QED
    BY <1>1, InvInit, InvNext, PTL DEF Spec
=============================================================================
