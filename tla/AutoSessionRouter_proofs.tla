------------------------ MODULE AutoSessionRouter_proofs ------------------------
(***************************************************************************)
(* Proofs about AutoSessionRouter, for any targets, sessions, contexts,    *)
(* frames and calls.  The browser's part of every argument is one lemma,   *)
(* BrowserContract: what a step of the browser sends, and in which state.  *)
(* The invariants are proved in layers, each with the help of those before *)
(* it; what needs Chunked = FALSE comes last.                              *)
(***************************************************************************)
EXTENDS AutoSessionRouter, TLAPS, FiniteSetTheorems

USE RouterAssumption

-----------------------------------------------------------------------------
(* Sequences of messages.                                                  *)

\* What the queue holds after messages were appended to it.
LEMMA AppendedFacts ==
    ASSUME NEW e \in Seq(Message), NEW m \in Seq(Message)
    PROVE  /\ e \o m \in Seq(Message)
           /\ \A i \in DOMAIN e : i \in DOMAIN (e \o m) /\ (e \o m)[i] = e[i]
           /\ \A k \in DOMAIN m : Len(e) + k \in DOMAIN (e \o m) /\ (e \o m)[Len(e) + k] = m[k]
           /\ \A i \in DOMAIN e, k \in DOMAIN m : i \in Nat /\ Len(e) + k > i
           /\ \A j \in DOMAIN (e \o m) :
                 \/ j \in DOMAIN e /\ (e \o m)[j] = e[j]
                 \/ \E k \in DOMAIN m : j = Len(e) + k /\ (e \o m)[j] = m[k]
  <1>1. /\ e \o m \in Seq(Message) /\ Len(e \o m) = Len(e) + Len(m)
        /\ DOMAIN (e \o m) = 1..Len(e \o m) /\ DOMAIN e = 1..Len(e) /\ DOMAIN m = 1..Len(m)
        /\ Len(e) \in Nat /\ Len(m) \in Nat
    OBVIOUS
  <1>2. \A i \in 1..Len(e) : (e \o m)[i] = e[i]
    OBVIOUS
  <1>3. \A k \in 1..Len(m) : (e \o m)[Len(e) + k] = m[k]
    OBVIOUS
  <1>4. ASSUME NEW j \in DOMAIN (e \o m), j \notin DOMAIN e
        PROVE  \E k \in DOMAIN m : j = Len(e) + k /\ (e \o m)[j] = m[k]
    <2>1. j - Len(e) \in DOMAIN m /\ j = Len(e) + (j - Len(e))
      BY <1>1, <1>4
    <2> QED
      BY <2>1, <1>1, <1>3
  <1> QED
    BY <1>1, <1>2, <1>3, <1>4

\* The items of a sequence, whatever their order.
Items(q) == {q[i] : i \in DOMAIN q}

LEMMA ItemsOfBoth ==
    ASSUME NEW e \in Seq(Message), NEW m \in Seq(Message)
    PROVE  e \o m \in Seq(Message) /\ Items(e \o m) = Items(e) \cup Items(m)
  <1>1. \A i \in DOMAIN e : i \in DOMAIN (e \o m) /\ (e \o m)[i] = e[i]
    BY AppendedFacts
  <1>2. \A k \in DOMAIN m : Len(e) + k \in DOMAIN (e \o m) /\ (e \o m)[Len(e) + k] = m[k]
    BY AppendedFacts
  <1>3. \A j \in DOMAIN (e \o m) : (\E i \in DOMAIN e : (e \o m)[j] = e[i])
                                   \/ (\E k \in DOMAIN m : (e \o m)[j] = m[k])
    <2>1. DOMAIN (e \o m) = 1..Len(e \o m)
      OBVIOUS
    <2>2. \A j \in 1..Len(e \o m) :
             \/ j \in DOMAIN e /\ (e \o m)[j] = e[j]
             \/ \E k \in DOMAIN m : j = Len(e) + k /\ (e \o m)[j] = m[k]
      BY <2>1, AppendedFacts
    <2> QED
      BY <2>1, <2>2
  <1>4. Items(e \o m) \subseteq Items(e) \cup Items(m)
    BY <1>3 DEF Items
  <1>5. Items(e) \subseteq Items(e \o m)
    BY <1>1 DEF Items
  <1>6. Items(m) \subseteq Items(e \o m)
    BY <1>2 DEF Items
  <1> QED
    BY <1>4, <1>5, <1>6

\* What the queue holds after its head was taken.
LEMMA TailFacts ==
    ASSUME NEW e \in Seq(Message), e # <<>>
    PROVE  /\ Tail(e) \in Seq(Message)
           /\ Head(e) = e[1] /\ Head(e) \in Message /\ 1 \in DOMAIN e
           /\ \A i \in DOMAIN Tail(e) : i + 1 \in DOMAIN e /\ Tail(e)[i] = e[i + 1] /\ i \in Nat /\ i >= 1
           /\ \A j \in DOMAIN e : j \in Nat /\ (j = 1 \/ (j - 1 \in DOMAIN Tail(e) /\ Tail(e)[j - 1] = e[j]))
  <1>1. /\ Tail(e) \in Seq(Message) /\ Len(Tail(e)) = Len(e) - 1
        /\ DOMAIN Tail(e) = 1..Len(Tail(e)) /\ DOMAIN e = 1..Len(e) /\ Len(e) \in Nat /\ Len(e) >= 1
    OBVIOUS
  <1>2. \A i \in 1..Len(Tail(e)) : Tail(e)[i] = e[i + 1]
    OBVIOUS
  <1>3. Head(e) = e[1] /\ e[1] \in Message
    BY <1>1
  <1> QED
    BY <1>1, <1>2, <1>3

\* A function on 1..n is a sequence.
LEMMA FunctionIsSeq ==
    ASSUME NEW n \in Nat, NEW S, NEW f \in [1..n -> S]
    PROVE  f \in Seq(S) /\ DOMAIN f = 1..n
  OBVIOUS

\* An order of a finite set is a sequence of all its elements.
Lists(q, n, S) ==
    /\ DOMAIN q = 1..n
    /\ \A i \in 1..n : q[i] \in S
    /\ \A s \in S : \E i \in 1..n : q[i] = s

LEMMA OrderFacts ==
    ASSUME NEW S, IsFiniteSet(S), NEW q \in Orders(S)
    PROVE  \E n \in Nat : Lists(q, n, S)
  <1>1. Cardinality(S) \in Nat
    BY FS_CardinalityType
  <1> QED
    BY <1>1 DEF Orders, Lists

\* The fields of a message.
LEMMA MessageFields ==
    ASSUME NEW m \in Message
    PROVE  /\ m.type = "attachedToTarget" => m.target \in Targets /\ m.session \in Sessions
           /\ m.type = "detachedFromTarget" => m.session \in Sessions /\ m = Detached(m.session)
           /\ m.type = "targetDestroyed" => m.target \in Targets /\ m = Destroyed(m.target)
           /\ m.type = "executionContextCreated" => m.session \in Sessions /\ m.context \in Contexts
           /\ m.type = "executionContextDestroyed" =>
                  /\ m.session \in Sessions /\ m.context \in Contexts
                  /\ m = ContextDestroyed(m.session, m.context)
           /\ m.type = "executionContextsCleared" =>
                  m.session \in Sessions /\ m = ContextsCleared(m.session)
           /\ m.type = "frameNavigated" =>
                  /\ m.session \in Sessions /\ m.frame \in Frames
                  /\ m = FrameNavigated(m.session, m.frame)
           /\ m.type = "attachReply" =>
                  m.caller \in Callers /\ m.session \in Sessions \cup {NoSession}
           /\ m.type = "enableReply" =>
                  m.caller \in Callers /\ m.ok \in BOOLEAN /\ m = EnableReply(m.caller, m.ok)
  BY DEF Message, Detached, Destroyed, ContextDestroyed, ContextsCleared, FrameNavigated, EnableReply

\* The messages the browser sends.
LEMMA MessagesTyped ==
    /\ \A t \in Targets, s \in Sessions : Attached(t, s) \in Message
    /\ \A s \in Sessions : Detached(s) \in Message /\ ContextsCleared(s) \in Message
    /\ \A t \in Targets : Destroyed(t) \in Message
    /\ \A s \in Sessions, x \in Contexts :
          ContextCreated(s, x) \in Message /\ ContextDestroyed(s, x) \in Message
    /\ \A s \in Sessions, f \in Frames : FrameNavigated(s, f) \in Message
    /\ \A c \in Callers, s \in Sessions \cup {NoSession} : AttachReply(c, s) \in Message
    /\ \A c \in Callers, ok \in BOOLEAN : EnableReply(c, ok) \in Message
  BY DEF Message, Attached, Detached, Destroyed, ContextCreated, ContextDestroyed, ContextsCleared,
         FrameNavigated, AttachReply, EnableReply

-----------------------------------------------------------------------------
(* What the browser may send, and when.                                    *)

\* A session that is open has a living target; what is said to have ended has.
EndsAreTrue ==
    /\ \A s \in open : owner[s] \in alive
    /\ \A i \in DOMAIN events :
          /\ events[i].type = "targetDestroyed" => events[i].target \notin alive
          /\ events[i].type = "detachedFromTarget" =>
                events[i].session \notin open /\ owner[events[i].session] # NoTarget

\* The messages that make the router drop context x of session s.
EndsContext(m, s, x) ==
    \/ m = ContextDestroyed(s, x) \/ m = ContextsCleared(s) \/ m = FrameNavigated(s, FrameOf[x])
    \/ m = Detached(s) \/ m = Destroyed(HomeOf[x])

\* Message m is sent in a step that makes it true.
Sent(m) ==
    /\ m.type = "attachedToTarget" => m.session \in open' /\ owner'[m.session] = m.target
    /\ m.type = "detachedFromTarget" => m.session \in open \ open'
    /\ m.type = "targetDestroyed" => m.target \in alive \ alive'
    /\ m.type = "executionContextCreated" =>
          /\ m.session \in open' /\ m.session \in enabled'
          /\ owner'[m.session] = HomeOf[m.context]
          /\ world'[m.context] = "live"
    /\ m.type = "attachReply" =>
          /\ m.caller \in asked \ asked' /\ route[m.caller] = NoSession
          /\ m.session # NoSession =>
                m.session \in open' /\ owner'[m.session] = TargetOf[m.caller]
    /\ m.type = "enableReply" =>
          /\ m.caller \in asked \ asked' /\ route[m.caller] # NoSession
          /\ m.ok => route[m.caller] \in open /\ open' = open /\ alive' = alive

BrowserTypes ==
    /\ alive' \subseteq alive
    /\ owner' \in [Sessions -> Targets \cup {NoTarget}]
    /\ open' \subseteq Sessions
    /\ enabled' \subseteq Sessions /\ enabled \subseteq enabled'
    /\ world' \in [Contexts -> {"unborn", "live", "dead"}]
    /\ asked' \subseteq asked

SessionsReported(ms) ==
    /\ \A s \in Sessions : owner[s] # NoTarget => owner'[s] = owner[s]
    /\ \A s \in open' : owner'[s] \in alive' /\ (s \in open \/ owner[s] = NoTarget)
    /\ \A s \in open \ open' : \E k \in DOMAIN ms : ms[k] = Detached(s)

ContextsReported(ms) ==
    \A x \in Contexts : world[x] = "live" /\ world'[x] # "live" =>
        \A s \in open \cap enabled : owner[s] = HomeOf[x] =>
            \E k \in DOMAIN ms : EndsContext(ms[k], s, x)

\* One step of the browser, which sends ms.
BrowserSends(ms) ==
    /\ ms \in Seq(Message)
    /\ events' = events \o ms
    /\ UNCHANGED <<graphVars, callVars>>
    /\ BrowserTypes
    /\ SessionsReported(ms)
    /\ ContextsReported(ms)
    /\ \A k \in DOMAIN ms : Sent(ms[k])

\* A message in front of others, and one after others.
LEMMA OneMessage ==
    ASSUME NEW m \in Message
    PROVE  <<m>> \in Seq(Message) /\ DOMAIN <<m>> = {1} /\ <<m>>[1] = m
  OBVIOUS

\* The types of messages tell them apart.
LEMMA MessageTypes ==
    /\ \A t, s : Attached(t, s).type = "attachedToTarget"
                 /\ Attached(t, s).session = s /\ Attached(t, s).target = t
    /\ \A s : Detached(s).type = "detachedFromTarget" /\ Detached(s).session = s
    /\ \A t : Destroyed(t).type = "targetDestroyed" /\ Destroyed(t).target = t
    /\ \A s, x : ContextCreated(s, x).type = "executionContextCreated"
                 /\ ContextCreated(s, x).session = s /\ ContextCreated(s, x).context = x
    /\ \A s, x : ContextDestroyed(s, x).type = "executionContextDestroyed"
                 /\ ContextDestroyed(s, x).session = s /\ ContextDestroyed(s, x).context = x
    /\ \A s : ContextsCleared(s).type = "executionContextsCleared" /\ ContextsCleared(s).session = s
    /\ \A s, f : FrameNavigated(s, f).type = "frameNavigated"
                 /\ FrameNavigated(s, f).session = s /\ FrameNavigated(s, f).frame = f
    /\ \A c, s : AttachReply(c, s).type = "attachReply"
                 /\ AttachReply(c, s).caller = c /\ AttachReply(c, s).session = s
    /\ \A c, ok : EnableReply(c, ok).type = "enableReply"
                  /\ EnableReply(c, ok).caller = c /\ EnableReply(c, ok).ok = ok
  BY DEF Attached, Detached, Destroyed, ContextCreated, ContextDestroyed, ContextsCleared,
         FrameNavigated, AttachReply, EnableReply

\* A step of the browser keeps to the contract.
LEMMA BrowserContract ==
    ASSUME TypeOK, EndsAreTrue, Browser
    PROVE  \E ms : BrowserSends(ms)
  <1> USE DEF TypeOK
  <1>0. /\ IsFiniteSet(open) /\ \A t : IsFiniteSet(SessionsOf(t)) /\ IsFiniteSet(Listening(t))
        /\ \A t : IsFiniteSet(LiveContexts(t))
    BY FS_Subset DEF SessionsOf, Listening, LiveContexts
  <1>1. ASSUME NEW t \in Targets, NEW s \in Sessions, NEW more, more \in Seq(Message),
               Attach(t, s, more), asked' \subseteq asked,
               \A k \in DOMAIN more : more[k].type = "attachReply" /\ Sent(more[k])
        PROVE  \E ms : BrowserSends(ms)
    <2> DEFINE ms == <<Attached(t, s)>> \o more
    <2>1. /\ <<Attached(t, s)>> \in Seq(Message) /\ DOMAIN <<Attached(t, s)>> = {1}
          /\ <<Attached(t, s)>>[1] = Attached(t, s)
      BY OneMessage, MessagesTyped
    <2>2. /\ ms \in Seq(Message)
          /\ \A k \in DOMAIN ms : ms[k] = Attached(t, s) \/ \E l \in DOMAIN more : ms[k] = more[l]
      BY <2>1, <1>1, AppendedFacts
    <2>3. events' = events \o ms /\ UNCHANGED <<graphVars, callVars>>
      BY <1>1 DEF Attach, Emit
    <2>4. /\ owner' = [owner EXCEPT ![s] = t] /\ owner[s] = NoTarget /\ t \in alive
          /\ open' = open \cup {s} /\ UNCHANGED <<alive, enabled, world>>
      BY <1>1 DEF Attach
    <2>5. BrowserTypes
      BY <2>4, <1>1 DEF BrowserTypes
    <2>6. SessionsReported(ms)
      BY <2>4 DEF SessionsReported, EndsAreTrue
    <2>7. ContextsReported(ms)
      BY <2>4 DEF ContextsReported
    <2>8. \A k \in DOMAIN ms : Sent(ms[k])
      <3>1. Sent(Attached(t, s))
        BY <2>4, MessageTypes DEF Sent
      <3> QED
        BY <2>2, <3>1, <1>1
    <2> HIDE DEF ms
    <2> QED
      BY <2>2, <2>3, <2>5, <2>6, <2>7, <2>8 DEF BrowserSends
  <1>2. ASSUME NEW t \in Targets, AttachElsewhere(t)
        PROVE  \E ms : BrowserSends(ms)
    <2>1. PICK s \in Sessions : Attach(t, s, <<>>)
      BY <1>2 DEF AttachElsewhere
    <2>2. UNCHANGED asked /\ <<>> \in Seq(Message) /\ DOMAIN <<>> = {}
      BY <1>2 DEF AttachElsewhere
    <2> QED
      BY <1>1, <2>1, <2>2
  <1>3. ASSUME NEW c \in Callers, BrowserAttaches(c)
        PROVE  \E ms : BrowserSends(ms)
    <2>1. c \in asked /\ route[c] = NoSession /\ asked' = asked \ {c}
      BY <1>3 DEF BrowserAttaches
    <2>2. ASSUME NEW s \in Sessions, Attach(TargetOf[c], s, <<AttachReply(c, s)>>)
          PROVE  \E ms : BrowserSends(ms)
      <3> DEFINE r == AttachReply(c, s)
      <3>1. <<r>> \in Seq(Message) /\ DOMAIN <<r>> = {1} /\ <<r>>[1] = r
        BY OneMessage, MessagesTyped
      <3>2. s \in open' /\ owner'[s] = TargetOf[c]
        BY <2>2 DEF Attach
      <3>3. r.type = "attachReply" /\ Sent(r)
        BY <2>1, <3>2, MessageTypes DEF Sent
      <3>4. TargetOf[c] \in Targets /\ asked' \subseteq asked
        BY <2>1
      <3> HIDE DEF r
      <3>5. Attach(TargetOf[c], s, <<r>>)
        BY <2>2 DEF r
      <3>6. \A k \in DOMAIN <<r>> : <<r>>[k].type = "attachReply" /\ Sent(<<r>>[k])
        BY <3>1, <3>3
      <3> QED
        BY <1>1, <3>1, <3>4, <3>5, <3>6
    <2>3. ASSUME Emit(<<AttachReply(c, NoSession)>>), UNCHANGED <<browserVars, graphVars, callVars>>
          PROVE  \E ms : BrowserSends(ms)
      <3> DEFINE r == AttachReply(c, NoSession)
      <3>1. <<r>> \in Seq(Message) /\ DOMAIN <<r>> = {1} /\ <<r>>[1] = r
        BY OneMessage, MessagesTyped
      <3>3. Sent(r)
        BY <2>1, MessageTypes DEF Sent
      <3>4. events' = events \o <<r>> /\ UNCHANGED <<alive, owner, open, enabled, world>>
        BY <2>3 DEF Emit, browserVars
      <3> HIDE DEF r
      <3>5. BrowserTypes /\ SessionsReported(<<r>>) /\ ContextsReported(<<r>>)
        BY <3>4, <2>1 DEF BrowserTypes, SessionsReported, ContextsReported, EndsAreTrue
      <3>6. \A k \in DOMAIN <<r>> : Sent(<<r>>[k])
        BY <3>1, <3>3
      <3> QED
        BY <2>3, <3>1, <3>4, <3>5, <3>6 DEF BrowserSends
    <2> QED
      BY <1>3, <2>2, <2>3 DEF BrowserAttaches
  <1>4. ASSUME NEW c \in Callers, BrowserEnables(c)
        PROVE  \E ms : BrowserSends(ms)
    <2> DEFINE s == route[c]
    <2>1. /\ c \in asked /\ s # NoSession /\ asked' = asked \ {c}
          /\ UNCHANGED <<alive, owner, open, world, graphVars, callVars>>
          /\ s \in Sessions
      BY <1>4 DEF BrowserEnables
    <2>2. \A ok \in {TRUE, FALSE} : EnableReply(c, ok) \in Message
      BY MessagesTyped
    <2>9. \A ok \in {TRUE, FALSE} : (ok = TRUE => s \in open /\ open' = open /\ alive' = alive)
                                       => Sent(EnableReply(c, ok))
      BY <2>1, MessageTypes DEF Sent
    <2>3. CASE s \in open
      <3> DEFINE known == IF s \in enabled THEN {} ELSE LiveContexts(owner[s])
      <3>1. PICK q \in Orders(known) :
                Emit([i \in DOMAIN q |-> ContextCreated(s, q[i])] \o <<EnableReply(c, TRUE)>>)
        BY <1>4, <2>3 DEF BrowserEnables
      <3>2. enabled' = enabled \cup {s}
        BY <1>4, <2>3 DEF BrowserEnables
      <3>3. IsFiniteSet(known) /\ known \subseteq LiveContexts(owner[s])
        BY <1>0, FS_EmptySet
      <3> HIDE DEF known
      <3>14. PICK n \in Nat : Lists(q, n, known)
        BY <3>1, <3>3, OrderFacts
      <3>4. DOMAIN q = 1..n /\ \A i \in 1..n : q[i] \in known
        BY <3>14 DEF Lists
      <3> DEFINE created == [i \in DOMAIN q |-> ContextCreated(s, q[i])]
                 ms == created \o <<EnableReply(c, TRUE)>>
      <3>5. /\ created \in Seq(Message) /\ DOMAIN created = 1..n
            /\ \A i \in 1..n : created[i] = ContextCreated(s, q[i])
        <4>1. \A i \in 1..n : q[i] \in Contexts
          BY <3>3, <3>4 DEF LiveContexts
        <4>2. \A i \in 1..n : ContextCreated(s, q[i]) \in Message
          BY <4>1, <2>1, MessagesTyped
        <4>3. created \in [1..n -> Message]
          BY <4>2, <3>4
        <4> QED
          BY <4>3, <3>4, FunctionIsSeq
      <3>6. \A i \in 1..n : Sent(created[i])
        <4>1. ASSUME NEW x \in LiveContexts(owner[s])
              PROVE  Sent(ContextCreated(s, x))
          BY <4>1, <2>1, <2>3, <3>2, MessageTypes DEF Sent, LiveContexts
        <4> QED
          BY <4>1, <3>3, <3>4, <3>5
      <3> HIDE DEF created
      <3>11. PICK r : r = EnableReply(c, TRUE)
        OBVIOUS
      <3>12. /\ <<r>> \in Seq(Message) /\ DOMAIN <<r>> = {1} /\ <<r>>[1] = r
             /\ Sent(r)
        BY <3>11, <2>1, <2>2, <2>3, <2>9, OneMessage
      <3>7. /\ ms \in Seq(Message)
            /\ \A k \in DOMAIN ms : (\E i \in DOMAIN created : ms[k] = created[i]) \/ ms[k] = r
        <4>1. ms = created \o <<r>>
          BY <3>11
        <4> HIDE DEF ms
        <4> QED
          BY <4>1, <3>12, <3>5, AppendedFacts
      <3>8. events' = events \o ms
        BY <3>1 DEF Emit, created
      <3>9. BrowserTypes /\ SessionsReported(ms) /\ ContextsReported(ms)
        BY <2>1, <3>2 DEF BrowserTypes, SessionsReported, ContextsReported, EndsAreTrue
      <3>10. \A k \in DOMAIN ms : Sent(ms[k])
        BY <3>7, <3>5, <3>6, <3>12
      <3> HIDE DEF ms
      <3> QED
        BY <2>1, <3>7, <3>8, <3>9, <3>10 DEF BrowserSends
    <2>4. CASE s \notin open
      <3> DEFINE r == EnableReply(c, FALSE)
      <3>1. events' = events \o <<r>> /\ UNCHANGED enabled
        BY <1>4, <2>4 DEF BrowserEnables, Emit
      <3>2. <<r>> \in Seq(Message) /\ DOMAIN <<r>> = {1} /\ <<r>>[1] = r /\ Sent(r)
        BY <2>2, <2>9, OneMessage
      <3> HIDE DEF r
      <3>3. BrowserTypes /\ SessionsReported(<<r>>) /\ ContextsReported(<<r>>)
        BY <2>1, <3>1 DEF BrowserTypes, SessionsReported, ContextsReported, EndsAreTrue
      <3>4. \A k \in DOMAIN <<r>> : Sent(<<r>>[k])
        BY <3>2
      <3> QED
        BY <2>1, <3>1, <3>2, <3>3, <3>4 DEF BrowserSends
    <2> QED
      BY <2>3, <2>4
  <1>5. ASSUME NEW s \in Sessions, DetachSession(s)
        PROVE  \E ms : BrowserSends(ms)
    <2> DEFINE d == Detached(s)
    <2>1. /\ s \in open /\ open' = open \ {s} /\ events' = events \o <<d>>
          /\ UNCHANGED <<alive, owner, enabled, world, asked, graphVars, callVars>>
      BY <1>5 DEF DetachSession, Emit
    <2>2. <<d>> \in Seq(Message) /\ DOMAIN <<d>> = {1} /\ <<d>>[1] = d
      BY OneMessage, MessagesTyped
    <2>3. Sent(d)
      BY <2>1, MessageTypes DEF Sent
    <2>4. BrowserTypes /\ ContextsReported(<<d>>)
      BY <2>1 DEF BrowserTypes, ContextsReported
    <2>5. SessionsReported(<<d>>)
      BY <2>1, <2>2 DEF SessionsReported, EndsAreTrue
    <2>6. \A k \in DOMAIN <<d>> : Sent(<<d>>[k])
      BY <2>2, <2>3
    <2> HIDE DEF d
    <2> QED
      BY <2>1, <2>2, <2>4, <2>5, <2>6 DEF BrowserSends
  <1>6. ASSUME NEW t \in Targets, CloseTarget(t)
        PROVE  \E ms : BrowserSends(ms)
    <2>1. /\ t \in alive /\ alive' = alive \ {t} /\ open' = open \ SessionsOf(t)
          /\ world' = [x \in Contexts |-> IF x \in LiveContexts(t) THEN "dead" ELSE world[x]]
          /\ UNCHANGED <<owner, enabled, asked, graphVars, callVars>>
      BY <1>6 DEF CloseTarget
    <2>2. PICK q \in Orders(SessionsOf(t)) :
             LET detached == [i \in DOMAIN q |-> Detached(q[i])]
             IN  Emit(detached \o <<Destroyed(t)>>) \/ Emit(<<Destroyed(t)>> \o detached)
      BY <1>6 DEF CloseTarget
    <2>20. PICK n \in Nat : Lists(q, n, SessionsOf(t))
      BY <1>0, OrderFacts
    <2>3. /\ DOMAIN q = 1..n /\ \A i \in 1..n : q[i] \in SessionsOf(t)
          /\ \A s \in SessionsOf(t) : \E i \in 1..n : q[i] = s
      BY <2>20 DEF Lists
    <2> DEFINE detached == [i \in DOMAIN q |-> Detached(q[i])]
    <2>4. /\ detached \in Seq(Message) /\ DOMAIN detached = 1..n
          /\ \A i \in 1..n : detached[i] = Detached(q[i])
      <3>1. \A i \in 1..n : Detached(q[i]) \in Message
        BY <2>3, MessagesTyped DEF SessionsOf
      <3>2. detached \in [1..n -> Message]
        BY <3>1, <2>3
      <3> QED
        BY <3>2, <2>3, FunctionIsSeq
    <2>5. \A i \in 1..n : Sent(detached[i])
      <3>1. ASSUME NEW s \in SessionsOf(t)
            PROVE  Sent(Detached(s))
        BY <2>1, MessageTypes DEF Sent, SessionsOf
      <3> QED
        BY <3>1, <2>3, <2>4
    <2>6. \A s \in SessionsOf(t) : \E i \in 1..n : detached[i] = Detached(s)
      BY <2>3, <2>4
    <2>7. PICK d : d = Destroyed(t)
      OBVIOUS
    <2>8. <<d>> \in Seq(Message) /\ DOMAIN <<d>> = {1} /\ <<d>>[1] = d /\ Sent(d)
      <3>1. d \in Message
        BY <2>7, MessagesTyped
      <3>2. Sent(d)
        BY <2>1, <2>7, MessageTypes DEF Sent
      <3> QED
        BY <3>1, <3>2, OneMessage
    <2>9. PICK ms : events' = events \o ms /\ (ms = detached \o <<d>> \/ ms = <<d>> \o detached)
      BY <2>2, <2>7 DEF Emit
    <2> HIDE DEF detached
    <2>10. /\ ms \in Seq(Message)
           /\ \A k \in DOMAIN ms : (\E i \in DOMAIN detached : ms[k] = detached[i]) \/ ms[k] = d
           /\ \A i \in DOMAIN detached : \E k \in DOMAIN ms : ms[k] = detached[i]
      <3>1. PICK e : e = <<d>>
        OBVIOUS
      <3>2. e \in Seq(Message) /\ detached \in Seq(Message) /\ (ms = detached \o e \/ ms = e \o detached)
        BY <3>1, <2>4, <2>8, <2>9
      <3>3. ms \in Seq(Message) /\ Items(ms) = Items(detached) \cup Items(e)
        <4>1. detached \o e \in Seq(Message) /\ Items(detached \o e) = Items(detached) \cup Items(e)
          BY <3>2, ItemsOfBoth
        <4>2. e \o detached \in Seq(Message) /\ Items(e \o detached) = Items(e) \cup Items(detached)
          BY <3>2, ItemsOfBoth
        <4> QED
          BY <3>2, <4>1, <4>2
      <3>4. Items(e) = {d}
        BY <3>1, <2>8 DEF Items
      <3>5. \A k \in DOMAIN ms : ms[k] \in Items(detached) \cup {d}
        BY <3>3, <3>4 DEF Items
      <3>6. \A i \in DOMAIN detached : detached[i] \in Items(ms)
        BY <3>3 DEF Items
      <3> QED
        BY <3>3, <3>5, <3>6 DEF Items
    <2>11. \A k \in DOMAIN ms : Sent(ms[k])
      BY <2>4, <2>5, <2>8, <2>10
    <2>12. BrowserTypes
      BY <2>1 DEF BrowserTypes
    <2>13. \A s \in SessionsOf(t) : \E k \in DOMAIN ms : ms[k] = Detached(s)
      BY <2>4, <2>6, <2>10
    <2>14. SessionsReported(ms)
      BY <2>1, <2>13 DEF SessionsReported, SessionsOf, EndsAreTrue
    <2>15. ContextsReported(ms)
      BY <2>1, <2>13 DEF ContextsReported, SessionsOf, LiveContexts, EndsContext
    <2> QED
      BY <2>1, <2>9, <2>10, <2>11, <2>12, <2>14, <2>15 DEF BrowserSends
  <1>7. ASSUME NEW x \in Contexts, ContextStarts(x)
        PROVE  \E ms : BrowserSends(ms)
    <2>1. /\ HomeOf[x] \in alive /\ world' = [world EXCEPT ![x] = "live"]
          /\ UNCHANGED <<alive, owner, open, enabled, asked, graphVars, callVars>>
      BY <1>7 DEF ContextStarts
    <2>2. PICK q \in Orders(Listening(HomeOf[x])) :
             Emit([i \in DOMAIN q |-> ContextCreated(q[i], x)])
      BY <1>7 DEF ContextStarts
    <2>20. PICK n \in Nat : Lists(q, n, Listening(HomeOf[x]))
      BY <1>0, OrderFacts
    <2>3. DOMAIN q = 1..n /\ \A i \in 1..n : q[i] \in Listening(HomeOf[x])
      BY <2>20 DEF Lists
    <2>4. PICK ms : ms = [i \in DOMAIN q |-> ContextCreated(q[i], x)]
      OBVIOUS
    <2>5. /\ ms \in Seq(Message) /\ DOMAIN ms = 1..n
          /\ \A i \in 1..n : ms[i] = ContextCreated(q[i], x)
      <3>1. \A i \in 1..n : ContextCreated(q[i], x) \in Message
        BY <2>3, MessagesTyped DEF Listening, SessionsOf
      <3>2. ms \in [1..n -> Message]
        BY <3>1, <2>3, <2>4
      <3> QED
        BY <3>2, <2>3, <2>4, FunctionIsSeq
    <2>6. \A i \in 1..n : Sent(ms[i])
      <3>1. ASSUME NEW s \in Listening(HomeOf[x])
            PROVE  Sent(ContextCreated(s, x))
        BY <2>1, MessageTypes DEF Sent, Listening, SessionsOf
      <3> QED
        BY <3>1, <2>3, <2>5
    <2>7. events' = events \o ms
      BY <2>2, <2>4 DEF Emit
    <2>8. BrowserTypes /\ SessionsReported(ms) /\ ContextsReported(ms)
      BY <2>1 DEF BrowserTypes, SessionsReported, ContextsReported, EndsAreTrue
    <2> QED
      BY <2>1, <2>5, <2>6, <2>7, <2>8 DEF BrowserSends
  <1>8. ASSUME NEW x \in Contexts, ContextEnds(x)
        PROVE  \E ms : BrowserSends(ms)
    <2>1. /\ world' = [world EXCEPT ![x] = "dead"]
          /\ UNCHANGED <<alive, owner, open, enabled, asked, graphVars, callVars>>
      BY <1>8 DEF ContextEnds
    <2>2. PICK q \in Orders(Listening(HomeOf[x])) :
             Emit([i \in DOMAIN q |-> ContextDestroyed(q[i], x)])
      BY <1>8 DEF ContextEnds
    <2>20. PICK n \in Nat : Lists(q, n, Listening(HomeOf[x]))
      BY <1>0, OrderFacts
    <2>3. /\ DOMAIN q = 1..n /\ \A i \in 1..n : q[i] \in Listening(HomeOf[x])
          /\ \A s \in Listening(HomeOf[x]) : \E i \in 1..n : q[i] = s
      BY <2>20 DEF Lists
    <2>4. PICK ms : ms = [i \in DOMAIN q |-> ContextDestroyed(q[i], x)]
      OBVIOUS
    <2>5. /\ ms \in Seq(Message) /\ DOMAIN ms = 1..n
          /\ \A i \in 1..n : ms[i] = ContextDestroyed(q[i], x)
      <3>1. \A i \in 1..n : ContextDestroyed(q[i], x) \in Message
        BY <2>3, MessagesTyped DEF Listening, SessionsOf
      <3>2. ms \in [1..n -> Message]
        BY <3>1, <2>3, <2>4
      <3> QED
        BY <3>2, <2>3, <2>4, FunctionIsSeq
    <2>6. \A i \in 1..n : Sent(ms[i])
      BY <2>5, MessageTypes DEF Sent
    <2>7. events' = events \o ms
      BY <2>2, <2>4 DEF Emit
    <2>8. BrowserTypes /\ SessionsReported(ms)
      BY <2>1 DEF BrowserTypes, SessionsReported, EndsAreTrue
    <2>9. ContextsReported(ms)
      <3>1. \A s \in Listening(HomeOf[x]) : \E k \in DOMAIN ms : ms[k] = ContextDestroyed(s, x)
        BY <2>3, <2>5
      <3> QED
        BY <2>1, <3>1 DEF ContextsReported, Listening, SessionsOf, EndsContext
    <2> QED
      BY <2>1, <2>5, <2>6, <2>7, <2>8, <2>9 DEF BrowserSends
  <1>9. ASSUME NEW t \in Targets, NEW f \in Frames, Navigate(t, f)
        PROVE  \E ms : BrowserSends(ms)
    <2>1. UNCHANGED <<alive, owner, open, enabled, asked, graphVars, callVars>>
      BY <1>9 DEF Navigate
    <2>2. PICK q \in Orders(Listening(t)) :
             \/ /\ world' = [x \in Contexts |-> IF x \in LiveContexts(t) THEN "dead" ELSE world[x]]
                /\ Emit([i \in DOMAIN q |-> ContextsCleared(q[i])])
             \/ /\ world' = [x \in Contexts |->
                                IF x \in LiveContexts(t) /\ FrameOf[x] = f THEN "dead" ELSE world[x]]
                /\ Emit([i \in DOMAIN q |-> FrameNavigated(q[i], f)])
      BY <1>9 DEF Navigate
    <2>20. PICK n \in Nat : Lists(q, n, Listening(t))
      BY <1>0, OrderFacts
    <2>3. /\ DOMAIN q = 1..n /\ \A i \in 1..n : q[i] \in Listening(t)
          /\ \A s \in Listening(t) : \E i \in 1..n : q[i] = s
      BY <2>20 DEF Lists
    <2>4. \A i \in 1..n : q[i] \in Sessions
      BY <2>3 DEF Listening, SessionsOf
    <2>5. CASE /\ world' = [x \in Contexts |-> IF x \in LiveContexts(t) THEN "dead" ELSE world[x]]
               /\ Emit([i \in DOMAIN q |-> ContextsCleared(q[i])])
      <3>1. PICK ms : ms = [i \in DOMAIN q |-> ContextsCleared(q[i])]
        OBVIOUS
      <3>2. /\ ms \in Seq(Message) /\ DOMAIN ms = 1..n
            /\ \A i \in 1..n : ms[i] = ContextsCleared(q[i])
        <4>1. \A i \in 1..n : ContextsCleared(q[i]) \in Message
          BY <2>4, MessagesTyped
        <4>2. ms \in [1..n -> Message]
          BY <4>1, <2>3, <3>1
        <4> QED
          BY <4>2, <2>3, <3>1, FunctionIsSeq
      <3>3. \A i \in 1..n : Sent(ms[i])
        BY <3>2, MessageTypes DEF Sent
      <3>4. events' = events \o ms
        BY <2>5, <3>1 DEF Emit
      <3>5. BrowserTypes /\ SessionsReported(ms)
        BY <2>1, <2>5 DEF BrowserTypes, SessionsReported, EndsAreTrue
      <3>6. ContextsReported(ms)
        <4>1. \A s \in Listening(t) : \E k \in DOMAIN ms : ms[k] = ContextsCleared(s)
          BY <2>3, <3>2
        <4> QED
          BY <2>1, <2>5, <4>1
             DEF ContextsReported, Listening, SessionsOf, LiveContexts, EndsContext
      <3> QED
        BY <2>1, <3>2, <3>3, <3>4, <3>5, <3>6 DEF BrowserSends
    <2>6. CASE /\ world' = [x \in Contexts |->
                               IF x \in LiveContexts(t) /\ FrameOf[x] = f THEN "dead" ELSE world[x]]
               /\ Emit([i \in DOMAIN q |-> FrameNavigated(q[i], f)])
      <3>1. PICK ms : ms = [i \in DOMAIN q |-> FrameNavigated(q[i], f)]
        OBVIOUS
      <3>2. /\ ms \in Seq(Message) /\ DOMAIN ms = 1..n
            /\ \A i \in 1..n : ms[i] = FrameNavigated(q[i], f)
        <4>1. \A i \in 1..n : FrameNavigated(q[i], f) \in Message
          BY <2>4, MessagesTyped
        <4>2. ms \in [1..n -> Message]
          BY <4>1, <2>3, <3>1
        <4> QED
          BY <4>2, <2>3, <3>1, FunctionIsSeq
      <3>3. \A i \in 1..n : Sent(ms[i])
        BY <3>2, MessageTypes DEF Sent
      <3>4. events' = events \o ms
        BY <2>6, <3>1 DEF Emit
      <3>5. BrowserTypes /\ SessionsReported(ms)
        BY <2>1, <2>6 DEF BrowserTypes, SessionsReported, EndsAreTrue
      <3>6. ContextsReported(ms)
        <4>1. \A s \in Listening(t) : \E k \in DOMAIN ms : ms[k] = FrameNavigated(s, f)
          BY <2>3, <3>2
        <4> QED
          BY <2>1, <2>6, <4>1
             DEF ContextsReported, Listening, SessionsOf, LiveContexts, EndsContext
      <3> QED
        BY <2>1, <3>2, <3>3, <3>4, <3>5, <3>6 DEF BrowserSends
    <2> QED
      BY <2>2, <2>5, <2>6
  <1> QED
    BY <1>2, <1>3, <1>4, <1>5, <1>6, <1>7, <1>8, <1>9 DEF Browser

-----------------------------------------------------------------------------
(* Type correctness.                                                       *)

\* A step that handles a message takes it from the queue.
Reads ==
    /\ events' = Tail(events)
    /\ events' \in Seq(Message)
    /\ Head(events) \in Message /\ Head(events) = events[1] /\ 1 \in DOMAIN events
    /\ \A i \in DOMAIN events' : i + 1 \in DOMAIN events /\ events'[i] = events[i + 1]
                                 /\ i \in Nat /\ i >= 1
    /\ \A j \in DOMAIN events :
          j \in Nat /\ (j = 1 \/ (j - 1 \in DOMAIN events' /\ events'[j - 1] = events[j]))
    /\ UNCHANGED <<alive, owner, open, enabled, world, asked>>
    /\ Chunked \/ MicrotasksDone

LEMMA ReceiveReads ==
    ASSUME TypeOK, NEW type, Receive(type)
    PROVE  Reads /\ Head(events).type = type
  <1>1. events \in Seq(Message) /\ events # <<>> /\ events' = Tail(events)
    BY DEF TypeOK, Receive
  <1>2. /\ UNCHANGED <<alive, owner, open, enabled, world, asked>>
        /\ Chunked \/ MicrotasksDone
        /\ Head(events).type = type
    BY DEF Receive, browserVars
  <1> QED
    BY <1>1, <1>2, TailFacts DEF Reads

LEMMA HandlerReads ==
    ASSUME TypeOK, HandleMessage
    PROVE  Reads
  <1>1. \E type : Receive(type)
    BY DEF HandleMessage, OnAttachedToTarget, OnDetachedFromTarget, OnTargetDestroyed,
           OnExecutionContextCreated, OnContextsInvalidated, OnAttachReply, OnEnableReply
  <1> QED
    BY <1>1, ReceiveReads

\* The calls' own steps leave the browser and the queue alone.
LEMMA CallQuiet ==
    ASSUME Call
    PROVE  UNCHANGED <<alive, owner, open, enabled, world, events>>
  BY DEF Call, EnsureRoute, SendOnSession, Proceed, RecordAttachment, FindContext, SendCommand,
         Timeout, browserVars

GraphTypeOK ==
    /\ sessionId_from_targetId \in [Targets -> Sessions \cup {NoSession}]
    /\ targetId_from_sessionId \in [Sessions -> Targets \cup {NoTarget}]
    /\ contexts \in [Contexts -> Sessions \cup {NoSession}]

CallTypeOK ==
    /\ phase \in [Callers -> Phases]
    /\ route \in [Callers -> Sessions \cup {NoSession}]
    /\ chosen \in [Callers -> Contexts \cup {NoContext}]

LEMMA RecordTargetSessionTyped ==
    ASSUME TypeOK, NEW t \in Targets, NEW s \in Sessions, RecordTargetSession(t, s)
    PROVE  GraphTypeOK'
  BY DEF TypeOK, GraphTypeOK, RecordTargetSession

LEMMA ForgetSessionTyped ==
    ASSUME TypeOK, NEW s \in Sessions, NEW gone, ForgetSession(s, gone)
    PROVE  GraphTypeOK' /\ CallTypeOK'
  BY DEF TypeOK, GraphTypeOK, CallTypeOK, ForgetSession, ForgetContexts, Phases

LEMMA ForgetTargetTyped ==
    ASSUME TypeOK, NEW t \in Targets, ForgetTarget(t)
    PROVE  GraphTypeOK' /\ CallTypeOK'
  <1> DEFINE s == sessionId_from_targetId[t]
             gone == {x \in Contexts : contexts[x] # NoSession /\ HomeOf[x] = t}
  <1>1. CASE s # NoSession
    <2>1. s \in Sessions /\ ForgetSession(s, gone)
      BY <1>1 DEF ForgetTarget, TypeOK
    <2> HIDE DEF s, gone
    <2> QED
      BY <2>1, ForgetSessionTyped
  <1>2. CASE s = NoSession
    BY <1>2 DEF ForgetTarget, ForgetContexts, TypeOK, GraphTypeOK, CallTypeOK, callVars
  <1> QED
    BY <1>1, <1>2

LEMMA RecordExecutionContextTyped ==
    ASSUME TypeOK, NEW s \in Sessions, NEW x \in Contexts, RecordExecutionContext(s, x)
    PROVE  GraphTypeOK' /\ CallTypeOK'
  <1>1. CASE targetId_from_sessionId[s] = NoTarget
    BY <1>1 DEF TypeOK, GraphTypeOK, CallTypeOK, RecordExecutionContext, graphVars, callVars
  <1>2. CASE targetId_from_sessionId[s] # NoTarget
    <2>1. GraphTypeOK'
      BY <1>2 DEF TypeOK, GraphTypeOK, RecordExecutionContext
    <2>2. phase' \in [Callers -> Phases]
      BY <1>2 DEF TypeOK, RecordExecutionContext, Phases
    <2>3. UNCHANGED route /\ chosen' \in [Callers -> Contexts \cup {NoContext}]
      BY <1>2 DEF TypeOK, RecordExecutionContext
    <2> QED
      BY <2>1, <2>2, <2>3 DEF TypeOK, CallTypeOK
  <1> QED
    BY <1>1, <1>2

\* A message's handler keeps the types of the graph and the calls.
LEMMA HandlerTyped ==
    ASSUME TypeOK, HandleMessage
    PROVE  GraphTypeOK' /\ CallTypeOK'
  <1> DEFINE m == Head(events)
  <1>0. m \in Message
    BY HandlerReads DEF Reads
  <1>1. CASE OnAttachedToTarget
    <2>1. m.type = "attachedToTarget" /\ RecordTargetSession(m.target, m.session) /\ UNCHANGED callVars
      BY <1>1, ReceiveReads DEF OnAttachedToTarget
    <2>2. m.target \in Targets /\ m.session \in Sessions
      BY <1>0, <2>1, MessageFields
    <2>3. GraphTypeOK'
      BY <2>1, <2>2, RecordTargetSessionTyped
    <2> QED
      BY <2>1, <2>3 DEF TypeOK, CallTypeOK, callVars
  <1>2. CASE OnDetachedFromTarget
    <2>1. m.type = "detachedFromTarget" /\ ForgetSession(m.session, {})
      BY <1>2, ReceiveReads DEF OnDetachedFromTarget
    <2>2. m.session \in Sessions
      BY <1>0, <2>1, MessageFields
    <2> QED
      BY <2>1, <2>2, ForgetSessionTyped
  <1>3. CASE OnTargetDestroyed
    <2>1. m.type = "targetDestroyed" /\ ForgetTarget(m.target)
      BY <1>3, ReceiveReads DEF OnTargetDestroyed
    <2>2. m.target \in Targets
      BY <1>0, <2>1, MessageFields
    <2> QED
      BY <2>1, <2>2, ForgetTargetTyped
  <1>4. CASE OnExecutionContextCreated
    <2>1. m.type = "executionContextCreated" /\ RecordExecutionContext(m.session, m.context)
      BY <1>4, ReceiveReads DEF OnExecutionContextCreated
    <2>2. m.session \in Sessions /\ m.context \in Contexts
      BY <1>0, <2>1, MessageFields
    <2> QED
      BY <2>1, <2>2, RecordExecutionContextTyped
  <1>5. CASE OnContextsInvalidated
    <2>1. /\ UNCHANGED <<sessionId_from_targetId, targetId_from_sessionId, callVars>>
          /\ UNCHANGED contexts \/ \E gone : ForgetContexts(gone)
      BY <1>5 DEF OnContextsInvalidated
    <2> QED
      BY <2>1 DEF TypeOK, GraphTypeOK, CallTypeOK, callVars, ForgetContexts
  <1>6. CASE OnAttachReply
    <2>1. m.type = "attachReply"
      BY <1>6, ReceiveReads DEF OnAttachReply
    <2>2. m.caller \in Callers /\ m.session \in Sessions \cup {NoSession}
      BY <1>0, <2>1, MessageFields
    <2>3. UNCHANGED <<graphVars, chosen>>
      BY <1>6 DEF OnAttachReply
    <2>4. phase' \in [Callers -> Phases] /\ route' \in [Callers -> Sessions \cup {NoSession}]
      <3>1. \/ UNCHANGED <<phase, route>>
            \/ /\ \E p \in {"failed", "attached"} : phase' = [phase EXCEPT ![m.caller] = p]
               /\ route' = [route EXCEPT ![m.caller] = m.session]
        BY <1>6 DEF OnAttachReply
      <3>2. {"failed", "attached"} \subseteq Phases
        BY DEF Phases
      <3>3. phase \in [Callers -> Phases] /\ route \in [Callers -> Sessions \cup {NoSession}]
        BY DEF TypeOK
      <3> HIDE DEF m
      <3>4. CASE UNCHANGED <<phase, route>>
        BY <3>3, <3>4
      <3>5. CASE ~UNCHANGED <<phase, route>>
        <4>1. PICK p \in Phases : phase' = [phase EXCEPT ![m.caller] = p]
          BY <3>1, <3>2, <3>5
        <4>2. route' = [route EXCEPT ![m.caller] = m.session]
          BY <3>1, <3>5
        <4> QED
          BY <2>2, <3>3, <4>1, <4>2
      <3> QED
        BY <3>4, <3>5
    <2> QED
      BY <2>3, <2>4 DEF TypeOK, GraphTypeOK, CallTypeOK, graphVars
  <1>7. CASE OnEnableReply
    <2>1. UNCHANGED <<graphVars, route, chosen>> /\ phase' \in [Callers -> Phases]
      BY <1>7 DEF OnEnableReply, TypeOK, Phases
    <2> QED
      BY <2>1 DEF TypeOK, GraphTypeOK, CallTypeOK, graphVars
  <1> QED
    BY <1>1, <1>2, <1>3, <1>4, <1>5, <1>6, <1>7 DEF HandleMessage

\* A call has a session once it was attached or found its route.
Routed == {"attached", "routed", "enabling", "enabled", "waiting", "ready", "sent"}

CallsHaveRoutes ==
    \A c \in Callers : /\ phase[c] \in {"idle", "attaching"} => route[c] = NoSession
                       /\ phase[c] \in Routed => route[c] # NoSession

\* A call's step keeps the types of the graph and the calls.
LEMMA CallTyped ==
    ASSUME TypeOK, CallsHaveRoutes, Call
    PROVE  GraphTypeOK' /\ CallTypeOK' /\ asked' \subseteq Callers
  <1> USE DEF TypeOK, GraphTypeOK, CallTypeOK, Phases
  <1>1. ASSUME NEW c \in Callers, EnsureRoute(c)
        PROVE  GraphTypeOK' /\ CallTypeOK' /\ asked' \subseteq Callers
    BY <1>1 DEF EnsureRoute, graphVars
  <1>2. ASSUME NEW c \in Callers, NEW s \in Sessions, SendOnSession(c, s)
        PROVE  GraphTypeOK' /\ CallTypeOK' /\ asked' \subseteq Callers
    <2>1. UNCHANGED <<graphVars, chosen>> /\ asked' \subseteq Callers
      BY <1>2 DEF SendOnSession
    <2>2. phase' \in [Callers -> Phases] /\ route' \in [Callers -> Sessions \cup {NoSession}]
      <3>1. \/ phase' = [phase EXCEPT ![c] = "failed"] /\ UNCHANGED route
            \/ phase' = [phase EXCEPT ![c] = "routed"] /\ route' = [route EXCEPT ![c] = s]
        BY <1>2 DEF SendOnSession
      <3>2. {"failed", "routed"} \subseteq Phases
        OBVIOUS
      <3>3. phase \in [Callers -> Phases] /\ route \in [Callers -> Sessions \cup {NoSession}]
        OBVIOUS
      <3> HIDE DEF TypeOK, GraphTypeOK, CallTypeOK, Phases
      <3> QED
        BY <3>1, <3>2, <3>3
    <2> QED
      BY <2>1, <2>2 DEF graphVars
  <1>3. ASSUME NEW c \in Callers, RecordAttachment(c)
        PROVE  GraphTypeOK' /\ CallTypeOK' /\ asked' \subseteq Callers
    <2>1. TargetOf[c] \in Targets /\ route[c] \in Sessions
      BY <1>3 DEF RecordAttachment, CallsHaveRoutes, Routed
    <2>2. GraphTypeOK'
      BY <1>3, <2>1, RecordTargetSessionTyped DEF RecordAttachment
    <2> QED
      BY <1>3, <2>2 DEF RecordAttachment
  <1>4. ASSUME NEW c \in Callers, FindContext(c)
        PROVE  GraphTypeOK' /\ CallTypeOK' /\ asked' \subseteq Callers
    <2>1. UNCHANGED <<graphVars, route>> /\ asked' \subseteq Callers /\ phase' \in [Callers -> Phases]
      <3>1. /\ UNCHANGED <<graphVars, route>> /\ asked' \subseteq asked \cup {c}
            /\ \E p \in {"ready", "enabling", "waiting"} : phase' = [phase EXCEPT ![c] = p]
        BY <1>4 DEF FindContext, ChooseContext
      <3>2. PICK p \in Phases : phase' = [phase EXCEPT ![c] = p]
        <4>1. {"ready", "enabling", "waiting"} \subseteq Phases
          OBVIOUS
        <4> HIDE DEF TypeOK, GraphTypeOK, CallTypeOK, Phases
        <4> QED
          BY <3>1, <4>1
      <3>3. phase \in [Callers -> Phases] /\ asked \subseteq Callers
        OBVIOUS
      <3> HIDE DEF TypeOK, GraphTypeOK, CallTypeOK, Phases
      <3> QED
        BY <3>1, <3>2, <3>3
    <2>2. chosen' \in [Callers -> Contexts \cup {NoContext}]
      BY <1>4 DEF FindContext, ChooseContext, Matches
    <2> QED
      BY <2>1, <2>2 DEF graphVars
  <1>5. ASSUME NEW c \in Callers, SendCommand(c) \/ Timeout(c)
        PROVE  GraphTypeOK' /\ CallTypeOK' /\ asked' \subseteq Callers
    BY <1>5 DEF SendCommand, Timeout, graphVars
  <1> QED
    BY <1>1, <1>2, <1>3, <1>4, <1>5 DEF Call, Proceed

LEMMA CallsHaveRoutesStep ==
    ASSUME TypeOK, CallsHaveRoutes, HandleMessage \/ Call
    PROVE  CallsHaveRoutes'
  <1> USE DEF TypeOK, CallsHaveRoutes, Routed, Phases
  <1> DEFINE m == Head(events)
  <1>1. ASSUME NEW s, NEW gone, ForgetSession(s, gone)
        PROVE  CallsHaveRoutes'
    BY <1>1 DEF ForgetSession, WaitersOf
  <1>2. ASSUME NEW s, NEW x, RecordExecutionContext(s, x)
        PROVE  CallsHaveRoutes'
    BY <1>2 DEF RecordExecutionContext, WaitersOf, callVars
  <1>3. CASE OnAttachedToTarget \/ OnContextsInvalidated
    BY <1>3 DEF OnAttachedToTarget, OnContextsInvalidated, callVars
  <1>4. CASE OnDetachedFromTarget
    BY <1>4, <1>1 DEF OnDetachedFromTarget
  <1>5. CASE OnTargetDestroyed
    <2>1. (\E s, gone : ForgetSession(s, gone)) \/ UNCHANGED callVars
      BY <1>5 DEF OnTargetDestroyed, ForgetTarget
    <2> QED
      BY <2>1, <1>1 DEF callVars
  <1>6. CASE OnExecutionContextCreated
    BY <1>6, <1>2 DEF OnExecutionContextCreated
  <1>7. CASE OnAttachReply
    <2>1. PICK c, s : \/ UNCHANGED <<phase, route>>
                      \/ /\ phase[c] = "attaching"
                         /\ phase' = [phase EXCEPT ![c] = IF s = NoSession THEN "failed"
                                                          ELSE "attached"]
                         /\ route' = [route EXCEPT ![c] = s]
      BY <1>7 DEF OnAttachReply
    <2> QED
      BY <2>1
  <1>8. CASE OnEnableReply
    BY <1>8 DEF OnEnableReply
  <1>9. ASSUME NEW c \in Callers, EnsureRoute(c)
        PROVE  CallsHaveRoutes'
    BY <1>9 DEF EnsureRoute
  <1>10. ASSUME NEW c \in Callers, NEW s \in Sessions, SendOnSession(c, s)
         PROVE  CallsHaveRoutes'
    BY <1>10 DEF SendOnSession
  <1>11. ASSUME NEW c \in Callers, Proceed(c) \/ Timeout(c)
         PROVE  CallsHaveRoutes'
    BY <1>11 DEF Proceed, RecordAttachment, FindContext, ChooseContext, SendCommand, Timeout
  <1> QED
    BY <1>3, <1>4, <1>5, <1>6, <1>7, <1>8, <1>9, <1>10, <1>11 DEF HandleMessage, Call

-----------------------------------------------------------------------------
(* The base of every layer: types, routes of the calls, true endings.      *)

BaseInv == TypeOK /\ CallsHaveRoutes /\ EndsAreTrue

LEMMA BaseInit == Init => BaseInv
  <1> SUFFICES ASSUME Init PROVE BaseInv
    OBVIOUS
  <1>1. TypeOK
    BY DEF Init, TypeOK, Phases
  <1>2. CallsHaveRoutes /\ EndsAreTrue
    BY DEF Init, CallsHaveRoutes, Routed, EndsAreTrue
  <1> QED
    BY <1>1, <1>2 DEF BaseInv

\* The queue after a step of the browser.
Appended(ms) ==
    /\ events' \in Seq(Message)
    /\ \A i \in DOMAIN events : i \in Nat /\ i \in DOMAIN events' /\ events'[i] = events[i]
    /\ \A k \in DOMAIN ms : Len(events) + k \in DOMAIN events' /\ events'[Len(events) + k] = ms[k]
    /\ \A i \in DOMAIN events, k \in DOMAIN ms : Len(events) + k > i
    /\ Len(events) \in Nat /\ \A k \in DOMAIN ms : k \in Nat /\ k >= 1
    /\ \A j \in DOMAIN events' :
          /\ j \in Nat
          /\ \/ j \in DOMAIN events /\ events'[j] = events[j]
             \/ \E k \in DOMAIN ms : j = Len(events) + k /\ events'[j] = ms[k]

LEMMA BrowserAppends ==
    ASSUME TypeOK, NEW ms, BrowserSends(ms)
    PROVE  Appended(ms)
  <1>1. ms \in Seq(Message) /\ events \in Seq(Message) /\ events' = events \o ms
    BY DEF BrowserSends, TypeOK
  <1>2. /\ events' \in Seq(Message)
        /\ \A i \in DOMAIN events : i \in DOMAIN events' /\ events'[i] = events[i]
        /\ \A k \in DOMAIN ms : Len(events) + k \in DOMAIN events' /\ events'[Len(events) + k] = ms[k]
        /\ \A i \in DOMAIN events, k \in DOMAIN ms : i \in Nat /\ Len(events) + k > i
        /\ \A j \in DOMAIN events' :
              \/ j \in DOMAIN events /\ events'[j] = events[j]
              \/ \E k \in DOMAIN ms : j = Len(events) + k /\ events'[j] = ms[k]
    BY <1>1, AppendedFacts
  <1>3. /\ \A k \in DOMAIN ms : k \in Nat /\ k >= 1
        /\ \A i \in DOMAIN events : i \in Nat
        /\ \A i \in DOMAIN events' : i \in Nat
        /\ Len(events) \in Nat
    BY <1>1, <1>2
  <1> QED
    BY <1>2, <1>3 DEF Appended

LEMMA EndsAreTrueStep ==
    ASSUME BaseInv, Next
    PROVE  EndsAreTrue'
  <1> USE DEF BaseInv
  <1>1. CASE Browser
    <2>1. PICK ms : BrowserSends(ms)
      BY <1>1, BrowserContract
    <2>2. Appended(ms)
      BY <2>1, BrowserAppends
    <2>3. /\ alive' \subseteq alive
          /\ \A s \in Sessions : owner[s] # NoTarget => owner'[s] = owner[s]
          /\ \A s \in open' : owner'[s] \in alive' /\ (s \in open \/ owner[s] = NoTarget)
          /\ \A k \in DOMAIN ms : Sent(ms[k])
      BY <2>1 DEF BrowserSends, BrowserTypes, SessionsReported
    <2>4. ASSUME NEW i \in DOMAIN events'
          PROVE  /\ events'[i].type = "targetDestroyed" => events'[i].target \notin alive'
                 /\ events'[i].type = "detachedFromTarget" =>
                       events'[i].session \notin open' /\ owner'[events'[i].session] # NoTarget
      <3>0. events'[i] \in Message
        BY <2>2 DEF Appended
      <3>1. CASE i \in DOMAIN events /\ events'[i] = events[i]
        BY <3>0, <3>1, <2>3, MessageFields DEF EndsAreTrue, TypeOK
      <3>2. ASSUME NEW k \in DOMAIN ms, events'[i] = ms[k]
            PROVE  /\ events'[i].type = "targetDestroyed" => events'[i].target \notin alive'
                   /\ events'[i].type = "detachedFromTarget" =>
                         events'[i].session \notin open' /\ owner'[events'[i].session] # NoTarget
        <4>1. Sent(events'[i])
          BY <3>2, <2>3
        <4>2. events'[i].type = "targetDestroyed" => events'[i].target \notin alive'
          BY <4>1 DEF Sent
        <4>3. events'[i].type = "detachedFromTarget" =>
                 events'[i].session \in open /\ events'[i].session \notin open'
          BY <4>1 DEF Sent
        <4>4. \A s \in open : owner[s] # NoTarget /\ owner'[s] = owner[s]
          BY <2>3 DEF EndsAreTrue, TypeOK
        <4> QED
          BY <4>2, <4>3, <4>4
      <3> QED
        BY <3>1, <3>2, <2>2 DEF Appended
    <2> QED
      BY <2>3, <2>4 DEF EndsAreTrue
  <1>2. CASE HandleMessage
    <2>1. Reads
      BY <1>2, HandlerReads
    <2> QED
      BY <2>1 DEF Reads, EndsAreTrue
  <1>3. CASE Call
    BY <1>3, CallQuiet DEF EndsAreTrue
  <1> QED
    BY <1>1, <1>2, <1>3 DEF Next

LEMMA BaseStep == BaseInv /\ [Next]_vars => BaseInv'
  <1> SUFFICES ASSUME BaseInv, [Next]_vars PROVE BaseInv'
    OBVIOUS
  <1> USE DEF BaseInv
  <1>1. CASE Browser
    <2>1. PICK ms : BrowserSends(ms)
      BY <1>1, BrowserContract
    <2>2. events' \in Seq(Message)
      BY <2>1, BrowserAppends DEF Appended
    <2>3. TypeOK'
      BY <2>1, <2>2 DEF BrowserSends, BrowserTypes, TypeOK, graphVars, callVars
    <2>4. CallsHaveRoutes'
      BY <2>1 DEF BrowserSends, CallsHaveRoutes, callVars
    <2> QED
      BY <1>1, <2>3, <2>4, EndsAreTrueStep DEF Next
  <1>2. CASE HandleMessage
    <2>1. Reads /\ GraphTypeOK' /\ CallTypeOK'
      BY <1>2, HandlerReads, HandlerTyped
    <2>2. TypeOK'
      BY <2>1 DEF Reads, TypeOK, GraphTypeOK, CallTypeOK
    <2> QED
      BY <1>2, <2>2, CallsHaveRoutesStep, EndsAreTrueStep DEF Next
  <1>3. CASE Call
    <2>1. GraphTypeOK' /\ CallTypeOK' /\ asked' \subseteq Callers
      BY <1>3, CallTyped
    <2>2. TypeOK'
      BY <2>1, <1>3, CallQuiet DEF TypeOK, GraphTypeOK, CallTypeOK
    <2> QED
      BY <1>3, <2>2, CallsHaveRoutesStep, EndsAreTrueStep DEF Next
  <1>4. CASE UNCHANGED vars
    BY <1>4 DEF vars, browserVars, graphVars, callVars, TypeOK, CallsHaveRoutes, EndsAreTrue
  <1> QED
    BY <1>1, <1>2, <1>3, <1>4 DEF Next

\* Every variable has its type, whatever the browser does.
THEOREM TypeCorrect == Spec => []TypeOK
  <1>1. BaseInv => TypeOK
    BY DEF BaseInv
  <1> QED
    BY <1>1, BaseInit, BaseStep, PTL DEF Spec

-----------------------------------------------------------------------------
(* The graph: the maps agree with each other and with the browser.         *)

\* Message m names a session of the target it is about.
Truthful(m) ==
    /\ m.type = "attachedToTarget" => owner[m.session] = m.target
    /\ m.type = "attachReply" /\ m.session # NoSession => owner[m.session] = TargetOf[m.caller]
    /\ m.type = "executionContextCreated" =>
          owner[m.session] = HomeOf[m.context] /\ m.session \in enabled

MessagesTruthful == \A i \in DOMAIN events : Truthful(events[i])

RoutesOwned == \A c \in Callers : phase[c] \in Routed => owner[route[c]] = TargetOf[c]

GraphOwned ==
    /\ \A t \in Targets : LET s == sessionId_from_targetId[t]
                          IN  s # NoSession => owner[s] = t
    /\ \A s \in Sessions : LET t == targetId_from_sessionId[s]
                           IN  t # NoTarget => owner[s] = t

GraphInv ==
    /\ BaseInv
    /\ MessagesTruthful
    /\ RoutesOwned
    /\ GraphOwned
    /\ MapsAgree
    /\ ContextsHaveSessions
    /\ NoMissedWakeup

\* What every step has to keep of the maps.
MapsInv == GraphOwned /\ MapsAgree /\ ContextsHaveSessions

LEMMA RecordTargetSessionMaps ==
    ASSUME TypeOK, MapsInv, NEW t \in Targets, NEW s \in Sessions, owner[s] = t,
           RecordTargetSession(t, s), UNCHANGED owner
    PROVE  MapsInv'
  <1>1. GraphOwned'
    BY DEF MapsInv, GraphOwned, RecordTargetSession, TypeOK
  <1>2. MapsAgree'
    BY DEF MapsInv, GraphOwned, MapsAgree, RecordTargetSession, TypeOK
  <1>3. ContextsHaveSessions'
    BY DEF MapsInv, ContextsHaveSessions, RecordTargetSession, TypeOK
  <1> QED
    BY <1>1, <1>2, <1>3 DEF MapsInv

LEMMA ForgetContextsMaps ==
    ASSUME TypeOK, MapsInv, NEW gone, ForgetContexts(gone), UNCHANGED owner,
           UNCHANGED <<sessionId_from_targetId, targetId_from_sessionId>>
    PROVE  MapsInv'
  BY DEF TypeOK, MapsInv, GraphOwned, MapsAgree, ContextsHaveSessions, ForgetContexts

LEMMA ForgetSessionMaps ==
    ASSUME TypeOK, MapsInv, NEW s \in Sessions, NEW gone, ForgetSession(s, gone), UNCHANGED owner
    PROVE  MapsInv'
  <1>1. /\ sessionId_from_targetId' =
               [t \in Targets |-> IF t = targetId_from_sessionId[s] THEN NoSession
                                  ELSE sessionId_from_targetId[t]]
        /\ targetId_from_sessionId' = [targetId_from_sessionId EXCEPT ![s] = NoTarget]
        /\ contexts' = [x \in Contexts |-> IF x \in ContextsOf(s) \cup gone THEN NoSession
                                           ELSE contexts[x]]
    BY DEF ForgetSession, ForgetContexts
  <1>2. GraphOwned'
    BY <1>1 DEF MapsInv, GraphOwned, TypeOK
  <1>3. MapsAgree'
    BY <1>1 DEF MapsInv, MapsAgree, TypeOK
  <1>4. ContextsHaveSessions'
    BY <1>1 DEF MapsInv, ContextsHaveSessions, ContextsOf, TypeOK
  <1> QED
    BY <1>2, <1>3, <1>4 DEF MapsInv

\* What a step may not do to a call that waits for a context.
WaitersKept ==
    \A c \in Callers : phase'[c] = "waiting" =>
        /\ phase[c] = "waiting" /\ route'[c] = route[c]
        /\ \A x \in Accepts[c] : contexts'[x] = route[c] => contexts[x] = route[c]

LEMMA WaitersKeptWakeup ==
    ASSUME NoMissedWakeup, WaitersKept
    PROVE  NoMissedWakeup'
  BY DEF NoMissedWakeup, WaitersKept, Matches

LEMMA ForgetSessionWaiters ==
    ASSUME TypeOK, CallsHaveRoutes, NEW s \in Sessions, NEW gone, ForgetSession(s, gone)
    PROVE  WaitersKept
  BY DEF TypeOK, CallsHaveRoutes, Routed, ForgetSession, ForgetContexts, WaitersKept

\* A message keeps the maps, and misses no waiter.
LEMMA HandlerMaps ==
    ASSUME GraphInv, HandleMessage
    PROVE  MapsInv' /\ NoMissedWakeup'
  <1> USE DEF GraphInv, BaseInv
  <1> DEFINE m == Head(events)
  <1>0. /\ Reads /\ m \in Message /\ Truthful(m) /\ UNCHANGED owner
        /\ MapsInv
    BY HandlerReads DEF Reads, MessagesTruthful, MapsInv
  <1>1. CASE OnAttachedToTarget
    <2>1. /\ m.type = "attachedToTarget" /\ RecordTargetSession(m.target, m.session)
          /\ UNCHANGED callVars
      BY <1>1, ReceiveReads DEF OnAttachedToTarget
    <2>2. m.target \in Targets /\ m.session \in Sessions /\ owner[m.session] = m.target
      BY <1>0, <2>1, MessageFields DEF Truthful
    <2>3. MapsInv'
      BY <1>0, <2>1, <2>2, RecordTargetSessionMaps
    <2>4. WaitersKept
      BY <2>1 DEF WaitersKept, RecordTargetSession, callVars
    <2> QED
      BY <2>3, <2>4, WaitersKeptWakeup
  <1>2. CASE OnDetachedFromTarget
    <2>1. m.type = "detachedFromTarget" /\ ForgetSession(m.session, {})
      BY <1>2, ReceiveReads DEF OnDetachedFromTarget
    <2>2. m.session \in Sessions
      BY <1>0, <2>1, MessageFields
    <2> QED
      BY <1>0, <2>1, <2>2, ForgetSessionMaps, ForgetSessionWaiters, WaitersKeptWakeup
  <1>3. CASE OnTargetDestroyed
    <2>1. m.type = "targetDestroyed" /\ ForgetTarget(m.target)
      BY <1>3, ReceiveReads DEF OnTargetDestroyed
    <2>2. m.target \in Targets
      BY <1>0, <2>1, MessageFields
    <2>3. PICK s, gone : /\ s = sessionId_from_targetId[m.target]
                         /\ IF s # NoSession THEN ForgetSession(s, gone)
                            ELSE /\ ForgetContexts(gone)
                                 /\ UNCHANGED <<sessionId_from_targetId, targetId_from_sessionId,
                                                callVars>>
      BY <2>1 DEF ForgetTarget
    <2>4. s \in Sessions \cup {NoSession}
      BY <2>2, <2>3 DEF TypeOK
    <2>5. CASE s # NoSession
      BY <1>0, <2>3, <2>4, <2>5, ForgetSessionMaps, ForgetSessionWaiters, WaitersKeptWakeup
    <2>6. CASE s = NoSession
      <3>1. /\ ForgetContexts(gone)
            /\ UNCHANGED <<sessionId_from_targetId, targetId_from_sessionId, callVars>>
        BY <2>3, <2>6
      <3>2. MapsInv'
        BY <1>0, <3>1, ForgetContextsMaps
      <3>3. WaitersKept
        BY <3>1 DEF WaitersKept, ForgetContexts, callVars, TypeOK, CallsHaveRoutes, Routed
      <3> QED
        BY <3>2, <3>3, WaitersKeptWakeup
    <2> QED
      BY <2>5, <2>6
  <1>4. CASE OnExecutionContextCreated
    <2>1. m.type = "executionContextCreated" /\ RecordExecutionContext(m.session, m.context)
      BY <1>4, ReceiveReads DEF OnExecutionContextCreated
    <2>2. m.session \in Sessions /\ m.context \in Contexts
      BY <1>0, <2>1, MessageFields
    <2>3. PICK s \in Sessions, x \in Contexts : RecordExecutionContext(s, x)
      BY <2>1, <2>2
    <2>4. CASE UNCHANGED <<graphVars, callVars>>
      BY <1>0, <2>4 DEF graphVars, callVars, MapsInv, GraphOwned, MapsAgree, ContextsHaveSessions,
                        NoMissedWakeup, Matches
    <2>5. CASE /\ targetId_from_sessionId[s] # NoTarget
               /\ contexts' = [contexts EXCEPT ![x] = s]
               /\ phase' = [c \in Callers |-> IF c \in {d \in WaitersOf(s) : x \in Accepts[d]}
                                              THEN "ready" ELSE phase[c]]
               /\ UNCHANGED <<sessionId_from_targetId, targetId_from_sessionId, route>>
      <3>1. MapsInv'
        BY <1>0, <2>5 DEF MapsInv, GraphOwned, MapsAgree, ContextsHaveSessions, TypeOK
      <3>2. WaitersKept
        BY <2>5 DEF WaitersKept, WaitersOf, TypeOK
      <3> QED
        BY <3>1, <3>2, WaitersKeptWakeup
    <2> QED
      BY <2>3, <2>4, <2>5 DEF RecordExecutionContext
  <1>5. CASE OnContextsInvalidated
    <2>1. /\ UNCHANGED <<sessionId_from_targetId, targetId_from_sessionId, callVars>>
          /\ \E gone : ForgetContexts(gone)
      BY <1>5 DEF OnContextsInvalidated
    <2>2. MapsInv'
      BY <1>0, <2>1, ForgetContextsMaps
    <2>3. WaitersKept
      BY <2>1 DEF WaitersKept, ForgetContexts, callVars, TypeOK, CallsHaveRoutes, Routed
    <2> QED
      BY <2>2, <2>3, WaitersKeptWakeup
  <1>6. CASE OnAttachReply \/ OnEnableReply
    <2>1. UNCHANGED graphVars
      BY <1>6 DEF OnAttachReply, OnEnableReply
    <2>2. MapsInv'
      BY <1>0, <2>1 DEF graphVars, MapsInv, GraphOwned, MapsAgree, ContextsHaveSessions
    <2>3. \A c \in Callers : phase'[c] = "waiting" => phase[c] = "waiting" /\ route'[c] = route[c]
      BY <1>6 DEF OnAttachReply, OnEnableReply, TypeOK
    <2>4. WaitersKept
      BY <2>1, <2>3 DEF WaitersKept, graphVars
    <2> QED
      BY <2>2, <2>4, WaitersKeptWakeup
  <1> QED
    BY <1>1, <1>2, <1>3, <1>4, <1>5, <1>6 DEF HandleMessage

\* A call's step keeps the maps, and does not wait for what is there.
LEMMA CallMaps ==
    ASSUME GraphInv, Call
    PROVE  MapsInv' /\ NoMissedWakeup'
  <1> USE DEF GraphInv, BaseInv
  <1>0. UNCHANGED owner /\ MapsInv
    BY CallQuiet DEF MapsInv
  <1>1. ASSUME NEW c \in Callers, RecordAttachment(c)
        PROVE  MapsInv' /\ NoMissedWakeup'
    <2>1. /\ RecordTargetSession(TargetOf[c], route[c]) /\ phase[c] = "attached"
          /\ phase' = [phase EXCEPT ![c] = "routed"] /\ UNCHANGED route
      BY <1>1 DEF RecordAttachment
    <2>2. route[c] \in Sessions /\ TargetOf[c] \in Targets /\ owner[route[c]] = TargetOf[c]
      BY <2>1 DEF RoutesOwned, CallsHaveRoutes, Routed, TypeOK
    <2>3. MapsInv'
      BY <1>0, <2>1, <2>2, RecordTargetSessionMaps
    <2>4. WaitersKept
      BY <2>1 DEF WaitersKept, RecordTargetSession, TypeOK
    <2> QED
      BY <2>3, <2>4, WaitersKeptWakeup
  <1>2. ASSUME UNCHANGED graphVars
        PROVE  MapsInv'
    BY <1>0, <1>2 DEF graphVars, MapsInv, GraphOwned, MapsAgree, ContextsHaveSessions
  <1>3. ASSUME NEW c \in Callers, FindContext(c)
        PROVE  MapsInv' /\ NoMissedWakeup'
    <2>1. UNCHANGED <<graphVars, route>>
      BY <1>3 DEF FindContext
    <2>2. \A d \in Callers : phase'[d] = "waiting" =>
             \/ phase[d] = "waiting"
             \/ d = c /\ Matches(c) = {}
      BY <1>3 DEF FindContext, ChooseContext, TypeOK
    <2>3. NoMissedWakeup'
      BY <2>1, <2>2 DEF NoMissedWakeup, Matches, graphVars
    <2> QED
      BY <1>2, <2>1, <2>3
  <1>4. ASSUME NEW c \in Callers,
               EnsureRoute(c) \/ SendCommand(c) \/ Timeout(c) \/ \E s \in Sessions : SendOnSession(c, s)
        PROVE  MapsInv' /\ NoMissedWakeup'
    <2>1. UNCHANGED graphVars
      BY <1>4 DEF EnsureRoute, SendCommand, Timeout, SendOnSession
    <2>2. \A d \in Callers : phase'[d] = "waiting" => phase[d] = "waiting" /\ route'[d] = route[d]
      BY <1>4 DEF EnsureRoute, SendCommand, Timeout, SendOnSession, TypeOK
    <2>3. WaitersKept
      BY <2>1, <2>2 DEF WaitersKept, graphVars
    <2> QED
      BY <1>2, <2>1, <2>3, WaitersKeptWakeup
  <1> QED
    BY <1>1, <1>3, <1>4 DEF Call, Proceed

\* Messages in flight stay true, and those the browser adds are.
LEMMA MessagesTruthfulStep ==
    ASSUME BaseInv, MessagesTruthful, Next
    PROVE  MessagesTruthful'
  <1> USE DEF BaseInv
  <1>1. CASE Browser
    <2>1. PICK ms : BrowserSends(ms)
      BY <1>1, BrowserContract
    <2>2. Appended(ms)
      BY <2>1, BrowserAppends
    <2>3. /\ \A s \in Sessions : owner[s] # NoTarget => owner'[s] = owner[s]
          /\ enabled \subseteq enabled'
          /\ \A k \in DOMAIN ms : Sent(ms[k])
      BY <2>1 DEF BrowserSends, BrowserTypes, SessionsReported
    <2>4. ASSUME NEW i \in DOMAIN events', NEW m, m = events'[i]
          PROVE  Truthful(m)'
      <3>0. m \in Message
        BY <2>2, <2>4 DEF Appended
      <3>1. CASE i \in DOMAIN events /\ m = events[i]
        <4>1. Truthful(m)
          BY <3>1 DEF MessagesTruthful
        <4> QED
          BY <4>1, <3>0, <2>3, MessageFields DEF Truthful
      <3>2. ASSUME NEW k \in DOMAIN ms, m = ms[k]
            PROVE  Truthful(m)'
        <4>1. Sent(m)
          BY <3>2, <2>3
        <4> QED
          BY <4>1 DEF Sent, Truthful
      <3> QED
        BY <3>1, <3>2, <2>2, <2>4 DEF Appended
    <2> QED
      BY <2>4 DEF MessagesTruthful, Truthful
  <1>2. CASE HandleMessage
    BY <1>2, HandlerReads DEF Reads, MessagesTruthful, Truthful
  <1>3. CASE Call
    BY <1>3, CallQuiet DEF MessagesTruthful, Truthful
  <1> QED
    BY <1>1, <1>2, <1>3 DEF Next

\* A call's route leads to its target.
LEMMA RoutesOwnedStep ==
    ASSUME GraphInv, Next
    PROVE  RoutesOwned'
  <1> USE DEF GraphInv, BaseInv
  <1> DEFINE m == Head(events)
  <1>1. CASE Browser
    <2>1. PICK ms : BrowserSends(ms)
      BY <1>1, BrowserContract
    <2>2. /\ UNCHANGED callVars
          /\ \A s \in Sessions : owner[s] # NoTarget => owner'[s] = owner[s]
      BY <2>1 DEF BrowserSends, SessionsReported
    <2> QED
      BY <2>2 DEF callVars, RoutesOwned, CallsHaveRoutes, TypeOK
  <1>2. CASE HandleMessage
    <2>1. Reads /\ UNCHANGED owner /\ m \in Message /\ Truthful(m)
      BY <1>2, HandlerReads DEF Reads, MessagesTruthful
    <2>2. CASE OnAttachReply
      <3>1. m.type = "attachReply" /\ m.caller \in Callers
        BY <2>1, <2>2, ReceiveReads, MessageFields DEF OnAttachReply
      <3>2. PICK c, s : c = m.caller /\ s = m.session
        OBVIOUS
      <3>3. \/ UNCHANGED <<phase, route>>
            \/ /\ phase' = [phase EXCEPT ![c] = IF s = NoSession THEN "failed" ELSE "attached"]
               /\ route' = [route EXCEPT ![c] = s]
        BY <2>2, <3>2 DEF OnAttachReply
      <3>4. c \in Callers /\ (s # NoSession => owner[s] = TargetOf[c])
        BY <2>1, <3>1, <3>2 DEF Truthful
      <3> QED
        BY <2>1, <3>3, <3>4 DEF RoutesOwned, TypeOK, Routed
    <2>3. ASSUME ~OnAttachReply
          PROVE  UNCHANGED route /\ \A c \in Callers : phase'[c] \in Routed => phase[c] \in Routed
      <3>1. ASSUME NEW s, NEW gone, ForgetSession(s, gone)
            PROVE  UNCHANGED route /\ \A c \in Callers : phase'[c] \in Routed => phase[c] \in Routed
        BY <3>1 DEF ForgetSession, Routed
      <3>2. CASE OnDetachedFromTarget
        BY <3>1, <3>2 DEF OnDetachedFromTarget
      <3>3. CASE OnTargetDestroyed
        <4>1. (\E s, gone : ForgetSession(s, gone)) \/ UNCHANGED callVars
          BY <3>3 DEF OnTargetDestroyed, ForgetTarget
        <4> QED
          BY <3>1, <4>1 DEF callVars
      <3>4. CASE OnExecutionContextCreated
        <4>1. PICK s, x : RecordExecutionContext(s, x)
          BY <3>4 DEF OnExecutionContextCreated
        <4> QED
          BY <4>1 DEF RecordExecutionContext, callVars, WaitersOf, Routed
      <3>5. CASE OnAttachedToTarget \/ OnContextsInvalidated
        BY <3>5 DEF OnAttachedToTarget, OnContextsInvalidated, callVars
      <3>6. CASE OnEnableReply
        BY <3>6 DEF OnEnableReply, TypeOK, Routed
      <3> QED
        BY <1>2, <2>3, <3>2, <3>3, <3>4, <3>5, <3>6 DEF HandleMessage
    <2> QED
      BY <2>1, <2>2, <2>3 DEF RoutesOwned
  <1>3. CASE Call
    <2>1. UNCHANGED owner
      BY <1>3, CallQuiet
    <2>2. ASSUME NEW c \in Callers, EnsureRoute(c)
          PROVE  RoutesOwned'
      <3>1. PICK s : s = sessionId_from_targetId[TargetOf[c]]
        OBVIOUS
      <3>2. \/ /\ s # NoSession
               /\ phase' = [phase EXCEPT ![c] = "routed"]
               /\ route' = [route EXCEPT ![c] = s]
            \/ phase' = [phase EXCEPT ![c] = "attaching"] /\ UNCHANGED route
        BY <2>2, <3>1 DEF EnsureRoute
      <3>3. s # NoSession => owner[s] = TargetOf[c]
        BY <3>1 DEF GraphOwned
      <3> QED
        BY <2>1, <3>2, <3>3 DEF RoutesOwned, Routed, TypeOK
    <2>3. ASSUME NEW c \in Callers, NEW s \in Sessions, SendOnSession(c, s)
          PROVE  RoutesOwned'
      BY <2>1, <2>3 DEF SendOnSession, RoutesOwned, Routed, TypeOK
    <2>4. ASSUME NEW c \in Callers, Proceed(c) \/ Timeout(c)
          PROVE  RoutesOwned'
      <3>1. UNCHANGED route /\ \A d \in Callers : phase'[d] \in Routed => phase[d] \in Routed
        BY <2>4 DEF Proceed, RecordAttachment, FindContext, ChooseContext, SendCommand, Timeout,
                    Routed, TypeOK
      <3> QED
        BY <2>1, <3>1 DEF RoutesOwned
    <2> QED
      BY <1>3, <2>2, <2>3, <2>4 DEF Call
  <1> QED
    BY <1>1, <1>2, <1>3 DEF Next

LEMMA GraphInit == Init => GraphInv
  <1> SUFFICES ASSUME Init PROVE GraphInv
    OBVIOUS
  <1>1. MessagesTruthful /\ RoutesOwned /\ GraphOwned
    BY DEF Init, MessagesTruthful, RoutesOwned, Routed, GraphOwned
  <1>2. MapsAgree /\ ContextsHaveSessions /\ NoMissedWakeup
    BY DEF Init, MapsAgree, ContextsHaveSessions, NoMissedWakeup
  <1> QED
    BY <1>1, <1>2, BaseInit DEF GraphInv

LEMMA GraphStep == GraphInv /\ [Next]_vars => GraphInv'
  <1> SUFFICES ASSUME GraphInv, [Next]_vars PROVE GraphInv'
    OBVIOUS
  <1> USE DEF GraphInv
  <1>0. BaseInv'
    BY BaseStep
  <1>1. CASE Browser
    <2>1. PICK ms : BrowserSends(ms)
      BY <1>1, BrowserContract DEF BaseInv
    <2>2. /\ UNCHANGED <<graphVars, callVars>>
          /\ \A s \in Sessions : owner[s] # NoTarget => owner'[s] = owner[s]
      BY <2>1 DEF BrowserSends, SessionsReported
    <2>3. GraphOwned'
      BY <2>2 DEF GraphOwned, graphVars, BaseInv, TypeOK
    <2>4. MapsAgree' /\ ContextsHaveSessions' /\ NoMissedWakeup'
      BY <2>2 DEF graphVars, callVars, MapsAgree, ContextsHaveSessions, NoMissedWakeup, Matches
    <2> QED
      BY <1>0, <1>1, <2>3, <2>4, MessagesTruthfulStep, RoutesOwnedStep DEF Next
  <1>2. CASE HandleMessage
    BY <1>0, <1>2, HandlerMaps, MessagesTruthfulStep, RoutesOwnedStep DEF Next, MapsInv
  <1>3. CASE Call
    BY <1>0, <1>3, CallMaps, MessagesTruthfulStep, RoutesOwnedStep DEF Next, MapsInv
  <1>4. CASE UNCHANGED vars
    <2>1. UNCHANGED <<owner, enabled, events, graphVars, callVars>>
      BY <1>4 DEF vars, browserVars
    <2>2. MessagesTruthful' /\ RoutesOwned' /\ GraphOwned'
      BY <2>1 DEF graphVars, callVars, MessagesTruthful, Truthful, RoutesOwned, GraphOwned
    <2>3. MapsAgree' /\ ContextsHaveSessions' /\ NoMissedWakeup'
      BY <2>1 DEF graphVars, callVars, MapsAgree, ContextsHaveSessions, NoMissedWakeup, Matches
    <2> QED
      BY <1>0, <2>2, <2>3
  <1> QED
    BY <1>1, <1>2, <1>3, <1>4 DEF Next

LEMMA GraphInvariance == Spec => []GraphInv
  BY GraphInit, GraphStep, PTL DEF Spec

\* A route that is handed out names a session that leads back to its target,
\* also when messages come in chunks.
THEOREM RoutesLeadBack == Spec => []MapsAgree
  <1>1. GraphInv => MapsAgree
    BY DEF GraphInv
  <1> QED
    BY <1>1, GraphInvariance, PTL

\* A context is recorded only under a session the router knows.
THEOREM RecordsHaveSessions == Spec => []ContextsHaveSessions
  <1>1. GraphInv => ContextsHaveSessions
    BY DEF GraphInv
  <1> QED
    BY <1>1, GraphInvariance, PTL

\* No call waits for a context that the router has recorded under its session.
THEOREM WakeupsNotMissed == Spec => []NoMissedWakeup
  <1>1. GraphInv => NoMissedWakeup
    BY DEF GraphInv
  <1> QED
    BY <1>1, GraphInvariance, PTL

-----------------------------------------------------------------------------
(* What the router records is there, or its end is on its way.             *)

\* Session s is open, or its end is behind place i of the queue.
Covered(i, s) == s \in open \/ \E j \in DOMAIN events : j > i /\ events[j] = Detached(s)

\* So is context x of session s.
Current(i, s, x) ==
    world[x] = "live" \/ \E j \in DOMAIN events : j > i /\ EndsContext(events[j], s, x)

Reported(i, s, x) ==
    Covered(i, s) /\ Current(i, s, x) /\ s \in enabled /\ owner[s] = HomeOf[x]

ReportsCurrent ==
    \A i \in DOMAIN events : events[i].type = "executionContextCreated" =>
        Reported(i, events[i].session, events[i].context)

RecordsCurrent ==
    \A x \in Contexts : contexts[x] # NoSession => Reported(0, contexts[x], x)

ContextInv == GraphInv /\ ReportsCurrent /\ RecordsCurrent

\* A step of the browser that ends a session says so at the end of the queue.
LEMMA CoveredByBrowser ==
    ASSUME NEW ms, BrowserSends(ms), Appended(ms), NEW s \in Sessions,
           NEW i \in {0} \cup DOMAIN events, Covered(i, s)
    PROVE  Covered(i, s)'
  <1>1. CASE s \in open
    <2>1. CASE s \in open'
      BY <2>1 DEF Covered
    <2>2. CASE s \notin open'
      <3>1. PICK k \in DOMAIN ms : ms[k] = Detached(s)
        BY <1>1, <2>2 DEF BrowserSends, SessionsReported
      <3>2. PICK j : j = Len(events) + k
        OBVIOUS
      <3>3. j \in DOMAIN events' /\ j > i /\ events'[j] = Detached(s)
        BY <3>1, <3>2 DEF Appended
      <3> QED
        BY <3>3 DEF Covered, Detached
    <2> QED
      BY <2>1, <2>2
  <1>2. CASE s \notin open
    <2>1. PICK j \in DOMAIN events : j > i /\ events[j] = Detached(s)
      BY <1>2 DEF Covered
    <2>2. j \in DOMAIN events' /\ events'[j] = events[j]
      BY DEF Appended
    <2> QED
      BY <2>1, <2>2 DEF Covered, Detached
  <1> QED
    BY <1>1, <1>2

\* A step of the browser that ends a context tells every session that listens.
LEMMA ReportedByBrowser ==
    ASSUME TypeOK, NEW ms, BrowserSends(ms), Appended(ms), NEW s \in Sessions, NEW x \in Contexts,
           NEW i \in {0} \cup DOMAIN events, Reported(i, s, x)
    PROVE  Reported(i, s, x)'
  <1>1. Covered(i, s)'
    BY CoveredByBrowser DEF Reported
  <1>2. s \in enabled' /\ owner'[s] = HomeOf[x]
    BY DEF Reported, BrowserSends, BrowserTypes, SessionsReported
  <1>3. ASSUME NEW j \in DOMAIN events, j > i, EndsContext(events[j], s, x)
        PROVE  Current(i, s, x)'
    <2>1. j \in DOMAIN events' /\ events'[j] = events[j]
      BY DEF Appended
    <2>2. EndsContext(events'[j], s, x)
      BY <1>3, <2>1
    <2> QED
      BY <1>3, <2>1, <2>2 DEF Current, EndsContext, ContextDestroyed, ContextsCleared,
                              FrameNavigated, Detached, Destroyed
  <1>4. ASSUME world'[x] = "live"
        PROVE  Current(i, s, x)'
    BY <1>4 DEF Current
  <1>5. ASSUME world[x] = "live", world'[x] # "live", s \in open
        PROVE  Current(i, s, x)'
    <2>1. PICK k \in DOMAIN ms : EndsContext(ms[k], s, x)
      BY <1>5 DEF BrowserSends, ContextsReported, Reported
    <2>2. PICK j : j = Len(events) + k
      OBVIOUS
    <2>3. j \in DOMAIN events' /\ j > i /\ EndsContext(events'[j], s, x)
      BY <2>1, <2>2 DEF Appended
    <2> QED
      BY <2>3 DEF Current, EndsContext, ContextDestroyed, ContextsCleared, FrameNavigated,
                  Detached, Destroyed
  <1>6. ASSUME s \notin open
        PROVE  Current(i, s, x)'
    <2>1. PICK j \in DOMAIN events : j > i /\ events[j] = Detached(s)
      BY <1>6 DEF Reported, Covered
    <2> QED
      BY <2>1, <1>3 DEF EndsContext
  <1>7. ASSUME world[x] # "live"
        PROVE  Current(i, s, x)'
    <2>1. PICK j \in DOMAIN events : j > i /\ EndsContext(events[j], s, x)
      BY <1>7 DEF Reported, Current
    <2> QED
      BY <2>1, <1>3
  <1>8. Current(i, s, x)'
    BY <1>4, <1>5, <1>6, <1>7
  <1> QED
    BY <1>1, <1>2, <1>8 DEF Reported

\* Reading a message brings every place one closer to the head.
LEMMA CoveredByRead ==
    ASSUME Reads, NEW s, NEW i \in DOMAIN events, Covered(i, s)
    PROVE  Covered(i - 1, s)'
  <1>1. CASE s \in open
    BY <1>1 DEF Reads, Covered
  <1>2. ASSUME NEW j \in DOMAIN events, j > i, events[j] = Detached(s)
        PROVE  Covered(i - 1, s)'
    <2>1. j - 1 \in DOMAIN events' /\ events'[j - 1] = events[j] /\ j - 1 > i - 1
      BY <1>2 DEF Reads
    <2>2. events'[j - 1] = Detached(s)
      BY <1>2, <2>1
    <2> QED
      BY <2>1, <2>2 DEF Covered, Detached
  <1> QED
    BY <1>1, <1>2 DEF Covered

LEMMA CoveredKept ==
    ASSUME Reads, NEW s, Covered(0, s), Head(events) # Detached(s)
    PROVE  Covered(0, s)'
  <1>1. CASE s \in open
    BY <1>1 DEF Reads, Covered
  <1>2. ASSUME NEW j \in DOMAIN events, events[j] = Detached(s)
        PROVE  Covered(0, s)'
    <2>1. j - 1 \in DOMAIN events' /\ events'[j - 1] = events[j]
      BY <1>2 DEF Reads
    <2>2. j - 1 > 0
      BY <2>1 DEF Reads
    <2>3. events'[j - 1] = Detached(s)
      BY <1>2, <2>1
    <2> QED
      BY <2>1, <2>2, <2>3 DEF Covered, Detached
  <1> QED
    BY <1>1, <1>2 DEF Covered

LEMMA ReportedByRead ==
    ASSUME Reads, NEW s, NEW x, NEW i \in DOMAIN events, Reported(i, s, x)
    PROVE  Reported(i - 1, s, x)'
  <1>1. Covered(i - 1, s)'
    BY CoveredByRead DEF Reported
  <1>2. Current(i - 1, s, x)'
    <2>1. CASE world[x] = "live"
      BY <2>1 DEF Reads, Current
    <2>2. ASSUME NEW j \in DOMAIN events, j > i, EndsContext(events[j], s, x)
          PROVE  Current(i - 1, s, x)'
      <3>1. j - 1 \in DOMAIN events' /\ events'[j - 1] = events[j] /\ j - 1 > i - 1
        BY <2>2 DEF Reads
      <3>2. EndsContext(events'[j - 1], s, x)
        BY <2>2, <3>1
      <3> QED
        BY <3>1, <3>2 DEF Current, EndsContext, ContextDestroyed, ContextsCleared, FrameNavigated,
                          Detached, Destroyed
    <2> QED
      BY <2>1, <2>2 DEF Reported, Current
  <1> QED
    BY <1>1, <1>2 DEF Reported, Reads

LEMMA ReportedKept ==
    ASSUME Reads, NEW s, NEW x, Reported(0, s, x), ~EndsContext(Head(events), s, x)
    PROVE  Reported(0, s, x)'
  <1>1. Covered(0, s)'
    BY CoveredKept DEF Reported, EndsContext
  <1>2. Current(0, s, x)'
    <2>1. CASE world[x] = "live"
      BY <2>1 DEF Reads, Current
    <2>2. ASSUME NEW j \in DOMAIN events, EndsContext(events[j], s, x)
          PROVE  Current(0, s, x)'
      <3>1. j # 1
        BY <2>2 DEF Reads
      <3>2. j - 1 \in DOMAIN events' /\ events'[j - 1] = events[j] /\ j - 1 > 0
        BY <2>2, <3>1 DEF Reads
      <3>3. EndsContext(events'[j - 1], s, x)
        BY <2>2, <3>2
      <3> QED
        BY <3>2, <3>3 DEF Current, EndsContext, ContextDestroyed, ContextsCleared, FrameNavigated,
                          Detached, Destroyed
    <2> QED
      BY <2>1, <2>2 DEF Reported, Current
  <1> QED
    BY <1>1, <1>2 DEF Reported, Reads

\* A record that outlives a message is not ended by it, or is made by it.
LEMMA RecordsKept ==
    ASSUME TypeOK, HandleMessage, NEW x \in Contexts, contexts'[x] # NoSession
    PROVE  \/ contexts[x] = contexts'[x] /\ ~EndsContext(Head(events), contexts[x], x)
           \/ /\ Head(events).type = "executionContextCreated"
              /\ Head(events).session = contexts'[x] /\ Head(events).context = x
  <1> DEFINE m == Head(events)
  <1>0. m \in Message
    BY HandlerReads DEF Reads
  <1>1. \A s : EndsContext(m, s, x) =>
           \/ m.type = "executionContextDestroyed" /\ m.session = s /\ m.context = x
           \/ m.type = "executionContextsCleared" /\ m.session = s
           \/ m.type = "frameNavigated" /\ m.session = s /\ m.frame = FrameOf[x]
           \/ m.type = "detachedFromTarget" /\ m.session = s
           \/ m.type = "targetDestroyed" /\ m.target = HomeOf[x]
    BY MessageTypes DEF EndsContext
  <1> HIDE DEF m
  <1>2. CASE OnDetachedFromTarget
    <2>1. m.type = "detachedFromTarget" /\ ForgetSession(m.session, {})
      BY <1>2, ReceiveReads DEF OnDetachedFromTarget, m
    <2>2. contexts'[x] = contexts[x] /\ contexts[x] # m.session
      BY <2>1 DEF ForgetSession, ForgetContexts, ContextsOf
    <2> QED
      BY <2>1, <2>2, <1>1 DEF m
  <1>3. CASE OnTargetDestroyed
    <2>1. m.type = "targetDestroyed" /\ ForgetTarget(m.target)
      BY <1>3, ReceiveReads DEF OnTargetDestroyed, m
    <2>2. PICK gone : /\ \A y \in Contexts :
                            contexts[y] # NoSession /\ HomeOf[y] = m.target => y \in gone
                      /\ ForgetContexts(gone)
      <3>1. PICK dropped : /\ dropped = {y \in Contexts : contexts[y] # NoSession
                                                          /\ HomeOf[y] = m.target}
                           /\ (\E s : ForgetSession(s, dropped)) \/ ForgetContexts(dropped)
        BY <2>1 DEF ForgetTarget
      <3>2. (\E s : ForgetContexts(ContextsOf(s) \cup dropped)) \/ ForgetContexts(dropped)
        BY <3>1 DEF ForgetSession
      <3> QED
        BY <3>1, <3>2
    <2>3. contexts'[x] = contexts[x] /\ HomeOf[x] # m.target
      BY <2>2 DEF ForgetContexts
    <2> QED
      BY <2>1, <2>3, <1>1 DEF m
  <1>4. CASE OnExecutionContextCreated
    <2>1. m.type = "executionContextCreated" /\ RecordExecutionContext(m.session, m.context)
      BY <1>4, ReceiveReads DEF OnExecutionContextCreated, m
    <2>2. \/ contexts' = contexts
          \/ contexts' = [contexts EXCEPT ![m.context] = m.session]
      BY <2>1 DEF RecordExecutionContext, graphVars
    <2>3. contexts'[x] = contexts[x] \/ (x = m.context /\ contexts'[x] = m.session)
      BY <2>2 DEF TypeOK
    <2> QED
      BY <2>1, <2>3, <1>1 DEF m
  <1>5. CASE OnContextsInvalidated
    <2>1. CASE /\ m.type = "executionContextDestroyed"
               /\ ForgetContexts(ContextsOf(m.session) \cap {m.context})
      BY <2>1, <1>1 DEF ForgetContexts, ContextsOf, m
    <2>2. CASE m.type = "executionContextsCleared" /\ ForgetContexts(ContextsOf(m.session))
      BY <2>2, <1>1 DEF ForgetContexts, ContextsOf, m
    <2>3. CASE /\ m.type = "frameNavigated"
               /\ ForgetContexts({y \in ContextsOf(m.session) : FrameOf[y] = m.frame})
      BY <2>3, <1>1 DEF ForgetContexts, ContextsOf, m
    <2>4. \/ /\ m.type = "executionContextDestroyed"
             /\ ForgetContexts(ContextsOf(m.session) \cap {m.context})
          \/ m.type = "executionContextsCleared" /\ ForgetContexts(ContextsOf(m.session))
          \/ /\ m.type = "frameNavigated"
             /\ ForgetContexts({y \in ContextsOf(m.session) : FrameOf[y] = m.frame})
      BY <1>5, ReceiveReads DEF OnContextsInvalidated, m
    <2> QED
      BY <2>1, <2>2, <2>3, <2>4
  <1>6. CASE OnAttachedToTarget \/ OnAttachReply \/ OnEnableReply
    <2>1. m.type \in {"attachedToTarget", "attachReply", "enableReply"}
      BY <1>6, ReceiveReads DEF OnAttachedToTarget, OnAttachReply, OnEnableReply, m
    <2>2. UNCHANGED contexts
      BY <1>6 DEF OnAttachedToTarget, OnAttachReply, OnEnableReply, RecordTargetSession, graphVars
    <2> QED
      BY <2>1, <2>2, <1>1 DEF m
  <1> QED
    BY <1>2, <1>3, <1>4, <1>5, <1>6 DEF HandleMessage

LEMMA ReportsCurrentStep ==
    ASSUME BaseInv, ReportsCurrent, Next
    PROVE  ReportsCurrent'
  <1> USE DEF BaseInv
  <1>1. CASE Browser
    <2>1. PICK ms : BrowserSends(ms)
      BY <1>1, BrowserContract
    <2>2. Appended(ms)
      BY <2>1, BrowserAppends
    <2>3. ASSUME NEW i \in DOMAIN events', NEW m, m = events'[i], m.type = "executionContextCreated"
          PROVE  Reported(i, m.session, m.context)'
      <3>0. m \in Message /\ m.session \in Sessions /\ m.context \in Contexts
        BY <2>2, <2>3, MessageFields DEF Appended
      <3>1. CASE i \in DOMAIN events /\ m = events[i]
        <4>1. Reported(i, m.session, m.context)
          BY <3>1, <2>3 DEF ReportsCurrent
        <4> QED
          BY <4>1, <3>0, <3>1, <2>1, <2>2, ReportedByBrowser
      <3>2. ASSUME NEW k \in DOMAIN ms, m = ms[k]
            PROVE  Reported(i, m.session, m.context)'
        <4>1. Sent(m)
          BY <3>2, <2>1 DEF BrowserSends
        <4>2. /\ m.session \in open' /\ m.session \in enabled'
              /\ owner'[m.session] = HomeOf[m.context] /\ world'[m.context] = "live"
          BY <4>1, <2>3 DEF Sent
        <4> QED
          BY <4>2 DEF Reported, Covered, Current
      <3> QED
        BY <3>1, <3>2, <2>2, <2>3 DEF Appended
    <2> QED
      BY <2>3 DEF ReportsCurrent
  <1>2. CASE HandleMessage
    <2>1. Reads
      BY <1>2, HandlerReads
    <2>2. ASSUME NEW i \in DOMAIN events', NEW m, m = events'[i], m.type = "executionContextCreated"
          PROVE  Reported(i, m.session, m.context)'
      <3>1. i + 1 \in DOMAIN events /\ events[i + 1] = m /\ i \in Nat
        BY <2>1, <2>2 DEF Reads
      <3>2. Reported(i + 1, m.session, m.context)
        BY <3>1, <2>2 DEF ReportsCurrent
      <3>3. Reported((i + 1) - 1, m.session, m.context)'
        BY <3>1, <3>2, <2>1, ReportedByRead
      <3>4. (i + 1) - 1 = i
        BY <3>1
      <3> QED
        BY <3>3, <3>4
    <2> QED
      BY <2>2 DEF ReportsCurrent
  <1>3. CASE Call
    BY <1>3, CallQuiet DEF ReportsCurrent, Reported, Covered, Current
  <1> QED
    BY <1>1, <1>2, <1>3 DEF Next

LEMMA RecordsCurrentStep ==
    ASSUME BaseInv, ReportsCurrent, RecordsCurrent, Next
    PROVE  RecordsCurrent'
  <1> USE DEF BaseInv
  <1>1. CASE Browser
    <2>1. PICK ms : BrowserSends(ms)
      BY <1>1, BrowserContract
    <2>2. Appended(ms) /\ UNCHANGED contexts
      BY <2>1, BrowserAppends DEF BrowserSends, graphVars
    <2>3. ASSUME NEW x \in Contexts, NEW s, s = contexts[x], s # NoSession
          PROVE  Reported(0, s, x)'
      <3>1. s \in Sessions /\ Reported(0, s, x)
        BY <2>3 DEF TypeOK, RecordsCurrent
      <3> QED
        BY <3>1, <2>1, <2>2, ReportedByBrowser
    <2> QED
      BY <2>2, <2>3 DEF RecordsCurrent
  <1>2. CASE HandleMessage
    <2>1. Reads
      BY <1>2, HandlerReads
    <2>2. ASSUME NEW x \in Contexts, NEW s, s = contexts'[x], s # NoSession
          PROVE  Reported(0, s, x)'
      <3>1. CASE contexts[x] = s /\ ~EndsContext(Head(events), s, x)
        <4>1. Reported(0, s, x)
          BY <3>1, <2>2 DEF RecordsCurrent
        <4> QED
          BY <4>1, <3>1, <2>1, ReportedKept
      <3>2. CASE /\ Head(events).type = "executionContextCreated"
                 /\ Head(events).session = s /\ Head(events).context = x
        <4>1. 1 \in DOMAIN events /\ Reported(1, s, x)
          BY <3>2, <2>1 DEF Reads, ReportsCurrent
        <4>2. Reported(1 - 1, s, x)'
          BY <4>1, <2>1, ReportedByRead
        <4> QED
          BY <4>2
      <3> QED
        BY <3>1, <3>2, <2>2, <1>2, RecordsKept
    <2> QED
      BY <2>2 DEF RecordsCurrent
  <1>3. CASE Call
    <2>1. UNCHANGED contexts
      BY <1>3 DEF Call, EnsureRoute, SendOnSession, Proceed, RecordAttachment, FindContext,
                  SendCommand, Timeout, RecordTargetSession, graphVars
    <2> QED
      BY <2>1, <1>3, CallQuiet DEF RecordsCurrent, Reported, Covered, Current
  <1> QED
    BY <1>1, <1>2, <1>3 DEF Next

LEMMA ContextInvInit == Init => ContextInv
  <1>1. Init => ReportsCurrent /\ RecordsCurrent
    BY DEF Init, ReportsCurrent, RecordsCurrent
  <1> QED
    BY <1>1, GraphInit DEF ContextInv

LEMMA ContextInvStep == ContextInv /\ [Next]_vars => ContextInv'
  <1> SUFFICES ASSUME ContextInv, [Next]_vars PROVE ContextInv'
    OBVIOUS
  <1>0. GraphInv' /\ BaseInv
    BY GraphStep DEF ContextInv, GraphInv
  <1>1. CASE Next
    BY <1>0, <1>1, ReportsCurrentStep, RecordsCurrentStep DEF ContextInv
  <1>2. CASE UNCHANGED vars
    <2>1. UNCHANGED <<owner, open, enabled, world, events, contexts>>
      BY <1>2 DEF vars, browserVars, graphVars
    <2> QED
      BY <1>0, <2>1 DEF ContextInv, ReportsCurrent, RecordsCurrent, Reported, Covered, Current
  <1> QED
    BY <1>1, <1>2

LEMMA ContextInvariance == Spec => []ContextInv
  BY ContextInvInit, ContextInvStep, PTL DEF Spec

\* A recorded context exists, or a message that removes its record is on its
\* way, also when messages come in chunks.
THEOREM RecordsAreCurrent == Spec => []ContextsAreCurrent
  <1>1. ContextInv => ContextsAreCurrent
    <2> SUFFICES ASSUME ContextInv, NEW x \in Contexts, NEW s, s = contexts[x], s # NoSession,
                        world[x] # "live"
                 PROVE  \/ InFlight(ContextDestroyed(s, x)) \/ InFlight(ContextsCleared(s))
                        \/ InFlight(FrameNavigated(s, FrameOf[x])) \/ InFlight(Detached(s))
                        \/ InFlight(Destroyed(HomeOf[x]))
      BY DEF ContextsAreCurrent
    <2>1. \E j \in DOMAIN events : EndsContext(events[j], s, x)
      BY DEF ContextInv, RecordsCurrent, Reported, Current
    <2> QED
      BY <2>1 DEF EndsContext, InFlight
  <1> QED
    BY <1>1, ContextInvariance, PTL

-----------------------------------------------------------------------------
(* Routes: the session a target is routed to is there, or its end is on    *)
(* its way.  From here on a call past an await runs before the next        *)
(* message: a session that was attached for a call is recorded before the  *)
(* router can read that it ended.                                          *)

Announces(m) == m.type \in {"attachedToTarget", "attachReply"} /\ m.session # NoSession

AnnouncedSessionsEnd ==
    \A i \in DOMAIN events : Announces(events[i]) => Covered(i, events[i].session)

RoutesEnd ==
    /\ \A t \in Targets : LET s == sessionId_from_targetId[t]
                          IN  s # NoSession => Covered(0, s)
    /\ \A c \in Callers : phase[c] = "attached" => Covered(0, route[c])

\* A call that is about to be sent has looked up its context since the last
\* message.
ReadyCurrent ==
    \A c \in Callers : phase[c] = "ready" =>
        chosen[c] \in Contexts /\ contexts[chosen[c]] = route[c]

RouteInv == ContextInv /\ AnnouncedSessionsEnd /\ RoutesEnd /\ ReadyCurrent

LEMMA AnnouncedSessionsEndStep ==
    ASSUME BaseInv, AnnouncedSessionsEnd, Next
    PROVE  AnnouncedSessionsEnd'
  <1> USE DEF BaseInv
  <1>1. CASE Browser
    <2>1. PICK ms : BrowserSends(ms)
      BY <1>1, BrowserContract
    <2>2. Appended(ms)
      BY <2>1, BrowserAppends
    <2>3. ASSUME NEW i \in DOMAIN events', NEW m, m = events'[i], Announces(m)
          PROVE  Covered(i, m.session)'
      <3>0. m \in Message /\ m.session \in Sessions
        BY <2>2, <2>3, MessageFields DEF Appended, Announces
      <3>1. CASE i \in DOMAIN events /\ m = events[i]
        <4>1. Covered(i, m.session)
          BY <3>1, <2>3 DEF AnnouncedSessionsEnd
        <4> QED
          BY <4>1, <3>0, <3>1, <2>1, <2>2, CoveredByBrowser
      <3>2. ASSUME NEW k \in DOMAIN ms, m = ms[k]
            PROVE  Covered(i, m.session)'
        <4>1. Sent(m)
          BY <3>2, <2>1 DEF BrowserSends
        <4>2. m.session \in open'
          BY <4>1, <2>3 DEF Sent, Announces
        <4> QED
          BY <4>2 DEF Covered
      <3> QED
        BY <3>1, <3>2, <2>2, <2>3 DEF Appended
    <2> QED
      BY <2>3 DEF AnnouncedSessionsEnd, Announces
  <1>2. CASE HandleMessage
    <2>1. Reads
      BY <1>2, HandlerReads
    <2>2. ASSUME NEW i \in DOMAIN events', NEW m, m = events'[i], Announces(m)
          PROVE  Covered(i, m.session)'
      <3>1. i + 1 \in DOMAIN events /\ events[i + 1] = m /\ i \in Nat
        BY <2>1, <2>2 DEF Reads
      <3>2. Covered(i + 1, m.session)
        BY <3>1, <2>2 DEF AnnouncedSessionsEnd
      <3>3. Covered((i + 1) - 1, m.session)'
        BY <3>1, <3>2, <2>1, CoveredByRead
      <3>4. (i + 1) - 1 = i
        BY <3>1
      <3> QED
        BY <3>3, <3>4
    <2> QED
      BY <2>2 DEF AnnouncedSessionsEnd, Announces
  <1>3. CASE Call
    BY <1>3, CallQuiet DEF AnnouncedSessionsEnd, Announces, Covered
  <1> QED
    BY <1>1, <1>2, <1>3 DEF Next

\* A route that outlives a message is not ended by it, or is made by it.
LEMMA RoutesKept ==
    ASSUME TypeOK, MapsAgree, HandleMessage,
           NEW t \in Targets, sessionId_from_targetId'[t] # NoSession
    PROVE  \/ /\ sessionId_from_targetId[t] = sessionId_from_targetId'[t]
              /\ Head(events) # Detached(sessionId_from_targetId[t])
           \/ /\ Head(events).type = "attachedToTarget"
              /\ Head(events).session = sessionId_from_targetId'[t]
  <1> DEFINE m == Head(events)
  <1>0. /\ m \in Message
        /\ \A s : m = Detached(s) => m.type = "detachedFromTarget" /\ m.session = s
    BY HandlerReads, MessageTypes DEF Reads
  <1> HIDE DEF m
  <1>1. CASE OnAttachedToTarget
    <2>1. m.type = "attachedToTarget" /\ RecordTargetSession(m.target, m.session)
      BY <1>1, ReceiveReads DEF OnAttachedToTarget, m
    <2>2. sessionId_from_targetId' = [sessionId_from_targetId EXCEPT ![m.target] = m.session]
      BY <2>1 DEF RecordTargetSession
    <2>3. \/ sessionId_from_targetId'[t] = sessionId_from_targetId[t]
          \/ sessionId_from_targetId'[t] = m.session
      BY <2>2 DEF TypeOK
    <2> QED
      BY <2>1, <2>3, <1>0 DEF m
  <1>2. CASE OnDetachedFromTarget
    <2>1. m.type = "detachedFromTarget" /\ ForgetSession(m.session, {})
      BY <1>2, ReceiveReads DEF OnDetachedFromTarget, m
    <2>2. /\ sessionId_from_targetId'[t] = sessionId_from_targetId[t]
          /\ t # targetId_from_sessionId[m.session]
      BY <2>1 DEF ForgetSession
    <2>3. sessionId_from_targetId[t] # m.session
      BY <2>2 DEF MapsAgree
    <2> QED
      BY <2>2, <2>3, <1>0 DEF m
  <1>3. CASE OnTargetDestroyed
    <2>1. m.type = "targetDestroyed" /\ ForgetTarget(m.target)
      BY <1>3, ReceiveReads DEF OnTargetDestroyed, m
    <2>2. (\E s, gone : ForgetSession(s, gone)) \/ UNCHANGED sessionId_from_targetId
      BY <2>1 DEF ForgetTarget
    <2>3. sessionId_from_targetId'[t] = sessionId_from_targetId[t]
      BY <2>2 DEF ForgetSession
    <2> QED
      BY <2>1, <2>3, <1>0 DEF m
  <1>4. CASE OnExecutionContextCreated \/ OnContextsInvalidated \/ OnAttachReply \/ OnEnableReply
    <2>1. m.type # "detachedFromTarget"
      BY <1>4, ReceiveReads
         DEF OnExecutionContextCreated, OnContextsInvalidated, OnAttachReply, OnEnableReply, m
    <2>2. UNCHANGED sessionId_from_targetId
      BY <1>4 DEF OnExecutionContextCreated, OnContextsInvalidated, OnAttachReply, OnEnableReply,
                  RecordExecutionContext, graphVars
    <2> QED
      BY <2>1, <2>2, <1>0 DEF m
  <1> QED
    BY <1>1, <1>2, <1>3, <1>4 DEF HandleMessage

\* What a message lets a call do.
LEMMA MessagesWake ==
    ASSUME TypeOK, HandleMessage, MicrotasksDone, NEW c \in Callers
    PROVE  /\ phase'[c] \notin {"routed"}
           /\ phase'[c] = "attached" => /\ Head(events).type = "attachReply"
                                        /\ Head(events).session = route'[c]
                                        /\ Head(events).session # NoSession
           /\ phase'[c] = "enabled" => /\ Head(events) = EnableReply(c, TRUE)
                                       /\ phase[c] = "enabling" /\ route'[c] = route[c]
           /\ phase'[c] = "ready" => chosen'[c] \in Contexts /\ contexts'[chosen'[c]] = route'[c]
           /\ phase'[c] \in {"idle", "attaching", "enabling", "waiting", "sent"} =>
                 phase[c] = phase'[c] /\ route'[c] = route[c]
  <1> DEFINE m == Head(events)
  <1>0. m \in Message /\ phase[c] \notin Continuations
    BY HandlerReads DEF Reads, MicrotasksDone
  <1> HIDE DEF m
  <1>1. CASE phase'[c] \in {phase[c], "failed"} /\ route'[c] = route[c]
    BY <1>0, <1>1 DEF Continuations
  <1>2. ASSUME (\E s, gone : ForgetSession(s, gone)) \/ UNCHANGED callVars
        PROVE  phase'[c] \in {phase[c], "failed"} /\ route'[c] = route[c]
    BY <1>2 DEF ForgetSession, callVars
  <1>3. CASE OnAttachedToTarget \/ OnContextsInvalidated \/ OnDetachedFromTarget \/ OnTargetDestroyed
    <2>1. (\E s, gone : ForgetSession(s, gone)) \/ UNCHANGED callVars
      BY <1>3 DEF OnAttachedToTarget, OnContextsInvalidated, OnDetachedFromTarget, OnTargetDestroyed,
                  ForgetTarget, callVars
    <2> QED
      BY <1>1, <1>2, <2>1
  <1>4. CASE OnExecutionContextCreated
    <2>1. m.type = "executionContextCreated" /\ RecordExecutionContext(m.session, m.context)
      BY <1>4, ReceiveReads DEF OnExecutionContextCreated, m
    <2>2. m.session \in Sessions /\ m.context \in Contexts
      BY <1>0, <2>1, MessageFields
    <2>3. PICK s \in Sessions, x \in Contexts : RecordExecutionContext(s, x)
      BY <2>1, <2>2
    <2>4. CASE UNCHANGED callVars
      BY <1>1, <1>2, <2>4
    <2>5. CASE /\ contexts' = [contexts EXCEPT ![x] = s]
               /\ phase' = [d \in Callers |-> IF d \in {e \in WaitersOf(s) : x \in Accepts[e]}
                                              THEN "ready" ELSE phase[d]]
               /\ chosen' = [d \in Callers |-> IF d \in {e \in WaitersOf(s) : x \in Accepts[e]}
                                               THEN x ELSE chosen[d]]
               /\ UNCHANGED route
      <3>1. CASE c \in {e \in WaitersOf(s) : x \in Accepts[e]}
        <4>1. phase'[c] = "ready" /\ chosen'[c] = x /\ route'[c] = s /\ contexts'[x] = s
          BY <2>5, <3>1 DEF WaitersOf, TypeOK
        <4> QED
          BY <4>1
      <3>2. CASE c \notin {e \in WaitersOf(s) : x \in Accepts[e]}
        BY <1>1, <2>5, <3>2
      <3> QED
        BY <3>1, <3>2
    <2> QED
      BY <2>3, <2>4, <2>5 DEF RecordExecutionContext
  <1>5. CASE OnAttachReply
    <2>1. m.type = "attachReply" /\ m.caller \in Callers
      BY <1>0, <1>5, ReceiveReads, MessageFields DEF OnAttachReply, m
    <2>2. \/ UNCHANGED <<phase, route>>
          \/ /\ phase' = [phase EXCEPT ![m.caller] = IF m.session = NoSession THEN "failed"
                                                     ELSE "attached"]
             /\ route' = [route EXCEPT ![m.caller] = m.session]
      BY <1>5 DEF OnAttachReply, m
    <2>3. \/ phase'[c] = phase[c] /\ route'[c] = route[c]
          \/ /\ route'[c] = m.session
             /\ phase'[c] = IF m.session = NoSession THEN "failed" ELSE "attached"
      BY <2>1, <2>2 DEF TypeOK
    <2> QED
      BY <1>1, <2>1, <2>3 DEF m
  <1>6. CASE OnEnableReply
    <2>1. m.type = "enableReply" /\ m.caller \in Callers /\ m = EnableReply(m.caller, m.ok)
          /\ m.ok \in BOOLEAN
      BY <1>0, <1>6, ReceiveReads, MessageFields DEF OnEnableReply, m
    <2>2. /\ phase' = IF phase[m.caller] = "enabling"
                      THEN [phase EXCEPT ![m.caller] = IF m.ok THEN "enabled" ELSE "failed"]
                      ELSE phase
          /\ UNCHANGED route
      BY <1>6 DEF OnEnableReply, m
    <2>3. \/ phase'[c] \in {phase[c], "failed"}
          \/ /\ phase'[c] = "enabled" /\ c = m.caller /\ m.ok = TRUE
             /\ phase[c] = "enabling"
      BY <2>1, <2>2 DEF TypeOK
    <2> QED
      BY <1>1, <2>1, <2>2, <2>3 DEF m
  <1> QED
    BY <1>3, <1>4, <1>5, <1>6 DEF HandleMessage

LEMMA RoutesEndStep ==
    ASSUME ~Chunked, RouteInv, Next
    PROVE  RoutesEnd'
  <1>0. TypeOK /\ MapsAgree /\ BaseInv /\ CallsHaveRoutes
    BY DEF RouteInv, ContextInv, GraphInv, BaseInv
  <1>1. CASE Browser
    <2>1. PICK ms : BrowserSends(ms)
      BY <1>0, <1>1, BrowserContract DEF BaseInv
    <2>2. Appended(ms) /\ UNCHANGED <<graphVars, callVars>>
      BY <1>0, <2>1, BrowserAppends DEF BrowserSends
    <2>3. ASSUME NEW t \in Targets, NEW s, s = sessionId_from_targetId[t], s # NoSession
          PROVE  Covered(0, s)'
      <3>1. s \in Sessions /\ Covered(0, s)
        BY <1>0, <2>3 DEF TypeOK, RouteInv, RoutesEnd
      <3> QED
        BY <3>1, <2>1, <2>2, CoveredByBrowser
    <2>4. ASSUME NEW c \in Callers, phase[c] = "attached", NEW s, s = route[c]
          PROVE  Covered(0, s)'
      <3>1. s \in Sessions /\ Covered(0, s)
        BY <1>0, <2>4 DEF TypeOK, RouteInv, RoutesEnd, CallsHaveRoutes, Routed
      <3> QED
        BY <3>1, <2>1, <2>2, CoveredByBrowser
    <2> QED
      BY <2>2, <2>3, <2>4 DEF RoutesEnd, graphVars, callVars
  <1>2. CASE HandleMessage
    <2>1. Reads /\ MicrotasksDone
      BY <1>0, <1>2, HandlerReads DEF Reads
    <2>2. ASSUME NEW s, Announces(Head(events)), Head(events).session = s
          PROVE  Covered(0, s)'
      <3>1. 1 \in DOMAIN events /\ Covered(1, s)
        BY <2>1, <2>2 DEF Reads, RouteInv, AnnouncedSessionsEnd
      <3>2. Covered(1 - 1, s)'
        BY <3>1, <2>1, CoveredByRead
      <3> QED
        BY <3>2
    <2>3. ASSUME NEW t \in Targets, NEW s, s = sessionId_from_targetId'[t], s # NoSession
          PROVE  Covered(0, s)'
      <3>1. CASE sessionId_from_targetId[t] = s /\ Head(events) # Detached(s)
        <4>1. Covered(0, s)
          BY <3>1, <2>3 DEF RouteInv, RoutesEnd
        <4> QED
          BY <4>1, <3>1, <2>1, CoveredKept
      <3>2. CASE Head(events).type = "attachedToTarget" /\ Head(events).session = s
        BY <3>2, <2>2, <2>3 DEF Announces
      <3> QED
        BY <1>0, <1>2, <2>3, <3>1, <3>2, RoutesKept
    <2>4. ASSUME NEW c \in Callers, phase'[c] = "attached", NEW s, s = route'[c]
          PROVE  Covered(0, s)'
      BY <1>0, <1>2, <2>1, <2>2, <2>4, MessagesWake DEF Announces
    <2> QED
      BY <2>3, <2>4 DEF RoutesEnd
  <1>3. CASE Call
    <2>1. \A s : Covered(0, s) => Covered(0, s)'
      BY <1>3, CallQuiet DEF Covered
    <2>2. ASSUME NEW c \in Callers, RecordAttachment(c)
          PROVE  RoutesEnd'
      <3>1. /\ phase[c] = "attached" /\ phase' = [phase EXCEPT ![c] = "routed"] /\ UNCHANGED route
            /\ sessionId_from_targetId' = [sessionId_from_targetId EXCEPT ![TargetOf[c]] = route[c]]
        BY <2>2 DEF RecordAttachment, RecordTargetSession
      <3>2. Covered(0, route[c])
        BY <3>1 DEF RouteInv, RoutesEnd
      <3>3. \A t \in Targets : sessionId_from_targetId'[t] \in {sessionId_from_targetId[t], route[c]}
        BY <3>1, <1>0 DEF TypeOK
      <3>4. \A d \in Callers : phase'[d] = "attached" => phase[d] = "attached"
        BY <3>1, <1>0 DEF TypeOK
      <3> QED
        BY <2>1, <3>1, <3>2, <3>3, <3>4 DEF RoutesEnd, RouteInv
    <2>3. ASSUME NEW c \in Callers, ~RecordAttachment(c),
                 EnsureRoute(c) \/ (\E s \in Sessions : SendOnSession(c, s)) \/ Proceed(c) \/ Timeout(c)
          PROVE  RoutesEnd'
      <3>1. UNCHANGED sessionId_from_targetId
        BY <2>3 DEF EnsureRoute, SendOnSession, Proceed, FindContext, SendCommand, Timeout, graphVars
      <3>2. \A d \in Callers : phase'[d] = "attached" => phase[d] = "attached" /\ route'[d] = route[d]
        BY <2>3, <1>0 DEF EnsureRoute, SendOnSession, Proceed, FindContext, ChooseContext,
                          SendCommand, Timeout, TypeOK
      <3> QED
        BY <2>1, <3>1, <3>2 DEF RoutesEnd, RouteInv
    <2> QED
      BY <1>3, <2>2, <2>3 DEF Call, Proceed
  <1> QED
    BY <1>1, <1>2, <1>3 DEF Next

LEMMA ReadyCurrentStep ==
    ASSUME ~Chunked, RouteInv, Next
    PROVE  ReadyCurrent'
  <1>0. TypeOK /\ BaseInv
    BY DEF RouteInv, ContextInv, GraphInv, BaseInv
  <1>1. CASE Browser
    <2>1. PICK ms : BrowserSends(ms)
      BY <1>0, <1>1, BrowserContract DEF BaseInv
    <2> QED
      BY <2>1 DEF BrowserSends, graphVars, callVars, ReadyCurrent, RouteInv
  <1>2. CASE HandleMessage
    <2>1. MicrotasksDone
      BY <1>0, <1>2, HandlerReads DEF Reads
    <2> QED
      BY <1>0, <1>2, <2>1, MessagesWake DEF ReadyCurrent
  <1>3. CASE Call
    <2>1. UNCHANGED contexts
      BY <1>3 DEF Call, EnsureRoute, SendOnSession, Proceed, RecordAttachment, FindContext,
                  SendCommand, Timeout, RecordTargetSession, graphVars
    <2>2. ASSUME NEW c \in Callers, FindContext(c)
          PROVE  ReadyCurrent'
      <3>1. CASE ChooseContext(c)
        <4>1. PICK x \in Matches(c) : /\ phase' = [phase EXCEPT ![c] = "ready"]
                                      /\ chosen' = [chosen EXCEPT ![c] = x]
          BY <3>1 DEF ChooseContext
        <4>2. x \in Contexts /\ contexts[x] = route[c] /\ UNCHANGED route
          BY <2>2, <4>1 DEF Matches, FindContext
        <4>3. phase'[c] = "ready" /\ chosen'[c] = x
          BY <4>1, <1>0 DEF TypeOK
        <4>4. \A d \in Callers : d # c => phase'[d] = phase[d] /\ chosen'[d] = chosen[d]
          BY <4>1, <1>0 DEF TypeOK
        <4> QED
          BY <2>1, <4>2, <4>3, <4>4 DEF ReadyCurrent, RouteInv
      <3>2. CASE ~ChooseContext(c)
        <4>1. UNCHANGED <<route, chosen>>
          BY <2>2, <3>2 DEF FindContext
        <4>2. \A d \in Callers : phase'[d] = "ready" => phase[d] = "ready"
          BY <2>2, <3>2, <1>0 DEF FindContext, TypeOK
        <4> QED
          BY <2>1, <4>1, <4>2 DEF ReadyCurrent, RouteInv
      <3> QED
        BY <3>1, <3>2
    <2>3. ASSUME NEW c \in Callers,
                 \/ EnsureRoute(c) \/ RecordAttachment(c) \/ SendCommand(c) \/ Timeout(c)
                 \/ \E s \in Sessions : SendOnSession(c, s)
          PROVE  ReadyCurrent'
      <3>1. UNCHANGED chosen
        BY <2>3 DEF EnsureRoute, RecordAttachment, SendCommand, Timeout, SendOnSession
      <3>2. \A d \in Callers : phase'[d] = "ready" => phase[d] = "ready" /\ route'[d] = route[d]
        BY <2>3, <1>0 DEF EnsureRoute, RecordAttachment, SendCommand, Timeout, SendOnSession, TypeOK
      <3> QED
        BY <2>1, <3>1, <3>2 DEF ReadyCurrent, RouteInv
    <2> QED
      BY <1>3, <2>2, <2>3 DEF Call, Proceed
  <1> QED
    BY <1>1, <1>2, <1>3 DEF Next

LEMMA RouteInvInit == Init => RouteInv
  <1>1. Init => AnnouncedSessionsEnd /\ RoutesEnd /\ ReadyCurrent
    BY DEF Init, AnnouncedSessionsEnd, RoutesEnd, ReadyCurrent
  <1> QED
    BY <1>1, ContextInvInit DEF RouteInv

LEMMA RouteInvStep == ~Chunked /\ RouteInv /\ [Next]_vars => RouteInv'
  <1> SUFFICES ASSUME ~Chunked, RouteInv, [Next]_vars PROVE RouteInv'
    OBVIOUS
  <1>0. ContextInv' /\ BaseInv
    BY ContextInvStep DEF RouteInv, ContextInv, GraphInv
  <1>1. CASE Next
    BY <1>0, <1>1, AnnouncedSessionsEndStep, RoutesEndStep, ReadyCurrentStep DEF RouteInv
  <1>2. CASE UNCHANGED vars
    <2>1. UNCHANGED <<open, events, graphVars, callVars>>
      BY <1>2 DEF vars, browserVars
    <2> QED
      BY <1>0, <2>1 DEF RouteInv, AnnouncedSessionsEnd, Announces, RoutesEnd, ReadyCurrent, Covered,
                        graphVars, callVars
  <1> QED
    BY <1>1, <1>2

LEMMA RouteInvariance ==
    ASSUME ~Chunked
    PROVE  Spec => []RouteInv
  <1>1. RouteInv /\ [Next]_vars => RouteInv'
    BY RouteInvStep
  <1> QED
    BY <1>1, RouteInvInit, PTL DEF Spec

\* The session a target is routed to is attached, or the router has yet to
\* read that it ended.
THEOREM RoutesStayCurrent ==
    ASSUME ~Chunked
    PROVE  Spec => []RoutesAreCurrent
  <1>1. RouteInv => RoutesAreCurrent
    BY DEF RouteInv, RoutesEnd, Covered, RoutesAreCurrent, InFlight
  <1> QED
    BY <1>1, RouteInvariance, PTL

\* A command goes out on a session the router knows and with a context it
\* knows under that session.
THEOREM CommandsUseCurrentRoute ==
    ASSUME ~Chunked
    PROVE  Spec => SendsOnCurrentRoute
  <1>1. RouteInv /\ [Next]_vars =>
            [\A c \in Callers : phase[c] = "ready" /\ phase'[c] = "sent" =>
                /\ targetId_from_sessionId[route[c]] # NoTarget
                /\ contexts[chosen[c]] = route[c]]_vars
    <2> SUFFICES ASSUME RouteInv, NEW c \in Callers, phase[c] = "ready"
                 PROVE  /\ targetId_from_sessionId[route[c]] # NoTarget
                        /\ contexts[chosen[c]] = route[c]
      OBVIOUS
    <2>1. chosen[c] \in Contexts /\ contexts[chosen[c]] = route[c]
      BY DEF RouteInv, ReadyCurrent
    <2>2. route[c] # NoSession
      BY DEF RouteInv, ContextInv, GraphInv, BaseInv, CallsHaveRoutes, Routed
    <2>3. ContextsHaveSessions
      BY DEF RouteInv, ContextInv, GraphInv
    <2> QED
      BY <2>1, <2>2, <2>3 DEF ContextsHaveSessions
  <1> QED
    BY <1>1, RouteInvariance, PTL DEF Spec, SendsOnCurrentRoute

-----------------------------------------------------------------------------
(* Waiters: the session a call waits on is known, so that its end rejects  *)
(* the call.  A call that enabled the Runtime domain goes on only on a     *)
(* reply, and no end of its session is in front of that reply.             *)

Known(s) == targetId_from_sessionId[s] # NoTarget

\* The messages that make the router forget session s.
EndsSession(m, s) == m = Detached(s) \/ m = Destroyed(owner[s])

\* A request has one answer, and a call one request at a time.
InTurn(m) ==
    /\ m.type = "attachReply" =>
          /\ phase[m.caller] # "idle"
          /\ phase[m.caller] = "attaching" => m.caller \notin asked
    /\ m.type = "enableReply" =>
          /\ phase[m.caller] \notin {"idle", "attaching", "attached", "routed"}
          /\ phase[m.caller] = "enabling" => m.caller \notin asked

RepliesInTurn ==
    /\ \A c \in asked : phase[c] \in {"attaching", "enabling", "failed"}
    /\ \A i \in DOMAIN events : InTurn(events[i])

EnablesKnown ==
    \A c \in Callers : phase[c] = "enabling" =>
        /\ c \in asked => Known(route[c]) \/ route[c] \notin open
        /\ \A i \in DOMAIN events : events[i] = EnableReply(c, TRUE) =>
              /\ Known(route[c])
              /\ \A j \in DOMAIN events : j < i => ~EndsSession(events[j], route[c])

CallsKnown ==
    \A c \in Callers : phase[c] \in {"routed", "enabled", "waiting"} => Known(route[c])

WaiterInv == GraphInv /\ RepliesInTurn /\ EnablesKnown /\ CallsKnown

\* The end of an open session cannot be in the queue.
LEMMA OpenNotEnded ==
    ASSUME EndsAreTrue, NEW s \in open, NEW j \in DOMAIN events
    PROVE  ~EndsSession(events[j], s)
  <1>1. CASE events[j] = Detached(s)
    BY <1>1, MessageTypes DEF EndsAreTrue
  <1>2. CASE events[j] = Destroyed(owner[s])
    BY <1>2, MessageTypes DEF EndsAreTrue
  <1> QED
    BY <1>1, <1>2 DEF EndsSession

\* A session is forgotten with everything that waits on it, by a message that
\* ends it.
LEMMA KnownLost ==
    ASSUME TypeOK, GraphOwned, HandleMessage, NEW s \in Sessions, Known(s), ~Known(s)'
    PROVE  EndsSession(Head(events), s) /\ \E gone : ForgetSession(s, gone)
  <1> DEFINE m == Head(events)
  <1>0. m \in Message
    BY HandlerReads DEF Reads
  <1> HIDE DEF m
  <1>1. ASSUME NEW r, NEW gone, ForgetSession(r, gone)
        PROVE  r = s
    BY <1>1 DEF ForgetSession, Known, TypeOK
  <1>2. CASE OnAttachedToTarget
    <2>1. m.type = "attachedToTarget" /\ RecordTargetSession(m.target, m.session)
      BY <1>2, ReceiveReads DEF OnAttachedToTarget, m
    <2>2. m.target \in Targets
      BY <1>0, <2>1, MessageFields
    <2> QED
      BY <2>1, <2>2 DEF RecordTargetSession, Known, TypeOK
  <1>3. CASE OnDetachedFromTarget
    <2>1. m.type = "detachedFromTarget" /\ ForgetSession(m.session, {})
      BY <1>3, ReceiveReads DEF OnDetachedFromTarget, m
    <2>2. m.session = s /\ m = Detached(m.session)
      BY <1>0, <1>1, <2>1, MessageFields
    <2> QED
      BY <2>1, <2>2 DEF EndsSession, m
  <1>4. CASE OnTargetDestroyed
    <2>1. m.type = "targetDestroyed" /\ ForgetTarget(m.target)
      BY <1>4, ReceiveReads DEF OnTargetDestroyed, m
    <2>2. m.target \in Targets /\ m = Destroyed(m.target)
      BY <1>0, <2>1, MessageFields
    <2>3. PICK r, gone : /\ r = sessionId_from_targetId[m.target]
                         /\ \/ r # NoSession /\ ForgetSession(r, gone)
                            \/ UNCHANGED targetId_from_sessionId
      BY <2>1 DEF ForgetTarget
    <2>4. r # NoSession /\ ForgetSession(r, gone)
      BY <2>3 DEF Known
    <2>5. r = s /\ owner[s] = m.target
      BY <1>1, <2>2, <2>3, <2>4 DEF GraphOwned
    <2> QED
      BY <2>2, <2>4, <2>5 DEF EndsSession, m
  <1>5. CASE OnExecutionContextCreated \/ OnContextsInvalidated \/ OnAttachReply \/ OnEnableReply
    <2>1. UNCHANGED targetId_from_sessionId
      BY <1>5 DEF OnExecutionContextCreated, OnContextsInvalidated, OnAttachReply, OnEnableReply,
                  RecordExecutionContext, graphVars
    <2> QED
      BY <2>1 DEF Known
  <1> QED
    BY <1>2, <1>3, <1>4, <1>5 DEF HandleMessage

\* A call's step forgets no session.
LEMMA KnownByCall ==
    ASSUME TypeOK, CallsHaveRoutes, Call, NEW s, s \in Sessions, Known(s)
    PROVE  Known(s)'
  <1>1. CASE UNCHANGED targetId_from_sessionId
    BY <1>1 DEF Known
  <1>2. ASSUME NEW c \in Callers, RecordAttachment(c)
        PROVE  Known(s)'
    <2>1. targetId_from_sessionId' = [targetId_from_sessionId EXCEPT ![route[c]] = TargetOf[c]]
      BY <1>2 DEF RecordAttachment, RecordTargetSession
    <2> QED
      BY <2>1 DEF Known, TypeOK
  <1> QED
    BY <1>1, <1>2 DEF Call, EnsureRoute, SendOnSession, Proceed, FindContext, SendCommand, Timeout,
                      graphVars

LEMMA RepliesInTurnStep ==
    ASSUME GraphInv, RepliesInTurn, Next
    PROVE  RepliesInTurn'
  <1>0. TypeOK /\ BaseInv /\ CallsHaveRoutes
    BY DEF GraphInv, BaseInv
  <1>1. CASE Browser
    <2>1. PICK ms : BrowserSends(ms)
      BY <1>0, <1>1, BrowserContract DEF BaseInv
    <2>2. Appended(ms) /\ UNCHANGED <<phase, route>> /\ asked' \subseteq asked
      BY <1>0, <2>1, BrowserAppends DEF BrowserSends, BrowserTypes, callVars
    <2>3. ASSUME NEW i \in DOMAIN events', NEW m, m = events'[i]
          PROVE  InTurn(m)'
      <3>1. CASE i \in DOMAIN events /\ m = events[i]
        BY <3>1, <2>2 DEF RepliesInTurn, InTurn
      <3>2. ASSUME NEW k \in DOMAIN ms, m = ms[k], m.type \in {"attachReply", "enableReply"}
            PROVE  /\ m.caller \notin asked' /\ phase[m.caller] \in {"attaching", "enabling", "failed"}
                   /\ m.type = "enableReply" => phase[m.caller] # "attaching"
        <4>1. Sent(m) /\ m \in Message
          BY <2>1, <2>2, <2>3, <3>2 DEF BrowserSends, Appended
        <4>2. /\ m.caller \in asked /\ m.caller \notin asked' /\ m.caller \in Callers
              /\ m.type = "enableReply" => route[m.caller] # NoSession
          BY <4>1, <3>2, MessageFields DEF Sent
        <4> QED
          BY <4>2, <1>0 DEF RepliesInTurn, CallsHaveRoutes
      <3> QED
        BY <3>1, <3>2, <2>2, <2>3 DEF Appended, InTurn
    <2> QED
      BY <2>2, <2>3 DEF RepliesInTurn
  <1>2. CASE HandleMessage
    <2>1. Reads
      BY <1>0, <1>2, HandlerReads
    <2>2. ASSUME NEW c \in Callers
          PROVE  \/ phase'[c] = phase[c] \/ phase'[c] = "failed"
                 \/ phase[c] = "waiting" /\ phase'[c] = "ready"
                 \/ /\ phase[c] = "attaching" /\ phase'[c] = "attached"
                    /\ Head(events).type = "attachReply" /\ Head(events).caller = c
                 \/ /\ phase[c] = "enabling" /\ phase'[c] = "enabled"
                    /\ Head(events).type = "enableReply" /\ Head(events).caller = c
      <3>1. CASE OnAttachReply
        BY <3>1, <1>0, ReceiveReads DEF OnAttachReply, TypeOK
      <3>2. CASE OnEnableReply
        BY <3>2, <1>0, ReceiveReads DEF OnEnableReply, TypeOK
      <3>3. CASE OnExecutionContextCreated
        BY <3>3 DEF OnExecutionContextCreated, RecordExecutionContext, WaitersOf, callVars
      <3>4. CASE \/ OnAttachedToTarget \/ OnContextsInvalidated \/ OnDetachedFromTarget
                 \/ OnTargetDestroyed
        BY <3>4 DEF OnAttachedToTarget, OnContextsInvalidated, OnDetachedFromTarget,
                    OnTargetDestroyed, ForgetTarget, ForgetSession, callVars
      <3> QED
        BY <1>2, <3>1, <3>2, <3>3, <3>4 DEF HandleMessage
    <2>3. UNCHANGED asked /\ 1 \in DOMAIN events /\ Head(events) = events[1]
      BY <2>1 DEF Reads
    <2>4. ASSUME NEW c \in asked
          PROVE  phase'[c] \in {"attaching", "enabling", "failed"}
      <3>1. c \in Callers /\ phase[c] \in {"attaching", "enabling", "failed"}
        BY <1>0 DEF TypeOK, RepliesInTurn
      <3>2. Head(events).type = "attachReply" /\ Head(events).caller = c => phase[c] # "attaching"
        BY <2>3 DEF RepliesInTurn, InTurn
      <3>3. Head(events).type = "enableReply" /\ Head(events).caller = c => phase[c] # "enabling"
        BY <2>3 DEF RepliesInTurn, InTurn
      <3> QED
        BY <2>2, <3>1, <3>2, <3>3
    <2>5. ASSUME NEW i \in DOMAIN events', NEW m, m = events'[i]
          PROVE  InTurn(m)'
      <3>1. i + 1 \in DOMAIN events /\ m = events[i + 1] /\ m \in Message
        BY <2>1, <2>5 DEF Reads
      <3>2. m.type \in {"attachReply", "enableReply"} => m.caller \in Callers
        BY <3>1, MessageFields
      <3>3. InTurn(m)
        BY <3>1 DEF RepliesInTurn
      <3> QED
        BY <2>2, <2>3, <3>2, <3>3 DEF InTurn
    <2> QED
      BY <2>3, <2>4, <2>5 DEF RepliesInTurn
  <1>3. CASE Call
    <2>0. UNCHANGED events
      BY <1>3, CallQuiet
    <2>1. ASSUME NEW c \in Callers, NEW p, phase' = [phase EXCEPT ![c] = p], p # "idle",
                 \/ /\ UNCHANGED asked /\ c \notin asked
                    /\ p \in {"routed", "ready", "waiting", "sent", "failed"}
                    /\ p = "routed" => phase[c] \in {"idle", "attached"}
                 \/ UNCHANGED asked /\ p = "failed"
                 \/ asked' = asked \cup {c} /\ phase[c] = "idle" /\ p = "attaching"
                 \/ asked' = asked \cup {c} /\ phase[c] = "routed" /\ p = "enabling"
          PROVE  RepliesInTurn'
      <3>1. /\ phase'[c] = p /\ \A d \in Callers : d # c => phase'[d] = phase[d]
            /\ asked \subseteq Callers
        BY <2>1, <1>0 DEF TypeOK
      <3>2. \A d \in asked' : phase'[d] \in {"attaching", "enabling", "failed"}
        BY <2>1, <3>1 DEF RepliesInTurn
      <3>3. ASSUME NEW i \in DOMAIN events, NEW m, m = events[i],
                   m.type \in {"attachReply", "enableReply"}
            PROVE  InTurn(m)'
        <4>1. m.caller \in Callers
          BY <3>3, <1>0, MessageFields DEF TypeOK
        <4>2. InTurn(m)
          BY <3>3 DEF RepliesInTurn
        <4>3. CASE m.caller # c
          BY <4>1, <4>2, <4>3, <3>1, <2>1 DEF InTurn
        <4>4. CASE m.caller = c
          BY <4>2, <4>4, <3>1, <2>1 DEF InTurn
        <4> QED
          BY <4>3, <4>4
      <3> QED
        BY <2>0, <3>2, <3>3 DEF RepliesInTurn, InTurn
    <2>2. \A c \in Callers : phase[c] \notin {"attaching", "enabling", "failed"} => c \notin asked
      BY DEF RepliesInTurn
    <2>3. ASSUME NEW c \in Callers, EnsureRoute(c)
          PROVE  RepliesInTurn'
      BY <2>1, <2>2, <2>3 DEF EnsureRoute
    <2>4. ASSUME NEW c \in Callers, NEW s \in Sessions, SendOnSession(c, s)
          PROVE  RepliesInTurn'
      BY <2>1, <2>2, <2>4 DEF SendOnSession
    <2>5. ASSUME NEW c \in Callers, RecordAttachment(c) \/ SendCommand(c) \/ Timeout(c)
          PROVE  RepliesInTurn'
      BY <2>1, <2>2, <2>5 DEF RecordAttachment, SendCommand, Timeout
    <2>6. ASSUME NEW c \in Callers, FindContext(c)
          PROVE  RepliesInTurn'
      <3>1. phase[c] \in {"routed", "enabled"} /\ c \notin asked
        BY <2>2, <2>6 DEF FindContext
      <3>2. \/ phase' = [phase EXCEPT ![c] = "ready"] /\ UNCHANGED asked
            \/ phase' = [phase EXCEPT ![c] = "waiting"] /\ UNCHANGED asked
            \/ /\ phase[c] = "routed"
               /\ phase' = [phase EXCEPT ![c] = "enabling"] /\ asked' = asked \cup {c}
        BY <2>6 DEF FindContext, ChooseContext
      <3> QED
        BY <2>1, <3>1, <3>2
    <2> QED
      BY <1>3, <2>3, <2>4, <2>5, <2>6 DEF Call, Proceed
  <1> QED
    BY <1>1, <1>2, <1>3 DEF Next

LEMMA EnabledFields ==
    \A c : LET m == EnableReply(c, TRUE)
           IN  m.type = "enableReply" /\ m.caller = c /\ m.ok = TRUE
  BY DEF EnableReply

LEMMA EnablesKnownStep ==
    ASSUME WaiterInv, Next
    PROVE  EnablesKnown'
  <1>0. TypeOK /\ BaseInv /\ CallsHaveRoutes /\ EndsAreTrue /\ EndsAreTrue'
    BY EndsAreTrueStep DEF WaiterInv, GraphInv, BaseInv
  <1>1. CASE Browser
    <2>1. PICK ms : BrowserSends(ms)
      BY <1>0, <1>1, BrowserContract
    <2>2. /\ Appended(ms) /\ UNCHANGED <<phase, route, targetId_from_sessionId>>
          /\ asked' \subseteq asked
      BY <1>0, <2>1, BrowserAppends DEF BrowserSends, BrowserTypes, graphVars, callVars
    <2>3. ASSUME NEW c \in Callers, phase[c] = "enabling", NEW s, s = route[c]
          PROVE  /\ owner'[s] = owner[s]
                 /\ c \in asked' => Known(s) \/ s \notin open'
                 /\ \A i \in DOMAIN events' : events'[i] = EnableReply(c, TRUE) =>
                       /\ Known(s)
                       /\ \A j \in DOMAIN events' : j < i => ~EndsSession(events'[j], s)
      <3>0. s \in Sessions /\ owner[s] # NoTarget
        BY <1>0, <2>3 DEF TypeOK, CallsHaveRoutes, Routed, WaiterInv, GraphInv, RoutesOwned
      <3>1. s \notin open => s \notin open'
        BY <2>1, <3>0 DEF BrowserSends, SessionsReported
      <3>2. owner'[s] = owner[s]
        BY <2>1, <3>0 DEF BrowserSends, SessionsReported
      <3>3. ASSUME NEW i \in DOMAIN events, events[i] = EnableReply(c, TRUE),
                   NEW j \in DOMAIN events', j < i
            PROVE  Known(s) /\ ~EndsSession(events'[j], s)
        <4>1. j \in DOMAIN events /\ events'[j] = events[j]
          BY <3>3, <2>2 DEF Appended
        <4>2. ~EndsSession(events[j], s)
          BY <3>3, <4>1, <2>3 DEF WaiterInv, EnablesKnown
        <4> QED
          BY <4>1, <4>2, <3>3, <2>3 DEF WaiterInv, EnablesKnown
      <3>4. ASSUME NEW k \in DOMAIN ms, ms[k] = EnableReply(c, TRUE)
            PROVE  Known(s) /\ s \in open'
        <4>1. Sent(ms[k]) /\ ms[k].type = "enableReply" /\ ms[k].caller = c /\ ms[k].ok = TRUE
          BY <2>1, <3>4, EnabledFields DEF BrowserSends
        <4>2. c \in asked /\ s \in open /\ open' = open
          BY <4>1, <2>3 DEF Sent
        <4> QED
          BY <4>2, <2>3 DEF WaiterInv, EnablesKnown
      <3>5. s \in open' => \A j \in DOMAIN events' : ~EndsSession(events'[j], s)
        <4>1. ASSUME NEW j \in DOMAIN events', s \in open', NEW m, m = events'[j], EndsSession(m, s)
              PROVE  FALSE
          <5>1. \/ m.type = "detachedFromTarget" /\ m.session = s
                \/ m.type = "targetDestroyed" /\ m.target = owner'[s]
            BY <3>2, <4>1, MessageTypes DEF EndsSession
          <5> QED
            BY <4>1, <5>1, <1>0 DEF EndsAreTrue
        <4> QED
          BY <4>1
      <3>6. c \in asked' => Known(s) \/ s \notin open'
        BY <2>2, <2>3, <3>1 DEF WaiterInv, EnablesKnown
      <3>7. ASSUME NEW i \in DOMAIN events', events'[i] = EnableReply(c, TRUE)
            PROVE  Known(s) /\ \A j \in DOMAIN events' : j < i => ~EndsSession(events'[j], s)
        <4>1. CASE i \in DOMAIN events /\ events'[i] = events[i]
          BY <4>1, <3>7, <3>3, <2>3 DEF WaiterInv, EnablesKnown
        <4>2. CASE \E k \in DOMAIN ms : events'[i] = ms[k]
          BY <4>2, <3>7, <3>4, <3>5
        <4> QED
          BY <4>1, <4>2, <2>2 DEF Appended
      <3> QED
        BY <3>2, <3>6, <3>7
    <2> QED
      BY <2>2, <2>3 DEF EnablesKnown, Known, EndsSession, Detached, Destroyed, EnableReply
  <1>2. CASE HandleMessage
    <2>1. Reads
      BY <1>0, <1>2, HandlerReads
    <2>2. UNCHANGED <<owner, open, asked>> /\ Head(events) = events[1] /\ 1 \in DOMAIN events
      BY <2>1 DEF Reads
    <2>3. \A c \in Callers : phase'[c] = "enabling" => phase[c] = "enabling" /\ route'[c] = route[c]
      <3>1. CASE OnAttachReply \/ OnEnableReply
        BY <3>1, <1>0 DEF OnAttachReply, OnEnableReply, TypeOK
      <3>2. CASE OnExecutionContextCreated
        BY <3>2 DEF OnExecutionContextCreated, RecordExecutionContext, WaitersOf, callVars
      <3>3. CASE \/ OnAttachedToTarget \/ OnContextsInvalidated \/ OnDetachedFromTarget
                 \/ OnTargetDestroyed
        BY <3>3 DEF OnAttachedToTarget, OnContextsInvalidated, OnDetachedFromTarget,
                    OnTargetDestroyed, ForgetTarget, ForgetSession, callVars
      <3> QED
        BY <1>2, <3>1, <3>2, <3>3 DEF HandleMessage
    <2>4. ASSUME NEW c \in Callers, phase[c] = "enabling", NEW s, s = route[c]
          PROVE  /\ c \in asked => Known(s)' \/ s \notin open
                 /\ \A i \in DOMAIN events' : events'[i] = EnableReply(c, TRUE) =>
                       /\ Known(s)'
                       /\ \A j \in DOMAIN events' : j < i => ~EndsSession(events'[j], s)
      <3>0. s \in Sessions
        BY <1>0, <2>4 DEF TypeOK, CallsHaveRoutes, Routed
      <3>1. ASSUME Known(s), ~Known(s)'
            PROVE  EndsSession(Head(events), s) /\ s \notin open
        <4>1. EndsSession(Head(events), s)
          BY <1>0, <1>2, <3>0, <3>1, KnownLost DEF WaiterInv, GraphInv
        <4> QED
          BY <4>1, <1>0, <2>2, OpenNotEnded
      <3>2. c \in asked => Known(s)' \/ s \notin open
        BY <3>1, <2>4 DEF WaiterInv, EnablesKnown
      <3>3. ASSUME NEW i \in DOMAIN events', events'[i] = EnableReply(c, TRUE)
            PROVE  /\ Known(s)'
                   /\ \A j \in DOMAIN events' : j < i => ~EndsSession(events'[j], s)
        <4>1. /\ i + 1 \in DOMAIN events /\ events[i + 1] = EnableReply(c, TRUE)
              /\ i \in Nat /\ i >= 1
          BY <2>1, <3>3 DEF Reads
        <4>5. 1 < i + 1
          BY <4>1
        <4>2. Known(s) /\ \A j \in DOMAIN events : j < i + 1 => ~EndsSession(events[j], s)
          BY <4>1, <2>4 DEF WaiterInv, EnablesKnown
        <4>3. Known(s)'
          BY <4>2, <4>5, <2>2, <3>1
        <4>4. ASSUME NEW j \in DOMAIN events', j < i
              PROVE  ~EndsSession(events'[j], s)
          <5>1. j + 1 \in DOMAIN events /\ events'[j] = events[j + 1] /\ j \in Nat
            BY <2>1 DEF Reads
          <5>2. j + 1 < i + 1
            BY <4>1, <4>4, <5>1
          <5> QED
            BY <4>2, <5>1, <5>2
        <4> QED
          BY <4>3, <4>4
      <3> QED
        BY <3>2, <3>3
    <2> QED
      BY <2>2, <2>3, <2>4 DEF EnablesKnown, Known, EndsSession, Detached, Destroyed, EnableReply
  <1>3. CASE Call
    <2>1. UNCHANGED <<owner, open, events>>
      BY <1>3, CallQuiet
    <2>2. ASSUME NEW c \in Callers, phase'[c] = "enabling"
          PROVE  \/ phase[c] = "enabling" /\ route'[c] = route[c] /\ (c \in asked' => c \in asked)
                 \/ phase[c] = "routed" /\ route'[c] = route[c]
      <3>1. ASSUME NEW d \in Callers, FindContext(d)
            PROVE  \/ phase[c] = "enabling" /\ route'[c] = route[c] /\ (c \in asked' => c \in asked)
                   \/ phase[c] = "routed" /\ route'[c] = route[c]
        BY <1>0, <2>2, <3>1 DEF FindContext, ChooseContext, TypeOK
      <3>2. ASSUME NEW d \in Callers, ~FindContext(d), \/ EnsureRoute(d) \/ Proceed(d) \/ Timeout(d)
                                                      \/ \E s \in Sessions : SendOnSession(d, s)
            PROVE  phase[c] = "enabling" /\ route'[c] = route[c] /\ (c \in asked' => c \in asked)
        BY <1>0, <2>2, <3>2
           DEF EnsureRoute, SendOnSession, Proceed, RecordAttachment, SendCommand, Timeout, TypeOK
      <3> QED
        BY <1>3, <3>1, <3>2 DEF Call
    <2>3. ASSUME NEW c \in Callers, phase'[c] = "enabling", NEW s, s = route[c]
          PROVE  /\ route'[c] = s
                 /\ c \in asked' => Known(s)' \/ s \notin open
                 /\ \A i \in DOMAIN events : events[i] = EnableReply(c, TRUE) =>
                       /\ Known(s)'
                       /\ \A j \in DOMAIN events : j < i => ~EndsSession(events[j], s)
      <3>1. CASE phase[c] = "enabling" /\ route'[c] = route[c] /\ (c \in asked' => c \in asked)
        <4>1. s \in Sessions
          BY <1>0, <2>3, <3>1 DEF TypeOK, CallsHaveRoutes, Routed
        <4>2. Known(s) => Known(s)'
          BY <1>0, <1>3, <4>1, KnownByCall
        <4> QED
          BY <2>3, <3>1, <4>2 DEF WaiterInv, EnablesKnown
      <3>2. CASE phase[c] = "routed" /\ route'[c] = route[c]
        <4>1. s \in Sessions /\ Known(s)
          BY <1>0, <2>3, <3>2 DEF TypeOK, CallsHaveRoutes, Routed, WaiterInv, CallsKnown
        <4>2. Known(s)'
          BY <1>0, <1>3, <4>1, KnownByCall
        <4>3. ASSUME NEW i \in DOMAIN events, events[i] = EnableReply(c, TRUE)
              PROVE  FALSE
          <5>1. events[i].type = "enableReply" /\ events[i].caller = c
            BY <4>3, EnabledFields
          <5> QED
            BY <3>2, <5>1 DEF WaiterInv, RepliesInTurn, InTurn
        <4> QED
          BY <2>3, <3>2, <4>2, <4>3
      <3> QED
        BY <2>2, <2>3, <3>1, <3>2
    <2> QED
      BY <2>1, <2>3 DEF EnablesKnown, Known, EndsSession, Detached, Destroyed, EnableReply
  <1> QED
    BY <1>1, <1>2, <1>3 DEF Next

LEMMA CallsKnownStep ==
    ASSUME ~Chunked, WaiterInv, Next
    PROVE  CallsKnown'
  <1>0. TypeOK /\ BaseInv /\ CallsHaveRoutes /\ MapsAgree /\ GraphOwned
    BY DEF WaiterInv, GraphInv, BaseInv
  <1>1. CASE Browser
    <2>1. PICK ms : BrowserSends(ms)
      BY <1>0, <1>1, BrowserContract DEF BaseInv
    <2> QED
      BY <2>1 DEF BrowserSends, graphVars, callVars, CallsKnown, Known, WaiterInv
  <1>2. CASE HandleMessage
    <2>1. Reads /\ MicrotasksDone
      BY <1>0, <1>2, HandlerReads DEF Reads
    <2>2. ASSUME NEW c \in Callers, phase'[c] = "enabled", NEW s, s = route'[c]
          PROVE  Known(s)'
      <3>1. Head(events) = EnableReply(c, TRUE) /\ phase[c] = "enabling" /\ s = route[c]
        BY <1>0, <1>2, <2>1, <2>2, MessagesWake
      <3>2. s \in Sessions /\ Known(s)
        BY <1>0, <2>1, <3>1 DEF Reads, TypeOK, CallsHaveRoutes, Routed, WaiterInv, EnablesKnown
      <3>3. ~EndsSession(Head(events), s)
        <4>1. Head(events).type = "enableReply"
          BY <3>1, EnabledFields
        <4>2. EndsSession(Head(events), s) =>
                 Head(events).type \in {"detachedFromTarget", "targetDestroyed"}
          BY MessageTypes DEF EndsSession
        <4> QED
          BY <4>1, <4>2
      <3> QED
        BY <1>0, <1>2, <3>2, <3>3, KnownLost
    <2>3. ASSUME NEW c \in Callers, phase'[c] = "waiting", NEW s, s = route'[c]
          PROVE  Known(s)'
      <3>1. phase[c] = "waiting" /\ s = route[c]
        BY <1>0, <1>2, <2>1, <2>3, MessagesWake
      <3>2. s \in Sessions /\ Known(s)
        BY <1>0, <3>1 DEF TypeOK, CallsHaveRoutes, Routed, WaiterInv, CallsKnown
      <3>3. ASSUME ~Known(s)'
            PROVE  FALSE
        <4>1. PICK gone : ForgetSession(s, gone)
          BY <1>0, <1>2, <3>2, <3>3, KnownLost
        <4>2. phase'[c] = "failed"
          BY <3>1, <4>1 DEF ForgetSession, WaitersOf
        <4> QED
          BY <2>3, <4>2
      <3> QED
        BY <3>3
    <2>4. \A c \in Callers : phase'[c] # "routed"
      BY <1>0, <1>2, <2>1, MessagesWake
    <2> QED
      BY <2>2, <2>3, <2>4 DEF CallsKnown, Known
  <1>3. CASE Call
    <2>1. ASSUME NEW s \in Sessions, Known(s)
          PROVE  Known(s)'
      BY <1>0, <1>3, <2>1, KnownByCall
    <2>2. ASSUME NEW c \in Callers, phase'[c] \in {"routed", "enabled", "waiting"},
                 phase[c] \in {"routed", "enabled", "waiting"}, route'[c] = route[c]
          PROVE  Known(route[c])'
      <3>1. PICK s : s = route[c]
        OBVIOUS
      <3>2. s \in Sessions /\ Known(s)
        BY <1>0, <2>2, <3>1 DEF TypeOK, CallsHaveRoutes, Routed, WaiterInv, CallsKnown
      <3>3. Known(s)'
        BY <2>1, <3>2
      <3> QED
        BY <2>2, <3>1, <3>3 DEF Known
    <2>3. ASSUME NEW c \in Callers, phase'[c] \in {"routed", "enabled", "waiting"}
          PROVE  \/ phase[c] \in {"routed", "enabled", "waiting"} /\ route'[c] = route[c]
                 \/ Known(route[c])'
      <3>1. ASSUME NEW d \in Callers, EnsureRoute(d)
            PROVE  \/ phase[c] \in {"routed", "enabled", "waiting"} /\ route'[c] = route[c]
                   \/ Known(route[c])'
        <4>1. PICK s : s = sessionId_from_targetId[TargetOf[d]]
          OBVIOUS
        <4>2. \/ s # NoSession /\ route' = [route EXCEPT ![d] = s] /\ phase' = [phase EXCEPT ![d] = "routed"]
              \/ phase' = [phase EXCEPT ![d] = "attaching"] /\ UNCHANGED route
          BY <3>1, <4>1 DEF EnsureRoute
        <4>3. s # NoSession => targetId_from_sessionId[s] = TargetOf[d]
          BY <1>0, <4>1 DEF MapsAgree
        <4>4. UNCHANGED targetId_from_sessionId
          BY <3>1 DEF EnsureRoute, graphVars
        <4> QED
          BY <1>0, <2>3, <4>2, <4>3, <4>4 DEF Known, TypeOK
      <3>2. ASSUME NEW d \in Callers, NEW s \in Sessions, SendOnSession(d, s)
            PROVE  \/ phase[c] \in {"routed", "enabled", "waiting"} /\ route'[c] = route[c]
                   \/ Known(route[c])'
        BY <1>0, <2>3, <3>2 DEF SendOnSession, Known, TypeOK, graphVars
      <3>3. ASSUME NEW d \in Callers, RecordAttachment(d)
            PROVE  \/ phase[c] \in {"routed", "enabled", "waiting"} /\ route'[c] = route[c]
                   \/ Known(route[c])'
        <4>1. /\ targetId_from_sessionId' = [targetId_from_sessionId EXCEPT ![route[d]] = TargetOf[d]]
              /\ phase[d] = "attached" /\ phase' = [phase EXCEPT ![d] = "routed"] /\ UNCHANGED route
          BY <3>3 DEF RecordAttachment, RecordTargetSession
        <4>2. route[d] \in Sessions
          BY <1>0, <4>1 DEF TypeOK, CallsHaveRoutes, Routed
        <4> QED
          BY <1>0, <2>3, <4>1, <4>2 DEF Known, TypeOK
      <3>4. ASSUME NEW d \in Callers, FindContext(d) \/ SendCommand(d) \/ Timeout(d)
            PROVE  phase[c] \in {"routed", "enabled", "waiting"} /\ route'[c] = route[c]
        BY <1>0, <2>3, <3>4 DEF FindContext, ChooseContext, SendCommand, Timeout, TypeOK
      <3> QED
        BY <1>3, <3>1, <3>2, <3>3, <3>4 DEF Call, Proceed
    <2> QED
      BY <2>2, <2>3 DEF CallsKnown
  <1> QED
    BY <1>1, <1>2, <1>3 DEF Next

LEMMA WaiterInvInit == Init => WaiterInv
  <1>1. Init => RepliesInTurn /\ EnablesKnown /\ CallsKnown
    BY DEF Init, RepliesInTurn, EnablesKnown, CallsKnown
  <1> QED
    BY <1>1, GraphInit DEF WaiterInv

LEMMA WaiterInvStep == ~Chunked /\ WaiterInv /\ [Next]_vars => WaiterInv'
  <1> SUFFICES ASSUME ~Chunked, WaiterInv, [Next]_vars PROVE WaiterInv'
    OBVIOUS
  <1>0. GraphInv'
    BY GraphStep DEF WaiterInv
  <1>1. CASE Next
    <2>1. RepliesInTurn'
      BY <1>1, RepliesInTurnStep DEF WaiterInv
    <2> QED
      BY <1>0, <1>1, <2>1, EnablesKnownStep, CallsKnownStep DEF WaiterInv
  <1>2. CASE UNCHANGED vars
    <2>1. UNCHANGED <<owner, open, asked, events, targetId_from_sessionId, phase, route>>
      BY <1>2 DEF vars, browserVars, graphVars, callVars
    <2> QED
      BY <1>0, <2>1 DEF WaiterInv, RepliesInTurn, InTurn, EnablesKnown, CallsKnown, Known,
                        EndsSession, Detached, Destroyed, EnableReply
  <1> QED
    BY <1>1, <1>2

\* A call waits only on a session the router knows, so a detach rejects it.
THEOREM WaitersAreRejectable ==
    ASSUME ~Chunked
    PROVE  Spec => []WaitersCanBeRejected
  <1>1. WaiterInv /\ [Next]_vars => WaiterInv'
    BY WaiterInvStep
  <1>2. WaiterInv => WaitersCanBeRejected
    BY DEF WaiterInv, CallsKnown, Known, WaitersCanBeRejected
  <1> QED
    BY <1>1, <1>2, WaiterInvInit, PTL DEF Spec
=============================================================================
