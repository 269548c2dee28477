-------------------------- MODULE AutoSessionRouter --------------------------
(***************************************************************************)
(* The router's graph of targets, sessions and execution contexts, kept    *)
(* from browser events, and the calls that are routed by it: a call finds  *)
(* or attaches a session for its target (ensureRouteForTarget), then finds *)
(* or awaits an execution context of that session                          *)
(* (callFunctionOnParamsForRoute, ensureExecutionContext) and is sent with *)
(* both.  The upstream speaks flattened CDP: every attachment has a        *)
(* session id.  Contexts have a uniqueId, by which the router keys them.   *)
(*                                                                         *)
(* The browser is the environment.  Its events and its replies reach the   *)
(* router through one ordered channel.  A continuation (a call past an     *)
(* await) runs before the next message when each message is an event of    *)
(* its own (WebSocket); a transport that parses all messages of a chunk in *)
(* one loop (pipe, NATS, native messaging) hands over several messages     *)
(* first: constant Chunked.                                                *)
(***************************************************************************)
EXTENDS Naturals, FiniteSets, Sequences

CONSTANTS
    Targets, Sessions, Contexts, Frames, Callers,
    NoTarget, NoSession, NoContext,
    HomeOf,         \* the target of each execution context
    FrameOf,        \* the frame of each execution context
    TargetOf,       \* the target each call names
    Enables,        \* the calls of ensureExecutionContext
    Accepts,        \* the contexts each call accepts, by frame and world
    Chunked,        \* may several messages be parsed in one go?
    MaxEvents       \* bound: messages on their way to the router

ASSUME RouterAssumption ==
    /\ NoTarget \notin Targets /\ NoSession \notin Sessions /\ NoContext \notin Contexts
    /\ HomeOf \in [Contexts -> Targets]
    /\ FrameOf \in [Contexts -> Frames]
    /\ TargetOf \in [Callers -> Targets]
    /\ Enables \subseteq Callers
    /\ Accepts \in [Callers -> SUBSET Contexts]
    /\ IsFiniteSet(Sessions) /\ IsFiniteSet(Contexts)
    /\ Chunked \in BOOLEAN
    /\ MaxEvents \in Nat

VARIABLES
    (* the browser *)
    alive,                      \* targets that exist
    owner,                      \* the target of each session, NoTarget: not yet created
    open,                       \* sessions that are attached
    enabled,                    \* sessions with the Runtime domain enabled
    world,                      \* the life of each execution context
    asked,                      \* calls with a request (attach, then enable) at the browser
    events,                     \* messages on their way to the router
    (* AutoSessionRouter *)
    sessionId_from_targetId,
    targetId_from_sessionId,
    contexts,                   \* the session that reported each context
    (* the calls *)
    phase, route, chosen

browserVars == <<alive, owner, open, enabled, world>>
graphVars == <<sessionId_from_targetId, targetId_from_sessionId, contexts>>
callVars == <<phase, route, chosen>>
vars == <<browserVars, asked, events, graphVars, callVars>>

\* "attached", "routed", "enabled" and "ready" are continuations that are
\* queued; "waiting" is an entry of execution_context_waiters.
Phases == {"idle", "attaching", "attached", "routed", "enabling", "enabled",
           "waiting", "ready", "sent", "failed"}
Continuations == {"attached", "routed", "enabled", "ready"}
Settled == {"sent", "failed"}

Message ==
    [type : {"attachedToTarget"}, target : Targets, session : Sessions]
    \cup [type : {"detachedFromTarget", "executionContextsCleared"}, session : Sessions]
    \cup [type : {"targetDestroyed"}, target : Targets]
    \cup [type : {"executionContextCreated", "executionContextDestroyed"},
          session : Sessions, context : Contexts]
    \cup [type : {"frameNavigated"}, session : Sessions, frame : Frames]
    \cup [type : {"attachReply"}, caller : Callers, session : Sessions \cup {NoSession}]
    \cup [type : {"enableReply"}, caller : Callers, ok : BOOLEAN]

TypeOK ==
    /\ alive \subseteq Targets
    /\ owner \in [Sessions -> Targets \cup {NoTarget}]
    /\ open \subseteq Sessions
    /\ enabled \subseteq Sessions
    /\ world \in [Contexts -> {"unborn", "live", "dead"}]
    /\ asked \subseteq Callers
    /\ events \in Seq(Message)
    /\ sessionId_from_targetId \in [Targets -> Sessions \cup {NoSession}]
    /\ targetId_from_sessionId \in [Sessions -> Targets \cup {NoTarget}]
    /\ contexts \in [Contexts -> Sessions \cup {NoSession}]
    /\ phase \in [Callers -> Phases]
    /\ route \in [Callers -> Sessions \cup {NoSession}]
    /\ chosen \in [Callers -> Contexts \cup {NoContext}]

Init ==
    /\ alive = Targets
    /\ owner = [s \in Sessions |-> NoTarget]
    /\ open = {}
    /\ enabled = {}
    /\ world = [x \in Contexts |-> "unborn"]
    /\ asked = {}
    /\ events = <<>>
    /\ sessionId_from_targetId = [t \in Targets |-> NoSession]
    /\ targetId_from_sessionId = [s \in Sessions |-> NoTarget]
    /\ contexts = [x \in Contexts |-> NoSession]
    /\ phase = [c \in Callers |-> "idle"]
    /\ route = [c \in Callers |-> NoSession]
    /\ chosen = [c \in Callers |-> NoContext]

-----------------------------------------------------------------------------
(* The browser.                                                            *)

Attached(t, s) == [type |-> "attachedToTarget", target |-> t, session |-> s]
Detached(s) == [type |-> "detachedFromTarget", session |-> s]
Destroyed(t) == [type |-> "targetDestroyed", target |-> t]
ContextCreated(s, x) == [type |-> "executionContextCreated", session |-> s, context |-> x]
ContextDestroyed(s, x) == [type |-> "executionContextDestroyed", session |-> s, context |-> x]
ContextsCleared(s) == [type |-> "executionContextsCleared", session |-> s]
FrameNavigated(s, f) == [type |-> "frameNavigated", session |-> s, frame |-> f]
AttachReply(c, s) == [type |-> "attachReply", caller |-> c, session |-> s]
EnableReply(c, ok) == [type |-> "enableReply", caller |-> c, ok |-> ok]

Room == Len(events) < MaxEvents

Emit(messages) == events' = events \o messages

Orders(S) == {q \in [1..Cardinality(S) -> S] : \A s \in S : \E i \in DOMAIN q : q[i] = s}

SessionsOf(t) == {s \in open : owner[s] = t}
Listening(t) == SessionsOf(t) \cap enabled
LiveContexts(t) == {x \in Contexts : HomeOf[x] = t /\ world[x] = "live"}

\* A new session s on target t, reported together with what else is sent then.
Attach(t, s, alongside) ==
    /\ t \in alive
    /\ owner[s] = NoTarget
    /\ owner' = [owner EXCEPT ![s] = t]
    /\ open' = open \cup {s}
    /\ Emit(<<Attached(t, s)>> \o alongside)
    /\ UNCHANGED <<alive, enabled, world, graphVars, callVars>>

\* Auto-attach, or the Target.attachToTarget of an injector.
AttachElsewhere(t) ==
    /\ Room
    /\ \E s \in Sessions : Attach(t, s, <<>>)
    /\ UNCHANGED asked

BrowserAttaches(c) ==
    /\ c \in asked
    /\ route[c] = NoSession
    /\ asked' = asked \ {c}
    /\ \/ \E s \in Sessions : Attach(TargetOf[c], s, <<AttachReply(c, s)>>)
       \/ /\ Emit(<<AttachReply(c, NoSession)>>)
          /\ UNCHANGED <<browserVars, graphVars, callVars>>

\* Runtime.enable: the contexts that exist are reported before the reply.
BrowserEnables(c) ==
    LET s == route[c]
        known == IF s \in enabled THEN {} ELSE LiveContexts(owner[s])
    IN  /\ c \in asked
        /\ s # NoSession
        /\ asked' = asked \ {c}
        /\ IF s \in open
              THEN /\ \E q \in Orders(known) :
                         Emit([i \in DOMAIN q |-> ContextCreated(s, q[i])]
                              \o <<EnableReply(c, TRUE)>>)
                   /\ enabled' = enabled \cup {s}
              ELSE /\ Emit(<<EnableReply(c, FALSE)>>)
                   /\ UNCHANGED enabled
        /\ UNCHANGED <<alive, owner, open, world, graphVars, callVars>>

\* Target.detachFromTarget, sent by an injector or a user, or a session the
\* browser ends.
DetachSession(s) ==
    /\ Room
    /\ s \in open
    /\ open' = open \ {s}
    /\ Emit(<<Detached(s)>>)
    /\ UNCHANGED <<alive, owner, enabled, world, asked, graphVars, callVars>>

CloseTarget(t) ==
    /\ Room
    /\ t \in alive
    /\ alive' = alive \ {t}
    /\ open' = open \ SessionsOf(t)
    /\ world' = [x \in Contexts |-> IF x \in LiveContexts(t) THEN "dead" ELSE world[x]]
    /\ \E q \in Orders(SessionsOf(t)) :
          LET detached == [i \in DOMAIN q |-> Detached(q[i])]
          IN  Emit(detached \o <<Destroyed(t)>>) \/ Emit(<<Destroyed(t)>> \o detached)
    /\ UNCHANGED <<owner, enabled, asked, graphVars, callVars>>

ContextStarts(x) ==
    /\ Room
    /\ world[x] = "unborn"
    /\ HomeOf[x] \in alive
    /\ world' = [world EXCEPT ![x] = "live"]
    /\ \E q \in Orders(Listening(HomeOf[x])) :
          Emit([i \in DOMAIN q |-> ContextCreated(q[i], x)])
    /\ UNCHANGED <<alive, owner, open, enabled, asked, graphVars, callVars>>

ContextEnds(x) ==
    /\ Room
    /\ world[x] = "live"
    /\ world' = [world EXCEPT ![x] = "dead"]
    /\ \E q \in Orders(Listening(HomeOf[x])) :
          Emit([i \in DOMAIN q |-> ContextDestroyed(q[i], x)])
    /\ UNCHANGED <<alive, owner, open, enabled, asked, graphVars, callVars>>

\* A navigation ends the contexts of one frame, or of the whole target.
Navigate(t, f) ==
    /\ Room
    /\ LiveContexts(t) # {}
    /\ \E q \in Orders(Listening(t)) :
          \/ /\ world' = [x \in Contexts |-> IF x \in LiveContexts(t) THEN "dead" ELSE world[x]]
             /\ Emit([i \in DOMAIN q |-> ContextsCleared(q[i])])
          \/ /\ world' = [x \in Contexts |->
                             IF x \in LiveContexts(t) /\ FrameOf[x] = f THEN "dead" ELSE world[x]]
             /\ Emit([i \in DOMAIN q |-> FrameNavigated(q[i], f)])
    /\ UNCHANGED <<alive, owner, open, enabled, asked, graphVars, callVars>>

-----------------------------------------------------------------------------
(* What the router does to its graph.                                      *)

\* recordTargetSession
RecordTargetSession(t, s) ==
    /\ sessionId_from_targetId' = [sessionId_from_targetId EXCEPT ![t] = s]
    /\ targetId_from_sessionId' = [targetId_from_sessionId EXCEPT ![s] = t]
    /\ UNCHANGED contexts

\* The contexts whose record names session s, and the calls that await one
\* under that session's key.
ContextsOf(s) == {x \in Contexts : contexts[x] = s}
WaitersOf(s) == {c \in Callers : phase[c] = "waiting" /\ route[c] = s}

\* Bug: the records lose their keys instead of being deleted.
ForgetContexts_partial(gone) ==
    contexts' = [x \in Contexts \ gone |-> contexts[x]]

ForgetContexts(gone) ==
    contexts' = [x \in Contexts |-> IF x \in gone THEN NoSession ELSE contexts[x]]

\* Bugs of forgetSession: the target keeps its session, the session's waiters
\* are left to their timers.
ForgetSession_keepsTargetEntry(s, gone) ==
    /\ targetId_from_sessionId' = [targetId_from_sessionId EXCEPT ![s] = NoTarget]
    /\ ForgetContexts(ContextsOf(s) \cup gone)
    /\ phase' = [c \in Callers |-> IF c \in WaitersOf(s) THEN "failed" ELSE phase[c]]
    /\ UNCHANGED <<sessionId_from_targetId, route, chosen>>

ForgetSession_keepsWaiters(s, gone) ==
    /\ sessionId_from_targetId' =
           [t \in Targets |-> IF t = targetId_from_sessionId[s] THEN NoSession
                              ELSE sessionId_from_targetId[t]]
    /\ targetId_from_sessionId' = [targetId_from_sessionId EXCEPT ![s] = NoTarget]
    /\ ForgetContexts(ContextsOf(s) \cup gone)
    /\ UNCHANGED callVars

\* forgetSession; `gone' are contexts the caller forgets as well.
ForgetSession(s, gone) ==
    /\ sessionId_from_targetId' =
           [t \in Targets |-> IF t = targetId_from_sessionId[s] THEN NoSession
                              ELSE sessionId_from_targetId[t]]
    /\ targetId_from_sessionId' = [targetId_from_sessionId EXCEPT ![s] = NoTarget]
    /\ ForgetContexts(ContextsOf(s) \cup gone)
    /\ phase' = [c \in Callers |-> IF c \in WaitersOf(s) THEN "failed" ELSE phase[c]]
    /\ UNCHANGED <<route, chosen>>

ForgetTarget(t) ==
    LET s == sessionId_from_targetId[t]
        gone == {x \in Contexts : contexts[x] # NoSession /\ HomeOf[x] = t}
    IN  IF s # NoSession
        THEN ForgetSession(s, gone)
        ELSE /\ ForgetContexts(gone)
             /\ UNCHANGED <<sessionId_from_targetId, targetId_from_sessionId, callVars>>

\* recordExecutionContext: the record under the context's uniqueId is
\* replaced, and the waiters of the session that accept it are resolved.
RecordExecutionContext(s, x) ==
    IF targetId_from_sessionId[s] = NoTarget
    THEN UNCHANGED <<graphVars, callVars>>
    ELSE LET woken == {c \in WaitersOf(s) : x \in Accepts[c]}
         IN  /\ contexts' = [contexts EXCEPT ![x] = s]
             /\ phase' = [c \in Callers |-> IF c \in woken THEN "ready" ELSE phase[c]]
             /\ chosen' = [c \in Callers |-> IF c \in woken THEN x ELSE chosen[c]]
             /\ UNCHANGED <<sessionId_from_targetId, targetId_from_sessionId, route>>

-----------------------------------------------------------------------------
(* Messages.                                                               *)

MicrotasksDone == \A c \in Callers : phase[c] \notin Continuations

Receive(type) ==
    /\ events # <<>>
    /\ Head(events).type = type
    /\ Chunked \/ MicrotasksDone
    /\ events' = Tail(events)
    /\ UNCHANGED <<browserVars, asked>>

OnAttachedToTarget ==
    /\ Receive("attachedToTarget")
    /\ RecordTargetSession(Head(events).target, Head(events).session)
    /\ UNCHANGED callVars

OnDetachedFromTarget ==
    /\ Receive("detachedFromTarget")
    /\ ForgetSession(Head(events).session, {})

OnTargetDestroyed ==
    /\ Receive("targetDestroyed")
    /\ ForgetTarget(Head(events).target)

OnExecutionContextCreated ==
    /\ Receive("executionContextCreated")
    /\ RecordExecutionContext(Head(events).session, Head(events).context)

\* Bug: no listener for Runtime.executionContextsCleared.
OnContextsInvalidated_notCleared ==
    LET m == Head(events)
    IN  /\ \/ /\ Receive("executionContextDestroyed")
              /\ ForgetContexts(ContextsOf(m.session) \cap {m.context})
           \/ /\ Receive("executionContextsCleared")
              /\ UNCHANGED contexts
           \/ /\ Receive("frameNavigated")
              /\ ForgetContexts({x \in ContextsOf(m.session) : FrameOf[x] = m.frame})
        /\ UNCHANGED <<sessionId_from_targetId, targetId_from_sessionId, callVars>>

OnContextsInvalidated ==
    LET m == Head(events)
    IN  /\ \/ /\ Receive("executionContextDestroyed")
              /\ ForgetContexts(ContextsOf(m.session) \cap {m.context})
           \/ /\ Receive("executionContextsCleared")
              /\ ForgetContexts(ContextsOf(m.session))
           \/ /\ Receive("frameNavigated")
              /\ ForgetContexts({x \in ContextsOf(m.session) : FrameOf[x] = m.frame})
        /\ UNCHANGED <<sessionId_from_targetId, targetId_from_sessionId, callVars>>

\* The reply of a call that has timed out is dropped by the upstream.
OnAttachReply ==
    LET c == Head(events).caller
        s == Head(events).session
    IN  /\ Receive("attachReply")
        /\ IF phase[c] = "attaching"
              THEN /\ phase' = [phase EXCEPT ![c] = IF s = NoSession THEN "failed" ELSE "attached"]
                   /\ route' = [route EXCEPT ![c] = s]
              ELSE UNCHANGED <<phase, route>>
        /\ UNCHANGED <<graphVars, chosen>>

OnEnableReply ==
    LET c == Head(events).caller
    IN  /\ Receive("enableReply")
        /\ phase' = IF phase[c] = "enabling"
                       THEN [phase EXCEPT ![c] = IF Head(events).ok THEN "enabled" ELSE "failed"]
                       ELSE phase
        /\ UNCHANGED <<graphVars, route, chosen>>

-----------------------------------------------------------------------------
(* Calls.                                                                  *)

\* ensureRouteForTarget up to its await.
EnsureRoute(c) ==
    LET s == sessionId_from_targetId[TargetOf[c]]
    IN  /\ phase[c] = "idle"
        /\ IF s # NoSession
              THEN /\ phase' = [phase EXCEPT ![c] = "routed"]
                   /\ route' = [route EXCEPT ![c] = s]
                   /\ UNCHANGED asked
              ELSE /\ phase' = [phase EXCEPT ![c] = "attaching"]
                   /\ asked' = asked \cup {c}
                   /\ UNCHANGED route
        /\ UNCHANGED <<browserVars, events, graphVars, chosen>>

\* send() with a session id of the caller's own: no route is looked up.
SendOnSession(c, s) ==
    /\ phase[c] = "idle"
    /\ c \notin Enables
    /\ owner[s] = TargetOf[c]
    /\ IF targetId_from_sessionId[s] = NoTarget
          THEN phase' = [phase EXCEPT ![c] = "failed"] /\ UNCHANGED route
          ELSE /\ phase' = [phase EXCEPT ![c] = "routed"]
               /\ route' = [route EXCEPT ![c] = s]
    /\ UNCHANGED <<browserVars, asked, events, graphVars, chosen>>

\* ensureRouteForTarget after attachToTarget returned.
RecordAttachment(c) ==
    /\ phase[c] = "attached"
    /\ RecordTargetSession(TargetOf[c], route[c])
    /\ phase' = [phase EXCEPT ![c] = "routed"]
    /\ UNCHANGED <<browserVars, asked, events, route, chosen>>

\* Bug: a context of any session of the target is taken.
Matches_anySession(c) == {x \in Accepts[c] : contexts[x] # NoSession}

Matches(c) == {x \in Accepts[c] : contexts[x] = route[c]}

ChooseContext(c) ==
    \E x \in Matches(c) :
        /\ phase' = [phase EXCEPT ![c] = "ready"]
        /\ chosen' = [chosen EXCEPT ![c] = x]

\* Bug: after Runtime.enable the call waits without looking again.
FindContext_waitsBlindly(c) ==
    /\ \/ /\ phase[c] = "routed"
          /\ ChooseContext(c)
          /\ UNCHANGED asked
       \/ /\ Matches(c) = {}
          /\ phase[c] = "routed" /\ c \in Enables
          /\ phase' = [phase EXCEPT ![c] = "enabling"]
          /\ asked' = asked \cup {c}
          /\ UNCHANGED chosen
       \/ /\ \/ phase[c] = "enabled"
             \/ phase[c] = "routed" /\ c \notin Enables /\ Matches(c) = {}
          /\ phase' = [phase EXCEPT ![c] = "waiting"]
          /\ UNCHANGED <<asked, chosen>>
    /\ UNCHANGED <<browserVars, events, graphVars, route>>

\* A call that has its route: take a recorded context, or enable Runtime and
\* look again (ensureExecutionContext), or wait.
FindContext(c) ==
    /\ \/ /\ phase[c] \in {"routed", "enabled"}
          /\ ChooseContext(c)
          /\ UNCHANGED asked
       \/ /\ Matches(c) = {}
          /\ phase[c] = "routed" /\ c \in Enables
          /\ phase' = [phase EXCEPT ![c] = "enabling"]
          /\ asked' = asked \cup {c}
          /\ UNCHANGED chosen
       \/ /\ Matches(c) = {}
          /\ \/ phase[c] = "enabled"
             \/ phase[c] = "routed" /\ c \notin Enables
          /\ phase' = [phase EXCEPT ![c] = "waiting"]
          /\ UNCHANGED <<asked, chosen>>
    /\ UNCHANGED <<browserVars, events, graphVars, route>>

\* The command goes out on route[c], naming chosen[c].
SendCommand(c) ==
    /\ phase[c] = "ready"
    /\ phase' = [phase EXCEPT ![c] = "sent"]
    /\ UNCHANGED <<browserVars, asked, events, graphVars, route, chosen>>

\* Bug: the upstream's requests have no timer.
Timeout_waitersOnly(c) ==
    /\ MicrotasksDone
    /\ phase[c] = "waiting"
    /\ phase' = [phase EXCEPT ![c] = "failed"]
    /\ UNCHANGED <<browserVars, asked, events, graphVars, route, chosen>>

\* The waiter's timer, or the upstream's timer of a request.
Timeout(c) ==
    /\ MicrotasksDone
    /\ phase[c] \in {"waiting", "attaching", "enabling"}
    /\ phase' = [phase EXCEPT ![c] = "failed"]
    /\ UNCHANGED <<browserVars, asked, events, graphVars, route, chosen>>

-----------------------------------------------------------------------------
Browser ==
    \/ \E c \in Callers : BrowserAttaches(c) \/ BrowserEnables(c)
    \/ \E s \in Sessions : DetachSession(s)
    \/ \E t \in Targets :
          \/ AttachElsewhere(t) \/ CloseTarget(t)
          \/ \E f \in Frames : Navigate(t, f)
    \/ \E x \in Contexts : ContextStarts(x) \/ ContextEnds(x)

HandleMessage ==
    \/ OnAttachedToTarget \/ OnDetachedFromTarget \/ OnTargetDestroyed
    \/ OnExecutionContextCreated \/ OnContextsInvalidated
    \/ OnAttachReply \/ OnEnableReply

Proceed(c) ==
    RecordAttachment(c) \/ FindContext(c) \/ SendCommand(c)

Call ==
    \E c \in Callers :
        \/ EnsureRoute(c)
        \/ \E s \in Sessions : SendOnSession(c, s)
        \/ Proceed(c) \/ Timeout(c)

Next == Browser \/ HandleMessage \/ Call

Spec == Init /\ [][Next]_vars

\* Continuations run, messages are read, and timers fire; nothing is assumed
\* of the browser.
Fairness ==
    /\ WF_vars(HandleMessage)
    /\ \A c \in Callers : WF_vars(Proceed(c)) /\ WF_vars(Timeout(c))

FairSpec == Spec /\ Fairness

-----------------------------------------------------------------------------
(* Properties.                                                             *)

InFlight(m) == \E i \in DOMAIN events : events[i] = m

\* The two session maps agree: a route that is handed out names a session that
\* leads back to its target.
MapsAgree ==
    \A t \in Targets : LET s == sessionId_from_targetId[t]
                       IN  s # NoSession => targetId_from_sessionId[s] = t

\* A context record is held only under a session the router still knows.
ContextsHaveSessions ==
    \A x \in Contexts : LET s == contexts[x]
                        IN  s # NoSession => targetId_from_sessionId[s] # NoTarget

\* No wakeup is missed: no call waits for a context that is recorded under its
\* session, whoever recorded it and whatever was recorded in between.
NoMissedWakeup ==
    \A c \in Callers : phase[c] = "waiting" => Matches(c) = {}

\* A waiter's session is still known, so its detach will reject the waiter.
WaitersCanBeRejected ==
    \A c \in Callers : phase[c] = "waiting" => targetId_from_sessionId[route[c]] # NoTarget

\* The session a target is routed to is attached, or its end is on its way.
RoutesAreCurrent ==
    \A t \in Targets : LET s == sessionId_from_targetId[t]
                       IN  s # NoSession => s \in open \/ InFlight(Detached(s))

\* A recorded context exists, or a message that removes its record is on its way.
ContextsAreCurrent ==
    \A x \in Contexts : LET s == contexts[x]
                        IN  s # NoSession =>
                                \/ world[x] = "live"
                                \/ InFlight(ContextDestroyed(s, x))
                                \/ InFlight(ContextsCleared(s))
                                \/ InFlight(FrameNavigated(s, FrameOf[x]))
                                \/ InFlight(Detached(s))
                                \/ InFlight(Destroyed(HomeOf[x]))

\* A command goes out on a session the router has not seen detached, and names
\* a context it has not seen invalidated and knows under that very session,
\* although both were looked up before an await.
SendsOnCurrentRoute ==
    [][\A c \in Callers : phase[c] = "ready" /\ phase'[c] = "sent" =>
          /\ targetId_from_sessionId[route[c]] # NoTarget
          /\ contexts[chosen[c]] = route[c]]_vars

\* Every call is sent or fails, whether or not the browser answers.
CallsSettle == \A c \in Callers : phase[c] # "idle" ~> phase[c] \in Settled

=============================================================================
