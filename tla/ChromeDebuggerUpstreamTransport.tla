------------------- MODULE ChromeDebuggerUpstreamTransport -------------------
(***************************************************************************)
(* The upstream transport of a service worker that reaches the browser     *)
(* through chrome.debugger (ChromeDebuggerUpstreamTransport.ts).  Commands *)
(* run concurrently: each is a chain of awaits, every await one call of    *)
(* the extension API answered later by the browser, and between two awaits *)
(* the other commands, a closed tab, the user's "cancel" on the debugging  *)
(* bar and a restart of the service worker may come.                       *)
(*                                                                         *)
(* A debuggee is named by its target: a tab keeps one page target here, so *)
(* JSON(debuggee) and the target id are one to one.                        *)
(***************************************************************************)
EXTENDS Sequences

CONSTANTS
  Calls,      \* calls of send() and attachToTarget(), each made once
  Targets,    \* targets the browser has, had or will have
  Pages,      \* the targets that are pages of tabs
  Foreign,    \* targets another debugger holds
  NoCall,     \* whom the browser answers when the worker that asked is gone
  NoTarget    \* the target of a call that has not chosen one

ASSUME ConstantsAssumption ==
  /\ Pages \subseteq Targets
  /\ Foreign \subseteq Targets
  /\ NoCall \notin Calls
  /\ NoTarget \notin Targets

VARIABLES
  attached_debuggees,   \* debuggees this worker believes it is attached to
  resolved,             \* the targets debuggee_from_targetId has an entry for
  listening,            \* the chrome.debugger listeners are installed
  kind, phase, target,  \* per call: what was asked, where it is, its target
  request,              \* API calls on their way to the browser
  queue,                \* answers and detach events on their way to the worker
  live, unborn,         \* the browser's targets, and those it will create
  ours,                 \* targets the browser has attached to this extension
  lostSince             \* history, per call: targets lost since it started

workerVars == <<attached_debuggees, resolved, listening, kind, phase, target>>
browserVars == <<live, unborn, ours>>
vars == <<workerVars, request, queue, browserVars, lostSince>>

Kinds == {"routed", "default", "attach", "list"}
Awaits == {"reading", "choosing", "creating", "naming", "listing", "attaching",
           "enabling", "sending"}
Phases == {"idle", "done", "failed", "lost"} \cup Awaits
Results == {"ok", "already attached", "error"}

Requests == [call : Calls \cup {NoCall}, to : Awaits, target : Targets \cup {NoTarget}]
Answers == [type : {"answer"}, call : Calls \cup {NoCall}, to : Awaits,
            target : Targets \cup {NoTarget}, result : Results,
            targets : SUBSET Targets]
Detaches == [type : {"detached"}, target : Targets]
Messages == Answers \cup Detaches

TypeOK ==
  /\ attached_debuggees \subseteq Targets
  /\ resolved \subseteq Targets
  /\ listening \in BOOLEAN
  /\ kind \in [Calls -> Kinds]
  /\ phase \in [Calls -> Phases]
  /\ target \in [Calls -> Targets \cup {NoTarget}]
  /\ request \subseteq Requests
  /\ queue \in Seq(Messages)
  /\ live \subseteq Targets
  /\ unborn \subseteq Targets
  /\ ours \subseteq Targets
  /\ lostSince \in [Calls -> SUBSET Targets]

Init ==
  /\ attached_debuggees = {}
  /\ resolved = {}
  /\ listening = FALSE
  /\ kind = [c \in Calls |-> "list"]
  /\ phase = [c \in Calls |-> "idle"]
  /\ target = [c \in Calls |-> NoTarget]
  /\ request = {}
  /\ queue = <<>>
  /\ live \in SUBSET Targets
  /\ unborn = Targets \ live
  /\ ours = {}
  /\ lostSince = [c \in Calls |-> {}]

Closed == Targets \ (live \cup unborn)
Detached(t) == [type |-> "detached", target |-> t]
DetachQueued(t) == \E i \in DOMAIN queue : queue[i] = Detached(t)

-----------------------------------------------------------------------------
(* The worker                                                              *)

(* The call of c waits for the API's answer to `to`, about target t.       *)
Await(c, to, t) ==
  /\ phase' = [phase EXCEPT ![c] = to]
  /\ target' = [target EXCEPT ![c] = t]
  /\ request' = request \cup {[call |-> c, to |-> to, target |-> t]}

Settle(c, how, t) ==
  /\ phase' = [phase EXCEPT ![c] = how]
  /\ target' = [target EXCEPT ![c] = t]
  /\ UNCHANGED request

(* What follows attachDebuggee(): attachToTarget() records the debuggee    *)
(* and returns, a command is sent to it.  `tabs` are the tabs of a list    *)
(* read in the same step.                                                  *)
AfterAttach(c, t, tabs) ==
  IF kind[c] = "attach"
  THEN Settle(c, "done", t) /\ resolved' = resolved \cup tabs \cup {t}
  ELSE Await(c, "sending", t) /\ resolved' = resolved \cup tabs

Start(c, k) ==
  /\ phase[c] = "idle"
  /\ kind' = [kind EXCEPT ![c] = k]
  /\ lostSince' = [lostSince EXCEPT ![c] = Closed \cup {t \in Targets : DetachQueued(t)}]
  /\ UNCHANGED <<attached_debuggees, queue, browserVars>>

(* connect(): only installs the listeners.                                 *)
Connect ==
  /\ ~listening
  /\ listening' = TRUE
  /\ UNCHANGED <<attached_debuggees, resolved, kind, phase, target, request,
                 queue, browserVars, lostSince>>

(* send() with a route: the debuggee comes from the map, or from the       *)
(* browser's list of targets.                                              *)
SendRouted(c, t) ==
  /\ t \notin unborn
  /\ Start(c, "routed")
  /\ IF t \in resolved
     THEN /\ Await(c, IF t \in attached_debuggees THEN "sending" ELSE "attaching", t)
          /\ UNCHANGED listening
     ELSE /\ Await(c, "listing", t)
          /\ listening' = TRUE
  /\ UNCHANGED resolved

(* attachToTarget(), send() without a route, and Target.getTargets: all    *)
(* begin with getTargets(), which installs the listeners.                  *)
AttachToTarget(c, t) ==
  /\ t \notin unborn
  /\ Start(c, "attach")
  /\ Await(c, "listing", t)
  /\ listening' = TRUE
  /\ UNCHANGED resolved

SendDefault(c) ==
  /\ Start(c, "default")
  /\ Await(c, "choosing", NoTarget)
  /\ listening' = TRUE
  /\ UNCHANGED resolved

GetTargets(c) ==
  /\ Start(c, "list")
  /\ Await(c, "reading", NoTarget)
  /\ listening' = TRUE
  /\ UNCHANGED resolved

(* m is the first of the queue, the answer to `to`.                        *)
Answered(m, to) ==
  /\ m.type = "answer"
  /\ m.call \in Calls
  /\ m.to = to
  /\ queue' = Tail(queue)
  /\ UNCHANGED <<kind, browserVars, lostSince>>

(* getTargets() records the tabs of the list; a call of Target.getTargets  *)
(* is answered with it.                                                    *)
ListRead(m) ==
  /\ Answered(m, "reading")
  /\ resolved' = resolved \cup (m.targets \cap Pages)
  /\ Settle(m.call, "done", NoTarget)
  /\ UNCHANGED <<attached_debuggees, listening>>

(* defaultDebuggee(): a page of the list, or a new tab.                    *)
DefaultChosen(m) ==
  /\ Answered(m, "choosing")
  /\ resolved' = resolved \cup (m.targets \cap Pages)
  /\ \/ \E t \in m.targets \cap Pages :
          Await(m.call, "listing", t) /\ listening' = TRUE
     \/ /\ m.targets \cap Pages = {}
        /\ Await(m.call, "creating", NoTarget)
        /\ UNCHANGED listening
  /\ UNCHANGED attached_debuggees

(* createTarget(): the tab is there, the next list has to name its target. *)
TabCreated(m) ==
  /\ Answered(m, "creating")
  /\ Await(m.call, "naming", m.target)
  /\ listening' = TRUE
  /\ UNCHANGED <<attached_debuggees, resolved>>

TabNamed(m) ==
  /\ Answered(m, "naming")
  /\ resolved' = resolved \cup (m.targets \cap Pages)
  /\ IF m.target \in resolved'
     THEN Await(m.call, "listing", m.target)
     ELSE Settle(m.call, "failed", m.target)
  /\ UNCHANGED <<attached_debuggees, listening>>

(* debuggeeForTarget(), then attachDebuggee() up to its first await: a     *)
(* known debuggee is used as it is.                                        *)
DebuggeeFound(m) ==
  /\ Answered(m, "listing")
  /\ IF m.target \in m.targets \cap attached_debuggees
     THEN AfterAttach(m.call, m.target, m.targets \cap Pages)
     ELSE /\ resolved' = resolved \cup (m.targets \cap Pages)
          /\ IF m.target \in m.targets
             THEN Await(m.call, "attaching", m.target)
             ELSE Settle(m.call, "failed", m.target)
  /\ UNCHANGED <<attached_debuggees, listening>>

(* Bug: an attachment made by an earlier worker counts as a failure.       *)
AttachAnswered_strict(m) ==
  /\ Answered(m, "attaching")
  /\ IF m.result = "ok"
     THEN Await(m.call, "enabling", m.target)
     ELSE Settle(m.call, "failed", m.target)
  /\ UNCHANGED <<attached_debuggees, resolved, listening>>

(* Bug: the debuggee counts as attached before auto-attach is confirmed.   *)
AttachAnswered_early(m) ==
  /\ Answered(m, "attaching")
  /\ IF m.result \in {"ok", "already attached"}
     THEN /\ Await(m.call, "enabling", m.target)
          /\ attached_debuggees' = attached_debuggees \cup {m.target}
     ELSE Settle(m.call, "failed", m.target) /\ UNCHANGED attached_debuggees
  /\ UNCHANGED <<resolved, listening>>

(* The callback of chrome.debugger.attach: "Another debugger is already    *)
(* attached" counts as attached.                                           *)
AttachAnswered(m) ==
  /\ Answered(m, "attaching")
  /\ IF m.result \in {"ok", "already attached"}
     THEN Await(m.call, "enabling", m.target)
     ELSE Settle(m.call, "failed", m.target)
  /\ UNCHANGED <<attached_debuggees, resolved, listening>>

(* The callback of Target.setAutoAttach: only now is the debuggee known.   *)
AutoAttachAnswered(m) ==
  /\ Answered(m, "enabling")
  /\ IF m.result = "ok"
     THEN /\ attached_debuggees' = attached_debuggees \cup {m.target}
          /\ AfterAttach(m.call, m.target, {})
     ELSE /\ Settle(m.call, "failed", m.target)
          /\ UNCHANGED <<attached_debuggees, resolved>>
  /\ UNCHANGED listening

SendAnswered(m) ==
  /\ Answered(m, "sending")
  /\ Settle(m.call, IF m.result = "ok" THEN "done" ELSE "failed", m.target)
  /\ UNCHANGED <<attached_debuggees, resolved, listening>>

HandleAnswer(m) ==
  \/ ListRead(m) \/ DefaultChosen(m) \/ TabCreated(m) \/ TabNamed(m)
  \/ DebuggeeFound(m) \/ AttachAnswered(m) \/ AutoAttachAnswered(m)
  \/ SendAnswered(m)

(* The onDetach listener; without a listener the event is dropped.         *)
OnDetach ==
  /\ queue # <<>>
  /\ Head(queue).type = "detached"
  /\ queue' = Tail(queue)
  /\ attached_debuggees' =
       IF listening THEN attached_debuggees \ {Head(queue).target} ELSE attached_debuggees
  /\ UNCHANGED <<resolved, listening, kind, phase, target, request, browserVars, lostSince>>

(* An answer for a worker that is gone.                                    *)
Orphan(x) == [x EXCEPT !.call = NoCall]

DropOrphan ==
  /\ queue # <<>>
  /\ Head(queue).type = "answer"
  /\ Head(queue).call = NoCall
  /\ queue' = Tail(queue)
  /\ UNCHANGED <<workerVars, request, browserVars, lostSince>>

(* The service worker is stopped and started again: its memory and the     *)
(* calls in it are gone; the browser keeps the attachments and still       *)
(* carries out what it was sent.                                           *)
WorkerRestarts ==
  /\ attached_debuggees' = {}
  /\ resolved' = {}
  /\ listening' = FALSE
  /\ phase' = [c \in Calls |-> IF phase[c] \in Awaits THEN "lost" ELSE phase[c]]
  /\ queue' = [i \in DOMAIN queue |->
                IF queue[i].type = "answer" THEN Orphan(queue[i]) ELSE queue[i]]
  /\ request' = {Orphan(r) : r \in request}
  /\ UNCHANGED <<kind, target, browserVars, lostSince>>

-----------------------------------------------------------------------------
(* The browser                                                             *)

(* It carries out one request.                                             *)
Answer(r, result, t, targets) ==
  /\ request' = request \ {r}
  /\ queue' = Append(queue, [type |-> "answer", call |-> r.call, to |-> r.to,
                             target |-> t, result |-> result, targets |-> targets])
  /\ UNCHANGED <<workerVars, lostSince>>

BrowserLists(r) ==
  /\ r.to \in {"reading", "choosing", "naming", "listing"}
  /\ Answer(r, "ok", r.target, live)
  /\ UNCHANGED browserVars

BrowserCreates(r, t) ==
  /\ r.to = "creating"
  /\ t \in unborn \cap Pages
  /\ live' = live \cup {t}
  /\ unborn' = unborn \ {t}
  /\ Answer(r, "ok", t, {})
  /\ UNCHANGED ours

BrowserAttaches(r) ==
  /\ r.to = "attaching"
  /\ \/ /\ r.target \in live \ (ours \cup Foreign)
        /\ ours' = ours \cup {r.target}
        /\ Answer(r, "ok", r.target, {})
     \/ /\ r.target \in live \cap (ours \cup Foreign)
        /\ Answer(r, "already attached", r.target, {})
        /\ UNCHANGED ours
     \/ /\ r.target \notin live
        /\ Answer(r, "error", r.target, {})
        /\ UNCHANGED ours
  /\ UNCHANGED <<live, unborn>>

(* A command reaches the debuggee when this extension is attached to it.   *)
BrowserRuns(r) ==
  /\ r.to \in {"enabling", "sending"}
  /\ Answer(r, IF r.target \in ours THEN "ok" ELSE "error", r.target, {})
  /\ UNCHANGED browserVars

Lose(t) ==
  /\ ours' = ours \ {t}
  /\ queue' = IF t \in ours THEN Append(queue, Detached(t)) ELSE queue
  /\ lostSince' = [c \in Calls |-> lostSince[c] \cup {t}]
  /\ UNCHANGED <<workerVars, request, unborn>>

TargetCloses(t) == t \in live /\ live' = live \ {t} /\ Lose(t)

UserCancels(t) == t \in ours /\ Lose(t) /\ UNCHANGED live

TargetOpens(t) ==
  /\ t \in unborn
  /\ live' = live \cup {t}
  /\ unborn' = unborn \ {t}
  /\ UNCHANGED <<workerVars, request, queue, ours, lostSince>>

BrowserActs ==
  \/ \E r \in request : \/ BrowserLists(r) \/ BrowserAttaches(r) \/ BrowserRuns(r)
                        \/ \E t \in Targets : BrowserCreates(r, t)
  \/ \E t \in Targets : TargetCloses(t) \/ UserCancels(t) \/ TargetOpens(t)

WorkerActs ==
  \/ Connect
  \/ \E c \in Calls : \/ SendDefault(c) \/ GetTargets(c)
                      \/ \E t \in Targets : SendRouted(c, t) \/ AttachToTarget(c, t)
  \/ queue # <<>> /\ HandleAnswer(Head(queue))
  \/ OnDetach
  \/ DropOrphan
  \/ WorkerRestarts

Next == WorkerActs \/ BrowserActs

Spec == Init /\ [][Next]_vars

-----------------------------------------------------------------------------
(* A debuggee the worker takes for attached is attached, or the detach     *)
(* event that will correct it is on its way: attachDebuggee() checks the   *)
(* set, awaits twice and adds to it, while other calls attach the same     *)
(* target, the user cancels and detach events come.                        *)
AttachedIsLive ==
  \A t \in attached_debuggees : t \in ours \/ DetachQueued(t)

(* A call is rejected only for a cause outside this transport: another     *)
(* debugger holds its target, or the target was closed or detached since   *)
(* the call began (the news may still be on its way).  In particular no    *)
(* call fails because another one attached the same target first, because  *)
(* an earlier worker of the extension did, or on a detach long handled.    *)
RejectedForCause ==
  \A c \in Calls : phase[c] = "failed" => target[c] \in Foreign \cup lostSince[c]
=============================================================================
