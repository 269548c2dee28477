---------------------------- MODULE NATSLink_proofs ----------------------------
(***************************************************************************)
(* Proofs about NATSLink, for any clients, calls and bounds.  IInv is      *)
(* inductive.  Its parts, one lemma each: the extension has one live       *)
(* connection and a hello follows every subscription (ConnInv); a client's *)
(* ids count its calls (IdInv); waiting calls were written to connections  *)
(* that still exist (DeadInv); a command is in one place at a time         *)
(* (RequestInv); an answer names a call that was answered (AnswerInv);     *)
(* linked ends greet each other (HelloInv).  FlowInv, on top of it, is     *)
(* about what holds as long as no connection is lost.                      *)
(***************************************************************************)
EXTENDS NATSLink, FiniteSetTheorems, SequenceTheorems, TLAPS

USE BridgeAssumption

-----------------------------------------------------------------------------
(* Messages and queues.                                                     *)

\* The kinds of messages and what each holds.
LEMMA Messages ==
    /\ Sub \in Message /\ Sub.type = "sub"
    /\ Hello \in Message /\ Hello.type = "hello"
    /\ \A c \in Calls, id \in Ids : Request(c, id) \in Message
    /\ \A c, id : /\ Request(c, id).type = "command"
                  /\ Request(c, id).call = c
                  /\ Request(c, id).id = id
    /\ Responses \subseteq Message
    /\ \A u \in Clients, id \in Ids, kind \in {"result", "error"} : Response(u, id, kind) \in Responses
    /\ \A u, id, kind : /\ Response(u, id, kind).type = "response"
                        /\ Response(u, id, kind).reply_subject = u
                        /\ Response(u, id, kind).id = id
                        /\ Response(u, id, kind).kind = kind
  <1>1. /\ Sub.type = "sub" /\ Hello.type = "hello"
        /\ \A c, id : /\ Request(c, id).type = "command"
                      /\ Request(c, id).call = c
                      /\ Request(c, id).id = id
    BY DEF Sub, Hello, Request
  <1>2. \A u, id, kind : /\ Response(u, id, kind).type = "response"
                        /\ Response(u, id, kind).reply_subject = u
                        /\ Response(u, id, kind).id = id
                        /\ Response(u, id, kind).kind = kind
    BY DEF Response
  <1>3. /\ Sub \in Message /\ Hello \in Message
        /\ \A c \in Calls, id \in Ids : Request(c, id) \in Message
        /\ Responses \subseteq Message
    BY DEF Message
  <1>4. \A u \in Clients, id \in Ids, kind \in {"result", "error"} : Response(u, id, kind) \in Responses
    BY DEF Responses
  <1> QED
    BY <1>1, <1>2, <1>3, <1>4

\* A message is one of these, told by its type.
LEMMA MessageCases ==
    ASSUME NEW m \in Message
    PROVE  /\ m.type \in {"sub", "hello", "command", "response"}
           /\ m.type = "sub" => m = Sub
           /\ m.type = "hello" => m = Hello
           /\ m.type = "command" => m.call \in Calls /\ m.id \in Ids
           /\ m.type = "response" <=> m \in Responses
           /\ m \in Responses => /\ m.reply_subject \in Clients
                                /\ m.id \in Ids
                                /\ m.kind \in {"result", "error"}
  BY DEF Sub, Hello, Request, Response, Responses, Message

Elems(q) == {q[i] : i \in DOMAIN q}

\* m is in the queue at most once.
Once(q, m) == \A i, j \in DOMAIN q : q[i] = m /\ q[j] = m => i = j

\* A hello follows every subscription.
SubThenHello(q) ==
    \A i \in DOMAIN q : q[i] = Sub => \E j \in DOMAIN q : i < j /\ q[j] = Hello

\* The empty queue.
LEMMA EmptyQueue ==
    /\ Elems(<<>>) = {}
    /\ \A m : Once(<<>>, m)
    /\ SubThenHello(<<>>)
  BY DEF Elems, Once, SubThenHello

\* A queue of messages holds messages.
LEMMA QueueElems ==
    ASSUME NEW q \in Seq(Message)
    PROVE  \A m \in Elems(q) : m \in Message
  BY ElementOfSeq, LenProperties DEF Elems

\* Handling the first message of a queue.
LEMMA TailQueue ==
    ASSUME NEW q \in Seq(Message), q # <<>>
    PROVE  /\ Tail(q) \in Seq(Message)
           /\ Head(q) \in Message
           /\ Elems(q) = {Head(q)} \cup Elems(Tail(q))
           /\ \A m : Once(q, m) => Once(Tail(q), m)
           /\ Once(q, Head(q)) => Head(q) \notin Elems(Tail(q))
           /\ SubThenHello(q) => SubThenHello(Tail(q))
           /\ SubThenHello(q) /\ Head(q) = Sub => Hello \in Elems(Tail(q))
  <1> DEFINE t == Tail(q)
             n == Len(q)
  <1>1. /\ t \in Seq(Message) /\ Head(q) \in Message
        /\ n \in Nat \ {0} /\ DOMAIN q = 1..n /\ DOMAIN t = 1..(n - 1)
        /\ \A i \in 1..(n - 1) : t[i] = q[i + 1]
    BY HeadTailProperties, LenProperties, EmptySeq
  <1>2. Head(q) = q[1]
    OBVIOUS
  <1> HIDE DEF t, n
  <1>3. Elems(q) = {q[1]} \cup Elems(t)
    <2>1. ASSUME NEW i \in 1..n PROVE q[i] \in {q[1]} \cup Elems(t)
      <3>1. CASE i # 1
        <4>1. i - 1 \in 1..(n - 1) /\ t[i - 1] = q[i]
          BY <1>1, <3>1
        <4> QED
          BY <1>1, <4>1 DEF Elems
      <3> QED
        BY <3>1
    <2>2. ASSUME NEW i \in 1..(n - 1) PROVE t[i] \in Elems(q)
      <3>1. i + 1 \in 1..n
        BY <1>1
      <3> QED
        BY <1>1, <3>1 DEF Elems
    <2>3. q[1] \in Elems(q)
      BY <1>1 DEF Elems
    <2> QED
      BY <1>1, <2>1, <2>2, <2>3 DEF Elems
  <1>4. ASSUME NEW m, Once(q, m) PROVE Once(t, m)
    <2>1. ASSUME NEW i \in 1..(n - 1), NEW j \in 1..(n - 1), t[i] = m, t[j] = m
          PROVE  i = j
      <3>1. i + 1 \in 1..n /\ j + 1 \in 1..n /\ q[i + 1] = m /\ q[j + 1] = m
        BY <1>1, <2>1
      <3>2. i + 1 = j + 1
        BY <1>1, <1>4, <3>1 DEF Once
      <3> QED
        BY <3>2
    <2> QED
      BY <1>1, <2>1 DEF Once
  <1>5. ASSUME Once(q, q[1]) PROVE q[1] \notin Elems(t)
    <2>1. ASSUME NEW i \in 1..(n - 1), t[i] = q[1] PROVE FALSE
      <3>1. i + 1 \in 1..n /\ 1 \in 1..n /\ q[i + 1] = q[1]
        BY <1>1, <2>1
      <3>2. i + 1 = 1
        BY <1>1, <1>5, <3>1 DEF Once
      <3> QED
        BY <3>2
    <2> QED
      BY <1>1, <2>1 DEF Elems
  <1>6. ASSUME SubThenHello(q) PROVE SubThenHello(t)
    <2>1. ASSUME NEW i \in 1..(n - 1), t[i] = Sub
          PROVE  \E j \in 1..(n - 1) : i < j /\ t[j] = Hello
      <3>1. i + 1 \in 1..n /\ q[i + 1] = Sub
        BY <1>1, <2>1
      <3>2. PICK j \in 1..n : i + 1 < j /\ q[j] = Hello
        BY <1>1, <1>6, <3>1 DEF SubThenHello
      <3>3. j - 1 \in 1..(n - 1) /\ i < j - 1 /\ t[j - 1] = q[j]
        BY <1>1, <3>2
      <3> QED
        BY <3>2, <3>3
    <2> QED
      BY <1>1, <2>1 DEF SubThenHello
  <1>7. ASSUME SubThenHello(q), q[1] = Sub PROVE Hello \in Elems(t)
    <2>1. PICK j \in 1..n : 1 < j /\ q[j] = Hello
      BY <1>1, <1>7 DEF SubThenHello
    <2>2. j - 1 \in 1..(n - 1) /\ t[j - 1] = Hello
      BY <1>1, <2>1
    <2> QED
      BY <1>1, <2>2 DEF Elems
  <1> QED
    BY <1>1, <1>2, <1>3, <1>4, <1>5, <1>6, <1>7 DEF t

\* Writing one message to a queue.
LEMMA AppendQueue ==
    ASSUME NEW q \in Seq(Message), NEW x \in Message
    PROVE  /\ Append(q, x) \in Seq(Message)
           /\ Elems(Append(q, x)) = Elems(q) \cup {x}
           /\ \A m : Once(q, m) /\ m # x => Once(Append(q, x), m)
           /\ x \notin Elems(q) => Once(Append(q, x), x)
           /\ SubThenHello(q) /\ x # Sub => SubThenHello(Append(q, x))
           /\ SubThenHello(Append(q, Hello))
  <1> DEFINE t == Append(q, x)
             n == Len(q)
  <1>1. /\ t \in Seq(Message) /\ n \in Nat
        /\ DOMAIN q = 1..n /\ DOMAIN t = 1..(n + 1) /\ t[n + 1] = x
        /\ \A i \in 1..n : t[i] = q[i]
    BY AppendProperties, LenProperties
  <1> HIDE DEF t, n
  <1>2. n + 1 \in 1..(n + 1) /\ \A i \in 1..(n + 1) : i = n + 1 \/ i \in 1..n
    BY <1>1
  <1>3. 1..n \subseteq 1..(n + 1) /\ n + 1 \notin 1..n
    BY <1>1
  <1>4. Elems(t) = Elems(q) \cup {x}
    BY <1>1, <1>2, <1>3 DEF Elems
  <1>5. ASSUME NEW m, Once(q, m), m # x PROVE Once(t, m)
    BY <1>1, <1>2, <1>5 DEF Once
  <1>6. ASSUME x \notin Elems(q) PROVE Once(t, x)
    BY <1>1, <1>2, <1>6 DEF Once, Elems
  <1>7. ASSUME SubThenHello(q), x # Sub PROVE SubThenHello(t)
    <2>1. ASSUME NEW i \in 1..(n + 1), t[i] = Sub
          PROVE  \E j \in 1..(n + 1) : i < j /\ t[j] = Hello
      <3>1. i \in 1..n /\ q[i] = Sub
        BY <1>1, <1>2, <1>7, <2>1
      <3>2. PICK j \in 1..n : i < j /\ q[j] = Hello
        BY <1>1, <1>7, <3>1 DEF SubThenHello
      <3> QED
        BY <1>1, <1>3, <3>2
    <2> QED
      BY <1>1, <2>1 DEF SubThenHello
  <1>8. SubThenHello(Append(q, Hello))
    <2> DEFINE h == Append(q, Hello)
    <2>1. /\ DOMAIN h = 1..(n + 1) /\ h[n + 1] = Hello /\ Hello # Sub
      BY Messages, AppendProperties, LenProperties DEF n
    <2> HIDE DEF h
    <2>2. ASSUME NEW i \in 1..(n + 1), h[i] = Sub PROVE i < n + 1
      BY <1>1, <2>1, <2>2
    <2>3. SubThenHello(h)
      BY <1>2, <2>1, <2>2 DEF SubThenHello
    <2> QED
      BY <2>3 DEF h
  <1> QED
    BY <1>1, <1>4, <1>5, <1>6, <1>7, <1>8 DEF t

\* What onOpen and publish() write, as concatenations.
LEMMA WriteQueue ==
    ASSUME NEW q \in Seq(Message)
    PROVE  /\ \A x \in Message : q \o <<x>> = Append(q, x)
           /\ q \o <<Sub, Hello>> = Append(Append(q, Sub), Hello)
  <1>1. \A x \in Message : q \o <<x>> = Append(q, x)
    BY AppendIsConcat
  <1>2. q \o <<Sub, Hello>> = Append(Append(q, Sub), Hello)
    <2> DEFINE t == q \o <<Sub, Hello>>
               w == Append(Append(q, Sub), Hello)
               n == Len(q)
    <2>1. <<Sub, Hello>> \in Seq(Message) /\ Len(<<Sub, Hello>>) = 2
      BY Messages
    <2>2. /\ t \in Seq(Message) /\ n \in Nat /\ Len(t) = n + 2
          /\ \A i \in 1..(n + 2) : t[i] = IF i <= n THEN q[i] ELSE <<Sub, Hello>>[i - n]
      BY <2>1, ConcatProperties, LenProperties
    <2>3. /\ w \in Seq(Message) /\ Len(w) = n + 2
          /\ \A i \in 1..(n + 2) : w[i] = IF i <= n THEN q[i] ELSE IF i = n + 1 THEN Sub ELSE Hello
      <3>1. /\ Append(q, Sub) \in Seq(Message) /\ Len(Append(q, Sub)) = n + 1
            /\ \A i \in 1..n : Append(q, Sub)[i] = q[i]
            /\ Append(q, Sub)[n + 1] = Sub
        BY Messages, AppendProperties
      <3>2. /\ w \in Seq(Message) /\ Len(w) = n + 2
            /\ \A i \in 1..(n + 1) : w[i] = Append(q, Sub)[i]
            /\ w[n + 2] = Hello
        BY <2>2, <3>1, Messages, AppendProperties
      <3> QED
        BY <2>2, <3>1, <3>2
    <2>4. \A i \in 1..(n + 2) : t[i] = w[i]
      BY <2>2, <2>3
    <2> HIDE DEF t, w
    <2>5. t = w
      BY <2>2, <2>3, <2>4, SeqEqual
    <2> QED
      BY <2>5 DEF t, w
  <1> QED
    BY <1>1, <1>2

-----------------------------------------------------------------------------
(* The inductive invariant.                                                 *)

\* The extension has no connection under way but its current one; only a
\* connection that was open is written to and subscribed.
ConnInv ==
    /\ \A k \in Slots : ready[<<Extension, k>>] \in {"connecting", "open"} => socket[Extension] = k
    /\ \A conn \in subscribed : ready[conn] \in {"open", "closing"}
    /\ \A conn \in Conns : to_server[conn] # <<>> => ready[conn] \in {"open", "closing"}
    /\ \A conn \in Conns : SubThenHello(to_server[conn])

SentCalls(u) == {c \in CallsOf(u) : id_of[c] # 0}

\* Ids count the calls of a client, so no two of them share one.
IdInv ==
    /\ \A u \in Clients : next_id[u] = Cardinality(SentCalls(u)) + 1
    /\ \A c \in Calls : phase[c] = "idle" <=> id_of[c] = 0
    /\ \A c \in Calls : id_of[c] < next_id[ClientOf[c]]
    /\ \A c, d \in Calls :
           ClientOf[c] = ClientOf[d] /\ id_of[c] = id_of[d] /\ id_of[c] # 0 => c = d

\* A call that waits was written to a connection that still exists.
DeadInv ==
    \A c \in Calls :
        phase[c] = "pending" => sent_on[c] # 0 /\ ready[<<ClientOf[c], sent_on[c]>>] # "closed"

\* m is the command of its call, which nobody has taken up.
Untouched(m) ==
    /\ m = Request(m.call, id_of[m.call])
    /\ id_of[m.call] # 0
    /\ m.call \notin handling
    /\ reply[m.call] = "none"

\* A command is under way in one place, once, until the extension takes it up;
\* the extension answers it once.
RequestInv ==
    /\ \A conn \in Conns : \A m \in Elems(to_server[conn]) :
           m.type = "command" =>
               /\ Untouched(m)
               /\ conn = <<ClientOf[m.call], sent_on[m.call]>>
               /\ Once(to_server[conn], m)
               /\ \A other \in Conns : m \notin Elems(from_server[other])
    /\ \A conn \in Conns : \A m \in Elems(from_server[conn]) :
           m.type = "command" =>
               /\ Untouched(m)
               /\ conn[1] = Extension
               /\ Once(from_server[conn], m)
               /\ \A other \in Conns : m \in Elems(from_server[other]) => other = conn
    /\ \A c \in handling : reply[c] = "none" /\ id_of[c] # 0

\* m is what the extension answered to a call.
IsAnswer(m) ==
    \E c \in Calls : ClientOf[c] = m.reply_subject /\ id_of[c] = m.id /\ reply[c] = m.kind

AnswerInv ==
    /\ \A conn \in Conns : \A m \in Elems(to_server[conn]) :
           m.type = "response" => IsAnswer(m)
    /\ \A conn \in Conns : \A m \in Elems(from_server[conn]) :
           m.type = "response" => IsAnswer(m) /\ conn[1] = m.reply_subject
    /\ \A c \in Calls : reply[c] # "none" => id_of[c] # 0

\* Both ends of client u's link are open and subscribed.
Linked(u) ==
    \A conn \in {Current(u), Current(Extension)} : conn \in subscribed /\ ready[conn] = "open"

HelloAt(conn) == Hello \in Elems(to_server[conn]) \cup Elems(from_server[conn])

\* Client u has seen its peer, or a hello is under way at one of the ends.
Greets(u) == peer_seen[u] \/ HelloAt(Current(u)) \/ HelloAt(Current(Extension))

HelloInv == \A u \in Clients : Linked(u) => Greets(u)

IInv ==
    /\ TypeOK
    /\ ConnInv
    /\ IdInv
    /\ DeadInv
    /\ RequestInv
    /\ AnswerInv
    /\ HelloInv

\* An end's connection, and the connections of two ends.
LEMMA Connections ==
    /\ \A e \in Ends, k \in Slots : <<e, k>> \in Conns
    /\ \A conn \in Conns : conn[1] \in Ends /\ conn[2] \in Slots /\ conn = <<conn[1], conn[2]>>
    /\ Extension \in Ends /\ Clients \subseteq Ends
    /\ TypeOK => \A e \in Ends : socket[e] # 0 => socket[e] \in Slots /\ Current(e) \in Conns
    /\ TypeOK => \A e \in Ends : Current(e) \in Conns => socket[e] # 0
  BY DEF Conns, Ends, Slots, Current, TypeOK

\* The initial state satisfies the inductive invariant.
LEMMA InitIInv == Init => IInv
  <1> SUFFICES ASSUME Init PROVE IInv
    OBVIOUS
  <1> USE DEF Init, CallsInit
  <1>0. \A conn \in Conns : to_server[conn] = <<>> /\ from_server[conn] = <<>>
    OBVIOUS
  <1>1. TypeOK
    <2>1. to_server \in [Conns -> Seq(Message)] /\ from_server \in [Conns -> Seq(Message)]
      BY EmptySeq
    <2>2. peer_seen \in [Clients -> BOOLEAN] /\ greeted \in [Calls -> BOOLEAN]
      OBVIOUS
    <2>3. started \in BOOLEAN /\ reconnect_timer \in BOOLEAN
      OBVIOUS
    <2>4. ready \in [Conns -> ReadyStates]
      BY DEF ReadyStates
    <2>5. phase \in [Calls -> {"idle", "pending", "resolved", "rejected"}]
      OBVIOUS
    <2> QED
      BY <2>1, <2>2, <2>3, <2>4, <2>5 DEF TypeOK
  <1>2. ConnInv
    BY <1>0, EmptyQueue, Connections DEF ConnInv
  <1>3. IdInv
    <2>1. \A u \in Clients : SentCalls(u) = {}
      BY DEF SentCalls, CallsOf
    <2>2. \A u \in Clients : next_id[u] = Cardinality(SentCalls(u)) + 1
      <3>1. \A u \in Clients : Cardinality(SentCalls(u)) = 0
        BY <2>1, FS_EmptySet, Zenon
      <3> QED
        BY <3>1
    <2> QED
      BY <2>2 DEF IdInv
  <1>4. DeadInv
    BY DEF DeadInv
  <1>5. RequestInv /\ AnswerInv
    BY <1>0, EmptyQueue DEF RequestInv, AnswerInv
  <1>6. HelloInv
    BY DEF HelloInv, Linked
  <1> QED
    BY <1>1, <1>2, <1>3, <1>4, <1>5, <1>6 DEF IInv

\* Ids stay within Ids: a client numbers at most all calls.
LEMMA IdRange ==
    ASSUME TypeOK, IdInv
    PROVE  /\ \A c \in Calls : id_of[c] # 0 => id_of[c] \in Ids
           /\ \A c \in Calls : id_of[c] = 0 => next_id[ClientOf[c]] \in Ids
  <1> DEFINE n == Cardinality(Calls)
  <1>1. \A u \in Clients : SentCalls(u) \in SUBSET Calls
    BY DEF SentCalls, CallsOf
  <1>2. n \in Nat
    BY FS_CardinalityType
  <1>3. \A u \in Clients : /\ IsFiniteSet(SentCalls(u))
                           /\ Cardinality(SentCalls(u)) \in Nat
                           /\ Cardinality(SentCalls(u)) <= n
    BY <1>1, FS_Subset, FS_CardinalityType
  <1>4. ASSUME NEW c \in Calls, id_of[c] # 0 PROVE id_of[c] \in Ids
    BY <1>2, <1>3, <1>4 DEF Ids, IdInv, TypeOK
  <1>5. ASSUME NEW c \in Calls, id_of[c] = 0 PROVE next_id[ClientOf[c]] \in Ids
    <2> DEFINE S == SentCalls(ClientOf[c])
    <2>1. c \notin S /\ S \cup {c} \in SUBSET Calls
      BY <1>1, <1>5 DEF SentCalls
    <2>2. IsFiniteSet(S) /\ Cardinality(S) \in Nat
      BY <1>3
    <2>3. Cardinality(S \cup {c}) = Cardinality(S) + 1
      BY <2>1, <2>2, FS_AddElement
    <2>4. Cardinality(S \cup {c}) <= n
      BY <2>1, FS_Subset
    <2>5. next_id[ClientOf[c]] = Cardinality(S) + 1
      BY DEF IdInv
    <2> HIDE DEF S
    <2> QED
      BY <1>2, <2>2, <2>3, <2>4, <2>5 DEF Ids
  <1> QED
    BY <1>4, <1>5

-----------------------------------------------------------------------------
(* What the operations on connections do to the queues.                     *)

\* onOpen appends a subscription and a hello to the end's connection.
LEMMA WriteOpens ==
    ASSUME TypeOK, NEW e \in Ends, socket[e] # 0, Write(e, <<Sub, Hello>>)
    PROVE  /\ to_server' \in [Conns -> Seq(Message)]
           /\ Hello \in Elems(to_server'[Current(e)])
           /\ \A conn \in Conns :
                 /\ conn # Current(e) => to_server'[conn] = to_server[conn]
                 /\ Elems(to_server[conn]) \subseteq Elems(to_server'[conn])
                 /\ Elems(to_server'[conn]) \subseteq Elems(to_server[conn]) \cup {Sub, Hello}
                 /\ \A m \in Message : m.type = "command" /\ Once(to_server[conn], m)
                                          => Once(to_server'[conn], m)
                 /\ SubThenHello(to_server[conn]) => SubThenHello(to_server'[conn])
  <1> DEFINE q == to_server[Current(e)]
             w == Append(Append(q, Sub), Hello)
  <1>1. Current(e) \in Conns
    BY Connections
  <1>2. q \in Seq(Message)
    BY <1>1 DEF TypeOK
  <1>3. to_server' = [to_server EXCEPT ![Current(e)] = w]
    BY <1>2, WriteQueue DEF Write
  <1>4. Append(q, Sub) \in Seq(Message) /\ Elems(Append(q, Sub)) = Elems(q) \cup {Sub}
    BY <1>2, AppendQueue, Messages
  <1>5. w \in Seq(Message) /\ Elems(w) = Elems(q) \cup {Sub, Hello} /\ SubThenHello(w)
    BY <1>4, AppendQueue, Messages
  <1>6. ASSUME NEW m \in Message, m.type = "command", Once(q, m) PROVE Once(w, m)
    <2>1. m # Sub /\ m # Hello
      BY <1>6, Messages
    <2>2. Once(Append(q, Sub), m)
      BY <1>2, <1>6, <2>1, AppendQueue, Messages
    <2> QED
      BY <1>4, <2>1, <2>2, AppendQueue, Messages
  <1> HIDE DEF w
  <1>7. \A conn \in Conns : to_server'[conn] = IF conn = Current(e) THEN w ELSE to_server[conn]
    BY <1>1, <1>3 DEF TypeOK
  <1>8. to_server' \in [Conns -> Seq(Message)]
    BY <1>1, <1>3, <1>5 DEF TypeOK
  <1> QED
    BY <1>1, <1>5, <1>6, <1>7, <1>8

\* publish() appends one message to the end's connection.
LEMMA WriteOne ==
    ASSUME TypeOK, NEW e \in Ends, socket[e] # 0, NEW x \in Message, Write(e, <<x>>)
    PROVE  /\ to_server' \in [Conns -> Seq(Message)]
           /\ x \in Elems(to_server'[Current(e)])
           /\ \A conn \in Conns :
                 /\ conn # Current(e) => to_server'[conn] = to_server[conn]
                 /\ Elems(to_server[conn]) \subseteq Elems(to_server'[conn])
                 /\ Elems(to_server'[conn]) \subseteq Elems(to_server[conn]) \cup {x}
                 /\ \A m \in Message : Once(to_server[conn], m) /\ m # x => Once(to_server'[conn], m)
                 /\ x # Sub /\ SubThenHello(to_server[conn]) => SubThenHello(to_server'[conn])
           /\ x \notin Elems(to_server[Current(e)]) => Once(to_server'[Current(e)], x)
  <1> DEFINE q == to_server[Current(e)]
             w == Append(q, x)
  <1>1. Current(e) \in Conns
    BY Connections
  <1>2. q \in Seq(Message)
    BY <1>1 DEF TypeOK
  <1>3. to_server' = [to_server EXCEPT ![Current(e)] = w]
    BY <1>2, WriteQueue DEF Write
  <1>4. /\ w \in Seq(Message) /\ Elems(w) = Elems(q) \cup {x}
        /\ \A m : Once(q, m) /\ m # x => Once(w, m)
        /\ x \notin Elems(q) => Once(w, x)
        /\ SubThenHello(q) /\ x # Sub => SubThenHello(w)
    BY <1>2, AppendQueue
  <1> HIDE DEF w
  <1>5. \A conn \in Conns : to_server'[conn] = IF conn = Current(e) THEN w ELSE to_server[conn]
    BY <1>1, <1>3 DEF TypeOK
  <1>6. to_server' \in [Conns -> Seq(Message)]
    BY <1>1, <1>3, <1>4 DEF TypeOK
  <1> QED
    BY <1>1, <1>4, <1>5, <1>6

\* A connection that is gone loses what was under way; no other one does.
LEMMA GoneQueues ==
    ASSUME TypeOK, NEW e \in Ends, NEW k \in Slots, Gone(e, k)
    PROVE  /\ to_server' \in [Conns -> Seq(Message)]
           /\ from_server' \in [Conns -> Seq(Message)]
           /\ to_server'[<<e, k>>] = <<>> /\ from_server'[<<e, k>>] = <<>>
           /\ \A conn \in Conns : conn # <<e, k>> =>
                 to_server'[conn] = to_server[conn] /\ from_server'[conn] = from_server[conn]
  <1>1. <<e, k>> \in Conns
    BY Connections
  <1>2. <<>> \in Seq(Message)
    BY EmptySeq
  <1>3. \A conn \in Conns :
            /\ to_server'[conn] = IF conn = <<e, k>> THEN <<>> ELSE to_server[conn]
            /\ from_server'[conn] = IF conn = <<e, k>> THEN <<>> ELSE from_server[conn]
    BY <1>1 DEF Gone, TypeOK
  <1>4. to_server' \in [Conns -> Seq(Message)] /\ from_server' \in [Conns -> Seq(Message)]
    BY <1>1, <1>2 DEF Gone, TypeOK
  <1> QED
    BY <1>1, <1>3, <1>4

\* A message event takes the first message of its connection.
LEMMA ReceiveQueues ==
    ASSUME TypeOK, NEW e \in Ends, NEW k \in Slots, NEW m, Receive(e, k, m)
    PROVE  /\ <<e, k>> \in Conns /\ ready[<<e, k>>] = "open"
           /\ m \in Message
           /\ from_server' \in [Conns -> Seq(Message)]
           /\ Elems(from_server[<<e, k>>]) = {m} \cup Elems(from_server'[<<e, k>>])
           /\ Once(from_server[<<e, k>>], m) => m \notin Elems(from_server'[<<e, k>>])
           /\ \A conn \in Conns :
                 /\ conn # <<e, k>> => from_server'[conn] = from_server[conn]
                 /\ Elems(from_server'[conn]) \subseteq Elems(from_server[conn])
                 /\ \A x : Once(from_server[conn], x) => Once(from_server'[conn], x)
  <1> DEFINE q == from_server[<<e, k>>]
  <1>1. <<e, k>> \in Conns
    BY Connections
  <1>2. q \in Seq(Message) /\ q # <<>> /\ m = Head(q) /\ ready[<<e, k>>] = "open"
    BY <1>1 DEF TypeOK, Receive
  <1>3. /\ Tail(q) \in Seq(Message)
        /\ Head(q) \in Message
        /\ Elems(q) = {Head(q)} \cup Elems(Tail(q))
        /\ \A x : Once(q, x) => Once(Tail(q), x)
        /\ Once(q, Head(q)) => Head(q) \notin Elems(Tail(q))
    BY <1>2, TailQueue
  <1> DEFINE t == Tail(q)
  <1>4. from_server' = [from_server EXCEPT ![<<e, k>>] = t]
    BY DEF Receive
  <1>5. t \in Seq(Message)
    BY <1>3
  <1> HIDE DEF t
  <1>6. \A conn \in Conns : from_server'[conn] = IF conn = <<e, k>> THEN t ELSE from_server[conn]
    BY <1>1, <1>4 DEF TypeOK
  <1>7. from_server' \in [Conns -> Seq(Message)]
    BY <1>1, <1>4, <1>5 DEF TypeOK
  <1> QED
    BY <1>1, <1>2, <1>3, <1>6, <1>7 DEF t

LEMMA ReceivedFrom ==
    ASSUME TypeOK, NEW e \in Ends, NEW k \in Slots, NEW m, Receive(e, k, m)
    PROVE  <<e, k>> \in Conns /\ m \in Message /\ m \in Elems(from_server[<<e, k>>])
  <1>1. <<e, k>> \in Conns
    BY Connections
  <1>2. from_server[<<e, k>>] \in Seq(Message) /\ from_server[<<e, k>>] # <<>>
    BY <1>1 DEF TypeOK, Receive
  <1>3. m = Head(from_server[<<e, k>>])
    BY DEF Receive
  <1> QED
    BY <1>1, <1>2, <1>3, TailQueue

\* The server takes m, the first message of a connection; unless it is a
\* subscription it appends it to the connections it goes to.
Handled(e, k, m) ==
    /\ to_server' \in [Conns -> Seq(Message)]
    /\ from_server' \in [Conns -> Seq(Message)]
    /\ Elems(to_server[<<e, k>>]) = {m} \cup Elems(to_server'[<<e, k>>])
    /\ Once(to_server[<<e, k>>], m) => m \notin Elems(to_server'[<<e, k>>])
    /\ SubThenHello(to_server[<<e, k>>]) /\ m = Sub => Hello \in Elems(to_server'[<<e, k>>])
    /\ \A conn \in Conns :
          /\ conn # <<e, k>> => to_server'[conn] = to_server[conn]
          /\ Elems(to_server'[conn]) \subseteq Elems(to_server[conn])
          /\ \A x : Once(to_server[conn], x) => Once(to_server'[conn], x)
          /\ SubThenHello(to_server[conn]) => SubThenHello(to_server'[conn])
    /\ m = Sub => subscribed' = subscribed \cup {<<e, k>>} /\ UNCHANGED from_server
    /\ m # Sub => UNCHANGED subscribed
    /\ \A conn \in Conns :
          \/ from_server'[conn] = from_server[conn]
          \/ /\ m # Sub /\ conn \in subscribed /\ ready[conn] = "open" /\ Matches(e, m, conn[1])
             /\ Elems(from_server'[conn]) = Elems(from_server[conn]) \cup {m}
             /\ \A x : Once(from_server[conn], x) /\ x # m => Once(from_server'[conn], x)
             /\ m \notin Elems(from_server[conn]) => Once(from_server'[conn], m)
    /\ \A conn \in Conns :
          m # Sub /\ conn \in subscribed /\ ready[conn] = "open" /\ Matches(e, m, conn[1])
             => m \in Elems(from_server'[conn])

\* What ServerHandles does to the queues.
LEMMA HandleQueues ==
    ASSUME TypeOK, NEW e \in Ends, NEW k \in Slots, ServerHandles(e, k)
    PROVE  \E m \in Message : Handled(e, k, m)
  <1> DEFINE q == to_server[<<e, k>>]
             m == Head(q)
             t == Tail(q)
  <1>1. <<e, k>> \in Conns
    BY Connections
  <1>2. q \in Seq(Message) /\ q # <<>>
    BY <1>1 DEF TypeOK, ServerHandles
  <1>3. /\ t \in Seq(Message)
        /\ m \in Message
        /\ Elems(q) = {m} \cup Elems(t)
        /\ \A x : Once(q, x) => Once(t, x)
        /\ Once(q, m) => m \notin Elems(t)
        /\ SubThenHello(q) => SubThenHello(t)
        /\ SubThenHello(q) /\ m = Sub => Hello \in Elems(t)
    BY <1>2, TailQueue
  <1>4. to_server' = [to_server EXCEPT ![<<e, k>>] = t]
    BY DEF ServerHandles
  <1>5. IF m = Sub
        THEN subscribed' = subscribed \cup {<<e, k>>} /\ UNCHANGED from_server
        ELSE /\ from_server' = [conn \in Conns |->
                  IF conn \in subscribed /\ ready[conn] = "open" /\ Matches(e, m, conn[1])
                  THEN Append(from_server[conn], m)
                  ELSE from_server[conn]]
             /\ UNCHANGED subscribed
    BY DEF ServerHandles
  <1> HIDE DEF m, t
  <1>6. \A conn \in Conns : to_server'[conn] = IF conn = <<e, k>> THEN t ELSE to_server[conn]
    BY <1>1, <1>4 DEF TypeOK
  <1>7. to_server' \in [Conns -> Seq(Message)]
    BY <1>1, <1>3, <1>4 DEF TypeOK
  <1>8. \A conn \in Conns :
            LET old == from_server[conn]
                new == Append(old, m)
            IN  /\ old \in Seq(Message)
                /\ new \in Seq(Message)
                /\ Elems(new) = Elems(old) \cup {m}
                /\ \A x : Once(old, x) /\ x # m => Once(new, x)
                /\ m \notin Elems(old) => Once(new, m)
    BY <1>3, AppendQueue DEF TypeOK
  <1>9. from_server' \in [Conns -> Seq(Message)]
    <2>1. CASE m = Sub
      BY <1>5, <2>1 DEF TypeOK
    <2>2. CASE m # Sub
      BY <1>5, <1>8, <2>2
    <2> QED
      BY <2>1, <2>2
  <1>10. ASSUME NEW conn \in Conns
         PROVE  \/ from_server'[conn] = from_server[conn]
                \/ /\ m # Sub /\ conn \in subscribed /\ ready[conn] = "open" /\ Matches(e, m, conn[1])
                   /\ Elems(from_server'[conn]) = Elems(from_server[conn]) \cup {m}
                   /\ \A x : Once(from_server[conn], x) /\ x # m => Once(from_server'[conn], x)
                   /\ m \notin Elems(from_server[conn]) => Once(from_server'[conn], m)
    <2>1. CASE m = Sub
      BY <1>5, <2>1
    <2>2. CASE m # Sub
      BY <1>5, <1>8, <2>2
    <2> QED
      BY <2>1, <2>2
  <1>11. ASSUME NEW conn \in Conns, m # Sub, conn \in subscribed, ready[conn] = "open",
                Matches(e, m, conn[1])
         PROVE  m \in Elems(from_server'[conn])
    BY <1>5, <1>8, <1>11
  <1>12. \A conn \in Conns :
             /\ conn # <<e, k>> => to_server'[conn] = to_server[conn]
             /\ Elems(to_server'[conn]) \subseteq Elems(to_server[conn])
             /\ \A x : Once(to_server[conn], x) => Once(to_server'[conn], x)
             /\ SubThenHello(to_server[conn]) => SubThenHello(to_server'[conn])
    BY <1>3, <1>6
  <1>13. /\ Elems(to_server[<<e, k>>]) = {m} \cup Elems(to_server'[<<e, k>>])
         /\ Once(to_server[<<e, k>>], m) => m \notin Elems(to_server'[<<e, k>>])
         /\ SubThenHello(to_server[<<e, k>>]) /\ m = Sub => Hello \in Elems(to_server'[<<e, k>>])
    BY <1>1, <1>3, <1>6
  <1>14. m = Sub => subscribed' = subscribed \cup {<<e, k>>} /\ UNCHANGED from_server
    BY <1>5
  <1>15. m # Sub => UNCHANGED subscribed
    BY <1>5
  <1>16. m \in Message
    BY <1>3
  <1>17. Handled(e, k, m)
    BY <1>7, <1>9, <1>10, <1>11, <1>12, <1>13, <1>14, <1>15 DEF Handled
  <1> QED
    BY <1>16, <1>17

\* `new WebSocket': one unused slot becomes the current connection.
LEMMA Dialled ==
    ASSUME TypeOK, NEW e \in Ends, Dial(e)
    PROVE  /\ ready' \in [Conns -> ReadyStates]
           /\ socket' \in [Ends -> 0..MaxSlots]
           /\ \A f \in Ends : f # e => socket'[f] = socket[f]
           /\ \E k \in Slots :
                 /\ socket'[e] = k
                 /\ ready[<<e, k>>] = "none" /\ ready'[<<e, k>>] = "connecting"
                 /\ \A conn \in Conns : conn # <<e, k>> => ready'[conn] = ready[conn]
  <1>1. PICK k \in Slots : /\ ready[<<e, k>>] = "none"
                           /\ ready' = [ready EXCEPT ![<<e, k>>] = "connecting"]
                           /\ socket' = [socket EXCEPT ![e] = k]
    BY DEF Dial
  <1>2. <<e, k>> \in Conns /\ k \in 0..MaxSlots
    BY Connections DEF Slots
  <1>3. ready \in [Conns -> ReadyStates] /\ socket \in [Ends -> 0..MaxSlots]
    BY DEF TypeOK
  <1>4. ready' \in [Conns -> ReadyStates]
    BY <1>1, <1>2, <1>3 DEF ReadyStates
  <1>5. socket' \in [Ends -> 0..MaxSlots]
    BY <1>1, <1>2, <1>3
  <1>6. ready'[<<e, k>>] = "connecting" /\ \A conn \in Conns : conn # <<e, k>> => ready'[conn] = ready[conn]
    BY <1>1, <1>2, <1>3
  <1>7. socket'[e] = k /\ \A f \in Ends : f # e => socket'[f] = socket[f]
    BY <1>1, <1>3
  <1> QED
    BY <1>1, <1>4, <1>5, <1>6, <1>7

\* connect() of the extension dials, or there is a connection under way.
LEMMA Connected ==
    ASSUME TypeOK, Connect
    PROVE  \/ UNCHANGED <<socket, ready>>
           \/ Dial(Extension) /\ ~(socket[Extension] # 0 /\ ready[Current(Extension)] \in {"connecting", "open"})
  BY DEF Connect

\* An end that lets go of its connection closes it.
LEMMA Released ==
    ASSUME TypeOK, NEW e \in Ends, LetGo(e)
    PROVE  /\ ready' \in [Conns -> ReadyStates]
           /\ socket' \in [Ends -> 0..MaxSlots]
           /\ socket'[e] = 0
           /\ \A f \in Ends : f # e => socket'[f] = socket[f]
           /\ \A conn \in Conns :
                 \/ ready'[conn] = ready[conn] /\ (conn = Current(e) => ready[conn] \notin {"connecting", "open"})
                 \/ conn = Current(e) /\ ready[conn] = "connecting" /\ ready'[conn] = "aborting"
                 \/ conn = Current(e) /\ ready[conn] = "open" /\ ready'[conn] = "closing"
  <1>1. ready \in [Conns -> ReadyStates] /\ socket \in [Ends -> 0..MaxSlots]
    BY DEF TypeOK
  <1>2. /\ socket' \in [Ends -> 0..MaxSlots]
        /\ socket'[e] = 0
        /\ \A f \in Ends : f # e => socket'[f] = socket[f]
    BY <1>1 DEF LetGo
  <1>3. ready' = [conn \in Conns |->
            CASE conn = Current(e) /\ ready[conn] = "connecting" -> "aborting"
              [] conn = Current(e) /\ ready[conn] = "open" -> "closing"
              [] OTHER -> ready[conn]]
    BY DEF LetGo
  <1>4. ASSUME NEW conn \in Conns
        PROVE  \/ ready'[conn] = ready[conn] /\ (conn = Current(e) => ready[conn] \notin {"connecting", "open"})
               \/ conn = Current(e) /\ ready[conn] = "connecting" /\ ready'[conn] = "aborting"
               \/ conn = Current(e) /\ ready[conn] = "open" /\ ready'[conn] = "closing"
    BY <1>3
  <1>5. ready' \in [Conns -> ReadyStates]
    <2>1. \A conn \in Conns : ready'[conn] \in ReadyStates
      BY <1>1, <1>4 DEF ReadyStates
    <2> QED
      BY <1>3, <2>1
  <1> QED
    BY <1>2, <1>4, <1>5

\* A connection that is gone is closed and no longer subscribed.
LEMMA Removed ==
    ASSUME TypeOK, NEW e \in Ends, NEW k \in Slots, Gone(e, k)
    PROVE  /\ ready' \in [Conns -> ReadyStates]
           /\ ready'[<<e, k>>] = "closed"
           /\ \A conn \in Conns : conn # <<e, k>> => ready'[conn] = ready[conn]
           /\ subscribed' = subscribed \ {<<e, k>>}
           /\ breaks' \in 0..MaxBreaks
  <1>1. ready \in [Conns -> ReadyStates] /\ <<e, k>> \in Conns /\ breaks \in 0..MaxBreaks
    BY Connections DEF TypeOK
  <1>2. ready' = [ready EXCEPT ![<<e, k>>] = "closed"]
    BY DEF Gone
  <1>3. ready' \in [Conns -> ReadyStates]
    BY <1>1, <1>2 DEF ReadyStates
  <1>4. ready'[<<e, k>>] = "closed" /\ \A conn \in Conns : conn # <<e, k>> => ready'[conn] = ready[conn]
    BY <1>1, <1>2
  <1>5. subscribed' = subscribed \ {<<e, k>>}
    BY DEF Gone
  <1>6. breaks' \in 0..MaxBreaks
    BY <1>1 DEF Gone, Break
  <1> QED
    BY <1>3, <1>4, <1>5, <1>6

\* The server takes an open connection to its end.
LEMMA ServerClosed ==
    ASSUME TypeOK, NEW e \in Ends, NEW k \in Slots, ServerCloses(e, k)
    PROVE  /\ ready' \in [Conns -> ReadyStates]
           /\ ready'[<<e, k>>] = "closing"
           /\ \A conn \in Conns :
                 \/ ready'[conn] = ready[conn]
                 \/ conn = <<e, k>> /\ ready[conn] = "open" /\ ready'[conn] = "closing"
           /\ breaks' \in 0..MaxBreaks
  <1>1. ready \in [Conns -> ReadyStates] /\ <<e, k>> \in Conns /\ breaks \in 0..MaxBreaks
    BY Connections DEF TypeOK
  <1>2. ready[<<e, k>>] = "open" /\ ready' = [ready EXCEPT ![<<e, k>>] = "closing"]
    BY DEF ServerCloses
  <1>3. ready' \in [Conns -> ReadyStates]
    BY <1>1, <1>2 DEF ReadyStates
  <1>4. /\ ready'[<<e, k>>] = "closing"
        /\ \A conn \in Conns : conn # <<e, k>> => ready'[conn] = ready[conn]
    BY <1>1, <1>2
  <1>5. breaks' \in 0..MaxBreaks
    BY <1>1 DEF ServerCloses, Break
  <1> QED
    BY <1>2, <1>3, <1>4, <1>5

\* emitClose touches the waiting calls of its client only.
LEMMA CallsEnded ==
    ASSUME TypeOK, NEW u \in Clients, EmitClose(u)
    PROVE  /\ phase' \in [Calls -> {"idle", "pending", "resolved", "rejected"}]
           /\ \A c \in Calls :
                 \/ phase'[c] = phase[c] /\ (ClientOf[c] = u => phase[c] # "pending")
                 \/ ClientOf[c] = u /\ phase[c] = "pending" /\ phase'[c] = "rejected"
  BY DEF EmitClose, CallsOf, TypeOK

-----------------------------------------------------------------------------
(* Every step keeps the invariant, one lemma per part.                      *)

\* The variables keep their types.
LEMMA TypeStep == IInv /\ [Next]_vars => TypeOK'
  <1> SUFFICES ASSUME IInv, [Next]_vars PROVE TypeOK'
    OBVIOUS
  <1> USE DEF IInv, TypeOK, ReadyStates, connVars, peerVars, callVars, extVars
  <1>1. ASSUME NEW u \in Clients, ClientConnect(u)
         PROVE  TypeOK'
    <2>1. ready' \in [Conns -> ReadyStates] /\ socket' \in [Ends -> 0..MaxSlots]
      BY <1>1, Dialled, Connections DEF ClientConnect
    <2> QED
      BY <1>1, <2>1 DEF ClientConnect
  <1>2. ASSUME NEW u \in Clients, ClientClose(u)
         PROVE  TypeOK'
    <2>1. ready' \in [Conns -> ReadyStates] /\ socket' \in [Ends -> 0..MaxSlots]
      BY <1>2, Released, Connections DEF ClientClose
    <2>2. peer_seen' \in [Clients -> BOOLEAN]
      BY <1>2 DEF ClientClose
    <2> QED
      BY <1>2, <2>1, <2>2 DEF ClientClose, Break
  <1>3. ASSUME NEW u \in Clients, WaitForPeer(u)
         PROVE  TypeOK'
    <2>1. UNCHANGED <<to_server, from_server>>
      BY <1>3 DEF WaitForPeer
    <2> QED
      BY <1>3, <2>1 DEF WaitForPeer
  <1>4. ASSUME NEW u \in Clients, WaitTimeout(u)
         PROVE  TypeOK'
    <2>1. UNCHANGED <<to_server, from_server>>
      BY <1>4 DEF WaitTimeout
    <2> QED
      BY <1>4, <2>1 DEF WaitTimeout
  <1>5. ASSUME NEW u \in Clients, NEW k \in Slots, ClientOpens(u, k)
         PROVE  TypeOK'
    <2>1. to_server' \in [Conns -> Seq(Message)]
      <3>1. CASE socket[u] # 0 /\ ready'[Current(u)] = "open"
        BY <1>5, <3>1, WriteOpens, Connections DEF ClientOpens
      <3>2. CASE ~(socket[u] # 0 /\ ready'[Current(u)] = "open")
        BY <1>5, <3>2 DEF ClientOpens
      <3> QED
        BY <3>1, <3>2
    <2> QED
      BY <1>5, <2>1 DEF ClientOpens
  <1>6. ASSUME NEW u \in Clients, NEW k \in Slots, ClientDialFails(u, k)
         PROVE  TypeOK'
    <2>1. to_server' \in [Conns -> Seq(Message)] /\ from_server' \in [Conns -> Seq(Message)]
      BY <1>6, GoneQueues, Connections DEF ClientDialFails
    <2>2. ready' \in [Conns -> ReadyStates] /\ subscribed' \subseteq Conns /\ breaks' \in 0..MaxBreaks
      BY <1>6, Removed, Connections DEF ClientDialFails
    <2>3. phase' \in [Calls -> {"idle", "pending", "resolved", "rejected"}]
      BY <1>6, CallsEnded DEF ClientDialFails
    <2>4. socket' \in [Ends -> 0..MaxSlots]
      BY <1>6, Connections DEF ClientDialFails
    <2> QED
      BY <1>6, <2>1, <2>2, <2>3, <2>4 DEF ClientDialFails
  <1>7. ASSUME NEW u \in Clients, NEW k \in Slots, ClientLost(u, k)
         PROVE  TypeOK'
    <2>1. to_server' \in [Conns -> Seq(Message)] /\ from_server' \in [Conns -> Seq(Message)]
      BY <1>7, GoneQueues, Connections DEF ClientLost
    <2>2. ready' \in [Conns -> ReadyStates] /\ subscribed' \subseteq Conns /\ breaks' \in 0..MaxBreaks
      BY <1>7, Removed, Connections DEF ClientLost
    <2>3. phase' \in [Calls -> {"idle", "pending", "resolved", "rejected"}]
      BY <1>7, CallsEnded DEF ClientLost
    <2>4. socket' \in [Ends -> 0..MaxSlots]
      BY <1>7, Connections DEF ClientLost
    <2> QED
      BY <1>7, <2>1, <2>2, <2>3, <2>4 DEF ClientLost
  <1>8. ASSUME NEW u \in Clients, NEW k \in Slots, ClientGreeted(u, k)
         PROVE  TypeOK'
    <2>1. from_server' \in [Conns -> Seq(Message)]
      BY <1>8, ReceiveQueues, Connections DEF ClientGreeted
    <2> QED
      BY <1>8, <2>1 DEF ClientGreeted
  <1>9. ASSUME NEW u \in Clients, NEW k \in Slots, ClientAnswered(u, k)
         PROVE  TypeOK'
    <2>1. from_server' \in [Conns -> Seq(Message)]
      BY <1>9, ReceiveQueues, Connections DEF ClientAnswered
    <2>2. phase' \in [Calls -> {"idle", "pending", "resolved", "rejected"}]
      BY <1>9 DEF ClientAnswered
    <2> QED
      BY <1>9, <2>1, <2>2 DEF ClientAnswered
  <1>10. CASE ExtensionStart
    <2>1. ready' \in [Conns -> ReadyStates] /\ socket' \in [Ends -> 0..MaxSlots]
      BY <1>10, Connected, Dialled, Connections DEF ExtensionStart
    <2> QED
      BY <1>10, <2>1 DEF ExtensionStart
  <1>11. CASE ExtensionStop
    <2>1. ready' \in [Conns -> ReadyStates] /\ socket' \in [Ends -> 0..MaxSlots]
      BY <1>11, Released, Connections DEF ExtensionStop
    <2>2. started' \in BOOLEAN /\ reconnect_timer' \in BOOLEAN
      BY <1>11 DEF ExtensionStop
    <2> QED
      BY <1>11, <2>1, <2>2 DEF ExtensionStop, Break
  <1>12. CASE ReconnectTimer
    <2>1. ready' \in [Conns -> ReadyStates] /\ socket' \in [Ends -> 0..MaxSlots]
      BY <1>12, Connected, Dialled, Connections DEF ReconnectTimer
    <2> QED
      BY <1>12, <2>1 DEF ReconnectTimer
  <1>13. ASSUME NEW k \in Slots, ExtensionOpens(k)
         PROVE  TypeOK'
    <2>1. socket[Extension] # 0
      BY <1>13 DEF ExtensionOpens, ConnInv, Slots
    <2>2. to_server' \in [Conns -> Seq(Message)]
      BY <1>13, <2>1, WriteOpens, Connections DEF ExtensionOpens
    <2> QED
      BY <1>13, <2>2 DEF ExtensionOpens
  <1>14. ASSUME NEW k \in Slots, ExtensionLost(k)
         PROVE  TypeOK'
    <2>1. to_server' \in [Conns -> Seq(Message)] /\ from_server' \in [Conns -> Seq(Message)]
      BY <1>14, GoneQueues, Connections DEF ExtensionLost
    <2>2. ready' \in [Conns -> ReadyStates] /\ subscribed' \subseteq Conns /\ breaks' \in 0..MaxBreaks
      BY <1>14, Removed, Connections DEF ExtensionLost
    <2>4. socket' \in [Ends -> 0..MaxSlots]
      BY <1>14, Connections DEF ExtensionLost
    <2> QED
      BY <1>14, <2>1, <2>2, <2>4 DEF ExtensionLost
  <1>15. ASSUME NEW k \in Slots, ExtensionGreeted(k)
         PROVE  TypeOK'
    <2>1. from_server' \in [Conns -> Seq(Message)]
      BY <1>15, ReceiveQueues, Connections DEF ExtensionGreeted
    <2>2. to_server' \in [Conns -> Seq(Message)]
      BY <1>15, WriteOne, Connections, Messages DEF ExtensionGreeted, Publish, IsOpen
    <2> QED
      BY <1>15, <2>1, <2>2 DEF ExtensionGreeted
  <1>16. ASSUME NEW k \in Slots, ExtensionCalled(k)
         PROVE  TypeOK'
    <2>1. from_server' \in [Conns -> Seq(Message)]
      BY <1>16, ReceiveQueues, Connections DEF ExtensionCalled
    <2> QED
      BY <1>16, <2>1 DEF ExtensionCalled
  <1>17. ASSUME NEW c \in Calls, NEW kind \in {"result", "error"},
                Respond(c, kind)
         PROVE  TypeOK'
    <2>1. Response(ClientOf[c], id_of[c], kind) \in Message
      BY <1>17, IdRange, Messages DEF Respond, RequestInv
    <2>2. to_server' \in [Conns -> Seq(Message)]
      BY <1>17, <2>1, WriteOne, Connections DEF Respond, Publish, IsOpen
    <2> QED
      BY <1>17, <2>2 DEF Respond
  <1>18. ASSUME NEW c \in Calls, Send(c)
         PROVE  TypeOK'
    <2>1. Request(c, next_id[ClientOf[c]]) \in Message
      BY <1>18, IdRange, Messages DEF Send, IdInv
    <2>2. to_server' \in [Conns -> Seq(Message)]
      BY <1>18, <2>1, WriteOne, Connections DEF Send, IsOpen
    <2>3. /\ next_id' \in [Clients -> Nat] /\ id_of' \in [Calls -> Nat]
          /\ phase' \in [Calls -> {"idle", "pending", "resolved", "rejected"}]
          /\ sent_on' \in [Calls -> 0..MaxSlots]
      <3>1. next_id' = [next_id EXCEPT ![ClientOf[c]] = @ + 1] /\ next_id[ClientOf[c]] \in Nat
        BY <1>18 DEF Send
      <3>2. id_of' = [id_of EXCEPT ![c] = next_id[ClientOf[c]]]
        BY <1>18 DEF Send
      <3>3. next_id' \in [Clients -> Nat] /\ id_of' \in [Calls -> Nat]
        BY <3>1, <3>2
      <3>4. phase' \in [Calls -> {"idle", "pending", "resolved", "rejected"}]
        <4>1. PICK p \in {"pending", "rejected"} : phase' = [phase EXCEPT ![c] = p]
          BY <1>18 DEF Send
        <4> QED
          BY <4>1
      <3>5. socket[ClientOf[c]] \in 0..MaxSlots
        BY Connections
      <3>6. sent_on' \in [Calls -> 0..MaxSlots]
        BY <1>18, <3>5 DEF Send
      <3> QED
        BY <3>3, <3>4, <3>6
    <2>4. greeted' \in [Calls -> BOOLEAN]
      <3>1. greeted' = [greeted EXCEPT ![c] = peer_seen[ClientOf[c]]] \/ UNCHANGED greeted
        BY <1>18 DEF Send
      <3>2. peer_seen[ClientOf[c]] \in BOOLEAN
        BY <3>1
      <3> QED
        BY <3>1, <3>2
    <2> QED
      BY <1>18, <2>2, <2>3, <2>4 DEF Send
  <1>19. ASSUME NEW c \in Calls, RequestTimeout(c)
         PROVE  TypeOK'
    BY <1>19 DEF RequestTimeout
  <1>20. ASSUME NEW e \in Ends, NEW k \in Slots, ServerHandles(e, k)
         PROVE  TypeOK'
    <2>1. /\ to_server' \in [Conns -> Seq(Message)] /\ from_server' \in [Conns -> Seq(Message)]
          /\ subscribed' \in SUBSET Conns
      <3>1. PICK m \in Message : Handled(e, k, m)
        BY <1>20, HandleQueues
      <3>2. to_server' \in [Conns -> Seq(Message)] /\ from_server' \in [Conns -> Seq(Message)]
        BY <3>1 DEF Handled
      <3>3. subscribed' = subscribed \cup {<<e, k>>} \/ UNCHANGED subscribed
        BY <3>1 DEF Handled
      <3>4. <<e, k>> \in Conns
        BY Connections
      <3> QED
        BY <3>2, <3>3, <3>4
    <2> QED
      BY <1>20, <2>1 DEF ServerHandles
  <1>21. CASE UNCHANGED vars
    BY <1>21 DEF vars
  <1>22. ASSUME NEW u \in Clients, Client(u)
         PROVE  TypeOK'
    BY <1>1, <1>2, <1>3, <1>4, <1>5, <1>6, <1>7, <1>8, <1>9, <1>22 DEF Client
  <1>23. CASE TheExtension
    BY <1>10, <1>11, <1>12, <1>13, <1>14, <1>15, <1>16, <1>17, <1>23 DEF TheExtension
  <1>24. ASSUME NEW e \in Ends, NEW k \in Slots, ServerCloses(e, k)
         PROVE  TypeOK'
    BY <1>24, ServerClosed DEF ServerCloses
  <1> QED
    BY <1>18, <1>19, <1>20, <1>21, <1>22, <1>23, <1>24 DEF Next

\* A step in which no command is sent, passed on, taken up or answered.
Quiet ==
    /\ UNCHANGED <<next_id, id_of, sent_on, reply, handling>>
    /\ \A c \in Calls : \/ phase'[c] = phase[c]
                        \/ phase[c] = "pending" /\ phase'[c] \in {"resolved", "rejected"}
    /\ \A conn \in Conns :
          /\ Elems(to_server'[conn]) \subseteq Elems(to_server[conn]) \cup {Sub, Hello}
          /\ Elems(from_server'[conn]) \subseteq Elems(from_server[conn])
          /\ \A m \in Message : m.type = "command" =>
                /\ Once(to_server[conn], m) => Once(to_server'[conn], m)
                /\ Once(from_server[conn], m) => Once(from_server'[conn], m)

Loud ==
    \/ \E c \in Calls : Send(c)
    \/ \E e \in Ends, k \in Slots : ServerHandles(e, k)
    \/ \E k \in Slots : ExtensionCalled(k)
    \/ \E c \in Calls, kind \in {"result", "error"} : Respond(c, kind)

\* Only four actions handle commands.
LEMMA StepKinds == IInv /\ [Next]_vars => Quiet \/ Loud
  <1> SUFFICES ASSUME IInv, [Next]_vars PROVE Quiet \/ Loud
    OBVIOUS
  <1> USE DEF IInv, connVars, peerVars, callVars, extVars
  <1>1. ASSUME NEW u \in Clients, ClientConnect(u)
         PROVE  Quiet \/ Loud
    <2>1. UNCHANGED <<next_id, id_of, sent_on, reply, handling, phase, to_server, from_server>>
      BY <1>1 DEF ClientConnect
    <2> QED
      BY <2>1 DEF Quiet
  <1>2. ASSUME NEW u \in Clients, ClientClose(u)
         PROVE  Quiet \/ Loud
    <2>1. UNCHANGED <<next_id, id_of, sent_on, reply, handling, phase, to_server, from_server>>
      BY <1>2 DEF ClientClose
    <2> QED
      BY <2>1 DEF Quiet
  <1>3. ASSUME NEW u \in Clients, WaitForPeer(u)
         PROVE  Quiet \/ Loud
    <2>1. UNCHANGED <<next_id, id_of, sent_on, reply, handling, phase, to_server, from_server>>
      BY <1>3 DEF WaitForPeer
    <2> QED
      BY <2>1 DEF Quiet
  <1>4. ASSUME NEW u \in Clients, WaitTimeout(u)
         PROVE  Quiet \/ Loud
    <2>1. UNCHANGED <<next_id, id_of, sent_on, reply, handling, phase, to_server, from_server>>
      BY <1>4 DEF WaitTimeout
    <2> QED
      BY <2>1 DEF Quiet
  <1>5. ASSUME NEW u \in Clients, NEW k \in Slots, ClientOpens(u, k)
         PROVE  Quiet \/ Loud
    <2>1. UNCHANGED <<next_id, id_of, sent_on, reply, handling, phase, from_server>>
      BY <1>5 DEF ClientOpens
    <2>2. CASE socket[u] # 0 /\ ready'[Current(u)] = "open"
      BY <1>5, <2>1, <2>2, WriteOpens, Connections DEF ClientOpens, Quiet
    <2>3. CASE ~(socket[u] # 0 /\ ready'[Current(u)] = "open")
      BY <1>5, <2>1, <2>3 DEF ClientOpens, Quiet
    <2> QED
      BY <2>2, <2>3
  <1>6. ASSUME NEW u \in Clients, NEW k \in Slots, ClientDialFails(u, k)
         PROVE  Quiet \/ Loud
    <2>1. UNCHANGED <<next_id, id_of, sent_on, reply, handling>> /\ Gone(u, k)
          /\ EmitClose(u)
      BY <1>6 DEF ClientDialFails
    <2>2. \A c \in Calls : \/ phase'[c] = phase[c]
                           \/ phase[c] = "pending" /\ phase'[c] \in {"resolved", "rejected"}
      BY <2>1, CallsEnded
    <2>3. \A conn \in Conns :
              /\ Elems(to_server'[conn]) \subseteq Elems(to_server[conn])
              /\ Elems(from_server'[conn]) \subseteq Elems(from_server[conn])
              /\ \A m : /\ Once(to_server[conn], m) => Once(to_server'[conn], m)
                        /\ Once(from_server[conn], m) => Once(from_server'[conn], m)
      BY <2>1, GoneQueues, EmptyQueue, Connections
    <2> QED
      BY <2>1, <2>2, <2>3 DEF Quiet
  <1>7. ASSUME NEW u \in Clients, NEW k \in Slots, ClientLost(u, k)
         PROVE  Quiet \/ Loud
    <2>1. UNCHANGED <<next_id, id_of, sent_on, reply, handling>> /\ Gone(u, k)
          /\ EmitClose(u)
      BY <1>7 DEF ClientLost
    <2>2. \A c \in Calls : \/ phase'[c] = phase[c]
                           \/ phase[c] = "pending" /\ phase'[c] \in {"resolved", "rejected"}
      BY <2>1, CallsEnded
    <2>3. \A conn \in Conns :
              /\ Elems(to_server'[conn]) \subseteq Elems(to_server[conn])
              /\ Elems(from_server'[conn]) \subseteq Elems(from_server[conn])
              /\ \A m : /\ Once(to_server[conn], m) => Once(to_server'[conn], m)
                        /\ Once(from_server[conn], m) => Once(from_server'[conn], m)
      BY <2>1, GoneQueues, EmptyQueue, Connections
    <2> QED
      BY <2>1, <2>2, <2>3 DEF Quiet
  <1>8. ASSUME NEW u \in Clients, NEW k \in Slots, ClientGreeted(u, k)
         PROVE  Quiet \/ Loud
    <2>1. UNCHANGED <<next_id, id_of, sent_on, reply, handling, phase, to_server>> /\ Receive(u, k, Hello)
      BY <1>8 DEF ClientGreeted
    <2>3. \A conn \in Conns :
              /\ Elems(to_server'[conn]) \subseteq Elems(to_server[conn])
              /\ Elems(from_server'[conn]) \subseteq Elems(from_server[conn])
              /\ \A m : /\ Once(to_server[conn], m) => Once(to_server'[conn], m)
                        /\ Once(from_server[conn], m) => Once(from_server'[conn], m)
      BY <2>1, ReceiveQueues, Connections
    <2> QED
      BY <2>1, <2>3 DEF Quiet
  <1>9. ASSUME NEW u \in Clients, NEW k \in Slots, ClientAnswered(u, k)
         PROVE  Quiet \/ Loud
    <2>1. UNCHANGED <<next_id, id_of, sent_on, reply, handling, to_server>> /\ \E m : Receive(u, k, m)
      BY <1>9 DEF ClientAnswered
    <2>2. \A c \in Calls : \/ phase'[c] = phase[c]
                           \/ phase[c] = "pending" /\ phase'[c] \in {"resolved", "rejected"}
      <3>1. PICK m \in Responses : phase' = [c \in Calls |->
                IF c \in CallsOf(u) /\ phase[c] = "pending" /\ id_of[c] = m.id
                THEN IF m.kind = "error" THEN "rejected" ELSE "resolved"
                ELSE phase[c]]
        BY <1>9 DEF ClientAnswered
      <3> QED
        BY <3>1
    <2>3. \A conn \in Conns :
              /\ Elems(to_server'[conn]) \subseteq Elems(to_server[conn])
              /\ Elems(from_server'[conn]) \subseteq Elems(from_server[conn])
              /\ \A m : /\ Once(to_server[conn], m) => Once(to_server'[conn], m)
                        /\ Once(from_server[conn], m) => Once(from_server'[conn], m)
      BY <2>1, ReceiveQueues, Connections
    <2> QED
      BY <2>1, <2>2, <2>3 DEF Quiet
  <1>10. CASE ExtensionStart
    <2>1. UNCHANGED <<next_id, id_of, sent_on, reply, handling, phase, to_server, from_server>>
      BY <1>10 DEF ExtensionStart
    <2> QED
      BY <2>1 DEF Quiet
  <1>11. CASE ExtensionStop
    <2>1. UNCHANGED <<next_id, id_of, sent_on, reply, handling, phase, to_server, from_server>>
      BY <1>11 DEF ExtensionStop
    <2> QED
      BY <2>1 DEF Quiet
  <1>12. CASE ReconnectTimer
    <2>1. UNCHANGED <<next_id, id_of, sent_on, reply, handling, phase, to_server, from_server>>
      BY <1>12 DEF ReconnectTimer
    <2> QED
      BY <2>1 DEF Quiet
  <1>13. ASSUME NEW k \in Slots, ExtensionOpens(k)
         PROVE  Quiet \/ Loud
    <2>1. UNCHANGED <<next_id, id_of, sent_on, reply, handling, phase, from_server>>
      BY <1>13 DEF ExtensionOpens
    <2>2. socket[Extension] # 0
      BY <1>13 DEF ExtensionOpens, ConnInv, Slots
    <2> QED
      BY <1>13, <2>1, <2>2, WriteOpens, Connections DEF ExtensionOpens, Quiet
  <1>14. ASSUME NEW k \in Slots, ExtensionLost(k)
         PROVE  Quiet \/ Loud
    <2>1. UNCHANGED <<next_id, id_of, sent_on, reply, handling>> /\ Gone(Extension, k)
          /\ UNCHANGED phase
      BY <1>14 DEF ExtensionLost
    <2>2. \A c \in Calls : \/ phase'[c] = phase[c]
                           \/ phase[c] = "pending" /\ phase'[c] \in {"resolved", "rejected"}
      BY <2>1
    <2>3. \A conn \in Conns :
              /\ Elems(to_server'[conn]) \subseteq Elems(to_server[conn])
              /\ Elems(from_server'[conn]) \subseteq Elems(from_server[conn])
              /\ \A m : /\ Once(to_server[conn], m) => Once(to_server'[conn], m)
                        /\ Once(from_server[conn], m) => Once(from_server'[conn], m)
      BY <2>1, GoneQueues, EmptyQueue, Connections
    <2> QED
      BY <2>1, <2>2, <2>3 DEF Quiet
  <1>15. ASSUME NEW k \in Slots, ExtensionGreeted(k)
         PROVE  Quiet \/ Loud
    <2>1. /\ UNCHANGED <<next_id, id_of, sent_on, reply, handling, phase>>
          /\ Receive(Extension, k, Hello) /\ Publish(Hello)
      BY <1>15 DEF ExtensionGreeted
    <2>2. \A conn \in Conns :
              /\ Elems(from_server'[conn]) \subseteq Elems(from_server[conn])
              /\ \A m : Once(from_server[conn], m) => Once(from_server'[conn], m)
      BY <2>1, ReceiveQueues, Connections
    <2>3. \A conn \in Conns :
              /\ Elems(to_server'[conn]) \subseteq Elems(to_server[conn]) \cup {Hello}
              /\ \A m \in Message : m.type = "command" /\ Once(to_server[conn], m)
                                      => Once(to_server'[conn], m)
      <3>1. CASE IsOpen(Extension)
        <4>1. /\ Write(Extension, <<Hello>>) /\ socket[Extension] # 0
              /\ Extension \in Ends /\ Hello \in Message /\ Hello.type # "command"
          BY <2>1, <3>1, Messages, Connections DEF Publish, IsOpen
        <4> QED
          BY <4>1, WriteOne
      <3>2. CASE ~IsOpen(Extension)
        BY <2>1, <3>2 DEF Publish
      <3> QED
        BY <3>1, <3>2
    <2> QED
      BY <2>1, <2>2, <2>3 DEF Quiet
  <1>16. ASSUME NEW k \in Slots, ExtensionCalled(k)
         PROVE  Quiet \/ Loud
    BY <1>16 DEF Loud
  <1>17. ASSUME NEW c \in Calls, NEW kind \in {"result", "error"},
                Respond(c, kind)
         PROVE  Quiet \/ Loud
    BY <1>17 DEF Loud
  <1>18. ASSUME NEW c \in Calls, Send(c)
         PROVE  Quiet \/ Loud
    BY <1>18 DEF Loud
  <1>19. ASSUME NEW c \in Calls, RequestTimeout(c)
         PROVE  Quiet \/ Loud
    <2>1. UNCHANGED <<next_id, id_of, sent_on, reply, handling, to_server, from_server>>
      BY <1>19 DEF RequestTimeout
    <2>2. \A d \in Calls : \/ phase'[d] = phase[d]
                           \/ phase[d] = "pending" /\ phase'[d] \in {"resolved", "rejected"}
      <3>1. phase[c] = "pending" /\ phase' = [phase EXCEPT ![c] = "rejected"]
        BY <1>19 DEF RequestTimeout
      <3>2. phase \in [Calls -> {"idle", "pending", "resolved", "rejected"}]
        BY DEF TypeOK
      <3> QED
        BY <3>1, <3>2
    <2> QED
      BY <2>1, <2>2 DEF Quiet
  <1>20. ASSUME NEW e \in Ends, NEW k \in Slots, ServerHandles(e, k)
         PROVE  Quiet \/ Loud
    BY <1>20 DEF Loud
  <1>21. CASE UNCHANGED vars
    <2>1. UNCHANGED <<next_id, id_of, sent_on, reply, handling, phase, to_server, from_server>>
      BY <1>21 DEF vars
    <2> QED
      BY <2>1 DEF Quiet
  <1>22. ASSUME NEW u \in Clients, Client(u)
         PROVE  Quiet \/ Loud
    BY <1>1, <1>2, <1>3, <1>4, <1>5, <1>6, <1>7, <1>8, <1>9, <1>22 DEF Client
  <1>23. CASE TheExtension
    BY <1>10, <1>11, <1>12, <1>13, <1>14, <1>15, <1>16, <1>17, <1>23 DEF TheExtension
  <1>24. ASSUME NEW e \in Ends, NEW k \in Slots, ServerCloses(e, k)
         PROVE  Quiet \/ Loud
    <2>1. UNCHANGED <<next_id, id_of, sent_on, reply, handling, phase, to_server, from_server>>
      BY <1>24 DEF ServerCloses
    <2> QED
      BY <2>1 DEF Quiet
  <1> QED
    BY <1>18, <1>19, <1>20, <1>21, <1>22, <1>23, <1>24 DEF Next

\* Ids go on counting the calls of each client.
LEMMA IdStep == IInv /\ [Next]_vars => IdInv'
  <1> SUFFICES ASSUME IInv, [Next]_vars PROVE IdInv'
    OBVIOUS
  <1> USE DEF IInv
  <1>0. ASSUME UNCHANGED <<next_id, id_of>>,
               \A c \in Calls : phase'[c] = "idle" <=> phase[c] = "idle"
        PROVE  IdInv'
    <2>1. \A u \in Clients : SentCalls(u)' = SentCalls(u)
      BY <1>0 DEF SentCalls, CallsOf
    <2>2. \A u \in Clients : next_id'[u] = Cardinality(SentCalls(u)') + 1
      BY <1>0, <2>1 DEF IdInv
    <2> QED
      BY <1>0, <2>2 DEF IdInv
  <1>1. CASE Quiet
    BY <1>0, <1>1 DEF Quiet
  <1>2. ASSUME NEW c \in Calls, Send(c)
        PROVE  IdInv'
    <2> DEFINE u == ClientOf[c]
               id == next_id[u]
    <2>1. /\ phase[c] = "idle" /\ id_of[c] = 0 /\ u \in Clients /\ id \in Nat /\ id # 0
      <3>1. phase[c] = "idle" /\ id_of[c] = 0 /\ u \in Clients /\ id \in Nat
        BY <1>2 DEF Send, IdInv, TypeOK
      <3>2. 0 < id
        BY <3>1 DEF IdInv
      <3> QED
        BY <3>1, <3>2
    <2>2. next_id' = [next_id EXCEPT ![u] = @ + 1]
      BY <1>2 DEF Send
    <2>3. id_of' = [id_of EXCEPT ![c] = id]
      BY <1>2 DEF Send
    <2>4. phase'[c] # "idle" /\ \A d \in Calls : d # c => phase'[d] = phase[d]
      BY <1>2 DEF Send, TypeOK
    <2> HIDE DEF u, id
    <2>5. \A v \in Clients : SentCalls(v)' = IF v = u THEN SentCalls(v) \cup {c} ELSE SentCalls(v)
      <3>1. u = ClientOf[c]
        BY DEF u
      <3> QED
        BY <2>1, <2>3, <3>1 DEF SentCalls, CallsOf, TypeOK
    <2>6. \A v \in Clients : next_id'[v] = Cardinality(SentCalls(v)') + 1
      <3>1. SentCalls(u) \in SUBSET Calls /\ c \notin SentCalls(u)
        BY <2>1 DEF SentCalls, CallsOf
      <3>2. IsFiniteSet(SentCalls(u)) /\ Cardinality(SentCalls(u)) \in Nat
        BY <3>1, FS_Subset, FS_CardinalityType
      <3>3. Cardinality(SentCalls(u) \cup {c}) = Cardinality(SentCalls(u)) + 1
        BY <3>1, <3>2, FS_AddElement
      <3>4. next_id'[u] = Cardinality(SentCalls(u)') + 1
        <4>1. SentCalls(u)' = SentCalls(u) \cup {c}
          BY <2>1, <2>5
        <4>2. next_id'[u] = next_id[u] + 1 /\ next_id[u] = Cardinality(SentCalls(u)) + 1
          BY <2>1, <2>2 DEF TypeOK, IdInv
        <4> QED
          BY <3>3, <4>1, <4>2
      <3>5. ASSUME NEW v \in Clients, v # u PROVE next_id'[v] = Cardinality(SentCalls(v)') + 1
        <4>1. SentCalls(v)' = SentCalls(v)
          BY <2>5, <3>5
        <4>2. next_id'[v] = next_id[v] /\ next_id[v] = Cardinality(SentCalls(v)) + 1
          BY <2>2, <3>5 DEF TypeOK, IdInv
        <4> QED
          BY <4>1, <4>2
      <3> QED
        BY <3>4, <3>5
    <2>7. \A d \in Calls : phase'[d] = "idle" <=> id_of'[d] = 0
      BY <2>1, <2>3, <2>4 DEF IdInv, TypeOK
    <2>8. next_id'[u] = id + 1 /\ \A v \in Clients : v # u => next_id'[v] = next_id[v]
      BY <2>1, <2>2 DEF TypeOK, id
    <2>9. id_of'[c] = id /\ \A d \in Calls : d # c => id_of'[d] = id_of[d]
      BY <2>3 DEF TypeOK
    <2>10. \A d \in Calls : id_of[d] < next_id[ClientOf[d]] /\ id_of[d] \in Nat
      BY DEF IdInv, TypeOK
    <2>11. \A d \in Calls : id_of'[d] < next_id'[ClientOf[d]]
      <3>1. ASSUME NEW d \in Calls PROVE id_of'[d] < next_id'[ClientOf[d]]
        <4>1. ClientOf[d] \in Clients /\ u = ClientOf[c] /\ id = next_id[u]
          BY DEF u, id
        <4> QED
          BY <2>1, <2>8, <2>9, <2>10, <4>1
      <3> QED
        BY <3>1
    <2>12. ASSUME NEW d \in Calls, NEW f \in Calls,
                  ClientOf[d] = ClientOf[f], id_of'[d] = id_of'[f], id_of'[d] # 0
           PROVE  d = f
      <3>1. u = ClientOf[c] /\ id = next_id[u]
        BY DEF u, id
      <3>2. CASE d = c /\ f # c
        BY <2>1, <2>9, <2>10, <2>12, <3>1, <3>2
      <3>3. CASE d # c /\ f = c
        BY <2>1, <2>9, <2>10, <2>12, <3>1, <3>3
      <3>4. CASE d # c /\ f # c
        BY <2>9, <2>12, <3>4 DEF IdInv
      <3> QED
        BY <3>2, <3>3, <3>4
    <2> QED
      BY <2>6, <2>7, <2>11, <2>12 DEF IdInv
  <1>3. ASSUME UNCHANGED callVars
        PROVE  IdInv'
    BY <1>0, <1>3 DEF callVars
  <1>4. CASE Loud
    BY <1>2, <1>3, <1>4 DEF Loud, ExtensionCalled, Respond, ServerHandles
  <1> QED
    BY <1>1, <1>4, StepKinds

\* What is in the queues is a message.
LEMMA QueuedMessages ==
    ASSUME TypeOK
    PROVE  \A conn \in Conns : \A m \in Elems(to_server[conn]) \cup Elems(from_server[conn]) : m \in Message
  BY QueueElems DEF TypeOK

\* The next command of a client is new: no queue holds it, nobody works on it.
LEMMA FreshRequest ==
    ASSUME IInv, NEW c \in Calls, phase[c] = "idle"
    PROVE  /\ id_of[c] = 0 /\ c \notin handling /\ reply[c] = "none"
           /\ \A conn \in Conns : \A m \in Elems(to_server[conn]) \cup Elems(from_server[conn]) :
                  m.type = "command" => m.call # c
  <1>1. id_of[c] = 0
    BY DEF IInv, IdInv
  <1>2. c \notin handling /\ reply[c] = "none"
    BY <1>1 DEF IInv, RequestInv, AnswerInv
  <1>3. ASSUME NEW conn \in Conns, NEW m \in Elems(to_server[conn]) \cup Elems(from_server[conn]),
               m.type = "command"
        PROVE  m.call # c
    BY <1>1, <1>3 DEF IInv, RequestInv, Untouched
  <1> QED
    BY <1>1, <1>2, <1>3

\* A command is in one place at a time and is taken up and answered once.
LEMMA RequestStep == IInv /\ [Next]_vars => RequestInv'
  <1> SUFFICES ASSUME IInv, [Next]_vars PROVE RequestInv'
    OBVIOUS
  <1> USE DEF IInv
  <1>1. CASE Quiet
    <2>1. \A m : Untouched(m) => Untouched(m)'
      BY <1>1 DEF Quiet, Untouched
    <2>2. ASSUME NEW conn \in Conns, NEW m \in Elems(to_server'[conn]), m.type = "command"
          PROVE  /\ Untouched(m)'
                 /\ conn = <<ClientOf[m.call], sent_on'[m.call]>>
                 /\ Once(to_server'[conn], m)
                 /\ \A other \in Conns : m \notin Elems(from_server'[other])
      <3>1. m \in Elems(to_server[conn]) /\ m \in Message
        BY <1>1, <2>2, Messages, QueuedMessages DEF Quiet
      <3> QED
        BY <1>1, <2>1, <2>2, <3>1 DEF Quiet, RequestInv
    <2>3. ASSUME NEW conn \in Conns, NEW m \in Elems(from_server'[conn]), m.type = "command"
          PROVE  /\ Untouched(m)'
                 /\ conn[1] = Extension
                 /\ Once(from_server'[conn], m)
                 /\ \A other \in Conns : m \in Elems(from_server'[other]) => other = conn
      <3>1. m \in Elems(from_server[conn]) /\ m \in Message
        BY <1>1, QueuedMessages DEF Quiet
      <3> QED
        BY <1>1, <2>1, <2>3, <3>1 DEF Quiet, RequestInv
    <2>4. \A c \in handling' : reply'[c] = "none" /\ id_of'[c] # 0
      BY <1>1 DEF Quiet, RequestInv
    <2> QED
      BY <2>2, <2>3, <2>4 DEF RequestInv
  <1>2. ASSUME NEW c \in Calls, Send(c)
        PROVE  RequestInv'
    <2> DEFINE u == ClientOf[c]
    <2>0. PICK x : x = Request(c, next_id[u])
      OBVIOUS
    <2>1. /\ phase[c] = "idle" /\ id_of' = [id_of EXCEPT ![c] = next_id[u]]
          /\ UNCHANGED <<from_server, reply, handling>>
      BY <1>2 DEF Send, extVars
    <2>2. /\ id_of[c] = 0 /\ c \notin handling /\ reply[c] = "none"
          /\ next_id[u] # 0 /\ next_id[u] \in Ids
          /\ u \in Clients /\ u \in Ends /\ u # Extension
          /\ x \in Message /\ x.type = "command" /\ x.call = c
      BY <2>0, <2>1, FreshRequest, IdRange, Messages, Connections DEF Ids
    <2>3. id_of'[c] = next_id[u] /\ \A d \in Calls : d # c => id_of'[d] = id_of[d]
      BY <2>1 DEF TypeOK
    <2>4. \A d \in Calls : d # c => sent_on'[d] = sent_on[d]
      BY <1>2 DEF Send, TypeOK
    <2>5. \A conn \in Conns : \A m \in Elems(to_server[conn]) \cup Elems(from_server[conn]) :
              m.type = "command" => /\ m.call # c /\ m.call \in Calls /\ m # x /\ m \in Message
                                    /\ Untouched(m) => Untouched(m)'
      <3>1. ASSUME NEW conn \in Conns, NEW m \in Elems(to_server[conn]) \cup Elems(from_server[conn]),
                   m.type = "command"
            PROVE  /\ m.call # c /\ m.call \in Calls /\ m # x /\ m \in Message
                   /\ Untouched(m) => Untouched(m)'
        <4>1. m.call # c /\ m.call \in Calls /\ m \in Message /\ m # x
          BY <2>1, <2>2, <3>1, FreshRequest, QueuedMessages, MessageCases
        <4> QED
          BY <2>1, <2>3, <4>1 DEF Untouched
      <3> QED
        BY <3>1
    <2> HIDE DEF u
    <2>6. /\ \A conn \in Conns : \A m \in Elems(to_server'[conn]) :
                 \/ m \in Elems(to_server[conn])
                 \/ /\ m = x /\ conn = <<u, sent_on'[c]>>
                    /\ x \notin Elems(to_server[conn]) => Once(to_server'[conn], x)
          /\ \A conn \in Conns, m \in Message : Once(to_server[conn], m) /\ m # x => Once(to_server'[conn], m)
      <3>1. CASE IsOpen(u)
        <4>1. /\ Write(u, <<x>>) /\ sent_on' = [sent_on EXCEPT ![c] = socket[u]]
              /\ socket[u] # 0
          BY <1>2, <2>0, <3>1 DEF Send, IsOpen, u
        <4>2. sent_on'[c] = socket[u] /\ Current(u) = <<u, sent_on'[c]>>
          BY <4>1 DEF TypeOK, Current
        <4>3. /\ \A conn \in Conns :
                    /\ conn # Current(u) => to_server'[conn] = to_server[conn]
                    /\ Elems(to_server'[conn]) \subseteq Elems(to_server[conn]) \cup {x}
                    /\ \A m \in Message : Once(to_server[conn], m) /\ m # x => Once(to_server'[conn], m)
              /\ x \notin Elems(to_server[Current(u)]) => Once(to_server'[Current(u)], x)
          BY <2>2, <4>1, WriteOne
        <4> QED
          BY <4>2, <4>3
      <3>2. CASE ~IsOpen(u)
        BY <1>2, <3>2 DEF Send, u
      <3> QED
        BY <3>1, <3>2
    <2>7. Untouched(x)'
      BY <2>0, <2>1, <2>2, <2>3 DEF Untouched
    <2>8. ASSUME NEW conn \in Conns, NEW m \in Elems(to_server'[conn]), m.type = "command"
          PROVE  /\ Untouched(m)'
                 /\ conn = <<ClientOf[m.call], sent_on'[m.call]>>
                 /\ Once(to_server'[conn], m)
                 /\ \A other \in Conns : m \notin Elems(from_server'[other])
      <3>1. CASE m \in Elems(to_server[conn])
        BY <2>1, <2>4, <2>5, <2>6, <2>8, <3>1 DEF RequestInv
      <3>2. CASE m \notin Elems(to_server[conn])
        <4>1. m = x /\ conn = <<u, sent_on'[c]>> /\ Once(to_server'[conn], x)
          BY <2>6, <3>2
        <4>2. \A other \in Conns : x \notin Elems(from_server'[other])
          BY <2>1, <2>2, <2>5
        <4> QED
          BY <2>2, <2>7, <4>1, <4>2 DEF u
      <3> QED
        BY <3>1, <3>2
    <2>9. ASSUME NEW conn \in Conns, NEW m \in Elems(from_server'[conn]), m.type = "command"
          PROVE  /\ Untouched(m)'
                 /\ conn[1] = Extension
                 /\ Once(from_server'[conn], m)
                 /\ \A other \in Conns : m \in Elems(from_server'[other]) => other = conn
      BY <2>1, <2>5, <2>9 DEF RequestInv
    <2>10. \A d \in handling' : reply'[d] = "none" /\ id_of'[d] # 0
      BY <2>1, <2>2, <2>3 DEF RequestInv, TypeOK
    <2> QED
      BY <2>8, <2>9, <2>10 DEF RequestInv
  <1>3. ASSUME NEW e \in Ends, NEW k \in Slots, ServerHandles(e, k)
        PROVE  RequestInv'
    <2>1. UNCHANGED <<id_of, sent_on, handling, reply>>
      BY <1>3 DEF ServerHandles, callVars, extVars
    <2>2. \A m : Untouched(m) => Untouched(m)'
      BY <2>1 DEF Untouched
    <2>3. PICK m \in Message : Handled(e, k, m)
      BY <1>3, HandleQueues
    <2>4. <<e, k>> \in Conns /\ m \in Elems(to_server[<<e, k>>])
      BY <2>3, Connections DEF Handled
    <2>5. ASSUME NEW conn \in Conns, NEW x \in Elems(to_server'[conn]), x.type = "command"
          PROVE  /\ Untouched(x)'
                 /\ conn = <<ClientOf[x.call], sent_on'[x.call]>>
                 /\ Once(to_server'[conn], x)
                 /\ \A other \in Conns : x \notin Elems(from_server'[other])
      <3>1. x \in Elems(to_server[conn])
        BY <2>3 DEF Handled
      <3>2. /\ Untouched(x)
            /\ conn = <<ClientOf[x.call], sent_on[x.call]>>
            /\ Once(to_server[conn], x)
            /\ \A other \in Conns : x \notin Elems(from_server[other])
        BY <2>5, <3>1 DEF RequestInv
      <3>3. x # m
        <4>1. SUFFICES ASSUME x = m PROVE FALSE
          OBVIOUS
        <4>2. <<e, k>> = conn
          BY <2>4, <2>5, <3>2, <4>1 DEF RequestInv
        <4>3. m \notin Elems(to_server'[<<e, k>>])
          BY <2>3, <3>2, <4>1, <4>2 DEF Handled
        <4> QED
          BY <4>1, <4>2, <4>3
      <3>4. \A other \in Conns : x \notin Elems(from_server'[other])
        BY <2>3, <3>2, <3>3 DEF Handled
      <3>5. Once(to_server'[conn], x)
        BY <2>3, <3>2 DEF Handled
      <3> QED
        BY <2>1, <2>2, <3>2, <3>4, <3>5
    <2>6. ASSUME NEW conn \in Conns, NEW x \in Elems(from_server'[conn]), x.type = "command"
          PROVE  /\ Untouched(x)'
                 /\ conn[1] = Extension
                 /\ Once(from_server'[conn], x)
                 /\ \A other \in Conns : x \in Elems(from_server'[other]) => other = conn
      <3>1. CASE x # m
        <4>1. \A other \in Conns : x \in Elems(from_server'[other]) => x \in Elems(from_server[other])
          BY <2>3, <3>1 DEF Handled
        <4>2. /\ Untouched(x)
              /\ conn[1] = Extension
              /\ Once(from_server[conn], x)
              /\ \A other \in Conns : x \in Elems(from_server[other]) => other = conn
          BY <2>6, <4>1 DEF RequestInv
        <4>3. Once(from_server'[conn], x)
          BY <2>3, <3>1, <4>2 DEF Handled
        <4> QED
          BY <2>2, <4>1, <4>2, <4>3
      <3>2. CASE x = m
        <4>1. Untouched(m) /\ \A other \in Conns : m \notin Elems(from_server[other])
          BY <2>4, <2>6, <3>2 DEF RequestInv
        <4>2. \A other \in Conns : m \in Elems(from_server'[other]) =>
                  /\ ready[other] = "open" /\ Matches(e, m, other[1])
                  /\ Once(from_server'[other], m)
          BY <2>3, <4>1 DEF Handled
        <4>3. \A other \in Conns : m \in Elems(from_server'[other]) =>
                  other[1] = Extension /\ other = Current(Extension)
          <5>1. ASSUME NEW other \in Conns, m \in Elems(from_server'[other])
                PROVE  other[1] = Extension /\ other = Current(Extension)
            <6>1. other[1] = Extension
              BY <2>6, <3>2, <4>2, <5>1 DEF Matches
            <6>2. other[2] \in Slots /\ other = <<Extension, other[2]>>
              BY <6>1, Connections
            <6>3. socket[Extension] = other[2]
              BY <4>2, <5>1, <6>2 DEF ConnInv
            <6> QED
              BY <6>1, <6>2, <6>3 DEF Current
          <5> QED
            BY <5>1
        <4> QED
          BY <2>2, <3>2, <4>1, <4>2, <4>3
      <3> QED
        BY <3>1, <3>2
    <2>7. \A c \in handling' : reply'[c] = "none" /\ id_of'[c] # 0
      BY <2>1 DEF RequestInv
    <2> QED
      BY <2>5, <2>6, <2>7 DEF RequestInv
  <1>4. ASSUME NEW k \in Slots, ExtensionCalled(k)
        PROVE  RequestInv'
    <2>1. /\ UNCHANGED <<id_of, sent_on, reply, to_server>>
          /\ \E c \in Calls : Receive(Extension, k, Request(c, id_of[c])) /\ handling' = handling \cup {c}
      BY <1>4 DEF ExtensionCalled, callVars
    <2>2. PICK c \in Calls : Receive(Extension, k, Request(c, id_of[c])) /\ handling' = handling \cup {c}
      BY <2>1
    <2>3. PICK m : m = Request(c, id_of[c]) /\ m.type = "command" /\ m.call = c
      BY Messages
    <2>4. /\ <<Extension, k>> \in Conns
          /\ from_server' \in [Conns -> Seq(Message)]
          /\ m \in Elems(from_server[<<Extension, k>>])
          /\ Once(from_server[<<Extension, k>>], m) => m \notin Elems(from_server'[<<Extension, k>>])
          /\ \A conn \in Conns :
                /\ Elems(from_server'[conn]) \subseteq Elems(from_server[conn])
                /\ \A x : Once(from_server[conn], x) => Once(from_server'[conn], x)
      <3>1. Receive(Extension, k, m) /\ Extension \in Ends
        BY <2>2, <2>3, Connections
      <3>2. /\ <<Extension, k>> \in Conns
            /\ from_server' \in [Conns -> Seq(Message)]
            /\ Elems(from_server[<<Extension, k>>]) = {m} \cup Elems(from_server'[<<Extension, k>>])
            /\ Once(from_server[<<Extension, k>>], m) => m \notin Elems(from_server'[<<Extension, k>>])
        BY <3>1, ReceiveQueues
      <3>3. \A conn \in Conns :
                /\ Elems(from_server'[conn]) \subseteq Elems(from_server[conn])
                /\ \A x : Once(from_server[conn], x) => Once(from_server'[conn], x)
        BY <3>1, ReceiveQueues
      <3> QED
        BY <3>2, <3>3
    <2>5. /\ Untouched(m) /\ Once(from_server[<<Extension, k>>], m)
          /\ \A other \in Conns : m \in Elems(from_server[other]) => other = <<Extension, k>>
          /\ \A other \in Conns : m \notin Elems(to_server[other])
      BY <2>3, <2>4 DEF RequestInv
    <2>6. \A other \in Conns : m \notin Elems(to_server[other]) /\ m \notin Elems(from_server'[other])
      BY <2>4, <2>5
    <2>7. \A x : Untouched(x) /\ x # m => Untouched(x)'
      <3>1. \A x : Untouched(x) /\ x # m => x.call # c
        BY <2>3 DEF Untouched
      <3> QED
        BY <2>1, <2>2, <3>1 DEF Untouched
    <2>8. ASSUME NEW conn \in Conns, NEW x \in Elems(to_server'[conn]), x.type = "command"
          PROVE  /\ Untouched(x)'
                 /\ conn = <<ClientOf[x.call], sent_on'[x.call]>>
                 /\ Once(to_server'[conn], x)
                 /\ \A other \in Conns : x \notin Elems(from_server'[other])
      <3>1. x \in Elems(to_server[conn]) /\ x # m
        BY <2>1, <2>6
      <3> QED
        BY <2>1, <2>4, <2>7, <2>8, <3>1 DEF RequestInv
    <2>9. ASSUME NEW conn \in Conns, NEW x \in Elems(from_server'[conn]), x.type = "command"
          PROVE  /\ Untouched(x)'
                 /\ conn[1] = Extension
                 /\ Once(from_server'[conn], x)
                 /\ \A other \in Conns : x \in Elems(from_server'[other]) => other = conn
      <3>1. x \in Elems(from_server[conn]) /\ x # m
        BY <2>4, <2>6
      <3> QED
        BY <2>4, <2>7, <2>9, <3>1 DEF RequestInv
    <2>10. \A d \in handling' : reply'[d] = "none" /\ id_of'[d] # 0
      <3>1. reply[c] = "none" /\ id_of[c] # 0
        BY <2>3, <2>5 DEF Untouched
      <3> QED
        BY <2>1, <2>2, <3>1 DEF RequestInv
    <2> QED
      BY <2>8, <2>9, <2>10 DEF RequestInv
  <1>5. ASSUME NEW c \in Calls, NEW kind \in {"result", "error"}, Respond(c, kind)
        PROVE  RequestInv'
    <2>1. /\ c \in handling /\ handling' = handling \ {c}
          /\ reply' = [reply EXCEPT ![c] = kind]
          /\ Publish(Response(ClientOf[c], id_of[c], kind))
          /\ UNCHANGED <<id_of, sent_on, from_server>>
      BY <1>5 DEF Respond, callVars
    <2> DEFINE r == Response(ClientOf[c], id_of[c], kind)
    <2>2. r \in Message /\ r.type = "response"
      <3>1. id_of[c] \in Ids
        BY <2>1, IdRange DEF RequestInv
      <3> QED
        BY <3>1, Messages
    <2>3. /\ \A conn \in Conns : Elems(to_server'[conn]) \subseteq Elems(to_server[conn]) \cup {r}
          /\ \A conn \in Conns, x \in Message : Once(to_server[conn], x) /\ x # r => Once(to_server'[conn], x)
      <3>1. CASE IsOpen(Extension)
        BY <2>1, <2>2, <3>1, WriteOne, Connections DEF Publish, IsOpen
      <3>2. CASE ~IsOpen(Extension)
        BY <2>1, <3>2 DEF Publish
      <3> QED
        BY <3>1, <3>2
    <2> HIDE DEF r
    <2>4. \A x \in Message : x.type = "command" /\ Untouched(x) => Untouched(x)' /\ x # r
      <3>1. ASSUME NEW x \in Message, x.type = "command", Untouched(x)
            PROVE  Untouched(x)' /\ x # r
        <4>1. x.call # c /\ x.call \in Calls
          BY <2>1, <3>1, MessageCases DEF Untouched
        <4>2. reply'[x.call] = reply[x.call]
          BY <2>1, <4>1 DEF TypeOK
        <4> QED
          BY <2>1, <2>2, <3>1, <4>2 DEF Untouched
      <3> QED
        BY <3>1
    <2>5. ASSUME NEW conn \in Conns, NEW x \in Elems(to_server'[conn]), x.type = "command"
          PROVE  /\ Untouched(x)'
                 /\ conn = <<ClientOf[x.call], sent_on'[x.call]>>
                 /\ Once(to_server'[conn], x)
                 /\ \A other \in Conns : x \notin Elems(from_server'[other])
      <3>1. x \in Elems(to_server[conn]) /\ x \in Message
        BY <2>2, <2>3, <2>5, QueuedMessages
      <3> QED
        BY <2>1, <2>3, <2>4, <2>5, <3>1 DEF RequestInv
    <2>6. ASSUME NEW conn \in Conns, NEW x \in Elems(from_server'[conn]), x.type = "command"
          PROVE  /\ Untouched(x)'
                 /\ conn[1] = Extension
                 /\ Once(from_server'[conn], x)
                 /\ \A other \in Conns : x \in Elems(from_server'[other]) => other = conn
      <3>1. x \in Elems(from_server[conn]) /\ x \in Message
        BY <2>1, QueuedMessages
      <3> QED
        BY <2>1, <2>4, <2>6, <3>1 DEF RequestInv
    <2>7. \A d \in handling' : reply'[d] = "none" /\ id_of'[d] # 0
      BY <2>1 DEF RequestInv, TypeOK
    <2> QED
      BY <2>5, <2>6, <2>7 DEF RequestInv
  <1> QED
    BY <1>1, <1>2, <1>3, <1>4, <1>5, StepKinds DEF Loud

\* Every answer under way is what the extension answered to its call.
LEMMA AnswerStep == IInv /\ [Next]_vars => AnswerInv'
  <1> SUFFICES ASSUME IInv, [Next]_vars PROVE AnswerInv'
    OBVIOUS
  <1> USE DEF IInv
  <1>0. ASSUME \A m \in Message : m.type = "response" /\ IsAnswer(m) => IsAnswer(m)',
               \A conn \in Conns : \A m \in Elems(to_server'[conn]) :
                   m.type = "response" => m \in Elems(to_server[conn]) \/ IsAnswer(m)',
               \A conn \in Conns : \A m \in Elems(from_server'[conn]) :
                   m.type = "response" =>
                       \/ m \in Elems(from_server[conn])
                       \/ IsAnswer(m)' /\ conn[1] = m.reply_subject,
               \A c \in Calls : reply'[c] # "none" => id_of'[c] # 0
        PROVE  AnswerInv'
    BY <1>0, QueuedMessages DEF AnswerInv
  <1>1. CASE Quiet
    <2>1. \A m \in Message : IsAnswer(m) => IsAnswer(m)'
      BY <1>1 DEF Quiet, IsAnswer
    <2>2. \A conn \in Conns : \A m \in Elems(to_server'[conn]) :
              m.type = "response" => m \in Elems(to_server[conn])
      BY <1>1, Messages DEF Quiet
    <2>3. \A conn \in Conns : \A m \in Elems(from_server'[conn]) : m \in Elems(from_server[conn])
      BY <1>1 DEF Quiet
    <2>4. \A c \in Calls : reply'[c] # "none" => id_of'[c] # 0
      BY <1>1 DEF Quiet, AnswerInv
    <2> QED
      BY <1>0, <2>1, <2>2, <2>3, <2>4
  <1>2. ASSUME NEW c \in Calls, Send(c)
        PROVE  AnswerInv'
    <2> DEFINE u == ClientOf[c]
    <2>0. PICK x : x = Request(c, next_id[u])
      OBVIOUS
    <2>1. /\ phase[c] = "idle" /\ id_of' = [id_of EXCEPT ![c] = next_id[u]]
          /\ UNCHANGED <<from_server, reply>>
      BY <1>2 DEF Send
    <2>2. /\ id_of[c] = 0 /\ reply[c] = "none" /\ u \in Ends
          /\ x \in Message /\ x.type = "command"
      BY <2>0, <2>1, FreshRequest, IdRange, Messages, Connections
    <2>3. \A d \in Calls : d # c => id_of'[d] = id_of[d]
      BY <2>1 DEF TypeOK
    <2>4. ASSUME NEW m \in Message, m.type = "response", IsAnswer(m) PROVE IsAnswer(m)'
      <3>1. PICK d \in Calls : ClientOf[d] = m.reply_subject /\ id_of[d] = m.id /\ reply[d] = m.kind
        BY <2>4 DEF IsAnswer
      <3>2. m.kind # "none"
        BY <2>4, MessageCases
      <3>3. d # c
        BY <2>2, <3>1, <3>2
      <3> QED
        BY <2>1, <2>3, <3>1, <3>3 DEF IsAnswer
    <2> HIDE DEF u
    <2>5. \A conn \in Conns : \A m \in Elems(to_server'[conn]) : m \in Elems(to_server[conn]) \/ m = x
      <3>1. CASE IsOpen(u)
        <4>1. Write(u, <<x>>) /\ socket[u] # 0
          BY <1>2, <2>0, <3>1 DEF Send, IsOpen, u
        <4>2. \A conn \in Conns : Elems(to_server'[conn]) \subseteq Elems(to_server[conn]) \cup {x}
          BY <2>2, <4>1, WriteOne
        <4> QED
          BY <4>2
      <3>2. CASE ~IsOpen(u)
        BY <1>2, <3>2 DEF Send, u
      <3> QED
        BY <3>1, <3>2
    <2>6. \A d \in Calls : reply'[d] # "none" => id_of'[d] # 0
      BY <2>1, <2>2, <2>3 DEF AnswerInv
    <2> QED
      BY <1>0, <2>1, <2>2, <2>4, <2>5, <2>6
  <1>3. ASSUME NEW e \in Ends, NEW k \in Slots, ServerHandles(e, k)
        PROVE  AnswerInv'
    <2>1. UNCHANGED <<id_of, reply>>
      BY <1>3 DEF ServerHandles, callVars
    <2>2. \A m : IsAnswer(m) => IsAnswer(m)'
      BY <2>1 DEF IsAnswer
    <2>3. PICK m \in Message : Handled(e, k, m)
      BY <1>3, HandleQueues
    <2>4. m.type = "response" => IsAnswer(m)
      BY <2>3, Connections DEF Handled, AnswerInv
    <2>5. \A conn \in Conns : \A x \in Elems(to_server'[conn]) : x \in Elems(to_server[conn])
      BY <2>3 DEF Handled
    <2>6. \A conn \in Conns : \A x \in Elems(from_server'[conn]) :
              x.type = "response" =>
                  \/ x \in Elems(from_server[conn])
                  \/ IsAnswer(x)' /\ conn[1] = x.reply_subject
      BY <2>2, <2>3, <2>4 DEF Handled, Matches
    <2>7. \A c \in Calls : reply'[c] # "none" => id_of'[c] # 0
      BY <2>1 DEF AnswerInv
    <2> QED
      BY <1>0, <2>2, <2>5, <2>6, <2>7
  <1>4. ASSUME NEW k \in Slots, ExtensionCalled(k)
        PROVE  AnswerInv'
    <2>1. UNCHANGED <<id_of, reply, to_server>> /\ \E m : Receive(Extension, k, m)
      BY <1>4 DEF ExtensionCalled, callVars
    <2>2. \A m : IsAnswer(m) => IsAnswer(m)'
      BY <2>1 DEF IsAnswer
    <2>3. \A conn \in Conns : \A x \in Elems(from_server'[conn]) : x \in Elems(from_server[conn])
      <3>1. PICK m : Receive(Extension, k, m)
        BY <2>1
      <3>2. \A conn \in Conns : Elems(from_server'[conn]) \subseteq Elems(from_server[conn])
        BY <3>1, ReceiveQueues, Connections
      <3> QED
        BY <3>2
    <2>4. \A c \in Calls : reply'[c] # "none" => id_of'[c] # 0
      BY <2>1 DEF AnswerInv
    <2> QED
      BY <1>0, <2>1, <2>2, <2>3, <2>4
  <1>5. ASSUME NEW c \in Calls, NEW kind \in {"result", "error"}, Respond(c, kind)
        PROVE  AnswerInv'
    <2>1. /\ c \in handling
          /\ reply' = [reply EXCEPT ![c] = kind]
          /\ Publish(Response(ClientOf[c], id_of[c], kind))
          /\ UNCHANGED <<id_of, from_server>>
      BY <1>5 DEF Respond, callVars
    <2>2. reply[c] = "none" /\ id_of[c] # 0 /\ id_of[c] \in Ids
      BY <2>1, IdRange DEF RequestInv
    <2>3. PICK r \in Message : /\ r = Response(ClientOf[c], id_of[c], kind)
                               /\ r.reply_subject = ClientOf[c] /\ r.id = id_of[c] /\ r.kind = kind
      BY <2>2, Messages
    <2>4. reply'[c] = kind /\ \A d \in Calls : d # c => reply'[d] = reply[d]
      BY <2>1 DEF TypeOK
    <2>5. IsAnswer(r)'
      BY <2>1, <2>3, <2>4 DEF IsAnswer
    <2>6. \A conn \in Conns : \A m \in Elems(to_server'[conn]) : m \in Elems(to_server[conn]) \/ m = r
      <3>1. CASE IsOpen(Extension)
        <4>1. Write(Extension, <<r>>) /\ socket[Extension] # 0 /\ Extension \in Ends
          BY <2>1, <2>3, <3>1, Connections DEF Publish, IsOpen
        <4>2. \A conn \in Conns : Elems(to_server'[conn]) \subseteq Elems(to_server[conn]) \cup {r}
          BY <4>1, WriteOne
        <4> QED
          BY <4>2
      <3>2. CASE ~IsOpen(Extension)
        BY <2>1, <3>2 DEF Publish
      <3> QED
        BY <3>1, <3>2
    <2>7. ASSUME NEW m \in Message, m.type = "response", IsAnswer(m) PROVE IsAnswer(m)'
      <3>1. PICK d \in Calls : ClientOf[d] = m.reply_subject /\ id_of[d] = m.id /\ reply[d] = m.kind
        BY <2>7 DEF IsAnswer
      <3>2. m.kind # "none"
        BY <2>7, MessageCases
      <3>3. d # c
        BY <2>2, <3>1, <3>2
      <3> QED
        BY <2>1, <2>4, <3>1, <3>3 DEF IsAnswer
    <2>8. \A d \in Calls : reply'[d] # "none" => id_of'[d] # 0
      BY <2>1, <2>2, <2>4 DEF AnswerInv
    <2> QED
      BY <1>0, <2>1, <2>5, <2>6, <2>7, <2>8
  <1> QED
    BY <1>1, <1>2, <1>3, <1>4, <1>5, StepKinds DEF Loud

\* The connections of the extension and the subscriptions keep their rules.
LEMMA ConnStep == IInv /\ [Next]_vars => ConnInv'
  <1> SUFFICES ASSUME IInv, [Next]_vars PROVE ConnInv'
    OBVIOUS
  <1> USE DEF IInv, connVars, peerVars, callVars, extVars
  <1>0. ASSUME socket'[Extension] = socket[Extension],
               UNCHANGED subscribed,
               \A conn \in Conns :
                   \/ ready'[conn] = ready[conn]
                   \/ ready[conn] = "none" /\ conn[1] # Extension
                   \/ ready[conn] = "connecting" /\ conn[1] # Extension
                   \/ ready[conn] = "open" /\ ready'[conn] = "closing" /\ conn[1] # Extension,
               \A conn \in Conns :
                   \/ to_server'[conn] = to_server[conn]
                   \/ SubThenHello(to_server'[conn]) /\ ready'[conn] \in {"open", "closing"}
        PROVE  ConnInv'
    <2>1. \A k \in Slots : ready'[<<Extension, k>>] = ready[<<Extension, k>>]
      BY <1>0, Connections
    <2>2. \A conn \in Conns : ready[conn] \in {"open", "closing"} => ready'[conn] \in {"open", "closing"}
      BY <1>0
    <2>3. \A conn \in subscribed' : ready'[conn] \in {"open", "closing"}
      BY <1>0, <2>2 DEF ConnInv, TypeOK
    <2>4. \A conn \in Conns : to_server'[conn] # <<>> => ready'[conn] \in {"open", "closing"}
      BY <1>0, <2>2 DEF ConnInv
    <2>5. \A conn \in Conns : SubThenHello(to_server'[conn])
      BY <1>0 DEF ConnInv
    <2> QED
      BY <1>0, <2>1, <2>3, <2>4, <2>5 DEF ConnInv
  <1>a. ASSUME Connect, UNCHANGED <<subscribed, to_server>>
        PROVE  ConnInv'
    <2>1. CASE UNCHANGED <<socket, ready>>
      BY <1>0, <1>a, <2>1
    <2>2. CASE /\ Dial(Extension)
               /\ ~(socket[Extension] # 0 /\ ready[Current(Extension)] \in {"connecting", "open"})
      <3>1. PICK k \in Slots :
                /\ socket'[Extension] = k /\ ready[<<Extension, k>>] = "none"
                /\ \A conn \in Conns : conn # <<Extension, k>> => ready'[conn] = ready[conn]
        BY <2>2, Dialled, Connections
      <3>2. \A l \in Slots : ready[<<Extension, l>>] \notin {"connecting", "open"}
        BY <2>2 DEF ConnInv, Current, Slots
      <3>3. \A l \in Slots : l # k => ready'[<<Extension, l>>] = ready[<<Extension, l>>]
        <4>1. \A l \in Slots : l # k => <<Extension, l>> # <<Extension, k>>
          OBVIOUS
        <4> QED
          BY <3>1, <4>1, Connections
      <3>4. \A conn \in Conns : ready[conn] \in {"open", "closing"} => ready'[conn] = ready[conn]
        BY <3>1
      <3>5. \A l \in Slots : ready'[<<Extension, l>>] \in {"connecting", "open"} => socket'[Extension] = l
        BY <3>1, <3>2, <3>3
      <3>6. /\ \A conn \in subscribed' : ready'[conn] \in {"open", "closing"}
            /\ \A conn \in Conns : to_server'[conn] # <<>> => ready'[conn] \in {"open", "closing"}
            /\ \A conn \in Conns : SubThenHello(to_server'[conn])
        BY <1>a, <3>4 DEF ConnInv, TypeOK
      <3> QED
        BY <3>5, <3>6 DEF ConnInv
    <2> QED
      BY <1>a, <2>1, <2>2, Connected
  <1>1. ASSUME NEW u \in Clients, ClientConnect(u)
         PROVE  ConnInv'
    <2>1. Dial(u) /\ UNCHANGED <<subscribed, to_server>> /\ u \in Ends /\ u # Extension
      BY <1>1, Connections DEF ClientConnect
    <2>2. /\ socket'[Extension] = socket[Extension]
          /\ \A conn \in Conns :
                 \/ ready'[conn] = ready[conn]
                 \/ ready[conn] = "none" /\ conn[1] # Extension
      <3>1. /\ socket'[Extension] = socket[Extension]
            /\ \E k \in Slots : /\ ready[<<u, k>>] = "none"
                                /\ \A conn \in Conns : conn # <<u, k>> => ready'[conn] = ready[conn]
        BY <2>1, Dialled, Connections
      <3> QED
        BY <2>1, <3>1
    <2> QED
      BY <1>0, <2>1, <2>2
  <1>2. ASSUME NEW u \in Clients, ClientClose(u)
         PROVE  ConnInv'
    <2>1. LetGo(u) /\ UNCHANGED <<subscribed, to_server>>
      BY <1>2 DEF ClientClose
    <2>2. /\ socket'[Extension] = socket[Extension]
          /\ \A conn \in Conns :
                 \/ ready'[conn] = ready[conn]
                 \/ ready[conn] = "connecting" /\ conn[1] # Extension
                 \/ ready[conn] = "open" /\ ready'[conn] = "closing" /\ conn[1] # Extension
      <3>1. Current(u)[1] = u /\ u # Extension /\ u \in Ends
        BY Connections DEF Current
      <3> QED
        BY <2>1, <3>1, Released, Connections
    <2> QED
      BY <1>0, <2>1, <2>2
  <1>3. ASSUME NEW u \in Clients, WaitForPeer(u)
         PROVE  ConnInv'
    <2>1. UNCHANGED <<socket, ready, subscribed, to_server>>
      BY <1>3 DEF WaitForPeer
    <2> QED
      BY <1>0, <2>1
  <1>4. ASSUME NEW u \in Clients, WaitTimeout(u)
         PROVE  ConnInv'
    <2>1. UNCHANGED <<socket, ready, subscribed, to_server>>
      BY <1>4 DEF WaitTimeout
    <2> QED
      BY <1>0, <2>1
  <1>5. ASSUME NEW u \in Clients, NEW k \in Slots, ClientOpens(u, k)
         PROVE  ConnInv'
    <2>1. /\ ready[<<u, k>>] = "connecting" /\ ready' = [ready EXCEPT ![<<u, k>>] = "open"]
          /\ UNCHANGED <<socket, subscribed>> /\ <<u, k>> \in Conns /\ u # Extension
      BY <1>5, Connections DEF ClientOpens
    <2>2. \A conn \in Conns : \/ ready'[conn] = ready[conn]
                             \/ /\ ready[conn] = "connecting" /\ ready'[conn] = "open"
                                /\ conn[1] # Extension
      BY <2>1
    <2>3. ASSUME NEW conn \in Conns
          PROVE  \/ to_server'[conn] = to_server[conn]
                 \/ SubThenHello(to_server'[conn]) /\ ready'[conn] \in {"open", "closing"}
      <3>1. CASE socket[u] # 0 /\ ready'[Current(u)] = "open"
        <4>1. Write(u, <<Sub, Hello>>) /\ socket[u] # 0 /\ u \in Ends
          BY <1>5, <3>1, Connections DEF ClientOpens
        <4>2. \/ to_server'[conn] = to_server[conn]
              \/ conn = Current(u) /\ SubThenHello(to_server'[conn])
          BY <4>1, WriteOpens DEF ConnInv
        <4> QED
          BY <3>1, <4>2
      <3>2. CASE ~(socket[u] # 0 /\ ready'[Current(u)] = "open")
        BY <1>5, <3>2 DEF ClientOpens
      <3> QED
        BY <3>1, <3>2
    <2> QED
      BY <1>0, <2>1, <2>2, <2>3
  <1>6. ASSUME NEW u \in Clients, NEW k \in Slots, ClientDialFails(u, k)
         PROVE  ConnInv'
    <2>1. Gone(u, k) /\ u \in Ends /\ <<u, k>> \in Conns
      BY <1>6, Connections DEF ClientDialFails
    <2>2. /\ subscribed' = subscribed \ {<<u, k>>}
          /\ ready'[<<u, k>>] = "closed"
          /\ \A conn \in Conns : conn # <<u, k>> => ready'[conn] = ready[conn]
      BY <2>1, Removed
    <2>3. /\ to_server'[<<u, k>>] = <<>>
          /\ \A conn \in Conns : conn # <<u, k>> => to_server'[conn] = to_server[conn]
      BY <2>1, GoneQueues
    <2>4. /\ \A conn \in subscribed' : ready'[conn] \in {"open", "closing"}
          /\ \A conn \in Conns : to_server'[conn] # <<>> => ready'[conn] \in {"open", "closing"}
      BY <2>2, <2>3 DEF ConnInv, TypeOK
    <2>6. \A conn \in Conns : SubThenHello(to_server'[conn])
      BY <2>3, EmptyQueue DEF ConnInv
    <2>5. socket'[Extension] = socket[Extension]
      BY <1>6, Connections DEF ClientDialFails, TypeOK
    <2>7. \A l \in Slots : ready'[<<Extension, l>>] \in {"connecting", "open"} => socket'[Extension] = l
      BY <2>1, <2>2, <2>5, Connections DEF ConnInv
    <2> QED
      BY <2>4, <2>6, <2>7 DEF ConnInv
  <1>7. ASSUME NEW u \in Clients, NEW k \in Slots, ClientLost(u, k)
         PROVE  ConnInv'
    <2>1. Gone(u, k) /\ u \in Ends /\ <<u, k>> \in Conns
      BY <1>7, Connections DEF ClientLost
    <2>2. /\ subscribed' = subscribed \ {<<u, k>>}
          /\ ready'[<<u, k>>] = "closed"
          /\ \A conn \in Conns : conn # <<u, k>> => ready'[conn] = ready[conn]
      BY <2>1, Removed
    <2>3. /\ to_server'[<<u, k>>] = <<>>
          /\ \A conn \in Conns : conn # <<u, k>> => to_server'[conn] = to_server[conn]
      BY <2>1, GoneQueues
    <2>4. /\ \A conn \in subscribed' : ready'[conn] \in {"open", "closing"}
          /\ \A conn \in Conns : to_server'[conn] # <<>> => ready'[conn] \in {"open", "closing"}
      BY <2>2, <2>3 DEF ConnInv, TypeOK
    <2>6. \A conn \in Conns : SubThenHello(to_server'[conn])
      BY <2>3, EmptyQueue DEF ConnInv
    <2>5. socket'[Extension] = socket[Extension]
      BY <1>7, Connections DEF ClientLost, TypeOK
    <2>7. \A l \in Slots : ready'[<<Extension, l>>] \in {"connecting", "open"} => socket'[Extension] = l
      BY <2>1, <2>2, <2>5, Connections DEF ConnInv
    <2> QED
      BY <2>4, <2>6, <2>7 DEF ConnInv
  <1>8. ASSUME NEW u \in Clients, NEW k \in Slots, ClientGreeted(u, k)
         PROVE  ConnInv'
    <2>1. UNCHANGED <<socket, ready, subscribed, to_server>>
      BY <1>8 DEF ClientGreeted
    <2> QED
      BY <1>0, <2>1
  <1>9. ASSUME NEW u \in Clients, NEW k \in Slots, ClientAnswered(u, k)
         PROVE  ConnInv'
    <2>1. UNCHANGED <<socket, ready, subscribed, to_server>>
      BY <1>9 DEF ClientAnswered
    <2> QED
      BY <1>0, <2>1
  <1>10. CASE ExtensionStart
    <2>1. Connect /\ UNCHANGED <<subscribed, to_server>>
      BY <1>10 DEF ExtensionStart
    <2> QED
      BY <1>a, <2>1
  <1>11. CASE ExtensionStop
    <2>1. LetGo(Extension) /\ UNCHANGED <<subscribed, to_server>>
      BY <1>11 DEF ExtensionStop
    <2>2. \A conn \in Conns :
              \/ /\ ready'[conn] = ready[conn]
                 /\ conn = Current(Extension) => ready[conn] \notin {"connecting", "open"}
              \/ ready[conn] = "connecting" /\ ready'[conn] = "aborting"
              \/ ready[conn] = "open" /\ ready'[conn] = "closing"
      BY <2>1, Released, Connections
    <2>3. \A k \in Slots : ready'[<<Extension, k>>] \notin {"connecting", "open"}
      <3>1. ASSUME NEW k \in Slots, ready'[<<Extension, k>>] \in {"connecting", "open"}
            PROVE  FALSE
        <4>1. /\ ready'[<<Extension, k>>] = ready[<<Extension, k>>]
              /\ <<Extension, k>> # Current(Extension)
          BY <2>2, <3>1, Connections
        <4>2. socket[Extension] = k
          BY <3>1, <4>1 DEF ConnInv
        <4> QED
          BY <4>1, <4>2 DEF Current
      <3> QED
        BY <3>1
    <2> QED
      BY <2>1, <2>2, <2>3 DEF ConnInv, TypeOK
  <1>12. CASE ReconnectTimer
    <2>1. Connect /\ UNCHANGED <<subscribed, to_server>>
      BY <1>12 DEF ReconnectTimer
    <2> QED
      BY <1>a, <2>1
  <1>13. ASSUME NEW k \in Slots, ExtensionOpens(k)
         PROVE  ConnInv'
    <2>1. /\ ready[<<Extension, k>>] = "connecting"
          /\ ready' = [ready EXCEPT ![<<Extension, k>>] = "open"]
          /\ UNCHANGED <<socket, subscribed>> /\ <<Extension, k>> \in Conns
          /\ Write(Extension, <<Sub, Hello>>) /\ Extension \in Ends
      BY <1>13, Connections DEF ExtensionOpens
    <2>2. ready'[<<Extension, k>>] = "open"
          /\ \A conn \in Conns : conn # <<Extension, k>> => ready'[conn] = ready[conn]
      BY <2>1 DEF TypeOK
    <2>3. socket[Extension] = k /\ socket[Extension] # 0 /\ Current(Extension) = <<Extension, k>>
      BY <2>1 DEF ConnInv, Current, Slots
    <2>4. \A conn \in Conns :
              /\ conn # <<Extension, k>> => to_server'[conn] = to_server[conn]
              /\ SubThenHello(to_server'[conn])
      BY <2>1, <2>3, WriteOpens DEF ConnInv
    <2> QED
      BY <2>1, <2>2, <2>3, <2>4 DEF ConnInv, TypeOK
  <1>14. ASSUME NEW k \in Slots, ExtensionLost(k)
         PROVE  ConnInv'
    <2>1. Gone(Extension, k) /\ Extension \in Ends /\ <<Extension, k>> \in Conns
      BY <1>14, Connections DEF ExtensionLost
    <2>2. /\ subscribed' = subscribed \ {<<Extension, k>>}
          /\ ready'[<<Extension, k>>] = "closed"
          /\ \A conn \in Conns : conn # <<Extension, k>> => ready'[conn] = ready[conn]
      BY <2>1, Removed
    <2>3. /\ to_server'[<<Extension, k>>] = <<>>
          /\ \A conn \in Conns : conn # <<Extension, k>> => to_server'[conn] = to_server[conn]
      BY <2>1, GoneQueues
    <2>4. /\ \A conn \in subscribed' : ready'[conn] \in {"open", "closing"}
          /\ \A conn \in Conns : to_server'[conn] # <<>> => ready'[conn] \in {"open", "closing"}
      BY <2>2, <2>3 DEF ConnInv, TypeOK
    <2>6. \A conn \in Conns : SubThenHello(to_server'[conn])
      BY <2>3, EmptyQueue DEF ConnInv
    <2>5. socket'[Extension] = IF socket[Extension] = k THEN 0 ELSE socket[Extension]
      <3>1. socket' = [socket EXCEPT ![Extension] = IF @ = k THEN 0 ELSE @]
        BY <1>14 DEF ExtensionLost
      <3> QED
        BY <2>1, <3>1 DEF TypeOK
    <2>7. \A l \in Slots : ready'[<<Extension, l>>] \in {"connecting", "open"} => socket'[Extension] = l
      BY <2>1, <2>2, <2>5, Connections DEF ConnInv
    <2> QED
      BY <2>4, <2>6, <2>7 DEF ConnInv
  <1>15. ASSUME NEW k \in Slots, ExtensionGreeted(k)
         PROVE  ConnInv'
    <2>1. PICK x \in Message : x = Hello /\ x # Sub /\ Extension \in Ends
      BY Messages, Connections
    <2>2. UNCHANGED <<socket, ready, subscribed>>
      BY <1>15 DEF ExtensionGreeted
    <2>3. ASSUME NEW conn \in Conns
          PROVE  \/ to_server'[conn] = to_server[conn]
                 \/ SubThenHello(to_server'[conn]) /\ ready[conn] = "open"
      <3>1. CASE IsOpen(Extension)
        <4>1. Write(Extension, <<x>>) /\ socket[Extension] # 0 /\ ready[Current(Extension)] = "open"
          BY <1>15, <2>1, <3>1 DEF ExtensionGreeted, Publish, IsOpen
        <4>2. \/ to_server'[conn] = to_server[conn]
              \/ conn = Current(Extension) /\ SubThenHello(to_server'[conn])
          BY <2>1, <4>1, WriteOne DEF ConnInv
        <4> QED
          BY <4>1, <4>2
      <3>2. CASE ~IsOpen(Extension)
        BY <1>15, <3>2 DEF ExtensionGreeted, Publish
      <3> QED
        BY <3>1, <3>2
    <2> QED
      BY <1>0, <2>2, <2>3
  <1>16. ASSUME NEW k \in Slots, ExtensionCalled(k)
         PROVE  ConnInv'
    <2>1. UNCHANGED <<socket, ready, subscribed, to_server>>
      BY <1>16 DEF ExtensionCalled
    <2> QED
      BY <1>0, <2>1
  <1>17. ASSUME NEW c \in Calls, NEW kind \in {"result", "error"},
                Respond(c, kind)
         PROVE  ConnInv'
    <2>1. PICK x \in Message : /\ x = Response(ClientOf[c], id_of[c], kind)
                               /\ x # Sub /\ Extension \in Ends
      <3>1. id_of[c] \in Ids
        BY <1>17, IdRange DEF Respond, RequestInv
      <3> QED
        BY <3>1, Messages, Connections
    <2>2. UNCHANGED <<socket, ready, subscribed>>
      BY <1>17 DEF Respond
    <2>3. ASSUME NEW conn \in Conns
          PROVE  \/ to_server'[conn] = to_server[conn]
                 \/ SubThenHello(to_server'[conn]) /\ ready[conn] = "open"
      <3>1. CASE IsOpen(Extension)
        <4>1. Write(Extension, <<x>>) /\ socket[Extension] # 0 /\ ready[Current(Extension)] = "open"
          BY <1>17, <2>1, <3>1 DEF Respond, Publish, IsOpen
        <4>2. \/ to_server'[conn] = to_server[conn]
              \/ conn = Current(Extension) /\ SubThenHello(to_server'[conn])
          BY <2>1, <4>1, WriteOne DEF ConnInv
        <4> QED
          BY <4>1, <4>2
      <3>2. CASE ~IsOpen(Extension)
        BY <1>17, <3>2 DEF Respond, Publish
      <3> QED
        BY <3>1, <3>2
    <2> QED
      BY <1>0, <2>2, <2>3
  <1>18. ASSUME NEW c \in Calls, Send(c)
         PROVE  ConnInv'
    <2> DEFINE u == ClientOf[c]
    <2>1. PICK x \in Message : x = Request(c, next_id[u]) /\ x # Sub /\ u \in Ends
      <3>1. id_of[c] = 0
        BY <1>18 DEF Send, IdInv
      <3> QED
        BY <3>1, IdRange, Messages, Connections
    <2>2. UNCHANGED <<socket, ready, subscribed>>
      BY <1>18 DEF Send
    <2>3. ASSUME NEW conn \in Conns
          PROVE  \/ to_server'[conn] = to_server[conn]
                 \/ SubThenHello(to_server'[conn]) /\ ready[conn] = "open"
      <3>1. CASE IsOpen(u)
        <4>1. Write(u, <<x>>) /\ socket[u] # 0 /\ ready[Current(u)] = "open"
          BY <1>18, <2>1, <3>1 DEF Send, Publish, IsOpen
        <4>2. \/ to_server'[conn] = to_server[conn]
              \/ conn = Current(u) /\ SubThenHello(to_server'[conn])
          BY <2>1, <4>1, WriteOne DEF ConnInv
        <4> QED
          BY <4>1, <4>2
      <3>2. CASE ~IsOpen(u)
        BY <1>18, <3>2 DEF Send, Publish
      <3> QED
        BY <3>1, <3>2
    <2> QED
      BY <1>0, <2>2, <2>3
  <1>19. ASSUME NEW c \in Calls, RequestTimeout(c)
         PROVE  ConnInv'
    <2>1. UNCHANGED <<socket, ready, subscribed, to_server>>
      BY <1>19 DEF RequestTimeout
    <2> QED
      BY <1>0, <2>1
  <1>20. ASSUME NEW e \in Ends, NEW k \in Slots, ServerHandles(e, k)
         PROVE  ConnInv'
    <2>1. /\ UNCHANGED <<socket, ready>> /\ <<e, k>> \in Conns
          /\ to_server[<<e, k>>] # <<>>
      BY <1>20, Connections DEF ServerHandles
    <2>2. PICK m \in Message : Handled(e, k, m)
      BY <1>20, HandleQueues
    <2>3. ready[<<e, k>>] \in {"open", "closing"}
      BY <2>1 DEF ConnInv
    <2>4. \A conn \in subscribed' : ready[conn] \in {"open", "closing"}
      BY <2>2, <2>3 DEF Handled, ConnInv
    <2>5. \A conn \in Conns : SubThenHello(to_server'[conn])
      BY <2>2 DEF Handled, ConnInv
    <2>6. \A conn \in Conns : conn # <<e, k>> => to_server'[conn] = to_server[conn]
      BY <2>2 DEF Handled
    <2> QED
      BY <2>1, <2>3, <2>4, <2>5, <2>6 DEF ConnInv
  <1>21. CASE UNCHANGED vars
    <2>1. UNCHANGED <<socket, ready, subscribed, to_server>>
      BY <1>21 DEF vars
    <2> QED
      BY <1>0, <2>1
  <1>22. ASSUME NEW u \in Clients, Client(u)
         PROVE  ConnInv'
    BY <1>1, <1>2, <1>3, <1>4, <1>5, <1>6, <1>7, <1>8, <1>9, <1>22 DEF Client
  <1>23. CASE TheExtension
    BY <1>10, <1>11, <1>12, <1>13, <1>14, <1>15, <1>16, <1>17, <1>23 DEF TheExtension
  <1>24. ASSUME NEW e \in Ends, NEW k \in Slots, ServerCloses(e, k)
         PROVE  ConnInv'
    <2>1. UNCHANGED <<socket, subscribed, to_server>>
      BY <1>24 DEF ServerCloses
    <2>2. /\ \A conn \in Conns : ready[conn] \in {"open", "closing"} => ready'[conn] \in {"open", "closing"}
          /\ \A conn \in Conns : ready'[conn] \in {"connecting", "open"} => ready'[conn] = ready[conn]
      BY <1>24, ServerClosed
    <2>0. ConnInv /\ subscribed \subseteq Conns /\ \A l \in Slots : <<Extension, l>> \in Conns
      BY Connections DEF TypeOK
    <2> HIDE DEF IInv
    <2>3. \A l \in Slots :
              ready'[<<Extension, l>>] \in {"connecting", "open"} => socket'[Extension] = l
      BY <2>0, <2>1, <2>2 DEF ConnInv
    <2>4. \A conn \in subscribed' : ready'[conn] \in {"open", "closing"}
      BY <2>0, <2>1, <2>2 DEF ConnInv
    <2>5. \A conn \in Conns : to_server'[conn] # <<>> => ready'[conn] \in {"open", "closing"}
      BY <2>0, <2>1, <2>2 DEF ConnInv
    <2>6. \A conn \in Conns : SubThenHello(to_server'[conn])
      BY <2>0, <2>1 DEF ConnInv
    <2> QED
      BY <2>3, <2>4, <2>5, <2>6 DEF ConnInv
  <1> QED
    BY <1>18, <1>19, <1>20, <1>21, <1>22, <1>23, <1>24 DEF Next

\* A connection that comes to be closed has no waiting call left.
LEMMA ClosingEndsCalls ==
    IInv /\ [Next]_vars =>
        \A conn \in Conns : ready'[conn] = "closed" =>
            \/ ready[conn] = "closed"
            \/ \A c \in Calls : phase'[c] = "pending" => conn # <<ClientOf[c], sent_on[c]>>
  <1> DEFINE Ended(conn) == \A c \in Calls : phase'[c] = "pending" => conn # <<ClientOf[c], sent_on[c]>>
             Goal == \A conn \in Conns :
                         ready'[conn] = "closed" => ready[conn] = "closed" \/ Ended(conn)
  <1> SUFFICES ASSUME IInv, [Next]_vars PROVE Goal
    OBVIOUS
  <1> USE DEF IInv, connVars, peerVars, callVars, extVars
  <1>0. ASSUME \A conn \in Conns : \/ ready'[conn] = "closed" => ready[conn] = "closed"
                                   \/ Ended(conn)
        PROVE  Goal
    BY <1>0
  <1> HIDE DEF Goal
  <1>1. ASSUME NEW u \in Clients, ClientConnect(u)
         PROVE  Goal
    <2>1. Dial(u) /\ u \in Ends
      BY <1>1, Connections DEF ClientConnect
    <2>2. \A conn \in Conns : ready'[conn] = ready[conn] \/ ready'[conn] = "connecting"
      BY <2>1, Dialled
    <2> QED
      BY <1>0, <2>2
  <1>2. ASSUME NEW u \in Clients, ClientClose(u)
         PROVE  Goal
    <2>1. LetGo(u) /\ u \in Ends
      BY <1>2, Connections DEF ClientClose
    <2>2. \A conn \in Conns : ready'[conn] = "closed" => ready[conn] = "closed"
      BY <2>1, Released
    <2> QED
      BY <1>0, <2>2
  <1>3. ASSUME NEW u \in Clients, WaitForPeer(u)
         PROVE  Goal
    <2>1. UNCHANGED ready
      BY <1>3 DEF WaitForPeer
    <2> QED
      BY <1>0, <2>1
  <1>4. ASSUME NEW u \in Clients, WaitTimeout(u)
         PROVE  Goal
    <2>1. UNCHANGED ready
      BY <1>4 DEF WaitTimeout
    <2> QED
      BY <1>0, <2>1
  <1>5. ASSUME NEW u \in Clients, NEW k \in Slots, ClientOpens(u, k)
         PROVE  Goal
    <2>1. ready' = [ready EXCEPT ![<<u, k>>] = "open"]
      BY <1>5 DEF ClientOpens
    <2>2. \A conn \in Conns : ready'[conn] = "closed" => ready[conn] = "closed"
      BY <2>1 DEF TypeOK
    <2> QED
      BY <1>0, <2>2
  <1>6. ASSUME NEW u \in Clients, NEW k \in Slots, ClientDialFails(u, k)
         PROVE  Goal
    <2>1. Gone(u, k) /\ EmitClose(u) /\ u \in Ends
      BY <1>6, Connections DEF ClientDialFails
    <2>2. \A conn \in Conns : conn # <<u, k>> => ready'[conn] = ready[conn]
      BY <2>1, Removed
    <2>3. \A c \in Calls : phase'[c] = "pending" => ClientOf[c] # u
      BY <2>1, CallsEnded
    <2>4. \A c \in Calls : phase'[c] = "pending" => <<ClientOf[c], sent_on[c]>> # <<u, k>>
      BY <2>3
    <2> QED
      BY <1>0, <2>2, <2>4
  <1>7. ASSUME NEW u \in Clients, NEW k \in Slots, ClientLost(u, k)
         PROVE  Goal
    <2>1. Gone(u, k) /\ EmitClose(u) /\ u \in Ends
      BY <1>7, Connections DEF ClientLost
    <2>2. \A conn \in Conns : conn # <<u, k>> => ready'[conn] = ready[conn]
      BY <2>1, Removed
    <2>3. \A c \in Calls : phase'[c] = "pending" => ClientOf[c] # u
      BY <2>1, CallsEnded
    <2>4. \A c \in Calls : phase'[c] = "pending" => <<ClientOf[c], sent_on[c]>> # <<u, k>>
      BY <2>3
    <2> QED
      BY <1>0, <2>2, <2>4
  <1>8. ASSUME NEW u \in Clients, NEW k \in Slots, ClientGreeted(u, k)
         PROVE  Goal
    <2>1. UNCHANGED ready
      BY <1>8 DEF ClientGreeted
    <2> QED
      BY <1>0, <2>1
  <1>9. ASSUME NEW u \in Clients, NEW k \in Slots, ClientAnswered(u, k)
         PROVE  Goal
    <2>1. UNCHANGED ready
      BY <1>9 DEF ClientAnswered
    <2> QED
      BY <1>0, <2>1
  <1>10. CASE ExtensionStart
    <2>1. Connect /\ Extension \in Ends
      BY <1>10, Connections DEF ExtensionStart
    <2>2. \A conn \in Conns : ready'[conn] = ready[conn] \/ ready'[conn] = "connecting"
      BY <2>1, Connected, Dialled
    <2> QED
      BY <1>0, <2>2
  <1>11. CASE ExtensionStop
    <2>1. LetGo(Extension) /\ Extension \in Ends
      BY <1>11, Connections DEF ExtensionStop
    <2>2. \A conn \in Conns : ready'[conn] = "closed" => ready[conn] = "closed"
      BY <2>1, Released
    <2> QED
      BY <1>0, <2>2
  <1>12. CASE ReconnectTimer
    <2>1. Connect /\ Extension \in Ends
      BY <1>12, Connections DEF ReconnectTimer
    <2>2. \A conn \in Conns : ready'[conn] = ready[conn] \/ ready'[conn] = "connecting"
      BY <2>1, Connected, Dialled
    <2> QED
      BY <1>0, <2>2
  <1>13. ASSUME NEW k \in Slots, ExtensionOpens(k)
         PROVE  Goal
    <2>1. ready' = [ready EXCEPT ![<<Extension, k>>] = "open"]
      BY <1>13 DEF ExtensionOpens
    <2>2. \A conn \in Conns : ready'[conn] = "closed" => ready[conn] = "closed"
      BY <2>1 DEF TypeOK
    <2> QED
      BY <1>0, <2>2
  <1>14. ASSUME NEW k \in Slots, ExtensionLost(k)
         PROVE  Goal
    <2>1. Gone(Extension, k) /\ Extension \in Ends
      BY <1>14, Connections DEF ExtensionLost
    <2>2. \A conn \in Conns : conn # <<Extension, k>> => ready'[conn] = ready[conn]
      BY <2>1, Removed
    <2>3. \A c \in Calls : ClientOf[c] # Extension
      OBVIOUS
    <2>4. \A c \in Calls : <<ClientOf[c], sent_on[c]>> # <<Extension, k>>
      BY <2>3
    <2> QED
      BY <1>0, <2>2, <2>4
  <1>15. ASSUME NEW k \in Slots, ExtensionGreeted(k)
         PROVE  Goal
    <2>1. UNCHANGED ready
      BY <1>15 DEF ExtensionGreeted
    <2> QED
      BY <1>0, <2>1
  <1>16. ASSUME NEW k \in Slots, ExtensionCalled(k)
         PROVE  Goal
    <2>1. UNCHANGED ready
      BY <1>16 DEF ExtensionCalled
    <2> QED
      BY <1>0, <2>1
  <1>17. ASSUME NEW c \in Calls, NEW kind \in {"result", "error"},
                Respond(c, kind)
         PROVE  Goal
    <2>1. UNCHANGED ready
      BY <1>17 DEF Respond
    <2> QED
      BY <1>0, <2>1
  <1>18. ASSUME NEW c \in Calls, Send(c)
         PROVE  Goal
    <2>1. UNCHANGED ready
      BY <1>18 DEF Send
    <2> QED
      BY <1>0, <2>1
  <1>19. ASSUME NEW c \in Calls, RequestTimeout(c)
         PROVE  Goal
    <2>1. UNCHANGED ready
      BY <1>19 DEF RequestTimeout
    <2> QED
      BY <1>0, <2>1
  <1>20. ASSUME NEW e \in Ends, NEW k \in Slots, ServerHandles(e, k)
         PROVE  Goal
    <2>1. UNCHANGED ready
      BY <1>20 DEF ServerHandles
    <2> QED
      BY <1>0, <2>1
  <1>21. CASE UNCHANGED vars
    <2>1. UNCHANGED ready
      BY <1>21 DEF vars
    <2> QED
      BY <1>0, <2>1
  <1>22. ASSUME NEW u \in Clients, Client(u)
         PROVE  Goal
    BY <1>1, <1>2, <1>3, <1>4, <1>5, <1>6, <1>7, <1>8, <1>9, <1>22 DEF Client
  <1>23. CASE TheExtension
    BY <1>10, <1>11, <1>12, <1>13, <1>14, <1>15, <1>16, <1>17, <1>23 DEF TheExtension
  <1>24. ASSUME NEW e \in Ends, NEW k \in Slots, ServerCloses(e, k)
         PROVE  Goal
    <2>1. \A conn \in Conns : ready'[conn] = "closed" => ready[conn] = "closed"
      BY <1>24, ServerClosed
    <2> QED
      BY <1>0, <2>1
  <1> QED
    BY <1>18, <1>19, <1>20, <1>21, <1>22, <1>23, <1>24 DEF Next

\* No call waits on a connection that is gone.
LEMMA DeadStep == IInv /\ [Next]_vars => DeadInv'
  <1> SUFFICES ASSUME IInv, [Next]_vars PROVE DeadInv'
    OBVIOUS
  <1> USE DEF IInv
  <1>0. ASSUME UNCHANGED sent_on, \A c \in Calls : phase'[c] = "pending" => phase[c] = "pending"
        PROVE  DeadInv'
    <2>1. ASSUME NEW c \in Calls, phase'[c] = "pending"
          PROVE  sent_on[c] # 0 /\ ready'[<<ClientOf[c], sent_on[c]>>] # "closed"
      <3>1. sent_on[c] # 0 /\ ready[<<ClientOf[c], sent_on[c]>>] # "closed"
        BY <1>0, <2>1 DEF DeadInv
      <3>2. <<ClientOf[c], sent_on[c]>> \in Conns
        <4>1. sent_on[c] \in Slots /\ ClientOf[c] \in Ends
          BY <3>1, Connections DEF TypeOK, Slots
        <4> QED
          BY <4>1, Connections
      <3> QED
        BY <2>1, <3>1, <3>2, ClosingEndsCalls
    <2> QED
      BY <1>0, <2>1 DEF DeadInv
  <1>1. CASE Quiet
    BY <1>0, <1>1 DEF Quiet
  <1>2. ASSUME NEW c \in Calls, Send(c)
        PROVE  DeadInv'
    <2> DEFINE u == ClientOf[c]
    <2>1. /\ UNCHANGED <<ready, socket>>
          /\ \A d \in Calls : d # c => phase'[d] = phase[d] /\ sent_on'[d] = sent_on[d]
      BY <1>2 DEF Send, TypeOK
    <2>2. phase'[c] = "pending" => sent_on'[c] # 0 /\ ready[<<u, sent_on'[c]>>] \in {"open", "closing"}
      BY <1>2 DEF Send, Current, TypeOK
    <2>3. ASSUME NEW d \in Calls, phase'[d] = "pending"
          PROVE  sent_on'[d] # 0 /\ ready'[<<ClientOf[d], sent_on'[d]>>] # "closed"
      <3>1. CASE d = c
        BY <2>1, <2>2, <2>3, <3>1
      <3>2. CASE d # c
        BY <2>1, <2>3, <3>2 DEF DeadInv
      <3> QED
        BY <3>1, <3>2
    <2> QED
      BY <2>3 DEF DeadInv
  <1>3. ASSUME UNCHANGED callVars
        PROVE  DeadInv'
    BY <1>0, <1>3 DEF callVars
  <1>4. CASE Loud
    BY <1>2, <1>3, <1>4 DEF Loud, ExtensionCalled, Respond, ServerHandles
  <1> QED
    BY <1>1, <1>4, StepKinds

\* Once both ends of a link are subscribed, its client has seen the peer or a
\* hello is under way.
LEMMA HelloStep == IInv /\ [Next]_vars => HelloInv'
  <1> SUFFICES ASSUME IInv, [Next]_vars, NEW v \in Clients, Linked(v)'
               PROVE  Greets(v)'
    BY DEF HelloInv
  <1> USE DEF IInv, connVars, peerVars, callVars, extVars
  <1>b. /\ <<v, socket'[v]>> \in subscribed' /\ <<v, socket'[v]>> \in Conns
        /\ ready'[<<v, socket'[v]>>] = "open" /\ socket'[v] \in Slots
        /\ <<Extension, socket'[Extension]>> \in subscribed' /\ <<Extension, socket'[Extension]>> \in Conns
        /\ ready'[<<Extension, socket'[Extension]>>] = "open" /\ socket'[Extension] \in Slots
        /\ v \in Ends /\ v # Extension /\ Extension \in Ends /\ 0 \notin Slots
    <2>1. TypeOK'
      BY TypeStep
    <2>2. /\ <<v, socket'[v]>> \in subscribed' /\ ready'[<<v, socket'[v]>>] = "open"
          /\ <<Extension, socket'[Extension]>> \in subscribed'
          /\ ready'[<<Extension, socket'[Extension]>>] = "open"
      BY DEF Linked, Current
    <2>3. subscribed' \subseteq Conns
      BY <2>1 DEF TypeOK
    <2> QED
      BY <2>2, <2>3, Connections DEF Slots
  <1>0. ASSUME socket'[v] = socket[v], socket'[Extension] = socket[Extension],
               peer_seen'[v] = peer_seen[v],
               \A conn \in {Current(v), Current(Extension)} :
                   /\ conn \in subscribed' /\ ready'[conn] = "open" => conn \in subscribed /\ ready[conn] = "open"
                   /\ HelloAt(conn) => HelloAt(conn)'
        PROVE  Greets(v)'
    <2>1. Current(v)' = Current(v) /\ Current(Extension)' = Current(Extension)
      BY <1>0 DEF Current
    <2>2. Linked(v)
      BY <1>0, <1>b DEF Linked, Current
    <2>3. Greets(v)
      BY <2>2 DEF HelloInv
    <2>4. HelloAt(Current(v)) => HelloAt(Current(v))'
      BY <1>0, <2>1 DEF HelloAt
    <2>5. HelloAt(Current(Extension)) => HelloAt(Current(Extension))'
      BY <1>0, <2>1 DEF HelloAt
    <2> QED
      BY <1>0, <2>3, <2>4, <2>5 DEF Greets
  <1>1. ASSUME NEW u \in Clients, ClientConnect(u)
         PROVE  Greets(v)'
    <2>1. Dial(u) /\ u \in Ends /\ u # Extension
          /\ UNCHANGED <<subscribed, to_server, from_server, peer_seen>>
      BY <1>1, Connections DEF ClientConnect
    <2>2. PICK k \in Slots : /\ socket'[u] = k /\ ready'[<<u, k>>] = "connecting"
                             /\ \A conn \in Conns : conn # <<u, k>> => ready'[conn] = ready[conn]
      BY <2>1, Dialled
    <2>3. \A f \in Ends : f # u => socket'[f] = socket[f]
      BY <2>1, Dialled
    <2>4. u # v
      BY <1>b, <2>2
    <2> QED
      BY <1>0, <1>b, <2>1, <2>2, <2>3, <2>4, Connections DEF HelloAt, Current
  <1>2. ASSUME NEW u \in Clients, ClientClose(u)
         PROVE  Greets(v)'
    <2>1. LetGo(u) /\ u \in Ends /\ u # Extension
          /\ UNCHANGED <<subscribed, to_server, from_server>>
      BY <1>2, Connections DEF ClientClose
    <2>2. /\ socket'[u] = 0 /\ \A f \in Ends : f # u => socket'[f] = socket[f]
          /\ \A conn \in Conns : ready'[conn] = "open" => ready[conn] = "open"
      BY <2>1, Released
    <2>3. u # v
      BY <1>b, <2>2
    <2>4. peer_seen'[v] = peer_seen[v]
      BY <1>2, <2>3 DEF ClientClose, TypeOK
    <2> QED
      BY <1>0, <1>b, <2>1, <2>2, <2>3, <2>4, Connections DEF HelloAt, Current
  <1>3. ASSUME NEW u \in Clients, WaitForPeer(u)
         PROVE  Greets(v)'
    <2>1. UNCHANGED <<socket, ready, subscribed, to_server, from_server, peer_seen>>
      BY <1>3 DEF WaitForPeer
    <2> QED
      BY <1>0, <2>1 DEF HelloAt
  <1>4. ASSUME NEW u \in Clients, WaitTimeout(u)
         PROVE  Greets(v)'
    <2>1. UNCHANGED <<socket, ready, subscribed, to_server, from_server, peer_seen>>
      BY <1>4 DEF WaitTimeout
    <2> QED
      BY <1>0, <2>1 DEF HelloAt
  <1>5. ASSUME NEW u \in Clients, NEW k \in Slots, ClientOpens(u, k)
         PROVE  Greets(v)'
    <2>1. /\ ready' = [ready EXCEPT ![<<u, k>>] = "open"] /\ <<u, k>> \in Conns
          /\ UNCHANGED <<socket, subscribed, from_server, peer_seen>> /\ u \in Ends /\ u # Extension
      BY <1>5, Connections DEF ClientOpens
    <2>2. CASE u = v
      <3>1. socket[u] # 0 /\ ready'[Current(u)] = "open"
        BY <1>b, <2>1, <2>2 DEF Current, Slots
      <3>2. Write(u, <<Sub, Hello>>)
        BY <1>5, <3>1 DEF ClientOpens
      <3>3. Hello \in Elems(to_server'[Current(u)])
        BY <2>1, <3>1, <3>2, WriteOpens
      <3> QED
        BY <2>1, <2>2, <3>3 DEF Greets, HelloAt, Current
    <2>3. CASE u # v
      <3>1. \A conn \in Conns : Elems(to_server[conn]) \subseteq Elems(to_server'[conn])
        <4>1. CASE socket[u] # 0 /\ ready'[Current(u)] = "open"
          <5>1. Write(u, <<Sub, Hello>>)
            BY <1>5, <4>1 DEF ClientOpens
          <5> QED
            BY <2>1, <4>1, <5>1, WriteOpens
        <4>2. CASE ~(socket[u] # 0 /\ ready'[Current(u)] = "open")
          BY <1>5, <4>2 DEF ClientOpens
        <4> QED
          BY <4>1, <4>2
      <3>2. \A conn \in Conns : conn # <<u, k>> => ready'[conn] = ready[conn]
        BY <2>1
      <3> QED
        BY <1>0, <1>b, <2>1, <2>3, <3>1, <3>2 DEF HelloAt, Current
    <2> QED
      BY <2>2, <2>3
  <1>6. ASSUME NEW u \in Clients, NEW k \in Slots, ClientDialFails(u, k)
         PROVE  Greets(v)'
    <2>1. Gone(u, k) /\ u \in Ends /\ UNCHANGED peer_seen
      BY <1>6, Connections DEF ClientDialFails
    <2>2. /\ subscribed' = subscribed \ {<<u, k>>}
          /\ \A conn \in Conns : conn # <<u, k>> => ready'[conn] = ready[conn]
      BY <2>1, Removed
    <2>3. \A conn \in Conns : conn # <<u, k>> =>
              to_server'[conn] = to_server[conn] /\ from_server'[conn] = from_server[conn]
      BY <2>1, GoneQueues
    <2>4. \A f \in Ends : f # u => socket'[f] = socket[f]
      BY <1>6 DEF ClientDialFails, TypeOK
    <2>5. socket'[u] = 0 /\ u # Extension
      BY <1>6, Connections DEF ClientDialFails, TypeOK
    <2>6. socket'[v] = socket[v] /\ socket'[Extension] = socket[Extension]
      BY <1>b, <2>1, <2>4, <2>5, Connections
    <2>7. Current(v) # <<u, k>> /\ Current(Extension) # <<u, k>>
      BY <1>b, <2>2, <2>6 DEF Current
    <2> QED
      BY <1>0, <1>b, <2>1, <2>2, <2>3, <2>6, <2>7 DEF HelloAt, Current
  <1>7. ASSUME NEW u \in Clients, NEW k \in Slots, ClientLost(u, k)
         PROVE  Greets(v)'
    <2>1. Gone(u, k) /\ u \in Ends /\ UNCHANGED peer_seen
      BY <1>7, Connections DEF ClientLost
    <2>2. /\ subscribed' = subscribed \ {<<u, k>>}
          /\ \A conn \in Conns : conn # <<u, k>> => ready'[conn] = ready[conn]
      BY <2>1, Removed
    <2>3. \A conn \in Conns : conn # <<u, k>> =>
              to_server'[conn] = to_server[conn] /\ from_server'[conn] = from_server[conn]
      BY <2>1, GoneQueues
    <2>4. \A f \in Ends : f # u => socket'[f] = socket[f]
      BY <1>7 DEF ClientLost, TypeOK
    <2>5. socket'[u] = 0 \/ socket'[u] = socket[u]
      <3>1. socket' = [socket EXCEPT ![u] = IF @ = k THEN 0 ELSE @]
        BY <1>7 DEF ClientLost
      <3> QED
        BY <2>1, <3>1 DEF TypeOK
    <2>6. socket'[v] = socket[v] /\ socket'[Extension] = socket[Extension]
      BY <1>b, <2>1, <2>4, <2>5, Connections
    <2>7. Current(v) # <<u, k>> /\ Current(Extension) # <<u, k>>
      BY <1>b, <2>2, <2>6 DEF Current
    <2> QED
      BY <1>0, <1>b, <2>1, <2>2, <2>3, <2>6, <2>7 DEF HelloAt, Current
  <1>8. ASSUME NEW u \in Clients, NEW k \in Slots, ClientGreeted(u, k)
         PROVE  Greets(v)'
    <2>1. /\ UNCHANGED <<socket, ready, subscribed, to_server>> /\ Receive(u, k, Hello)
          /\ u \in Ends /\ u # Extension
      BY <1>8, Connections DEF ClientGreeted
    <2>2. peer_seen' = [peer_seen EXCEPT ![u] = TRUE]
      BY <1>8 DEF ClientGreeted
    <2>3. CASE u = v
      <3>1. peer_seen'[v]
        BY <2>2, <2>3 DEF TypeOK
      <3> QED
        BY <3>1 DEF Greets
    <2>4. CASE u # v
      <3>1. peer_seen'[v] = peer_seen[v]
        BY <2>2, <2>4 DEF TypeOK
      <3>2. \A conn \in Conns : conn # <<u, k>> => from_server'[conn] = from_server[conn]
        BY <2>1, ReceiveQueues
      <3> QED
        BY <1>0, <1>b, <2>1, <2>4, <3>1, <3>2 DEF HelloAt, Current
    <2> QED
      BY <2>3, <2>4
  <1>9. ASSUME NEW u \in Clients, NEW k \in Slots, ClientAnswered(u, k)
         PROVE  Greets(v)'
    <2>1. /\ UNCHANGED <<socket, ready, subscribed, to_server, peer_seen>> /\ u \in Ends
      BY <1>9, Connections DEF ClientAnswered
    <2>2. \E m \in Message : Receive(u, k, m) /\ m # Hello
      <3>1. PICK m \in Responses : Receive(u, k, m)
        BY <1>9 DEF ClientAnswered
      <3> QED
        BY <3>1, Messages, MessageCases
    <2>3. PICK m \in Message : Receive(u, k, m) /\ m # Hello
      BY <2>2
    <2>4. \A conn \in Conns : Hello \in Elems(from_server[conn]) => Hello \in Elems(from_server'[conn])
      <3>1. Elems(from_server[<<u, k>>]) = {m} \cup Elems(from_server'[<<u, k>>])
        BY <2>1, <2>3, ReceiveQueues
      <3>2. \A conn \in Conns : conn # <<u, k>> => from_server'[conn] = from_server[conn]
        BY <2>1, <2>3, ReceiveQueues
      <3> QED
        BY <2>3, <3>1, <3>2
    <2> QED
      BY <1>0, <1>b, <2>1, <2>4 DEF HelloAt, Current
  <1>10. CASE ExtensionStart
    <2>1. Connect /\ UNCHANGED <<subscribed, to_server, from_server, peer_seen>>
      BY <1>10 DEF ExtensionStart
    <2>2. UNCHANGED <<socket, ready>>
      <3>1. SUFFICES ASSUME Dial(Extension) PROVE FALSE
        BY <2>1, Connected
      <3>2. \E k \in Slots : socket'[Extension] = k /\ ready'[<<Extension, k>>] = "connecting"
        BY <3>1, Dialled, Connections
      <3> QED
        BY <1>b, <3>2
    <2> QED
      BY <1>0, <2>1, <2>2 DEF HelloAt
  <1>11. CASE ExtensionStop
    <2>1. LetGo(Extension) /\ Extension \in Ends
      BY <1>11, Connections DEF ExtensionStop
    <2>2. socket'[Extension] = 0
      BY <2>1, Released
    <2> QED
      BY <1>b, <2>2
  <1>12. CASE ReconnectTimer
    <2>1. Connect /\ UNCHANGED <<subscribed, to_server, from_server, peer_seen>>
      BY <1>12 DEF ReconnectTimer
    <2>2. UNCHANGED <<socket, ready>>
      <3>1. SUFFICES ASSUME Dial(Extension) PROVE FALSE
        BY <2>1, Connected
      <3>2. \E k \in Slots : socket'[Extension] = k /\ ready'[<<Extension, k>>] = "connecting"
        BY <3>1, Dialled, Connections
      <3> QED
        BY <1>b, <3>2
    <2> QED
      BY <1>0, <2>1, <2>2 DEF HelloAt
  <1>13. ASSUME NEW k \in Slots, ExtensionOpens(k)
         PROVE  Greets(v)'
    <2>1. /\ ready[<<Extension, k>>] = "connecting" /\ UNCHANGED socket
          /\ Write(Extension, <<Sub, Hello>>) /\ Extension \in Ends
      BY <1>13, Connections DEF ExtensionOpens
    <2>2. socket[Extension] # 0
      BY <2>1 DEF ConnInv, Slots
    <2>3. Hello \in Elems(to_server'[Current(Extension)])
      BY <2>1, <2>2, WriteOpens
    <2> QED
      BY <2>1, <2>3 DEF Greets, HelloAt, Current
  <1>14. ASSUME NEW k \in Slots, ExtensionLost(k)
         PROVE  Greets(v)'
    <2>1. Gone(Extension, k) /\ Extension \in Ends /\ UNCHANGED peer_seen
      BY <1>14, Connections DEF ExtensionLost
    <2>2. /\ subscribed' = subscribed \ {<<Extension, k>>}
          /\ \A conn \in Conns : conn # <<Extension, k>> => ready'[conn] = ready[conn]
      BY <2>1, Removed
    <2>3. \A conn \in Conns : conn # <<Extension, k>> =>
              to_server'[conn] = to_server[conn] /\ from_server'[conn] = from_server[conn]
      BY <2>1, GoneQueues
    <2>4. \A f \in Ends : f # Extension => socket'[f] = socket[f]
      BY <1>14 DEF ExtensionLost, TypeOK
    <2>5. socket'[Extension] = 0 \/ socket'[Extension] = socket[Extension]
      <3>1. socket' = [socket EXCEPT ![Extension] = IF @ = k THEN 0 ELSE @]
        BY <1>14 DEF ExtensionLost
      <3> QED
        BY <2>1, <3>1 DEF TypeOK
    <2>6. socket'[v] = socket[v] /\ socket'[Extension] = socket[Extension]
      BY <1>b, <2>1, <2>4, <2>5, Connections
    <2>7. Current(v) # <<Extension, k>> /\ Current(Extension) # <<Extension, k>>
      BY <1>b, <2>2, <2>6 DEF Current
    <2> QED
      BY <1>0, <1>b, <2>1, <2>2, <2>3, <2>6, <2>7 DEF HelloAt, Current
  <1>15. ASSUME NEW k \in Slots, ExtensionGreeted(k)
         PROVE  Greets(v)'
    <2>1. /\ Receive(Extension, k, Hello) /\ UNCHANGED socket
          /\ Publish(Hello) /\ Extension \in Ends /\ Hello \in Message
      BY <1>15, Connections, Messages DEF ExtensionGreeted
    <2>2. ready[<<Extension, k>>] = "open"
      BY <2>1 DEF Receive
    <2>3. socket[Extension] = k /\ k # 0 /\ Current(Extension) = <<Extension, k>>
      BY <2>2 DEF ConnInv, Slots, Current
    <2>4. Write(Extension, <<Hello>>)
      BY <2>1, <2>2, <2>3 DEF Publish, IsOpen
    <2>5. Hello \in Elems(to_server'[Current(Extension)])
      BY <2>1, <2>3, <2>4, WriteOne
    <2> QED
      BY <2>1, <2>5 DEF Greets, HelloAt, Current
  <1>16. ASSUME NEW k \in Slots, ExtensionCalled(k)
         PROVE  Greets(v)'
    <2>1. /\ UNCHANGED <<socket, ready, subscribed, to_server, peer_seen>> /\ Extension \in Ends
      BY <1>16, Connections DEF ExtensionCalled
    <2>2. \E m \in Message : Receive(Extension, k, m) /\ m # Hello
      <3>1. PICK c \in Calls : Receive(Extension, k, Request(c, id_of[c]))
        BY <1>16 DEF ExtensionCalled
      <3>2. PICK m : m = Request(c, id_of[c]) /\ m # Hello
        BY Messages
      <3>3. m \in Message
        BY <2>1, <3>1, <3>2, ReceiveQueues
      <3> QED
        BY <3>1, <3>2, <3>3
    <2>3. PICK m \in Message : Receive(Extension, k, m) /\ m # Hello
      BY <2>2
    <2>4. \A conn \in Conns : Hello \in Elems(from_server[conn]) => Hello \in Elems(from_server'[conn])
      <3>1. Elems(from_server[<<Extension, k>>]) = {m} \cup Elems(from_server'[<<Extension, k>>])
        BY <2>1, <2>3, ReceiveQueues
      <3>2. \A conn \in Conns : conn # <<Extension, k>> => from_server'[conn] = from_server[conn]
        BY <2>1, <2>3, ReceiveQueues
      <3> QED
        BY <2>3, <3>1, <3>2
    <2> QED
      BY <1>0, <1>b, <2>1, <2>4 DEF HelloAt, Current
  <1>17. ASSUME NEW c \in Calls, NEW kind \in {"result", "error"},
                Respond(c, kind)
         PROVE  Greets(v)'
    <2>1. PICK x \in Message : x = Response(ClientOf[c], id_of[c], kind) /\ Extension \in Ends
      <3>1. id_of[c] \in Ids
        BY <1>17, IdRange DEF Respond, RequestInv
      <3> QED
        BY <3>1, Messages, Connections
    <2>2. UNCHANGED <<socket, ready, subscribed, from_server, peer_seen>>
      BY <1>17 DEF Respond
    <2>3. \A conn \in Conns : Elems(to_server[conn]) \subseteq Elems(to_server'[conn])
      <3>1. CASE IsOpen(Extension)
        <4>1. Write(Extension, <<x>>) /\ socket[Extension] # 0
          BY <1>17, <2>1, <3>1 DEF Respond, Publish, IsOpen
        <4> QED
          BY <2>1, <4>1, WriteOne
      <3>2. CASE ~IsOpen(Extension)
        BY <1>17, <3>2 DEF Respond, Publish
      <3> QED
        BY <3>1, <3>2
    <2> QED
      BY <1>0, <1>b, <2>2, <2>3 DEF HelloAt, Current
  <1>18. ASSUME NEW c \in Calls, Send(c)
         PROVE  Greets(v)'
    <2> DEFINE u == ClientOf[c]
    <2>1. PICK x \in Message : x = Request(c, next_id[u]) /\ u \in Ends
      <3>1. id_of[c] = 0
        BY <1>18 DEF Send, IdInv
      <3> QED
        BY <3>1, IdRange, Messages, Connections
    <2>2. UNCHANGED <<socket, ready, subscribed, from_server, peer_seen>>
      BY <1>18 DEF Send
    <2>3. \A conn \in Conns : Elems(to_server[conn]) \subseteq Elems(to_server'[conn])
      <3>1. CASE IsOpen(u)
        <4>1. Write(u, <<x>>) /\ socket[u] # 0
          BY <1>18, <2>1, <3>1 DEF Send, Publish, IsOpen
        <4> QED
          BY <2>1, <4>1, WriteOne
      <3>2. CASE ~IsOpen(u)
        BY <1>18, <3>2 DEF Send, Publish
      <3> QED
        BY <3>1, <3>2
    <2> QED
      BY <1>0, <1>b, <2>2, <2>3 DEF HelloAt, Current
  <1>19. ASSUME NEW c \in Calls, RequestTimeout(c)
         PROVE  Greets(v)'
    <2>1. UNCHANGED <<socket, ready, subscribed, to_server, from_server, peer_seen>>
      BY <1>19 DEF RequestTimeout
    <2> QED
      BY <1>0, <2>1 DEF HelloAt
  <1>20. ASSUME NEW e \in Ends, NEW k \in Slots, ServerHandles(e, k)
         PROVE  Greets(v)'
    <2>1. UNCHANGED <<socket, ready, peer_seen>> /\ <<e, k>> \in Conns /\ e \in Ends
      BY <1>20, Connections DEF ServerHandles
    <2>2. PICK m \in Message : Handled(e, k, m)
      BY <1>20, HandleQueues
    <2>3. \A conn \in Conns : Elems(from_server[conn]) \subseteq Elems(from_server'[conn])
      BY <2>2 DEF Handled
    <2>4. \A conn \in Conns : Hello \in Elems(to_server[conn]) =>
              Hello \in Elems(to_server'[conn]) \/ (conn = <<e, k>> /\ m = Hello)
      BY <2>2 DEF Handled
    <2>5. CASE m = Sub
      <3>1. subscribed' = subscribed \cup {<<e, k>>} /\ Hello \in Elems(to_server'[<<e, k>>])
        BY <2>1, <2>2, <2>5 DEF Handled, ConnInv
      <3>2. CASE <<e, k>> \in {Current(v), Current(Extension)}
        BY <2>1, <3>1, <3>2 DEF Greets, HelloAt, Current
      <3>3. CASE <<e, k>> \notin {Current(v), Current(Extension)}
        BY <1>0, <1>b, <2>1, <2>3, <2>4, <3>1, <3>3 DEF HelloAt, Current
      <3> QED
        BY <3>2, <3>3
    <2>6. CASE m = Hello
      <3>1. UNCHANGED subscribed /\ m # Sub /\ m.type = "hello"
        BY <2>2, <2>6, Messages DEF Handled
      <3>2. /\ Current(v) \in Conns /\ Current(v) \in subscribed /\ ready[Current(v)] = "open"
            /\ Current(Extension) \in Conns /\ Current(Extension) \in subscribed
            /\ ready[Current(Extension)] = "open"
            /\ Current(v)[1] = v /\ Current(Extension)[1] = Extension
        BY <1>b, <2>1, <3>1 DEF Current
      <3>3. CASE e = Extension
        <4>1. Matches(e, m, v)
          BY <3>1, <3>3 DEF Matches
        <4>2. Hello \in Elems(from_server'[Current(v)])
          BY <2>2, <2>6, <3>1, <3>2, <4>1 DEF Handled
        <4> QED
          BY <2>1, <4>2 DEF Greets, HelloAt, Current
      <3>4. CASE e # Extension
        <4>1. Matches(e, m, Extension)
          BY <3>1, <3>4 DEF Matches
        <4>2. Hello \in Elems(from_server'[Current(Extension)])
          BY <2>2, <2>6, <3>1, <3>2, <4>1 DEF Handled
        <4> QED
          BY <2>1, <4>2 DEF Greets, HelloAt, Current
      <3> QED
        BY <3>3, <3>4
    <2>7. CASE m # Sub /\ m # Hello
      <3>1. UNCHANGED subscribed
        BY <2>2, <2>7 DEF Handled
      <3> QED
        BY <1>0, <1>b, <2>1, <2>3, <2>4, <2>7, <3>1 DEF HelloAt, Current
    <2> QED
      BY <2>5, <2>6, <2>7
  <1>21. CASE UNCHANGED vars
    <2>1. UNCHANGED <<socket, ready, subscribed, to_server, from_server, peer_seen>>
      BY <1>21 DEF vars
    <2> QED
      BY <1>0, <2>1 DEF HelloAt
  <1>22. ASSUME NEW u \in Clients, Client(u)
         PROVE  Greets(v)'
    BY <1>1, <1>2, <1>3, <1>4, <1>5, <1>6, <1>7, <1>8, <1>9, <1>22 DEF Client
  <1>23. CASE TheExtension
    BY <1>10, <1>11, <1>12, <1>13, <1>14, <1>15, <1>16, <1>17, <1>23 DEF TheExtension
  <1>24. ASSUME NEW e \in Ends, NEW k \in Slots, ServerCloses(e, k)
         PROVE  Greets(v)'
    <2>1. UNCHANGED <<socket, subscribed, to_server, from_server, peer_seen>>
      BY <1>24 DEF ServerCloses
    <2>2. \A conn \in Conns : ready'[conn] = "open" => ready[conn] = "open"
      BY <1>24, ServerClosed
    <2>3. /\ Current(v) \in Conns /\ ready[Current(v)] = "open"
          /\ Current(Extension) \in Conns /\ ready[Current(Extension)] = "open"
      BY <1>b, <2>1, <2>2 DEF Current
    <2> QED
      BY <1>0, <2>1, <2>3 DEF HelloAt
  <1> QED
    BY <1>18, <1>19, <1>20, <1>21, <1>22, <1>23, <1>24 DEF Next

\* Every step keeps the inductive invariant.
LEMMA StepIInv == IInv /\ [Next]_vars => IInv'
  BY TypeStep, ConnStep, IdStep, DeadStep, RequestStep, AnswerStep, HelloStep DEF IInv

\* The inductive invariant holds in every behaviour.
THEOREM Invariance == Spec => []IInv
  BY InitIInv, StepIInv, PTL DEF Spec

-----------------------------------------------------------------------------
(* The properties the run checks.                                           *)

\* Every variable keeps its type; ids stay below the number of calls.
THEOREM TypeCorrect == Spec => []TypeOK
  <1>1. IInv => TypeOK
    BY DEF IInv
  <1> QED
    BY <1>1, Invariance, PTL

\* A connection that ends rejects the calls that wait on it, whichever way it
\* ends and whatever connection is current by then (emitClose).
THEOREM DeadSocketsHoldNoCall == Spec => []NoneWaitsOnDeadSocket
  <1>1. IInv => NoneWaitsOnDeadSocket
    BY DEF IInv, DeadInv, NoneWaitsOnDeadSocket
  <1> QED
    BY <1>1, Invariance, PTL

\* Whichever end connects or reconnects first, with however many other clients:
\* both ends subscribed and no hello under way means the peer was seen.
THEOREM HellosMeet == Spec => []NoHelloMissed
  <1>1. ASSUME HelloInv PROVE NoHelloMissed
    <2>1. ASSUME NEW u \in Clients,
                 {Current(u), Current(Extension)} \subseteq subscribed,
                 \A conn \in {Current(u), Current(Extension)} :
                     ready[conn] = "open" /\ ~InFlight(Hello, conn)
          PROVE  peer_seen[u]
      <3>1. Linked(u)
        BY <2>1 DEF Linked
      <3>2. Greets(u)
        BY <1>1, <3>1 DEF HelloInv
      <3>3. \A conn : HelloAt(conn) => InFlight(Hello, conn)
        BY DEF HelloAt, InFlight, Elems
      <3> QED
        BY <2>1, <3>2, <3>3 DEF Greets
    <2> QED
      BY <2>1 DEF NoHelloMissed
  <1>2. IInv => NoHelloMissed
    BY <1>1 DEF IInv
  <1> QED
    BY <1>2, Invariance, PTL

-----------------------------------------------------------------------------
(* The bridge implements CommandOutcomes: every step is a stutter, or       *)
(* issues, answers, resolves or rejects calls as CommandOutcomes allows.    *)

\* A step in which no caller sees a change is a stutter of CommandOutcomes.
LEMMA StutterMaps ==
    ASSUME UNCHANGED reply, \A c \in Calls : Outcome(c)' = Outcome(c)
    PROVE  UNCHANGED Outcomes!vars
  BY DEF Outcomes!vars

\* A step that rejects the calls of S and changes no other maps to Reject(S).
LEMMA RejectMaps ==
    ASSUME NEW S \in SUBSET Calls, UNCHANGED reply,
           \A c \in S : phase[c] \in {"idle", "pending"} /\ phase'[c] = "rejected",
           \A c \in Calls \ S : Outcome(c)' = Outcome(c)
    PROVE  Outcomes!Next
  <1>1. \A c \in S : Outcome(c) \notin Outcomes!Settled /\ Outcome(c)' = "rejected"
    BY DEF Outcome, Outcomes!Settled
  <1>2. Outcomes!Reject(S)
    BY <1>1 DEF Outcomes!Reject
  <1> QED
    BY <1>2 DEF Outcomes!Next

\* The end of a connection rejects the waiting calls of its client.
LEMMA EmitCloseMaps ==
    ASSUME TypeOK, UNCHANGED reply, NEW u \in Clients, EmitClose(u)
    PROVE  Outcomes!Next
  <1> DEFINE S == {c \in CallsOf(u) : phase[c] = "pending"}
  <1>1. S \in SUBSET Calls
    BY DEF CallsOf
  <1>2. \A c \in S : phase[c] \in {"idle", "pending"} /\ phase'[c] = "rejected"
    BY DEF EmitClose, CallsOf
  <1>3. \A c \in Calls \ S : phase'[c] = phase[c]
    BY DEF EmitClose
  <1>4. \A c \in Calls \ S : Outcome(c)' = Outcome(c)
    BY <1>3 DEF Outcome
  <1> HIDE DEF S
  <1> QED
    BY <1>1, <1>2, <1>4, RejectMaps

\* Every step of the bridge is a step of CommandOutcomes or a stutter.
LEMMA StepMaps == IInv /\ [Next]_vars => [Outcomes!Next]_(Outcomes!vars)
  <1> SUFFICES ASSUME IInv, [Next]_vars PROVE [Outcomes!Next]_(Outcomes!vars)
    OBVIOUS
  <1> USE DEF IInv, connVars, peerVars, callVars, extVars
  <1>a. phase \in [Calls -> {"idle", "pending", "resolved", "rejected"}]
    BY DEF TypeOK
  <1>1. ASSUME NEW u \in Clients, ClientConnect(u)
         PROVE  [Outcomes!Next]_(Outcomes!vars)
    <2>1. UNCHANGED <<phase, reply>>
      BY <1>1 DEF ClientConnect
    <2> QED
      BY <2>1, StutterMaps DEF Outcome
  <1>2. ASSUME NEW u \in Clients, ClientClose(u)
         PROVE  [Outcomes!Next]_(Outcomes!vars)
    <2>1. UNCHANGED <<phase, reply>>
      BY <1>2 DEF ClientClose
    <2> QED
      BY <2>1, StutterMaps DEF Outcome
  <1>3. ASSUME NEW u \in Clients, WaitForPeer(u)
         PROVE  [Outcomes!Next]_(Outcomes!vars)
    <2>1. UNCHANGED <<phase, reply>>
      BY <1>3 DEF WaitForPeer
    <2> QED
      BY <2>1, StutterMaps DEF Outcome
  <1>4. ASSUME NEW u \in Clients, WaitTimeout(u)
         PROVE  [Outcomes!Next]_(Outcomes!vars)
    <2>1. UNCHANGED <<phase, reply>>
      BY <1>4 DEF WaitTimeout
    <2> QED
      BY <2>1, StutterMaps DEF Outcome
  <1>5. ASSUME NEW u \in Clients, NEW k \in Slots, ClientOpens(u, k)
         PROVE  [Outcomes!Next]_(Outcomes!vars)
    <2>1. UNCHANGED <<phase, reply>>
      BY <1>5 DEF ClientOpens
    <2> QED
      BY <2>1, StutterMaps DEF Outcome
  <1>6. ASSUME NEW u \in Clients, NEW k \in Slots, ClientDialFails(u, k)
         PROVE  [Outcomes!Next]_(Outcomes!vars)
    <2>1. UNCHANGED reply /\ EmitClose(u)
      BY <1>6 DEF ClientDialFails
    <2> QED
      BY <2>1, EmitCloseMaps
  <1>7. ASSUME NEW u \in Clients, NEW k \in Slots, ClientLost(u, k)
         PROVE  [Outcomes!Next]_(Outcomes!vars)
    <2>1. UNCHANGED reply /\ EmitClose(u)
      BY <1>7 DEF ClientLost
    <2> QED
      BY <2>1, EmitCloseMaps
  <1>8. ASSUME NEW u \in Clients, NEW k \in Slots, ClientGreeted(u, k)
         PROVE  [Outcomes!Next]_(Outcomes!vars)
    <2>1. UNCHANGED <<phase, reply>>
      BY <1>8 DEF ClientGreeted
    <2> QED
      BY <2>1, StutterMaps DEF Outcome
  <1>9. ASSUME NEW u \in Clients, NEW k \in Slots, ClientAnswered(u, k)
         PROVE  [Outcomes!Next]_(Outcomes!vars)
    <2>1. UNCHANGED reply
      BY <1>9 DEF ClientAnswered
    <2>2. PICK m \in Responses :
              /\ Receive(u, k, m)
              /\ phase' = [c \in Calls |->
                     IF c \in CallsOf(u) /\ phase[c] = "pending" /\ id_of[c] = m.id
                     THEN IF m.kind = "error" THEN "rejected" ELSE "resolved"
                     ELSE phase[c]]
      BY <1>9 DEF ClientAnswered
    <2>3. /\ m \in Elems(from_server[<<u, k>>]) /\ <<u, k>> \in Conns
          /\ m.type = "response" /\ m.kind \in {"result", "error"}
      <3>1. m \in Elems(from_server[<<u, k>>]) /\ <<u, k>> \in Conns /\ m \in Message
        <4>1. Receive(u, k, m) /\ u \in Ends
          BY <2>2, Connections
        <4>2. Elems(from_server[<<u, k>>]) = {m} \cup Elems(from_server'[<<u, k>>])
          BY <4>1, ReceiveQueues
        <4>3. <<u, k>> \in Conns /\ m \in Message
          BY <4>1, ReceiveQueues
        <4> QED
          BY <4>2, <4>3
      <3> QED
        BY <3>1, MessageCases
    <2>4. PICK c \in Calls : ClientOf[c] = u /\ id_of[c] = m.id /\ reply[c] = m.kind
      BY <2>3 DEF AnswerInv, IsAnswer
    <2>5. id_of[c] # 0
      BY <2>3, <2>4 DEF AnswerInv
    <2>6. \A d \in Calls : d # c => phase'[d] = phase[d]
      BY <2>2, <2>4, <2>5 DEF IdInv, CallsOf
    <2>7. \A d \in Calls \ {c} : Outcome(d)' = Outcome(d)
      BY <2>6 DEF Outcome
    <2>8. CASE phase[c] # "pending"
      <3>1. phase'[c] = phase[c]
        BY <2>2, <2>8
      <3> QED
        BY <2>1, <2>6, <3>1, StutterMaps DEF Outcome
    <2>9. CASE phase[c] = "pending" /\ m.kind = "error"
      <3>1. {c} \in SUBSET Calls /\ phase[c] \in {"idle", "pending"} /\ phase'[c] = "rejected"
        BY <2>2, <2>4, <2>9 DEF CallsOf
      <3> QED
        BY <2>1, <2>7, <3>1, RejectMaps
    <2>10. CASE phase[c] = "pending" /\ m.kind = "result"
      <3>1. phase'[c] = "resolved"
        BY <2>2, <2>4, <2>10 DEF CallsOf
      <3>2. Outcome(c) = "waiting" /\ Outcome(c)' = "resolved"
        BY <2>10, <3>1 DEF Outcome
      <3>3. [d \in Calls |-> Outcome(d)]' = [[d \in Calls |-> Outcome(d)] EXCEPT ![c] = "resolved"]
        BY <2>7, <3>2
      <3>4. Outcomes!Resolve(c)
        BY <2>1, <2>4, <2>10, <3>2, <3>3 DEF Outcomes!Resolve
      <3> QED
        BY <3>4 DEF Outcomes!Next
    <2> QED
      BY <2>3, <2>8, <2>9, <2>10
  <1>10. CASE ExtensionStart
    <2>1. UNCHANGED <<phase, reply>>
      BY <1>10 DEF ExtensionStart
    <2> QED
      BY <2>1, StutterMaps DEF Outcome
  <1>11. CASE ExtensionStop
    <2>1. UNCHANGED <<phase, reply>>
      BY <1>11 DEF ExtensionStop
    <2> QED
      BY <2>1, StutterMaps DEF Outcome
  <1>12. CASE ReconnectTimer
    <2>1. UNCHANGED <<phase, reply>>
      BY <1>12 DEF ReconnectTimer
    <2> QED
      BY <2>1, StutterMaps DEF Outcome
  <1>13. ASSUME NEW k \in Slots, ExtensionOpens(k)
         PROVE  [Outcomes!Next]_(Outcomes!vars)
    <2>1. UNCHANGED <<phase, reply>>
      BY <1>13 DEF ExtensionOpens
    <2> QED
      BY <2>1, StutterMaps DEF Outcome
  <1>14. ASSUME NEW k \in Slots, ExtensionLost(k)
         PROVE  [Outcomes!Next]_(Outcomes!vars)
    <2>1. UNCHANGED <<phase, reply>>
      BY <1>14 DEF ExtensionLost
    <2> QED
      BY <2>1, StutterMaps DEF Outcome
  <1>15. ASSUME NEW k \in Slots, ExtensionGreeted(k)
         PROVE  [Outcomes!Next]_(Outcomes!vars)
    <2>1. UNCHANGED <<phase, reply>>
      BY <1>15 DEF ExtensionGreeted
    <2> QED
      BY <2>1, StutterMaps DEF Outcome
  <1>16. ASSUME NEW k \in Slots, ExtensionCalled(k)
         PROVE  [Outcomes!Next]_(Outcomes!vars)
    <2>1. UNCHANGED <<phase, reply>>
      BY <1>16 DEF ExtensionCalled
    <2> QED
      BY <2>1, StutterMaps DEF Outcome
  <1>17. ASSUME NEW c \in Calls, NEW kind \in {"result", "error"},
                Respond(c, kind)
         PROVE  [Outcomes!Next]_(Outcomes!vars)
    <2>1. /\ c \in handling /\ reply' = [reply EXCEPT ![c] = kind] /\ UNCHANGED phase
      BY <1>17 DEF Respond
    <2>2. reply[c] = "none" /\ phase[c] # "idle"
      BY <2>1 DEF RequestInv, IdInv
    <2>3. Outcome(c) # "unsent"
      BY <1>a, <2>2 DEF Outcome
    <2>4. UNCHANGED [d \in Calls |-> Outcome(d)]
      BY <2>1 DEF Outcome
    <2>5. Outcomes!Answer(c, kind)
      BY <2>1, <2>2, <2>3, <2>4 DEF Outcomes!Answer
    <2> QED
      BY <2>5 DEF Outcomes!Next
  <1>18. ASSUME NEW c \in Calls, Send(c)
         PROVE  [Outcomes!Next]_(Outcomes!vars)
    <2>1. /\ phase[c] = "idle" /\ UNCHANGED reply
          /\ \/ phase' = [phase EXCEPT ![c] = "pending"]
             \/ phase' = [phase EXCEPT ![c] = "rejected"]
      BY <1>18 DEF Send
    <2>2. \A d \in Calls \ {c} : Outcome(d)' = Outcome(d)
      BY <1>a, <2>1 DEF Outcome
    <2>3. CASE phase' = [phase EXCEPT ![c] = "pending"]
      <3>1. Outcome(c) = "unsent" /\ Outcome(c)' = "waiting"
        BY <1>a, <2>1, <2>3 DEF Outcome
      <3>2. Outcomes!Issue(c)
        BY <2>1, <2>2, <3>1 DEF Outcomes!Issue
      <3> QED
        BY <3>2 DEF Outcomes!Next
    <2>4. CASE phase' = [phase EXCEPT ![c] = "rejected"]
      <3>1. {c} \in SUBSET Calls /\ phase[c] \in {"idle", "pending"} /\ phase'[c] = "rejected"
        BY <1>a, <2>1, <2>4
      <3> QED
        BY <2>1, <2>2, <3>1, RejectMaps
    <2> QED
      BY <2>1, <2>3, <2>4
  <1>19. ASSUME NEW c \in Calls, RequestTimeout(c)
         PROVE  [Outcomes!Next]_(Outcomes!vars)
    <2>1. phase[c] = "pending" /\ phase' = [phase EXCEPT ![c] = "rejected"] /\ UNCHANGED reply
      BY <1>19 DEF RequestTimeout
    <2>2. {c} \in SUBSET Calls /\ phase[c] \in {"idle", "pending"} /\ phase'[c] = "rejected"
      BY <1>a, <2>1
    <2>3. \A d \in Calls \ {c} : Outcome(d)' = Outcome(d)
      BY <1>a, <2>1 DEF Outcome
    <2> QED
      BY <2>1, <2>2, <2>3, RejectMaps
  <1>20. ASSUME NEW e \in Ends, NEW k \in Slots, ServerHandles(e, k)
         PROVE  [Outcomes!Next]_(Outcomes!vars)
    <2>1. UNCHANGED <<phase, reply>>
      BY <1>20 DEF ServerHandles
    <2> QED
      BY <2>1, StutterMaps DEF Outcome
  <1>21. CASE UNCHANGED vars
    <2>1. UNCHANGED <<phase, reply>>
      BY <1>21 DEF vars
    <2> QED
      BY <2>1, StutterMaps DEF Outcome
  <1>22. ASSUME NEW u \in Clients, Client(u)
         PROVE  [Outcomes!Next]_(Outcomes!vars)
    BY <1>1, <1>2, <1>3, <1>4, <1>5, <1>6, <1>7, <1>8, <1>9, <1>22 DEF Client
  <1>23. CASE TheExtension
    BY <1>10, <1>11, <1>12, <1>13, <1>14, <1>15, <1>16, <1>17, <1>23 DEF TheExtension
  <1>24. ASSUME NEW e \in Ends, NEW k \in Slots, ServerCloses(e, k)
         PROVE  [Outcomes!Next]_(Outcomes!vars)
    <2>1. UNCHANGED <<phase, reply>>
      BY <1>24 DEF ServerCloses
    <2> QED
      BY <2>1, StutterMaps DEF Outcome
  <1> QED
    BY <1>18, <1>19, <1>20, <1>21, <1>22, <1>23, <1>24 DEF Next

\* Every client keeps the promise of UpstreamTransport.send although clients
\* number their commands alike: each promise settles at most once, and resolves
\* only with the extension's result for its own command.
THEOREM Refinement == Spec => KeepsPromises
  <1>1. ASSUME Init
        PROVE  Outcomes!Init
    <2>1. \A c \in Calls : Outcome(c) = "unsent"
      BY <1>1 DEF Init, CallsInit, Outcome
    <2> QED
      BY <1>1, <2>1 DEF Init, Outcomes!Init
  <1>2. IInv /\ [Next]_vars => [Outcomes!Next]_(Outcomes!vars)
    BY StepMaps
  <1> QED
    BY <1>1, <1>2, Invariance, PTL DEF Spec, KeepsPromises, Outcomes!Spec
-----------------------------------------------------------------------------
(* As long as no connection is lost, no call is forgotten.                  *)

\* Every end has one connection, its current one; messages go to subscribed
\* connections; an open connection of the extension that is not subscribed
\* yet has its subscription first in line.
ConnsFlow ==
    NothingLost =>
        /\ \A conn \in Conns : ready[conn] # "none" => conn = Current(conn[1])
        /\ \A conn \in Conns : Elems(from_server[conn]) # {} => conn \in subscribed
        /\ \A conn \in Conns :
               conn[1] = Extension /\ ready[conn] = "open" /\ conn \notin subscribed =>
                   to_server[conn] # <<>> /\ Head(to_server[conn]) = Sub

\* A client hears a hello only when both ends are subscribed.
HellosFlow ==
    NothingLost =>
        /\ \A conn \in Conns :
               conn[1] \in Clients /\ Hello \in Elems(from_server[conn]) =>
                   Current(Extension) \in subscribed
        /\ \A u \in Clients : peer_seen[u] => {Current(u), Current(Extension)} \subseteq subscribed
        /\ \A c \in Calls : greeted[c] => peer_seen[ClientOf[c]]

\* The command of c, or its answer, is in some queue, or the handler has it.
OnWire(m) == \E conn \in Conns : m \in Elems(to_server[conn]) \cup Elems(from_server[conn])
UnderWay(c) ==
    \/ c \in handling
    \/ OnWire(Request(c, id_of[c]))
    \/ \E kind \in {"result", "error"} : OnWire(Response(ClientOf[c], id_of[c], kind))

CallsFlow ==
    NothingLost => \A c \in Calls : phase[c] = "pending" /\ greeted[c] => UnderWay(c)

FlowInv == ConnsFlow /\ HellosFlow /\ CallsFlow

\* The steps that open and close connections, by what they do to them.
flowVars == <<peer_seen, callVars, reply, handling>>
Dials(e) ==
    /\ Dial(e)
    /\ socket[e] = 0 \/ ready[Current(e)] \notin {"connecting", "open"}
    /\ UNCHANGED <<subscribed, to_server, from_server, flowVars>>
Releases(e) ==
    /\ LetGo(e)
    /\ UNCHANGED <<subscribed, to_server, from_server, callVars, reply, handling>>
    /\ \A u \in Clients : u # e => peer_seen'[u] = peer_seen[u]
    /\ e \in Clients => ~peer_seen'[e]
Opens(e, k) ==
    /\ ready[<<e, k>>] = "connecting"
    /\ ready' = [ready EXCEPT ![<<e, k>>] = "open"]
    /\ \/ socket[e] # 0 /\ Write(e, <<Sub, Hello>>)
       \/ e # Extension /\ UNCHANGED to_server
    /\ UNCHANGED <<socket, subscribed, from_server, flowVars>>
Idles == UNCHANGED <<connVars, flowVars>>

\* Every step is one of these.
LEMMA FlowKinds ==
    IInv /\ [Next]_vars =>
        \/ Idles
        \/ \E e \in Ends : Dials(e) \/ Releases(e)
        \/ \E e \in Ends, k \in Slots : Opens(e, k) \/ Gone(e, k) \/ ServerCloses(e, k) \/ ServerHandles(e, k)
        \/ \E u \in Clients, k \in Slots : ClientGreeted(u, k) \/ ClientAnswered(u, k)
        \/ \E k \in Slots : ExtensionGreeted(k) \/ ExtensionCalled(k)
        \/ \E c \in Calls : Send(c) \/ RequestTimeout(c)
        \/ \E c \in Calls, kind \in {"result", "error"} : Respond(c, kind)
  <1> DEFINE Kinds ==
        \/ Idles
        \/ \E e \in Ends : Dials(e) \/ Releases(e)
        \/ \E e \in Ends, k \in Slots : Opens(e, k) \/ Gone(e, k) \/ ServerCloses(e, k) \/ ServerHandles(e, k)
        \/ \E u \in Clients, k \in Slots : ClientGreeted(u, k) \/ ClientAnswered(u, k)
        \/ \E k \in Slots : ExtensionGreeted(k) \/ ExtensionCalled(k)
        \/ \E c \in Calls : Send(c) \/ RequestTimeout(c)
        \/ \E c \in Calls, kind \in {"result", "error"} : Respond(c, kind)
  <1> SUFFICES ASSUME IInv, [Next]_vars PROVE Kinds
    OBVIOUS
  <1> USE Connections DEF flowVars
  <1>1. ASSUME NEW u \in Clients, ClientConnect(u)
        PROVE  Dials(u)
    BY <1>1 DEF ClientConnect, Dials, peerVars, extVars
  <1>2. ASSUME NEW u \in Clients, ClientClose(u)
        PROVE  Releases(u)
    <2>1. peer_seen' = [peer_seen EXCEPT ![u] = FALSE] /\ peer_seen \in [Clients -> BOOLEAN]
      BY <1>2 DEF ClientClose, IInv, TypeOK
    <2>2. ~peer_seen'[u] /\ \A v \in Clients : v # u => peer_seen'[v] = peer_seen[v]
      BY <2>1, Zenon
    <2>3. /\ LetGo(u)
          /\ UNCHANGED <<subscribed, to_server, from_server, callVars, reply, handling>>
      BY <1>2 DEF ClientClose, extVars
    <2> QED
      BY <2>2, <2>3 DEF Releases
  <1>3. ASSUME NEW u \in Clients, WaitForPeer(u) \/ WaitTimeout(u)
        PROVE  Idles
    BY <1>3 DEF WaitForPeer, WaitTimeout, Idles, extVars
  <1>4. ASSUME NEW u \in Clients, NEW k \in Slots, ClientOpens(u, k)
        PROVE  Opens(u, k)
    BY <1>4 DEF ClientOpens, Opens, peerVars, extVars
  <1>5. ASSUME NEW u \in Clients, NEW k \in Slots, ClientDialFails(u, k) \/ ClientLost(u, k)
        PROVE  Gone(u, k)
    BY <1>5 DEF ClientDialFails, ClientLost
  <1>6. ASSUME Connect, UNCHANGED <<subscribed, to_server, from_server, flowVars>>
        PROVE  Idles \/ Dials(Extension)
    BY <1>6, Connected DEF IInv, Idles, Dials, connVars
  <1>7. CASE ExtensionStart \/ ReconnectTimer
    BY <1>6, <1>7 DEF ExtensionStart, ReconnectTimer, peerVars
  <1>8. CASE ExtensionStop
    <2>1. /\ LetGo(Extension)
          /\ UNCHANGED <<subscribed, to_server, from_server, callVars, reply, handling, peer_seen>>
      BY <1>8 DEF ExtensionStop, peerVars
    <2>2. Releases(Extension)
      BY <2>1 DEF Releases
    <2> QED
      BY <2>2
  <1>9. ASSUME NEW k \in Slots, ExtensionOpens(k)
        PROVE  Opens(Extension, k)
    <2>1. socket[Extension] # 0
      BY <1>9 DEF ExtensionOpens, IInv, ConnInv, Slots
    <2> QED
      BY <1>9, <2>1 DEF ExtensionOpens, Opens, peerVars, extVars
  <1>10. ASSUME NEW k \in Slots, ExtensionLost(k)
         PROVE  Gone(Extension, k)
    BY <1>10 DEF ExtensionLost
  <1>11. CASE UNCHANGED vars
    BY <1>11 DEF vars, Idles, peerVars, extVars
  <1>12. ASSUME NEW u \in Clients, Client(u)
         PROVE  Kinds
    BY <1>1, <1>2, <1>3, <1>4, <1>5, <1>12 DEF Client
  <1>13. CASE TheExtension
    BY <1>7, <1>8, <1>9, <1>10, <1>13 DEF TheExtension
  <1> QED
    BY <1>11, <1>12, <1>13 DEF Next

\* A connection that is lost stays lost.
LEMMA LossIsForever == IInv /\ [Next]_vars /\ NothingLost' => NothingLost
  <1> SUFFICES ASSUME IInv, [Next]_vars, NothingLost',
                      NEW conn \in Conns, ready[conn] \notin {"none", "connecting", "open"}
               PROVE  FALSE
    BY DEF NothingLost
  <1> USE DEF IInv
  <1>0. ready[conn] \in {"aborting", "closing", "closed"}
    BY DEF TypeOK, ReadyStates
  <1>1. ready'[conn] \in {"none", "connecting", "open"}
    BY DEF NothingLost
  <1>2. CASE UNCHANGED ready
    BY <1>1, <1>2
  <1>3. ASSUME NEW e \in Ends, Dials(e) PROVE FALSE
    BY <1>0, <1>1, <1>3, Dialled DEF Dials
  <1>4. ASSUME NEW e \in Ends, Releases(e) PROVE FALSE
    BY <1>0, <1>1, <1>4, Released DEF Releases
  <1>5. ASSUME NEW e \in Ends, NEW k \in Slots, Opens(e, k) PROVE FALSE
    BY <1>0, <1>1, <1>5 DEF Opens, TypeOK
  <1>6. ASSUME NEW e \in Ends, NEW k \in Slots, Gone(e, k) PROVE FALSE
    BY <1>0, <1>1, <1>6, Removed
  <1>7. ASSUME NEW e \in Ends, NEW k \in Slots, ServerCloses(e, k) PROVE FALSE
    BY <1>0, <1>1, <1>7, ServerClosed
  <1> QED
    BY <1>2, <1>3, <1>4, <1>5, <1>6, <1>7, FlowKinds
       DEF Idles, connVars, ServerHandles, ClientGreeted, ClientAnswered, ExtensionGreeted,
           ExtensionCalled, Send, RequestTimeout, Respond

\* With nothing lost an end that dials or lets go has no connection at all, and
\* an end that opens one opens its only one; nothing is ever gone.
LEMMA CalmConns ==
    ASSUME IInv, ConnsFlow, NothingLost, NothingLost', NEW e \in Ends
    PROVE  /\ Dials(e) =>
                 /\ \A k \in Slots : ready[<<e, k>>] = "none"
                 /\ \A f \in Ends : f # e => socket'[f] = socket[f]
                 /\ \A conn \in Conns : ready'[conn] = ready[conn] \/ conn = <<e, socket'[e]>>
                 /\ \A conn \in Conns : ready'[conn] \in {ready[conn], "connecting"}
           /\ Releases(e) =>
                 /\ \A k \in Slots : ready[<<e, k>>] = "none"
                 /\ \A f \in Ends : f # e => socket'[f] = socket[f]
                 /\ \A conn \in Conns : ready'[conn] = ready[conn]
           /\ \A k \in Slots : Opens(e, k) =>
                 /\ Current(e) = <<e, k>> /\ socket[e] # 0
                 /\ to_server[<<e, k>>] = <<>>
                 /\ \A conn \in Conns : conn # <<e, k>> => ready'[conn] = ready[conn]
                 /\ ready'[<<e, k>>] = "open"
           /\ \A k \in Slots : ~Gone(e, k) /\ ~ServerCloses(e, k)
  <1> USE DEF IInv
  <1>1. \A k \in Slots : <<e, k>> \in Conns /\ (ready[<<e, k>>] # "none" => socket[e] = k)
    BY Connections DEF ConnsFlow, Current
  <1>2. \A conn \in Conns : ready[conn] \in {"none", "connecting", "open"}
    BY DEF NothingLost
  <1>3. ASSUME Dials(e)
        PROVE  /\ \A k \in Slots : ready[<<e, k>>] = "none"
               /\ \A f \in Ends : f # e => socket'[f] = socket[f]
               /\ \A conn \in Conns : ready'[conn] = ready[conn] \/ conn = <<e, socket'[e]>>
               /\ \A conn \in Conns : ready'[conn] \in {ready[conn], "connecting"}
    <2>1. \A k \in Slots : ready[<<e, k>>] = "none"
      BY <1>1, <1>2, <1>3 DEF Dials, Current, Slots
    <2> QED
      <3>1. TypeOK /\ Dial(e)
        BY <1>3 DEF Dials, IInv
      <3>2. PICK k \in Slots :
                /\ socket'[e] = k
                /\ ready'[<<e, k>>] = "connecting"
                /\ \A conn \in Conns : conn # <<e, k>> => ready'[conn] = ready[conn]
        BY <3>1, Dialled
      <3>3. \A f \in Ends : f # e => socket'[f] = socket[f]
        BY <3>1, Dialled
      <3> QED
        BY <2>1, <3>2, <3>3
  <1>4. ASSUME Releases(e)
        PROVE  /\ \A k \in Slots : ready[<<e, k>>] = "none"
               /\ \A f \in Ends : f # e => socket'[f] = socket[f]
               /\ \A conn \in Conns : ready'[conn] = ready[conn]
    <2>1. \A conn \in Conns :
              ready'[conn] = ready[conn] /\ (conn = Current(e) => ready[conn] \notin {"connecting", "open"})
      BY <1>4, Released DEF Releases, NothingLost
    <2>2. \A k \in Slots : ready[<<e, k>>] = "none"
      BY <1>1, <1>2, <2>1 DEF Current
    <2> QED
      BY <1>4, <2>1, <2>2, Released DEF Releases
  <1>5. ASSUME NEW k \in Slots, Opens(e, k)
        PROVE  /\ Current(e) = <<e, k>> /\ socket[e] # 0
               /\ to_server[<<e, k>>] = <<>>
               /\ \A conn \in Conns : conn # <<e, k>> => ready'[conn] = ready[conn]
               /\ ready'[<<e, k>>] = "open"
    <2>1. socket[e] = k
      BY <1>1, <1>5 DEF Opens
    <2>2. to_server[<<e, k>>] = <<>>
      BY <1>1, <1>5 DEF Opens, ConnInv
    <2>3. /\ \A conn \in Conns : conn # <<e, k>> => ready'[conn] = ready[conn]
          /\ ready'[<<e, k>>] = "open"
      BY <1>1, <1>5 DEF Opens, TypeOK
    <2> QED
      BY <2>1, <2>2, <2>3 DEF Current, Slots
  <1>6. ASSUME NEW k \in Slots, Gone(e, k) PROVE FALSE
    BY <1>1, <1>6, Removed DEF NothingLost
  <1>7. ASSUME NEW k \in Slots, ServerCloses(e, k) PROVE FALSE
    BY <1>1, <1>7, ServerClosed DEF NothingLost
  <1> QED
    BY <1>3, <1>4, <1>5, <1>6, <1>7

\* With nothing lost no subscription ends and no subscribed end changes its
\* connection.
LEMMA SubscribedStay ==
    ASSUME IInv, ConnsFlow, [Next]_vars, NothingLost, NothingLost'
    PROVE  /\ subscribed \subseteq subscribed'
           /\ \A e \in Ends : Current(e) \in subscribed => Current(e)' = Current(e)
           /\ \A conn \in subscribed : conn \in Conns /\ ready[conn] = "open" /\ conn = Current(conn[1])
  <1> USE DEF IInv
  <1>0. \A conn \in subscribed : conn \in Conns /\ ready[conn] = "open" /\ conn = Current(conn[1])
    BY DEF ConnInv, NothingLost, ConnsFlow, TypeOK
  <1>1. CASE UNCHANGED <<socket, subscribed>>
    BY <1>0, <1>1 DEF Current
  <1>2. ASSUME NEW e \in Ends, Dials(e) \/ Releases(e)
        PROVE  /\ subscribed \subseteq subscribed'
               /\ \A f \in Ends : Current(f) \in subscribed => Current(f)' = Current(f)
    <2>1. UNCHANGED subscribed
      BY <1>2 DEF Dials, Releases
    <2>2. /\ \A k \in Slots : ready[<<e, k>>] = "none"
          /\ \A f \in Ends : f # e => socket'[f] = socket[f]
      BY <1>2, CalmConns
    <2>3. Current(e) \notin subscribed
      BY <1>0, <2>2, Connections DEF Current
    <2> QED
      BY <2>1, <2>2, <2>3 DEF Current
  <1>3. ASSUME NEW e \in Ends, NEW k \in Slots, Opens(e, k)
        PROVE  UNCHANGED <<socket, subscribed>>
    BY <1>3 DEF Opens
  <1>4. ASSUME NEW e \in Ends, NEW k \in Slots, ServerHandles(e, k)
        PROVE  /\ subscribed \subseteq subscribed'
               /\ UNCHANGED socket
    <2>1. PICK m \in Message : Handled(e, k, m)
      BY <1>4, HandleQueues
    <2> QED
      BY <1>4, <2>1 DEF ServerHandles, Handled
  <1>5. \A e \in Ends, k \in Slots : ~Gone(e, k) /\ ~ServerCloses(e, k)
    BY CalmConns
  <1>6. CASE \E e \in Ends, k \in Slots : ServerHandles(e, k)
    BY <1>0, <1>4, <1>6 DEF Current
  <1> QED
    BY <1>0, <1>1, <1>2, <1>3, <1>5, <1>6, FlowKinds
       DEF Idles, connVars, ClientGreeted, ClientAnswered, ExtensionGreeted,
           ExtensionCalled, Send, RequestTimeout, Respond

\* Writing to a connection keeps what is first in its line.
LEMMA WriteKeepsHead ==
    ASSUME TypeOK, NEW e \in Ends, socket[e] # 0, NEW ms \in Seq(Message), Write(e, ms)
    PROVE  /\ \A conn \in Conns :
                 to_server[conn] # <<>> =>
                     to_server'[conn] # <<>> /\ Head(to_server'[conn]) = Head(to_server[conn])
           /\ to_server[Current(e)] = <<>> => to_server'[Current(e)] = ms
           /\ \A conn \in Conns : conn # Current(e) => to_server'[conn] = to_server[conn]
  <1> DEFINE q == to_server[Current(e)]
  <1>1. Current(e) \in Conns
    BY Connections
  <1>2. q \in Seq(Message)
    BY <1>1 DEF TypeOK
  <1>3. /\ to_server'[Current(e)] = q \o ms
        /\ \A conn \in Conns : conn # Current(e) => to_server'[conn] = to_server[conn]
    BY <1>1 DEF Write, TypeOK
  <1>4. q = <<>> => q \o ms = ms
    OBVIOUS
  <1>5. q # <<>> => q \o ms # <<>> /\ Head(q \o ms) = Head(q)
    BY <1>2
  <1> QED
    BY <1>3, <1>4, <1>5

\* The connections keep their rules while nothing is lost.
LEMMA ConnsFlowStep == IInv /\ ConnsFlow /\ [Next]_vars => ConnsFlow'
  <1> SUFFICES ASSUME IInv, ConnsFlow, [Next]_vars, NothingLost'
               PROVE  /\ \A conn \in Conns : ready'[conn] # "none" => conn = Current(conn[1])'
                      /\ \A conn \in Conns : Elems(from_server'[conn]) # {} => conn \in subscribed'
                      /\ \A conn \in Conns :
                             conn[1] = Extension /\ ready'[conn] = "open" /\ conn \notin subscribed' =>
                                 to_server'[conn] # <<>> /\ Head(to_server'[conn]) = Sub
    BY DEF ConnsFlow
  <1>0. NothingLost
    BY LossIsForever
  <1> DEFINE Own == \A conn \in Conns : ready'[conn] # "none" => conn = Current(conn[1])'
             Full == \A conn \in Conns : Elems(from_server'[conn]) # {} => conn \in subscribed'
             First == \A conn \in Conns :
                        conn[1] = Extension /\ ready'[conn] = "open" /\ conn \notin subscribed' =>
                            to_server'[conn] # <<>> /\ Head(to_server'[conn]) = Sub
  <1>a. /\ subscribed \subseteq subscribed'
        /\ \A e \in Ends, k \in Slots : ~Gone(e, k) /\ ~ServerCloses(e, k)
        /\ TypeOK
    BY <1>0, SubscribedStay, CalmConns DEF IInv
  <1>b. ASSUME UNCHANGED <<socket, ready>> PROVE Own
    BY <1>0, <1>b DEF ConnsFlow, Current
  <1>c. ASSUME \A conn \in Conns : Elems(from_server'[conn]) \subseteq Elems(from_server[conn])
        PROVE  Full
    BY <1>0, <1>a, <1>c DEF ConnsFlow
  <1>d. ASSUME UNCHANGED ready,
               \A conn \in Conns : to_server[conn] # <<>> =>
                   to_server'[conn] # <<>> /\ Head(to_server'[conn]) = Head(to_server[conn])
        PROVE  First
    BY <1>0, <1>a, <1>d DEF ConnsFlow
  <1>e. ASSUME NEW e \in Ends, NEW k \in Slots, NEW m, Receive(e, k, m) PROVE Full
    BY <1>a, <1>c, <1>e, ReceiveQueues
  <1>1. CASE Idles
    BY <1>1, <1>b, <1>c, <1>d DEF Idles, connVars
  <1>2. ASSUME NEW e \in Ends, Dials(e) PROVE Own /\ Full /\ First
    <2>1. /\ \A k \in Slots : ready[<<e, k>>] = "none"
          /\ \A f \in Ends : f # e => socket'[f] = socket[f]
          /\ \A conn \in Conns : ready'[conn] = ready[conn] \/ conn = <<e, socket'[e]>>
          /\ \A conn \in Conns : ready'[conn] \in {ready[conn], "connecting"}
      BY <1>0, <1>2, CalmConns
    <2>2. Own
      BY <1>0, <2>1, Connections DEF ConnsFlow, Current
    <2>3. UNCHANGED <<subscribed, to_server, from_server>>
      BY <1>2 DEF Dials
    <2>4. Full
      BY <1>c, <2>3
    <2>5. First
      BY <1>0, <2>1, <2>3 DEF ConnsFlow
    <2> QED
      BY <2>2, <2>4, <2>5
  <1>3. ASSUME NEW e \in Ends, Releases(e) PROVE Own /\ Full /\ First
    <2>1. /\ \A k \in Slots : ready[<<e, k>>] = "none"
          /\ \A f \in Ends : f # e => socket'[f] = socket[f]
          /\ \A conn \in Conns : ready'[conn] = ready[conn]
      BY <1>0, <1>3, CalmConns
    <2>2. Own
      BY <1>0, <2>1, Connections DEF ConnsFlow, Current
    <2>3. UNCHANGED <<subscribed, to_server, from_server>>
      BY <1>3 DEF Releases
    <2>4. Full
      BY <1>c, <2>3
    <2>5. First
      BY <1>0, <2>1, <2>3 DEF ConnsFlow
    <2> QED
      BY <2>2, <2>4, <2>5
  <1>4. ASSUME NEW e \in Ends, NEW k \in Slots, Opens(e, k) PROVE Own /\ Full /\ First
    <2>1. /\ Current(e) = <<e, k>> /\ socket[e] # 0 /\ <<e, k>> \in Conns
          /\ to_server[<<e, k>>] = <<>>
          /\ \A conn \in Conns : conn # <<e, k>> => ready'[conn] = ready[conn]
          /\ ready[<<e, k>>] = "connecting"
      <3>1. Opens(e, k) /\ <<e, k>> \in Conns /\ ready[<<e, k>>] = "connecting"
        BY <1>4, Connections DEF Opens
      <3> QED
        BY <1>0, <3>1, CalmConns
    <2>2. UNCHANGED <<socket, subscribed, from_server>>
      BY <1>4 DEF Opens
    <2>3. Own
      BY <1>0, <2>1, <2>2 DEF ConnsFlow, Current
    <2>4. Full
      BY <1>c, <2>2
    <2>5. First
      <3>1. <<Sub, Hello>> \in Seq(Message) /\ <<Sub, Hello>> # <<>> /\ Head(<<Sub, Hello>>) = Sub
        BY Messages
      <3>2. CASE Write(e, <<Sub, Hello>>)
        <4>1. /\ to_server'[<<e, k>>] = <<Sub, Hello>>
              /\ \A conn \in Conns : conn # <<e, k>> => to_server'[conn] = to_server[conn]
          BY <1>a, <2>1, <3>1, <3>2, WriteKeepsHead
        <4> QED
          BY <1>0, <2>1, <2>2, <3>1, <4>1 DEF ConnsFlow
      <3>3. CASE e # Extension /\ UNCHANGED to_server
        BY <1>0, <2>1, <2>2, <3>3 DEF ConnsFlow
      <3> QED
        BY <1>4, <3>2, <3>3 DEF Opens
    <2> QED
      BY <2>3, <2>4, <2>5
  <1>5. ASSUME NEW u \in Clients, NEW k \in Slots, ClientGreeted(u, k) \/ ClientAnswered(u, k)
        PROVE  Own /\ Full /\ First
    <2>1. UNCHANGED <<socket, ready, to_server>> /\ \E m : Receive(u, k, m)
      BY <1>5 DEF ClientGreeted, ClientAnswered
    <2> QED
      BY <1>b, <1>d, <1>e, <2>1, Connections
  <1>6. ASSUME NEW k \in Slots, ExtensionCalled(k) PROVE Own /\ Full /\ First
    <2>1. UNCHANGED <<socket, ready, to_server>> /\ \E m : Receive(Extension, k, m)
      BY <1>6 DEF ExtensionCalled
    <2> QED
      BY <1>b, <1>d, <1>e, <2>1, Connections
  <1>f. ASSUME NEW m \in Message, Publish(m), UNCHANGED ready PROVE First
    <2>1. CASE IsOpen(Extension)
      <3>1. socket[Extension] # 0 /\ Write(Extension, <<m>>) /\ <<m>> \in Seq(Message)
        BY <1>f, <2>1 DEF Publish, IsOpen
      <3>2. \A conn \in Conns : to_server[conn] # <<>> =>
                to_server'[conn] # <<>> /\ Head(to_server'[conn]) = Head(to_server[conn])
        BY <1>a, <3>1, WriteKeepsHead, Connections
      <3> QED
        BY <1>d, <1>f, <3>2
    <2>2. CASE ~IsOpen(Extension)
      BY <1>d, <1>f, <2>2 DEF Publish
    <2> QED
      BY <2>1, <2>2
  <1>7. ASSUME NEW k \in Slots, ExtensionGreeted(k) PROVE Own /\ Full /\ First
    <2>1. UNCHANGED <<socket, ready>> /\ Receive(Extension, k, Hello) /\ Publish(Hello)
      BY <1>7 DEF ExtensionGreeted
    <2>2. Full
      BY <1>e, <2>1, Connections
    <2>3. First
      BY <1>f, <2>1, Messages
    <2> QED
      BY <1>b, <2>1, <2>2, <2>3
  <1>8. ASSUME NEW c \in Calls, NEW kind \in {"result", "error"}, Respond(c, kind)
        PROVE  Own /\ Full /\ First
    <2>1. PICK x \in Message : x = Response(ClientOf[c], id_of[c], kind)
      <3>1. id_of[c] \in Ids
        BY <1>8, IdRange DEF Respond, RequestInv, IInv
      <3> QED
        BY <3>1, Messages
    <2>2. UNCHANGED <<socket, ready, from_server>> /\ Publish(x)
      BY <1>8, <2>1 DEF Respond
    <2>3. First
      BY <1>f, <2>2
    <2> QED
      BY <1>b, <1>c, <2>2, <2>3
  <1>9. ASSUME NEW c \in Calls, Send(c) PROVE Own /\ Full /\ First
    <2> DEFINE u == ClientOf[c]
    <2>1. PICK x \in Message : x = Request(c, next_id[u]) /\ u \in Ends
      <3>1. id_of[c] = 0
        BY <1>9 DEF Send, IdInv, IInv
      <3> QED
        BY <1>a, <3>1, IdRange, Messages, Connections DEF IInv
    <2>2. UNCHANGED <<socket, ready, from_server>>
      BY <1>9 DEF Send
    <2>3. First
      <3>1. CASE IsOpen(u)
        <4>1. socket[u] # 0 /\ Write(u, <<x>>) /\ <<x>> \in Seq(Message)
          BY <1>9, <2>1, <3>1 DEF Send, IsOpen
        <4>2. \A conn \in Conns : to_server[conn] # <<>> =>
                  to_server'[conn] # <<>> /\ Head(to_server'[conn]) = Head(to_server[conn])
          BY <1>a, <2>1, <4>1, WriteKeepsHead
        <4> QED
          BY <1>d, <2>2, <4>2
      <3>2. CASE ~IsOpen(u)
        BY <1>9, <1>d, <2>2, <3>2 DEF Send
      <3> QED
        BY <3>1, <3>2
    <2> QED
      BY <1>b, <1>c, <2>2, <2>3
  <1>10. ASSUME NEW c \in Calls, RequestTimeout(c) PROVE Own /\ Full /\ First
    BY <1>10, <1>b, <1>c, <1>d DEF RequestTimeout, connVars
  <1>11. ASSUME NEW e \in Ends, NEW k \in Slots, ServerHandles(e, k)
         PROVE  Own /\ Full /\ First
    <2>1. UNCHANGED <<socket, ready>> /\ <<e, k>> \in Conns
      BY <1>11, Connections DEF ServerHandles
    <2>2. PICK m \in Message : Handled(e, k, m)
      BY <1>11, <1>a, HandleQueues
    <2>3. Full
      BY <1>0, <1>a, <2>2 DEF Handled, ConnsFlow
    <2>4. First
      <3>1. ASSUME NEW conn \in Conns, conn[1] = Extension, ready[conn] = "open",
                   conn \notin subscribed'
            PROVE  to_server'[conn] # <<>> /\ Head(to_server'[conn]) = Sub
        <4>1. conn \notin subscribed /\ to_server[conn] # <<>> /\ Head(to_server[conn]) = Sub
          BY <1>0, <1>a, <3>1 DEF ConnsFlow
        <4>2. conn # <<e, k>>
          BY <1>11, <3>1, <4>1 DEF ServerHandles
        <4> QED
          BY <2>2, <4>1, <4>2 DEF Handled
      <3> QED
        BY <2>1, <3>1
    <2> QED
      BY <1>b, <2>1, <2>3, <2>4
  <1> HIDE DEF Own, Full, First
  <1>12. Own /\ Full /\ First
    BY <1>1, <1>b, <1>c, <1>d, <1>2, <1>3, <1>4, <1>5, <1>6, <1>7, <1>8, <1>9, <1>10, <1>11, <1>a,
       FlowKinds DEF Idles, connVars
  <1> QED
    BY <1>12 DEF Own, Full, First

\* Hellos are heard, and commands sent after them, when both ends are subscribed.
LEMMA HellosFlowStep == IInv /\ ConnsFlow /\ HellosFlow /\ [Next]_vars => HellosFlow'
  <1> SUFFICES ASSUME IInv, ConnsFlow, HellosFlow, [Next]_vars, NothingLost'
               PROVE  /\ \A conn \in Conns :
                             conn[1] \in Clients /\ Hello \in Elems(from_server'[conn]) =>
                                 Current(Extension)' \in subscribed'
                      /\ \A u \in Clients :
                             peer_seen'[u] => {Current(u)', Current(Extension)'} \subseteq subscribed'
                      /\ \A c \in Calls : greeted'[c] => peer_seen'[ClientOf[c]]
    BY DEF HellosFlow, Current
  <1>0. NothingLost
    BY LossIsForever
  <1> DEFINE Heard == \A conn \in Conns :
                        conn[1] \in Clients /\ Hello \in Elems(from_server'[conn]) =>
                            Current(Extension)' \in subscribed'
             Seen == \A u \in Clients :
                        peer_seen'[u] => {Current(u)', Current(Extension)'} \subseteq subscribed'
             Met == \A c \in Calls : greeted'[c] => peer_seen'[ClientOf[c]]
  <1>a. /\ subscribed \subseteq subscribed'
        /\ \A e \in Ends : Current(e) \in subscribed => Current(e)' \in subscribed'
        /\ \A conn \in subscribed : conn \in Conns /\ ready[conn] = "open" /\ conn = Current(conn[1])
        /\ \A e \in Ends, k \in Slots : ~Gone(e, k) /\ ~ServerCloses(e, k)
        /\ TypeOK
        /\ Extension \in Ends /\ Clients \subseteq Ends /\ \A c \in Calls : ClientOf[c] \in Clients
    BY <1>0, SubscribedStay, CalmConns, Connections DEF IInv
  <1>b. ASSUME \A conn \in Conns : Elems(from_server'[conn]) \subseteq Elems(from_server[conn])
        PROVE  Heard
    BY <1>0, <1>a, <1>b DEF HellosFlow
  <1>c. ASSUME UNCHANGED <<peer_seen, greeted>> PROVE Seen /\ Met
    BY <1>0, <1>a, <1>c DEF HellosFlow
  <1>d. ASSUME NEW e \in Ends, NEW k \in Slots, NEW m, Receive(e, k, m) PROVE Heard
    BY <1>a, <1>b, <1>d, ReceiveQueues
  <1>1. ASSUME Idles PROVE Heard /\ Seen /\ Met
    BY <1>1, <1>b, <1>c DEF Idles, connVars, flowVars, callVars
  <1>2. ASSUME NEW e \in Ends, Dials(e) PROVE Heard /\ Seen /\ Met
    BY <1>2, <1>b, <1>c DEF Dials, flowVars, callVars
  <1>3. ASSUME NEW e \in Ends, Releases(e) PROVE Heard /\ Seen /\ Met
    <2>1. /\ UNCHANGED <<from_server, greeted>>
          /\ \A u \in Clients : u # e => peer_seen'[u] = peer_seen[u]
          /\ e \in Clients => ~peer_seen'[e]
      BY <1>3 DEF Releases, callVars
    <2>2. Current(e) \notin subscribed
      BY <1>0, <1>3, <1>a, CalmConns, Connections DEF Current
    <2>3. \A u \in Clients : peer_seen[u] => u # e
      BY <1>0, <2>2 DEF HellosFlow
    <2>4. Seen
      BY <1>0, <1>a, <2>1 DEF HellosFlow
    <2>5. Met
      BY <1>0, <1>a, <2>1, <2>3 DEF HellosFlow
    <2> QED
      BY <1>b, <2>1, <2>4, <2>5
  <1>4. ASSUME NEW e \in Ends, NEW k \in Slots, Opens(e, k) PROVE Heard /\ Seen /\ Met
    BY <1>4, <1>b, <1>c DEF Opens, flowVars, callVars
  <1>5. ASSUME NEW u \in Clients, NEW k \in Slots, ClientGreeted(u, k) PROVE Heard /\ Seen /\ Met
    <2>1. /\ Receive(u, k, Hello) /\ peer_seen' = [peer_seen EXCEPT ![u] = TRUE]
          /\ UNCHANGED greeted
      BY <1>5 DEF ClientGreeted, callVars
    <2>2. Heard
      BY <1>a, <1>d, <2>1
    <2>3. /\ <<u, k>> \in Conns /\ Hello \in Elems(from_server[<<u, k>>])
      <3>1. PICK m : m = Hello /\ Receive(u, k, m)
        BY <2>1
      <3>2. TypeOK /\ u \in Ends
        BY <1>a
      <3>3. <<u, k>> \in Conns /\ m \in Elems(from_server[<<u, k>>])
        <4>1. Receive(u, k, m)
          BY <3>1
        <4> QED
          BY <3>2, <4>1, ReceivedFrom
      <3> QED
        BY <3>1, <3>3
    <2>4. Current(Extension) \in subscribed /\ <<u, k>> \in subscribed
      BY <1>0, <2>3 DEF HellosFlow, ConnsFlow
    <2>5. Current(u) \in subscribed
      BY <1>a, <2>4
    <2>6. \A v \in Clients : (v # u => peer_seen'[v] = peer_seen[v]) /\ (v = u => peer_seen'[v])
      <3>1. peer_seen \in [Clients -> BOOLEAN]
        BY <1>a DEF TypeOK
      <3> QED
        BY <2>1, <3>1, Zenon
    <2>7. Seen
      BY <1>0, <1>a, <2>4, <2>5, <2>6 DEF HellosFlow
    <2>8. Met
      BY <1>0, <1>a, <2>1, <2>6 DEF HellosFlow
    <2> QED
      BY <2>2, <2>7, <2>8
  <1>6. ASSUME NEW u \in Clients, NEW k \in Slots, ClientAnswered(u, k)
        PROVE  Heard /\ Seen /\ Met
    <2>1. UNCHANGED <<peer_seen, greeted>> /\ \E m : Receive(u, k, m)
      BY <1>6 DEF ClientAnswered, peerVars
    <2> QED
      BY <1>a, <1>c, <1>d, <2>1
  <1>7. ASSUME NEW k \in Slots, ExtensionGreeted(k) \/ ExtensionCalled(k)
        PROVE  Heard /\ Seen /\ Met
    <2>1. UNCHANGED <<peer_seen, greeted>> /\ \E m : Receive(Extension, k, m)
      BY <1>7 DEF ExtensionGreeted, ExtensionCalled, peerVars, callVars
    <2> QED
      BY <1>a, <1>c, <1>d, <2>1
  <1>8. ASSUME NEW c \in Calls, NEW kind \in {"result", "error"}, Respond(c, kind)
        PROVE  Heard /\ Seen /\ Met
    BY <1>8, <1>b, <1>c DEF Respond, peerVars, callVars
  <1>9. ASSUME NEW c \in Calls, Send(c) PROVE Heard /\ Seen /\ Met
    <2>1. UNCHANGED <<peer_seen, from_server>>
      BY <1>9 DEF Send, peerVars
    <2>2. \A d \in Calls : greeted'[d] = greeted[d] \/ (d = c /\ greeted'[d] = peer_seen[ClientOf[d]])
      <3>1. greeted' = [greeted EXCEPT ![c] = peer_seen[ClientOf[c]]] \/ greeted' = greeted
        BY <1>9 DEF Send
      <3>2. greeted \in [Calls -> BOOLEAN]
        BY <1>a DEF TypeOK
      <3>3. ASSUME NEW d \in Calls, greeted' = [greeted EXCEPT ![c] = peer_seen[ClientOf[c]]]
            PROVE  greeted'[d] = greeted[d] \/ (d = c /\ greeted'[d] = peer_seen[ClientOf[d]])
        <4>1. CASE d = c
          BY <3>2, <3>3, <4>1, Zenon
        <4>2. CASE d # c
          BY <3>2, <3>3, <4>2, Zenon
        <4> QED
          BY <4>1, <4>2
      <3> QED
        BY <3>1, <3>3
    <2>3. Met
      BY <1>0, <2>1, <2>2 DEF HellosFlow
    <2>4. Seen
      BY <1>0, <1>a, <2>1 DEF HellosFlow
    <2> QED
      BY <1>b, <2>1, <2>3, <2>4
  <1>10. ASSUME NEW c \in Calls, RequestTimeout(c) PROVE Heard /\ Seen /\ Met
    BY <1>10, <1>b, <1>c DEF RequestTimeout, connVars, peerVars
  <1>11. ASSUME NEW e \in Ends, NEW k \in Slots, ServerHandles(e, k) PROVE Heard /\ Seen /\ Met
    <2>1. UNCHANGED <<peer_seen, greeted, socket, ready>> /\ <<e, k>> \in Conns
      BY <1>11, Connections DEF ServerHandles, peerVars, callVars
    <2>2. PICK m \in Message : Handled(e, k, m)
      BY <1>11, <1>a, HandleQueues
    <2>3. ASSUME NEW conn \in Conns, conn[1] \in Clients, Hello \in Elems(from_server'[conn]),
                 Hello \notin Elems(from_server[conn])
          PROVE  Current(Extension)' \in subscribed'
      <3>1. m = Hello /\ Matches(e, m, conn[1]) /\ from_server'[conn] # from_server[conn]
        BY <2>2, <2>3 DEF Handled
      <3>2. e = Extension
        BY <2>3, <3>1, Messages DEF Matches
      <3>3. /\ <<e, k>> \in subscribed \/ Head(to_server[<<e, k>>]) = Sub
            /\ to_server[<<e, k>>] # <<>>
        BY <1>0, <1>11, <2>1, <3>2 DEF ConnsFlow, ServerHandles, ConnInv, IInv, NothingLost
      <3>4. <<e, k>> \in subscribed
        BY <1>11, <3>1, <3>3 DEF ServerHandles
      <3> QED
        BY <1>a, <3>2, <3>4
    <2>4. Heard
      <3>1. ASSUME NEW conn \in Conns, conn[1] \in Clients, Hello \in Elems(from_server[conn])
            PROVE  Current(Extension)' \in subscribed'
        BY <1>0, <1>a, <3>1 DEF HellosFlow
      <3> QED
        BY <2>3, <3>1
    <2> QED
      BY <1>c, <2>1, <2>4
  <1> HIDE DEF Heard, Seen, Met
  <1>12. Heard /\ Seen /\ Met
    BY <1>1, <1>b, <1>c, <1>2, <1>3, <1>4, <1>5, <1>6, <1>7, <1>8, <1>9, <1>10, <1>11, <1>a,
       FlowKinds
  <1> QED
    BY <1>12 DEF Heard, Seen, Met

\* The queues as UnderWay sees them.
LEMMA WireKept ==
    ASSUME NEW m, OnWire(m),
           \A conn \in Conns : m \in Elems(to_server[conn]) => m \in Elems(to_server'[conn]),
           \A conn \in Conns : m \in Elems(from_server[conn]) => m \in Elems(from_server'[conn])
    PROVE  OnWire(m)'
  BY DEF OnWire

\* A message event takes one message only.
LEMMA ReceiveKeeps ==
    ASSUME TypeOK, NEW e \in Ends, NEW k \in Slots, NEW x, Receive(e, k, x), NEW m, m # x
    PROVE  \A conn \in Conns : m \in Elems(from_server[conn]) => m \in Elems(from_server'[conn])
  <1>1. /\ Elems(from_server[<<e, k>>]) = {x} \cup Elems(from_server'[<<e, k>>])
        /\ \A conn \in Conns : conn # <<e, k>> => from_server'[conn] = from_server[conn]
    BY ReceiveQueues
  <1> QED
    BY <1>1

\* publish() and send() take nothing from the queues.
LEMMA WriteKeeps ==
    ASSUME TypeOK, NEW e \in Ends, NEW x \in Message,
           (socket[e] # 0 /\ Write(e, <<x>>)) \/ UNCHANGED to_server
    PROVE  \A conn \in Conns : Elems(to_server[conn]) \subseteq Elems(to_server'[conn])
  BY WriteOne

\* A command sent to a peer that was seen is on its way, or worked on, or its
\* answer is on its way.
LEMMA CallsFlowStep == IInv /\ FlowInv /\ [Next]_vars => CallsFlow'
  <1> SUFFICES ASSUME IInv, FlowInv, [Next]_vars, NothingLost',
                      NEW c \in Calls, phase'[c] = "pending", greeted'[c]
               PROVE  UnderWay(c)'
    BY DEF CallsFlow
  <1>0. NothingLost /\ ConnsFlow /\ HellosFlow /\ CallsFlow /\ TypeOK
    BY LossIsForever DEF FlowInv, IInv
  <1>a. /\ \A conn \in subscribed : conn \in Conns /\ ready[conn] = "open" /\ conn = Current(conn[1])
        /\ \A e \in Ends, k \in Slots : ~Gone(e, k) /\ ~ServerCloses(e, k)
        /\ Extension \in Ends /\ Clients \subseteq Ends /\ ClientOf[c] \in Clients
    BY <1>0, SubscribedStay, CalmConns, Connections
  <1>b. PICK req : req = Request(c, id_of[c])
    OBVIOUS
  <1>c. PICK ans : ans = [kind \in {"result", "error"} |-> Response(ClientOf[c], id_of[c], kind)]
    OBVIOUS
  <1> DEFINE Kinds == {"result", "error"}
             Mine(m) == m = req \/ \E kind \in Kinds : m = ans[kind]
  <1>d. /\ req.type = "command" /\ req.call = c
        /\ \A kind \in Kinds : /\ ans[kind].type = "response"
                               /\ ans[kind].reply_subject = ClientOf[c]
                               /\ ans[kind].id = id_of[c]
    BY <1>b, <1>c, Messages
  <1>e. UnderWay(c) <=> c \in handling \/ \E m : Mine(m) /\ OnWire(m)
    BY <1>b, <1>c DEF UnderWay
  <1>f. ASSUME id_of'[c] = id_of[c]
        PROVE  UnderWay(c)' <=> c \in handling' \/ \E m : Mine(m) /\ OnWire(m)'
    <2>1. req = Request(c, id_of'[c])
      BY <1>b, <1>f
    <2>2. \A kind \in Kinds : ans[kind] = Response(ClientOf[c], id_of'[c], kind)
      BY <1>c, <1>f
    <2> QED
      BY <2>1, <2>2 DEF UnderWay
  <1> HIDE DEF Mine
  <1>g. ASSUME id_of'[c] = id_of[c], phase[c] = "pending", greeted[c],
               c \in handling => c \in handling',
               \A m : Mine(m) => \A conn \in Conns :
                   /\ m \in Elems(to_server[conn]) => m \in Elems(to_server'[conn])
                   /\ m \in Elems(from_server[conn]) => m \in Elems(from_server'[conn])
        PROVE  UnderWay(c)'
    <2>1. UnderWay(c)
      BY <1>0, <1>g DEF CallsFlow
    <2>2. \A m : Mine(m) /\ OnWire(m) => OnWire(m)'
      BY <1>g, WireKept
    <2> QED
      BY <1>e, <1>f, <1>g, <2>1, <2>2
  <1>h. \A m : Mine(m) => m # Hello /\ m # Sub
    BY <1>d, Messages DEF Mine
  <1>1. ASSUME Idles PROVE UnderWay(c)'
    BY <1>1, <1>g DEF Idles, connVars, flowVars, callVars
  <1>2. ASSUME NEW e \in Ends, Dials(e) \/ Releases(e) PROVE UnderWay(c)'
    BY <1>2, <1>g DEF Dials, Releases, flowVars, callVars
  <1>3. ASSUME NEW e \in Ends, NEW k \in Slots, Opens(e, k) PROVE UnderWay(c)'
    <2>1. \A conn \in Conns : Elems(to_server[conn]) \subseteq Elems(to_server'[conn])
      BY <1>0, <1>3, WriteOpens DEF Opens
    <2> QED
      BY <1>3, <1>g, <2>1 DEF Opens, flowVars, callVars
  <1>4. ASSUME NEW u \in Clients, NEW k \in Slots, ClientGreeted(u, k) PROVE UnderWay(c)'
    <2>1. Receive(u, k, Hello) /\ UNCHANGED <<to_server, callVars, handling>>
      BY <1>4 DEF ClientGreeted, extVars
    <2>2. \A m : Mine(m) => \A conn \in Conns :
              m \in Elems(from_server[conn]) => m \in Elems(from_server'[conn])
      BY <1>0, <1>a, <1>h, <2>1, ReceiveKeeps
    <2> QED
      BY <1>g, <2>1, <2>2 DEF callVars
  <1>5. ASSUME NEW u \in Clients, NEW k \in Slots, ClientAnswered(u, k) PROVE UnderWay(c)'
    <2>1. PICK x \in Responses :
              /\ Receive(u, k, x)
              /\ phase' = [d \in Calls |->
                    IF d \in CallsOf(u) /\ phase[d] = "pending" /\ id_of[d] = x.id
                    THEN IF x.kind = "error" THEN "rejected" ELSE "resolved"
                    ELSE phase[d]]
      BY <1>5 DEF ClientAnswered
    <2>2. phase[c] = "pending" /\ ~(c \in CallsOf(u) /\ id_of[c] = x.id)
      BY <2>1
    <2>3. /\ <<u, k>> \in Conns /\ x \in Elems(from_server[<<u, k>>])
          /\ x \in Message /\ u \in Ends
      <3>1. TypeOK /\ u \in Ends /\ Receive(u, k, x)
        BY <1>0, <1>a, <2>1
      <3> QED
        BY <3>1, ReceivedFrom
    <2>4. x.type = "response"
      BY <2>1, <2>3, MessageCases
    <2>5. x.reply_subject = u
      BY <2>3, <2>4 DEF IInv, AnswerInv
    <2>6. \A m : Mine(m) => m # x
      BY <1>d, <2>2, <2>4, <2>5 DEF Mine, CallsOf
    <2>7. \A m : Mine(m) => \A conn \in Conns :
              m \in Elems(from_server[conn]) => m \in Elems(from_server'[conn])
      BY <1>0, <2>1, <2>3, <2>6, ReceiveKeeps
    <2> QED
      BY <1>5, <1>g, <2>2, <2>7 DEF ClientAnswered, extVars
  <1>6. ASSUME NEW k \in Slots, ExtensionGreeted(k) PROVE UnderWay(c)'
    <2>1. /\ Receive(Extension, k, Hello) /\ Publish(Hello)
          /\ UNCHANGED <<callVars, handling>>
      BY <1>6 DEF ExtensionGreeted, extVars
    <2>2. \A m : Mine(m) => \A conn \in Conns :
              m \in Elems(from_server[conn]) => m \in Elems(from_server'[conn])
      BY <1>0, <1>a, <1>h, <2>1, ReceiveKeeps
    <2>3. \A conn \in Conns : Elems(to_server[conn]) \subseteq Elems(to_server'[conn])
      BY <1>0, <1>a, <2>1, WriteKeeps, Messages DEF Publish, IsOpen
    <2> QED
      BY <1>g, <2>1, <2>2, <2>3 DEF callVars
  <1>7. ASSUME NEW k \in Slots, ExtensionCalled(k) PROVE UnderWay(c)'
    <2>1. PICK d \in Calls : /\ Receive(Extension, k, Request(d, id_of[d]))
                             /\ handling' = handling \cup {d}
      BY <1>7 DEF ExtensionCalled
    <2>2. PICK x : x = Request(d, id_of[d])
      OBVIOUS
    <2>3. Receive(Extension, k, x) /\ x.type = "command" /\ x.call = d
      BY <2>1, <2>2, Messages
    <2>4. UNCHANGED <<to_server, callVars>>
      BY <1>7 DEF ExtensionCalled
    <2>5. CASE d = c
      BY <1>f, <2>1, <2>4, <2>5 DEF callVars
    <2>6. CASE d # c
      <3>1. \A m : Mine(m) => m # x
        BY <1>d, <2>3, <2>6 DEF Mine
      <3>2. \A m : Mine(m) => \A conn \in Conns :
                m \in Elems(from_server[conn]) => m \in Elems(from_server'[conn])
        BY <1>0, <1>a, <2>3, <3>1, ReceiveKeeps
      <3> QED
        BY <1>g, <2>1, <2>4, <3>2 DEF callVars
    <2> QED
      BY <2>5, <2>6
  <1>8. ASSUME NEW d \in Calls, NEW kind \in Kinds, Respond(d, kind) PROVE UnderWay(c)'
    <2>1. PICK x : x = Response(ClientOf[d], id_of[d], kind)
      OBVIOUS
    <2>2. /\ Publish(x) /\ handling' = handling \ {d}
          /\ UNCHANGED <<from_server, callVars>>
      BY <1>8, <2>1 DEF Respond
    <2>3. x \in Message
      <3>1. id_of[d] \in Ids
        BY <1>8, <1>0, IdRange DEF Respond, RequestInv, IInv
      <3> QED
        BY <2>1, <3>1, Messages
    <2>4. CASE d = c
      <3>1. Current(Extension) \in subscribed
        BY <1>0, <2>2 DEF HellosFlow, callVars
      <3>2. IsOpen(Extension)
        BY <1>0, <1>a, <3>1, Connections DEF IsOpen
      <3>3. x \in Elems(to_server'[Current(Extension)])
        BY <1>0, <1>a, <2>2, <2>3, <3>2, WriteOne DEF Publish, IsOpen
      <3>4. Mine(x)
        BY <1>c, <2>1, <2>4 DEF Mine
      <3>5. OnWire(x)'
        BY <1>a, <3>1, <3>3 DEF OnWire
      <3> QED
        BY <1>f, <2>2, <3>4, <3>5 DEF callVars
    <2>5. CASE d # c
      <3>1. \A conn \in Conns : Elems(to_server[conn]) \subseteq Elems(to_server'[conn])
        BY <1>0, <1>a, <2>2, <2>3, WriteKeeps DEF Publish, IsOpen
      <3> QED
        BY <1>g, <2>2, <2>5, <3>1 DEF callVars
    <2> QED
      BY <2>4, <2>5
  <1>9. ASSUME NEW d \in Calls, Send(d) PROVE UnderWay(c)'
    <2> DEFINE u == ClientOf[d]
    <2>1. PICK x \in Message : x = Request(d, next_id[u]) /\ u \in Ends
      <3>1. id_of[d] = 0
        BY <1>9 DEF Send, IdInv, IInv
      <3> QED
        BY <1>0, <3>1, IdRange, Messages, Connections DEF IInv
    <2>2. /\ id_of' = [id_of EXCEPT ![d] = next_id[u]]
          /\ UNCHANGED <<from_server, handling>>
          /\ (socket[u] # 0 /\ Write(u, <<x>>)) \/ UNCHANGED to_server
      BY <1>9, <2>1 DEF Send, extVars, IsOpen
    <2>3. CASE d = c
      <3>0. /\ socket[u] # 0 /\ ready[Current(u)] \in {"open", "closing"}
            /\ IsOpen(u) => Write(u, <<x>>)
        BY <1>0, <1>9, <2>1, <2>3 DEF Send, TypeOK
      <3>1. IsOpen(u) /\ Write(u, <<x>>)
        BY <1>0, <2>1, <3>0, Connections DEF IsOpen, NothingLost
      <3>2. x \in Elems(to_server'[Current(u)]) /\ Current(u) \in Conns
        BY <1>0, <2>1, <3>1, WriteOne, Connections DEF IsOpen
      <3>3. id_of'[c] = next_id[u]
        BY <1>0, <2>2, <2>3 DEF TypeOK
      <3>4. x = Request(c, id_of'[c])
        BY <2>1, <2>3, <3>3
      <3> QED
        BY <3>2, <3>4 DEF UnderWay, OnWire
    <2>4. CASE d # c
      <3>1. id_of'[c] = id_of[c]
        BY <1>0, <2>2, <2>4 DEF TypeOK
      <3>2. phase[c] = "pending"
        BY <1>0, <1>9, <2>4 DEF Send, TypeOK
      <3>3. greeted[c]
        <4>1. greeted' = [greeted EXCEPT ![d] = peer_seen[ClientOf[d]]] \/ greeted' = greeted
          BY <1>9 DEF Send
        <4>2. greeted \in [Calls -> BOOLEAN]
          BY <1>0 DEF TypeOK
        <4> QED
          BY <2>4, <4>1, <4>2, Zenon
      <3>4. \A conn \in Conns : Elems(to_server[conn]) \subseteq Elems(to_server'[conn])
        BY <1>0, <2>1, <2>2, WriteKeeps
      <3> QED
        BY <1>g, <2>2, <3>1, <3>2, <3>3, <3>4
    <2> QED
      BY <2>3, <2>4
  <1>10. ASSUME NEW d \in Calls, RequestTimeout(d) PROVE UnderWay(c)'
    <2>1. /\ UNCHANGED <<to_server, from_server, id_of, greeted, handling>>
          /\ phase' = [phase EXCEPT ![d] = "rejected"]
      BY <1>10 DEF RequestTimeout, connVars, extVars
    <2>2. phase[c] = "pending"
      BY <1>0, <2>1 DEF TypeOK
    <2> QED
      BY <1>g, <2>1, <2>2
  <1>11. ASSUME NEW e \in Ends, NEW k \in Slots, ServerHandles(e, k) PROVE UnderWay(c)'
    <2>1. UNCHANGED <<callVars, handling>> /\ <<e, k>> \in Conns
      BY <1>11, Connections DEF ServerHandles, extVars
    <2>2. PICK x \in Message : Handled(e, k, x)
      BY <1>0, <1>11, HandleQueues
    <2>3. phase[c] = "pending" /\ greeted[c] /\ id_of'[c] = id_of[c]
      BY <2>1 DEF callVars
    <2>4. /\ Current(ClientOf[c]) \in subscribed /\ Current(Extension) \in subscribed
          /\ Current(ClientOf[c])[1] = ClientOf[c] /\ Current(Extension)[1] = Extension
      BY <1>0, <1>a, <2>3 DEF HellosFlow, Current
    <2>5. \A m : \A conn \in Conns :
              /\ m \in Elems(from_server[conn]) => m \in Elems(from_server'[conn])
              /\ m \in Elems(to_server[conn]) => m \in Elems(to_server'[conn]) \/ m = x
      BY <2>2 DEF Handled
    <2>6. CASE Mine(x)
      <3>1. \E conn \in subscribed : Matches(e, x, conn[1])
        <4>1. CASE x = req
          BY <1>d, <2>4, <4>1 DEF Matches
        <4>2. CASE \E kind \in Kinds : x = ans[kind]
          BY <1>d, <2>4, <4>2 DEF Matches
        <4> QED
          BY <2>6, <4>1, <4>2 DEF Mine
      <3>2. PICK conn \in Conns : x \in Elems(from_server'[conn])
        BY <1>a, <1>h, <2>2, <2>6, <3>1 DEF Handled
      <3>3. OnWire(x)'
        BY <3>2 DEF OnWire
      <3> QED
        BY <1>f, <2>3, <2>6, <3>3
    <2>7. CASE ~Mine(x)
      BY <1>g, <2>1, <2>3, <2>5, <2>7
    <2> QED
      BY <2>6, <2>7
  <1> QED
    BY <1>1, <1>2, <1>3, <1>4, <1>5, <1>6, <1>7, <1>8, <1>9, <1>10, <1>11, <1>a, FlowKinds

\* The three parts hold from the start on.
LEMMA FlowInvariance == Spec => [](IInv /\ FlowInv)
  <1>1. Init => IInv /\ FlowInv
    <2> SUFFICES ASSUME Init PROVE IInv /\ FlowInv
      OBVIOUS
    <2>1. IInv
      BY InitIInv
    <2>2. /\ \A conn \in Conns : ready[conn] = "none" /\ from_server[conn] = <<>>
          /\ \A u \in Clients : ~peer_seen[u]
          /\ \A c \in Calls : ~greeted[c] /\ phase[c] = "idle"
      BY DEF Init, CallsInit
    <2>3. ConnsFlow
      BY <2>2, EmptyQueue DEF ConnsFlow
    <2>4. HellosFlow
      BY <2>2, EmptyQueue DEF HellosFlow
    <2>5. CallsFlow
      BY <2>2 DEF CallsFlow
    <2> QED
      BY <2>1, <2>3, <2>4, <2>5 DEF FlowInv
  <1>2. IInv /\ FlowInv /\ [Next]_vars => (IInv /\ FlowInv)'
    BY StepIInv, ConnsFlowStep, HellosFlowStep, CallsFlowStep DEF FlowInv
  <1> QED
    BY <1>1, <1>2, PTL DEF Spec

\* The point of waiting for the peer: while no connection is lost, a command
\* sent after the peer's hello is in a queue, or the handler has it, or its
\* answer is in a queue.
THEOREM NoneForgotten == Spec => []NoCallForgotten
  <1>1. ASSUME FlowInv PROVE NoCallForgotten
    <2> SUFFICES ASSUME NothingLost, NEW c \in Calls, phase[c] = "pending", greeted[c]
                 PROVE  \/ c \in handling
                        \/ \E conn \in Conns :
                              \/ InFlight(Request(c, id_of[c]), conn)
                              \/ \E kind \in {"result", "error"} :
                                    InFlight(Response(ClientOf[c], id_of[c], kind), conn)
      BY DEF NoCallForgotten
    <2>1. UnderWay(c)
      BY <1>1 DEF FlowInv, CallsFlow
    <2>2. \A m : OnWire(m) => \E conn \in Conns : InFlight(m, conn)
      BY DEF OnWire, InFlight, Elems
    <2> QED
      BY <2>1, <2>2 DEF UnderWay
  <1>2. FlowInv => NoCallForgotten
    BY <1>1
  <1> QED
    BY <1>2, FlowInvariance, PTL
=============================================================================
