------------------------------- MODULE Framing -------------------------------
(***************************************************************************)
(* How the transports cut a stream of bytes into messages: the two ends of *)
(* the NATS bridge (lines and MSG frames), the pipe (messages that end in  *)
(* NUL) and the native messaging host (a length before each message).      *)
(* Chunks of any size are appended to a buffer, and what has come in full  *)
(* is taken from it.                                                       *)
(*                                                                         *)
(* Text is a sequence of characters, one byte each but for "w", which has  *)
(* two.  A line keeps what consumeProtocol() looks at: its first word and, *)
(* for MSG, the size in the last one.  A body is what JSON.parse accepts,  *)
(* also where a character of a string in it was misread.                   *)
(***************************************************************************)
EXTENDS Naturals, Sequences, SequencesExt

CONSTANTS
    Channels,   \* kinds of socket data the connection may deliver
    Letters,    \* the characters that bodies and sizes are written with
    Bodies,     \* message bodies, sequences of letters
    Digit,      \* how a size is written, as one character: Digit[n] says n
    MaxFrames,  \* bound: frames the server sends
    MaxReads    \* bound: blobs being read at a time

VARIABLES
    channel,    \* what this connection delivers
    frames,     \* what the sender writes, in order
    taken,      \* bytes of it the socket has delivered
    buffer,     \* ws_buffer, tcp_buffer and the host's buffer (bytes), or text
    reads,      \* chunks whose `await data.text()' has not returned
    delivered,  \* payloads handed on that parse
    pongs       \* PONGs written

framingVars == <<channel, frames, taken, buffer, reads, delivered, pongs>>

-----------------------------------------------------------------------------
(* Bytes and characters.                                                   *)

CRLF == <<"CR", "LF">>

CharBytes(c) == IF c = "w" THEN <<"w1", "w2">> ELSE <<c>>

ToBytes(text) == FlattenSeq([i \in 1..Len(text) |-> CharBytes(text[i])])

\* Where a two-byte character starts.
Pairs(bytes) == {i \in 1..(Len(bytes) - 1) : bytes[i] = "w1" /\ bytes[i + 1] = "w2"}

\* Half a character decodes to U+FFFD, here "?"; once decoded it stays whole.
DecodedAt(bytes, i) ==
    CASE i \in Pairs(bytes) -> <<"w">>
      [] i - 1 \in Pairs(bytes) -> <<>>
      [] OTHER -> <<IF bytes[i] \in {"w1", "w2"} THEN "?" ELSE bytes[i]>>

ToText(bytes) == FlattenSeq([i \in 1..Len(bytes) |-> DecodedAt(bytes, i)])

\* JSON escapes control characters, so a body has none; "w1" and "w2" are no
\* characters.  A size is written with neither, nor with a two-byte character.
\* A message is an object, so the last word of its body is no number.
Control == {"CR", "LF", "NUL"}
Halves == {"w1", "w2"}

ASSUME FramingAssumption ==
    /\ Channels \subseteq {"string", "binary", "blob", "tcp", "pipe", "native"}
    /\ Letters \cap (Control \cup Halves) = {}
    /\ Digit \in Seq(Letters \ {"MSG", "w", "?"})
    /\ \A m, n \in DOMAIN Digit : Digit[m] = Digit[n] => m = n
    /\ Bodies \subseteq Seq(Letters)
    /\ \A body \in Bodies :
          Len(ToBytes(body)) \in DOMAIN Digit /\ Last(body) \notin ToSet(Digit)
    /\ MaxFrames \in Nat
    /\ MaxReads \in Nat

-----------------------------------------------------------------------------
(* What the sender writes: the NATS server, the browser, or Chrome.        *)

Frame == [kind : {"msg"}, body : Bodies] \cup [kind : {"ping", "info"}, body : {<<>>}]

\* A size is stated in bytes; native messaging takes four of them for it.
ProtocolText(f) ==
    CASE f.kind = "msg" -> <<"MSG", Digit[Len(ToBytes(f.body))]>> \o CRLF \o f.body \o CRLF
      [] f.kind = "ping" -> <<"PING">> \o CRLF
      [] f.kind = "info" -> <<"INFO">> \o CRLF

FrameText(f) ==
    CASE channel = "pipe" -> Append(f.body, "NUL")
      [] channel = "native" -> <<Digit[Len(ToBytes(f.body))], "0", "0", "0">> \o f.body
      [] OTHER -> ProtocolText(f)

TextOf(fs) == FlattenSeq([i \in 1..Len(fs) |-> FrameText(fs[i])])

Stream == ToBytes(TextOf(frames))

-----------------------------------------------------------------------------
(* consumeProtocol().                                                      *)

LineEnds(text) == {i \in 1..(Len(text) - 1) : text[i] = "CR" /\ text[i + 1] = "LF"}

\* Length of the first line, when there is one.
LineLength(text) == (CHOOSE i \in LineEnds(text) : \A j \in LineEnds(text) : i <= j) - 1

\* JSON.parse skips white space after the value.
Trimmed(payload) ==
    SubSeq(payload, 1, Max({0} \cup {i \in DOMAIN payload : payload[i] \notin {"CR", "LF"}}))

\* How a body reads when chunks end inside its two-byte characters at S.
ReadCut(body, S) ==
    FlattenSeq([i \in 1..Len(body) |-> IF i \in S THEN <<"?", "?">> ELSE <<body[i]>>])

Readings(body) == {ReadCut(body, S) : S \in SUBSET {i \in 1..Len(body) : body[i] = "w"}}

Readable == UNION {Readings(body) : body \in Bodies}

\* handlePayload() drops what does not parse.
Parsed(payload) == IF Trimmed(payload) \in Readable THEN <<Trimmed(payload)>> ELSE <<>>

\* The sizes a character may state: one, or none.
Sizes(c) == {n \in DOMAIN Digit : Digit[n] = c}

\* A call as it goes on: what is left of the buffer, the payloads it has taken
\* and the PONGs it has written.
Nothing(text) == [rest |-> text, payloads |-> <<>>, pongs |-> 0]

Taking(call, rest, payload) ==
    [rest |-> rest, payloads |-> call.payloads \o Parsed(payload), pongs |-> call.pongs]

Skipping(call, rest, n) ==
    [rest |-> rest, payloads |-> call.payloads, pongs |-> call.pongs + n]

\* Bug: the CR LF after the payload is left in the buffer, and need not be there.
NextFrame_payloadOnly(call) ==
    LET text == call.rest
        line == SubSeq(text, 1, LineLength(text))
        after == SubSeq(text, Len(line) + 3, Len(text))
        n == CHOOSE n \in Sizes(Last(line)) : TRUE
    IN  IF LineEnds(text) = {} THEN call
        ELSE IF line # <<>> /\ Head(line) = "MSG"
        THEN IF \A m \in Sizes(Last(line)) : Len(after) < m THEN call
             ELSE Taking(call, SubSeq(after, n + 1, Len(after)), SubSeq(after, 1, n))
        ELSE Skipping(call, after, IF line = <<"PING">> THEN 1 ELSE 0)

\* A pass of consumeProtocol().  A MSG line without a size stops it for good.
NextFrame(call) ==
    LET text == call.rest
        line == SubSeq(text, 1, LineLength(text))
        after == SubSeq(text, Len(line) + 3, Len(text))
        n == CHOOSE n \in Sizes(Last(line)) : TRUE
    IN  IF LineEnds(text) = {} THEN call
        ELSE IF line # <<>> /\ Head(line) = "MSG"
        THEN IF \A m \in Sizes(Last(line)) : Len(after) < m + 2 THEN call
             ELSE Taking(call, SubSeq(after, n + 3, Len(after)), SubSeq(after, 1, n))
        ELSE Skipping(call, after, IF line = <<"PING">> THEN 1 ELSE 0)

\* A pass of the pipe's read(): an empty message is skipped.
NextPipeMessage(call) ==
    LET text == call.rest
        ends == {i \in DOMAIN text : text[i] = "NUL"}
    IN  IF ends = {} THEN call
        ELSE Taking(call, SubSeq(text, Min(ends) + 1, Len(text)), SubSeq(text, 1, Min(ends) - 1))

\* A pass of readLengthPrefixedJSON(): a body is decoded when all of its bytes
\* are there.
NextNativeMessage(call) ==
    LET bytes == call.rest
        n == CHOOSE n \in Sizes(Head(bytes)) : TRUE
    IN  IF Len(bytes) < 4 \/ (\A m \in Sizes(Head(bytes)) : Len(bytes) < m + 4) THEN call
        ELSE Taking(call, SubSeq(bytes, n + 5, Len(bytes)), ToText(SubSeq(bytes, 5, n + 4)))

Pass(call) ==
    CASE channel = "pipe" -> NextPipeMessage(call)
      [] channel = "native" -> NextNativeMessage(call)
      [] OTHER -> NextFrame(call)

\* The `for (;;)' of each of them.  A pass takes at least a character; one that
\* takes nothing is the last, and those after it would not either.
ReadAll(text) ==
    LET after[n \in Nat] == IF n = 0 THEN Nothing(text) ELSE Pass(after[n - 1])
    IN  after[Len(text)]

-----------------------------------------------------------------------------
FramingInit ==
    /\ channel \in Channels
    /\ frames \in BoundedSeq(Frame, MaxFrames)
    /\ channel \in {"pipe", "native"} => \A i \in DOMAIN frames : frames[i].kind = "msg"
    /\ taken = 0
    /\ buffer = <<>>
    /\ reads = <<>>
    /\ delivered = <<>>
    /\ pongs = 0

\* Bug: what consumeProtocol() returns is not put back.
Take_keepsBuffer(text) ==
    LET call == ReadAll(text)
    IN  /\ buffer' = IF channel = "tcp" THEN ToBytes(text) ELSE text
        /\ delivered' = delivered \o call.payloads
        /\ pongs' = pongs + call.pongs

\* `text' is in the buffer: take what is complete.
Take(text) ==
    LET call == ReadAll(text)
    IN  /\ buffer' = IF channel = "tcp" THEN ToBytes(call.rest) ELSE call.rest
        /\ delivered' = delivered \o call.payloads
        /\ pongs' = pongs + call.pongs

Chunk(n) == SubSeq(Stream, taken + 1, taken + n)

\* The socket hands over the next n bytes; a text message is never cut inside
\* a character.
Arrives(n) ==
    /\ n \in 1..(Len(Stream) - taken)
    /\ channel = "string" => ToBytes(ToText(Chunk(n))) = Chunk(n)
    /\ taken' = taken + n
    /\ UNCHANGED <<channel, frames>>

\* readWebSocket() on a string or an array of bytes.
ReadWebSocket(n) ==
    /\ channel \in {"string", "binary"}
    /\ Arrives(n)
    /\ Take(buffer \o ToText(Chunk(n)))
    /\ UNCHANGED reads

\* readWebSocket() on a Blob: `buffer += await data.text()' reads the buffer
\* before it awaits.
ReadBlob(n) ==
    /\ channel = "blob"
    /\ Len(reads) < MaxReads
    /\ Arrives(n)
    /\ reads' = Append(reads, [before |-> buffer, text |-> ToText(Chunk(n))])
    /\ UNCHANGED <<buffer, delivered, pongs>>

BlobRead(i) ==
    /\ i \in DOMAIN reads
    /\ Take(reads[i].before \o reads[i].text)
    /\ reads' = RemoveAt(reads, i)
    /\ UNCHANGED <<channel, frames, taken>>

ReadTcp(n) ==
    /\ channel = "tcp"
    /\ Arrives(n)
    /\ Take(ToText(buffer \o Chunk(n)))
    /\ UNCHANGED reads

\* read() of the pipe decodes each chunk by itself.
ReadPipeChunk(n) ==
    /\ channel = "pipe"
    /\ Arrives(n)
    /\ Take(buffer \o ToText(Chunk(n)))
    /\ UNCHANGED reads

\* read_native_message() keeps bytes.
ReadNative(n) ==
    /\ channel = "native"
    /\ Arrives(n)
    /\ Take(buffer \o Chunk(n))
    /\ UNCHANGED reads

FramingNext ==
    \/ \E n \in 1..Len(Stream) :
         \/ ReadWebSocket(n) \/ ReadBlob(n) \/ ReadTcp(n)
         \/ ReadPipeChunk(n) \/ ReadNative(n)
    \/ \E i \in DOMAIN reads : BlobRead(i)

FramingSpec == FramingInit /\ [][FramingNext]_framingVars

-----------------------------------------------------------------------------
(* Properties.                                                             *)

\* The frames that have arrived in full.
Complete == {i \in 0..Len(frames) : Len(ToBytes(TextOf(SubSeq(frames, 1, i)))) <= taken}
Arrived == SubSeq(frames, 1, CHOOSE i \in Complete : \A j \in Complete : j <= i)

BodiesOf(fs) ==
    FlattenSeq([i \in 1..Len(fs) |-> IF fs[i].kind = "msg" THEN <<fs[i].body>> ELSE <<>>])

PingsIn(fs) == {i \in 1..Len(fs) : fs[i].kind = "ping"}

\* "`message` appends decoded bytes to the protocol buffer and consumes
\* complete NATS frames" (js/src/transport/NATSDownstreamTransport.ts:41):
\* however the stream is cut into chunks, what was delivered is exactly what
\* has arrived in full, in order, and every PING of it was answered.
ConsumesCompleteFrames ==
    reads = <<>> =>
        /\ delivered = BodiesOf(Arrived)
        /\ pongs = Cardinality(PingsIn(Arrived))

OneByteText == \A i \in DOMAIN frames : "w" \notin ToSet(frames[i].body)

\* The same as far as the code goes.  NATS sizes are bytes but the buffer is
\* counted in characters (NATSUpstreamTransport.ts:278-283), and the pipe decodes
\* chunk by chunk (PipeUpstreamTransport.ts:113): it is promised for one-byte
\* bodies only, but for any body by the native messaging host, which keeps bytes.
\* Blobs must be read one at a time (MaxReads).
ReadsWhatArrived ==
    channel = "native" \/ OneByteText => ConsumesCompleteFrames

\* Whatever the bodies hold, a frame that was misread is lost or has some of its
\* two-byte characters replaced, but never comes twice, out of order or as
\* something the sender did not send.
DeliversSubsequence ==
    \E place \in [DOMAIN delivered -> {i \in DOMAIN frames : frames[i].kind = "msg"}] :
        /\ \A i \in DOMAIN delivered : delivered[i] \in Readings(frames[place[i]].body)
        /\ \A i, j \in DOMAIN delivered : i < j => place[i] < place[j]
=============================================================================
