---------------------------- MODULE ResponseStream ----------------------------
(* One response on its way from the engine's channel to the client: the two    *)
(* handlers that drive the text filter, openai_stream of sse.rs and            *)
(* collect_generation of api.rs, the frames the first one yields, the          *)
(* connection that may break at every yield, and the benchmark client that     *)
(* puts the chunks of the body together again.                                 *)
(*                                                                             *)
(* The engine is abstract: it sends tokens and one terminal event, or drops    *)
(* its sender.  What a token says is chosen when the handler reads it.         *)
EXTENDS TextOutputFilter, SseFrames

CONSTANTS
  WireCapacity       \* symbols in flight beyond which the body is not polled

VARIABLES
  kind,              \* "stream": openai_stream, "collect": collect_generation
  engine,            \* "running", or what the sender was dropped after
  queued,            \* tokens in the channel
  sent,              \* tokens the engine sent
  responseDone,      \* response_done
  handler,           \* "receiving", "returned", or "dropped" with the connection
  outbox,            \* data lines the generator is about to yield, one by one
  wire,              \* symbols of the body that have not reached the client
  buffer,            \* the client's buffer
  shown,             \* text the client was shown; a collecting handler's text
  counted,           \* RequestStats.tokens, or usage.completion_tokens
  client             \* "reading", "done", "failed" or "gone"

engineVars == <<engine, queued, sent>>
clientVars == <<wire, buffer, shown, counted, client>>
streamVars == <<vars, engineVars, responseDone, handler, outbox, clientVars, kind>>

StreamInit ==
  /\ Init
  /\ kind \in {"stream", "collect"}
  /\ engine = "running" /\ queued = 0 /\ sent = 0
  /\ responseDone = FALSE /\ handler = "receiving" /\ outbox = <<>>
  /\ wire = <<>> /\ buffer = <<>> /\ shown = <<>> /\ counted = 0 /\ client = "reading"

-----------------------------------------------------------------------------
(* The engine.  A channel of min(max_tokens + 1, 32) places always has room for*)
(* a response this short; an engine that gives a longer one up drops it.       *)

\* The last token and its terminal event are one reservation.
EngineSends ==
  /\ engine = "running" /\ sent < MaxTokens /\ handler = "receiving"
  /\ sent' = sent + 1 /\ queued' = queued + 1
  /\ engine' = IF sent' = MaxTokens THEN "length" ELSE "running"

\* An end-of-sequence token, an error, or shutdown, cancellation and a closed
\* channel, after which nothing more is sent.
EngineEnds(how) ==
  /\ engine = "running"
  /\ engine' = how /\ UNCHANGED <<queued, sent>>

Engine ==
  /\ \/ EngineSends
     \/ \E how \in {"stop", "error", "dropped"} : EngineEnds(how)
  /\ UNCHANGED <<vars, responseDone, handler, outbox, clientVars, kind>>

-----------------------------------------------------------------------------
(* The handlers.                                                               *)

Receiving == handler = "receiving" /\ outbox = <<>> /\ status = "open"

Fragment == SubSeq(emitted', Len(emitted) + 1, Len(emitted'))

\* Cancelled when the terminal frames have been polled.
SignalAfterTheYield ==
  responseDone' = (responseDone \/ (status' = "stop" /\ outbox' = <<>>))

\* stop_generation(), response_done.cancel(): in the step that matches.
Signal == responseDone' = (responseDone \/ status' = "stop")

\* What the generator yields for a token.
TokenFrames ==
  CASE status' = "error" -> <<ErrorData>>
    [] status' = "stop"  -> <<TokenData(Fragment), FinalData(<<>>, "stop"), DoneData>>
    [] OTHER             -> <<TokenData(Fragment)>>

\* Streaming the handler goes on to yield, collecting it gathers and returns.
Handle(frames) ==
  IF kind = "stream" THEN outbox' = frames /\ UNCHANGED <<handler, shown, counted>>
  ELSE /\ shown' = shown \o Fragment /\ counted' = received'
       /\ handler' = IF status' = "open" THEN handler ELSE "returned"
       /\ UNCHANGED outbox

ReceiveToken ==
  /\ Receiving /\ queued > 0 /\ queued' = queued - 1
  /\ \E token \in Tokens : PushToken(token)
  /\ Handle(TokenFrames)
  /\ UNCHANGED <<engine, sent>>

ReceiveFinished ==
  /\ Receiving /\ queued = 0 /\ engine \in {"length", "stop"}
  /\ Finish
  /\ Handle(IF status' = "error" THEN <<ErrorData>> ELSE <<FinalData(Fragment, engine), DoneData>>)
  /\ UNCHANGED engineVars

\* A terminal event is waited for, whatever becomes of the sender.
FailsOnErrorOnly == engine = "error"

Fails == engine \in {"error", "dropped"}

\* StreamItem::Error, or the channel's end before a terminal event.
ReceiveFailure ==
  /\ Receiving /\ queued = 0 /\ Fails
  /\ status' = "failed" /\ UNCHANGED <<stops, bytes, received, emitted>>
  /\ Handle(<<ErrorData>>)
  /\ UNCHANGED engineVars

Receive == /\ ReceiveToken \/ ReceiveFinished \/ ReceiveFailure
           /\ Signal
           /\ UNCHANGED <<wire, buffer, client, kind>>

Polled == kind = "stream" /\ handler = "receiving" /\ Len(wire) < WireCapacity

\* Bytes for a client that is gone are lost.
Put(line) == wire' = IF client = "reading" THEN wire \o Frame(line) ELSE wire

Yield ==
  /\ Polled /\ outbox # <<>>
  /\ Put(Head(outbox)) /\ outbox' = Tail(outbox) /\ UNCHANGED status /\ Signal
  /\ UNCHANGED <<stops, bytes, received, emitted, engineVars, handler, buffer, shown, counted, client, kind>>

\* Resumed after its last yield the generator returns and drops the receiver.
Return ==
  /\ Polled /\ outbox = <<>> /\ status # "open"
  /\ handler' = "returned"
  /\ UNCHANGED <<vars, engineVars, responseDone, outbox, clientVars, kind>>

\* The wrapper's comment while the generator has nothing to yield.
KeepAlive ==
  /\ Polled /\ outbox = <<>> /\ status = "open" /\ wire = <<>>
  /\ Put(Comment)
  /\ UNCHANGED <<vars, engineVars, responseDone, handler, outbox, buffer, shown, counted, client, kind>>

\* The server finds the connection broken and drops the handler where it is.
Drop ==
  /\ client # "reading" /\ handler = "receiving"
  /\ handler' = "dropped" /\ outbox' = <<>> /\ queued' = 0
  /\ UNCHANGED <<vars, engine, sent, responseDone, clientVars, kind>>

-----------------------------------------------------------------------------
(* The client.                                                                 *)

\* A chunk ends anywhere.  It is read once every frame before it is handled.
Chunk ==
  /\ client = "reading" /\ Boundary(buffer) = {}
  /\ \E n \in 1..Len(wire) : buffer' = buffer \o SubSeq(wire, 1, n) /\ wire' = SubSeq(wire, n + 1, Len(wire))
  /\ UNCHANGED <<shown, counted, client>>

\* Frames whose text is held back are not counted.
CountsText(line) == line.data = "text" /\ line.text # <<>>

\* Timing counts the frames of tokens; the final frame and errors are skipped.
Counts(line) == line.data = "text"

TextOf(line) == IF line.data \in {"text", "final"} THEN line.text ELSE <<>>

\* What the data lines among the first n say, one after the other.
Saying(lines) ==
  LET said[n \in 0..Len(lines)] ==
        IF n = 0 THEN [text |-> <<>>, tokens |-> 0]
        ELSE IF ~IsData(lines[n]) THEN said[n - 1]
        ELSE [text   |-> said[n - 1].text \o TextOf(lines[n]),
              tokens |-> said[n - 1].tokens + IF Counts(lines[n]) THEN 1 ELSE 0]
  IN  said

Said(lines) == Saying(lines)[Len(lines)]

ReadFrame ==
  /\ client = "reading"
  /\ \E cut \in Boundary(buffer) :
       /\ \E frame \in {SubSeq(buffer, 1, cut[1])} :
            /\ counted' = counted + Said(frame).tokens
            /\ shown' = shown \o Said(frame).text
            /\ client' = IF DoneData \in ToSet(frame) THEN "done" ELSE client
       /\ buffer' = SubSeq(buffer, cut[2] + 1, Len(buffer))
  /\ UNCHANGED wire

\* The end of the body before [DONE].
BodyEnds ==
  /\ client = "reading" /\ kind = "stream" /\ handler # "receiving"
  /\ wire = <<>> /\ Boundary(buffer) = {}
  /\ client' = "failed" /\ UNCHANGED <<wire, buffer, shown, counted>>

\* The one response of a collecting handler.
ReadReply ==
  /\ client = "reading" /\ kind = "collect" /\ handler # "receiving"
  /\ client' = IF status \in {"stop", "finished"} THEN "done" ELSE "failed"
  /\ UNCHANGED <<wire, buffer, shown, counted>>

\* A timeout, or a user who closes the page.
Leave ==
  /\ client = "reading"
  /\ client' = "gone" /\ wire' = <<>> /\ buffer' = <<>> /\ UNCHANGED <<shown, counted>>

Client(step) == step /\ UNCHANGED <<vars, engineVars, responseDone, handler, outbox, kind>>

Over == engine # "running" /\ handler # "receiving" /\ client # "reading"

StreamNext ==
  \/ Engine \/ Receive \/ Yield \/ Return \/ KeepAlive \/ Drop
  \/ Client(Chunk) \/ Client(ReadFrame) \/ Client(BodyEnds) \/ Client(ReadReply) \/ Client(Leave)
  \/ Over /\ UNCHANGED streamVars

StreamSpec ==
  /\ StreamInit /\ [][StreamNext]_streamVars
  /\ WF_streamVars(Engine)
  /\ WF_streamVars(Receive \/ Yield \/ Return \/ Drop)
  /\ WF_streamVars(Client(Chunk) \/ Client(ReadFrame) \/ Client(BodyEnds) \/ Client(ReadReply))

-----------------------------------------------------------------------------
(* Properties.                                                                 *)

Cut(text) == IF StopOffsets(text) = {} THEN text ELSE SubSeq(text, 1, Min(StopOffsets(text)))

(* What a client was shown is at every moment a beginning of the model's text  *)
(* up to its first stop, and all of it once the response is over, however the  *)
(* tokens cut characters and stops, and the network the frames (sse.rs:22-24). *)
ClientReadsTheCutText ==
  /\ IsPrefix(shown, Cut(Text))
  /\ client = "done" => shown = Cut(Text)

(* sse.rs:116-117, "still emit one SSE frame per model token for timing and    *)
(* accounting": when a client is done it has counted the tokens received, also *)
(* those whose text was withheld, in whatever chunks the frames came.          *)
EveryTokenIsCounted == client = "done" => counted = received

(* The engine tells a stop from a disconnect by response_done alone: when a    *)
(* receiver is gone it has been cancelled exactly if a stop was matched, even  *)
(* if the client left between the frames that report the stop.                 *)
StopIsSignalledFirst == handler # "receiving" => (responseDone <=> status = "stop")

(* A client that stays is failed only if the engine failed: decoding never     *)
(* takes back what was shown, so that neither error of the filter can happen,  *)
(* and no chunking loses [DONE].                                               *)
OnlyTheEngineFails ==
  /\ status # "error"
  /\ client = "failed" => engine \in {"error", "dropped"}

(* Every response ends for all three: the engine stops, the handler returns or *)
(* is dropped, and the client has an answer or left.                           *)
StreamsEnd == <>[]Over
=============================================================================
