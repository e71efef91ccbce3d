-------------------------------- MODULE Relay --------------------------------
(***************************************************************************)
(* One request the proxy relays: the gateway that races the provider's     *)
(* stream against its windows and its rejection, the handler that looks at *)
(* the first event before it answers, and the three serializers that turn  *)
(* events into frames of the harness's own protocol.  The contents of      *)
(* texts and tool calls are left out, their order is not; the provider     *)
(* and the SDK that reads it are external.                                 *)
(***************************************************************************)
EXTENDS Naturals, Sequences

CONSTANT MaxParts   \* bound: parts of the provider's stream and rejections

VARIABLES
  wire,          \* the protocol of the harness
  reasoning,     \* the request carries reasoning options
  attempt,       \* run(true) is 1, run(false) 2, none 0
  parts,         \* parts and rejections so far
  captured,      \* capturedError of this attempt
  firstChunk,    \* firstChunkSeen
  errorYielded,  \* errorYielded of this attempt
  source,        \* the generator: "idle", "running" or "over"
  answer,        \* the HTTP answer: "none", "stream", or the class of an error
  body,          \* the state of the serializer, with the frames it has sent
  given,         \* history: the events the gateway has yielded, each with its attempt
  gone           \* the harness has closed the connection

relayVars == <<wire, reasoning, attempt, parts, captured, firstChunk, errorYielded,
               source, answer, body, given, gone>>

Wires == {"anthropic", "responses", "openai"}
Contents == {"text", "tool"}
\* The class of status an error carries: none or 5xx, 401/403, any other 4xx.
Errors == {"opaque", "auth", "client"}
Events == Contents \union {"finish", "length"} \union Errors

-----------------------------------------------------------------------------
(* The serializers: pure, one event at a time.                             *)

Frame(op, at) == [op |-> op, at |-> at]
NoBlock == 99
Fresh == [frames |-> <<>>, open |-> NoBlock, next |-> 0, tool |-> FALSE,
          reason |-> "finish", output |-> <<>>, ended |-> FALSE, over |-> FALSE]

Send(s, fs) == [s EXCEPT !.frames = @ \o fs]
CloseBlock(s) ==
  IF s.open = NoBlock THEN s
  ELSE [Send(s, <<Frame("close", s.open)>>) EXCEPT !.open = NoBlock,
          !.output = Append(@, "text")]
ToolItem(s) ==
  [Send(CloseBlock(s), <<Frame("open", s.next), Frame("tool", s.next), Frame("close", s.next)>>)
     EXCEPT !.next = @ + 1, !.tool = TRUE, !.output = Append(@, "tool")]

\* mapStopReason and mapStatus: a tool call wins.
Reason(s, e) == IF s.tool THEN "tool-use" ELSE IF e = "length" THEN "cut" ELSE "end"

\* serializeAnthropicStream: the text block is block 0, opened eagerly; an event
\* after a terminal one is still serialized.
AnthropicBegins == [Send(Fresh, <<Frame("start", 0), Frame("open", 0)>>)
                      EXCEPT !.open = 0, !.next = 1]
AnthropicStops(s, why) ==
  [Send(CloseBlock(s), <<Frame(why, 0), Frame("stop", 0)>>) EXCEPT !.ended = TRUE]
Anthropic(s, e) ==
  CASE e = "text" -> Send(s, <<Frame("text", 0)>>)
    [] e = "tool" -> ToolItem(s)
    [] e \in {"finish", "length"} -> AnthropicStops(s, Reason(s, e))
    [] OTHER -> [Send(CloseBlock(s), <<Frame("error", 0)>>) EXCEPT !.ended = TRUE]
AnthropicEnds(s) ==
  [(IF s.ended THEN s ELSE AnthropicStops(s, Reason(s, "finish"))) EXCEPT !.over = TRUE]

\* serializeResponsesStream: a message item is opened by its first text; the
\* finish only records its reason, and the response completes with the stream.
ResponsesBegins == Send(Fresh, <<Frame("start", 0)>>)
OpenMessage(s) ==
  IF s.open # NoBlock THEN s
  ELSE [Send(s, <<Frame("open", s.next)>>) EXCEPT !.open = s.next, !.next = @ + 1]
Responses(s, e) ==
  CASE e = "text" -> LET t == OpenMessage(s) IN Send(t, <<Frame("text", t.open)>>)
    [] e = "tool" -> ToolItem(s)
    [] e \in {"finish", "length"} -> [s EXCEPT !.reason = e]
    [] OTHER -> [Send(CloseBlock(s), <<Frame("error", 0)>>) EXCEPT !.ended = TRUE, !.over = TRUE]
ResponsesEnds(s) ==
  LET why == IF s.tool THEN "end" ELSE Reason(s, s.reason)
  IN [Send(CloseBlock(s), <<Frame(why, 0), Frame("stop", 0)>>)
        EXCEPT !.ended = TRUE, !.over = TRUE]

\* serializeOpenAIStream: deltas have no blocks, tool calls are numbered.
OpenAIBegins == Send(Fresh, <<Frame("start", 0)>>)
OpenAI(s, e) ==
  CASE e = "text" -> Send(s, <<Frame("text", 0)>>)
    [] e = "tool" -> [Send(s, <<Frame("tool", s.next)>>) EXCEPT !.next = @ + 1, !.tool = TRUE]
    [] e \in {"finish", "length"} -> Send(s, <<Frame(Reason(s, e), 0)>>)
    [] OTHER -> [Send(s, <<Frame("error", 0)>>) EXCEPT !.ended = TRUE, !.over = TRUE]
OpenAIEnds(s) == [Send(s, <<Frame("stop", 0)>>) EXCEPT !.ended = TRUE, !.over = TRUE]

Begins == CASE wire = "anthropic" -> AnthropicBegins
            [] wire = "responses" -> ResponsesBegins
            [] OTHER -> OpenAIBegins
Serialize(s, e) == CASE wire = "anthropic" -> Anthropic(s, e)
                     [] wire = "responses" -> Responses(s, e)
                     [] OTHER -> OpenAI(s, e)
Ends(s) == CASE wire = "anthropic" -> AnthropicEnds(s)
             [] wire = "responses" -> ResponsesEnds(s)
             [] OTHER -> OpenAIEnds(s)

-----------------------------------------------------------------------------
RelayInit ==
  /\ wire \in Wires /\ reasoning \in BOOLEAN
  /\ attempt = 0 /\ parts = 0 /\ captured = FALSE
  /\ firstChunk = FALSE /\ errorYielded = FALSE
  /\ source = "idle" /\ answer = "none" /\ body = Fresh
  /\ given = <<>> /\ gone = FALSE

\* The handler has the model and looks for the first event: the generator runs.
Streams ==
  /\ source = "idle" /\ source' = "running" /\ attempt' = 1
  /\ UNCHANGED <<wire, reasoning, parts, captured, firstChunk, errorYielded, answer, body,
                 given, gone>>

\* An event reaches its consumer.  errorOrStream answers the first: an error
\* ends the generator and becomes an HTTP error, whose status a provider's 401
\* or 403 never is; anything else opens the stream.  The serializer then pulls
\* on; where it returns, or its connection is closed, the generator ends.
Yields(e, last) ==
  /\ given' = Append(given, [what |-> e, run |-> attempt])
  /\ IF answer = "none" /\ e \in Errors
     THEN /\ answer' = (IF e = "client" THEN "client" ELSE "bad-gateway")
          /\ source' = "over" /\ UNCHANGED body
     ELSE /\ answer' = "stream"
          /\ LET s == Serialize(IF answer = "none" THEN Begins ELSE body, e)
                 t == IF gone THEN [body EXCEPT !.over = TRUE]
                      ELSE IF last /\ ~s.over THEN Ends(s) ELSE s
             IN /\ body' = t
                /\ source' = IF t.over THEN "over" ELSE source

Turns == source = "running" /\ parts < MaxParts /\ parts' = parts + 1

\* next() has a part that maps to an event; once the rejection of this attempt
\* is captured it is thrown instead.
YieldsPart(e) ==
  /\ Turns /\ (captured => errorYielded)
  /\ firstChunk' = TRUE
  /\ errorYielded' = (errorYielded \/ e \in Errors)
  /\ Yields(e, FALSE)
  /\ UNCHANGED <<wire, reasoning, attempt, captured, gone>>

\* result.text rejects, before the part that says why or after it.
TextRejects ==
  /\ Turns /\ ~captured /\ captured' = TRUE
  /\ UNCHANGED <<wire, reasoning, attempt, firstChunk, errorYielded, source, answer, body,
                 given, gone>>

ThrowsAfterChunks(e, unsupported) ==
  /\ source = "running"
  /\ IF unsupported /\ reasoning /\ attempt = 1
     THEN /\ attempt' = 2 /\ captured' = FALSE /\ errorYielded' = FALSE
          /\ UNCHANGED <<source, answer, body, given>>
     ELSE /\ Yields(e, TRUE) /\ UNCHANGED <<attempt, captured, errorYielded>>

\* An attempt is over by an exception: the rejection that was captured, next()
\* itself, or the stall of a window.  A rejection of the reasoning options
\* before anything was yielded is tried again without them.
Throws(e, unsupported) ==
  /\ source = "running"
  /\ IF unsupported /\ reasoning /\ attempt = 1 /\ ~firstChunk
     THEN /\ attempt' = 2 /\ captured' = FALSE /\ errorYielded' = FALSE
          /\ UNCHANGED <<source, answer, body, given>>
     ELSE /\ Yields(e, TRUE) /\ UNCHANGED <<attempt, captured, errorYielded>>

Rethrows(e, unsupported) ==
  /\ captured /\ ~errorYielded
  /\ Throws(e, unsupported)
  /\ UNCHANGED <<wire, reasoning, parts, firstChunk, gone>>

NextRejects(e, unsupported) ==
  /\ Turns /\ Throws(e, unsupported)
  /\ UNCHANGED <<wire, reasoning, firstChunk, gone>>

Stalls ==
  /\ source = "running"
  /\ Yields("opaque", TRUE)
  /\ UNCHANGED <<wire, reasoning, attempt, parts, captured, firstChunk, errorYielded, gone>>

\* The provider's stream is done: no event at all is an error, otherwise the
\* serializer ends the body.
Done ==
  /\ source = "running" /\ (captured => errorYielded)
  /\ source' = "over"
  /\ IF answer = "none" THEN answer' = "bad-gateway" /\ UNCHANGED body
     ELSE body' = (IF gone THEN [body EXCEPT !.over = TRUE] ELSE Ends(body)) /\ UNCHANGED answer
  /\ UNCHANGED <<wire, reasoning, attempt, parts, captured, firstChunk, errorYielded, given, gone>>

\* The harness closes its connection; no serializer has a cancel of its own.
HarnessLeaves ==
  /\ answer = "stream" /\ source = "running" /\ ~gone /\ gone' = TRUE
  /\ UNCHANGED <<wire, reasoning, attempt, parts, captured, firstChunk, errorYielded, source,
                 answer, body, given>>

RelayNext ==
  \/ Streams \/ TextRejects \/ Stalls \/ Done \/ HarnessLeaves
  \/ \E e \in Events : YieldsPart(e)
  \/ \E e \in Errors, u \in BOOLEAN : Rethrows(e, u) \/ NextRejects(e, u)

RelaySpec == RelayInit /\ [][RelayNext]_relayVars

-----------------------------------------------------------------------------
Indices(s) == 1..Len(s)
OfKind(s, kinds) == SelectSeq(s, LAMBDA x : x \in kinds)
\* The prefix of a sequence before its first member in a set.
Before(s, kinds) ==
  SubSeq(s, 1, CHOOSE n \in 0..Len(s) :
    /\ \A i \in 1..n : s[i] \notin kinds
    /\ n = Len(s) \/ s[n + 1] \in kinds)

Said == [i \in Indices(given) |-> given[i].what]
Ops == [i \in Indices(body.frames) |-> body.frames[i].op]
Terminal == {"stop", "error"}
\* The events after which a serializer ends its message.
Endings == Errors \union (IF wire = "anthropic" THEN {"finish", "length"} ELSE {})

RelayTypeOK ==
  /\ wire \in Wires /\ reasoning \in BOOLEAN /\ attempt \in 0..2 /\ parts \in 0..MaxParts
  /\ captured \in BOOLEAN /\ firstChunk \in BOOLEAN /\ errorYielded \in BOOLEAN
  /\ source \in {"idle", "running", "over"} /\ gone \in BOOLEAN
  /\ answer \in {"none", "stream", "client", "bad-gateway"}
  /\ \A i \in Indices(given) : given[i] \in [what : Events, run : 1..2]

\* The blocks of the body nest: each delta lies in the block that is open.  The text an
\* Anthropic stream carries after a tool call closed its block is the exception: the comment
\* has the blocks sequential (anthropic-stream.ts:51-57, 125), the code sends the text on.
BlocksNest ==
  \A i \in Indices(body.frames) :
    LET f == body.frames[i]
        opened == \E j \in 1..(i - 1) :
          /\ body.frames[j] = Frame("open", f.at)
          /\ \A k \in (j + 1)..(i - 1) : body.frames[k].op \notin {"open", "close"}
        closed == \E j \in 1..(i - 1) : body.frames[j] = Frame("close", 0)
    IN f.op \in Contents /\ wire # "openai" =>
         opened \/ (wire = "anthropic" /\ f.op = "text" /\ closed)

\* A terminal frame for each ending of the provider that an Anthropic stream is given, and one
\* for none: one at most unless the provider goes on after an ending, as after an error it
\* reports in its stream.  The comment promises exactly one (anthropic-stream.ts:101-106).
TerminalFrames == Len(OfKind(Ops, Terminal))
TerminalsAreFew ==
  TerminalFrames <= IF wire = "anthropic" /\ Len(OfKind(Said, Endings)) > 1
               THEN Len(OfKind(Said, Endings)) ELSE 1

\* What the harness reads up to the first terminal frame is what the provider
\* said up to its first ending, in order, and ends as that did; no other terminal follows but
\* where the provider goes on after its ending; the items of a completed response hold every
\* tool call.
StreamIsFaithful ==
  LET read == Before(Ops, Terminal)
      said == Before(Said, Endings)
      cut == Len(said) < Len(given)
  IN /\ TerminalsAreFew
     /\ OfKind(read, Contents) = OfKind(said, Contents)
     /\ cut => Len(read) < Len(Ops)
     /\ Len(read) < Len(Ops) =>
          (Ops[Len(read) + 1] = "error" <=> cut /\ Said[Len(said) + 1] \in Errors)
     /\ wire = "responses" /\ body.over => OfKind(body.output, {"tool"}) = OfKind(said, {"tool"})

\* However the provider's parts, its rejection, the windows and the harness's
\* departure interleave: the stream is faithful, it does not end without a
\* terminal frame, an error that comes first is an HTTP error, and a second
\* attempt repeats nothing of the first.
RelayIsFaithful ==
  /\ answer = "stream" =>
       /\ given[1].what \notin Errors /\ BlocksNest
       /\ ~gone => StreamIsFaithful /\ (source = "over" => \E i \in Indices(Ops) : Ops[i] \in Terminal)
  /\ answer \in {"client", "bad-gateway"} => Said = <<>> \/ (Len(Said) = 1 /\ Said[1] \in Errors)
  /\ \A i, j \in Indices(given) : given[i].run = given[j].run
=============================================================================
