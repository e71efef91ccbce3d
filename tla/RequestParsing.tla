--------------------------- MODULE RequestParsing ---------------------------
(***************************************************************************)
(* How the proxy reads the conversation a harness sends with a request: the *)
(* three dialects and the messages each becomes.  Texts, images, calls and  *)
(* results are numbered blocks; names, schemas and the scalar settings are  *)
(* left out.  The conversations are those of harnesses: every call of an    *)
(* assistant turn is answered before the next turn of either side.          *)
(***************************************************************************)
EXTENDS Naturals, Sequences
LOCAL INSTANCE SequencesExt

CONSTANT MaxTurns   \* bound: turns of the conversation

VARIABLES
  dialect,   \* "messages", "completions" or "responses"
  turns      \* the conversation, turn by turn: [role, blocks]

parsingVars == <<dialect, turns>>

Dialects == {"messages", "completions", "responses"}
Turn(role, blocks) == [role |-> role, blocks |-> blocks]
OfKinds(blocks, kinds) == SelectSeq(blocks, LAMBDA b : b[1] \in kinds)
Has(blocks, kind) == \E i \in DOMAIN blocks : blocks[i][1] = kind
Joined(messages) == FlattenSeq(messages)

-----------------------------------------------------------------------------
(* The harness: what it sends of a turn.                                   *)

\* One message with its blocks, the results among them.
SaysMessage(t) == <<t>>

\* The calls of a turn stand beside its text, each result is a message.
SaysCompletion(t) ==
  LET results == OfKinds(t.blocks, {"result"})
      rest == OfKinds(t.blocks, {"text", "image", "call"})
  IN [i \in DOMAIN results |-> Turn("tool", <<results[i]>>)]
       \o (IF rest = <<>> THEN <<>> ELSE <<Turn(t.role, rest)>>)

\* Calls and results are items of their own; a turn of the assistant starts
\* with an item of reasoning.
SaysItems(t) ==
  LET results == OfKinds(t.blocks, {"result"})
      calls == OfKinds(t.blocks, {"call"})
      rest == OfKinds(t.blocks, {"text", "image"})
  IN (IF t.role = "assistant" THEN <<Turn("reasoning", <<>>)>> ELSE <<>>)
       \o [i \in DOMAIN results |-> Turn("output", <<results[i]>>)]
       \o (IF rest = <<>> THEN <<>> ELSE <<Turn(t.role, rest)>>)
       \o [i \in DOMAIN calls |-> Turn("function", <<calls[i]>>)]

Sent ==
  Joined([i \in DOMAIN turns |->
    CASE dialect = "messages" -> SaysMessage(turns[i])
      [] dialect = "completions" -> SaysCompletion(turns[i])
      [] OTHER -> SaysItems(turns[i])])

-----------------------------------------------------------------------------
(* The adapters.                                                           *)

\* A mixed turn read in the order of its blocks.
ReadMessageAsSent(m) ==
  IF m.role = "system" THEN <<>>
  ELSE IF m.role = "assistant" THEN <<Turn("assistant", OfKinds(m.blocks, {"text", "call"}))>>
  ELSE IF ~Has(m.blocks, "result") THEN <<Turn("user", OfKinds(m.blocks, {"text", "image"}))>>
  ELSE LET texts == OfKinds(m.blocks, {"text"})
       IN (IF texts = <<>> THEN <<>> ELSE <<Turn("user", texts)>>)
            \o <<Turn("tool", OfKinds(m.blocks, {"result"}))>>

\* parseAnthropicRequest, one message: the results of a mixed turn come first,
\* and only its texts follow.
ReadMessage(m) ==
  IF m.role = "system" THEN <<>>
  ELSE IF m.role = "assistant" THEN <<Turn("assistant", OfKinds(m.blocks, {"text", "call"}))>>
  ELSE IF ~Has(m.blocks, "result") THEN <<Turn("user", OfKinds(m.blocks, {"text", "image"}))>>
  ELSE LET texts == OfKinds(m.blocks, {"text"})
       IN <<Turn("tool", OfKinds(m.blocks, {"result"}))>>
            \o (IF texts = <<>> THEN <<>> ELSE <<Turn("user", texts)>>)

\* parseOpenAIRequest, one message: blocks other than text are ignored.
ReadCompletion(m) ==
  CASE m.role = "system" -> <<>>
    [] m.role = "assistant" -> <<Turn("assistant", OfKinds(m.blocks, {"text", "call"}))>>
    [] m.role = "tool" -> <<m>>
    [] OTHER -> <<Turn("user", OfKinds(m.blocks, {"text"}))>>

\* parseResponsesRequest: consecutive calls gather in one turn of the assistant,
\* which any other item ends, one that becomes no message too.
Gather(read, item) ==
  LET flushed == IF read.pending = <<>> THEN read.out
                 ELSE Append(read.out, Turn("assistant", read.pending))
      out == CASE item.role = "output" -> Append(flushed, Turn("tool", item.blocks))
               [] item.role \in {"user", "assistant"} -> Append(flushed, item)
               [] OTHER -> flushed
  IN IF item.role = "function" THEN [read EXCEPT !.pending = @ \o item.blocks]
     ELSE [out |-> out, pending |-> <<>>]
ReadItems(items) == Gather(FoldLeft(Gather, [out |-> <<>>, pending |-> <<>>], items),
                           Turn("end", <<>>)).out

Normalized ==
  CASE dialect = "messages" -> Joined([i \in DOMAIN Sent |-> ReadMessage(Sent[i])])
    [] dialect = "completions" -> Joined([i \in DOMAIN Sent |-> ReadCompletion(Sent[i])])
    [] OTHER -> ReadItems(Sent)

-----------------------------------------------------------------------------
(* The conversation grows.                                                 *)

ParsingInit == dialect \in Dialects /\ turns = <<>>

\* The calls of the last turn of the assistant, while they are not answered.
LastTalk == OfKinds(Joined([i \in DOMAIN turns |->
              IF turns[i].role = "system" THEN <<>> ELSE <<<<turns[i].role, i>>>>]),
              {"user", "assistant"})
Unanswered ==
  IF LastTalk = <<>> THEN <<>>
  ELSE LET last == turns[LastTalk[Len(LastTalk)][2]]
       IN IF last.role = "assistant" THEN OfKinds(last.blocks, {"call"}) ELSE <<>>

UserBlocks(n) == {<<<<"text", n>>>>, <<<<"text", n>>, <<"image", n>>>>}
AssistantBlocks(n) ==
  {<<<<"text", n>>>>, <<<<"call", n>>>>, <<<<"text", n>>, <<"call", n>>>>,
   <<<<"call", n>>, <<"call", n + 10>>>>}
AnswerBlocks(n, calls) ==
  LET results == [i \in DOMAIN calls |-> <<"result", calls[i][2]>>]
      extra == {<<>>, <<<<"text", n>>>>, <<<<"text", n>>, <<"image", n>>>>}
  IN {before \o r \o after : before \in extra, r \in {results, Reverse(results)}, after \in {<<>>}}
       \union {r \o after : r \in {results, Reverse(results)}, after \in extra}

Speaks(role, blocks) == turns' = Append(turns, Turn(role, blocks)) /\ UNCHANGED dialect
ParsingNext ==
  LET n == Len(turns) + 1 IN
  /\ n <= MaxTurns
  /\ \/ Speaks("system", <<<<"text", n>>>>)
     \/ Unanswered = <<>> /\ \E b \in UserBlocks(n) : Speaks("user", b)
     \/ Unanswered = <<>> /\ \E b \in AssistantBlocks(n) : Speaks("assistant", b)
     \/ Unanswered # <<>> /\ \E b \in AnswerBlocks(n, Unanswered) : Speaks("user", b)

ParsingSpec == ParsingInit /\ [][ParsingNext]_parsingVars

-----------------------------------------------------------------------------
ParsingTypeOK ==
  /\ dialect \in Dialects /\ Len(turns) <= MaxTurns
  /\ \A i \in DOMAIN turns : turns[i].role \in {"system", "user", "assistant"}

BlocksOf(messages) == Joined([i \in DOMAIN messages |-> messages[i].blocks])
\* The images that reach the provider: a completion carries none, and a mixed
\* turn of the messages dialect loses its own.
Carried(t) ==
  IF dialect = "completions" \/ (dialect = "messages" /\ Has(t.blocks, "result")) THEN {}
  ELSE {"image"}

\* The results of a call stand directly behind the assistant's turn that made
\* it, whatever else the harness put beside them; and nothing said is lost or
\* out of order, save the images the adapters do not carry.
ResultsFollowCalls ==
  LET out == Normalized IN
  /\ \A i \in DOMAIN out : Has(out[i].blocks, "call") /\ Unanswered = <<>> =>
       LET wanted == {<<"result", b[2]>> : b \in Range(OfKinds(out[i].blocks, {"call"}))}
       IN \E j \in (i + 1)..Len(out) :
            /\ \A k \in (i + 1)..j : out[k].role = "tool"
            /\ Range(BlocksOf(SubSeq(out, i + 1, j))) = wanted
  /\ \A kind \in {"text", "call", "result"} :
       OfKinds(BlocksOf(out), {kind}) =
         OfKinds(BlocksOf(SelectSeq(turns, LAMBDA t : t.role # "system")), {kind})
  /\ OfKinds(BlocksOf(out), {"image"}) =
       BlocksOf([i \in DOMAIN turns |->
         Turn(turns[i].role, OfKinds(turns[i].blocks, Carried(turns[i])))])
=============================================================================
