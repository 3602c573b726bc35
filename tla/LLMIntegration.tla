--------------------------- MODULE LLMIntegration ---------------------------
(***************************************************************************)
(* The conversation of an agent with its model through the adapters for    *)
(* OpenAI and Anthropic (agentic/src/Integrations: defaultContextTransfor- *)
(* mer, openai, anthropic), and what agentLoop makes of it: the history is *)
(* transformed and formatted for every request, the response is read whole *)
(* or assembled from a stream, and the history grows by what came of it.   *)
(*                                                                         *)
(* Data abstraction: a message is its type and what it refers to: a tool   *)
(* call, one of the attachments of the first message, or None.  The JSON   *)
(* text of a call's arguments is the sequence of the parts the vendor      *)
(* sends it in; it can be parsed when it is whole and not empty.  The      *)
(* system prompt, tool definitions, usage and events to onStream are left  *)
(* out.  ArvoAgent models how calls are selected, permitted and answered:  *)
(* here any of them may be dropped, and Kind says how a call is answered.  *)
(*                                                                         *)
(* The vendors (external): they give every call an id of its own.  OpenAI  *)
(* may interleave the arguments of several calls; Anthropic sends one      *)
(* content block after the other.  A response that stops for another       *)
(* reason than its end may have a last call that is cut short, and a       *)
(* stream may end without a reason, in the middle of a block.              *)
(***************************************************************************)
EXTENDS Naturals, FiniteSets, Sequences, SequencesExt, Functions

CONSTANTS
  Calls,             \* tool calls the model may make
  Parts,             \* call -> parts its arguments are sent in
  Kind,              \* call -> "refused", "blocked", "mcp", "internal" or "service"
  Attachments,       \* media of the first message: "image", "pdf" or "file"
  MaxInteractions,   \* maxToolInteractions
  MaxBatch,          \* bound: calls of one response
  Permission,        \* the request for permissions among the awaited replies
  None

Media == DOMAIN Attachments
Kinds == {"refused", "blocked", "mcp", "internal", "service"}
MediaTypes == {"image", "pdf", "file"}

ASSUME LLMAssumption ==
  /\ Calls \cap Nat = {} /\ {Permission, None} \cap (Calls \cup Nat) = {}
  /\ Parts \in [Calls -> Nat]
  /\ Kind \in [Calls -> Kinds]
  /\ Attachments \in Seq(MediaTypes)
  /\ MaxInteractions \in Nat

VARIABLES
  vendor,        \* "openai" or "anthropic"
  streaming,     \* invocationParam.stream
  messages,      \* the history, also in the persisted AgentState
  current,       \* toolInteractions.current
  phase,         \* "ready", "waiting", "answered", "suspended", "done" or "failed"
  wire,          \* the messages of the last request
  issued,        \* calls the model has made so far
  opened,        \* what the model has sent of its response: its calls,
  parts,         \*   the parts of their arguments,
  said,          \*   and whether there is text
  blocks,        \* toolCallsMap, toolUseBlocks: index -> call and arguments
  requests,      \* toolRequests
  result,        \* what the adapter returns; history: why the response stopped
  awaiting,      \* the replies the suspended agent waits for, in order
  shown          \* history: successful requests an attachment was in, in full

config == <<vendor, streaming>>
response == <<opened, parts, said, blocks, requests>>
vars == <<config, messages, current, phase, wire, issued, response, result, awaiting,
          shown>>

Refs == Calls \cup Media \cup {None}
Message(type, ref, seen) == [type |-> type, ref |-> ref, seen |-> seen]
Messages == [type : {"text", "answer", "tool_use", "tool_result"} \cup MediaTypes,
             ref : Refs, seen : BOOLEAN]
Entry(type, ref) == [type |-> type, ref |-> ref]
Entries == [type : {"text", "answer", "tool_use", "tool_result", "no_result", "masked",
                    "limit"} \cup MediaTypes,
            ref : Refs]
Blocks == [call : Calls, input : Seq(Calls \X Nat)]
Texts == {"none", "empty", "text", "truncated", "filtered"}
\* Why a response stops: "other" is any reason the adapters do not know, or none.
Reasons == {"stop", "length", "content_filter", "other"}
NoResult == [calls |-> <<>>, text |-> "none", stop |-> "none"]

TypeOK ==
  /\ vendor \in {"openai", "anthropic"}
  /\ streaming \in BOOLEAN
  /\ messages \in Seq(Messages)
  /\ current \in 0 .. (MaxInteractions + 1)
  /\ phase \in {"ready", "waiting", "answered", "suspended", "done", "failed"}
  /\ wire \in Seq(Entries)
  /\ issued \in SUBSET Calls
  /\ opened \in Seq(Calls)
  /\ parts \in [Calls -> Nat]
  /\ said \in BOOLEAN
  /\ DOMAIN blocks \subseteq 1 .. Len(opened)
  /\ \A i \in DOMAIN blocks : blocks[i] \in Blocks
  /\ requests \in Seq(Calls)
  /\ result \in [calls : Seq(Calls), text : Texts, stop : Reasons \cup {"none"}]
  /\ awaiting \in Seq(Calls \cup {Permission})
  /\ shown \in [Media -> Nat]

\* What the context builder makes of the input: the text, then its media.
Conversation ==
  <<Message("text", None, FALSE)>> \o
    [i \in Media |-> Message(Attachments[i], i, FALSE)]

Init ==
  /\ vendor \in {"openai", "anthropic"}
  /\ streaming \in BOOLEAN
  /\ messages = Conversation
  /\ current = 0
  /\ phase = "ready"
  /\ wire = <<>>
  /\ issued = {}
  /\ opened = <<>>
  /\ parts = [c \in Calls |-> 0]
  /\ said = FALSE
  /\ blocks = <<>>
  /\ requests = <<>>
  /\ result = NoResult
  /\ awaiting = <<>>
  /\ shown = [i \in Media |-> 0]

\* The elements of s that are in S.
Filter(s, S) == FlattenSeq([i \in DOMAIN s |-> IF s[i] \in S THEN <<s[i]>> ELSE <<>>])

-----------------------------------------------------------------------------
(* The request *)

IsSeenMedia(m) == m.type \in MediaTypes /\ m.seen

\* Variant: media that were seen are left out.
WithoutSeenMedia(ms) == SelectSeq(ms, LAMBDA m : ~IsSeenMedia(m))

\* defaultContextTransformer: media that were seen become a text about them.
Transformed(ms) ==
  [i \in DOMAIN ms |->
     IF IsSeenMedia(ms[i]) THEN [ms[i] EXCEPT !.type = "masked"] ELSE ms[i]]

\* A call that has no result gets a text that says so.
ResultType(ms, c) ==
  IF \E i \in DOMAIN ms : ms[i].type = "tool_result" /\ ms[i].ref = c
  THEN "tool_result" ELSE "no_result"

\* A call and, directly after it, its result, wherever that is in the history.
CallEntries(ms, c) == <<Entry("tool_use", c), Entry(ResultType(ms, c), c)>>

OpenAIEntries(ms, m) ==
  CASE m.type = "tool_use"    -> CallEntries(ms, m.ref)
    [] m.type = "tool_result" -> <<>>
    [] OTHER                  -> <<Entry(m.type, m.ref)>>

\* Anthropic takes images and PDFs; other files are left out.
AnthropicEntries(ms, m) ==
  CASE m.type = "tool_use"                -> CallEntries(ms, m.ref)
    [] m.type \in {"tool_result", "file"} -> <<>>
    [] OTHER                              -> <<Entry(m.type, m.ref)>>

formatMessagesForOpenAI(ms) ==
  FlattenSeq([i \in DOMAIN ms |-> OpenAIEntries(ms, ms[i])])
formatMessagesForAnthropic(ms) ==
  FlattenSeq([i \in DOMAIN ms |-> AnthropicEntries(ms, ms[i])])

\* Variant: the budget is tested after the call.
InLoopLate == phase = "ready" /\ current <= MaxInteractions + 1

InLoop == phase = "ready" /\ current <= MaxInteractions

\* In the last iteration the model is told so, in this request only.
Limit == IF current < MaxInteractions THEN <<>> ELSE <<Entry("limit", None)>>

Invoke ==
  /\ InLoop
  /\ phase' = "waiting"
  /\ UNCHANGED <<config, messages, current, issued, response, result, awaiting, shown>>

InvokeOpenAI ==
  /\ vendor = "openai"
  /\ Invoke
  /\ wire' = formatMessagesForOpenAI(Transformed(messages)) \o Limit

InvokeAnthropic ==
  /\ vendor = "anthropic"
  /\ Invoke
  /\ wire' = formatMessagesForAnthropic(Transformed(messages)) \o Limit

-----------------------------------------------------------------------------
(* The response *)

Whole(c) == [k \in 1 .. Parts[c] |-> <<c, k>>]
Sent(c) == [k \in 1 .. parts[c] |-> <<c, k>>]
IsWhole(c) == parts[c] = Parts[c]

\* JSON.parse of the arguments.
Parses(c, input) == input # <<>> /\ input = Whole(c)

\* The next call of the response.
Opens(c) ==
  /\ phase = "waiting"
  /\ c \in Calls \ issued
  /\ Len(opened) < MaxBatch
  /\ issued' = issued \cup {c}
  /\ opened' = Append(opened, c)
  /\ UNCHANGED <<config, messages, current, phase, wire, parts, said, requests, result,
                 awaiting, shown>>

\* A new entry of the map of calls, or of blocks.
NewBlock(c) ==
  [i \in DOMAIN blocks \cup {Len(opened) + 1} |->
     IF i \in DOMAIN blocks THEN blocks[i] ELSE [call |-> c, input |-> <<>>]]

OpenAIOpens(c) ==
  /\ vendor = "openai"
  /\ Opens(c)
  /\ blocks' = IF streaming THEN NewBlock(c) ELSE blocks

AnthropicOpens(c) ==
  /\ vendor = "anthropic"
  /\ DOMAIN blocks = {} /\ \A d \in Range(opened) : IsWhole(d)
  /\ Opens(c)
  /\ blocks' = IF streaming THEN NewBlock(c) ELSE blocks

\* The next part of the arguments of the i-th call.
Continues(i) ==
  /\ phase = "waiting"
  /\ i \in DOMAIN opened
  /\ ~IsWhole(opened[i])
  /\ parts' = [parts EXCEPT ![opened[i]] = @ + 1]
  /\ UNCHANGED <<config, messages, current, phase, wire, issued, opened, said, requests,
                 result, awaiting, shown>>

\* Variant: a part is taken for one of the latest call.
LatestBlock(i) == Len(opened)

BlockOf(i) == i

\* The part is appended to the arguments of the block with its index.
WithDelta(i) ==
  [blocks EXCEPT ![BlockOf(i)].input = Append(@, <<opened[i], parts[opened[i]] + 1>>)]

OpenAIContinues(i) ==
  /\ vendor = "openai"
  /\ Continues(i)
  /\ blocks' = IF streaming THEN WithDelta(i) ELSE blocks

AnthropicContinues(i) ==
  /\ vendor = "anthropic"
  /\ i = Len(opened)
  /\ streaming => i \in DOMAIN blocks
  /\ Continues(i)
  /\ blocks' = IF streaming THEN WithDelta(i) ELSE blocks

\* content_block_stop: the arguments are parsed, or the call is skipped.
AnthropicStops(i) ==
  /\ vendor = "anthropic" /\ streaming
  /\ phase = "waiting"
  /\ i \in DOMAIN blocks
  /\ requests' = IF Parses(blocks[i].call, blocks[i].input)
                 THEN Append(requests, blocks[i].call) ELSE requests
  /\ blocks' = Restrict(blocks, DOMAIN blocks \ {i})
  /\ UNCHANGED <<config, messages, current, phase, wire, issued, opened, parts, said,
                 result, awaiting, shown>>

Says ==
  /\ phase = "waiting"
  /\ opened = <<>> /\ ~said
  /\ said' = TRUE
  /\ UNCHANGED <<config, messages, current, phase, wire, issued, opened, parts, blocks,
                 requests, result, awaiting, shown>>

\* At the end of a response everything is whole.  Anthropic stops every block it
\* has started before it gives the reason; only OpenAI filters contents.
StopsFor(reason) ==
  /\ phase = "waiting"
  /\ reason = "stop" => \A c \in Range(opened) : IsWhole(c)
  /\ vendor = "anthropic" =>
       reason # "content_filter" /\ (reason # "other" => DOMAIN blocks = {})

Content(reason) ==
  CASE reason = "length"         -> "truncated"
    [] reason = "content_filter" -> "filtered"
    [] OTHER                     -> IF said THEN "text" ELSE "empty"

\* Variant: what the model has seen is not counted.
NothingSeen(ms) == ms

\* Everything in the history has been seen, seenCount > 0.
Seen(ms) == [i \in DOMAIN ms |-> [ms[i] EXCEPT !.seen = TRUE]]

\* The adapter returns, with calls or else with a text, and the loop counts.
Returns(calls, reason) ==
  /\ result' = [calls |-> calls, stop |-> reason,
                text |-> IF calls = <<>> THEN Content(reason) ELSE "none"]
  /\ phase' = "answered"
  /\ current' = current + 1
  /\ messages' = Seen(messages)
  /\ shown' = [i \in Media |-> shown[i] + IF Entry(Attachments[i], i) \in Range(wire)
                                          THEN 1 ELSE 0]
  /\ UNCHANGED <<config, wire, issued, response, awaiting>>

\* nonStreamableOpenAI: calls whose arguments cannot be parsed are dropped.
OpenAIAnswers(reason) ==
  /\ vendor = "openai" /\ ~streaming
  /\ StopsFor(reason)
  /\ Returns(Filter(opened, {c \in Calls : Parses(c, Sent(c))}), reason)

\* streamableOpenAI: likewise, once the stream has ended.
OpenAIStreamEnds(reason) ==
  LET parsed == {i \in DOMAIN opened : Parses(blocks[i].call, blocks[i].input)} IN
  /\ vendor = "openai" /\ streaming
  /\ StopsFor(reason)
  /\ Returns(Filter([i \in DOMAIN opened |-> blocks[i].call],
                    {blocks[i].call : i \in parsed}), reason)

\* nonStreamableAnthropic: the vendor has parsed the arguments.
AnthropicAnswers(reason) ==
  /\ vendor = "anthropic" /\ ~streaming
  /\ StopsFor(reason)
  /\ Returns(opened, reason)

\* streamableAnthropic: the calls were parsed as their blocks stopped.
AnthropicStreamEnds(reason) ==
  /\ vendor = "anthropic" /\ streaming
  /\ StopsFor(reason)
  /\ Returns(requests, reason)

\* The handler throws: the request fails or its stream breaks off, a tool, the
\* permission manager or the output builder throws, or a decision is an error.
Fails ==
  /\ phase \in {"waiting", "answered", "suspended"}
  /\ phase' = "failed"
  /\ UNCHANGED <<config, messages, current, wire, issued, response, result, awaiting,
                 shown>>

-----------------------------------------------------------------------------
(* The loop *)

\* The response has been dealt with.
Forget ==
  /\ opened' = <<>>
  /\ parts' = [c \in Calls |-> 0]
  /\ said' = FALSE
  /\ blocks' = <<>>
  /\ requests' = <<>>
  /\ result' = NoResult

OfKind(calls, K) == Filter(calls, {c \in Calls : Kind[c] \in K})
Results(calls) == [i \in DOMAIN calls |-> Message("tool_result", calls[i], FALSE)]

\* Variant: a call that needs a permission is answered when it is decided.
AnsweredIfRefused(c) == Kind[c] = "refused"

\* A call that is refused or blocked is answered at once.
AnsweredAtOnce(c) == Kind[c] \in {"refused", "blocked"}

UseMessages(c) ==
  <<Message("tool_use", c, TRUE)>> \o IF AnsweredAtOnce(c) THEN Results(<<c>>) ELSE <<>>

\* The calls of the batch enter the history, then the results of MCP tools, then
\* those of internal tools; services, and whoever decides on permissions, are
\* waited for.
Act(batch) ==
  LET calls   == Filter(result.calls, batch)
      blocked == OfKind(calls, {"blocked"})
  IN
  /\ phase = "answered"
  /\ calls # <<>>
  /\ messages' = messages \o FlattenSeq([i \in DOMAIN calls |-> UseMessages(calls[i])])
                   \o Results(OfKind(calls, {"mcp"})) \o Results(OfKind(calls, {"internal"}))
  /\ awaiting' = OfKind(calls, {"service"}) \o
                   IF blocked = <<>> THEN <<>> ELSE <<Permission>>
  /\ phase' = IF awaiting' = <<>> THEN "ready" ELSE "suspended"
  /\ Forget
  /\ UNCHANGED <<config, current, wire, issued, shown>>

\* All replies are in: results, and the decision on permissions as a text.
Resume ==
  /\ phase = "suspended"
  /\ messages' = messages \o [i \in DOMAIN awaiting |->
       IF awaiting[i] = Permission THEN Message("text", None, FALSE)
       ELSE Message("tool_result", awaiting[i], FALSE)]
  /\ awaiting' = <<>>
  /\ phase' = "ready"
  /\ UNCHANGED <<config, current, wire, issued, response, result, shown>>

\* A text goes to the output builder; what it answers is in the messages.
Output(feedback, next) ==
  /\ phase = "answered"
  /\ result.calls = <<>>
  /\ messages' = messages \o feedback
  /\ phase' = next
  /\ Forget
  /\ UNCHANGED <<config, current, wire, issued, awaiting, shown>>

Accepts == Output(<<Message("answer", None, TRUE)>>, "done")
Rejects == Output(<<Message("answer", None, TRUE), Message("text", None, FALSE)>>, "ready")

\* Neither data nor an error: the same is asked again.
AnswersNothing == Output(<<>>, "ready")

Exhausted ==
  /\ phase = "ready" /\ ~InLoop
  /\ phase' = "failed"
  /\ UNCHANGED <<config, messages, current, wire, issued, response, result, awaiting,
                 shown>>

-----------------------------------------------------------------------------
Adapter ==
  \/ InvokeOpenAI \/ InvokeAnthropic
  \/ \E c \in Calls : OpenAIOpens(c) \/ AnthropicOpens(c)
  \/ \E i \in 1 .. MaxBatch :
       OpenAIContinues(i) \/ AnthropicContinues(i) \/ AnthropicStops(i)
  \/ Says
  \/ \E reason \in Reasons :
       \/ OpenAIAnswers(reason) \/ OpenAIStreamEnds(reason)
       \/ AnthropicAnswers(reason) \/ AnthropicStreamEnds(reason)
  \/ Fails

Loop ==
  \/ \E batch \in SUBSET Range(result.calls) : Act(batch)
  \/ Resume
  \/ Accepts \/ Rejects \/ AnswersNothing
  \/ Exhausted

Next == Adapter \/ Loop

Spec == Init /\ [][Next]_vars

-----------------------------------------------------------------------------
(* Properties *)

\* Calls whose block had not stopped when Anthropic's stream ended.
Unfinished == IF vendor = "anthropic" THEN {opened[i] : i \in DOMAIN blocks} ELSE {}

\* A response assembled from a stream says what the model sent: the calls whose
\* arguments came whole, in order, also if they were interleaved, cut short or
\* the last thing in the stream; a text only if there are none, marked if it is
\* not all and the vendor says so (streamable.ts and nonstreamable.ts of both
\* vendors).  Calls without arguments are dropped, except from Anthropic's plain
\* responses.  A response that stops for a reason the adapters do not know, or a
\* stream that ends without one, is taken for a whole text.
StreamedAsSent ==
  LET kept == {c \in Calls \ Unfinished : IsWhole(c) /\ Parts[c] > 0} IN
  phase = "answered" =>
    /\ result.calls = IF vendor = "anthropic" /\ ~streaming THEN opened
                      ELSE Filter(opened, kept)
    /\ result.calls = <<>> /\ result.stop # "other" /\
       (\E c \in Range(opened) : ~IsWhole(c)) => result.text \in {"truncated", "filtered"}

\* Both vendors refuse a request in which a call is not followed by its result
\* or that has a call twice; a missing result would go unnoticed, for the
\* formatters make one up (utils.ts of both, agentLoop.ts:164-440).
EveryCallHasItsResult ==
  phase = "waiting" =>
    /\ \A i \in DOMAIN wire : wire[i].type = "tool_use" =>
         i < Len(wire) /\ wire[i + 1] = Entry("tool_result", wire[i].ref)
    /\ \A i, j \in DOMAIN wire :
         wire[i].type = "tool_use" /\ wire[i] = wire[j] => i = j

\* Media the vendor's formatter leaves out.
Omitted == {i \in Media : vendor = "anthropic" /\ Attachments[i] = "file"}

\* An attachment is sent in full until a request with it has succeeded, and
\* never again: what the model is told to have looked at already, it was shown
\* (defaultContextTransformer.ts:7-16, agentLoop.ts:155-157).  Anthropic's
\* formatter leaves out some files, of which it is told so all the same.
MediaShownOnce ==
  phase = "waiting" =>
    \A i \in Media \ Omitted :
      /\ shown[i] <= 1
      /\ Entry(Attachments[i], i) \in Range(wire) <=> shown[i] = 0
      /\ Entry("masked", i) \in Range(wire) <=> shown[i] = 1

\* A request without what belongs to it alone.
Lasting(w) ==
  LET kept == Filter(w, {x \in Range(w) : x.type # "limit" /\ x.ref \notin Omitted})
  IN  [i \in DOMAIN kept |->
         IF kept[i].ref \in Media THEN Entry("media", kept[i].ref) ELSE kept[i]]

\* The conversation only grows: each request repeats the one before and adds to
\* its end, whatever results came late, in another order, or were masked.
ConversationGrows == [][IsPrefix(Lasting(wire), Lasting(wire'))]_wire
=============================================================================
