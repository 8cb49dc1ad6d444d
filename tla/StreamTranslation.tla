--------------------------- MODULE StreamTranslation ---------------------------
(***************************************************************************)
(* The two translators a stream goes through for a Responses client: from  *)
(* Anthropic events to chat chunks (translator/sse-translator.ts), and from*)
(* chat chunks to Responses events (translator/chat-to-responses.ts, driven*)
(* by streamResponse in proxy/responses-handler.ts).  A chat client reads  *)
(* the queue between the two.                                              *)
(*                                                                         *)
(* Text, arguments and usage are left out: a delta counts as not empty.    *)
(***************************************************************************)
EXTENDS Integers, Sequences, FiniteSets, Functions

CONSTANTS
  Block,      \* indices of content blocks that are tool calls: 1..n
  MaxFrames   \* bound on the frames of a stream

VARIABLES
  fed,      \* the Anthropic frames the translator was given
  upstream, \* "open", "eof", "failed"
  tr,       \* TranslationState: [calls, finished, stopped, failed]
  queue,    \* chat chunks not yet read
  source,   \* the chat stream: "open", "closed", "errored"
  rs,       \* ResponsesStreamState, and the events sent so far
  doneSeen,
  outcome,  \* "open", "completed", "failed", "left"
  stored    \* the response went to the response store

vars == <<fed, upstream, tr, queue, source, rs, doneSeen, outcome, stored>>

Frame == [type : {"start", "think", "text", "finish", "stop", "error"}, block : {0}] \cup [type : {"tool", "args"}, block : Block]
Chunk(t, c) == [type |-> t, call |-> c]
Event(e, i) == [event |-> e, item |-> i]
\* Items: the response, the reasoning, the message; call n is item n.
Response == 0
Reasoning == -1
Message == -2

Init ==
  /\ fed = <<>> /\ upstream = "open"
  /\ tr = [calls |-> <<>>, finished |-> FALSE, stopped |-> FALSE, failed |-> FALSE]
  /\ queue = <<>> /\ source = "open"
  /\ rs = [created |-> FALSE, reasoning |-> "none", message |-> FALSE, textPart |-> FALSE,
           calls |-> {}, next |-> 0, index |-> <<>>, events |-> <<>>]
  /\ doneSeen = FALSE /\ outcome = "open" /\ stored = FALSE
-----------------------------------------------------------------------------
(* Anthropic events to chat chunks *)

\* What the upstream sends: blocks between message_start and message_delta, each
\* tool block started once, before its arguments.
Grammatical(f) ==
  LET seen(t) == \E i \in 1..Len(fed) : fed[i].type = t
  IN  /\ (f.type = "start" <=> fed = <<>>) \/ f.type = "error"
      /\ ~seen("stop") /\ ~seen("error") /\ (seen("finish") => f.type \in {"stop", "error"})
      /\ f.type = "tool" => \A b \in Block : (b < f.block <=> [type |-> "tool", block |-> b] \in Range(fed))
      /\ f.type = "args" => [type |-> "tool", block |-> f.block] \in Range(fed)

\* blockIndexToToolCallIndex: the calls are numbered in the order of their blocks.
CallOf(t, b) == CHOOSE n \in 1..Len(t.calls) : t.calls[n] = b

\* translateEvent: the chat chunks of a frame.
ChunksOf(t, f) ==
  CASE t.failed           -> <<>>
    [] f.type = "start"   -> <<Chunk("role", 0)>>
    [] f.type \in {"think", "text", "error"} -> <<Chunk(f.type, 0)>>
    [] f.type = "tool"    -> <<Chunk("tool", Len(t.calls) + 1)>>
    [] f.type = "args"    -> IF f.block \in Range(t.calls) THEN <<Chunk("args", CallOf(t, f.block))>> ELSE <<>>
    [] OTHER              -> IF t.finished THEN <<>> ELSE <<Chunk("finish", 0)>>

StateAfter(t, f) ==
  IF t.failed THEN t
  ELSE [t EXCEPT !.failed = f.type = "error",
                 !.calls = IF f.type = "tool" THEN Append(@, f.block) ELSE @,
                 !.finished = @ \/ f.type \in {"finish", "stop"},
                 !.stopped = @ \/ f.type = "stop"]

\* A frame, also one without its last blank line at the end of the stream.
Translate ==
  /\ upstream = "open" /\ source = "open" /\ ~tr.failed /\ Len(fed) < MaxFrames
  /\ \E f \in Frame :
       /\ Grammatical(f)
       /\ fed' = Append(fed, f) /\ tr' = StateAfter(tr, f) /\ queue' = queue \o ChunksOf(tr, f)
  /\ UNCHANGED <<upstream, source, rs, doneSeen, outcome, stored>>

UpstreamEnds ==
  /\ upstream = "open" /\ upstream' \in {"eof", "failed"}
  /\ UNCHANGED <<fed, tr, queue, source, rs, doneSeen, outcome, stored>>

\* Mutant: the end marker follows every stream that did not fail.
MarkerMutant == <<Chunk("DONE", 0)>>
\* The last chunk: [DONE] only after message_stop, an error otherwise.
Marker == IF tr.stopped THEN <<Chunk("DONE", 0)>> ELSE <<Chunk("error", 0)>>

\* anthropicSseToOpenaiSse ends.  A read error drops what was not read.
TranslatorEnds ==
  /\ source = "open"
  /\ \/ tr.failed /\ source' = "closed" /\ UNCHANGED queue
     \/ ~tr.failed /\ upstream = "eof" /\ source' = "closed" /\ queue' = queue \o Marker
     \/ ~tr.failed /\ upstream = "failed" /\ source' = "errored" /\ queue' = <<>>
  /\ UNCHANGED <<fed, upstream, tr, rs, doneSeen, outcome, stored>>
-----------------------------------------------------------------------------
(* Chat chunks to Responses events *)

Send(s, e, i)  == [s EXCEPT !.events = Append(@, Event(e, i))]
\* allocIndex and output_item.added
Open(s, i) == [Send(s, "added", i) EXCEPT !.next = @ + 1, !.index = Append(@, i)]

Created(s) == IF s.created THEN s ELSE [Send(s, "created", Response) EXCEPT !.created = TRUE]
EnsureReasoning(s) == IF s.reasoning # "none" THEN s ELSE [Open(s, Reasoning) EXCEPT !.reasoning = "open"]
CloseReasoning(s)  == IF s.reasoning # "open" THEN s ELSE [Send(s, "done", Reasoning) EXCEPT !.reasoning = "done"]
EnsureMessage(s)   == IF s.message THEN s ELSE [Open(s, Message) EXCEPT !.message = TRUE]
EnsureTextPart(s)  == IF s.textPart THEN s ELSE [Send(s, "part", Message) EXCEPT !.textPart = TRUE]

\* handleChoice
Handle(s, c) ==
  CASE c.type = "think" -> Send(EnsureReasoning(s), "delta", Reasoning)
    [] c.type = "text"  -> Send(EnsureTextPart(EnsureMessage(CloseReasoning(s))), "delta", Message)
    [] c.type = "tool"  -> [Open(CloseReasoning(s), c.call) EXCEPT !.calls = @ \cup {c.call}]
    [] c.type = "args"  -> Send(s, "delta", c.call)
    [] OTHER            -> s

\* synthesizeReasoningFallbackMessage: reasoning alone is shown as the message.
Fallback(s) ==
  IF s.message \/ s.reasoning = "none" \/ s.calls # {} THEN s
  ELSE Send(EnsureTextPart(EnsureMessage(s)), "delta", Message)
CloseMessage(s) == IF s.message THEN Send(s, "done", Message) ELSE s

\* closeToolItems, in the order of the calls
CloseCalls(s) == [s EXCEPT !.events = @ \o [n \in 1..Cardinality(s.calls) |-> Event("done", n)]]

\* finalizeResponsesStream
Finalize(s) == Send(CloseCalls(CloseMessage(Fallback(CloseReasoning(Created(s))))), "completed", Response)

\* The order of the items in the response that completes (buildFinalOutput).
FinalOutput(s) ==
  (IF s.reasoning = "none" THEN <<>> ELSE <<Reasoning>>)
  \o (IF s.message THEN <<Message>> ELSE <<>>) \o [n \in 1..Cardinality(s.calls) |-> n]

Fail == rs' = Send(rs, "failed", Response) /\ outcome' = "failed"

\* streamResponse: one chunk.  An error chunk ends the stream.
Read ==
  /\ outcome = "open" /\ queue # <<>> /\ queue' = Tail(queue) /\ UNCHANGED stored
  /\ LET c == Head(queue)
     IN  CASE c.type = "DONE"  -> doneSeen' = TRUE /\ UNCHANGED <<rs, outcome>>
           [] c.type = "error" -> Fail /\ UNCHANGED doneSeen
           [] OTHER            -> rs' = Handle(Created(rs), c) /\ UNCHANGED <<doneSeen, outcome>>
  /\ UNCHANGED <<fed, upstream, tr, source>>

\* It ends: a response is completed, and may be stored, only after the marker.
End ==
  /\ outcome = "open" /\ queue = <<>> /\ source # "open"
  /\ IF source = "closed" /\ doneSeen
     THEN rs' = Finalize(rs) /\ outcome' = "completed" /\ stored' \in BOOLEAN
     ELSE Fail /\ UNCHANGED stored
  /\ UNCHANGED <<fed, upstream, tr, queue, source, doneSeen>>

\* The cancel goes through both translators to the upstream.
Cancel ==
  /\ outcome = "open" /\ outcome' = "left" /\ source' = "closed" /\ upstream' = "eof" /\ queue' = <<>>
  /\ UNCHANGED <<fed, tr, rs, doneSeen, stored>>

Next == Translate \/ UpstreamEnds \/ TranslatorEnds \/ Read \/ End \/ Cancel
Spec == Init /\ [][Next]_vars
-----------------------------------------------------------------------------
Events == rs.events
At(e, i) == {n \in 1..Len(Events) : Events[n] = Event(e, i)}

\* A response is reported complete, or stored, only if the upstream finished the
\* turn, through two translators that each end on errors of the other; and then
\* each item that was opened was closed, once - a client waits for ever on a call that
\* is not done - and whatever was said of it came after it was opened and, of a message
\* or a call, before it was closed.  (Reasoning may go on after its item is closed.)
TurnIsWhole ==
  /\ outcome = "completed" \/ stored => fed # <<>> /\ fed[Len(fed)].type = "stop"
  /\ outcome \in {"completed", "failed"} => Events[Len(Events)].event = outcome /\ Cardinality(At("completed", Response) \cup At("failed", Response)) = 1
  /\ outcome = "completed" =>
       \A i \in {Reasoning, Message} \cup Block :
         /\ Cardinality(At("added", i)) = Cardinality(At("done", i)) /\ Cardinality(At("done", i)) <= 1
         /\ \A d \in At("delta", i) : \E a \in At("added", i), z \in At("done", i) : a < d /\ (i # Reasoning => d < z)
=============================================================================
