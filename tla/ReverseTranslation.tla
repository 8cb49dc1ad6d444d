--------------------------- MODULE ReverseTranslation ---------------------------
(***************************************************************************)
(* openaiSseToAnthropicSse (translator/sse-translator.ts): chat chunks to  *)
(* Anthropic events.  No route of the proxy takes it at present            *)
(* (translateAnthropicToOpenAI is constantly false in handler.ts).         *)
(*                                                                         *)
(* A chunk carries one delta.  A tool call may show its id, its name and   *)
(* its arguments in any order, and its block is opened when both id and    *)
(* name are known.                                                         *)
(***************************************************************************)
EXTENDS Integers, Sequences, SequencesExt, FiniteSets

CONSTANTS Call, MaxChunks

VARIABLES
  chunks,   \* the chunks read
  active,   \* activeBlock: [type, index], or NoBlock
  tools,    \* toolBlocks, by call
  openTools,\* openToolBlockIndices
  next,     \* blockIndex
  content,  \* contentClosed
  stopReason, \* a finish_reason was seen
  state,    \* "open", "stopped" (messageStopped), "failed", "closed"
  events

vars == <<chunks, active, tools, openTools, next, content, stopReason, state, events>>

NoBlock == [type |-> "none", index |-> -1]
NoTool == [index |-> -1, id |-> FALSE, name |-> FALSE, started |-> FALSE, pending |-> 0]
ChunkTypes == [type : {"text", "thinking", "finish", "usage", "DONE", "error"}, call : {0}, has : {{}}]
              \cup [type : {"tool"}, call : Call, has : {{"id"}, {"name"}, {"args"}, {"id", "name"}, {"id", "name", "args"}}]
Ev(e, i) == [event |-> e, index |-> i]

Init ==
  /\ chunks = <<>> /\ active = NoBlock /\ tools = [c \in Call |-> NoTool] /\ openTools = <<>> /\ next = 0
  /\ content = "open" /\ stopReason = FALSE /\ state = "open" /\ events = <<>>

\* closeActiveBlock, as events
Closing == IF active = NoBlock THEN <<>> ELSE <<Ev("stop", active.index)>>

\* ensureActiveBlock, and the delta
TextBlock(type) ==
  /\ IF active.type = type
     THEN events' = Append(events, Ev("delta", active.index)) /\ UNCHANGED <<active, next>>
     ELSE /\ active' = [type |-> type, index |-> next] /\ next' = next + 1
          /\ events' = events \o Closing \o <<Ev("start", next), Ev("delta", next)>>
  /\ UNCHANGED <<tools, openTools, content, stopReason, state>>

\* Mutant: arguments that came before the block was opened are dropped.
FlushMutant(t) == 0
\* The arguments sent with the start of a block.
Flush(t) == t.pending

\* handleToolCalls
Tool(c, has) ==
  LET old   == tools[c]
      at    == IF old.index = -1 THEN next ELSE old.index
      known == [old EXCEPT !.index = at, !.id = @ \/ "id" \in has, !.name = @ \/ "name" \in has]
      opens == ~known.started /\ known.id /\ known.name
      begun == known.started \/ opens
      args  == IF "args" \in has THEN 1 ELSE 0
  IN  /\ next' = IF old.index = -1 THEN next + 1 ELSE next
      /\ active' = NoBlock
      /\ tools' = [tools EXCEPT ![c] = [known EXCEPT !.started = begun, !.pending = IF opens THEN 0 ELSE IF begun THEN @ ELSE @ + args]]
      /\ openTools' = IF opens THEN Append(openTools, at) ELSE openTools
      /\ events' = events \o Closing
                   \o (IF opens THEN <<Ev("start", at)>> \o [n \in 1..Flush(known) |-> Ev("delta", at)] ELSE <<>>)
                   \o (IF begun THEN [n \in 1..args |-> Ev("delta", at)] ELSE <<>>)
      /\ UNCHANGED <<content, stopReason, state>>

\* startPendingToolBlocks, in the order of the blocks
Late == {c \in Call : tools[c].index # -1 /\ ~tools[c].started}
LateOrder == SetToSortSeq(Late, LAMBDA c, d : tools[c].index < tools[d].index)
LateEvents == FlattenSeq([n \in 1..Len(LateOrder) |->
  LET t == tools[LateOrder[n]] IN <<Ev("start", t.index)>> \o [k \in 1..Flush(t) |-> Ev("delta", t.index)]])

\* closeContent: the late blocks are closed behind those that were open.
CloseContent(then) ==
  IF content = "closed"
  THEN events' = events \o then /\ UNCHANGED <<active, tools, openTools, content>>
  ELSE /\ content' = "closed" /\ active' = NoBlock /\ openTools' = <<>>
       /\ tools' = [c \in Call |-> IF c \in Late THEN [tools[c] EXCEPT !.started = TRUE, !.pending = 0] ELSE tools[c]]
       /\ LET open == openTools \o [n \in 1..Len(LateOrder) |-> tools[LateOrder[n]].index]
          IN  events' = events \o Closing \o LateEvents \o [n \in 1..Len(open) |-> Ev("stop", open[n])] \o then

\* finalizeStream
Finalize == CloseContent(IF state = "open" THEN <<Ev("message_stop", -1)>> ELSE <<>>)

\* What the upstream sends: deltas, then a finish_reason, usage and [DONE].
Grammatical(k) ==
  /\ stopReason => k.type \in {"usage", "DONE", "error"}
  /\ state = "stopped" => k.type = "error"

\* One chunk.
Take(k) ==
  /\ state \in {"open", "stopped"} /\ Len(chunks) < MaxChunks /\ Grammatical(k) /\ chunks' = Append(chunks, k)
  /\ CASE k.type \in {"text", "thinking"} -> TextBlock(k.type)
       [] k.type = "tool"   -> Tool(k.call, k.has)
       [] k.type = "finish" -> stopReason' = TRUE /\ CloseContent(<<>>) /\ UNCHANGED <<next, state>>
       [] k.type = "DONE"   -> state' = "stopped" /\ Finalize /\ UNCHANGED <<next, stopReason>>
       [] k.type = "error"  -> /\ state' = "failed" /\ events' = Append(events, Ev("error", -1))
                               /\ UNCHANGED <<active, tools, openTools, next, content, stopReason>>
       [] OTHER             -> UNCHANGED <<active, tools, openTools, next, content, stopReason, state, events>>

\* The stream ends: finished if it said so, an error otherwise.
Ends ==
  /\ state \in {"open", "stopped"}
  /\ IF state = "stopped" \/ stopReason
     THEN Finalize /\ state' = "closed"
     ELSE /\ events' = Append(events, Ev("error", -1)) /\ state' = "failed"
          /\ UNCHANGED <<active, tools, openTools, content>>
  /\ UNCHANGED <<chunks, next, stopReason>>

Next == (\E k \in ChunkTypes : Take(k)) \/ Ends
Spec == Init /\ [][Next]_vars
-----------------------------------------------------------------------------
At(e, i) == {n \in 1..Len(events) : events[n] = Ev(e, i)}
Arguments(c) == Cardinality({n \in 1..Len(chunks) : chunks[n].type = "tool" /\ chunks[n].call = c /\ "args" \in chunks[n].has})

\* When a message has stopped, every block was started and stopped once, with its
\* deltas between, and no arguments of a call are lost, whatever the order in which
\* its id, its name and its arguments came.
BlocksAreWhole ==
  state = "closed" /\ At("error", -1) = {} =>
    /\ Cardinality(At("message_stop", -1)) = 1
    /\ \A i \in 0..next - 1 :
         /\ Cardinality(At("start", i)) = 1 /\ Cardinality(At("stop", i)) = 1
         /\ \A d \in At("delta", i), a \in At("start", i), z \in At("stop", i) : a < d /\ d < z
    /\ \A c \in Call : tools[c].index # -1 => Cardinality(At("delta", tools[c].index)) = Arguments(c)
=============================================================================
