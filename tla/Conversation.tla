------------------------------ MODULE Conversation ------------------------------
(***************************************************************************)
(* Responses clients that continue a conversation by previous_response_id: *)
(* the response store (responses/store.ts), the history that handleResponses*)
(* puts before the new input (proxy/responses-handler.ts), and its way to  *)
(* the upstream: items to chat messages (translator/responses-to-chat.ts)  *)
(* and chat messages to Anthropic messages (translator/openai-to-          *)
(* anthropic.ts).  Texts, images and the schemas of tools are left out.    *)
(***************************************************************************)
EXTENDS Integers, Sequences, SequencesExt, FiniteSets

CONSTANTS
  MaxTurns,   \* bound on the responses
  MaxCalls,   \* bound on the tool calls of a response
  MaxEntries, \* maxEntries
  MaxBytes    \* maxTotalBytes; an item counts 1, an entry 1 more

VARIABLES
  store,   \* the entries [id, input, output], in the order of the Map
  bytes,   \* totalBytes
  turns,   \* requests so far: each is the id of its response
  flight,  \* requests that wait for their answer: [id, input]
  sent,    \* the messages of the last request that was sent
  chain    \* history: all items of the conversation that ended with a response

vars == <<store, bytes, turns, flight, sent, chain>>

Item(t, c) == [type |-> t, call |-> c]
Msg(r, cs) == [role |-> r, calls |-> cs]  \* calls of an assistant, or the one answered
Init == store = <<>> /\ bytes = 0 /\ turns = 0 /\ flight = {} /\ sent = <<>> /\ chain = <<>>
-----------------------------------------------------------------------------
(* Items to messages *)

\* mergeToolCallIntoAssistant
MergeCall(out, c) ==
  IF out # <<>> /\ Last(out).role = "assistant" /\ Last(out).calls # <<>>
  THEN Front(out) \o <<Msg("assistant", Append(Last(out).calls, c))>>
  ELSE Append(out, Msg("assistant", <<c>>))

\* buildMessagesFromItems: the messages so far, and one item more
Told(out, i) ==
  CASE i.type = "call"      -> MergeCall(out, i.call)
    [] i.type = "output"    -> Append(out, Msg("tool", <<i.call>>))
    [] i.type = "reasoning" -> out
    [] OTHER                -> Append(out, Msg(i.type, <<>>))
Build(items) ==
  LET built[n \in 0..Len(items)] == IF n = 0 THEN <<>> ELSE Told(built[n - 1], items[n]) IN built[Len(items)]

\* A tool message joins the results before it.
Joins(out) == out # <<>> /\ Last(out).role = "results"

\* translateMessagesWithToolCoalescing: system messages go to the top, the results
\* of a run of tool messages into one user message.
Passed(out, m) ==
  CASE m.role = "system"             -> out
    [] m.role = "tool" /\ Joins(out) -> Front(out) \o <<Msg("results", Last(out).calls \o m.calls)>>
    [] OTHER                         -> Append(out, IF m.role = "tool" THEN Msg("results", m.calls) ELSE m)
Anthropic(messages) ==
  LET passed[n \in 0..Len(messages)] == IF n = 0 THEN <<>> ELSE Passed(passed[n - 1], messages[n]) IN passed[Len(messages)]
-----------------------------------------------------------------------------
(* The response store *)

Bytes(e) == Len(e.input) + Len(e.output) + 1
Total(s) ==
  LET sum[n \in 0..Len(s)] == IF n = 0 THEN 0 ELSE sum[n - 1] + Bytes(s[n]) IN sum[Len(s)]

\* The entry of a response, and the Map without it.
Has(id)  == \E n \in 1..Len(store) : store[n].id = id
Find(id) == CHOOSE n \in 1..Len(store) : store[n].id = id
Rest(id) == IF Has(id) THEN RemoveAt(store, Find(id)) ELSE store

\* set, with the oldest entries evicted until both bounds hold
Evicted(s, n) ==
  LET over(k) == Len(s) - k > MaxEntries \/ n - Total(SubSeq(s, 1, k)) > MaxBytes
  IN  CHOOSE k \in 0..Len(s) : (k = Len(s) \/ ~over(k)) /\ \A j \in 0..k - 1 : over(j)
Put(e) ==
  IF Bytes(e) > MaxBytes THEN UNCHANGED <<store, bytes>>
  ELSE LET s == Append(Rest(e.id), e)
           n == bytes - (IF Has(e.id) THEN Bytes(store[Find(e.id)]) ELSE 0) + Bytes(e)
           k == Evicted(s, n)
       IN  store' = SubSeq(s, k + 1, Len(s)) /\ bytes' = n - Total(SubSeq(s, 1, k))
-----------------------------------------------------------------------------
(* Requests *)

\* What a client says next: the outputs of the calls it was asked for, in any order,
\* and then perhaps a message.
Asked(items) == {items[n].call : n \in {m \in 1..Len(items) : items[m].type = "call"}}
Returned(order) == [n \in DOMAIN order |-> Item("output", order[n])]
Results(asked)  == {Returned(p) : p \in {q \in [1..Cardinality(asked) -> asked] : Range(q) = asked}}
Replies(output) ==
  LET done == Results(Asked(output))
  IN  IF Asked(output) = {} THEN {<<Item("user", 0)>>, <<Item("system", 0), Item("user", 0)>>}
      ELSE done \cup {Append(d, Item("user", 0)) : d \in done} \cup {<<d[1], Item("system", 0)>> \o Tail(d) : d \in done}

Ask(id, input, whole) ==
  /\ turns' = id /\ flight' = flight \cup {[id |-> id, input |-> input]}
  /\ sent' = Anthropic(Build(input)) /\ chain' = Append(chain, whole)

\* A first request.
Begin ==
  /\ turns < MaxTurns /\ Ask(turns + 1, <<Item("user", 0)>>, <<Item("user", 0)>>)
  /\ UNCHANGED <<store, bytes>>

\* One that continues an answered request: get moves the entry to the end.  An
\* entry that is not there any more, or too old, is a 404.
Continue(prev) ==
  /\ turns < MaxTurns /\ Has(prev)
  /\ LET e == store[Find(prev)]
     IN  /\ store' = Append(Rest(prev), e) /\ UNCHANGED bytes
         /\ \E new \in Replies(e.output) : Ask(turns + 1, e.input \o e.output \o new, chain[prev] \o new)
Expires(prev) ==
  /\ Has(prev) /\ bytes' = bytes - Bytes(store[Find(prev)])
  /\ store' = Rest(prev) /\ UNCHANGED <<turns, flight, sent, chain>>

\* Mutant: only the new input is kept.
StoredMutant(r, output) == [id |-> r.id, input |-> <<Last(r.input)>>, output |-> output]
\* buildStoredResponse
Stored(r, output) == [id |-> r.id, input |-> r.input, output |-> output]

\* The answer (FinalOutput of StreamTranslation): reasoning, a message, calls.
\* Calls are told apart by the turn and their number.
Calls(id, k) == [n \in 1..k |-> Item("call", 10 * id + n)]
Outputs(id) ==
  {r \o m \o Calls(id, k) :
     r \in {<<>>, <<Item("reasoning", 0)>>}, m \in {<<>>, <<Item("assistant", 0)>>}, k \in 0..MaxCalls}
  \ {<<>>, <<Item("reasoning", 0)>>}

\* The request ends: answered and stored, or stored no more, or failed.
Answer(r) ==
  /\ r \in flight /\ flight' = flight \ {r}
  /\ \/ UNCHANGED <<store, bytes, chain>>
     \/ \E output \in Outputs(r.id) :
          Put(Stored(r, output)) /\ chain' = [chain EXCEPT ![r.id] = @ \o output]
  /\ UNCHANGED <<turns, sent>>

Next == Begin \/ (\E p \in 1..turns : Continue(p) \/ Expires(p)) \/ (\E r \in flight : Answer(r))
Spec == Init /\ [][Next]_vars
-----------------------------------------------------------------------------
\* Every call of a message is answered by the message that follows it, which the
\* Anthropic API demands, and every result has its call there.
Paired(messages) ==
  \A n \in 1..Len(messages) :
    /\ messages[n].role = "assistant" /\ messages[n].calls # <<>> =>
         n < Len(messages) /\ messages[n + 1].role = "results" /\ Range(messages[n + 1].calls) = Range(messages[n].calls)
    /\ messages[n].role = "results" => n > 1 /\ messages[n - 1].role = "assistant"

\* A conversation goes on whole or not at all: what a request carries is all that
\* was said since its first, with each call before its results, however entries
\* were evicted, refreshed or expired meanwhile; and the store stays in its bounds,
\* its count of bytes that of its entries.
ConversationIsWhole ==
  /\ \A r \in flight : r.input = chain[r.id]
  /\ Paired(sent)
  /\ bytes = Total(store) /\ bytes <= MaxBytes /\ Len(store) <= MaxEntries
=============================================================================
