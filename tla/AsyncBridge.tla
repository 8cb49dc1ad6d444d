------------------------------ MODULE AsyncBridge ------------------------------
(***************************************************************************)
(* An off-peak request (async/handler.ts, bridge.ts, client.ts): it takes  *)
(* a ticket, waits for its turn, and streams the model's answer; a ticket  *)
(* that expires before the first frame of output is replaced by another.   *)
(* The client reads an event stream, its translation, or one document.     *)
(*                                                                         *)
(* Each call to the ticket service is a step; the service gives each       *)
(* request for a ticket a new one.                                         *)
(***************************************************************************)
EXTENDS Naturals, Sequences

CONSTANTS
  MaxRetries,   \* maxRetries
  Polls,        \* polling delays that fit into maxWaitMs
  AnswerFrames  \* bound: frames forwarded to the client

VARIABLES
  kind,      \* "stream", "chat" (translated) or "batch" (one document)
  phase,        \* where the request is
  srv,       \* per ticket: its state at the service
  cur,       \* the ticket in use; 0 before the first
  settles,   \* settle calls sent per ticket (settledTickets)
  given,     \* frames enqueued for the client
  partial,      \* the frame received in partial, "none" otherwise
  aborted,
  signal,    \* clientSignal is aborted: the connection is gone
  left,      \* polling delays before the deadline
  fails,     \* polls failed in a row
  keep       \* the keepalive timer runs

vars == <<kind, phase, srv, cur, settles, given, partial, aborted, signal, left, fails, keep>>

Ticket == 1..(MaxRetries + 1)
PollRetryLimit == 3
Init ==
  /\ kind \in {"stream", "chat", "batch"} /\ phase = "account" /\ cur = 0 /\ given = <<>> /\ partial = "none"
  /\ srv = [t \in Ticket |-> "none"] /\ settles = [t \in Ticket |-> 0]
  /\ aborted = FALSE /\ signal = FALSE /\ left = Polls /\ fails = 0 /\ keep = FALSE

Settled == settles' = [settles EXCEPT ![cur] = IF @ > 0 THEN @ ELSE @ + 1]
ErrorFrame == [ticket |-> 0, frame |-> "error"]
\* emitTerminalError: nothing for a client that left
Tells == given' = IF aborted THEN given ELSE Append(given, ErrorFrame)
Closes == phase' = "closed" /\ keep' = FALSE
\* Every end but a failed retake settles the ticket in use.
EndsWell == Settled /\ Closes /\ UNCHANGED given
EndsBadly == Settled /\ Closes /\ Tells

\* The account, the body and the account once more: all before there is a ticket.
Preflight ==
  /\ phase = "account" /\ phase' \in {"take", "closed"}
  /\ UNCHANGED <<kind, srv, cur, settles, given, partial, aborted, signal, left, fails, keep>>

\* The service has given ticket t: the head of the bridge's loop.
Enters(t, state) ==
  /\ cur' = t /\ srv' = [srv EXCEPT ![t] = state]
  /\ IF aborted THEN settles' = [settles EXCEPT ![t] = 1] /\ Closes
     ELSE phase' = (IF state = "ready" THEN "forward" ELSE "poll") /\ keep' = (state # "ready") /\ UNCHANGED settles
Takes ==
  /\ phase \in {"take", "retake"} /\ UNCHANGED <<kind, partial, aborted, signal, left, fails>>
  /\ \/ ~signal /\ (\E state \in {"queued", "ready"} : Enters(cur + 1, state)) /\ UNCHANGED given
     \* Refused or lost: HTTP 502 before the stream, an error frame in it
     \/ /\ Closes /\ UNCHANGED <<srv, cur, settles>>
        /\ IF phase = "take" THEN UNCHANGED given ELSE Tells

\* Mutant: the expired ticket is left to the service.
ExpiredMutant(late) ==
  IF late \/ cur > MaxRetries THEN EndsBadly
  ELSE phase' = "retake" /\ keep' = FALSE /\ UNCHANGED <<settles, given>>
\* Another ticket, if the retries and the time allow it
Expired(late) ==
  IF late \/ cur > MaxRetries THEN EndsBadly
  ELSE Settled /\ phase' = "retake" /\ keep' = FALSE /\ UNCHANGED given

\* pollBatchStatusWithRetry and waitForReady
Poll ==
  /\ phase = "poll" /\ UNCHANGED <<kind, srv, cur, partial, aborted, signal, left>>
  /\ IF aborted THEN EndsWell /\ UNCHANGED fails
     ELSE \/ IF fails + 1 < PollRetryLimit THEN fails' = fails + 1 /\ UNCHANGED <<phase, settles, given, keep>>
             ELSE EndsBadly /\ UNCHANGED fails
          \/ /\ fails' = 0
             /\ CASE srv[cur] = "ready"  -> phase' = "forward" /\ keep' = FALSE /\ UNCHANGED <<settles, given>>
                  [] srv[cur] = "queued" -> /\ phase' = IF left = 0 THEN "last" ELSE "sleep"
                                            /\ UNCHANGED <<settles, given, keep>>
                  [] OTHER -> \E late \in {FALSE, left = 0} : Expired(late)
Slept == left - 1
Sleep ==
  /\ phase = "sleep" /\ phase' = "poll" /\ left' = Slept
  /\ UNCHANGED <<kind, srv, cur, settles, given, partial, aborted, signal, fails, keep>>
\* The rest of the time, then a timeout of its own: the ticket is not retaken.
LastSleep ==
  /\ phase = "last" /\ EndsBadly /\ UNCHANGED <<kind, srv, cur, partial, aborted, signal, left, fails>>

\* forwardLLM: the ticket may have expired since the poll.
Forward ==
  /\ phase = "forward" /\ UNCHANGED <<kind, srv, cur, aborted, signal, left, fails>>
  /\ \/ EndsBadly /\ UNCHANGED partial                                        \* network or HTTP error
     \/ ~signal /\ srv[cur] = "expired" /\ Expired(FALSE) /\ UNCHANGED partial
     \/ ~signal /\ phase' = "read" /\ partial' = "none" /\ UNCHANGED <<settles, given, keep>>

\* Mutant: whether output was forwarded is not looked at.
CommittedMutant == FALSE
Committed == given # <<>>
\* The frames of one answer; the marker of an expired ticket may come at any time.
Follows(f) ==
  LET last == IF given = <<>> THEN "none" ELSE given[Len(given)].frame IN
  \/ f = "marker"
  \/ f = "start" /\ last = "none"
  \/ f \in {"text", "stop"} /\ last \in {"start", "text"}
Marked == IF Committed THEN EndsBadly ELSE Expired(FALSE)
Completes(f) ==
  IF f = "marker" THEN Marked
  ELSE /\ Len(given) < AnswerFrames
       /\ given' = Append(given, [ticket |-> cur, frame |-> f]) /\ UNCHANGED <<phase, settles, keep>>
Read ==
  /\ phase = "read" /\ ~aborted /\ UNCHANGED <<kind, srv, cur, aborted, signal, left, fails>>
  /\ \/ \E f \in {"start", "text", "stop", "marker"} : partial = "none" /\ Follows(f) /\ Completes(f) /\ UNCHANGED partial
     \/ \E f \in {"start", "text", "stop", "marker"} :
          partial = "none" /\ Follows(f) /\ partial' = f /\ UNCHANGED <<phase, settles, given, keep>>
     \/ partial # "none" /\ Completes(partial) /\ partial' = "none"
     \* Frame of more than 1 MiB, or a broken connection
     \/ EndsBadly /\ UNCHANGED partial
     \* End of the stream: an unfinished frame is discarded, the marker's text in it is seen.
     \/ UNCHANGED partial /\ (IF partial = "marker" THEN Marked ELSE EndsWell)
Leaves ==
  /\ phase = "read" /\ aborted /\ EndsWell
  /\ UNCHANGED <<kind, srv, cur, partial, aborted, signal, left, fails>>

\* The client cancels its stream, or its connection ends (server.ts).  A translated
\* stream and a document do not pass a cancel on.
ClientLeaves(connection) ==
  /\ phase # "closed" /\ ~signal /\ (connection \/ (kind = "stream" /\ cur > 0 /\ ~aborted))
  /\ aborted' = TRUE /\ signal' = connection
  /\ UNCHANGED <<kind, phase, srv, cur, settles, given, partial, left, fails, keep>>
Moves(t) ==
  /\ t = cur /\ phase # "closed"
  /\ \/ srv[t] = "queued" /\ srv' = [srv EXCEPT ![t] = "ready"]
     \/ srv[t] \in {"queued", "ready"} /\ srv' = [srv EXCEPT ![t] = "expired"]
  /\ UNCHANGED <<kind, phase, cur, settles, given, partial, aborted, signal, left, fails, keep>>

Own == Preflight \/ Takes \/ Poll \/ Sleep \/ LastSleep \/ Forward \/ Leaves
Next == Own \/ Read \/ (\E connection \in BOOLEAN : ClientLeaves(connection)) \/ (\E t \in Ticket : Moves(t))

\* Calls to the service have time limits and sleeps end; only the model may be silent,
\* which the abort of its request ends.
Fairness ==
  /\ WF_vars(Preflight \/ Takes) /\ WF_vars(Poll) /\ WF_vars(Sleep \/ LastSleep)
  /\ WF_vars(signal /\ (Forward \/ Leaves))
-----------------------------------------------------------------------------
\* nonStreamChunkedJson, reconstructAnthropicBatch
Frames(f) == {i \in 1..Len(given) : given[i].frame = f}
Message == kind = "batch" /\ phase = "closed" /\ Frames("start") # {} /\ Frames("stop") # {} /\ Frames("error") = {}

\* The client's answer is one: all of its output comes from one ticket, nothing
\* follows an error, no keepalive falls between its frames, and a document with a
\* message has all of it.  A retry never shows.
AnswerIsOne ==
  /\ \A i, j \in 1..Len(given) : {given[i].frame, given[j].frame} \cap {"error"} = {} => given[i].ticket = given[j].ticket
  /\ Frames("error") \subseteq {Len(given)} /\ (keep => given = <<>>)
  /\ Message => given[1].frame = "start" /\ given[Len(given)].frame = "stop"

\* "Every takeTicket matched by exactly one settleOnce": each ticket given up was
\* settled once, whichever way the request ended, and the one in use was not.
TicketsSettled ==
  \A t \in 1..cur : settles[t] = IF t = cur /\ phase \notin {"closed", "retake"} THEN 0 ELSE 1

\* The wait for a turn ends within its deadline, and a client that left ends the request.
EveryWaitEnds == (phase \in {"poll", "sleep"} ~> phase \notin {"poll", "sleep"}) /\ (signal ~> phase = "closed")
=============================================================================
