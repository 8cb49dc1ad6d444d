------------------------------ MODULE HarnessTask ------------------------------
(***************************************************************************)
(* The task manager of the MCP harness bridge (mcp/zcode-harness-mcp):     *)
(* tasks/manager.ts with tasks/ingress.ts (harness events), tasks/relay.ts *)
(* (reverse requests) and the crash handler of index.ts.                   *)
(*                                                                         *)
(* Node runs one callback at a time, so a step of this module is the code  *)
(* between two awaits.  Every async function in flight is a coroutine with *)
(* a program counter that names what it awaits:                            *)
(*   start   startNow     boot -> setup -> send -> sent                    *)
(*   input   addInput     verify -> send -> sent                           *)
(*   cancel  cancel       await -> stop -> poll                            *)
(*   quiet   checkQuiet   sleep <-> read   (several per task)              *)
(* A coroutine that captured turnRevision only ever compares it with the   *)
(* current value, and the counter only grows; the model keeps the outcome  *)
(* of that comparison ("fresh") and clears it where the code increments.   *)
(***************************************************************************)
EXTENDS Naturals, Sequences, FiniteSets

CONSTANTS
  Task,           \* ids startTask can hand out
  Workspace,      \* workspace identities (security/session.ts workspaceIdentity)
  Shared,         \* sessions that exist before any task (the desktop's, or zcode_session_create)
  HomeOf,         \* [Shared -> Workspace], the workspace session/list reports
  NoTask, NoSession,
  MaxConcurrent,  \* config.maxConcurrentTasks
  QueueLimit,     \* config.taskQueueLimit
  Policy,         \* config.interactionPolicy: "deny" (the default) or "ask"
  ClientOps,      \* task tools the clients of this instance use besides task_start
  Faults,         \* what may go wrong in this instance (see Fault)
  CancelPolls,    \* verification reads of cancel (10 in the code)
  QuietPolls,     \* reads of checkQuiet (6 in the code)
  MaxQuiet,       \* bound: checkQuiet coroutines in flight per task
  MaxAsks,        \* bound: undecided reverse requests per task
  MaxExits        \* bound: harness exits and bridge restarts

Op    == {"cancel", "steer", "followUp"}
Fault == {"boot", "send", "input", "stop", "read", "exit", "restart"}

ASSUME ConstantsOK ==
  /\ MaxConcurrent \in Nat \ {0} /\ QueueLimit \in Nat \ {0}
  /\ CancelPolls \in Nat \ {0} /\ QuietPolls \in Nat \ {0}
  /\ MaxQuiet \in Nat /\ MaxAsks \in Nat /\ MaxExits \in Nat
  /\ IsFiniteSet(Task)
  /\ Policy \in {"deny", "ask"} /\ ClientOps \subseteq Op /\ Faults \subseteq Fault
  /\ Workspace # {} /\ HomeOf \in [Shared -> Workspace]
  /\ NoTask \notin Task /\ NoSession \notin Task \cup Shared
  /\ Task \cap Shared = {}

\* A session startNow creates is fresh and used under its creator's name.
Session == Task \cup Shared

\* TERMINAL_STATES; "unknown" is in it, yet keeps its slot and its workspace.
Terminal == {"completed", "failed", "cancelled", "interrupted", "unknown"}
\* waiting_for_input and waiting_for_approval are treated alike everywhere.
Live     == {"queued", "starting", "running", "waiting", "cancelling"}
State    == Terminal \cup Live \cup {"absent"}
Active   == Live \cup {"unknown"}
Slot     == Active \ {"queued"}

VARIABLES
  state,      \* record.state
  job,        \* the parameters startTask was given
  sid,        \* record.sessionId
  owner,      \* bySession
  queue,      \* startQueue: a Map, so insertion-ordered
  accepting,  \* acceptingEvents
  sending,    \* pendingSend is not null
  start, input, cancel, quiet,
  asks,       \* reverse requests of the task nobody has decided yet
  turn,       \* external: what the harness does in a session, as read off its pipe
  exits       \* harness exits and bridge restarts so far (bounded)

vars == <<state, job, sid, owner, queue, accepting, sending, start, input,
          cancel, quiet, asks, turn, exits>>

NoInput  == [at |-> "idle", fresh |-> FALSE, back |-> "absent"]
NoCancel == [at |-> "idle", polls |-> 0]
Rest     == [of |-> NoTask, phase |-> "idle"]

StartPc == {"idle", "boot", "setup", "send", "sent"}
Job     == [ws: Workspace, ro: BOOLEAN, want: Session \cup {NoSession}]
Input   == [at: {"idle", "verify", "send", "sent"}, fresh: BOOLEAN, back: State]
Cancel  == {NoCancel} \cup [at: {"await", "stop", "poll"}, polls: 1..CancelPolls]
Quiet   == [fresh: BOOLEAN, at: {"sleep", "read"}, left: 1..QuietPolls]
Turn    == [of: Task \cup {NoTask}, phase: {"idle", "busy", "settling", "jobs"}]

TypeOK ==
  /\ state \in [Task -> State]
  /\ job \in [Task -> Job]
  /\ sid \in [Task -> Session \cup {NoSession}]
  /\ owner \in [Session -> Task \cup {NoTask}]
  /\ queue \in Seq(Task)
  /\ accepting \in [Task -> BOOLEAN]
  /\ sending \in [Task -> BOOLEAN]
  /\ start \in [Task -> StartPc]
  /\ input \in [Task -> Input]
  /\ cancel \in [Task -> Cancel]
  /\ quiet \in [Task -> SUBSET Quiet]
  /\ asks \in [Task -> Nat]
  /\ turn \in [Session -> Turn]
  /\ exits \in Nat

Init ==
  /\ state = [t \in Task |-> "absent"]
  /\ job = [t \in Task |-> [ws |-> CHOOSE w \in Workspace : TRUE, ro |-> FALSE, want |-> NoSession]]
  /\ sid = [t \in Task |-> NoSession]
  /\ owner = [s \in Session |-> NoTask]
  /\ queue = <<>>
  /\ accepting = [t \in Task |-> FALSE]
  /\ sending = [t \in Task |-> FALSE]
  /\ start = [t \in Task |-> "idle"]
  /\ input = [t \in Task |-> NoInput]
  /\ cancel = [t \in Task |-> NoCancel]
  /\ quiet = [t \in Task |-> {}]
  /\ asks = [t \in Task |-> 0]
  /\ turn = [s \in Session |-> Rest]
  /\ exits = 0

(***************************************************************************)
(* Helpers                                                                 *)
(***************************************************************************)
\* activeCount, for the state function st
Occupied(st) == Cardinality({u \in Task : st[u] \in Slot})

\* The queue positions at which drainQueue's loop breaks: a queued task for
\* which the tasks running and those just launched ahead of it take every slot.
Blocked(st, q) ==
  {i \in DOMAIN q : /\ st[q[i]] = "queued"
                    /\ Occupied(st) + Cardinality({j \in 1..(i-1) : st[q[j]] = "queued"})
                         >= MaxConcurrent}
Visited(st, q)  == {i \in DOMAIN q : \A b \in Blocked(st, q) : i < b}
Launched(st, q) == {q[i] : i \in {j \in Visited(st, q) : st[q[j]] = "queued"}}

\* drainQueue on state function st and queue q, with go the startNow coroutines:
\* entries no longer queued are dropped, the others start while slots are free,
\* and startNow runs up to its first await.
Drain(st, q, go) ==
  /\ state' = [u \in Task |-> IF u \in Launched(st, q) THEN "starting" ELSE st[u]]
  /\ queue' = SubSeq(q, Cardinality(Visited(st, q)) + 1, Len(q))
  /\ start' = [u \in Task |-> IF u \in Launched(st, q) THEN "boot" ELSE go[u]]

\* startQueue.delete
Removed(q, t) ==
  LET at == {i \in DOMAIN q : q[i] = t}
      k  == CHOOSE i \in at : TRUE
  IN IF at = {} THEN q ELSE SubSeq(q, 1, k - 1) \o SubSeq(q, k + 1, Len(q))

\* turnRevision += 1: a sleeping checkQuiet will only return when it wakes (and
\* is dropped here), one that awaits its read is left with an outdated revision.
Stale(t) == [quiet EXCEPT ![t] = {[q EXCEPT !.fresh = FALSE] : q \in {r \in @ : r.at = "read"}}]

StillStarting(t) == state[t] = "starting"
CanSend(t) ==
  /\ input[t].fresh
  /\ state[t] \notin {"cancelling", "cancelled", "interrupted", "unknown"}

\* workspaceIdentity of the workspace session/list reports for s
HomeIs(s, w) == IF s \in Shared THEN HomeOf[s] = w ELSE job[s].ws = w

\* Mutant: "unknown" taken for terminal, as TERMINAL_STATES alone would have it.
LiveWriters(w, others) == {u \in others : state[u] \in Live /\ ~job[u].ro /\ job[u].ws = w}

Writers(w, others) == {u \in others : state[u] \in Active /\ ~job[u].ro /\ job[u].ws = w}

\* session/close of the session startNow created for t, with tn the harness turns
Closed(t, tn) ==
  IF job[t].want = NoSession /\ sid[t] # NoSession THEN [tn EXCEPT ![sid[t]] = Rest] ELSE tn

\* A session that startTask refuses with SESSION_BUSY.  It asks the tasks and not
\* bySession, which startNow fills only after its first await.
SessionBusy(s) == \E u \in Task : sid[u] = s /\ state[u] \in Active

\* Mutant: events are let through to a task that is being cancelled.
ListeningOn(s) == owner[s] # NoTask /\ accepting[owner[s]] /\ state[owner[s]] \notin Terminal

\* handleEvent lets an event of session s through to its owner
Listening(s) ==
  /\ owner[s] # NoTask
  /\ accepting[owner[s]]
  /\ state[owner[s]] \notin Terminal \cup {"cancelling"}

(***************************************************************************)
(* zcode_task_start: startTask and scheduleStart, after the await of       *)
(* verifySessionWorkspace (nothing is read before it).                     *)
(***************************************************************************)
StartTask(t, w, ro, want) ==
  /\ state[t] = "absent"
  /\ want # NoSession =>
       /\ want \in Shared \cup {u \in Task : sid[u] = u}
       /\ HomeIs(want, w)
       /\ ~SessionBusy(want)
  /\ Cardinality({u \in Task : state[u] \in Active}) < QueueLimit
  /\ ~ro => Writers(w, Task) = {}
  /\ job' = [job EXCEPT ![t] = [ws |-> w, ro |-> ro, want |-> want]]
  /\ sid' = [sid EXCEPT ![t] = want]
  /\ Drain([state EXCEPT ![t] = "queued"], Append(queue, t), start)
  /\ UNCHANGED <<owner, accepting, sending, input, cancel, quiet, asks, turn, exits>>

(***************************************************************************)
(* startNow                                                                *)
(***************************************************************************)
\* runtime.start and session/create (or the check of the caller's session)
\* answered: the session is recorded, unless the task moved on meanwhile.
StartBooted(t) ==
  /\ start[t] = "boot"
  /\ IF StillStarting(t)
       THEN LET s == IF job[t].want = NoSession THEN t ELSE job[t].want IN
            /\ sid' = [sid EXCEPT ![t] = s]
            /\ owner' = [owner EXCEPT ![s] = t]
            /\ start' = [start EXCEPT ![t] = "setup"]
       ELSE start' = [start EXCEPT ![t] = "idle"] /\ UNCHANGED <<sid, owner>>
  /\ UNCHANGED <<state, job, queue, accepting, sending, input, cancel, quiet, asks, turn, exits>>

\* model, mode, selection read-back and subscription done: the prompt goes out.
\* The intermediate stillStarting checks are folded into this last one.
StartSends(t) ==
  /\ start[t] = "setup"
  /\ IF StillStarting(t)
       THEN /\ start' = [start EXCEPT ![t] = "send"]
            /\ accepting' = [accepting EXCEPT ![t] = TRUE]
            /\ sending' = [sending EXCEPT ![t] = TRUE]
            /\ quiet' = Stale(t)
            /\ input' = [input EXCEPT ![t].fresh = FALSE]
       ELSE start' = [start EXCEPT ![t] = "idle"] /\ UNCHANGED <<accepting, sending, quiet, input>>
  /\ UNCHANGED <<state, job, sid, owner, queue, cancel, asks, turn, exits>>

StartAccepted(t) ==
  /\ start[t] = "sent"
  /\ start' = [start EXCEPT ![t] = "idle"]
  /\ sending' = [sending EXCEPT ![t] = FALSE]
  /\ state' = IF StillStarting(t) THEN [state EXCEPT ![t] = "running"] ELSE state
  /\ UNCHANGED <<job, sid, owner, queue, accepting, input, cancel, quiet, asks, turn, exits>>

\* Any awaited call throws, or the prompt is not accepted.
StartFails(t) ==
  /\ \/ start[t] \in {"boot", "setup"} /\ "boot" \in Faults
     \/ start[t] = "send" /\ "send" \in Faults
  /\ sending' = [sending EXCEPT ![t] = IF start[t] = "send" THEN FALSE ELSE @]
  /\ IF StillStarting(t)
       THEN /\ Drain([state EXCEPT ![t] = "failed"], queue, [start EXCEPT ![t] = "idle"])
            /\ turn' = Closed(t, turn)
       ELSE start' = [start EXCEPT ![t] = "idle"] /\ UNCHANGED <<state, queue, turn>>
  /\ UNCHANGED <<job, sid, owner, accepting, input, cancel, quiet, asks, exits>>

(***************************************************************************)
(* addInput                                                                *)
(***************************************************************************)
AddInput(t) ==
  LET restarting == state[t] \in Terminal IN
  /\ sid[t] # NoSession
  /\ input[t].at = "idle"
  /\ state[t] \notin {"absent", "queued", "starting", "cancelling", "unknown"}
  /\ (IF restarting THEN "followUp" ELSE "steer") \in ClientOps
  /\ restarting =>
       /\ Occupied(state) < MaxConcurrent
       /\ job[t].ro \/ Writers(job[t].ws, Task \ {t}) = {}
  /\ owner[sid[t]] = t
  /\ input' = [input EXCEPT ![t] = [at |-> "verify", fresh |-> TRUE, back |-> state[t]]]
  /\ state' = IF restarting THEN [state EXCEPT ![t] = "starting"] ELSE state
  /\ quiet' = Stale(t)
  /\ UNCHANGED <<job, sid, owner, queue, accepting, sending, start, cancel, asks, turn, exits>>

\* Workspace, selection, mode and subscription verified: the input goes out,
\* unless the task was stopped or its turn replaced (then addInput throws).
InputSends(t) ==
  /\ input[t].at = "verify"
  /\ IF CanSend(t)
       THEN /\ state' = [state EXCEPT ![t] = "starting"]
            /\ accepting' = [accepting EXCEPT ![t] = TRUE]
            /\ sending' = [sending EXCEPT ![t] = TRUE]
            /\ input' = [input EXCEPT ![t].at = "send"]
       ELSE input' = [input EXCEPT ![t] = NoInput] /\ UNCHANGED <<state, accepting, sending>>
  /\ UNCHANGED <<job, sid, owner, queue, start, cancel, quiet, asks, turn, exits>>

InputAccepted(t) ==
  /\ input[t].at = "sent"
  /\ input' = [input EXCEPT ![t] = NoInput]
  /\ sending' = [sending EXCEPT ![t] = FALSE]
  /\ state' = IF CanSend(t) /\ state[t] = "starting"
                THEN [state EXCEPT ![t] = "running"] ELSE state
  /\ UNCHANGED <<job, sid, owner, queue, accepting, start, cancel, quiet, asks, turn, exits>>

\* A call before the send throws (the state before the input comes back), or
\* the send itself does (nobody knows whether the harness took it).
InputFails(t) ==
  /\ \/ input[t].at = "verify" /\ "input" \in Faults
     \/ input[t].at = "send" /\ "send" \in Faults
  /\ input' = [input EXCEPT ![t] = NoInput]
  /\ sending' = [sending EXCEPT ![t] = IF input[t].at = "send" THEN FALSE ELSE @]
  /\ IF CanSend(t)
       THEN Drain([state EXCEPT ![t] = IF input[t].at = "send" THEN "unknown" ELSE input[t].back],
                  queue, start)
       ELSE UNCHANGED <<state, queue, start>>
  /\ UNCHANGED <<job, sid, owner, accepting, cancel, quiet, asks, turn, exits>>

(***************************************************************************)
(* cancel                                                                  *)
(***************************************************************************)
\* Nothing was sent yet: the task is cancelled on the spot.
CancelNow(t) ==
  /\ "cancel" \in ClientOps
  /\ state[t] = "queued" \/ (StillStarting(t) /\ ~sending[t])
  /\ quiet' = Stale(t)
  /\ input' = [input EXCEPT ![t].fresh = FALSE]
  /\ turn' = Closed(t, turn)
  /\ Drain([state EXCEPT ![t] = "cancelled"], Removed(queue, t), start)
  /\ UNCHANGED <<job, sid, owner, accepting, sending, cancel, asks, exits>>

\* The harness may be working: wait for a send in flight, stop, verify.
CancelBegins(t) ==
  /\ "cancel" \in ClientOps
  /\ cancel[t].at = "idle"
  /\ state[t] \in Active \ {"queued"}
  /\ ~(StillStarting(t) /\ ~sending[t])
  /\ state' = [state EXCEPT ![t] = "cancelling"]
  /\ quiet' = Stale(t)
  /\ input' = [input EXCEPT ![t].fresh = FALSE]
  /\ cancel' = [cancel EXCEPT ![t] = [at |-> IF sending[t] THEN "await" ELSE "stop",
                                      polls |-> CancelPolls]]
  /\ UNCHANGED <<job, sid, owner, queue, accepting, sending, start, asks, turn, exits>>

\* Mutants: the send in flight is not awaited; its rejection ends the cancel.
CancelHurries(t) ==
  /\ cancel[t].at = "await"
  /\ cancel' = [cancel EXCEPT ![t].at = "stop"]
  /\ UNCHANGED <<state, job, sid, owner, queue, accepting, sending, start, input, quiet, asks, turn, exits>>

CancelThrows(t) ==
  /\ cancel[t].at = "await"
  /\ ~sending[t]
  /\ cancel' = [cancel EXCEPT ![t] = NoCancel]
  /\ UNCHANGED <<state, job, sid, owner, queue, accepting, sending, start, input, quiet, asks, turn, exits>>

CancelAwaited(t) ==
  /\ cancel[t].at = "await"
  /\ ~sending[t]
  /\ cancel' = [cancel EXCEPT ![t] = IF state[t] = "cancelling" THEN [@ EXCEPT !.at = "stop"]
                                                                ELSE NoCancel]
  /\ UNCHANGED <<state, job, sid, owner, queue, accepting, sending, start, input, quiet, asks, turn, exits>>

\* What the harness still does in a session s once its turn is over: tool calls
\* ("settling"), or only background jobs and permissions nobody has given ("jobs").
Winds(s) ==
  \/ turn[s].phase \in {"busy", "settling"} /\ turn' = [turn EXCEPT ![s].phase = "settling"]
  \/ turn[s].phase # "idle" /\ turn' = [turn EXCEPT ![s].phase = "jobs"]

\* session/stop; a failure of it, or of the check before it, is only a warning.
CancelStops(t) ==
  /\ cancel[t].at = "stop"
  /\ cancel' = [cancel EXCEPT ![t].at = "poll"]
  /\ \/ turn' = [turn EXCEPT ![sid[t]] = Rest]
     \/ Winds(sid[t])
     \/ "stop" \in Faults /\ UNCHANGED turn
  /\ UNCHANGED <<state, job, sid, owner, queue, accepting, sending, start, input, quiet, asks, exits>>

\* What cancel asks of a session/read: its status and its tool calls.  Unlike
\* checkQuiet it asks neither for background jobs nor for pending permissions.
LooksStopped(s) == turn[s].phase \in {"idle", "jobs"}

\* One verification read: a session that looks stopped confirms the cancel, the
\* last vain read gives it up.
CancelPoll(t) ==
  /\ cancel[t].at = "poll"
  /\ IF state[t] # "cancelling"
       THEN cancel' = [cancel EXCEPT ![t] = NoCancel] /\ UNCHANGED <<state, queue, start>>
       ELSE \/ /\ LooksStopped(sid[t])
               /\ cancel' = [cancel EXCEPT ![t] = NoCancel]
               /\ Drain([state EXCEPT ![t] = "cancelled"], queue, start)
            \/ /\ ~LooksStopped(sid[t]) \/ "read" \in Faults
               /\ IF cancel[t].polls = 1
                    THEN /\ cancel' = [cancel EXCEPT ![t] = NoCancel]
                         /\ Drain([state EXCEPT ![t] = "unknown"], queue, start)
                    ELSE /\ cancel' = [cancel EXCEPT ![t].polls = @ - 1]
                         /\ UNCHANGED <<state, queue, start>>
  /\ UNCHANGED <<job, sid, owner, accepting, sending, input, quiet, asks, turn, exits>>

(***************************************************************************)
(* The harness (external) and ingress.ts handleEvent / checkQuiet          *)
(***************************************************************************)
\* The harness takes a prompt of t that is on the pipe and emits turn.started.
TurnStarts(t) ==
  /\ \/ start[t] = "send" /\ start' = [start EXCEPT ![t] = "sent"] /\ UNCHANGED input
     \/ input[t].at = "send" /\ input' = [input EXCEPT ![t].at = "sent"] /\ UNCHANGED start
  /\ turn' = [turn EXCEPT ![sid[t]] = [of |-> t, phase |-> "busy"]]
  /\ state' = LET u == owner[sid[t]] IN
              IF Listening(sid[t]) /\ state[u] # "starting" THEN [state EXCEPT ![u] = "running"]
                                                            ELSE state
  /\ UNCHANGED <<job, sid, owner, queue, accepting, sending, cancel, quiet, asks, exits>>

\* Mutant: a failed turn does not drain the queue.
TurnFailedQuietly(s) ==
  /\ turn[s].phase = "busy"
  /\ turn' = [turn EXCEPT ![s] = Rest] \/ Winds(s)
  /\ state' = IF Listening(s) THEN [state EXCEPT ![owner[s]] = "failed"] ELSE state
  /\ UNCHANGED <<job, sid, owner, queue, accepting, sending, start, input, cancel, quiet, asks, exits>>

TurnFailed(s) ==
  /\ turn[s].phase = "busy"
  /\ turn' = [turn EXCEPT ![s] = Rest] \/ Winds(s)
  /\ IF Listening(s) THEN Drain([state EXCEPT ![owner[s]] = "failed"], queue, start)
                     ELSE UNCHANGED <<state, queue, start>>
  /\ UNCHANGED <<job, sid, owner, accepting, sending, input, cancel, quiet, asks, exits>>

\* turn.completed; tool calls or background jobs may still run.
TurnCompleted(s) ==
  /\ turn[s].phase = "busy"
  /\ turn' = [turn EXCEPT ![s] = Rest] \/ Winds(s)
  /\ IF Listening(s)
       THEN /\ Cardinality(quiet[owner[s]]) < MaxQuiet
            /\ quiet' = [quiet EXCEPT ![owner[s]] =
                           @ \cup {[fresh |-> TRUE, at |-> "sleep", left |-> QuietPolls]}]
       ELSE UNCHANGED quiet
  /\ UNCHANGED <<state, job, sid, owner, queue, accepting, sending, start, input, cancel, asks, exits>>

TurnSettles(s) ==
  /\ turn[s].phase \in {"settling", "jobs"}
  /\ turn' = [turn EXCEPT ![s] = Rest] \/ (turn[s].phase = "settling" /\ Winds(s))
  /\ UNCHANGED <<state, job, sid, owner, queue, accepting, sending, start, input, cancel, quiet, asks, exits>>

Without(t, q)  == [quiet EXCEPT ![t] = @ \ {q}]
Becomes(t, q, r) == [quiet EXCEPT ![t] = (@ \ {q}) \cup {r}]

\* The 1.5 s sleep ends.  A task still starting makes it sleep again.
QuietWakes(t, q) ==
  /\ q.at = "sleep"
  /\ state[t] # "starting"
  /\ quiet' = IF q.fresh /\ state[t] = "running" THEN Becomes(t, q, [q EXCEPT !.at = "read"])
                                                 ELSE Without(t, q)
  /\ UNCHANGED <<state, job, sid, owner, queue, accepting, sending, start, input, cancel, asks, turn, exits>>

\* The loop is used up: the verdict is written without a further check.
GiveUp(t, q) ==
  /\ quiet' = Without(t, q)
  /\ Drain([state EXCEPT ![t] = "unknown"], queue, start)

QuietReadFails(t, q) ==
  /\ "read" \in Faults
  /\ q.at = "read"
  /\ IF q.left = 1 THEN GiveUp(t, q)
       ELSE /\ quiet' = Becomes(t, q, [q EXCEPT !.at = "sleep", !.left = @ - 1])
            /\ UNCHANGED <<state, queue, start>>
  /\ UNCHANGED <<job, sid, owner, accepting, sending, input, cancel, asks, turn, exits>>

QuietReads(t, q) ==
  /\ q.at = "read"
  /\ IF state[t] # "running" \/ ~q.fresh
       THEN quiet' = Without(t, q) /\ UNCHANGED <<state, queue, start>>
       ELSE \/ /\ turn[sid[t]].phase = "idle"
               /\ quiet' = Without(t, q)
               /\ Drain([state EXCEPT ![t] = "completed"], queue, start)
            \/ /\ turn[sid[t]].phase # "idle"       \* pendingPermissions listed
               /\ quiet' = Without(t, q)
               /\ state' = [state EXCEPT ![t] = "waiting"]
               /\ UNCHANGED <<queue, start>>
            \/ /\ turn[sid[t]].phase # "idle"
               /\ IF q.left = 1 THEN GiveUp(t, q)
                    ELSE /\ quiet' = Becomes(t, q, [q EXCEPT !.at = "sleep", !.left = @ - 1])
                         /\ UNCHANGED <<state, queue, start>>
  /\ UNCHANGED <<job, sid, owner, accepting, sending, input, cancel, asks, turn, exits>>

(***************************************************************************)
(* relay.ts: a permission or question of the harness for the owning task.  *)
(* Under "deny", and for read-only tasks, it is answered on the spot.      *)
(***************************************************************************)
Ask(s) ==
  /\ Policy = "ask"
  /\ turn[s].phase # "idle"
  /\ owner[s] # NoTask
  /\ ~job[owner[s]].ro
  /\ asks[owner[s]] < MaxAsks
  /\ asks' = [asks EXCEPT ![owner[s]] = @ + 1]
  /\ state' = [state EXCEPT ![owner[s]] = "waiting"]
  /\ UNCHANGED <<job, sid, owner, queue, accepting, sending, start, input, cancel, quiet, turn, exits>>

\* zcode_interaction_respond, or the interaction timeout
AskDecided(t) ==
  /\ asks[t] > 0
  /\ asks' = [asks EXCEPT ![t] = @ - 1]
  /\ state' = IF state[t] = "waiting" THEN [state EXCEPT ![t] = "running"] ELSE state
  /\ UNCHANGED <<job, sid, owner, queue, accepting, sending, start, input, cancel, quiet, turn, exits>>

(***************************************************************************)
(* Loss of the harness, and of the bridge                                  *)
(***************************************************************************)
\* What the loss of the harness or of the bridge leaves of calls in flight, of
\* questions and of the turns.
DropCalls ==
  /\ queue' = <<>>
  /\ sending' = [t \in Task |-> FALSE]
  /\ start' = [t \in Task |-> "idle"]
  /\ input' = [t \in Task |-> NoInput]
  /\ cancel' = [t \in Task |-> NoCancel]
  /\ asks' = [t \in Task |-> 0]
  /\ turn' = [s \in Session |-> Rest]

LastRead(t) == \E q \in quiet[t] : q.at = "read" /\ q.left = 1

\* What the catch of addInput writes into a task that stopAll skips, and whose
\* call it leaves fresh, because the task has completed or failed meanwhile.
LateWrite(t) ==
  CASE input[t].at \in {"send", "sent"} /\ CanSend(t) -> "unknown"
    [] input[t].at = "verify" /\ CanSend(t)           -> input[t].back
    [] OTHER                                          -> state[t]

\* stopAll bumps the revision of the tasks it interrupts, which ends their
\* checkQuiets; those of other tasks sleep on, a rejected read before the last too.
QuietAfterExit(t) ==
  IF state[t] \in Active THEN {}
  ELSE {q \in quiet[t] : q.at = "sleep"}
         \cup {[q EXCEPT !.at = "sleep", !.left = @ - 1] :
                 q \in {r \in quiet[t] : r.at = "read" /\ r.fresh /\ r.left > 1}}

\* The harness exits or a call times out: stopAll, then every awaited call
\* rejects.  A checkQuiet that was on its last read falls out of its loop, and
\* an addInput still in flight writes its verdict; every other coroutine finds
\* its task interrupted.  (A bridge told to shut down does this and then ends.)
HarnessExit ==
  /\ "exit" \in Faults /\ exits < MaxExits
  /\ exits' = exits + 1
  /\ state' = [t \in Task |-> IF LastRead(t) THEN "unknown"
                              ELSE IF state[t] \in Active THEN "interrupted" ELSE LateWrite(t)]
  /\ quiet' = [t \in Task |-> QuietAfterExit(t)]
  /\ DropCalls
  /\ UNCHANGED <<job, sid, owner, accepting>>

\* The bridge process ends and restore() reads the task files back.  A
\* follow-up that was not sent yet may be on disk only as its old state.
BridgeRestart ==
  /\ "restart" \in Faults /\ exits < MaxExits
  /\ exits' = exits + 1
  /\ \E old \in SUBSET {t \in Task : /\ input[t].at = "verify" /\ StillStarting(t)
                                       /\ input[t].back \in Terminal} :
       state' = [t \in Task |-> IF t \in old THEN input[t].back
                                ELSE IF state[t] \in Live THEN "interrupted" ELSE state[t]]
  /\ accepting' = [t \in Task |-> FALSE]
  /\ owner' \in {f \in [Session -> Task \cup {NoTask}] :
                   \A s \in Session : LET at == {t \in Task : sid[t] = s} IN
                     IF at = {} THEN f[s] = NoTask ELSE f[s] \in at}
  /\ quiet' = [t \in Task |-> {}]
  /\ DropCalls
  /\ UNCHANGED <<job, sid>>

(***************************************************************************)
Client(t) ==
  \/ \E w \in Workspace, ro \in BOOLEAN, want \in Session \cup {NoSession} : StartTask(t, w, ro, want)
  \/ AddInput(t)
  \/ CancelNow(t)
  \/ CancelBegins(t)

Coroutine(t) ==
  \/ StartBooted(t) \/ StartSends(t) \/ StartAccepted(t) \/ StartFails(t)
  \/ InputSends(t) \/ InputAccepted(t) \/ InputFails(t)
  \/ CancelAwaited(t) \/ CancelStops(t) \/ CancelPoll(t)
  \/ TurnStarts(t)
  \/ \E q \in quiet[t] : QuietWakes(t, q) \/ QuietReads(t, q) \/ QuietReadFails(t, q)
  \/ AskDecided(t)

Harness(s) == TurnFailed(s) \/ TurnCompleted(s) \/ TurnSettles(s) \/ Ask(s)

Next ==
  \/ \E t \in Task : Client(t) \/ Coroutine(t)
  \/ \E s \in Session : Harness(s)
  \/ HarnessExit
  \/ BridgeRestart

Spec == Init /\ [][Next]_vars

\* Every awaited call is answered, fails or times out, every sleep ends, and
\* undecided questions expire: the event loop runs every coroutine on.  A cancel
\* awaits one send and goes on once that is settled, whatever is sent after it.
Fairness == \A t \in Task :
  /\ WF_vars(StartBooted(t)) /\ WF_vars(StartSends(t)) /\ WF_vars(StartAccepted(t))
  /\ WF_vars(InputSends(t)) /\ WF_vars(InputAccepted(t)) /\ WF_vars(TurnStarts(t))
  /\ SF_vars(CancelAwaited(t)) /\ WF_vars(CancelStops(t)) /\ WF_vars(CancelPoll(t))
  /\ WF_vars(\E q \in quiet[t] : QuietWakes(t, q) \/ QuietReads(t, q))
  /\ WF_vars(AskDecided(t))

LiveSpec == Spec /\ Fairness

(***************************************************************************)
(* Properties                                                              *)
(***************************************************************************)
\* "two non-read-only tasks may not run in parallel in one workspace": startTask
\* and addInput check it when they admit a task, and no later step of any
\* coroutine brings a second writer back to an active state.
WriteExclusion ==
  \A t, u \in Task :
    t # u /\ state[t] \in Active /\ state[u] \in Active /\ job[t].ws = job[u].ws
      => job[t].ro \/ job[u].ro

\* No more tasks occupy the harness than maxConcurrentTasks, whichever of
\* drainQueue and addInput let them in and however they were interleaved.
SlotLimit == Occupied(state) <= MaxConcurrent

\* A session serves one active task at a time (SESSION_BUSY), although a task
\* registers its session only after startNow's first await.
SessionExclusive ==
  \A t, u \in Task :
    t # u /\ state[t] \in Active /\ state[u] \in Active /\ sid[t] # NoSession => sid[t] # sid[u]

\* No lost wakeup: while a task is queued every slot is taken, so each of the
\* many paths on which a task gives up its slot has drained the queue.
NoIdleSlot == queue # <<>> => Occupied(state) >= MaxConcurrent

\* The start queue holds exactly the tasks that report "queued", each once: no
\* task is stranded, and none cancelled or interrupted is started later.
QueueExact ==
  /\ {t \in Task : state[t] = "queued"} = {queue[i] : i \in DOMAIN queue}
  /\ \A i, j \in DOMAIN queue : queue[i] = queue[j] => i = j

\* "The wish only counts as cancelled after verification": a task reported
\* cancelled has no prompt on the pipe, no turn of its own in the harness and no
\* tool call of one.  Its background jobs may go on: cancel does not ask for them.
CancelledMeansStopped ==
  \A t \in Task : state[t] = "cancelled" =>
    /\ ~sending[t]
    /\ \A s \in Session : turn[s].of = t => turn[s].phase \notin {"busy", "settling"}

\* An accepted cancel ends as cancelled (verified) or unknown (not verifiable),
\* or is interrupted with the harness; no event or answer takes it back.
CancelKeepsWish ==
  [][\A t \in Task : state[t] = "cancelling" =>
       state'[t] \in {"cancelling", "cancelled", "unknown", "interrupted"}]_vars

\* Cancelling startup prevents sending: startNow does not send the prompt of a
\* task that was cancelled under it, even if the client has since given the
\* task a follow-up that put it back into "starting".
NoSendAfterCancel ==
  [][\A t \in Task : start[t] = "setup" /\ start'[t] = "send" => input[t].at = "idle"]_vars

\* A cancel always reaches one of its verdicts, unless a question of the harness
\* takes the wish back (relay.ts asks no state; there is none under "deny"), and
\* the call of the client always returns: its waits and reads are bounded.
CancelResolves ==
  \A t \in Task :
    /\ state[t] = "cancelling" ~> \/ state[t] \in {"cancelled", "unknown", "interrupted"}
                                  \/ state[t] = "waiting" /\ asks[t] > 0
    /\ cancel[t].at # "idle" ~> cancel[t].at = "idle"

\* Startup always ends: running, or a verdict.
StartResolves == \A t \in Task : state[t] = "starting" ~> state[t] # "starting"
=============================================================================
