------------------------------ MODULE HarnessLink ------------------------------
(***************************************************************************)
(* The bridge's link to the harness: connections and their calls           *)
(* (protocol/connection.ts), the manager that replaces a lost connection   *)
(* (runtime/manager.ts), and the harness's own questions, which the        *)
(* interaction manager decides and the task relay answers.                 *)
(*                                                                         *)
(* One task is active per harness process; a step runs to its next await,  *)
(* and promise callbacks that are already due belong to the step.          *)
(***************************************************************************)
EXTENDS Naturals, Sequences, SequencesExt

CONSTANTS
  Call, Question, None,
  MaxConns     \* bound: harness processes

VARIABLES
  conn,        \* per connection [child, exited]: child is "none", "up", "closing" or "gone"
  made,        \* connections made so far
  current,     \* RuntimeManager.connection; 0 is null
  call,        \* per call [at, conn]
  pending,     \* ids awaiting an answer
  task,        \* state of the task on each harness
  ask,         \* per question [at, conn, choice, said]
  line,        \* undecided questions, oldest first (InteractionManager.pending)
  waiter,      \* question -> the question whose reply context waits for it
  fatal,       \* an exception reached the top of the process
  stopping

vars == <<conn, made, current, call, pending, task, ask, line, waiter, fatal, stopping>>
asked == <<ask, line, waiter>>

Conn == 1..MaxConns
Init ==
  /\ conn = [i \in Conn |-> [child |-> "none", exited |-> FALSE]] /\ made = 0 /\ current = 0
  /\ call = [c \in Call |-> [at |-> "idle", conn |-> 0]] /\ pending = {}
  /\ task = [i \in Conn |-> "none"]
  /\ ask = [x \in Question |-> [at |-> "none", conn |-> 0, choice |-> None, said |-> None]]
  /\ line = <<>> /\ waiter = [x \in Question |-> None] /\ fatal = FALSE /\ stopping = FALSE

Active == {"running", "waiting"}
\* ZcodeConnection.running
Running(i) == i # 0 /\ conn[i].child = "up" /\ ~conn[i].exited
\* onCrash: stopAll interrupts every task that is not over.
Interrupted == task' = [i \in Conn |-> IF task[i] \in Active THEN "interrupted" ELSE task[i]]
End(S) == call' = [c \in Call |-> IF c \in S THEN [call[c] EXCEPT !.at = "ended"] ELSE call[c]]

\* Mutant: the timers are cleared and the calls forgotten, but not rejected.
FailAllMutant(i, extra) == End(extra) /\ pending' = {c \in pending : call[c].conn # i} \ extra
\* failAllPending of connection i; extra ends as well.
FailAll(i, extra) ==
  /\ End({c \in pending : call[c].conn = i} \cup extra)
  /\ pending' = {c \in pending : call[c].conn # i} \ extra

\* conn.call: written to a running harness, or refused
Sends(c, i) ==
  IF Running(i) THEN /\ call' = [call EXCEPT ![c] = [at |-> "sent", conn |-> i]]
                     /\ pending' = pending \cup {c}
  ELSE End({c}) /\ UNCHANGED pending

\* RuntimeManager.call: the current connection if it runs, else a new one, whose
\* child gets a grace of 400 ms (or cannot be spawned).
Begins(c) ==
  /\ call[c].at = "idle" /\ ~stopping /\ ~fatal
  /\ IF Running(current) THEN Sends(c, current) /\ UNCHANGED <<conn, made, current>>
     ELSE /\ made < MaxConns /\ made' = made + 1 /\ current' = made' /\ UNCHANGED pending
          /\ \/ /\ conn' = [conn EXCEPT ![made'].child = "up"]
                /\ call' = [call EXCEPT ![c] = [at |-> "starting", conn |-> made']]
             \/ conn' = [conn EXCEPT ![made'] = [child |-> "gone", exited |-> TRUE]] /\ End({c})
  /\ UNCHANGED <<task, asked, fatal, stopping>>

GraceEnds(c) ==
  /\ call[c].at = "starting" /\ ~fatal /\ Sends(c, call[c].conn)
  /\ UNCHANGED <<conn, made, current, task, asked, fatal, stopping>>

\* A response: the turn it started is the task of that harness from now on.
Answered(c) ==
  /\ c \in pending /\ conn[call[c].conn].child = "up" /\ ~fatal
  /\ pending' = pending \ {c} /\ End({c})
  /\ task' = [task EXCEPT ![call[c].conn] = IF @ = "none" THEN "running" ELSE @]
  /\ UNCHANGED <<conn, made, current, asked, fatal, stopping>>
TaskEnds(i) ==
  /\ task[i] \in Active /\ conn[i].child = "up" /\ ~fatal /\ task' = [task EXCEPT ![i] = "completed"]
  /\ UNCHANGED <<conn, made, current, call, pending, asked, fatal, stopping>>

\* ZcodeConnection.stop: the child may take three seconds to go.
Stops(i, extra) ==
  /\ IF conn[i].child = "up" THEN conn' = [conn EXCEPT ![i] = [child |-> "closing", exited |-> TRUE]] ELSE UNCHANGED conn
  /\ FailAll(i, extra)

\* The timer of a call: on the current connection the harness is given up.
TimesOut(c) ==
  /\ c \in pending /\ ~fatal
  /\ IF call[c].conn = current THEN Stops(current, {c}) /\ current' = 0 /\ Interrupted
     ELSE End({c}) /\ pending' = pending \ {c} /\ UNCHANGED <<conn, current, task>>
  /\ UNCHANGED <<made, asked, fatal, stopping>>

\* Mutant: whichever connection ends, the manager drops the one it has.
LosesMutant(i) == current # 0
\* onExit: only the current connection's end is a loss.
Loses(i) == current = i

\* The child's exit, by itself or after a stop (SIGKILL at the latest)
Exits(i) ==
  /\ conn[i].child \in {"up", "closing"} /\ ~fatal
  /\ conn' = [conn EXCEPT ![i] = [child |-> "gone", exited |-> TRUE]]
  /\ FailAll(i, {c \in Call : call[c].at = "starting" /\ call[c].conn = i})
  /\ IF Loses(i) THEN current' = 0 /\ Interrupted ELSE UNCHANGED <<current, task>>
  /\ UNCHANGED <<made, asked, fatal, stopping>>

\* shutdown of the bridge (index.ts): no further request is taken.
Shutdown ==
  /\ ~stopping /\ ~fatal /\ stopping' = TRUE /\ current' = 0 /\ Interrupted
  /\ IF current # 0 THEN Stops(current, {}) ELSE UNCHANGED <<conn, call, pending>>
  /\ UNCHANGED <<made, asked, fatal>>
-----------------------------------------------------------------------------
(* Questions of the harness *)

\* sendRaw: after the end of its stdin a write is an error event nobody listens
\* to, and without a child it throws; a throw in the relay's callback is nobody's.
Lost(i, callback) == conn[i].child = "closing" \/ (conn[i].child = "gone" /\ callback)

\* The answer at once: a preference, the policy's decision, or an error
Replies(x, i, choice, said) ==
  /\ fatal' = Lost(i, FALSE) /\ UNCHANGED <<line, waiter, task>>
  /\ ask' = [ask EXCEPT ![x] = [at |-> "decided", conn |-> i, choice |-> choice,
                                said |-> IF fatal' THEN None ELSE said]]

\* The relay takes the last pending question of the session for its own.
Own(q) == Last(q)

\* handleReverseRequest for a session of a task: nobody looks at the task's state.
Relayed(x, i) ==
  LET q == SelectSeq(Append(line, x), LAMBDA y : y = x \/ ask[y].conn = i) IN
  /\ line' = Append(line, x) /\ waiter' = [waiter EXCEPT ![Own(q)] = x]
  /\ ask' = [ask EXCEPT ![x] = [at |-> "pending", conn |-> i, choice |-> None, said |-> None]]
  /\ task' = [task EXCEPT ![i] = "waiting"] /\ UNCHANGED fatal

\* Without a task: pending, though the harness is told at once that nobody answers
Unattributed(x, i) ==
  /\ fatal' = Lost(i, FALSE) /\ line' = Append(line, x) /\ UNCHANGED <<waiter, task>>
  /\ ask' = [ask EXCEPT ![x] = [at |-> "open", conn |-> i, choice |-> None,
                                said |-> IF fatal' THEN None ELSE "error"]]

Asks(x, i) ==
  /\ ask[x].at = "none" /\ conn[i].child \in {"up", "closing"} /\ ~fatal
  /\ \/ \E d \in {"allow", "deny"} : Replies(x, i, d, d)     \* policy
     \/ Replies(x, i, "error", "error")                      \* a kind the bridge never serves
     \/ IF task[i] = "none" THEN Unattributed(x, i) ELSE Relayed(x, i)
  /\ UNCHANGED <<conn, made, current, call, pending, stopping>>

Heard(choice) == IF choice = "expired" THEN "error" ELSE choice
\* resolve by an agent with an offered option, or resolveExpired; the waiter, if
\* there is one, answers its own context: a decision as it is, an expiry as an error.
Decided(x, choice) ==
  LET w == waiter[x] IN
  /\ ask[x].at \in {"pending", "open"} /\ ~fatal
  /\ line' = SelectSeq(line, LAMBDA y : y # x) /\ waiter' = [waiter EXCEPT ![x] = None]
  /\ IF w = None
     THEN ask' = [ask EXCEPT ![x].at = IF @ = "open" THEN "closed" ELSE "decided", ![x].choice = choice]
          /\ UNCHANGED <<fatal, task>>
     ELSE LET i == ask[w].conn
              a == [ask EXCEPT ![x].at = "decided", ![x].choice = choice] IN
          /\ fatal' = Lost(i, TRUE)
          /\ ask' = IF fatal' THEN a ELSE [a EXCEPT ![w].said = Heard(choice)]
          /\ task' = IF ~fatal' /\ task[i] = "waiting" THEN [task EXCEPT ![i] = "running"] ELSE task
  /\ UNCHANGED <<conn, made, current, call, pending, stopping>>

Next ==
  \/ \E c \in Call : Begins(c) \/ GraceEnds(c) \/ Answered(c) \/ TimesOut(c)
  \/ \E i \in Conn : TaskEnds(i) \/ Exits(i) \/ (\E x \in Question : Asks(x, i))
  \/ \E x \in Question, choice \in {"allow", "deny", "expired"} : Decided(x, choice)
  \/ Shutdown

\* The timers of the bridge fire.
Fairness == \A c \in Call : WF_vars(GraceEnds(c)) /\ WF_vars(TimesOut(c))
-----------------------------------------------------------------------------
\* Every call ends, whatever becomes of its harness and of the connections after it,
\* unless the bridge itself goes down.
EveryHarnessCallEnds == \A c \in Call : call[c].at # "idle" ~> (call[c].at = "ended" \/ fatal)

\* The end of a harness that was already given up never interrupts the work of its
\* successor, nor makes the bridge lose it: onExit's comparison.
SuccessorUndisturbed ==
  [][\A i \in Conn : Running(i) /\ i = current /\ task[i] \in Active /\ task'[i] = "interrupted"
        => current' = 0 /\ ~Running(i)']_vars

\* With several questions open, each is answered with the decision made about it
\* and about no other, as soon as that is made.
EachHearsItsOwn ==
  \A x \in Question : ask[x].at = "decided" /\ ~fatal => ask[x].said = Heard(ask[x].choice)

\* robustness.test.mjs: a harness that ends does not take the bridge with it.
BridgeSurvives == ~fatal
=============================================================================
