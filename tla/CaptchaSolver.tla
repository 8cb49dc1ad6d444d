----------------------------- MODULE CaptchaSolver -----------------------------
(***************************************************************************)
(* The dispatcher of proxy/captcha-solver.ts: one solve at a time on a     *)
(* worker thread (captcha-solver-worker.ts) that may hang, fail, exit or   *)
(* grow, and is replaced by a fresh generation.                            *)
(*                                                                         *)
(* A microtask that runs the queue (pump) runs before any other event, so  *)
(* it belongs to the step that queued it.                                  *)
(***************************************************************************)
EXTENDS Naturals, Sequences

CONSTANTS
  Job,              \* calls of runCaptchaSolve
  None,
  FailuresAllowed,  \* recycleAfterFailures
  SolvesAllowed,    \* recycleAfterSolves
  MaxRequests       \* bound: recycle and shutdown requests from outside

VARIABLES
  queue,      \* jobs behind the one in flight
  inFlight,   \* the job on the worker, or None
  alive,      \* worker: a thread exists
  solves,     \* solvesSinceSpawn
  failures,   \* generationFailures
  pending,    \* pendingRecycle
  closing,    \* shutdownRequested
  idleTimer,
  submitted, settled,   \* history: promises made and kept
  requests

worker == <<alive, solves, failures, pending>>
vars   == <<queue, inFlight, worker, closing, idleTimer, submitted, settled, requests>>

Init ==
  /\ queue = <<>> /\ inFlight = None /\ alive = FALSE /\ solves = 0 /\ failures = 0
  /\ pending = FALSE /\ closing = FALSE /\ idleTimer = FALSE
  /\ submitted = {} /\ settled = {} /\ requests = 0

\* recycle: whatever is left of the generation is gone with its thread.
Recycled == alive' = FALSE /\ pending' = FALSE /\ solves' = 0 /\ failures' = 0

\* The worker takes a job, a new one if there is none.  What a settled job has
\* left in the counters is given by the caller.
Dispatch(j, kept, s, f) ==
  /\ inFlight' = j /\ idleTimer' = FALSE /\ alive' = TRUE /\ UNCHANGED closing
  /\ pending' = (kept /\ pending)
  /\ solves' = (IF kept THEN s ELSE 0) /\ failures' = (IF kept THEN f ELSE 0)

\* pump: the jobs of q from the first on may be refused by their beforeSolve, or
\* find no thread (which retires the worker); the next one is dispatched.
Pump(q, kept, s, f, done) ==
  \E n \in 0..Len(q), lost \in BOOLEAN :
    /\ n = 0 => ~lost
    /\ settled' = settled \cup done \cup {q[i] : i \in 1..n}
    /\ IF n = Len(q)
       THEN /\ inFlight' = None /\ queue' = <<>>
            /\ IF kept /\ ~lost /\ ~closing
               THEN idleTimer' = TRUE /\ alive' = TRUE /\ pending' = pending
                    /\ solves' = s /\ failures' = f
               ELSE idleTimer' = FALSE /\ Recycled
            /\ closing' = FALSE
       ELSE /\ queue' = SubSeq(q, n + 2, Len(q))
            /\ Dispatch(q[n + 1], kept /\ ~lost, s, f)

\* Mutant: a new job is dispatched whatever is in flight.
SubmitMutant(j) ==
  /\ j \notin submitted /\ submitted' = submitted \cup {j}
  /\ Pump(Append(queue, j), alive, solves, failures, {}) /\ UNCHANGED requests

\* runCaptchaSolve
Submit(j) ==
  /\ j \notin submitted /\ submitted' = submitted \cup {j}
  /\ IF inFlight = None THEN Pump(Append(queue, j), alive, solves, failures, {})
     ELSE /\ queue' = Append(queue, j)
          /\ UNCHANGED <<inFlight, worker, closing, idleTimer, settled>>
  /\ UNCHANGED requests

\* parseWorkerMessage: what a reply is taken for.  A token that fails validation
\* and a failed clean-up spoil the runtime of the thread.
Answers == {"token", "failure", "spoilt"}

\* What ends a generation after a result: a request, the last solve of a
\* shutdown, a runtime that is spoilt or keeps failing, its age or its heap.
RetiredAfter(a) ==
  \/ pending
  \/ closing /\ queue = <<>>
  \/ a = "spoilt"
  \/ a # "token" /\ failures + 1 >= FailuresAllowed
  \/ solves + 1 >= SolvesAllowed

\* onWorkerMessage: a result for the job in flight
Result(a) ==
  /\ inFlight # None
  /\ Pump(queue, ~RetiredAfter(a), solves + 1, IF a = "token" THEN 0 ELSE failures + 1, {inFlight})
  /\ UNCHANGED <<submitted, requests>>

\* Mutant: the thread goes without the job it was running.
LostMutant ==
  /\ alive /\ inFlight # None /\ Recycled
  /\ UNCHANGED <<queue, inFlight, closing, idleTimer, settled, submitted, requests>>

\* failInFlight: the worker reports a fault, errs or exits, or onDeadline
\* terminates it.
Lost ==
  /\ alive /\ inFlight # None
  /\ Pump(queue, FALSE, 0, 0, {inFlight})
  /\ UNCHANGED <<submitted, requests>>

\* The worker dies while nothing is in flight.
Exits ==
  /\ alive /\ inFlight = None
  /\ Recycled /\ idleTimer' = FALSE
  /\ UNCHANGED <<queue, inFlight, closing, submitted, settled, requests>>

IdleEnds ==
  /\ idleTimer
  /\ idleTimer' = FALSE
  /\ IF inFlight = None /\ queue = <<>> THEN Recycled ELSE UNCHANGED worker
  /\ UNCHANGED <<queue, inFlight, closing, submitted, settled, requests>>

\* requestCaptchaSolverRecycle
RequestRecycle ==
  /\ alive /\ requests < MaxRequests /\ requests' = requests + 1
  /\ IF inFlight # None THEN pending' = TRUE /\ UNCHANGED <<alive, solves, failures, idleTimer>>
     ELSE Recycled /\ idleTimer' = FALSE
  /\ UNCHANGED <<queue, inFlight, closing, submitted, settled>>

\* shutdownCaptchaSolver
Shutdown ==
  /\ requests < MaxRequests /\ requests' = requests + 1
  /\ IF inFlight = None /\ queue = <<>>
     THEN closing' = FALSE /\ Recycled /\ idleTimer' = FALSE
     ELSE closing' = TRUE /\ idleTimer' = FALSE /\ UNCHANGED worker
  /\ UNCHANGED <<queue, inFlight, submitted, settled>>

Next ==
  \/ \E j \in Job : Submit(j)
  \/ \E a \in Answers : Result(a)
  \/ Lost \/ Exits \/ IdleEnds \/ RequestRecycle \/ Shutdown

\* The deadline timer of a solve always fires.
Fairness == WF_vars(Lost)
Spec == Init /\ [][Next]_vars /\ Fairness
-----------------------------------------------------------------------------
TypeOK ==
  /\ queue \in Seq(Job) /\ inFlight \in Job \cup {None} /\ alive \in BOOLEAN
  /\ solves < SolvesAllowed /\ failures < FailuresAllowed
  /\ {pending, closing, idleTimer} \subseteq BOOLEAN
  /\ submitted \subseteq Job /\ settled \subseteq submitted

\* The dispatcher runs one job at a time and settles each one once: it
\* implements SettledOnce.
Board == INSTANCE SettledOnce WITH running <- IF inFlight = None THEN {} ELSE {inFlight}
SolvesOneAtATime == Board!Spec

\* Whatever the thread does (hang, fault, exit) and whoever recycles it, every
\* call of runCaptchaSolve ends.
EveryCallEnds == \A j \in Job : j \in submitted ~> j \in settled
=============================================================================
