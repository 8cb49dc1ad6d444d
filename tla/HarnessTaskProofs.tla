--------------------------- MODULE HarnessTaskProofs ---------------------------
(* Theorems about HarnessTask for every value of its constants.             *)
EXTENDS HarnessTask, FiniteSetTheorems, FunctionTheorems, SequenceTheorems, TLAPS

\* What drainQueue does to a task: nothing, or it starts a queued one.
LEMMA DrainStep ==
  ASSUME NEW st, NEW q, NEW go, Drain(st, q, go), NEW u \in Task
  PROVE  /\ state'[u] = st[u] \/ (st[u] = "queued" /\ state'[u] = "starting")
         /\ start'[u] = go[u] \/ (st[u] = "queued" /\ start'[u] = "boot")
  BY DEF Drain, Launched

\* The same after t alone was given state v: no third task is touched, except
\* that a queued one may start.
LEMMA DrainAt ==
  ASSUME TypeOK, NEW t \in Task, NEW v, NEW q, NEW go, Drain([state EXCEPT ![t] = v], q, go),
         NEW u \in Task
  PROVE  \/ u = t /\ state'[u] = v
         \/ u = t /\ v = "queued" /\ state'[u] = "starting"
         \/ u # t /\ state'[u] = state[u]
         \/ u # t /\ state[u] = "queued" /\ state'[u] = "starting"
<1> DEFINE st == [state EXCEPT ![t] = v]
<1>1. st[u] = IF u = t THEN v ELSE state[u]
  BY DEF TypeOK
<1>2. Drain(st, q, go)
  OBVIOUS
<1> HIDE DEF st
<1>3. state'[u] = st[u] \/ (st[u] = "queued" /\ state'[u] = "starting")
  BY <1>2, DrainStep
<1> QED  BY <1>1, <1>3

\* Drain's primed variables have the right types when its arguments do.
LEMMA DrainType ==
  ASSUME NEW st \in [Task -> State], NEW q \in Seq(Task), NEW go \in [Task -> StartPc],
         Drain(st, q, go)
  PROVE  /\ state' \in [Task -> State]
         /\ queue' \in Seq(Task)
         /\ start' \in [Task -> StartPc]
<1>1. state' \in [Task -> State]
  BY DEF Drain, State, Live
<1>2. start' \in [Task -> StartPc]
  BY DEF Drain, StartPc
<1>3. IsFiniteSet(Visited(st, q))
  <2>1. Visited(st, q) \subseteq 1..Len(q)
    BY DEF Visited
  <2>2. IsFiniteSet(1..Len(q))
    BY FS_Interval
  <2>. QED  BY <2>1, <2>2, FS_Subset
<1>4. Cardinality(Visited(st, q)) \in Nat
  BY <1>3, FS_CardinalityType
<1>5. queue' \in Seq(Task)
  <2>1. \A m \in Nat : SubSeq(q, m + 1, Len(q)) \in Seq(Task)
    OBVIOUS
  <2>. QED  BY <1>4, <2>1 DEF Drain
<1>. QED  BY <1>1, <1>2, <1>5

\* Marking coroutines outdated keeps the type of quiet.
LEMMA StaleType ==
  ASSUME TypeOK, NEW t \in Task
  PROVE  Stale(t) \in [Task -> SUBSET Quiet]
<1>1. \A q \in Quiet : [q EXCEPT !.fresh = FALSE] \in Quiet
  BY DEF Quiet
<1>2. {[q EXCEPT !.fresh = FALSE] : q \in {r \in quiet[t] : r.at = "read"}} \subseteq Quiet
  BY <1>1 DEF TypeOK
<1> QED  BY <1>2 DEF Stale, TypeOK

\* Deleting a task from a queue leaves a queue.
LEMMA RemovedType ==
  ASSUME NEW q \in Seq(Task), NEW t
  PROVE  Removed(q, t) \in Seq(Task)
<1> DEFINE at == {i \in DOMAIN q : q[i] = t}
           k  == CHOOSE i \in at : TRUE
<1>1. CASE at = {}
  BY <1>1 DEF Removed
<1>2. CASE at # {}
  <2>1. k \in 1..Len(q)
    BY <1>2
  <2>2. \A m \in 1..Len(q) : SubSeq(q, 1, m - 1) \in Seq(Task) /\ SubSeq(q, m + 1, Len(q)) \in Seq(Task)
    OBVIOUS
  <2>3. Removed(q, t) = SubSeq(q, 1, k - 1) \o SubSeq(q, k + 1, Len(q))
    BY <1>2 DEF Removed
  <2> HIDE DEF k
  <2>4. SubSeq(q, 1, k - 1) \in Seq(Task) /\ SubSeq(q, k + 1, Len(q)) \in Seq(Task)
    BY <2>1, <2>2
  <2> QED  BY <2>3, <2>4
<1> QED  BY <1>1, <1>2

\* Closing a session leaves a resting turn.
LEMMA ClosedType ==
  ASSUME TypeOK, NEW t \in Task
  PROVE  Closed(t, turn) \in [Session -> Turn]
<1>1. Rest \in Turn
  BY DEF Rest, Turn
<1> QED  BY <1>1 DEF Closed, TypeOK

\* The steps of startNow keep every variable in its type.
LEMMA TypeStart ==
  ASSUME TypeOK, NEW t \in Task,
         \/ StartBooted(t) \/ StartSends(t) \/ StartAccepted(t) \/ StartFails(t)
  PROVE  TypeOK'
<1>1. CASE StartBooted(t)
  <2> DEFINE s == IF job[t].want = NoSession THEN t ELSE job[t].want
  <2>1. job[t].want \in Session \cup {NoSession}
    BY DEF TypeOK, Job
  <2>2. s \in Session
    BY <2>1 DEF Session
  <2>3. "idle" \in StartPc /\ "setup" \in StartPc
    BY DEF StartPc
  <2> QED  BY <1>1, <2>2, <2>3 DEF StartBooted, TypeOK
<1>2. CASE StartSends(t)
  <2>1. "idle" \in StartPc /\ "send" \in StartPc
    BY DEF StartPc
  <2>2. [input EXCEPT ![t].fresh = FALSE] \in [Task -> Input]
    BY DEF TypeOK, Input
  <2>3. start' \in [Task -> StartPc] /\ accepting' \in [Task -> BOOLEAN] /\ sending' \in [Task -> BOOLEAN]
    BY <1>2, <2>1 DEF StartSends, TypeOK
  <2>4. input' \in [Task -> Input]
    BY <1>2, <2>2 DEF StartSends, TypeOK
  <2>5. quiet' \in [Task -> SUBSET Quiet]
    <3>1. quiet' \in {quiet, Stale(t)}
      BY <1>2 DEF StartSends
    <3> QED  BY <3>1, StaleType DEF TypeOK
  <2> QED  BY <1>2, <2>3, <2>4, <2>5 DEF StartSends, TypeOK
<1>3. CASE StartAccepted(t)
  BY <1>3 DEF StartAccepted, TypeOK, State, Live, StartPc
<1>4. CASE StartFails(t)
  <2>1. /\ [state EXCEPT ![t] = "failed"] \in [Task -> State]
        /\ [start EXCEPT ![t] = "idle"] \in [Task -> StartPc]
    BY DEF TypeOK, State, Terminal, StartPc
  <2>2. state' \in [Task -> State] /\ queue' \in Seq(Task) /\ start' \in [Task -> StartPc]
    BY <1>4, <2>1, DrainType DEF StartFails, TypeOK
  <2>3. turn' \in [Session -> Turn]
    BY <1>4, ClosedType DEF StartFails, TypeOK
  <2>4. sending' \in [Task -> BOOLEAN]
    BY <1>4 DEF StartFails, TypeOK
  <2> QED  BY <1>4, <2>2, <2>3, <2>4 DEF StartFails, TypeOK
<1> QED  BY <1>1, <1>2, <1>3, <1>4

\* So do the calls of the clients: start, input and cancel.
LEMMA TypeClient ==
  ASSUME TypeOK, NEW t \in Task, Client(t)
  PROVE  TypeOK'
<1>1. ASSUME NEW w \in Workspace, NEW ro \in BOOLEAN, NEW want \in Session \cup {NoSession},
             StartTask(t, w, ro, want)
      PROVE  TypeOK'
  <2>1. [ws |-> w, ro |-> ro, want |-> want] \in Job
    BY DEF Job
  <2>2. [state EXCEPT ![t] = "queued"] \in [Task -> State]
    BY DEF TypeOK, State, Live
  <2>3. Append(queue, t) \in Seq(Task)
    BY DEF TypeOK
  <2>4. state' \in [Task -> State] /\ queue' \in Seq(Task) /\ start' \in [Task -> StartPc]
    BY <1>1, <2>2, <2>3, DrainType DEF StartTask, TypeOK
  <2> QED  BY <1>1, <2>1, <2>4 DEF StartTask, TypeOK
<1>2. CASE AddInput(t)
  <2>1. [at |-> "verify", fresh |-> TRUE, back |-> state[t]] \in Input
    BY DEF TypeOK, Input
  <2>2. state' \in [Task -> State]
    BY <1>2 DEF AddInput, TypeOK, State, Live
  <2> QED  BY <1>2, <2>1, <2>2, StaleType DEF AddInput, TypeOK
<1>3. CASE CancelNow(t)
  <2>1. [state EXCEPT ![t] = "cancelled"] \in [Task -> State]
    BY DEF TypeOK, State, Terminal
  <2>2. Removed(queue, t) \in Seq(Task)
    BY RemovedType DEF TypeOK
  <2>3. state' \in [Task -> State] /\ queue' \in Seq(Task) /\ start' \in [Task -> StartPc]
    BY <1>3, <2>1, <2>2, DrainType DEF CancelNow, TypeOK
  <2>4. [input EXCEPT ![t].fresh = FALSE] \in [Task -> Input]
    BY DEF TypeOK, Input
  <2> QED  BY <1>3, <2>3, <2>4, StaleType, ClosedType DEF CancelNow, TypeOK
<1>4. CASE CancelBegins(t)
  <2>1. [at |-> IF sending[t] THEN "await" ELSE "stop", polls |-> CancelPolls] \in Cancel
    BY ConstantsOK DEF Cancel
  <2>2. state' \in [Task -> State]
    BY <1>4 DEF CancelBegins, TypeOK, State, Live
  <2>3. [input EXCEPT ![t].fresh = FALSE] \in [Task -> Input]
    BY DEF TypeOK, Input
  <2> QED  BY <1>4, <2>1, <2>2, <2>3, StaleType DEF CancelBegins, TypeOK
<1> QED  BY <1>1, <1>2, <1>3, <1>4 DEF Client

\* So do the later steps of addInput.
LEMMA TypeInput ==
  ASSUME TypeOK, NEW t \in Task, InputSends(t) \/ InputAccepted(t) \/ InputFails(t)
  PROVE  TypeOK'
<1>1. NoInput \in Input
  BY DEF NoInput, Input, State
<1>2. CASE InputSends(t)
  <2>1. [input EXCEPT ![t].at = "send"] \in [Task -> Input]
    BY DEF TypeOK, Input
  <2> QED  BY ZenonT(30), <1>1, <1>2, <2>1 DEF InputSends, TypeOK, State, Live
<1>3. CASE InputAccepted(t)
  BY <1>1, <1>3 DEF InputAccepted, TypeOK, State, Live
<1>4. CASE InputFails(t)
  <2>1. input[t].back \in State /\ "unknown" \in State
    BY DEF TypeOK, Input, State, Terminal
  <2>2. [state EXCEPT ![t] = IF input[t].at = "send" THEN "unknown" ELSE input[t].back]
          \in [Task -> State]
    BY <2>1 DEF TypeOK
  <2>3. state' \in [Task -> State] /\ queue' \in Seq(Task) /\ start' \in [Task -> StartPc]
    BY <1>4, <2>2, DrainType DEF InputFails, TypeOK
  <2>4. sending' \in [Task -> BOOLEAN]
    BY <1>4 DEF InputFails, TypeOK
  <2> QED  BY <1>1, <1>4, <2>3, <2>4 DEF InputFails, TypeOK
<1> QED  BY <1>2, <1>3, <1>4

\* What ends a turn, or what is left of it, starts no turn and no tool call.
LEMMA TurnsCalm ==
  ASSUME TypeOK, NEW s, turn' = [turn EXCEPT ![s] = Rest] \/ Winds(s) \/ turn' = turn
  PROVE  /\ turn' \in [Session -> Turn]
         /\ \A r \in Session : ~LooksStopped(r)' => ~LooksStopped(r) /\ turn'[r].of = turn[r].of
<1>0. turn \in [Session -> Turn]
  BY DEF TypeOK
<1>1. CASE turn' = turn
  BY <1>0, <1>1 DEF LooksStopped
<1>2. CASE turn' = [turn EXCEPT ![s] = Rest]
  <2>1. Rest \in Turn /\ Rest.phase = "idle"
    BY DEF Turn, Rest
  <2>2. \A r \in Session : turn'[r] \in {turn[r], Rest}
    BY <1>0, <1>2
  <2>3. turn' \in [Session -> Turn]
    BY <1>0, <1>2, <2>1
  <2> QED  BY <2>1, <2>2, <2>3 DEF LooksStopped
<1>3. ASSUME NEW p \in {"settling", "jobs"}, turn' = [turn EXCEPT ![s].phase = p],
             p = "settling" => turn[s].phase \in {"busy", "settling"}
      PROVE  /\ turn' \in [Session -> Turn]
             /\ \A r \in Session : ~LooksStopped(r)' => ~LooksStopped(r) /\ turn'[r].of = turn[r].of
  <2>1. \A r \in Session : /\ [turn[r] EXCEPT !.phase = p] \in Turn
                           /\ [turn[r] EXCEPT !.phase = p].of = turn[r].of
                           /\ [turn[r] EXCEPT !.phase = p].phase = p
    BY <1>0, <1>3 DEF Turn
  <2>2. /\ \A r \in Session : turn'[r] = IF r = s THEN [turn[r] EXCEPT !.phase = p] ELSE turn[r]
        /\ DOMAIN turn' = Session /\ turn' = [r \in Session |-> turn'[r]]
    BY <1>0, <1>3
  <2>3. turn' \in [Session -> Turn]
    <3>1. \A r \in Session : turn[r] \in Turn
      BY <1>0
    <3>2. \A r \in Session : turn'[r] \in Turn
      BY <2>1, <2>2, <3>1
    <3> QED  BY <2>2, <3>2
  <2> QED  BY <1>3, <2>1, <2>2, <2>3 DEF LooksStopped
<1> QED  BY <1>1, <1>2, <1>3 DEF Winds

\* So do the later steps of cancel; its poll counter never goes below one.
LEMMA TypeCancel ==
  ASSUME TypeOK, NEW t \in Task, CancelAwaited(t) \/ CancelStops(t) \/ CancelPoll(t)
  PROVE  TypeOK'
<1>1. NoCancel \in Cancel
  BY DEF NoCancel, Cancel
<1>2. CASE CancelAwaited(t)
  <2>1. cancel[t] \in [at: {"await", "stop", "poll"}, polls: 1..CancelPolls]
    BY <1>2 DEF CancelAwaited, TypeOK, Cancel, NoCancel
  <2>2. [cancel[t] EXCEPT !.at = "stop"] \in Cancel
    BY <2>1 DEF Cancel
  <2> QED  BY <1>1, <1>2, <2>2 DEF CancelAwaited, TypeOK
<1>3. CASE CancelStops(t)
  <2>0. cancel[t] \in [at: {"await", "stop", "poll"}, polls: 1..CancelPolls]
    BY <1>3 DEF CancelStops, TypeOK, Cancel, NoCancel
  <2>1. [cancel[t] EXCEPT !.at = "poll"] \in Cancel
    BY <2>0 DEF Cancel
  <2>2. turn' \in [Session -> Turn]
    BY <1>3, TurnsCalm DEF CancelStops
  <2> QED  BY <1>3, <2>1, <2>2 DEF CancelStops, TypeOK
<1>4. CASE CancelPoll(t)
  <2>1. /\ [state EXCEPT ![t] = "cancelled"] \in [Task -> State]
        /\ [state EXCEPT ![t] = "unknown"] \in [Task -> State]
    BY DEF TypeOK, State, Terminal
  <2>2. state' \in [Task -> State] /\ queue' \in Seq(Task) /\ start' \in [Task -> StartPc]
    <3>1. CASE UNCHANGED <<state, queue, start>>
      BY <3>1 DEF TypeOK
    <3>2. CASE Drain([state EXCEPT ![t] = "cancelled"], queue, start)
      BY <2>1, <3>2, DrainType DEF TypeOK
    <3>3. CASE Drain([state EXCEPT ![t] = "unknown"], queue, start)
      BY <2>1, <3>3, DrainType DEF TypeOK
    <3> QED  BY <1>4, <3>1, <3>2, <3>3 DEF CancelPoll
  <2>3. cancel' \in [Task -> Cancel]
    <3>1. CASE cancel' = [cancel EXCEPT ![t] = NoCancel]
      BY <1>1, <3>1 DEF TypeOK
    <3>2. CASE cancel[t].at = "poll" /\ cancel[t].polls # 1 /\ cancel' = [cancel EXCEPT ![t].polls = @ - 1]
      <4>0. cancel[t] \in [at: {"await", "stop", "poll"}, polls: 1..CancelPolls]
        BY <3>2 DEF TypeOK, Cancel, NoCancel
      <4>1. [cancel[t] EXCEPT !.polls = @ - 1] \in Cancel
        BY <3>2, <4>0, ConstantsOK DEF Cancel
      <4> QED  BY <3>2, <4>1 DEF TypeOK
    <3> QED  BY <1>4, <3>1, <3>2 DEF CancelPoll
  <2> QED  BY <1>4, <2>2, <2>3 DEF CancelPoll, TypeOK
<1> QED  BY <1>2, <1>3, <1>4

\* So do the start of a turn and the answer to a question.
LEMMA TypeTurn ==
  ASSUME TypeOK, NEW t \in Task, TurnStarts(t) \/ AskDecided(t)
  PROVE  TypeOK'
<1>1. CASE TurnStarts(t)
  <2>1. /\ [of |-> t, phase |-> "busy"] \in Turn
        /\ [input EXCEPT ![t].at = "sent"] \in [Task -> Input]
        /\ "sent" \in StartPc
    BY ZenonT(30) DEF TypeOK, Turn, Input, StartPc
  <2>2. state' \in [Task -> State]
    BY <1>1 DEF TurnStarts, TypeOK, State, Live
  <2>3. start' \in [Task -> StartPc] /\ input' \in [Task -> Input]
    BY <1>1, <2>1 DEF TurnStarts, TypeOK
  <2>4. turn' \in [Session -> Turn]
    BY <1>1, <2>1 DEF TurnStarts, TypeOK
  <2> QED  BY <1>1, <2>2, <2>3, <2>4 DEF TurnStarts, TypeOK
<1>2. CASE AskDecided(t)
  BY <1>2 DEF AskDecided, TypeOK, State, Live
<1> QED  BY <1>1, <1>2

\* So do the steps of checkQuiet; its read counter never goes below one.
LEMMA TypeQuiet ==
  ASSUME TypeOK, NEW t \in Task, NEW q \in quiet[t],
         QuietWakes(t, q) \/ QuietReads(t, q) \/ QuietReadFails(t, q)
  PROVE  TypeOK'
<1>1. q \in Quiet
  BY DEF TypeOK
<1>2. /\ Without(t, q) \in [Task -> SUBSET Quiet]
      /\ \A r \in Quiet : Becomes(t, q, r) \in [Task -> SUBSET Quiet]
  BY DEF TypeOK, Without, Becomes
<1>3. q.left # 1 => [q EXCEPT !.at = "sleep", !.left = @ - 1] \in Quiet
  <2>1. q.left # 1 => q.left - 1 \in 1..QuietPolls
    BY <1>1, ConstantsOK DEF Quiet
  <2>2. \A n \in 1..QuietPolls : [q EXCEPT !.at = "sleep", !.left = n] \in Quiet
    BY <1>1 DEF Quiet
  <2>3. [q EXCEPT !.at = "sleep", !.left = @ - 1] = [q EXCEPT !.at = "sleep", !.left = q.left - 1]
    BY <1>1 DEF Quiet
  <2> QED  BY <2>1, <2>2, <2>3
<1>4. [q EXCEPT !.at = "read"] \in Quiet
  BY <1>1 DEF Quiet
<1>5. /\ [state EXCEPT ![t] = "unknown"] \in [Task -> State]
      /\ [state EXCEPT ![t] = "completed"] \in [Task -> State]
      /\ [state EXCEPT ![t] = "waiting"] \in [Task -> State]
  BY DEF TypeOK, State, Terminal, Live
<1>6. CASE QuietWakes(t, q)
  BY <1>2, <1>4, <1>6 DEF QuietWakes, TypeOK
<1>7. ASSUME GiveUp(t, q)
      PROVE  /\ quiet' \in [Task -> SUBSET Quiet] /\ state' \in [Task -> State]
             /\ queue' \in Seq(Task) /\ start' \in [Task -> StartPc]
  BY <1>2, <1>5, <1>7, DrainType DEF GiveUp, TypeOK
<1>8. CASE QuietReadFails(t, q)
  <2>1. CASE GiveUp(t, q)
    BY <1>7, <1>8, <2>1 DEF QuietReadFails, TypeOK
  <2>2. CASE /\ quiet' = Becomes(t, q, [q EXCEPT !.at = "sleep", !.left = @ - 1])
             /\ q.left # 1 /\ UNCHANGED <<state, queue, start>>
    <3>1. quiet' \in [Task -> SUBSET Quiet]
      BY <1>2, <1>3, <2>2
    <3> QED  BY <1>8, <2>2, <3>1 DEF QuietReadFails, TypeOK
  <2> QED  BY <1>8, <2>1, <2>2 DEF QuietReadFails
<1>9. CASE QuietReads(t, q)
  <2>1. ASSUME Drain([state EXCEPT ![t] = "completed"], queue, start)
        PROVE  state' \in [Task -> State] /\ queue' \in Seq(Task) /\ start' \in [Task -> StartPc]
    BY <1>5, <2>1, DrainType DEF TypeOK
  <2>2. /\ quiet' \in [Task -> SUBSET Quiet] /\ state' \in [Task -> State]
        /\ queue' \in Seq(Task) /\ start' \in [Task -> StartPc]
    BY <1>2, <1>3, <1>5, <1>7, <1>9, <2>1 DEF QuietReads, TypeOK
  <2> QED  BY <1>9, <2>2 DEF QuietReads, TypeOK
<1> QED  BY <1>6, <1>8, <1>9

\* So do the events and questions of the harness.
LEMMA TypeHarness ==
  ASSUME TypeOK, NEW s \in Session, Harness(s)
  PROVE  TypeOK'
<1>1. TurnFailed(s) \/ TurnCompleted(s) \/ TurnSettles(s) => turn' \in [Session -> Turn]
  BY TurnsCalm DEF TurnFailed, TurnCompleted, TurnSettles
<1>2. owner[s] # NoTask => owner[s] \in Task
  BY DEF TypeOK
<1>3. CASE TurnFailed(s)
  <2>1. [state EXCEPT ![owner[s]] = "failed"] \in [Task -> State]
    BY DEF TypeOK, State, Terminal
  <2>2. state' \in [Task -> State] /\ queue' \in Seq(Task) /\ start' \in [Task -> StartPc]
    BY <1>3, <2>1, DrainType DEF TurnFailed, TypeOK
  <2> QED  BY <1>1, <1>3, <2>2 DEF TurnFailed, TypeOK
<1>4. CASE TurnCompleted(s)
  <2>1. [fresh |-> TRUE, at |-> "sleep", left |-> QuietPolls] \in Quiet
    BY ConstantsOK DEF Quiet
  <2>2. quiet' \in [Task -> SUBSET Quiet]
    <3> DEFINE more == [fresh |-> TRUE, at |-> "sleep", left |-> QuietPolls]
    <3>1. CASE Listening(s)
      <4>1. quiet[owner[s]] \cup {more} \subseteq Quiet
        BY <1>2, <2>1, <3>1 DEF Listening, TypeOK
      <4>2. quiet' = [quiet EXCEPT ![owner[s]] = quiet[owner[s]] \cup {more}]
        BY <1>4, <3>1 DEF TurnCompleted
      <4> HIDE DEF more
      <4> QED  BY <4>1, <4>2 DEF TypeOK
    <3>2. CASE ~Listening(s)
      BY <1>4, <3>2 DEF TurnCompleted, TypeOK
    <3> QED  BY <3>1, <3>2
  <2> QED  BY <1>1, <1>4, <2>2 DEF TurnCompleted, TypeOK
<1>5. CASE TurnSettles(s)
  BY <1>1, <1>5 DEF TurnSettles, TypeOK
<1>6. CASE Ask(s)
  BY <1>2, <1>6 DEF Ask, TypeOK, State, Live
<1> QED  BY <1>3, <1>4, <1>5, <1>6 DEF Harness

\* So do an exit of the harness and a restart of the bridge.
LEMMA TypeLoss ==
  ASSUME TypeOK, HarnessExit \/ BridgeRestart
  PROVE  TypeOK'
<1>1. ASSUME DropCalls
      PROVE  /\ queue' \in Seq(Task) /\ sending' \in [Task -> BOOLEAN]
             /\ start' \in [Task -> StartPc] /\ input' \in [Task -> Input]
             /\ cancel' \in [Task -> Cancel]
             /\ asks' \in [Task -> Nat] /\ turn' \in [Session -> Turn]
  BY <1>1 DEF DropCalls, StartPc, Input, NoInput, Cancel, NoCancel, Turn, Rest, State
<1>2. CASE HarnessExit
  <2>1. state' \in [Task -> State] /\ exits' \in Nat
    <3>1. \A t \in Task : LateWrite(t) \in State
      BY DEF LateWrite, TypeOK, Input, State, Terminal
    <3> QED  BY <1>2, <3>1 DEF HarnessExit, TypeOK, State, Terminal
  <2>2. quiet' \in [Task -> SUBSET Quiet]
    <3>1. ASSUME NEW t \in Task
          PROVE  QuietAfterExit(t) \subseteq Quiet
      <4>1. quiet[t] \subseteq Quiet
        BY DEF TypeOK
      <4>2. ASSUME NEW q \in quiet[t], q.left > 1
            PROVE  [q EXCEPT !.at = "sleep", !.left = @ - 1] \in Quiet
        <5>1. q \in Quiet /\ q.left - 1 \in 1..QuietPolls
          BY <4>1, <4>2, ConstantsOK DEF Quiet
        <5>2. \A n \in 1..QuietPolls : [q EXCEPT !.at = "sleep", !.left = n] \in Quiet
          BY <5>1 DEF Quiet
        <5>3. [q EXCEPT !.at = "sleep", !.left = @ - 1] = [q EXCEPT !.at = "sleep", !.left = q.left - 1]
          BY <5>1 DEF Quiet
        <5> QED  BY <5>1, <5>2, <5>3
      <4> QED  BY <4>1, <4>2 DEF QuietAfterExit
    <3> QED  BY <1>2, <3>1 DEF HarnessExit
  <2> QED  BY <1>1, <1>2, <2>1, <2>2 DEF HarnessExit, TypeOK
<1>3. CASE BridgeRestart
  <2>1. state' \in [Task -> State]
    BY <1>3 DEF BridgeRestart, TypeOK, State, Terminal
  <2>2. owner' \in [Session -> Task \cup {NoTask}] /\ exits' \in Nat
    BY <1>3 DEF BridgeRestart, TypeOK
  <2> QED  BY <1>1, <1>3, <2>1, <2>2 DEF BridgeRestart, TypeOK
<1> QED  BY <1>2, <1>3

\* The bridge starts with every variable in its type.
LEMMA TypeInit == Init => TypeOK
<1> SUFFICES ASSUME Init PROVE TypeOK
  OBVIOUS
<1>1. (CHOOSE w \in Workspace : TRUE) \in Workspace
  BY ConstantsOK
<1> QED  BY <1>1 DEF Init, TypeOK, State, Job, Session, StartPc, NoInput, Input, NoCancel, Cancel,
               Rest, Turn

\* No step takes a variable out of its type.
LEMMA TypeStep == TypeOK /\ [Next]_vars => TypeOK'
<1> SUFFICES ASSUME TypeOK, [Next]_vars PROVE TypeOK'
  OBVIOUS
<1>1. CASE UNCHANGED vars
  BY <1>1 DEF vars, TypeOK
<1>2. ASSUME NEW t \in Task, Client(t) \/ Coroutine(t)
      PROVE  TypeOK'
  BY <1>2, TypeClient, TypeStart, TypeInput, TypeCancel, TypeTurn, TypeQuiet DEF Coroutine
<1>3. ASSUME NEW s \in Session, Harness(s)
      PROVE  TypeOK'
  BY <1>3, TypeHarness
<1> QED  BY <1>1, <1>2, <1>3, TypeLoss DEF Next

\* Every variable keeps its type, whatever the clients, the harness and the
\* faults do.
THEOREM TypeCorrect == Spec => []TypeOK
  BY TypeInit, TypeStep, PTL DEF Spec

(***************************************************************************)
(* A cancel is not taken back.  Under "deny" no question of the harness    *)
(* reaches a task; the other constants are arbitrary.                      *)
(***************************************************************************)
\* No step of a coroutine or of a client takes a task out of "cancelling"
\* except to the verdicts of cancel.
LEMMA WishTask ==
  ASSUME TypeOK, NEW t \in Task, Client(t) \/ Coroutine(t),
         NEW u \in Task, state[u] = "cancelling"
  PROVE  state'[u] \in {"cancelling", "cancelled", "unknown", "interrupted"}
<1>1. ASSUME NEW v, Drain([state EXCEPT ![t] = v], queue, start), u # t \/ v \in {"cancelled", "unknown"}
      PROVE  state'[u] \in {"cancelling", "cancelled", "unknown"}
  BY <1>1, DrainAt DEF TypeOK
<1>2. CASE Client(t)
  <2>1. ASSUME NEW w \in Workspace, NEW ro \in BOOLEAN, NEW want \in Session \cup {NoSession},
               StartTask(t, w, ro, want)
        PROVE  state'[u] = "cancelling"
    BY <2>1, DrainAt DEF StartTask, TypeOK
  <2>2. CASE AddInput(t)
    BY <2>2 DEF AddInput, TypeOK, Terminal
  <2>3. CASE CancelNow(t)
    BY <2>3, DrainAt DEF CancelNow, StillStarting, TypeOK
  <2>4. CASE CancelBegins(t)
    BY <2>4 DEF CancelBegins, TypeOK
  <2> QED  BY <1>2, <2>1, <2>2, <2>3, <2>4 DEF Client
<1>3. CASE StartBooted(t) \/ StartSends(t) \/ StartAccepted(t)
  BY <1>3 DEF StartBooted, StartSends, StartAccepted, StillStarting, TypeOK
<1>4. CASE StartFails(t)
  BY <1>4, DrainAt DEF StartFails, StillStarting, TypeOK
<1>5. CASE InputSends(t) \/ InputAccepted(t)
  BY <1>5 DEF InputSends, InputAccepted, CanSend, TypeOK
<1>6. CASE InputFails(t)
  <2>1. CASE CanSend(t)
    <3>1. u # t
      BY <2>1 DEF CanSend
    <3> QED  BY <1>1, <1>6, <2>1, <3>1 DEF InputFails
  <2>2. CASE ~CanSend(t)
    BY <1>6, <2>2 DEF InputFails
  <2> QED  BY <2>1, <2>2
<1>7. CASE CancelAwaited(t) \/ CancelStops(t)
  BY <1>7 DEF CancelAwaited, CancelStops
<1>8. CASE CancelPoll(t)
  BY <1>1, <1>8 DEF CancelPoll
<1>9. CASE TurnStarts(t)
  <2>1. CASE Listening(sid[t])
    <3>1. owner[sid[t]] # u
      BY <2>1 DEF Listening
    <3> QED  BY <1>9, <3>1 DEF TurnStarts, TypeOK
  <2>2. CASE ~Listening(sid[t])
    BY <1>9, <2>2 DEF TurnStarts
  <2> QED  BY <2>1, <2>2
<1>10. ASSUME NEW q \in quiet[t], QuietWakes(t, q) \/ QuietReads(t, q) \/ QuietReadFails(t, q)
       PROVE  state'[u] \in {"cancelling", "unknown"}
  <2>1. ASSUME GiveUp(t, q) PROVE state'[u] \in {"cancelling", "unknown"}
    <3>1. Drain([state EXCEPT ![t] = "unknown"], queue, start)
      BY <2>1 DEF GiveUp
    <3> QED  BY <3>1, DrainAt
  <2>2. CASE QuietWakes(t, q)
    BY <2>2 DEF QuietWakes
  <2>3. CASE QuietReadFails(t, q)
    <3>1. GiveUp(t, q) \/ UNCHANGED state
      BY <2>3 DEF QuietReadFails
    <3> QED  BY <2>1, <3>1
  <2>4. CASE QuietReads(t, q)
    <3>1. CASE state[t] # "running" \/ ~q.fresh
      BY <2>4, <3>1 DEF QuietReads
    <3>2. CASE state[t] = "running" /\ Drain([state EXCEPT ![t] = "completed"], queue, start)
      BY <3>2, DrainAt DEF TypeOK
    <3>3. CASE state[t] = "running" /\ state' = [state EXCEPT ![t] = "waiting"]
      BY <3>3 DEF TypeOK
    <3> QED  BY <2>1, <2>4, <3>1, <3>2, <3>3 DEF QuietReads
  <2> QED  BY <1>10, <2>2, <2>3, <2>4
<1>11. CASE AskDecided(t)
  BY <1>11 DEF AskDecided, TypeOK
<1> QED  BY <1>2, <1>3, <1>4, <1>5, <1>6, <1>7, <1>8, <1>9, <1>10, <1>11 DEF Coroutine

\* An accepted cancel is never taken back, for any number of tasks, sessions
\* and clients and under every fault, as long as the interaction policy is
\* "deny": it ends cancelled, unknown or interrupted.
THEOREM CancelIsKept ==
  ASSUME Policy = "deny"
  PROVE  Spec => CancelKeepsWish
<1> DEFINE Kept == \A t \in Task : state[t] = "cancelling" =>
                     state'[t] \in {"cancelling", "cancelled", "unknown", "interrupted"}
<1>1. TypeOK /\ [Next]_vars => Kept
  <2> SUFFICES ASSUME TypeOK, [Next]_vars, NEW u \in Task, state[u] = "cancelling"
               PROVE  state'[u] \in {"cancelling", "cancelled", "unknown", "interrupted"}
    OBVIOUS
  <2>1. CASE UNCHANGED vars
    BY <2>1 DEF vars
  <2>2. ASSUME NEW t \in Task, Client(t) \/ Coroutine(t)
        PROVE  state'[u] \in {"cancelling", "cancelled", "unknown", "interrupted"}
    BY <2>2, WishTask
  <2>3. ASSUME NEW s \in Session, Harness(s)
        PROVE  state'[u] = "cancelling"
    <3>1. CASE TurnFailed(s)
      <4>1. CASE Listening(s)
        <5>1. owner[s] \in Task /\ owner[s] # u
          BY <4>1 DEF Listening, TypeOK
        <5> QED  BY <3>1, <4>1, <5>1, DrainAt DEF TurnFailed, TypeOK
      <4>2. CASE ~Listening(s)
        BY <3>1, <4>2 DEF TurnFailed
      <4> QED  BY <4>1, <4>2
    <3>2. CASE TurnCompleted(s) \/ TurnSettles(s)
      BY <3>2 DEF TurnCompleted, TurnSettles
    <3>3. CASE Ask(s)
      BY <3>3 DEF Ask
    <3> QED  BY <2>3, <3>1, <3>2, <3>3 DEF Harness
  <2>4. CASE HarnessExit
    BY <2>4 DEF HarnessExit, Active, Live
  <2>5. CASE BridgeRestart
    BY <2>5 DEF BridgeRestart, StillStarting, Live
  <2> QED  BY <2>1, <2>2, <2>3, <2>4, <2>5 DEF Next
<1>2. TypeOK /\ [Next]_vars => [Kept]_vars
  BY <1>1
<1> QED  BY <1>2, TypeCorrect, PTL DEF Spec, CancelKeepsWish

(***************************************************************************)
(* Mutual exclusion of writers, for clients that start and cancel tasks.   *)
(* WriteExclusion alone is not inductive: an event may move its task to    *)
(* "running", so a task the bridge listens to must have been admitted; and *)
(* a later step of addInput may revive a task, so none may be in flight.   *)
(***************************************************************************)
NoInputs == \A t \in Task : input[t].at = "idle"
ListenersExist == \A t \in Task : accepting[t] => state[t] # "absent"
ExclusionInv == TypeOK /\ WriteExclusion /\ NoInputs /\ ListenersExist

\* A step admits nobody: u is active after it only if u was active before.
Keeps(u) ==
  /\ job'[u] = job[u]
  /\ input'[u].at = "idle"
  /\ state'[u] \in Active => state[u] \in Active
  /\ state'[u] = "absent" => state[u] = "absent"
  /\ accepting'[u] => accepting[u] \/ state[u] # "absent"

\* drainQueue admits nobody, and neither does what put t into state v first.
LEMMA DrainKeeps ==
  ASSUME TypeOK, NEW t \in Task, NEW v, NEW q, NEW go, Drain([state EXCEPT ![t] = v], q, go),
         v \notin {"absent", "queued"}, v \in Active => state[t] \in Active, NEW u \in Task
  PROVE  /\ state'[u] \in Active => state[u] \in Active
         /\ state'[u] = "absent" => state[u] = "absent"
  BY DrainAt DEF Active, Live

\* No coroutine and no cancel admits a task.
LEMMA TaskKeeps ==
  ASSUME TypeOK, NoInputs, ListenersExist, "read" \notin Faults, NEW t \in Task,
         Coroutine(t) \/ CancelNow(t) \/ CancelBegins(t), NEW u \in Task
  PROVE  Keeps(u)
<1>0. input[u].at = "idle" /\ input[t].at = "idle"
  BY DEF NoInputs
<1>1. CASE CancelNow(t)
  <2>1. input'[u].at = "idle"
    BY <1>0, <1>1 DEF CancelNow, TypeOK, Input
  <2>2. /\ state'[u] \in Active => state[u] \in Active
        /\ state'[u] = "absent" => state[u] = "absent"
    BY <1>1, DrainKeeps DEF CancelNow, Active, Live
  <2> QED  BY <1>1, <2>1, <2>2 DEF CancelNow, Keeps
<1>2. CASE CancelBegins(t)
  <2>1. input'[u].at = "idle"
    BY <1>0, <1>2 DEF CancelBegins, TypeOK, Input
  <2> QED  BY <1>2, <2>1 DEF CancelBegins, Keeps, Active, Live, TypeOK
<1>3. CASE StartBooted(t)
  BY <1>0, <1>3 DEF StartBooted, Keeps
<1>4. CASE StartSends(t)
  <2>1. input'[u].at = "idle"
    <3>1. \/ input' = [input EXCEPT ![t].fresh = FALSE]
          \/ input' = input
      BY <1>4 DEF StartSends
    <3> QED  BY ZenonT(30), <1>0, <3>1 DEF TypeOK, Input
  <2>2. accepting'[u] => accepting[u] \/ state[u] # "absent"
    BY <1>4 DEF StartSends, StillStarting, TypeOK
  <2> QED  BY <1>4, <2>1, <2>2 DEF StartSends, Keeps
<1>5. CASE StartAccepted(t)
  BY <1>0, <1>5 DEF StartAccepted, StillStarting, Keeps, Active, Live, TypeOK
<1>6. CASE StartFails(t)
  <2>1. /\ state'[u] \in Active => state[u] \in Active
        /\ state'[u] = "absent" => state[u] = "absent"
    <3>1. CASE StillStarting(t)
      BY <1>6, <3>1, DrainKeeps DEF StartFails, Active, Live
    <3>2. CASE ~StillStarting(t)
      BY <1>6, <3>2 DEF StartFails
    <3> QED  BY <3>1, <3>2
  <2> QED  BY <1>0, <1>6, <2>1 DEF StartFails, Keeps
<1>7. ~(InputSends(t) \/ InputAccepted(t) \/ InputFails(t))
  BY <1>0 DEF InputSends, InputAccepted, InputFails
<1>8. CASE CancelAwaited(t) \/ CancelStops(t)
  BY <1>0, <1>8 DEF CancelAwaited, CancelStops, Keeps
<1>9. CASE CancelPoll(t)
  <2>1. CASE UNCHANGED state
    BY <1>0, <1>9, <2>1 DEF CancelPoll, Keeps
  <2>2. ASSUME NEW v \in {"cancelled", "unknown"}, state[t] = "cancelling",
               Drain([state EXCEPT ![t] = v], queue, start)
        PROVE  /\ state'[u] \in Active => state[u] \in Active
               /\ state'[u] = "absent" => state[u] = "absent"
    <3>1. state[t] \in Active /\ v \notin {"absent", "queued"}
      BY <2>2 DEF Active, Live
    <3> QED  BY <2>2, <3>1, DrainKeeps
  <2> QED  BY <1>0, <1>9, <2>1, <2>2 DEF CancelPoll, Keeps
<1>10. CASE TurnStarts(t)
  <2>1. input'[u].at = "idle"
    BY <1>0, <1>10 DEF TurnStarts
  <2>2. CASE Listening(sid[t])
    <3> DEFINE o == owner[sid[t]]
    <3>1. o \in Task => state[o] \in Active
      <4>1. o \in Task => state[o] # "absent" /\ state[o] \notin Terminal
        BY <2>2 DEF Listening, ListenersExist
      <4> QED  BY <4>1 DEF TypeOK, State, Active
    <3>2. state' = [state EXCEPT ![o] = "running"] \/ state' = state
      BY <1>10, <2>2 DEF TurnStarts
    <3> HIDE DEF o
    <3>3. /\ state'[u] \in Active => state[u] \in Active
          /\ state'[u] = "absent" => state[u] = "absent"
      BY <3>1, <3>2 DEF TypeOK
    <3> QED  BY <1>10, <2>1, <3>3 DEF TurnStarts, Keeps
  <2>3. CASE ~Listening(sid[t])
    BY <1>10, <2>1, <2>3 DEF TurnStarts, Keeps
  <2> QED  BY <2>2, <2>3
<1>11. ASSUME NEW q \in quiet[t], QuietWakes(t, q) \/ QuietReads(t, q) \/ QuietReadFails(t, q)
       PROVE  Keeps(u)
  <2>1. CASE UNCHANGED state
    BY <1>0, <1>11, <2>1 DEF QuietWakes, QuietReads, QuietReadFails, Keeps
  <2>2. ~QuietReadFails(t, q)
    BY DEF QuietReadFails
  <2>3. CASE QuietWakes(t, q)
    BY <2>1, <2>3 DEF QuietWakes
  <2>4. CASE QuietReads(t, q) /\ state' # state
    <3>1. state[t] = "running"
      BY <2>4 DEF QuietReads
    <3>2. \/ Drain([state EXCEPT ![t] = "completed"], queue, start)
          \/ Drain([state EXCEPT ![t] = "unknown"], queue, start)
          \/ state' = [state EXCEPT ![t] = "waiting"]
      BY <2>4 DEF QuietReads, GiveUp
    <3>3. /\ state'[u] \in Active => state[u] \in Active
          /\ state'[u] = "absent" => state[u] = "absent"
      <4>1. ASSUME NEW v \in {"completed", "unknown"}, Drain([state EXCEPT ![t] = v], queue, start)
            PROVE  /\ state'[u] \in Active => state[u] \in Active
                   /\ state'[u] = "absent" => state[u] = "absent"
        <5>1. state[t] \in Active /\ v \notin {"absent", "queued"}
          BY <3>1 DEF Active, Live
        <5> QED  BY <4>1, <5>1, DrainKeeps
      <4>2. CASE state' = [state EXCEPT ![t] = "waiting"]
        BY <3>1, <4>2 DEF TypeOK, Active, Live
      <4> QED  BY <3>2, <4>1, <4>2
    <3> QED  BY <1>0, <2>4, <3>3 DEF QuietReads, Keeps
  <2> QED  BY <1>11, <2>1, <2>2, <2>3, <2>4
<1>12. CASE AskDecided(t)
  BY <1>0, <1>12 DEF AskDecided, Keeps, Active, Live, TypeOK
<1> QED  BY <1>1, <1>2, <1>3, <1>4, <1>5, <1>6, <1>7, <1>8, <1>9, <1>10, <1>11, <1>12 DEF Coroutine

\* No event of the harness admits a task: it only reaches tasks it listens to.
LEMMA HarnessKeeps ==
  ASSUME TypeOK, NoInputs, ListenersExist, Policy = "deny", NEW s \in Session, Harness(s),
         NEW u \in Task
  PROVE  Keeps(u)
<1>0. input[u].at = "idle"
  BY DEF NoInputs
<1>1. CASE TurnFailed(s)
  <2>1. CASE Listening(s)
    <3> DEFINE o == owner[s]
    <3>1. o \in Task
      BY <2>1 DEF Listening, TypeOK
    <3>2. Drain([state EXCEPT ![o] = "failed"], queue, start)
      BY <1>1, <2>1 DEF TurnFailed
    <3> HIDE DEF o
    <3>3. "failed" \notin Active
      BY DEF Active, Live
    <3>4. /\ state'[u] \in Active => state[u] \in Active
          /\ state'[u] = "absent" => state[u] = "absent"
      BY <3>1, <3>2, <3>3, DrainKeeps
    <3> QED  BY <1>0, <1>1, <3>4 DEF TurnFailed, Keeps
  <2>2. CASE ~Listening(s)
    BY <1>0, <1>1, <2>2 DEF TurnFailed, Keeps
  <2> QED  BY <2>1, <2>2
<1>2. CASE TurnCompleted(s) \/ TurnSettles(s)
  BY <1>0, <1>2 DEF TurnCompleted, TurnSettles, Keeps
<1>3. ~Ask(s)
  BY DEF Ask
<1> QED  BY <1>1, <1>2, <1>3 DEF Harness

\* A restart of the bridge admits nobody.
LEMMA RestartKeeps ==
  ASSUME TypeOK, NoInputs, BridgeRestart, NEW u \in Task
  PROVE  Keeps(u)
<1>1. /\ state'[u] \in Active => state[u] \in Active
      /\ state'[u] = "absent" => state[u] = "absent"
  BY DEF BridgeRestart, NoInputs, Active, Live
<1> QED  BY <1>1 DEF BridgeRestart, DropCalls, NoInput, Keeps

\* A step that admits nobody preserves the invariant.
LEMMA KeepsExclusion ==
  ASSUME ExclusionInv, TypeOK', \A u \in Task : Keeps(u)
  PROVE  ExclusionInv'
<1>1. WriteExclusion'
  BY DEF ExclusionInv, WriteExclusion, Keeps
<1>2. NoInputs' /\ ListenersExist'
  BY DEF ExclusionInv, ListenersExist, NoInputs, Keeps
<1> QED  BY <1>1, <1>2 DEF ExclusionInv

\* startTask admits a writer only into a workspace without one.
LEMMA StartTaskExclusion ==
  ASSUME ExclusionInv, TypeOK', NEW t \in Task, NEW w \in Workspace, NEW ro \in BOOLEAN,
         NEW want \in Session \cup {NoSession}, StartTask(t, w, ro, want)
  PROVE  ExclusionInv'
<1>0. TypeOK
  BY DEF ExclusionInv
<1>1. ASSUME NEW u \in Task, u # t
      PROVE  /\ job'[u] = job[u]
             /\ state'[u] \in Active => state[u] \in Active
             /\ state'[u] = "absent" => state[u] = "absent"
  <2>1. job'[u] = job[u]
    BY <1>0, <1>1 DEF StartTask, TypeOK
  <2>2. state'[u] = state[u] \/ (state[u] = "queued" /\ state'[u] = "starting")
    BY <1>0, <1>1, DrainAt DEF StartTask
  <2> QED  BY <2>1, <2>2 DEF Active, Live
<1>2. job'[t].ws = w /\ job'[t].ro = ro /\ state'[t] # "absent"
  <2>1. job'[t].ws = w /\ job'[t].ro = ro
    BY <1>0 DEF StartTask, TypeOK
  <2>2. state'[t] \in {"queued", "starting"}
    BY <1>0, DrainAt DEF StartTask
  <2> QED  BY <2>1, <2>2
<1>3. ~ro => Writers(w, Task) = {}
  BY DEF StartTask
<1>4. ASSUME NEW u \in Task, u # t, state'[u] \in Active, job'[u].ws = w, ~ro
      PROVE  job'[u].ro
  BY <1>1, <1>3, <1>4 DEF Writers
<1>5. WriteExclusion'
  <2> SUFFICES ASSUME NEW u \in Task, NEW v \in Task, u # v, state'[u] \in Active,
                      state'[v] \in Active, job'[u].ws = job'[v].ws
               PROVE  job'[u].ro \/ job'[v].ro
    BY DEF WriteExclusion
  <2>1. CASE u = t
    BY <1>2, <1>4, <2>1
  <2>2. CASE v = t
    BY <1>2, <1>4, <2>2
  <2>3. CASE u # t /\ v # t
    BY <1>1, <2>3 DEF ExclusionInv, WriteExclusion
  <2> QED  BY <2>1, <2>2, <2>3
<1>6. NoInputs'
  BY DEF StartTask, ExclusionInv, NoInputs
<1>7. ListenersExist'
  BY <1>1, <1>2 DEF StartTask, ExclusionInv, ListenersExist
<1> QED  BY <1>5, <1>6, <1>7 DEF ExclusionInv

\* "Two non-read-only tasks may not run in parallel in one workspace": for any
\* number of tasks, sessions and workspaces, with failing harness calls and
\* restarts of the bridge, as long as clients only start and cancel tasks, no
\* session/read fails and the harness does not exit.  With clients that steer
\* the claim is false: see the run steer_race.
THEOREM Exclusion ==
  ASSUME Policy = "deny", ClientOps \cap {"steer", "followUp"} = {},
         Faults \cap {"read", "exit"} = {}
  PROVE  Spec => []WriteExclusion
<1>1. Init => ExclusionInv
  <2> SUFFICES ASSUME Init PROVE ExclusionInv
    OBVIOUS
  <2>1. WriteExclusion
    BY DEF Init, WriteExclusion, Active, Live
  <2> QED  BY <2>1, TypeInit DEF ExclusionInv, NoInputs, ListenersExist, Init, NoInput
<1>2. ExclusionInv /\ [Next]_vars => ExclusionInv'
  <2> SUFFICES ASSUME ExclusionInv, [Next]_vars PROVE ExclusionInv'
    OBVIOUS
  <2>0. /\ TypeOK /\ NoInputs /\ ListenersExist
        /\ "read" \notin Faults
    BY DEF ExclusionInv
  <2>1. TypeOK'
    BY <2>0, TypeStep
  <2>2. CASE UNCHANGED vars
    BY <2>2 DEF vars, ExclusionInv, TypeOK, WriteExclusion, NoInputs, ListenersExist
  <2>3. ASSUME NEW t \in Task, Client(t)
        PROVE  ExclusionInv'
    <3>1. ~AddInput(t)
      BY DEF AddInput
    <3>2. CASE CancelNow(t) \/ CancelBegins(t)
      BY <2>0, <2>1, <3>2, TaskKeeps, KeepsExclusion
    <3> QED  BY <2>1, <2>3, <3>1, <3>2, StartTaskExclusion DEF Client
  <2>4. ASSUME NEW t \in Task, Coroutine(t)
        PROVE  ExclusionInv'
    BY <2>0, <2>1, <2>4, TaskKeeps, KeepsExclusion
  <2>5. ASSUME NEW s \in Session, Harness(s)
        PROVE  ExclusionInv'
    BY <2>0, <2>1, <2>5, HarnessKeeps, KeepsExclusion
  <2>6. ~HarnessExit
    BY DEF HarnessExit
  <2>7. CASE BridgeRestart
    BY <2>0, <2>1, <2>7, RestartKeeps, KeepsExclusion
  <2> QED  BY <2>2, <2>3, <2>4, <2>5, <2>6, <2>7 DEF Next
<1>3. ExclusionInv => WriteExclusion
  BY DEF ExclusionInv
<1> QED  BY <1>1, <1>2, <1>3, PTL DEF Spec

(***************************************************************************)
(* The start queue.  NoIdleSlot is not inductive alone: drainQueue frees   *)
(* the queue of what it starts only if the queue holds each queued task    *)
(* once (QueueExact), and that stays so only if whatever still runs for a  *)
(* task - a session, a call, a sleep - belongs to a task that has left the *)
(* queue for good (Started).                                               *)
(***************************************************************************)
Born(t) == state[t] \notin {"absent", "queued"}
\* startNow has its session.
Going == {"setup", "send", "sent"}
Started ==
  /\ \A s \in Session : owner[s] # NoTask => Born(owner[s])
  /\ \A t \in Task :
       /\ input[t].at # "idle" => Born(t) /\ input[t].back \notin {"absent", "queued"}
       /\ quiet[t] # {} => Born(t)
       /\ start[t] # "idle" => Born(t)
       /\ sid[t] # NoSession => state[t] # "absent"
       /\ start[t] \in Going \/ input[t].at # "idle" => sid[t] # NoSession
QueueInv == TypeOK /\ QueueExact /\ NoIdleSlot /\ Started

\* The queue q holds exactly the tasks that are queued in st, each once.
Exact(st, q) ==
  /\ {t \in Task : st[t] = "queued"} = {q[i] : i \in DOMAIN q}
  /\ \A i, j \in DOMAIN q : q[i] = q[j] => i = j

\* What every step leaves: an exact queue, no idle slot, and no task back in
\* the queue or forgotten.
Orderly ==
  /\ QueueExact' /\ NoIdleSlot'
  /\ \A u \in Task : Born(u) => state'[u] \notin {"absent", "queued"}
  /\ \A u \in Task : state'[u] = "absent" => state[u] = "absent"

\* A non-empty set of numbers has a least element.
LEMMA LeastPlace ==
  ASSUME NEW S \in SUBSET Nat, S # {}
  PROVE  \E x \in S : \A y \in S : x <= y
<1> DEFINE Less == {p \in Nat \X Nat : p[1] < p[2]}
<1>0. OpToRel(<, Nat) = Less
  BY Zenon DEF OpToRel
<1>1. IsWellFoundedOn(Less, Nat)
  BY NatLessThanWellFounded, <1>0, Zenon
<1>2. PICK x \in S : \A y \in S : <<y, x>> \notin Less
  BY <1>1, WFMin
<1>3. \A y \in S : ~(y < x)
  BY <1>2
<1> QED  BY <1>3

\* The tasks that take a slot are finitely many.
LEMMA OccupiedNat ==
  ASSUME NEW st
  PROVE  /\ IsFiniteSet({u \in Task : st[u] \in Slot})
         /\ Occupied(st) \in Nat
  BY ConstantsOK, FS_Subset, FS_CardinalityType DEF Occupied

\* drainQueue takes a prefix of an exact queue, and stops short of its end only
\* where the tasks of that prefix fill every slot.
LEMMA VisitedPrefix ==
  ASSUME NEW st, NEW q \in Seq(Task), Exact(st, q)
  PROVE  \E n \in 0..Len(q) :
           /\ Visited(st, q) = 1..n
           /\ n < Len(q) => Occupied(st) + n >= MaxConcurrent
           /\ n > 0 => Occupied(st) + n <= MaxConcurrent
<1>1. DOMAIN q = 1..Len(q) /\ Len(q) \in Nat
  OBVIOUS
<1>2. \A i \in DOMAIN q : st[q[i]] = "queued"
  BY DEF Exact
<1>3. ASSUME NEW i \in DOMAIN q
      PROVE  Cardinality({j \in 1..(i-1) : st[q[j]] = "queued"}) = i - 1
  <2>1. {j \in 1..(i-1) : st[q[j]] = "queued"} = 1..(i-1)
    BY <1>1, <1>2
  <2>2. Cardinality(1..(i-1)) = i - 1
    BY <1>1, FS_Interval
  <2> QED  BY <2>1, <2>2
<1>4. Blocked(st, q) = {i \in 1..Len(q) : Occupied(st) + (i - 1) >= MaxConcurrent}
  BY <1>1, <1>2, <1>3 DEF Blocked
<1>5. Occupied(st) \in Nat /\ MaxConcurrent \in Nat
  BY OccupiedNat, ConstantsOK
<1>6. CASE Blocked(st, q) = {}
  <2>1. Visited(st, q) = 1..Len(q)
    BY <1>1, <1>6 DEF Visited
  <2>2. Len(q) > 0 => Occupied(st) + Len(q) <= MaxConcurrent
    <3>1. Len(q) > 0 => Len(q) \in 1..Len(q)
      BY <1>1
    <3>2. Len(q) > 0 => ~(Occupied(st) + (Len(q) - 1) >= MaxConcurrent)
      BY <1>4, <1>6, <3>1
    <3> QED  BY <1>1, <1>5, <3>2
  <2>3. Len(q) \in 0..Len(q) /\ ~(Len(q) < Len(q))
    BY <1>1
  <2> QED  BY <2>1, <2>2, <2>3
<1>7. CASE Blocked(st, q) # {}
  <2>0. Blocked(st, q) \in SUBSET Nat
    BY <1>1, <1>4
  <2>1. PICK b \in Blocked(st, q) : \A y \in Blocked(st, q) : b <= y
    BY <1>7, <2>0, LeastPlace
  <2>2. b \in 1..Len(q) /\ Occupied(st) + (b - 1) >= MaxConcurrent
    BY <1>4, <2>1
  <2>3. Visited(st, q) = 1..(b - 1)
    BY <1>1, <1>4, <2>1, <2>2 DEF Visited
  <2>4. b - 1 > 0 => Occupied(st) + (b - 1) <= MaxConcurrent
    <3>1. b - 1 > 0 => b - 1 \in 1..Len(q) /\ b - 1 \notin Blocked(st, q)
      BY <1>1, <1>4, <2>1, <2>2
    <3>2. b - 1 > 0 => ~(Occupied(st) + (b - 2) >= MaxConcurrent)
      BY <1>4, <2>2, <3>1
    <3> QED  BY <1>5, <2>2, <3>2
  <2> QED  BY <1>1, <2>2, <2>3, <2>4
<1> QED  BY <1>6, <1>7

\* After drainQueue on an exact queue the queue is exact, no slot is idle while
\* a task is queued, and it started no task beyond the last slot.
LEMMA DrainQueue ==
  ASSUME NEW st \in [Task -> State], NEW q \in Seq(Task), NEW go, Exact(st, q), Drain(st, q, go)
  PROVE  /\ QueueExact' /\ NoIdleSlot'
         /\ Occupied(state') = Occupied(st) \/ Occupied(state') <= MaxConcurrent
<1>1. DOMAIN q = 1..Len(q) /\ Len(q) \in Nat /\ \A i \in 1..Len(q) : q[i] \in Task
  OBVIOUS
<1>2. /\ {t \in Task : st[t] = "queued"} = {q[i] : i \in 1..Len(q)}
      /\ \A i, j \in 1..Len(q) : q[i] = q[j] => i = j
  BY <1>1 DEF Exact
<1>3. PICK n \in 0..Len(q) :
           /\ Visited(st, q) = 1..n
           /\ n < Len(q) => Occupied(st) + n >= MaxConcurrent
           /\ n > 0 => Occupied(st) + n <= MaxConcurrent
  BY VisitedPrefix
<1> DEFINE l == Len(q)
<1>0. l \in Nat /\ n \in Nat /\ n <= l
  BY <1>1, <1>3
<1> HIDE DEF l
<1>4. Launched(st, q) = {q[i] : i \in 1..n}
  BY <1>1, <1>2, <1>3 DEF Launched
<1>5. Cardinality(Visited(st, q)) = n
  BY <1>1, <1>3, FS_Interval
<1>6. state' = [u \in Task |-> IF u \in Launched(st, q) THEN "starting" ELSE st[u]]
  BY DEF Drain
<1>7. queue' = SubSeq(q, n + 1, Len(q))
  BY <1>5 DEF Drain
<1>8. /\ Len(queue') = Len(q) - n /\ DOMAIN queue' = 1..(Len(q) - n)
      /\ \A i \in 1..(Len(q) - n) : queue'[i] = q[n + i]
  <2>1. n + 1 \in Int /\ \A i \in (n + 1)..Len(q) : q[i] \in Task
    BY <1>1, <1>3
  <2>2. /\ queue' \in Seq(Task)
        /\ Len(queue') = IF n + 1 <= Len(q) THEN Len(q) - (n + 1) + 1 ELSE 0
        /\ \A i \in 1..(Len(q) - (n + 1) + 1) : queue'[i] = q[(n + 1) + i - 1]
    BY <1>1, <1>7, <2>1, SubSeqProperties
  <2>3. Len(queue') = Len(q) - n
    <3>1. Len(queue') = IF n + 1 <= l THEN l - (n + 1) + 1 ELSE 0
      BY <2>2 DEF l
    <3>2. Len(queue') = l - n
      BY <1>0, <3>1
    <3> QED  BY <3>2 DEF l
  <2>4. DOMAIN queue' = 1..Len(queue')
    BY <2>2
  <2>5. \A i \in 1..(Len(q) - n) : i \in 1..(Len(q) - (n + 1) + 1) /\ (n + 1) + i - 1 = n + i
    BY <1>1, <1>3
  <2> QED  BY <2>2, <2>3, <2>4, <2>5
<1>9. QueueExact'
  <2>1. \A i, j \in 1..(Len(q) - n) : queue'[i] = queue'[j] => i = j
    BY <1>1, <1>2, <1>3, <1>8
  <2>2. {queue'[i] : i \in 1..(Len(q) - n)} = {q[i] : i \in (n + 1)..Len(q)}
    <3>1. \A i \in (n + 1)..Len(q) : i - n \in 1..(Len(q) - n) /\ queue'[i - n] = q[i]
      <4> TAKE i \in (n + 1)..Len(q)
      <4>1. i - n \in 1..(Len(q) - n) /\ n + (i - n) = i
        BY <1>0 DEF l
      <4> QED  BY <1>8, <4>1
    <3>2. \A i \in 1..(Len(q) - n) : n + i \in (n + 1)..Len(q) /\ queue'[i] = q[n + i]
      <4> TAKE i \in 1..(Len(q) - n)
      <4>1. n + i \in (n + 1)..Len(q)
        BY <1>0 DEF l
      <4> QED  BY <1>8, <4>1
    <3>3. \A x : (\E i \in 1..(Len(q) - n) : x = queue'[i]) <=> (\E i \in (n + 1)..Len(q) : x = q[i])
      <4> TAKE x
      <4>1. ASSUME NEW i \in 1..(Len(q) - n), x = queue'[i]
            PROVE  \E j \in (n + 1)..Len(q) : x = q[j]
        BY <3>2, <4>1
      <4>2. ASSUME NEW i \in (n + 1)..Len(q), x = q[i]
            PROVE  \E j \in 1..(Len(q) - n) : x = queue'[j]
        BY <3>1, <4>2
      <4> QED  BY <4>1, <4>2
    <3> QED  BY <3>3, Zenon
  <2>3. {t \in Task : state'[t] = "queued"} = {q[i] : i \in 1..Len(q)} \ {q[i] : i \in 1..n}
    BY <1>2, <1>4, <1>6
  <2>4. {q[i] : i \in 1..Len(q)} \ {q[i] : i \in 1..n} = {q[i] : i \in (n + 1)..Len(q)}
    <3>1. \A i \in (n + 1)..Len(q), j \in 1..n : q[i] # q[j]
      BY <1>1, <1>2, <1>3
    <3>2. \A i \in 1..Len(q) : i \in 1..n \/ i \in (n + 1)..Len(q)
      BY <1>1, <1>3
    <3>3. \A i \in (n + 1)..Len(q) : i \in 1..Len(q)
      BY <1>1, <1>3
    <3> QED  BY <3>1, <3>2, <3>3
  <2>5. {t \in Task : state'[t] = "queued"} = {queue'[i] : i \in DOMAIN queue'}
    BY <1>8, <2>2, <2>3, <2>4
  <2> QED  BY <1>8, <2>1, <2>5 DEF QueueExact
<1>10. Occupied(state') = Occupied(st) + n
  <2>1. IsFiniteSet(Launched(st, q)) /\ Cardinality(Launched(st, q)) = n
    <3> DEFINE f == [i \in 1..n |-> q[i]]
    <3>1. f \in Bijection(1..n, Launched(st, q))
      <4>1. f \in [1..n -> Launched(st, q)]
        BY <1>4
      <4>2. \A i, j \in 1..n : f[i] = f[j] => i = j
        BY <1>1, <1>2, <1>3
      <4>3. \A u \in Launched(st, q) : \E i \in 1..n : f[i] = u
        BY <1>4
      <4> QED  BY <4>1, <4>2, <4>3, Fun_IsBij
    <3>2. ExistsBijection(1..n, Launched(st, q))
      BY <3>1 DEF ExistsBijection
    <3>3. IsFiniteSet(1..n) /\ Cardinality(1..n) = n
      BY <1>3, FS_Interval
    <3> QED  BY <3>2, <3>3, FS_Bijection
  <2> DEFINE A == {u \in Task : st[u] \in Slot}
  <2>2. {u \in Task : state'[u] \in Slot} = A \cup Launched(st, q)
    BY <1>1, <1>3, <1>4, <1>6 DEF Slot, Active, Live
  <2>3. A \cap Launched(st, q) = {}
    BY <1>2, <1>3, <1>4 DEF Slot
  <2>4. IsFiniteSet(A) /\ Cardinality(A) \in Nat
    BY OccupiedNat DEF Occupied
  <2> HIDE DEF A
  <2>5. Cardinality(A \cup Launched(st, q)) = Cardinality(A) + n
    <3>1. Cardinality(A \cap Launched(st, q)) = 0
      BY <2>3, FS_EmptySet
    <3>2. Cardinality(A \cup Launched(st, q))
            = Cardinality(A) + Cardinality(Launched(st, q)) - Cardinality(A \cap Launched(st, q))
      BY <2>1, <2>4, FS_Union
    <3> QED  BY <1>3, <2>1, <2>4, <3>1, <3>2
  <2> QED  BY <2>2, <2>5 DEF A, Occupied
<1>11. NoIdleSlot'
  <2>1. n = Len(q) => queue' = <<>>
    <3>1. n = Len(q) => Len(q) < n + 1
      BY <1>1
    <3> QED  BY <1>1, <1>3, <1>7, <3>1, SubSeqEmpty
  <2>2. queue' # <<>> => n < Len(q)
    <3>1. n # l => n < l
      BY <1>0
    <3> QED  BY <2>1, <3>1 DEF l
  <2> QED  BY <1>3, <1>10, <2>2 DEF NoIdleSlot
<1>12. Occupied(state') = Occupied(st) \/ Occupied(state') <= MaxConcurrent
  <2>1. Occupied(st) \in Nat
    BY OccupiedNat
  <2>2. n = 0 => Occupied(st) + n = Occupied(st)
    BY <2>1
  <2> QED  BY <1>3, <1>10, <2>2
<1> QED  BY <1>9, <1>11, <1>12

\* A task that has left the queue may take any later state: the queue stays
\* exact.
LEMMA BornExact ==
  ASSUME QueueInv, NEW t \in Task, Born(t), NEW v \in State \ {"absent", "queued"}
  PROVE  /\ [state EXCEPT ![t] = v] \in [Task -> State]
         /\ Exact([state EXCEPT ![t] = v], queue)
<1> DEFINE st == [state EXCEPT ![t] = v]
<1>1. st \in [Task -> State] /\ \A u \in Task : st[u] = IF u = t THEN v ELSE state[u]
  BY DEF QueueInv, TypeOK
<1> HIDE DEF st
<1>2. {u \in Task : st[u] = "queued"} = {u \in Task : state[u] = "queued"}
  BY <1>1 DEF Born
<1>3. Exact(st, queue)
  BY <1>2 DEF QueueInv, QueueExact, Exact
<1> QED  BY <1>1, <1>3 DEF st

\* A verdict on such a task, with drainQueue after it, leaves things in order.
LEMMA DrainOrderly ==
  ASSUME QueueInv, NEW t \in Task, Born(t), NEW v \in State \ {"absent", "queued"}, NEW go,
         Drain([state EXCEPT ![t] = v], queue, go)
  PROVE  Orderly
<1>1. QueueExact' /\ NoIdleSlot'
  BY BornExact, DrainQueue DEF QueueInv, TypeOK
<1>2. ASSUME NEW u \in Task
      PROVE  /\ Born(u) => state'[u] \notin {"absent", "queued"}
             /\ state'[u] = "absent" => state[u] = "absent"
  BY DrainAt DEF QueueInv, Born
<1> QED  BY <1>1, <1>2 DEF Orderly

\* So does a change of its state that gives up no slot and leaves the queue.
LEMMA SteadyOrderly ==
  ASSUME QueueInv, NEW t \in Task, Born(t), NEW v \in State \ {"absent", "queued"},
         state[t] \in Slot => v \in Slot, state' = [state EXCEPT ![t] = v], queue' = queue
  PROVE  Orderly
<1>1. \A u \in Task : state'[u] = IF u = t THEN v ELSE state[u]
  BY DEF QueueInv, TypeOK
<1>2. Exact(state', queue')
  BY BornExact
<1>3. QueueExact'
  BY <1>2 DEF Exact, QueueExact
<1>4. Occupied(state) <= Occupied(state')
  <2>1. {u \in Task : state[u] \in Slot} \subseteq {u \in Task : state'[u] \in Slot}
    BY <1>1
  <2>2. IsFiniteSet({u \in Task : state'[u] \in Slot})
    BY OccupiedNat
  <2> QED  BY <2>1, <2>2, FS_Subset DEF Occupied
<1>5. NoIdleSlot'
  <2>1. Occupied(state) \in Nat /\ Occupied(state') \in Nat /\ MaxConcurrent \in Nat
    BY OccupiedNat, ConstantsOK
  <2> QED  BY <1>4, <2>1 DEF QueueInv, NoIdleSlot
<1> QED  BY <1>1, <1>3, <1>5 DEF Orderly, Born

\* And a step that changes neither.
LEMMA SameOrderly ==
  ASSUME QueueInv, UNCHANGED <<state, queue>>
  PROVE  Orderly
  BY DEF QueueInv, QueueExact, NoIdleSlot, Occupied, Orderly, Born

\* startNow begins for a task that starts, and goes on once it has a session.
Launches(u) ==
  \/ start'[u] \in {start[u], "idle"}
  \/ start'[u] = "boot" /\ state'[u] = "starting"
  \/ start[u] \in Going /\ start'[u] \in Going
  \/ start[u] = "boot" /\ start'[u] = "setup" /\ sid'[u] # NoSession

\* Whatever runs for a task after the step ran for it before, or the task has
\* left the queue.
Traced ==
  /\ \A s \in Session :
       owner'[s] # NoTask => owner'[s] = owner[s] \/ state'[owner'[s]] \notin {"absent", "queued"}
  /\ \A u \in Task :
       /\ input'[u].at # "idle" => \/ input[u].at # "idle" /\ input'[u].back = input[u].back
                                   \/ Born(u) /\ input'[u].back = state[u] /\ sid[u] # NoSession
       /\ quiet'[u] # {} => quiet[u] # {} \/ Born(u)
       /\ Launches(u)
       /\ sid'[u] # NoSession => sid[u] # NoSession \/ state'[u] # "absent"
       /\ sid[u] # NoSession => sid'[u] # NoSession

\* A step that is in order and traced keeps the invariant.
LEMMA KeepsQueue ==
  ASSUME QueueInv, TypeOK', Orderly, Traced
  PROVE  QueueInv'
<1>1. ASSUME NEW s \in Session, owner'[s] # NoTask
      PROVE  Born(owner[s])'
  <2>1. owner'[s] \in Task
    BY <1>1 DEF TypeOK
  <2>2. CASE owner'[s] = owner[s]
    BY <1>1, <2>1, <2>2 DEF QueueInv, Started, Orderly, Born
  <2> QED  BY <1>1, <2>2 DEF Traced, Born
<1>2. ASSUME NEW u \in Task
      PROVE  /\ input'[u].at # "idle" => Born(u)' /\ input'[u].back \notin {"absent", "queued"}
             /\ quiet'[u] # {} => Born(u)'
             /\ start'[u] # "idle" => Born(u)'
             /\ sid'[u] # NoSession => state'[u] # "absent"
             /\ start'[u] \in Going \/ input'[u].at # "idle" => sid'[u] # NoSession
  BY DEF QueueInv, Started, Orderly, Traced, Born, Launches, Going
<1>3. Started'
  BY <1>1, <1>2 DEF Started
<1> QED  BY <1>3 DEF QueueInv, Orderly

\* Marking sleeps and reads outdated starts none.
LEMMA StaleTraced ==
  ASSUME TypeOK, NEW t \in Task, NEW u \in Task, Stale(t)[u] # {}
  PROVE  quiet[u] # {}
  BY DEF Stale, TypeOK

\* Marking a call of addInput outdated neither starts nor ends it.
LEMMA UnfreshTraced ==
  ASSUME TypeOK, NEW t \in Task, input' = [input EXCEPT ![t].fresh = FALSE], NEW u \in Task
  PROVE  input'[u].at = input[u].at /\ input'[u].back = input[u].back
  BY ZenonT(30) DEF TypeOK, Input

\* startQueue.delete leaves the queue without that task.
LEMMA RemovedExact ==
  ASSUME QueueInv, NEW t \in Task, NEW v \in State \ {"absent", "queued"}
  PROVE  /\ [state EXCEPT ![t] = v] \in [Task -> State]
         /\ Exact([state EXCEPT ![t] = v], Removed(queue, t))
<1> DEFINE st == [state EXCEPT ![t] = v]
           q  == queue
           l  == Len(queue)
           at == {i \in DOMAIN queue : queue[i] = t}
           k  == CHOOSE i \in at : TRUE
           r  == Removed(queue, t)
<1>1. st \in [Task -> State] /\ \A u \in Task : st[u] = IF u = t THEN v ELSE state[u]
  BY DEF QueueInv, TypeOK
<1>2. q \in Seq(Task) /\ l \in Nat /\ DOMAIN q = 1..l /\ \A i \in 1..l : q[i] \in Task
  BY DEF QueueInv, TypeOK
<1>3. /\ {u \in Task : state[u] = "queued"} = {q[i] : i \in 1..l}
      /\ \A i, j \in 1..l : q[i] = q[j] => i = j
  BY <1>2 DEF QueueInv, QueueExact
<1> HIDE DEF st
<1>4. {u \in Task : st[u] = "queued"} = {u \in Task : state[u] = "queued"} \ {t}
  BY <1>1
<1>5. CASE at = {}
  <2>1. r = q /\ t \notin {q[i] : i \in 1..l}
    BY <1>2, <1>5 DEF Removed
  <2>2. Exact(st, r)
    BY <1>2, <1>3, <1>4, <2>1 DEF Exact
  <2> QED  BY <1>1, <2>2 DEF st
<1>6. CASE at # {}
  <2>1. k \in 1..l /\ q[k] = t
    BY <1>2, <1>6
  <2>2. r = SubSeq(q, 1, k - 1) \o SubSeq(q, k + 1, l)
    BY <1>6 DEF Removed
  <2> HIDE DEF k, q, l, r
  <2>3. /\ SubSeq(q, 1, k - 1) \in Seq(Task) /\ Len(SubSeq(q, 1, k - 1)) = k - 1
        /\ \A i \in 1..(k - 1) : SubSeq(q, 1, k - 1)[i] = q[i]
    <3>1. 1 \in Int /\ k - 1 \in Int /\ \A i \in 1..(k - 1) : q[i] \in Task
      BY <1>2, <2>1
    <3>2. /\ SubSeq(q, 1, k - 1) \in Seq(Task)
          /\ Len(SubSeq(q, 1, k - 1)) = IF 1 <= k - 1 THEN (k - 1) - 1 + 1 ELSE 0
          /\ \A i \in 1..((k - 1) - 1 + 1) : SubSeq(q, 1, k - 1)[i] = q[1 + i - 1]
      BY <3>1, SubSeqProperties
    <3> QED  BY <2>1, <3>2
  <2>4. /\ SubSeq(q, k + 1, l) \in Seq(Task) /\ Len(SubSeq(q, k + 1, l)) = l - k
        /\ \A i \in 1..(l - k) : SubSeq(q, k + 1, l)[i] = q[k + i]
    <3>1. k + 1 \in Int /\ l \in Int /\ \A i \in (k + 1)..l : q[i] \in Task
      BY <1>2, <2>1
    <3>2. /\ SubSeq(q, k + 1, l) \in Seq(Task)
          /\ Len(SubSeq(q, k + 1, l)) = IF k + 1 <= l THEN l - (k + 1) + 1 ELSE 0
          /\ \A i \in 1..(l - (k + 1) + 1) : SubSeq(q, k + 1, l)[i] = q[(k + 1) + i - 1]
      BY <3>1, SubSeqProperties
    <3> QED  BY <1>2, <2>1, <3>2
  <2>5. /\ DOMAIN r = 1..(l - 1)
        /\ \A i \in 1..(l - 1) : r[i] = IF i < k THEN q[i] ELSE q[i + 1]
    <3> DEFINE a == SubSeq(q, 1, k - 1)
               b == SubSeq(q, k + 1, l)
    <3>1. a \in Seq(Task) /\ b \in Seq(Task) /\ Len(a) = k - 1 /\ Len(b) = l - k
      BY <2>3, <2>4
    <3>2. r = a \o b
      BY <2>2
    <3>3. /\ \A i \in 1..(k - 1) : a[i] = q[i]
          /\ \A i \in 1..(l - k) : b[i] = q[k + i]
      BY <2>3, <2>4
    <3> HIDE DEF a, b
    <3>4. /\ DOMAIN r = 1..(l - 1)
          /\ \A i \in 1..(l - 1) : r[i] = IF i < k THEN a[i] ELSE b[i - (k - 1)]
      <4>1. /\ r \in Seq(Task) /\ Len(r) = Len(a) + Len(b)
            /\ \A i \in 1..(Len(a) + Len(b)) : r[i] = IF i <= Len(a) THEN a[i] ELSE b[i - Len(a)]
        BY <3>1, <3>2, ConcatProperties
      <4>2. (k - 1) + (l - k) = l - 1 /\ \A i \in 1..(l - 1) : i <= k - 1 <=> i < k
        BY <1>2, <2>1
      <4>3. DOMAIN r = 1..(l - 1)
        BY <3>1, <4>1, <4>2
      <4> QED  BY <3>1, <4>1, <4>2, <4>3
    <3>5. ASSUME NEW i \in 1..(l - 1)
          PROVE  r[i] = IF i < k THEN q[i] ELSE q[i + 1]
      <4>1. i < k => i \in 1..(k - 1)
        BY <2>1
      <4>2. ~(i < k) => i - (k - 1) \in 1..(l - k) /\ k + (i - (k - 1)) = i + 1
        BY <1>2, <2>1
      <4> QED  BY <3>3, <3>4, <4>1, <4>2
    <3> QED  BY <3>4, <3>5
  <2>6. \A i \in 1..(l - 1) : IF i < k THEN i \in 1..l ELSE i + 1 \in 1..l /\ i + 1 # k
    BY <1>2, <2>1
  <2>7. \A i, j \in 1..(l - 1) : r[i] = r[j] => i = j
    <3> SUFFICES ASSUME NEW i \in 1..(l - 1), NEW j \in 1..(l - 1), r[i] = r[j]
                 PROVE  i = j
      OBVIOUS
    <3>1. (IF i < k THEN i ELSE i + 1) = (IF j < k THEN j ELSE j + 1)
      BY <1>3, <2>5, <2>6
    <3> QED  BY <2>1, <3>1
  <2>8. \A u : (\E i \in 1..(l - 1) : u = r[i]) <=> u # t /\ \E i \in 1..l : u = q[i]
    <3> TAKE u
    <3>1. ASSUME NEW i \in 1..(l - 1), u = r[i]
          PROVE  u # t /\ \E j \in 1..l : u = q[j]
      BY <1>3, <2>1, <2>5, <2>6, <3>1
    <3>2. ASSUME u # t, NEW i \in 1..l, u = q[i]
          PROVE  \E j \in 1..(l - 1) : u = r[j]
      <4>1. i # k
        BY <2>1, <3>2
      <4>2. CASE i < k
        <5>1. i \in 1..(l - 1)
          BY <1>2, <2>1, <4>2
        <5> QED  BY <2>5, <3>2, <4>2, <5>1
      <4>3. CASE i > k
        <5>1. i - 1 \in 1..(l - 1) /\ ~(i - 1 < k) /\ (i - 1) + 1 = i
          BY <1>2, <2>1, <4>3
        <5> QED  BY <2>5, <3>2, <5>1
      <4> QED  BY <2>1, <4>1, <4>2, <4>3
    <3> QED  BY <3>1, <3>2
  <2>9. {u \in Task : st[u] = "queued"} = {r[i] : i \in 1..(l - 1)}
    <3>1. {r[i] : i \in 1..(l - 1)} = {q[i] : i \in 1..l} \ {t}
      BY <2>8, Zenon
    <3> QED  BY <1>3, <1>4, <3>1
  <2>10. Exact(st, r)
    BY <2>5, <2>7, <2>9 DEF Exact
  <2> QED  BY <1>1, <2>10 DEF st, r
<1> QED  BY <1>5, <1>6

\* The steps of startNow keep the queue in order.
LEMMA QueueStart ==
  ASSUME QueueInv, NEW t \in Task,
         StartBooted(t) \/ StartSends(t) \/ StartAccepted(t) \/ StartFails(t)
  PROVE  Orderly /\ Traced
<1>0. TypeOK /\ (start[t] # "idle" => Born(t))
  BY DEF QueueInv, Started
<1>1. CASE StartBooted(t)
  <2>1. Orderly
    BY <1>1, SameOrderly DEF StartBooted
  <2>2. state' = state /\ Born(t)
    BY <1>0, <1>1 DEF StartBooted
  <2>3. \A s \in Session : owner'[s] = owner[s] \/ owner'[s] = t
    BY <1>0, <1>1 DEF StartBooted, TypeOK
  <2>4. \A u \in Task : u # t => sid'[u] = sid[u] /\ start'[u] = start[u]
    BY <1>0, <1>1 DEF StartBooted, TypeOK
  <2>5. input' = input /\ quiet' = quiet
    BY <1>1 DEF StartBooted
  <2>6. \/ start'[t] = "idle" /\ sid'[t] = sid[t]
        \/ start[t] = "boot" /\ start'[t] = "setup" /\ sid'[t] # NoSession
    <3>1. NoSession # t
      BY ConstantsOK
    <3>2. (IF job[t].want = NoSession THEN t ELSE job[t].want) # NoSession
      BY <3>1
    <3> QED  BY <1>0, <1>1, <3>2 DEF StartBooted, TypeOK
  <2>7. \A u \in Task : Launches(u) /\ (sid[u] # NoSession => sid'[u] # NoSession)
    BY <2>4, <2>6 DEF Launches
  <2> QED  BY <2>1, <2>2, <2>3, <2>4, <2>5, <2>7 DEF Traced, Born
<1>2. CASE StartSends(t)
  <2>1. Orderly
    BY <1>2, SameOrderly DEF StartSends
  <2>2. /\ state' = state /\ owner' = owner /\ sid' = sid
        /\ \A u \in Task : Launches(u)
    BY <1>0, <1>2 DEF StartSends, TypeOK, Launches, Going
  <2>3. \A u \in Task : input'[u].at = input[u].at /\ input'[u].back = input[u].back
    <3>1. input' = [input EXCEPT ![t].fresh = FALSE] \/ input' = input
      BY <1>2 DEF StartSends
    <3> QED  BY <1>0, <3>1, UnfreshTraced
  <2>4. \A u \in Task : quiet'[u] # {} => quiet[u] # {}
    <3>1. quiet' = Stale(t) \/ quiet' = quiet
      BY <1>2 DEF StartSends
    <3> QED  BY <1>0, <3>1, StaleTraced
  <2> QED  BY <2>1, <2>2, <2>3, <2>4 DEF Traced
<1>3. CASE StartAccepted(t)
  <2>1. Born(t) /\ TypeOK
    BY <1>0, <1>3 DEF StartAccepted
  <2>2. Orderly
    <3>1. CASE StillStarting(t)
      <4>1. "running" \in State \ {"absent", "queued"} /\ "running" \in Slot
        BY DEF State, Slot, Active, Live
      <4> QED  BY <1>3, <2>1, <3>1, <4>1, SteadyOrderly DEF StartAccepted
    <3>2. CASE ~StillStarting(t)
      BY <1>3, <3>2, SameOrderly DEF StartAccepted
    <3> QED  BY <3>1, <3>2
  <2>3. /\ owner' = owner /\ sid' = sid /\ input' = input /\ quiet' = quiet
        /\ \A u \in Task : Launches(u)
    BY <1>3, <2>1 DEF StartAccepted, TypeOK, Launches
  <2> QED  BY <2>2, <2>3 DEF Traced
<1>4. CASE StartFails(t)
  <2>1. Born(t) /\ TypeOK
    BY <1>0, <1>4 DEF StartFails
  <2>2. /\ Orderly
        /\ \A u \in Task : Launches(u)
    <3>1. CASE StillStarting(t)
      <4>1. "failed" \in State \ {"absent", "queued"}
        BY DEF State, Terminal
      <4>2. Drain([state EXCEPT ![t] = "failed"], queue, [start EXCEPT ![t] = "idle"])
        BY <1>4, <3>1 DEF StartFails
      <4>3. Orderly
        BY <2>1, <4>1, <4>2, DrainOrderly
      <4>4. \A u \in Task : Launches(u)
        BY <2>1, <4>2 DEF Drain, Launches, TypeOK
      <4> QED  BY <4>3, <4>4
    <3>2. CASE ~StillStarting(t)
      BY <1>4, <2>1, <3>2, SameOrderly DEF StartFails, TypeOK, Launches
    <3> QED  BY <3>1, <3>2
  <2>3. owner' = owner /\ sid' = sid /\ input' = input /\ quiet' = quiet
    BY <1>4 DEF StartFails
  <2> QED  BY <2>2, <2>3 DEF Traced
<1> QED  BY <1>1, <1>2, <1>3, <1>4

\* A new task at the end of the queue leaves an exact queue.
LEMMA QueuedExact ==
  ASSUME QueueInv, NEW t \in Task, state[t] = "absent"
  PROVE  /\ [state EXCEPT ![t] = "queued"] \in [Task -> State]
         /\ Append(queue, t) \in Seq(Task)
         /\ Exact([state EXCEPT ![t] = "queued"], Append(queue, t))
<1> DEFINE st == [state EXCEPT ![t] = "queued"]
           q  == Append(queue, t)
           l  == Len(queue)
<1>0. TypeOK
  BY DEF QueueInv
<1>1. /\ "queued" \in State
      /\ st \in [Task -> State] /\ \A u \in Task : st[u] = IF u = t THEN "queued" ELSE state[u]
  BY <1>0 DEF TypeOK, State, Live
<1>2. queue \in Seq(Task) /\ l \in Nat /\ DOMAIN queue = 1..l /\ \A i \in 1..l : queue[i] \in Task
  BY <1>0 DEF TypeOK
<1>3. /\ q \in Seq(Task) /\ DOMAIN q = 1..(l + 1)
      /\ \A i \in 1..(l + 1) : q[i] = IF i = l + 1 THEN t ELSE queue[i]
  BY <1>2
<1>4. /\ {u \in Task : state[u] = "queued"} = {queue[i] : i \in 1..l}
      /\ \A i, j \in 1..l : queue[i] = queue[j] => i = j
  BY <1>2 DEF QueueInv, QueueExact
<1>5. \A i \in 1..l : queue[i] # t
  BY <1>0, <1>4
<1> HIDE DEF st, q, l
<1>7. \A i \in 1..(l + 1) : i = l + 1 \/ i \in 1..l
  BY <1>2
<1>8. \A i, j \in DOMAIN q : q[i] = q[j] => i = j
  BY <1>3, <1>4, <1>5, <1>7
<1>9. {u \in Task : st[u] = "queued"} = {q[i] : i \in DOMAIN q}
  <2>1. {u \in Task : st[u] = "queued"} = {u \in Task : state[u] = "queued"} \cup {t}
    BY <1>1
  <2>2. \A u : (\E i \in 1..(l + 1) : u = q[i]) <=> u = t \/ \E i \in 1..l : u = queue[i]
    <3> TAKE u
    <3>1. l + 1 \in 1..(l + 1) /\ \A i \in 1..l : i \in 1..(l + 1) /\ i # l + 1
      BY <1>2
    <3> QED  BY <1>3, <1>7, <3>1
  <2>3. {q[i] : i \in 1..(l + 1)} = {queue[i] : i \in 1..l} \cup {t}
    BY <2>2, Zenon
  <2> QED  BY <1>3, <1>4, <2>1, <2>3
<1>10. Exact(st, q)
  BY <1>8, <1>9 DEF Exact
<1> QED  BY <1>1, <1>3, <1>10 DEF st, q

\* startTask, which queues the task and drains, keeps the queue in order.
LEMMA QueueStartTask ==
  ASSUME QueueInv, NEW t \in Task, NEW w \in Workspace, NEW ro \in BOOLEAN,
         NEW want \in Session \cup {NoSession}, StartTask(t, w, ro, want)
  PROVE  Orderly /\ Traced
<1> DEFINE st == [state EXCEPT ![t] = "queued"]
<1>0. TypeOK /\ state[t] = "absent"
  BY DEF QueueInv, StartTask
<1>1. \A u \in Task : st[u] = IF u = t THEN "queued" ELSE state[u]
  BY <1>0 DEF TypeOK
<1>2. /\ st \in [Task -> State] /\ Append(queue, t) \in Seq(Task) /\ Exact(st, Append(queue, t))
  BY <1>0, QueuedExact
<1>6. Drain(st, Append(queue, t), start)
  BY DEF StartTask
<1> HIDE DEF st
<1>11. QueueExact' /\ NoIdleSlot'
  BY <1>2, <1>6, DrainQueue
<1>12. ASSUME NEW u \in Task
       PROVE  /\ Born(u) => state'[u] \notin {"absent", "queued"}
              /\ state'[u] = "absent" => state[u] = "absent"
              /\ state'[t] # "absent"
              /\ Launches(u)
  <2>1. \A x \in Task : \/ state'[x] = st[x] /\ start'[x] = start[x]
                        \/ state'[x] = "starting" /\ start'[x] \in {start[x], "boot"}
    BY <1>6 DEF Drain
  <2> QED  BY <1>0, <1>1, <2>1 DEF Born, Launches
<1>13. /\ owner' = owner /\ input' = input /\ quiet' = quiet
       /\ \A u \in Task : u # t => sid'[u] = sid[u]
       /\ sid[t] = NoSession
  BY <1>0 DEF StartTask, TypeOK, QueueInv, Started
<1> QED  BY <1>11, <1>12, <1>13 DEF Orderly, Traced

\* So do the other calls of the clients.
LEMMA QueueClient ==
  ASSUME QueueInv, NEW t \in Task, AddInput(t) \/ CancelNow(t) \/ CancelBegins(t)
  PROVE  Orderly /\ Traced
<1>0. TypeOK
  BY DEF QueueInv
<1>1. \A u \in Task : Stale(t)[u] # {} => quiet[u] # {}
  BY <1>0, StaleTraced
<1>2. CASE AddInput(t)
  <2>1. Born(t)
    BY <1>2 DEF AddInput, Born
  <2>2. Orderly
    <3>1. CASE state[t] \in Terminal
      <4>1. "starting" \in State \ {"absent", "queued"} /\ "starting" \in Slot
        BY DEF State, Slot, Active, Live
      <4> QED  BY <1>2, <2>1, <3>1, <4>1, SteadyOrderly DEF AddInput
    <3>2. CASE state[t] \notin Terminal
      BY <1>2, <3>2, SameOrderly DEF AddInput
    <3> QED  BY <3>1, <3>2
  <2>3. \A u \in Task : /\ u # t => input'[u] = input[u]
                        /\ u = t => input'[u].back = state[t]
    BY <1>0, <1>2 DEF AddInput, TypeOK
  <2>4. owner' = owner /\ sid' = sid /\ quiet' = Stale(t) /\ start' = start /\ sid[t] # NoSession
    BY <1>2 DEF AddInput
  <2> QED  BY <1>1, <2>1, <2>2, <2>3, <2>4 DEF Traced, Launches
<1>3. ASSUME input' = [input EXCEPT ![t].fresh = FALSE]
      PROVE  \A u \in Task : input'[u].at = input[u].at /\ input'[u].back = input[u].back
  BY <1>0, <1>3, UnfreshTraced
<1>4. CASE CancelNow(t)
  <2>1. "cancelled" \in State \ {"absent", "queued"}
    BY DEF State, Terminal
  <2>2. Drain([state EXCEPT ![t] = "cancelled"], Removed(queue, t), start)
    BY <1>4 DEF CancelNow
  <2>3. QueueExact' /\ NoIdleSlot'
    <3>1. Removed(queue, t) \in Seq(Task)
      BY <1>0, RemovedType DEF TypeOK
    <3> QED  BY <2>1, <2>2, <3>1, RemovedExact, DrainQueue
  <2>4. \A u \in Task : /\ Born(u) => state'[u] \notin {"absent", "queued"}
                        /\ state'[u] = "absent" => state[u] = "absent"
    BY <1>0, <2>2, DrainAt DEF Born
  <2>5. \A u \in Task : Launches(u)
    BY <2>2 DEF Drain, Launches
  <2>6. owner' = owner /\ sid' = sid /\ quiet' = Stale(t) /\ input' = [input EXCEPT ![t].fresh = FALSE]
    BY <1>4 DEF CancelNow
  <2> QED  BY <1>1, <1>3, <2>3, <2>4, <2>5, <2>6 DEF Orderly, Traced, Launches
<1>5. CASE CancelBegins(t)
  <2>1. Born(t)
    BY <1>5 DEF CancelBegins, Born, Active, Live
  <2>2. "cancelling" \in State \ {"absent", "queued"} /\ "cancelling" \in Slot
    BY DEF State, Slot, Active, Live
  <2>3. Orderly
    BY <1>5, <2>1, <2>2, SteadyOrderly DEF CancelBegins
  <2>4. /\ owner' = owner /\ sid' = sid /\ quiet' = Stale(t) /\ start' = start
        /\ input' = [input EXCEPT ![t].fresh = FALSE]
    BY <1>5 DEF CancelBegins
  <2> QED  BY <1>1, <1>3, <2>3, <2>4 DEF Traced, Launches
<1> QED  BY <1>2, <1>4, <1>5

\* So do the later steps of addInput.
LEMMA QueueInput ==
  ASSUME QueueInv, NEW t \in Task, InputSends(t) \/ InputAccepted(t) \/ InputFails(t)
  PROVE  Orderly /\ Traced
<1>0. /\ TypeOK /\ Born(t) /\ input[t].at # "idle"
      /\ input[t].back \in State \ {"absent", "queued"}
  BY DEF QueueInv, Started, InputSends, InputAccepted, InputFails, TypeOK, Input
<1>1. \A u \in Task : input'[u].at # "idle" =>
                        input[u].at # "idle" /\ input'[u].back = input[u].back
  <2>1. input' = [input EXCEPT ![t].at = "send"] \/ input' = [input EXCEPT ![t] = NoInput]
    BY DEF InputSends, InputAccepted, InputFails
  <2>2. ASSUME NEW u \in Task
        PROVE  \/ u # t /\ input'[u] = input[u]
               \/ u = t /\ input'[u] = NoInput
               \/ u = t /\ input'[u] = [input[t] EXCEPT !.at = "send"]
    BY <1>0, <2>1 DEF TypeOK
  <2>3. [input[t] EXCEPT !.at = "send"].back = input[t].back /\ NoInput.at = "idle"
    BY <1>0 DEF TypeOK, Input, NoInput
  <2> QED  BY <1>0, <2>2, <2>3
<1>2. owner' = owner /\ sid' = sid /\ quiet' = quiet
  BY DEF InputSends, InputAccepted, InputFails
<1>3. CASE InputSends(t)
  <2>1. "starting" \in State \ {"absent", "queued"} /\ "starting" \in Slot
    BY DEF State, Slot, Active, Live
  <2>2. Orderly
    BY <1>0, <1>3, <2>1, SteadyOrderly, SameOrderly DEF InputSends
  <2>3. start' = start
    BY <1>3 DEF InputSends
  <2> QED  BY <1>1, <1>2, <2>2, <2>3 DEF Traced, Launches
<1>4. CASE InputAccepted(t)
  <2>1. "running" \in State \ {"absent", "queued"} /\ "running" \in Slot
    BY DEF State, Slot, Active, Live
  <2>2. Orderly
    BY <1>0, <1>4, <2>1, SteadyOrderly, SameOrderly DEF InputAccepted
  <2>3. start' = start
    BY <1>4 DEF InputAccepted
  <2> QED  BY <1>1, <1>2, <2>2, <2>3 DEF Traced, Launches
<1>5. CASE InputFails(t)
  <2> DEFINE v == IF input[t].at = "send" THEN "unknown" ELSE input[t].back
  <2>1. v \in State \ {"absent", "queued"}
    BY <1>0 DEF State, Terminal
  <2>2. \/ Drain([state EXCEPT ![t] = v], queue, start)
        \/ UNCHANGED <<state, queue, start>>
    BY <1>5 DEF InputFails
  <2> HIDE DEF v
  <2>3. Orderly
    BY <1>0, <2>1, <2>2, DrainOrderly, SameOrderly
  <2>4. \A u \in Task : Launches(u)
    BY <2>2 DEF Drain, Launches
  <2> QED  BY <1>1, <1>2, <2>3, <2>4 DEF Traced, Launches
<1> QED  BY <1>3, <1>4, <1>5

\* So do the later steps of cancel.
LEMMA QueueCancel ==
  ASSUME QueueInv, NEW t \in Task, CancelAwaited(t) \/ CancelStops(t) \/ CancelPoll(t)
  PROVE  Orderly /\ Traced
<1>1. owner' = owner /\ sid' = sid /\ quiet' = quiet /\ input' = input
  BY DEF CancelAwaited, CancelStops, CancelPoll
<1>2. \/ UNCHANGED <<state, queue, start>>
      \/ /\ state[t] = "cancelling"
         /\ \E v \in {"cancelled", "unknown"} : Drain([state EXCEPT ![t] = v], queue, start)
  BY DEF CancelAwaited, CancelStops, CancelPoll
<1>3. CASE UNCHANGED <<state, queue, start>>
  BY <1>1, <1>3, SameOrderly DEF Traced, Launches
<1>4. ASSUME state[t] = "cancelling", NEW v \in {"cancelled", "unknown"},
             Drain([state EXCEPT ![t] = v], queue, start)
      PROVE  Orderly /\ Traced
  <2>1. Born(t) /\ v \in State \ {"absent", "queued"}
    BY <1>4 DEF Born, State, Terminal
  <2>2. Orderly
    BY <1>4, <2>1, DrainOrderly
  <2>3. \A u \in Task : Launches(u)
    BY <1>4 DEF Drain, Launches
  <2> QED  BY <1>1, <2>2, <2>3 DEF Traced, Launches
<1> QED  BY <1>2, <1>3, <1>4

\* So do the start of a turn and the answer to a question.
LEMMA QueueTurn ==
  ASSUME QueueInv, NEW t \in Task, TurnStarts(t) \/ AskDecided(t)
  PROVE  Orderly /\ Traced
<1>0. "running" \in State \ {"absent", "queued"} /\ "running" \in Slot
  BY DEF State, Slot, Active, Live
<1>1. CASE TurnStarts(t)
  <2> DEFINE o == owner[sid[t]]
  <2>1. Listening(sid[t]) => o \in Task /\ Born(o)
    <3>1. ASSUME Listening(sid[t]), sid[t] \in Session
          PROVE  o \in Task /\ Born(o)
      BY <3>1 DEF Listening, QueueInv, TypeOK, Started
    <3>2. sid[t] \in Session
      BY <1>1 DEF TurnStarts, QueueInv, Started, Going, TypeOK
    <3> QED  BY <3>1, <3>2
  <2>2. \/ UNCHANGED state
        \/ Listening(sid[t]) /\ state' = [state EXCEPT ![o] = "running"]
    BY <1>1 DEF TurnStarts
  <2>3. queue' = queue /\ owner' = owner /\ sid' = sid /\ quiet' = quiet
    BY <1>1 DEF TurnStarts
  <2> HIDE DEF o
  <2>4. Orderly
    BY <1>0, <2>1, <2>2, <2>3, SteadyOrderly, SameOrderly
  <2>5. \A u \in Task : /\ Launches(u)
                        /\ input'[u].at # "idle" => input[u].at # "idle" /\ input'[u].back = input[u].back
    <3>1. CASE start[t] = "send" /\ start' = [start EXCEPT ![t] = "sent"] /\ UNCHANGED input
      BY <3>1 DEF QueueInv, TypeOK, Launches, Going
    <3>2. CASE input[t].at = "send" /\ input' = [input EXCEPT ![t].at = "sent"] /\ UNCHANGED start
      <4>1. ASSUME NEW u \in Task
            PROVE  \/ u # t /\ input'[u] = input[u]
                   \/ u = t /\ input'[u] = [input[t] EXCEPT !.at = "sent"]
        BY <3>2 DEF QueueInv, TypeOK
      <4>2. [input[t] EXCEPT !.at = "sent"].back = input[t].back
        BY DEF QueueInv, TypeOK, Input
      <4> QED  BY <3>2, <4>1, <4>2 DEF Launches
    <3> QED  BY <1>1, <3>1, <3>2 DEF TurnStarts
  <2> QED  BY <2>3, <2>4, <2>5 DEF Traced
<1>2. CASE AskDecided(t)
  <2>1. /\ owner' = owner /\ sid' = sid /\ quiet' = quiet /\ input' = input
        /\ start' = start /\ queue' = queue
    BY <1>2 DEF AskDecided
  <2>2. state[t] = "waiting" => Born(t)
    BY DEF Born
  <2>3. \/ UNCHANGED state
        \/ state[t] = "waiting" /\ state' = [state EXCEPT ![t] = "running"]
    BY <1>2 DEF AskDecided
  <2>4. Orderly
    BY <1>0, <2>1, <2>2, <2>3, SteadyOrderly, SameOrderly
  <2> QED  BY <2>1, <2>4 DEF Traced, Launches
<1> QED  BY <1>1, <1>2

\* So do the steps of checkQuiet.
LEMMA QueueQuiet ==
  ASSUME QueueInv, NEW t \in Task, NEW q \in quiet[t],
         QuietWakes(t, q) \/ QuietReads(t, q) \/ QuietReadFails(t, q)
  PROVE  Orderly /\ Traced
<1>0. TypeOK /\ Born(t)
  BY DEF QueueInv, Started
<1>1. owner' = owner /\ sid' = sid /\ input' = input
  BY DEF QuietWakes, QuietReads, QuietReadFails
<1>2. \A u \in Task : quiet'[u] # {} => quiet[u] # {}
  <2>1. quiet' = Without(t, q) \/ \E r : quiet' = Becomes(t, q, r)
    BY DEF QuietWakes, QuietReads, QuietReadFails, GiveUp
  <2>2. ASSUME NEW u \in Task, u # t
        PROVE  quiet'[u] = quiet[u]
    BY <1>0, <2>1, <2>2 DEF Without, Becomes, TypeOK
  <2>3. quiet[t] # {}
    OBVIOUS
  <2> QED  BY <2>2, <2>3
<1>3. \/ UNCHANGED <<state, queue, start>>
      \/ \E v \in {"unknown", "completed"} : Drain([state EXCEPT ![t] = v], queue, start)
      \/ /\ state[t] = "running" /\ state' = [state EXCEPT ![t] = "waiting"]
         /\ UNCHANGED <<queue, start>>
  <2>1. CASE QuietWakes(t, q)
    BY <2>1 DEF QuietWakes
  <2>2. CASE QuietReads(t, q)
    BY <2>2 DEF QuietReads, GiveUp
  <2>3. CASE QuietReadFails(t, q)
    BY <2>3 DEF QuietReadFails, GiveUp
  <2> QED  BY <2>1, <2>2, <2>3
<1>4. CASE UNCHANGED <<state, queue, start>>
  BY <1>1, <1>2, <1>4, SameOrderly DEF Traced, Launches
<1>5. ASSUME NEW v \in {"unknown", "completed"}, Drain([state EXCEPT ![t] = v], queue, start)
      PROVE  Orderly /\ Traced
  <2>1. v \in State \ {"absent", "queued"}
    BY <1>5 DEF State, Terminal
  <2>2. Orderly
    BY <1>0, <1>5, <2>1, DrainOrderly
  <2>3. \A u \in Task : Launches(u)
    BY <1>5 DEF Drain, Launches
  <2> QED  BY <1>1, <1>2, <2>2, <2>3 DEF Traced, Launches
<1>6. CASE /\ state[t] = "running" /\ state' = [state EXCEPT ![t] = "waiting"]
           /\ UNCHANGED <<queue, start>>
  <2>1. "waiting" \in State \ {"absent", "queued"} /\ "waiting" \in Slot
    BY DEF State, Slot, Active, Live
  <2>2. Orderly
    BY <1>0, <1>6, <2>1, SteadyOrderly
  <2> QED  BY <1>1, <1>2, <1>6, <2>2 DEF Traced, Launches
<1> QED  BY <1>3, <1>4, <1>5, <1>6

\* So do the events and questions of the harness: they reach tasks that own a
\* session.
LEMMA QueueHarness ==
  ASSUME QueueInv, NEW s \in Session, Harness(s)
  PROVE  Orderly /\ Traced
<1> DEFINE o == owner[s]
<1>0. TypeOK /\ (o # NoTask => o \in Task /\ Born(o))
  BY DEF QueueInv, Started, TypeOK
<1>1. owner' = owner /\ sid' = sid /\ input' = input
  BY DEF Harness, TurnFailed, TurnCompleted, TurnSettles, Ask
<1>2. CASE TurnFailed(s)
  <2>1. \/ UNCHANGED <<state, queue, start>>
        \/ o # NoTask /\ Drain([state EXCEPT ![o] = "failed"], queue, start)
    BY <1>2 DEF TurnFailed, Listening
  <2>2. quiet' = quiet
    BY <1>2 DEF TurnFailed
  <2>3. "failed" \in State \ {"absent", "queued"}
    BY DEF State, Terminal
  <2> HIDE DEF o
  <2>4. Orderly
    BY <1>0, <2>1, <2>3, SameOrderly, DrainOrderly
  <2>5. \A u \in Task : Launches(u)
    BY <2>1 DEF Drain, Launches
  <2> QED  BY <1>1, <2>2, <2>4, <2>5 DEF Traced, Launches
<1>3. CASE TurnCompleted(s)
  <2>1. UNCHANGED <<state, queue, start>>
    BY <1>3 DEF TurnCompleted
  <2>2. Orderly
    BY <2>1, SameOrderly
  <2>3. ASSUME NEW u \in Task
        PROVE  quiet'[u] = quiet[u] \/ Born(u)
    <3>1. CASE Listening(s)
      <4>1. o \in Task /\ Born(o)
        BY <1>0, <3>1 DEF Listening
      <4>2. u # o => quiet'[u] = quiet[u]
        BY <1>0, <1>3, <3>1 DEF TurnCompleted, TypeOK
      <4> QED  BY <4>1, <4>2
    <3>2. CASE ~Listening(s)
      BY <1>3, <3>2 DEF TurnCompleted
    <3> QED  BY <3>1, <3>2
  <2> QED  BY <1>1, <2>1, <2>2, <2>3 DEF Traced, Launches
<1>4. CASE TurnSettles(s)
  <2>1. UNCHANGED <<state, queue, start, quiet>>
    BY <1>4 DEF TurnSettles
  <2> QED  BY <1>1, <2>1, SameOrderly DEF Traced, Launches
<1>5. CASE Ask(s)
  <2>1. /\ o # NoTask /\ state' = [state EXCEPT ![o] = "waiting"]
        /\ UNCHANGED <<queue, start, quiet>>
    BY <1>5 DEF Ask
  <2>2. "waiting" \in State \ {"absent", "queued"} /\ "waiting" \in Slot
    BY DEF State, Slot, Active, Live
  <2> HIDE DEF o
  <2>3. Orderly
    BY <1>0, <2>1, <2>2, SteadyOrderly
  <2> QED  BY <1>1, <2>1, <2>3 DEF Traced, Launches
<1> QED  BY <1>2, <1>3, <1>4, <1>5 DEF Harness

\* An exit of the harness and a restart of the bridge empty the queue, and no
\* task stays queued.
LEMMA QueueLoss ==
  ASSUME QueueInv, HarnessExit \/ BridgeRestart
  PROVE  Orderly /\ Traced
<1>0. TypeOK
  BY DEF QueueInv
<1>1. /\ queue' = <<>> /\ sid' = sid
      /\ \A u \in Task : input'[u].at = "idle" /\ start'[u] = "idle"
  BY DEF HarnessExit, BridgeRestart, DropCalls, NoInput
<1>9. \A u \in Task : quiet'[u] # {} => quiet[u] # {}
  <2>1. \A u \in Task : quiet[u] = {} => QuietAfterExit(u) = {}
    BY DEF QuietAfterExit
  <2> QED  BY <2>1 DEF HarnessExit, BridgeRestart
<1>2. ASSUME NEW u \in Task
      PROVE  /\ state'[u] # "queued"
             /\ Born(u) => state'[u] # "absent"
             /\ state'[u] = "absent" => state[u] = "absent"
  <2>1. CASE HarnessExit
    <3>1. state'[u] = IF LastRead(u) THEN "unknown"
                      ELSE IF state[u] \in Active THEN "interrupted" ELSE LateWrite(u)
      BY <2>1 DEF HarnessExit
    <3>2. LastRead(u) => Born(u)
      BY DEF LastRead, QueueInv, Started
    <3>3. ASSUME state[u] \notin Active
          PROVE  /\ LateWrite(u) # "queued"
                 /\ LateWrite(u) = "absent" <=> state[u] = "absent"
      <4>1. state[u] # "queued"
        BY <3>3 DEF Active, Live
      <4>2. LateWrite(u) \in {"unknown", state[u]} \/ (input[u].at = "verify" /\ LateWrite(u) = input[u].back)
        BY DEF LateWrite
      <4>3. LateWrite(u) # state[u] => input[u].at # "idle"
        BY DEF LateWrite
      <4>4. input[u].at # "idle" => Born(u) /\ input[u].back \notin {"absent", "queued"}
        BY DEF QueueInv, Started
      <4> QED  BY <4>1, <4>2, <4>3, <4>4 DEF Born
    <3> QED  BY <3>1, <3>2, <3>3 DEF Born
  <2>2. CASE BridgeRestart
    <3>1. PICK old \in SUBSET {t \in Task : /\ input[t].at = "verify" /\ StillStarting(t)
                                            /\ input[t].back \in Terminal} :
            state' = [t \in Task |-> IF t \in old THEN input[t].back
                                     ELSE IF state[t] \in Live THEN "interrupted" ELSE state[t]]
      BY <2>2 DEF BridgeRestart
    <3>2. state'[u] \in Terminal \/ state'[u] = "interrupted" \/ (state'[u] = state[u] /\ state[u] \notin Live)
      BY <3>1
    <3> QED  BY <3>2 DEF Terminal, Live, Born
  <2> QED  BY <2>1, <2>2
<1>3. QueueExact'
  <2>1. {u \in Task : state'[u] = "queued"} = {} /\ DOMAIN queue' = {}
    BY <1>1, <1>2
  <2> QED  BY <1>1, <2>1 DEF QueueExact
<1>4. NoIdleSlot'
  BY <1>1 DEF NoIdleSlot
<1>5. Orderly
  BY <1>2, <1>3, <1>4 DEF Orderly, Born
<1>6. ASSUME NEW s \in Session, owner'[s] # NoTask
      PROVE  owner'[s] = owner[s] \/ state'[owner'[s]] \notin {"absent", "queued"}
  <2>1. CASE HarnessExit
    BY <2>1 DEF HarnessExit
  <2>2. CASE BridgeRestart
    <3>1. owner'[s] \in Task /\ sid[owner'[s]] = s
      BY <1>6, <2>2 DEF BridgeRestart
    <3>2. s # NoSession
      BY ConstantsOK DEF Session
    <3>3. state[owner'[s]] # "absent"
      BY <3>1, <3>2 DEF QueueInv, Started
    <3> QED  BY <1>2, <3>1, <3>3
  <2> QED  BY <2>1, <2>2
<1> QED  BY <1>1, <1>5, <1>6, <1>9 DEF Traced, Launches

\* Every step keeps the invariant of the queue.
LEMMA QueueStep == QueueInv /\ [Next]_vars => QueueInv'
<1> SUFFICES ASSUME QueueInv, [Next]_vars PROVE QueueInv'
  OBVIOUS
<1>0. TypeOK'
  BY TypeStep DEF QueueInv
<1>1. CASE UNCHANGED vars
  BY <1>0, <1>1, SameOrderly, KeepsQueue DEF vars, Traced, Launches
<1>2. ASSUME NEW t \in Task, Client(t) \/ Coroutine(t)
      PROVE  Orderly /\ Traced
  BY <1>2, QueueStartTask, QueueClient, QueueStart, QueueInput, QueueCancel, QueueTurn, QueueQuiet
     DEF Client, Coroutine
<1>3. ASSUME NEW s \in Session, Harness(s)
      PROVE  Orderly /\ Traced
  BY <1>3, QueueHarness
<1> QED  BY <1>0, <1>1, <1>2, <1>3, QueueLoss, KeepsQueue DEF Next

\* The bridge starts with an empty queue and nothing running.
LEMMA QueueInit == Init => QueueInv
<1> SUFFICES ASSUME Init PROVE QueueInv
  OBVIOUS
<1>1. queue = <<>> /\ \A t \in Task : state[t] = "absent"
  BY DEF Init
<1>2. QueueExact
  <2>1. {t \in Task : state[t] = "queued"} = {} /\ DOMAIN queue = {}
    BY <1>1
  <2> QED  BY <2>1 DEF QueueExact
<1>3. NoIdleSlot
  BY <1>1 DEF NoIdleSlot
<1>4. Started
  BY DEF Init, Started, Going, NoInput
<1> QED  BY <1>2, <1>3, <1>4, TypeInit DEF QueueInv

\* No lost wakeup: for any number of tasks, slots and sessions, with every tool
\* of the clients, under every fault and both interaction policies, while a
\* task is queued every slot is taken, and the queue holds exactly the queued
\* tasks, each once.
THEOREM NoLostWakeup == Spec => [](NoIdleSlot /\ QueueExact)
<1>1. QueueInv => NoIdleSlot /\ QueueExact
  BY DEF QueueInv
<1> QED  BY <1>1, QueueInit, QueueStep, PTL DEF Spec

(***************************************************************************)
(* The slots, for clients that start and cancel tasks (the clients of      *)
(* Exclusion, and for its reasons).                                        *)
(***************************************************************************)
SlotInv == QueueInv /\ NoInputs /\ ListenersExist /\ SlotLimit

\* Whoever takes a slot after it took one before.
LEMMA FewerSlots ==
  ASSUME NEW st, NEW new, \A u \in Task : new[u] \in Slot => st[u] \in Slot
  PROVE  Occupied(new) <= Occupied(st)
<1>1. {u \in Task : new[u] \in Slot} \subseteq {u \in Task : st[u] \in Slot}
  OBVIOUS
<1>2. IsFiniteSet({u \in Task : st[u] \in Slot})
  BY OccupiedNat
<1> QED  BY <1>1, <1>2, FS_Subset DEF Occupied

\* A task gets state v and takes no slot it had not: the limit holds, and holds
\* after drainQueue.
LEMMA SlotKept ==
  ASSUME TypeOK, SlotLimit, NEW t \in Task, NEW v \in State, v \in Slot => state[t] \in Slot,
         \/ state' = state
         \/ state' = [state EXCEPT ![t] = v]
         \/ \E q \in Seq(Task) : \E go : /\ Exact([state EXCEPT ![t] = v], q)
                                         /\ Drain([state EXCEPT ![t] = v], q, go)
  PROVE  SlotLimit'
<1> DEFINE st == [state EXCEPT ![t] = v]
<1>1. st \in [Task -> State] /\ \A u \in Task : st[u] = IF u = t THEN v ELSE state[u]
  BY DEF TypeOK
<1> HIDE DEF st
<1>2. Occupied(st) <= Occupied(state)
  BY <1>1, FewerSlots
<1>3. /\ Occupied(st) \in Nat /\ Occupied(state) \in Nat /\ Occupied(state') \in Nat
      /\ MaxConcurrent \in Nat /\ Occupied(state) <= MaxConcurrent
  BY OccupiedNat, ConstantsOK DEF SlotLimit
<1>4. CASE state' = state \/ state' = st
  BY <1>2, <1>3, <1>4 DEF SlotLimit
<1>5. ASSUME NEW q \in Seq(Task), NEW go, Exact(st, q), Drain(st, q, go)
      PROVE  SlotLimit'
  <2>1. Occupied(state') = Occupied(st) \/ Occupied(state') <= MaxConcurrent
    BY <1>1, <1>5, DrainQueue
  <2> QED  BY <1>2, <1>3, <2>1 DEF SlotLimit
<1> QED  BY <1>4, <1>5 DEF st

\* The states in the middle of an unfinished task all take a slot.
LEMMA SlotStates ==
  /\ {"starting", "running", "waiting", "cancelling", "unknown"} \subseteq Slot
  /\ {"failed", "completed", "cancelled", "interrupted", "queued"} \cap Slot = {}
  /\ Slot \subseteq State
  /\ {"failed", "completed", "cancelled", "interrupted", "queued"} \subseteq State
  BY DEF Slot, Active, Live, State, Terminal

\* No call of a client and no coroutine goes over the limit.
LEMMA SlotTask ==
  ASSUME SlotInv, TypeOK', "read" \notin Faults, NEW t \in Task,
         Coroutine(t) \/ CancelNow(t) \/ CancelBegins(t)
  PROVE  SlotLimit'
<1>0. TypeOK /\ SlotLimit /\ QueueInv /\ input[t].at = "idle" /\ (start[t] # "idle" => Born(t))
  BY DEF SlotInv, NoInputs, QueueInv, Started
<1>1. ASSUME NEW o \in Task, Born(o), NEW v \in State \ {"absent", "queued"}, NEW go,
             v \in Slot => state[o] \in Slot, Drain([state EXCEPT ![o] = v], queue, go)
      PROVE  SlotLimit'
  <2>1. queue \in Seq(Task) /\ Exact([state EXCEPT ![o] = v], queue)
    BY <1>0, <1>1, BornExact DEF TypeOK
  <2> QED  BY <1>0, <1>1, <2>1, SlotKept
<1>2. CASE UNCHANGED state
  <2>1. "queued" \in State /\ "queued" \notin Slot
    BY SlotStates
  <2> QED  BY <1>0, <1>2, <2>1, SlotKept
<1>3. CASE CancelNow(t)
  <2>1. "cancelled" \in State \ {"absent", "queued"} /\ "cancelled" \notin Slot
    BY SlotStates
  <2>2. /\ Drain([state EXCEPT ![t] = "cancelled"], Removed(queue, t), start)
        /\ Removed(queue, t) \in Seq(Task)
    BY <1>0, <1>3, RemovedType DEF CancelNow, TypeOK
  <2>3. Exact([state EXCEPT ![t] = "cancelled"], Removed(queue, t))
    BY <1>0, <2>1, RemovedExact
  <2> QED  BY <1>0, <2>1, <2>2, <2>3, SlotKept
<1>4. CASE CancelBegins(t)
  <2>1. state[t] \in Slot /\ state' = [state EXCEPT ![t] = "cancelling"] /\ "cancelling" \in State
    BY <1>4, SlotStates DEF CancelBegins, Slot
  <2> QED  BY <1>0, <2>1, SlotKept
<1>5. CASE StartBooted(t) \/ StartSends(t) \/ CancelAwaited(t) \/ CancelStops(t)
  BY <1>2, <1>5 DEF StartBooted, StartSends, CancelAwaited, CancelStops
<1>6. CASE StartAccepted(t) \/ AskDecided(t)
  <2>1. \/ UNCHANGED state
        \/ state[t] \in {"starting", "waiting"} /\ state' = [state EXCEPT ![t] = "running"]
    BY <1>6 DEF StartAccepted, AskDecided, StillStarting
  <2>2. "running" \in State /\ {"starting", "waiting"} \subseteq Slot
    BY SlotStates
  <2> QED  BY <1>0, <1>2, <2>1, <2>2, SlotKept
<1>7. CASE StartFails(t)
  <2>1. \/ UNCHANGED state
        \/ /\ start[t] # "idle"
           /\ Drain([state EXCEPT ![t] = "failed"], queue, [start EXCEPT ![t] = "idle"])
    BY <1>7 DEF StartFails
  <2>2. "failed" \in State \ {"absent", "queued"} /\ "failed" \notin Slot
    BY SlotStates
  <2> QED  BY <1>0, <1>1, <1>2, <2>1, <2>2
<1>8. ~(InputSends(t) \/ InputAccepted(t) \/ InputFails(t))
  BY <1>0 DEF InputSends, InputAccepted, InputFails
<1>9. CASE CancelPoll(t)
  <2>1. \/ UNCHANGED state
        \/ /\ state[t] = "cancelling"
           /\ \E v \in {"cancelled", "unknown"} : Drain([state EXCEPT ![t] = v], queue, start)
    BY <1>9 DEF CancelPoll
  <2>2. state[t] = "cancelling" => Born(t) /\ state[t] \in Slot
    BY SlotStates DEF Born
  <2>3. {"cancelled", "unknown"} \subseteq State \ {"absent", "queued"}
    BY SlotStates
  <2> QED  BY <1>1, <1>2, <2>1, <2>2, <2>3
<1>10. CASE TurnStarts(t)
  <2> DEFINE o == owner[sid[t]]
  <2>1. \/ UNCHANGED state
        \/ Listening(sid[t]) /\ state' = [state EXCEPT ![o] = "running"]
    BY <1>10 DEF TurnStarts
  <2>2. Listening(sid[t]) => o \in Task /\ state[o] \in Slot
    <3>1. sid[t] \in Session
      BY <1>0, <1>10 DEF TurnStarts, QueueInv, Started, Going, TypeOK
    <3>2. ASSUME Listening(sid[t])
          PROVE  /\ o \in Task /\ Born(o) /\ state[o] \notin Terminal \cup {"cancelling"}
      BY <1>0, <3>1, <3>2 DEF Listening, QueueInv, Started, TypeOK
    <3> QED  BY <1>0, <3>2 DEF Born, TypeOK, State, Slot, Active, Live
  <2>3. "running" \in State
    BY SlotStates
  <2> HIDE DEF o
  <2> QED  BY <1>0, <1>2, <2>1, <2>2, <2>3, SlotKept
<1>11. ASSUME NEW q \in quiet[t], QuietWakes(t, q) \/ QuietReads(t, q) \/ QuietReadFails(t, q)
       PROVE  SlotLimit'
  <2>1. \/ UNCHANGED state
        \/ /\ state[t] = "running"
           /\ \/ \E v \in {"unknown", "completed"} : Drain([state EXCEPT ![t] = v], queue, start)
              \/ state' = [state EXCEPT ![t] = "waiting"]
    BY <1>11 DEF QuietWakes, QuietReads, QuietReadFails, GiveUp
  <2>2. state[t] = "running" => Born(t) /\ state[t] \in Slot
    BY SlotStates DEF Born
  <2>3. {"unknown", "completed", "waiting"} \subseteq State \ {"absent", "queued"}
    BY SlotStates
  <2> QED  BY <1>0, <1>1, <1>2, <2>1, <2>2, <2>3, SlotKept
<1> QED  BY <1>3, <1>4, <1>5, <1>6, <1>7, <1>8, <1>9, <1>10, <1>11 DEF Coroutine

\* maxConcurrentTasks holds: for any number of tasks, slots and sessions, with
\* failing harness calls and restarts of the bridge, as long as clients only
\* start and cancel tasks, no session/read fails and the harness does not exit.
\* A follow-up or a steer whose task ends while its checks are awaited starts
\* the task again without asking for a slot.
THEOREM SlotsAreLimited ==
  ASSUME Policy = "deny", ClientOps \cap {"steer", "followUp"} = {},
         Faults \cap {"read", "exit"} = {}
  PROVE  Spec => []SlotLimit
<1>1. Init => SlotInv
  <2> SUFFICES ASSUME Init PROVE SlotInv
    OBVIOUS
  <2>1. \A u \in Task : state[u] \notin Slot
    BY DEF Init, Slot, Active, Live
  <2>2. {u \in Task : state[u] \in Slot} = {}
    BY <2>1
  <2>3. SlotLimit
    BY <2>2, FS_EmptySet, ConstantsOK DEF SlotLimit, Occupied
  <2> QED  BY <2>3, QueueInit DEF SlotInv, NoInputs, ListenersExist, Init, NoInput
<1>2. SlotInv /\ [Next]_vars => SlotInv'
  <2> SUFFICES ASSUME SlotInv, [Next]_vars PROVE SlotInv'
    OBVIOUS
  <2>0. TypeOK /\ QueueInv /\ NoInputs /\ ListenersExist /\ SlotLimit /\ "read" \notin Faults
    BY DEF SlotInv, QueueInv
  <2>1. TypeOK' /\ QueueInv'
    BY <2>0, TypeStep, QueueStep
  <2>2. CASE UNCHANGED vars
    BY <2>0, <2>1, <2>2 DEF vars, SlotInv, NoInputs, ListenersExist, SlotLimit, Occupied
  <2>3. ASSUME \A u \in Task : Keeps(u)
        PROVE  NoInputs' /\ ListenersExist'
    BY <2>0, <2>3 DEF ListenersExist, NoInputs, Keeps
  <2>4. ASSUME NEW t \in Task, Coroutine(t) \/ CancelNow(t) \/ CancelBegins(t)
        PROVE  SlotInv'
    BY <2>0, <2>1, <2>3, <2>4, TaskKeeps, SlotTask DEF SlotInv
  <2>5. ASSUME NEW t \in Task, NEW w \in Workspace, NEW ro \in BOOLEAN,
               NEW want \in Session \cup {NoSession}, StartTask(t, w, ro, want)
        PROVE  SlotInv'
    <3>1. SlotLimit'
      <4>1. "queued" \in State /\ "queued" \notin Slot
        BY SlotStates
      <4>2. Append(queue, t) \in Seq(Task)
        BY <2>0 DEF TypeOK
      <4>3. Drain([state EXCEPT ![t] = "queued"], Append(queue, t), start)
        BY <2>5 DEF StartTask
      <4>4. Exact([state EXCEPT ![t] = "queued"], Append(queue, t))
        BY <2>0, <2>5, QueuedExact DEF StartTask
      <4> QED  BY <2>0, <4>1, <4>2, <4>3, <4>4, SlotKept
    <3>2. NoInputs' /\ ListenersExist'
      <4>1. \A u \in Task : state'[u] = "absent" => state[u] = "absent"
        BY <2>0, <2>5, QueueStartTask DEF Orderly
      <4>2. input' = input /\ accepting' = accepting
        BY <2>5 DEF StartTask
      <4> QED  BY <2>0, <4>1, <4>2 DEF NoInputs, ListenersExist
    <3> QED  BY <2>1, <3>1, <3>2 DEF SlotInv
  <2>6. \A t \in Task : ~AddInput(t)
    BY DEF AddInput
  <2>7. ASSUME NEW s \in Session, Harness(s)
        PROVE  SlotInv'
    <3>1. NoInputs' /\ ListenersExist'
      BY <2>0, <2>3, <2>7, HarnessKeeps
    <3>2. \/ UNCHANGED state
          \/ Listening(s) /\ Drain([state EXCEPT ![owner[s]] = "failed"], queue, start)
      BY <2>7 DEF Harness, TurnFailed, TurnCompleted, TurnSettles, Ask
    <3>3. Listening(s) => owner[s] \in Task /\ Born(owner[s])
      BY <2>0 DEF Listening, QueueInv, TypeOK, Started
    <3>4. "failed" \in State \ {"absent", "queued"} /\ "failed" \notin Slot
      BY SlotStates
    <3>5. ASSUME Listening(s), Drain([state EXCEPT ![owner[s]] = "failed"], queue, start)
          PROVE  SlotLimit'
      <4>1. queue \in Seq(Task) /\ Exact([state EXCEPT ![owner[s]] = "failed"], queue)
        BY <2>0, <3>3, <3>4, <3>5, BornExact DEF TypeOK
      <4> QED  BY <2>0, <3>3, <3>4, <3>5, <4>1, SlotKept
    <3>6. UNCHANGED state => SlotLimit'
      BY <2>0 DEF SlotLimit, Occupied
    <3> QED  BY <2>1, <3>1, <3>2, <3>5, <3>6 DEF SlotInv
  <2>8. ~HarnessExit
    BY DEF HarnessExit
  <2>9. CASE BridgeRestart
    <3>1. NoInputs' /\ ListenersExist'
      BY <2>0, <2>3, <2>9, RestartKeeps
    <3>2. \A u \in Task : state'[u] \in Slot => state[u] \in Slot
      BY <2>0, <2>9 DEF BridgeRestart, NoInputs, Slot, Active, Live
    <3>3. SlotLimit'
      <4>1. Occupied(state') <= Occupied(state)
        BY <3>2, FewerSlots
      <4>2. Occupied(state') \in Nat /\ Occupied(state) \in Nat /\ MaxConcurrent \in Nat
        BY OccupiedNat, ConstantsOK
      <4> QED  BY <2>0, <4>1, <4>2 DEF SlotLimit
    <3> QED  BY <2>1, <3>1, <3>3 DEF SlotInv
  <2> QED  BY <2>2, <2>4, <2>5, <2>6, <2>7, <2>8, <2>9 DEF Next, Client
<1>3. SlotInv => SlotLimit
  BY DEF SlotInv
<1> QED  BY <1>1, <1>2, <1>3, PTL DEF Spec

(***************************************************************************)
(* "The wish only counts as cancelled after verification", for clients     *)
(* that start and cancel tasks.  The invariant follows a prompt from the   *)
(* pipe to the turn it becomes: sending spans exactly the two, and a turn  *)
(* that runs belongs to a task whose own session it is and whose verdict   *)
(* is still out.                                                           *)
(***************************************************************************)
SendKnown(u) ==
  /\ sending[u] <=> start[u] \in {"send", "sent"}
  /\ cancel[u].at \in {"stop", "poll"} /\ state[u] = "cancelling" => ~sending[u]
  /\ state[u] = "cancelled" => ~sending[u]
Works(u, s) ==
  /\ u \in Task /\ Born(u) /\ sid[u] = s
  /\ start[u] \in {"idle", "sent"} /\ (state[u] = "starting" => start[u] = "sent")
  /\ state[u] # "cancelled"
TurnKnown(s) == ~LooksStopped(s) => Works(turn[s].of, s)
StopInv == QueueInv /\ NoInputs /\ (\A u \in Task : SendKnown(u)) /\ (\A s \in Session : TurnKnown(s))

\* What a step may do to the turns and to the tasks they belong to.
TurnKept(s) ==
  ~LooksStopped(s)' =>
    \/ ~LooksStopped(s) /\ turn'[s].of = turn[s].of
    \/ Works(turn[s].of, s)'
WorkKept(u) ==
  /\ sid'[u] = sid[u] /\ start'[u] \in {start[u], "idle"} /\ state'[u] # "cancelled"
  /\ state'[u] = "starting" => state[u] = "starting" /\ start'[u] = start[u]

\* Such a step keeps what is known of every turn.
LEMMA KeepsTurns ==
  ASSUME StopInv, Orderly, NEW s \in Session, TurnKept(s),
         \A u \in Task : ~LooksStopped(s) /\ Works(u, s) => WorkKept(u)
  PROVE  TurnKnown(s)'
<1> SUFFICES ASSUME ~LooksStopped(s)' PROVE Works(turn[s].of, s)'
  BY DEF TurnKnown
<1>1. CASE ~LooksStopped(s) /\ turn'[s].of = turn[s].of
  <2> DEFINE u == turn[s].of
  <2>1. Works(u, s) /\ u \in Task
    BY <1>1 DEF StopInv, TurnKnown, Works
  <2> HIDE DEF u
  <2>2. WorkKept(u) /\ state'[u] \notin {"absent", "queued"}
    BY <1>1, <2>1 DEF Orderly, Works
  <2>3. /\ u \in Task /\ state'[u] \notin {"absent", "queued"} /\ sid'[u] = s
        /\ start'[u] \in {"idle", "sent"} /\ (state'[u] = "starting" => start'[u] = "sent")
        /\ state'[u] # "cancelled"
    BY <2>1, <2>2 DEF Works, WorkKept
  <2>4. turn'[s].of = u
    BY <1>1 DEF u
  <2> QED  BY <2>3, <2>4 DEF Works, Born
<1> QED  BY <1>1 DEF TurnKept, LooksStopped

\* drainQueue disturbs no task that has left the queue.
LEMMA DrainWork ==
  ASSUME TypeOK, NEW t \in Task, NEW v, v \notin {"queued", "starting"}, NEW q, NEW go,
         Drain([state EXCEPT ![t] = v], q, go), NEW u \in Task
  PROVE  /\ Born(u) => start'[u] = go[u]
         /\ Born(u) => state'[u] = IF u = t THEN v ELSE state[u]
         /\ ~Born(u) => state'[u] \in {state[u], v, "starting"} /\ start'[u] \in {go[u], "boot"}
         /\ state'[u] = "starting" => state[u] \in {"starting", "queued"}
         /\ state'[u] = "cancelling" => v = "cancelling" \/ state[u] = "cancelling"
         /\ state'[u] = "cancelled" => state[u] = "cancelled" \/ (u = t /\ v = "cancelled")
<1> DEFINE st == [state EXCEPT ![t] = v]
<1>1. st[u] = IF u = t THEN v ELSE state[u]
  BY DEF TypeOK
<1>2. Drain(st, q, go)
  OBVIOUS
<1> HIDE DEF st
<1>3. /\ state'[u] = st[u] \/ (st[u] = "queued" /\ state'[u] = "starting")
      /\ start'[u] = go[u] \/ (st[u] = "queued" /\ start'[u] = "boot")
  BY <1>2, DrainStep
<1> QED  BY <1>1, <1>3 DEF Born

\* The steps of startNow keep the invariant.
LEMMA StopStart ==
  ASSUME StopInv, Orderly, NEW t \in Task,
         StartBooted(t) \/ StartSends(t) \/ StartAccepted(t) \/ StartFails(t)
  PROVE  /\ \A u \in Task : SendKnown(u)'
         /\ \A s \in Session : TurnKnown(s)'
<1>0. TypeOK /\ \A u \in Task : SendKnown(u)
  BY DEF StopInv, QueueInv
<1>1. \A u \in Task : ~Born(u) => start[u] = "idle"
  BY DEF StopInv, QueueInv, Started
<1>2. CASE StartBooted(t)
  <2>1. \A u \in Task : SendKnown(u)'
    BY <1>0, <1>2 DEF StartBooted, SendKnown, TypeOK
  <2>2. \A s \in Session : TurnKept(s)
    BY <1>2 DEF StartBooted, TurnKept, LooksStopped
  <2>3. ASSUME NEW s \in Session, NEW u \in Task, Works(u, s)
        PROVE  WorkKept(u)
    BY <1>0, <1>2, <2>3 DEF StartBooted, Works, WorkKept, TypeOK
  <2> QED  BY <2>1, <2>2, <2>3, KeepsTurns
<1>3. CASE StartSends(t)
  <2>1. \A u \in Task : SendKnown(u)'
    BY <1>0, <1>3 DEF StartSends, StillStarting, SendKnown, TypeOK
  <2>2. \A s \in Session : TurnKept(s)
    BY <1>3 DEF StartSends, TurnKept, LooksStopped
  <2>3. ASSUME NEW s \in Session, NEW u \in Task, Works(u, s)
        PROVE  WorkKept(u)
    BY <1>0, <1>3, <2>3 DEF StartSends, Works, WorkKept, TypeOK
  <2> QED  BY <2>1, <2>2, <2>3, KeepsTurns
<1>4. CASE StartAccepted(t)
  <2>1. \A u \in Task : SendKnown(u)'
    BY <1>0, <1>4 DEF StartAccepted, StillStarting, SendKnown, TypeOK
  <2>2. \A s \in Session : TurnKept(s)
    BY <1>4 DEF StartAccepted, TurnKept, LooksStopped
  <2>3. ASSUME NEW s \in Session, NEW u \in Task, Works(u, s)
        PROVE  WorkKept(u)
    BY <1>0, <1>4, <2>3 DEF StartAccepted, StillStarting, Works, WorkKept, TypeOK
  <2> QED  BY <2>1, <2>2, <2>3, KeepsTurns
<1>5. CASE StartFails(t)
  <2>1. /\ start[t] \in {"boot", "setup", "send"} /\ Born(t)
        /\ sending' = [sending EXCEPT ![t] = IF start[t] = "send" THEN FALSE ELSE @]
        /\ sid' = sid /\ cancel' = cancel
    BY <1>1, <1>5 DEF StartFails
  <2>2. \A s \in Session : TurnKept(s)
    <3>1. turn' = Closed(t, turn) \/ turn' = turn
      BY <1>5 DEF StartFails
    <3>2. Closed(t, turn) = turn \/ Closed(t, turn) = [turn EXCEPT ![sid[t]] = Rest]
      BY DEF Closed
    <3> QED  BY <1>0, <3>1, <3>2, TurnsCalm DEF TurnKept
  <2>3. CASE StillStarting(t)
    <3>1. Drain([state EXCEPT ![t] = "failed"], queue, [start EXCEPT ![t] = "idle"])
      BY <1>5, <2>3 DEF StartFails
    <3>2. \A u \in Task : [start EXCEPT ![t] = "idle"][u] = IF u = t THEN "idle" ELSE start[u]
      BY <1>0 DEF TypeOK
    <3> DEFINE go == [start EXCEPT ![t] = "idle"]
    <3> HIDE DEF go
    <3>9. ASSUME NEW u \in Task
          PROVE  /\ Born(u) => start'[u] = go[u]
                 /\ Born(u) => state'[u] = IF u = t THEN "failed" ELSE state[u]
                 /\ ~Born(u) => start'[u] \in {go[u], "boot"}
                 /\ state'[u] = "cancelling" => state[u] = "cancelling"
                 /\ state'[u] = "cancelled" => state[u] = "cancelled"
      <4>1. Drain([state EXCEPT ![t] = "failed"], queue, go) /\ "failed" \notin {"queued", "starting"}
        BY <3>1 DEF go
      <4> QED  BY <1>0, <4>1, DrainWork
    <3>3. ASSUME NEW u \in Task
          PROVE  SendKnown(u)'
      <4>1. sending'[u] <=> start'[u] \in {"send", "sent"}
        <5>1. sending[u] <=> start[u] \in {"send", "sent"}
          BY <1>0 DEF SendKnown
        <5>2. sending'[u] = IF u = t /\ start[t] = "send" THEN FALSE ELSE sending[u]
          BY <1>0, <2>1 DEF TypeOK
        <5>3. start'[u] \in {go[u], "boot"} /\ (Born(u) => start'[u] = go[u])
          BY <3>9
        <5>4. CASE u = t
          <6>1. start'[t] = "idle"
            BY <2>1, <3>2, <5>3, <5>4 DEF go
          <6>2. ~sending'[t]
            BY <5>1, <5>2, <5>4, <2>1
          <6> QED  BY <5>4, <6>1, <6>2
        <5>5. CASE u # t
          <6>1. go[u] = start[u]
            BY <3>2, <5>5 DEF go
          <6>2. start'[u] = start[u] \/ (start[u] = "idle" /\ start'[u] = "boot")
            BY <1>1, <5>3, <6>1
          <6> QED  BY <5>1, <5>2, <5>5, <6>2
        <5> QED  BY <5>4, <5>5
      <4>2. sending'[u] => sending[u]
        BY <1>0, <2>1 DEF TypeOK
      <4> QED  BY <1>0, <2>1, <3>9, <4>1, <4>2 DEF SendKnown
    <3>4. ASSUME NEW s \in Session, NEW u \in Task, Works(u, s)
          PROVE  WorkKept(u)
      <4>1. u # t /\ Born(u)
        BY <2>1, <3>4 DEF Works
      <4>2. state'[u] = state[u] /\ start'[u] = start[u]
        BY <3>2, <3>9, <4>1 DEF go
      <4> QED  BY <2>1, <3>4, <4>2 DEF Works, WorkKept
    <3> QED  BY <2>2, <3>3, <3>4, KeepsTurns
  <2>4. CASE ~StillStarting(t)
    <3>1. state' = state /\ start' = [start EXCEPT ![t] = "idle"]
      BY <1>5, <2>4 DEF StartFails
    <3>2. \A u \in Task : SendKnown(u)'
      BY <1>0, <2>1, <3>1 DEF SendKnown, TypeOK
    <3>3. ASSUME NEW s \in Session, NEW u \in Task, Works(u, s)
          PROVE  WorkKept(u)
      BY <1>0, <2>1, <3>1, <3>3 DEF Works, WorkKept, TypeOK
    <3> QED  BY <2>2, <3>2, <3>3, KeepsTurns
  <2> QED  BY <2>3, <2>4
<1> QED  BY <1>2, <1>3, <1>4, <1>5

\* A verdict on a task of which no prompt and no turn is left, or another
\* verdict than "cancelled", with drainQueue after it, keeps the invariant.
LEMMA StopDrain ==
  ASSUME StopInv, Orderly, NEW t \in Task, NEW v \in {"cancelled", "failed", "completed", "unknown"},
         NEW q, Drain([state EXCEPT ![t] = v], q, start),
         sending' = sending, sid' = sid, cancel' \in [Task -> Cancel],
         \A u \in Task : cancel'[u].at \in {cancel[u].at, "idle"},
         \A s \in Session : TurnKept(s),
         v = "cancelled" => ~sending[t] /\ \A s \in Session : ~LooksStopped(s) => ~Works(t, s)
  PROVE  /\ \A u \in Task : SendKnown(u)'
         /\ \A s \in Session : TurnKnown(s)'
<1>0. TypeOK /\ \A u \in Task : SendKnown(u)
  BY DEF StopInv, QueueInv
<1>1. \A u \in Task : ~Born(u) => start[u] = "idle"
  BY DEF StopInv, QueueInv, Started
<1>9. ASSUME NEW u \in Task
      PROVE  /\ Born(u) => start'[u] = start[u]
             /\ Born(u) => state'[u] = IF u = t THEN v ELSE state[u]
             /\ ~Born(u) => start'[u] \in {start[u], "boot"}
             /\ state'[u] = "cancelling" => state[u] = "cancelling"
             /\ state'[u] = "cancelled" => state[u] = "cancelled" \/ (u = t /\ v = "cancelled")
  <2>1. v \notin {"queued", "starting"} /\ v # "cancelling"
    OBVIOUS
  <2>2. Drain([state EXCEPT ![t] = v], q, start)
    OBVIOUS
  <2>3. /\ Born(u) => start'[u] = start[u]
        /\ Born(u) => state'[u] = IF u = t THEN v ELSE state[u]
        /\ ~Born(u) => start'[u] \in {start[u], "boot"}
        /\ state'[u] = "cancelling" => v = "cancelling" \/ state[u] = "cancelling"
        /\ state'[u] = "cancelled" => state[u] = "cancelled" \/ (u = t /\ v = "cancelled")
    <3> DEFINE st == [state EXCEPT ![t] = v]
    <3>1. st[u] = IF u = t THEN v ELSE state[u]
      BY <1>0 DEF TypeOK
    <3>2. Drain(st, q, start)
      BY <2>2
    <3> HIDE DEF st
    <3>3. /\ state'[u] = st[u] \/ (st[u] = "queued" /\ state'[u] = "starting")
          /\ start'[u] = start[u] \/ (st[u] = "queued" /\ start'[u] = "boot")
      BY <3>2, DrainStep
    <3> QED  BY <2>1, <3>1, <3>3 DEF Born
  <2> QED  BY <2>1, <2>3
<1>2. ASSUME NEW u \in Task
      PROVE  SendKnown(u)'
  <2>1. start'[u] \in {start[u], "boot"} /\ (start'[u] # start[u] => start[u] = "idle")
    BY <1>1, <1>9
  <2>2. sending'[u] <=> start'[u] \in {"send", "sent"}
    BY <1>0, <2>1 DEF SendKnown
  <2>3. state'[u] = "cancelling" => state[u] = "cancelling"
    BY <1>9
  <2>4. state'[u] = "cancelled" => state[u] = "cancelled" \/ (u = t /\ v = "cancelled")
    BY <1>9
  <2> QED  BY <1>0, <2>2, <2>3, <2>4 DEF SendKnown
<1>3. ASSUME NEW s \in Session, NEW u \in Task, ~LooksStopped(s), Works(u, s)
      PROVE  WorkKept(u)
  <2>1. Born(u) /\ state[u] # "cancelled"
    BY <1>3 DEF Works
  <2>2. start'[u] = start[u] /\ state'[u] = IF u = t THEN v ELSE state[u]
    BY <1>9, <2>1
  <2>3. u = t => v # "cancelled"
    BY <1>3
  <2> QED  BY <2>1, <2>2, <2>3 DEF WorkKept
<1> QED  BY <1>2, <1>3, KeepsTurns

\* startTask, which launches queued tasks only, keeps the invariant.
LEMMA StopStartTask ==
  ASSUME StopInv, Orderly, NEW t \in Task, NEW w \in Workspace, NEW ro \in BOOLEAN,
         NEW want \in Session \cup {NoSession}, StartTask(t, w, ro, want)
  PROVE  /\ \A u \in Task : SendKnown(u)'
         /\ \A s \in Session : TurnKnown(s)'
<1> DEFINE st == [state EXCEPT ![t] = "queued"]
<1>0. TypeOK /\ (\A u \in Task : SendKnown(u)) /\ ~Born(t)
  BY DEF StopInv, QueueInv, StartTask, Born
<1>1. \A u \in Task : ~Born(u) => start[u] = "idle"
  BY DEF StopInv, QueueInv, Started
<1>2. \A u \in Task : st[u] = IF u = t THEN "queued" ELSE state[u]
  BY <1>0 DEF TypeOK
<1>3. Drain(st, Append(queue, t), start)
  BY DEF StartTask
<1> HIDE DEF st
<1>4. ASSUME NEW u \in Task
      PROVE  /\ Born(u) => start'[u] = start[u] /\ state'[u] = state[u]
             /\ ~Born(u) => /\ start[u] = "idle" /\ start'[u] \in {"idle", "boot"}
                            /\ state'[u] \in {"absent", "queued", "starting"}
  <2>1. /\ state'[u] = st[u] \/ (st[u] = "queued" /\ state'[u] = "starting")
        /\ start'[u] = start[u] \/ (st[u] = "queued" /\ start'[u] = "boot")
    BY <1>3, DrainStep
  <2> QED  BY <1>0, <1>1, <1>2, <2>1 DEF Born
<1>5. sending' = sending /\ cancel' = cancel /\ turn' = turn /\ \A u \in Task : u # t => sid'[u] = sid[u]
  BY <1>0 DEF StartTask, TypeOK
<1>6. ASSUME NEW u \in Task
      PROVE  SendKnown(u)'
  <2>1. CASE Born(u)
    BY <1>0, <1>4, <1>5, <2>1 DEF SendKnown
  <2>2. CASE ~Born(u)
    <3>1. ~sending[u] /\ start'[u] \notin {"send", "sent"}
      BY <1>0, <1>4, <2>2 DEF SendKnown
    <3> QED  BY <1>5, <3>1 DEF SendKnown
  <2> QED  BY <2>1, <2>2
<1>7. \A s \in Session : TurnKept(s)
  BY <1>5 DEF TurnKept, LooksStopped
<1>8. ASSUME NEW s \in Session, NEW u \in Task, Works(u, s)
      PROVE  WorkKept(u)
  <2>1. Born(u) /\ u # t
    BY <1>0, <1>8 DEF Works
  <2> QED  BY <1>4, <1>5, <1>8, <2>1 DEF Works, WorkKept
<1> QED  BY <1>6, <1>7, <1>8, KeepsTurns

\* So do the calls that cancel a task.
LEMMA StopCalls ==
  ASSUME StopInv, Orderly, NEW t \in Task, CancelNow(t) \/ CancelBegins(t)
  PROVE  /\ \A u \in Task : SendKnown(u)'
         /\ \A s \in Session : TurnKnown(s)'
<1>0. TypeOK /\ \A u \in Task : SendKnown(u)
  BY DEF StopInv, QueueInv
<1>1. CASE CancelNow(t)
  <2>1. /\ Drain([state EXCEPT ![t] = "cancelled"], Removed(queue, t), start)
        /\ sending' = sending /\ sid' = sid /\ cancel' = cancel
    BY <1>1 DEF CancelNow
  <2>2. /\ cancel' \in [Task -> Cancel]
        /\ \A u \in Task : cancel'[u].at \in {cancel[u].at, "idle"}
    BY <1>0, <2>1 DEF TypeOK
  <2>3. \A s \in Session : TurnKept(s)
    <3>1. turn' = Closed(t, turn)
      BY <1>1 DEF CancelNow
    <3>2. Closed(t, turn) = turn \/ Closed(t, turn) = [turn EXCEPT ![sid[t]] = Rest]
      BY DEF Closed
    <3> QED  BY <1>0, <3>1, <3>2, TurnsCalm DEF TurnKept
  <2>4. ~sending[t] /\ \A s \in Session : ~Works(t, s)
    <3>1. CASE state[t] = "queued"
      <4>1. start[t] = "idle" /\ ~Born(t)
        BY <3>1 DEF StopInv, QueueInv, Started, Born
      <4>2. ~sending[t]
        BY <1>0, <4>1 DEF SendKnown
      <4> QED  BY <4>1, <4>2 DEF Works
    <3>2. CASE state[t] = "starting" /\ ~sending[t]
      <4>1. start[t] # "sent"
        BY <1>0, <3>2 DEF SendKnown
      <4> QED  BY <3>2, <4>1 DEF Works
    <3> QED  BY <1>1, <3>1, <3>2 DEF CancelNow, StillStarting
  <2> QED  BY <2>1, <2>2, <2>3, <2>4, StopDrain
<1>2. CASE CancelBegins(t)
  <2>1. \A u \in Task : SendKnown(u)'
    <3>1. /\ sending' = sending /\ start' = start
          /\ \A u \in Task : state'[u] = IF u = t THEN "cancelling" ELSE state[u]
          /\ \A u \in Task : u # t => cancel'[u] = cancel[u]
          /\ cancel'[t].at = IF sending[t] THEN "await" ELSE "stop"
      BY <1>0, <1>2 DEF CancelBegins, TypeOK
    <3>2. ASSUME NEW u \in Task, u # t
          PROVE  SendKnown(u)'
      BY <1>0, <3>1, <3>2 DEF SendKnown
    <3>3. SendKnown(t)'
      <4>1. sending'[t] <=> start'[t] \in {"send", "sent"}
        BY <1>0, <3>1 DEF SendKnown
      <4>2. cancel'[t].at \in {"stop", "poll"} => ~sending'[t]
        BY <3>1
      <4>3. state'[t] # "cancelled"
        BY <3>1
      <4> QED  BY <4>1, <4>2, <4>3 DEF SendKnown
    <3> QED  BY <3>2, <3>3
  <2>2. \A s \in Session : TurnKept(s)
    BY <1>2 DEF CancelBegins, TurnKept, LooksStopped
  <2>3. ASSUME NEW s \in Session, NEW u \in Task, Works(u, s)
        PROVE  WorkKept(u)
    BY <1>0, <1>2, <2>3 DEF CancelBegins, Works, WorkKept, TypeOK
  <2> QED  BY <2>1, <2>2, <2>3, KeepsTurns
<1> QED  BY <1>1, <1>2

\* So do the later steps of cancel: the verdict "cancelled" needs an idle
\* session.
LEMMA StopCancel ==
  ASSUME StopInv, Orderly, NEW t \in Task, CancelAwaited(t) \/ CancelStops(t) \/ CancelPoll(t)
  PROVE  /\ \A u \in Task : SendKnown(u)'
         /\ \A s \in Session : TurnKnown(s)'
<1>0. TypeOK /\ \A u \in Task : SendKnown(u)
  BY DEF StopInv, QueueInv
<1>1. sending' = sending /\ sid' = sid
  BY DEF CancelAwaited, CancelStops, CancelPoll
<1>2. \A s \in Session : TurnKept(s)
  <2>1. CASE CancelStops(t)
    <3>1. turn' = [turn EXCEPT ![sid[t]] = Rest] \/ Winds(sid[t]) \/ turn' = turn
      BY <2>1 DEF CancelStops
    <3> QED  BY <1>0, <3>1, TurnsCalm DEF TurnKept
  <2>2. CASE ~CancelStops(t)
    BY <2>2 DEF CancelAwaited, CancelPoll, TurnKept, LooksStopped
  <2> QED  BY <2>1, <2>2
<1>3. CASE CancelAwaited(t) \/ CancelStops(t)
  <2>1. state' = state /\ start' = start
    BY <1>3 DEF CancelAwaited, CancelStops
  <2>2. ASSUME NEW u \in Task
        PROVE  SendKnown(u)'
    <3>1. CASE u # t
      <4>1. cancel'[u] = cancel[u]
        BY <1>0, <1>3, <3>1 DEF CancelAwaited, CancelStops, TypeOK
      <4> QED  BY <1>0, <1>1, <2>1, <4>1 DEF SendKnown
    <3>2. CASE u = t
      <4>1. state[t] = "cancelling" => ~sending[t]
        BY <1>0, <1>3 DEF CancelAwaited, CancelStops, SendKnown
      <4> QED  BY <1>0, <1>1, <2>1, <3>2, <4>1 DEF SendKnown
    <3> QED  BY <3>1, <3>2
  <2>3. ASSUME NEW s \in Session, NEW u \in Task, Works(u, s)
        PROVE  WorkKept(u)
    BY <1>1, <2>1, <2>3 DEF Works, WorkKept
  <2> QED  BY <1>2, <2>2, <2>3, KeepsTurns
<1>4. CASE CancelPoll(t)
  <2>1. /\ cancel' \in [Task -> Cancel]
        /\ \A u \in Task : cancel'[u].at \in {cancel[u].at, "idle"}
    <3>1. \/ cancel' = [cancel EXCEPT ![t] = NoCancel]
          \/ cancel' = [cancel EXCEPT ![t].polls = @ - 1]
      BY <1>4 DEF CancelPoll
    <3>2. cancel' \in [Task -> Cancel]
      BY <1>0, <1>4, TypeCancel DEF TypeOK
    <3>3. [cancel[t] EXCEPT !.polls = @ - 1].at = cancel[t].at /\ NoCancel.at = "idle"
      BY <1>0 DEF TypeOK, Cancel, NoCancel
    <3>4. ASSUME NEW u \in Task
          PROVE  cancel'[u] \in {cancel[u], NoCancel} \/ (u = t /\ cancel'[u] = [cancel[t] EXCEPT !.polls = @ - 1])
      BY <1>0, <3>1 DEF TypeOK
    <3> QED  BY <3>2, <3>3, <3>4
  <2>2. CASE UNCHANGED <<state, queue, start>>
    <3>1. ASSUME NEW u \in Task
          PROVE  SendKnown(u)'
      <4>1. cancel'[u].at \in {cancel[u].at, "idle"}
        BY <2>1
      <4> QED  BY <1>0, <1>1, <2>2, <4>1 DEF SendKnown
    <3>2. ASSUME NEW s \in Session, NEW u \in Task, Works(u, s)
          PROVE  WorkKept(u)
      BY <1>1, <2>2, <3>2 DEF Works, WorkKept
    <3> QED  BY <1>2, <3>1, <3>2, KeepsTurns
  <2>3. ASSUME NEW v \in {"cancelled", "unknown"}, Drain([state EXCEPT ![t] = v], queue, start),
               cancel[t].at = "poll", state[t] = "cancelling",
               v = "cancelled" => LooksStopped(sid[t])
        PROVE  /\ \A u \in Task : SendKnown(u)'
               /\ \A s \in Session : TurnKnown(s)'
    <3>1. v = "cancelled" => ~sending[t]
      BY <1>0, <2>3 DEF SendKnown
    <3>2. v = "cancelled" => \A s \in Session : ~LooksStopped(s) => ~Works(t, s)
      BY <2>3 DEF Works
    <3>3. v \in {"cancelled", "failed", "completed", "unknown"}
      OBVIOUS
    <3> QED  BY <1>1, <1>2, <2>1, <2>3, <3>1, <3>2, <3>3, StopDrain
  <2>4. \/ UNCHANGED <<state, queue, start>>
        \/ /\ cancel[t].at = "poll" /\ state[t] = "cancelling"
           /\ \/ /\ LooksStopped(sid[t])
                 /\ Drain([state EXCEPT ![t] = "cancelled"], queue, start)
              \/ Drain([state EXCEPT ![t] = "unknown"], queue, start)
    BY <1>4 DEF CancelPoll
  <2>5. "unknown" # "cancelled"
    OBVIOUS
  <2> QED  BY <2>2, <2>3, <2>4, <2>5
<1> QED  BY <1>3, <1>4

\* So do the start of a turn, which takes a prompt off the pipe, and the answer
\* to a question.
LEMMA StopTurn ==
  ASSUME StopInv, Orderly, NEW t \in Task, TurnStarts(t) \/ AskDecided(t)
  PROVE  /\ \A u \in Task : SendKnown(u)'
         /\ \A s \in Session : TurnKnown(s)'
<1>0. TypeOK /\ (\A u \in Task : SendKnown(u)) /\ input[t].at = "idle"
  BY DEF StopInv, QueueInv, NoInputs
<1>1. sending' = sending /\ sid' = sid /\ cancel' = cancel
  BY DEF TurnStarts, AskDecided
<1>2. ASSUME NEW u \in Task
      PROVE  state'[u] \in {state[u], "running"}
  BY <1>0 DEF TurnStarts, AskDecided, TypeOK
<1>3. CASE TurnStarts(t)
  <2>1. start[t] = "send" /\ start' = [start EXCEPT ![t] = "sent"]
    BY <1>0, <1>3 DEF TurnStarts
  <2>2. \A u \in Task : start'[u] = IF u = t THEN "sent" ELSE start[u]
    BY <1>0, <2>1 DEF TypeOK
  <2>3. ASSUME NEW u \in Task
        PROVE  SendKnown(u)'
    <3>1. start'[u] \in {"send", "sent"} <=> start[u] \in {"send", "sent"}
      BY <2>1, <2>2
    <3> QED  BY <1>0, <1>1, <1>2, <3>1 DEF SendKnown
  <2>4. sid[t] \in Session /\ Born(t) /\ state[t] # "cancelled"
    <3>1. sending[t]
      BY <1>0, <2>1 DEF SendKnown
    <3>2. sid[t] \in Session /\ Born(t)
      BY <1>0, <2>1 DEF StopInv, QueueInv, Started, Going, TypeOK
    <3> QED  BY <1>0, <3>1, <3>2 DEF SendKnown
  <2>5. Works(t, sid[t])'
    BY <1>1, <1>2, <2>2, <2>4 DEF Works, Orderly, Born
  <2>6. turn' = [turn EXCEPT ![sid[t]] = [of |-> t, phase |-> "busy"]]
    BY <1>3 DEF TurnStarts
  <2>7. ASSUME NEW s \in Session
        PROVE  TurnKnown(s)'
    <3>1. CASE s = sid[t]
      <4>1. turn'[s].of = t
        BY <1>0, <2>6, <3>1 DEF TypeOK
      <4>2. Works(t, s)'
        BY <1>1, <2>5, <3>1 DEF Works
      <4> QED  BY <4>1, <4>2 DEF TurnKnown
    <3>2. CASE s # sid[t]
      <4>1. turn'[s] = turn[s]
        BY <1>0, <2>6, <3>2 DEF TypeOK
      <4>2. TurnKept(s)
        BY <4>1 DEF TurnKept, LooksStopped
      <4>3. ASSUME NEW u \in Task, Works(u, s)
            PROVE  WorkKept(u)
        <5>1. u # t
          BY <3>2, <4>3 DEF Works
        <5> QED  BY <1>1, <1>2, <2>2, <4>3, <5>1 DEF Works, WorkKept
      <4> QED  BY <4>2, <4>3, KeepsTurns
    <3> QED  BY <3>1, <3>2
  <2> QED  BY <2>3, <2>7
<1>4. CASE AskDecided(t)
  <2>1. start' = start /\ turn' = turn
    BY <1>4 DEF AskDecided
  <2>2. \A u \in Task : SendKnown(u)'
    BY <1>0, <1>1, <1>2, <2>1 DEF SendKnown
  <2>3. \A s \in Session : TurnKept(s)
    BY <2>1 DEF TurnKept, LooksStopped
  <2>4. ASSUME NEW s \in Session, NEW u \in Task, Works(u, s)
        PROVE  WorkKept(u)
    BY <1>1, <1>2, <2>1, <2>4 DEF Works, WorkKept
  <2> QED  BY <2>2, <2>3, <2>4, KeepsTurns
<1> QED  BY <1>3, <1>4

\* So do the steps of checkQuiet.
LEMMA StopQuiet ==
  ASSUME StopInv, Orderly, NEW t \in Task, NEW q \in quiet[t],
         QuietWakes(t, q) \/ QuietReads(t, q) \/ QuietReadFails(t, q)
  PROVE  /\ \A u \in Task : SendKnown(u)'
         /\ \A s \in Session : TurnKnown(s)'
<1>0. TypeOK /\ \A u \in Task : SendKnown(u)
  BY DEF StopInv, QueueInv
<1>1. sending' = sending /\ sid' = sid /\ cancel' = cancel /\ turn' = turn
  BY DEF QuietWakes, QuietReads, QuietReadFails
<1>2. \A s \in Session : TurnKept(s)
  BY <1>1 DEF TurnKept, LooksStopped
<1>3. \/ UNCHANGED <<state, queue, start>>
      \/ \E v \in {"unknown", "completed"} : Drain([state EXCEPT ![t] = v], queue, start)
      \/ state' = [state EXCEPT ![t] = "waiting"] /\ UNCHANGED <<queue, start>>
  <2>1. CASE QuietWakes(t, q)
    BY <2>1 DEF QuietWakes
  <2>2. CASE QuietReads(t, q)
    BY <2>2 DEF QuietReads, GiveUp
  <2>3. CASE QuietReadFails(t, q)
    BY <2>3 DEF QuietReadFails, GiveUp
  <2> QED  BY <2>1, <2>2, <2>3
<1>4. ASSUME UNCHANGED start, \A u \in Task : state'[u] \in {state[u], "waiting"}
      PROVE  /\ \A u \in Task : SendKnown(u)'
             /\ \A s \in Session : TurnKnown(s)'
  <2>1. \A u \in Task : SendKnown(u)'
    BY <1>0, <1>1, <1>4 DEF SendKnown
  <2>2. ASSUME NEW s \in Session, NEW u \in Task, Works(u, s)
        PROVE  WorkKept(u)
    BY <1>1, <1>4, <2>2 DEF Works, WorkKept
  <2> QED  BY <1>2, <2>1, <2>2, KeepsTurns
<1>5. ASSUME NEW v \in {"unknown", "completed"}, Drain([state EXCEPT ![t] = v], queue, start)
      PROVE  /\ \A u \in Task : SendKnown(u)'
             /\ \A s \in Session : TurnKnown(s)'
  <2>1. /\ cancel' \in [Task -> Cancel]
        /\ \A u \in Task : cancel'[u].at \in {cancel[u].at, "idle"}
    BY <1>0, <1>1 DEF TypeOK
  <2>2. v \in {"cancelled", "failed", "completed", "unknown"} /\ v # "cancelled"
    OBVIOUS
  <2> QED  BY <1>1, <1>2, <1>5, <2>1, <2>2, StopDrain
<1>6. \/ UNCHANGED start /\ \A u \in Task : state'[u] \in {state[u], "waiting"}
      \/ \E v \in {"unknown", "completed"} : Drain([state EXCEPT ![t] = v], queue, start)
  BY <1>0, <1>3 DEF TypeOK
<1> QED  BY <1>4, <1>5, <1>6

\* So do the events and questions of the harness.
LEMMA StopHarness ==
  ASSUME StopInv, Orderly, NEW s \in Session, Harness(s)
  PROVE  /\ \A u \in Task : SendKnown(u)'
         /\ \A r \in Session : TurnKnown(r)'
<1>0. TypeOK /\ \A u \in Task : SendKnown(u)
  BY DEF StopInv, QueueInv
<1>1. sending' = sending /\ sid' = sid /\ cancel' = cancel
  BY DEF Harness, TurnFailed, TurnCompleted, TurnSettles, Ask
<1>2. \A r \in Session : TurnKept(r)
  <2>1. turn' = [turn EXCEPT ![s] = Rest] \/ Winds(s) \/ turn' = turn
    BY DEF Harness, TurnFailed, TurnCompleted, TurnSettles, Ask
  <2> QED  BY <1>0, <2>1, TurnsCalm DEF TurnKept
<1>3. ASSUME UNCHANGED start, \A u \in Task : state'[u] \in {state[u], "waiting"}
      PROVE  /\ \A u \in Task : SendKnown(u)'
             /\ \A r \in Session : TurnKnown(r)'
  <2>1. \A u \in Task : SendKnown(u)'
    BY <1>0, <1>1, <1>3 DEF SendKnown
  <2>2. ASSUME NEW r \in Session, NEW u \in Task, Works(u, r)
        PROVE  WorkKept(u)
    BY <1>1, <1>3, <2>2 DEF Works, WorkKept
  <2> QED  BY <1>2, <2>1, <2>2, KeepsTurns
<1>4. CASE TurnFailed(s) /\ Listening(s)
  <2>1. owner[s] \in Task /\ Drain([state EXCEPT ![owner[s]] = "failed"], queue, start)
    BY <1>0, <1>4 DEF TurnFailed, Listening, TypeOK
  <2>2. /\ cancel' \in [Task -> Cancel]
        /\ \A u \in Task : cancel'[u].at \in {cancel[u].at, "idle"}
    BY <1>0, <1>1 DEF TypeOK
  <2>3. "failed" \in {"cancelled", "failed", "completed", "unknown"} /\ "failed" # "cancelled"
    OBVIOUS
  <2> QED  BY <1>1, <1>2, <2>1, <2>2, <2>3, StopDrain
<1>5. CASE ~(TurnFailed(s) /\ Listening(s))
  <2>1. UNCHANGED start /\ \A u \in Task : state'[u] \in {state[u], "waiting"}
    BY <1>0, <1>5 DEF Harness, TurnFailed, TurnCompleted, TurnSettles, Ask, TypeOK
  <2> QED  BY <1>3, <2>1
<1> QED  BY <1>4, <1>5

\* So do an exit of the harness and a restart of the bridge: nothing runs after
\* them.
LEMMA StopLoss ==
  ASSUME HarnessExit \/ BridgeRestart
  PROVE  /\ \A u \in Task : SendKnown(u)'
         /\ \A s \in Session : TurnKnown(s)'
<1>1. /\ \A u \in Task : ~sending'[u] /\ start'[u] = "idle"
      /\ \A s \in Session : turn'[s].phase = "idle"
  BY DEF HarnessExit, BridgeRestart, DropCalls, Rest
<1> QED  BY <1>1 DEF SendKnown, TurnKnown, LooksStopped

\* Without steer and follow-up no call of addInput is ever in flight.
LEMMA NoInputsStep ==
  ASSUME TypeOK, NoInputs, ClientOps \cap {"steer", "followUp"} = {}, Next
  PROVE  NoInputs'
<1>1. ASSUME NEW t \in Task, Client(t) \/ Coroutine(t)
      PROVE  \A u \in Task : input'[u].at = "idle"
  <2>1. input[t].at = "idle"
    BY DEF NoInputs
  <2>2. ~AddInput(t)
    BY DEF AddInput
  <2>3. \/ input' = input
        \/ input' = [input EXCEPT ![t].fresh = FALSE]
    <3>1. CASE Client(t)
      BY <2>2, <3>1 DEF Client, StartTask, CancelNow, CancelBegins
    <3>2. CASE Coroutine(t)
      BY <2>1, <3>2 DEF Coroutine, StartBooted, StartSends, StartAccepted, StartFails,
           InputSends, InputAccepted, InputFails, CancelAwaited, CancelStops, CancelPoll,
           TurnStarts, QuietWakes, QuietReads, QuietReadFails, AskDecided
    <3> QED  BY <1>1, <3>1, <3>2
  <2> QED  BY <2>3, UnfreshTraced DEF NoInputs
<1>2. ASSUME NEW s \in Session, Harness(s)
      PROVE  \A u \in Task : input'[u].at = "idle"
  BY <1>2 DEF Harness, TurnFailed, TurnCompleted, TurnSettles, Ask, NoInputs
<1>3. ASSUME HarnessExit \/ BridgeRestart
      PROVE  \A u \in Task : input'[u].at = "idle"
  BY <1>3 DEF HarnessExit, BridgeRestart, DropCalls, NoInput
<1> QED  BY <1>1, <1>2, <1>3 DEF Next, NoInputs

\* A task reported cancelled has no prompt on the pipe, no turn of its own in the
\* harness and no tool call of one: for any number of tasks, slots and sessions,
\* under every fault and both interaction policies, as long as clients only start
\* and cancel tasks.  Of background jobs and pending permissions it says nothing,
\* as the read that verifies a cancel does not look at them.  With follow-ups the
\* claim is false: one puts a cancelled task back into "starting" while the
\* startNow it was cancelled under is still on its way, and that one sends its
\* prompt.
THEOREM CancelIsVerified ==
  ASSUME ClientOps \cap {"steer", "followUp"} = {}
  PROVE  Spec => []CancelledMeansStopped
<1>1. Init => StopInv
  <2> SUFFICES ASSUME Init PROVE StopInv
    OBVIOUS
  <2>1. \A u \in Task : SendKnown(u)
    BY DEF Init, SendKnown
  <2>2. \A s \in Session : TurnKnown(s)
    BY DEF Init, TurnKnown, LooksStopped, Rest
  <2> QED  BY <2>1, <2>2, QueueInit DEF StopInv, NoInputs, Init, NoInput
<1>2. StopInv /\ [Next]_vars => StopInv'
  <2> SUFFICES ASSUME StopInv, [Next]_vars PROVE StopInv'
    OBVIOUS
  <2>0. TypeOK /\ QueueInv /\ NoInputs /\ QueueInv'
    BY QueueStep DEF StopInv, QueueInv
  <2>1. CASE UNCHANGED vars
    BY <2>0, <2>1 DEF vars, StopInv, NoInputs, SendKnown, TurnKnown, LooksStopped, Works, Born
  <2>2. CASE Next
    <3>1. NoInputs'
      BY <2>0, <2>2, NoInputsStep
    <3>2. ASSUME NEW t \in Task, Client(t) \/ Coroutine(t)
          PROVE  /\ \A u \in Task : SendKnown(u)'
                 /\ \A s \in Session : TurnKnown(s)'
      <4>1. ~AddInput(t) /\ ~InputSends(t) /\ ~InputAccepted(t) /\ ~InputFails(t)
        BY <2>0 DEF AddInput, NoInputs, InputSends, InputAccepted, InputFails
      <4>2. Orderly
        BY <2>0, <3>2, QueueStartTask, QueueClient, QueueStart, QueueInput, QueueCancel, QueueTurn,
           QueueQuiet DEF Client, Coroutine
      <4>3. ASSUME NEW w \in Workspace, NEW ro \in BOOLEAN, NEW want \in Session \cup {NoSession},
                   StartTask(t, w, ro, want)
            PROVE  /\ \A u \in Task : SendKnown(u)'
                   /\ \A s \in Session : TurnKnown(s)'
        BY <4>2, <4>3, StopStartTask
      <4> QED  BY <3>2, <4>1, <4>2, <4>3, StopCalls, StopStart, StopCancel, StopTurn, StopQuiet
               DEF Client, Coroutine
    <3>3. ASSUME NEW s \in Session, Harness(s)
          PROVE  /\ \A u \in Task : SendKnown(u)'
                 /\ \A r \in Session : TurnKnown(r)'
      BY <2>0, <3>3, QueueHarness, StopHarness
    <3>4. /\ \A u \in Task : SendKnown(u)'
          /\ \A s \in Session : TurnKnown(s)'
      BY <2>2, <3>2, <3>3, StopLoss DEF Next
    <3> QED  BY <2>0, <3>1, <3>4 DEF StopInv
  <2> QED  BY <2>1, <2>2
<1>3. StopInv => CancelledMeansStopped
  <2> SUFFICES ASSUME StopInv, NEW t \in Task, state[t] = "cancelled"
               PROVE  /\ ~sending[t]
                      /\ \A s \in Session : turn[s].of = t => turn[s].phase \notin {"busy", "settling"}
    BY DEF CancelledMeansStopped
  <2>1. ~sending[t]
    BY DEF StopInv, SendKnown
  <2>2. ASSUME NEW s \in Session, turn[s].of = t
        PROVE  LooksStopped(s)
    BY <2>2 DEF StopInv, TurnKnown, Works
  <2> QED  BY <2>1, <2>2 DEF LooksStopped
<1> QED  BY <1>1, <1>2, <1>3, PTL DEF Spec
=============================================================================
