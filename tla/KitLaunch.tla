-------------------------------- MODULE KitLaunch --------------------------------
(***************************************************************************)
(* Before a program's first model request (proxy/zcode-proxy-autostart.ts, *)
(* startupPreflight and setupSmoke of cli/heal.mjs, cli/launch.mjs).  The  *)
(* extension in the host asks, at most once a minute, whether the proxy    *)
(* answers, and runs the preflight in a process of its own when it does    *)
(* not; every request of the host waits for the check that is under way.   *)
(* Setup ends with a smoke test: safe start, then one real request, with   *)
(* one more when it failed for a passing reason, all on one deadline.      *)
(*                                                                         *)
(* Timers count down; one that is due fires before time goes on.           *)
(* What the manager's start does is modelled in ProxyManager: here it ends *)
(* with the proxy healthy, foreign or not there.                           *)
(***************************************************************************)
EXTENDS Naturals, FiniteSets

CONSTANTS
  Request,     \* model requests of the host
  Ttl,         \* time a check counts (HEALTH_TTL_MS)
  StartLimit,  \* the preflight process is killed after it (START_TIMEOUT_MS)
  ReadyLimit,  \* longest wait for a captcha token (readyMs)
  Budget       \* the time the smoke test has (timeoutMs)

VARIABLES
  proxy,      \* "down", "hung", "healthy", "foreign"
  hook,       \* of each request: "idle", "waiting", "sent"
  check,      \* "none", "probe", "preflight"
  killIn,     \* time the preflight process has left
  freshFor,   \* time the last check still counts
  tried,
  smoke,      \* "off", "preflight", "wait", "request", "over"
  timeLeft, waitFor,
  sent,       \* smoke requests
  verdict,    \* of the smoke test: "none", "passed", "failed", "refused"
  spent       \* history: time since the smoke test's clock started

hostVars  == <<hook, check, killIn, freshFor, tried>>
smokeVars == <<smoke, timeLeft, waitFor, sent, verdict, spent>>
vars == <<proxy, hostVars, smokeVars>>

Init ==
  /\ proxy \in {"down", "hung", "healthy", "foreign"}
  /\ hook = [r \in Request |-> "idle"] /\ check = "none" /\ killIn = 0 /\ freshFor = 0
  /\ tried = FALSE
  /\ smoke = "off" /\ timeLeft = 0 /\ waitFor = 0 /\ sent = 0 /\ verdict = "none" /\ spent = 0

Earlier(a, b) == IF a < b THEN a ELSE b
Waiting == {r \in Request : hook[r] = "waiting"}

(***************************************************************************)
(* The extension.                                                          *)
(***************************************************************************)

\* before_provider_request, for the kit's provider: joins a check under way, goes
\* on within the time of the last one, or begins one.
Hooked(r) ==
  /\ hook[r] = "idle"
  /\ IF check = "none" /\ freshFor > 0
       THEN hook' = [hook EXCEPT ![r] = "sent"] /\ UNCHANGED <<check, killIn, tried>>
       ELSE /\ hook' = [hook EXCEPT ![r] = "waiting"]
            /\ check' = (IF check # "none" THEN check ELSE IF tried THEN "probe" ELSE "preflight")
            /\ killIn' = (IF check = "none" /\ ~tried THEN StartLimit ELSE killIn)
            /\ tried' = TRUE
  /\ UNCHANGED <<proxy, freshFor, smokeVars>>

\* finally: whatever came of it, those who waited go on and the next check waits.
CheckEnds ==
  /\ check' = "none" /\ killIn' = 0 /\ freshFor' = Ttl
  /\ hook' = [r \in Request |-> IF r \in Waiting THEN "sent" ELSE hook[r]]

\* /health with the local key, 800 ms.
ProbeEnds ==
  /\ check = "probe"
  /\ IF proxy = "healthy" THEN CheckEnds
     ELSE check' = "preflight" /\ killIn' = StartLimit /\ UNCHANGED <<hook, freshFor>>
  /\ UNCHANGED <<proxy, tried, smokeVars>>

\* The preflight process: missing files or runtime, a safe start that succeeds or
\* is refused, too much output.
StartOutcome ==
  \/ proxy \in {"down", "hung"} /\ proxy' = "healthy"
  \/ proxy' = proxy
PreflightEnds ==
  /\ check = "preflight" /\ StartOutcome /\ CheckEnds
  /\ UNCHANGED <<tried, smokeVars>>
OverdueMutant == FALSE
Overdue == killIn = 0
PreflightKilled ==
  /\ check = "preflight" /\ Overdue /\ CheckEnds
  /\ UNCHANGED <<proxy, tried, smokeVars>>

\* A later request of the same host.
NextRequest(r) ==
  /\ hook[r] = "sent" /\ hook' = [hook EXCEPT ![r] = "idle"]
  /\ UNCHANGED <<proxy, check, killIn, freshFor, tried, smokeVars>>

(***************************************************************************)
(* The smoke test.                                                         *)
(***************************************************************************)

SmokeBegins ==
  /\ smoke = "off" /\ smoke' = "preflight"
  /\ UNCHANGED <<proxy, hostVars, timeLeft, waitFor, sent, verdict, spent>>

\* The deadline starts when the safe start is over; its quota check never fails it.
SmokeStarted ==
  /\ smoke = "preflight" /\ StartOutcome
  /\ IF proxy' = "healthy"
       THEN /\ smoke' = "wait" /\ timeLeft' = Budget
            /\ waitFor' = Earlier(ReadyLimit, Budget) /\ UNCHANGED verdict
       ELSE smoke' = "over" /\ verdict' = "refused" /\ UNCHANGED <<timeLeft, waitFor>>
  /\ UNCHANGED <<hostVars, sent, spent>>

\* A token is there, the proxy does not say or cannot be reached, or time is up;
\* without time left the request is not sent.
Remaining == timeLeft > 0
WaitEnds ==
  /\ smoke = "wait"
  /\ IF Remaining THEN smoke' = "request" /\ sent' = sent + 1 /\ UNCHANGED verdict
                  ELSE smoke' = "over" /\ verdict' = "failed" /\ UNCHANGED sent
  /\ UNCHANGED <<proxy, hostVars, timeLeft, waitFor, spent>>

\* A second try for a 400, a server error or a timeout, not for a quota or
\* authentication answer, a rate limit or a wrong answer; the clock runs on.
RetriesOnce == sent = 1
RetryTime == timeLeft
RequestEnds ==
  /\ smoke = "request"
  /\ \/ /\ Remaining /\ smoke' = "over" /\ verdict' \in {"passed", "failed"}
        /\ UNCHANGED <<timeLeft, waitFor>>
     \/ /\ Remaining /\ RetriesOnce
        /\ smoke' = "wait" /\ timeLeft' = RetryTime /\ waitFor' = Earlier(ReadyLimit, RetryTime)
        /\ UNCHANGED verdict
     \/ ~Remaining /\ smoke' = "over" /\ verdict' = "failed" /\ UNCHANGED <<timeLeft, waitFor>>
  /\ UNCHANGED <<proxy, hostVars, sent, spent>>

(***************************************************************************)
(* Time, and the proxy on its own.                                         *)
(***************************************************************************)
Due ==
  \/ check = "preflight" /\ Overdue
  \/ smoke = "wait" /\ waitFor = 0
  \/ smoke = "request" /\ ~Remaining
Clocked == smoke \in {"wait", "request"}
Less(t) == IF t > 0 THEN t - 1 ELSE 0
Tick ==
  /\ ~Due
  /\ killIn' = Less(killIn) /\ freshFor' = Less(freshFor)
  /\ IF Clocked THEN timeLeft' = Less(timeLeft) /\ waitFor' = Less(waitFor) /\ spent' = spent + 1
                ELSE UNCHANGED <<timeLeft, waitFor, spent>>
  /\ UNCHANGED <<proxy, hook, check, tried, smoke, sent, verdict>>
ProxyFails ==
  /\ proxy = "healthy" /\ proxy' \in {"down", "hung"}
  /\ UNCHANGED <<hostVars, smokeVars>>

Next ==
  \/ \E r \in Request : Hooked(r) \/ NextRequest(r)
  \/ ProbeEnds \/ PreflightEnds \/ PreflightKilled
  \/ SmokeBegins \/ SmokeStarted \/ WaitEnds \/ RequestEnds
  \/ Tick \/ ProxyFails

\* The probe has a time limit, the process is killed after its own and the smoke
\* test's waits end on theirs; nobody promises that the preflight ends by itself.
Fairness ==
  /\ WF_vars(ProbeEnds) /\ WF_vars(PreflightKilled) /\ WF_vars(Tick)
  /\ WF_vars(Due /\ (WaitEnds \/ RequestEnds))

Spec == Init /\ [][Next]_vars /\ Fairness

(***************************************************************************)
(* Correctness.                                                            *)
(***************************************************************************)

\* The extension never holds up the host: every model request goes out, whether
\* the proxy is down, hung or somebody else's and whatever the preflight does.
RequestsProceed ==
  \A r \in Request : hook[r] = "waiting" ~> hook[r] = "sent"

\* The smoke test keeps to its one deadline, both waits and both requests
\* included, and never sends a third request.
SmokeInBudget == spent <= Budget /\ sent <= 2
=============================================================================
