--------------------------------- MODULE Claims ---------------------------------
(***************************************************************************)
(* Auto-claim: a timer polls the campaign plans on offer and claims the    *)
(* first that is not held back: a Builder Event plan before the others and *)
(* a higher priority before a lower, or the configured plan and no other.  *)
(* After each answer the plan is held back for a while and the poll goes   *)
(* on; when anything else fails all of it pauses.  Time is counted down in *)
(* steps; hold-backs count from the start of the cycle, whose calls may    *)
(* take time themselves.                                                   *)
(***************************************************************************)
EXTENDS Naturals

CONSTANTS
  Plan,      \* campaign plans; a greater number goes first
  Poll,      \* claim.pollIntervalMs
  Cooldown,  \* claim.cooldownMs
  Windows,   \* how long until a plan ends, or a quota's next window opens
  MaxCall    \* bound: time the calls of one cycle take

VARIABLES
  stage,     \* the cycle: "idle", "jwt", "preview", "captcha", "claim"
  stopped,   \* ClaimScheduler.stopped
  timer,     \* time until the timer fires; Off when none is set
  hold,      \* what is left of holdUntil
  holds,     \* plan -> what is left of its planHolds entry
  age,       \* time since the cycle began
  ready,     \* plans not held back when the cycle began
  target,    \* the plan being claimed, 0 for none
  offered,   \* plans the preview shows
  taken,     \* plans the service has granted
  eligible,  \* the plans the configuration allows: all, or claim.planId alone
  waited     \* history: plan -> how long it has been the first in line, since it was last answered
             \* and since the last cycle that failed

vars == <<stage, stopped, timer, hold, holds, age, ready, target, offered, taken, eligible, waited>>

Off == Poll + Cooldown + 1

Init ==
  /\ stage = "idle" /\ stopped = FALSE /\ timer = 0 /\ hold = 0
  /\ holds = [p \in Plan |-> 0] /\ age = 0 /\ ready = {} /\ target = 0
  /\ offered \in SUBSET Plan /\ taken = {} /\ waited = [p \in Plan |-> 0]
  \* planId may name no plan there is.
  /\ eligible \in {Plan, {}} \cup {{p} : p \in Plan}

Left(n) == IF n > age THEN n - age ELSE 0
\* In line: on offer, allowed and not held back.  The greatest is the first.
InLine(p) == p \in offered \cap eligible /\ holds[p] = 0
First(p) == InLine(p) /\ \A q \in Plan : InLine(q) => q <= p
\* Of the waits w, that of the plan which is now the first goes on.
WaitsFrom(w) == waited' = [p \in Plan |-> IF First(p)' THEN w[p] ELSE 0]

\* nextDelay, scheduleNext: the next cycle when the pause h ends; none once stopped.
Scheduled(h, off) == IF off THEN Off ELSE IF h > 0 THEN h ELSE Poll
EndsCycle(h, off) ==
  /\ stage' = "idle" /\ hold' = h /\ stopped' = off /\ timer' = Scheduled(h, off)
  /\ age' = 0 /\ ready' = {} /\ target' = 0

\* tick: nothing while the pause lasts.
Fires ==
  /\ stage = "idle" /\ timer = 0
  /\ IF hold > 0 THEN timer' = hold /\ UNCHANGED <<stage, ready>>
                 ELSE stage' = "jwt" /\ timer' = Off /\ ready' = {p \in Plan : holds[p] = 0}
  /\ UNCHANGED <<stopped, hold, holds, age, target, offered, taken, eligible, waited>>
\* errorBackoff: no login yet, the preview fails, no captcha token, the claim has no answer - it
\* may have been granted all the same.
Backoff ==
  /\ stage # "idle" /\ EndsCycle(Cooldown, stopped)
  /\ taken' \in IF stage = "claim" THEN {taken, taken \cup {target}} ELSE {taken}
  /\ waited' = [p \in Plan |-> 0] /\ UNCHANGED <<holds, offered, eligible>>
\* resolveClaimJwt
LoggedIn ==
  /\ stage = "jwt" /\ stage' = "preview"
  /\ UNCHANGED <<stopped, timer, hold, holds, age, ready, target, offered, taken, eligible, waited>>

\* pickPlan
Available == offered \cap ready \cap eligible
Picked == CHOOSE p \in Available : \A q \in Available : q <= p
\* Not deployed, nothing on offer, everything held back, or not the configured plan: poll on.
NothingToDo ==
  /\ stage = "preview" /\ Available = {} /\ EndsCycle(Left(Poll), stopped)
  /\ UNCHANGED <<holds, offered, taken, eligible, waited>>
PicksPlan ==
  /\ stage = "preview" /\ Available # {}
  /\ target' = Picked /\ stage' = "captcha"
  /\ UNCHANGED <<stopped, timer, hold, holds, age, ready, offered, taken, eligible, waited>>
HasToken ==
  /\ stage = "captcha" /\ stage' = "claim"
  /\ UNCHANGED <<stopped, timer, hold, holds, age, ready, target, offered, taken, eligible, waited>>

\* Mutant: the poll pauses for as long as the plan is held back.
PauseMutant(n) == Left(n)
\* An answer holds the plan back, and no other: the poll goes on.
Pause(n) == Left(Poll)
HeldFor(n) == [holds EXCEPT ![target] = Left(n)]
Answered(n, off) ==
  /\ stage = "claim" /\ holds' = HeldFor(n) /\ EndsCycle(Pause(n), off)
  /\ UNCHANGED <<offered, eligible>> /\ WaitsFrom([waited EXCEPT ![target] = 0])
\* Granted: until the plan ends, or to the next poll when it says no end.
Granted ==
  /\ target \notin taken /\ taken' = taken \cup {target}
  /\ \E n \in Windows \cup {Poll} : Answered(n, stopped)
\* holdForFailure: had already, or none left today, until the window the answer names.
Exhausted == \E n \in Windows \cup {Cooldown} : Answered(n, stopped) /\ UNCHANGED taken
\* Not eligible, not available, not found, captcha, network, unknown.
Refused == target \notin taken /\ Answered(Cooldown, stopped) /\ UNCHANGED taken
\* The login is no longer good: no more claims.
LoginRequired == Answered(Cooldown, TRUE) /\ UNCHANGED taken

\* stop(): a cycle under way still goes to its end.
Stops ==
  /\ ~stopped /\ stopped' = TRUE /\ timer' = Off
  /\ UNCHANGED <<stage, hold, holds, age, ready, target, offered, taken, eligible, waited>>
\* The offer changes.
Publishes(p) ==
  /\ p \notin offered /\ offered' = offered \cup {p}
  /\ UNCHANGED <<stopped, timer, hold, holds, age, ready, target, taken, stage, eligible>> /\ WaitsFrom(waited)
Withdraws(p) ==
  /\ p \in offered /\ offered' = offered \ {p}
  /\ UNCHANGED <<stopped, timer, hold, holds, age, ready, target, taken, stage, eligible>> /\ WaitsFrom(waited)

Less(n) == IF n = 0 \/ n = Off THEN n ELSE n - 1
\* Time passes; a timer that is due fires first, and calls have time limits.
Time ==
  /\ timer # 0 /\ (stage # "idle" => age < MaxCall)
  /\ timer' = Less(timer) /\ hold' = (IF hold = 0 THEN 0 ELSE hold - 1)
  /\ holds' = [p \in Plan |-> IF holds[p] = 0 THEN 0 ELSE holds[p] - 1]
  /\ age' = IF stage = "idle" THEN 0 ELSE age + 1
  /\ UNCHANGED <<stage, stopped, ready, target, offered, taken, eligible>>
  /\ WaitsFrom([p \in Plan |-> IF stopped \/ ~First(p) THEN 0 ELSE waited[p] + 1])

Next ==
  \/ Fires \/ Backoff \/ LoggedIn \/ NothingToDo \/ PicksPlan \/ HasToken
  \/ Granted \/ Exhausted \/ Refused \/ LoginRequired \/ Stops \/ Time
  \/ \E p \in Plan : Publishes(p) \/ Withdraws(p)

Spec == Init /\ [][Next]_vars

\* While the scheduler runs, the plan that is first in line is claimed within a poll, or the pause
\* after a cycle that failed, and the calls of one cycle: what an answer says of another plan does
\* not keep it waiting ("A held plan must not stop us from noticing a newly published campaign",
\* tick).  One that is not first, or not the configured one, may wait for ever: the code promises
\* it nothing.
ReadyPlanIsClaimed ==
  \A p \in Plan : waited[p] <= (IF Poll > Cooldown THEN Poll ELSE Cooldown) + MaxCall
=============================================================================
