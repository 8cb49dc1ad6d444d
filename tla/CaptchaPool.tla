------------------------------ MODULE CaptchaPool ------------------------------
(***************************************************************************)
(* The pool of solved tokens of proxy/captcha-pool.ts, with its defaults:  *)
(* one solve at a time, one racer per take, a floor of one token.          *)
(*                                                                         *)
(* A chain is a run of solveFresh: its attempts go through the solver's    *)
(* FIFO line one by one.  Each take has one, and so have the refill        *)
(* ("fill"), the warm-up ("warm") and the storm probe ("probe").           *)
(*                                                                         *)
(* What follows a solve without an await in between (Deliver) runs before *)
(* another take, tick or solve is looked at: Quiet.                        *)
(* Clocks are left out: a pause, a storm's back-off, the life of a token   *)
(* and the memory of an id end at any time.  An expired token goes where   *)
(* the code prunes, and counts until then.                                 *)
(***************************************************************************)
EXTENDS Naturals, Sequences, FiniteSets

CONSTANTS
  Take,        \* takeToken calls
  Id,          \* certifyIds the provider hands out
  None,
  PoolMax,     \* poolSizeMax
  SolveRetries

VARIABLES
  tokens,   \* banked ids, the oldest first, expired ones among them
  target,   \* effectiveTarget
  idle,     \* time since the last take: "active", "idle" or "deep"
  paused,   \* now < pausedUntil
  storm,    \* "none", "cooling" (before until), "due", "probing"
  chain,    \* [tries, left, got] of a running chain, None of the others
  line,     \* the solver's line; its head is being solved
  take,     \* "new", "racing", "grace", "served", "refused"
  issued,   \* CertifyIdRegistry
  uses,     \* history: takes that got the id since it was last forgotten
  armed     \* the refill timer runs

vars == <<tokens, target, idle, paused, storm, chain, line, take, issued, uses, armed>>
Chain == Take \cup {"fill", "warm", "probe"}

Greater(a, b) == IF a > b THEN a ELSE b
Members(s) == {s[i] : i \in 1..Len(s)}
Running(ch) == {c \in Chain : ch[c] # None}
Done  == Running(chain) \ Members(line)
Quiet == Done = {}

\* prefill: the warm-up mints the one token of the first target.
WarmUp == [tries |-> SolveRetries, left |-> 1, got |-> None]

Init ==
  /\ tokens = <<>> /\ target = 1 /\ idle = "active" /\ paused = FALSE /\ storm = "none"
  /\ chain = [c \in Chain |-> IF c = "warm" THEN WarmUp ELSE None]
  /\ line = <<"warm">> /\ take = [t \in Take |-> "new"] /\ issued = {} /\ uses = [i \in Id |-> 0]
  /\ armed = FALSE

\* currentFloor
Floor == IF idle = "deep" THEN 0 ELSE 1

\* Starting a chain, beside those of ch and l, puts its first attempt in line
\* (solveFresh).
Started(ch, l, c, left) ==
  /\ chain' = [ch EXCEPT ![c] = [tries |-> IF c = "probe" THEN 1 ELSE SolveRetries, left |-> left, got |-> None]]
  /\ line' = Append(l, c)

\* deficit
Deficit(s, n, ch) == LET has == Len(s) + Cardinality(Running(ch)) IN IF n > has THEN n - has ELSE 0

\* pruneExpired: the oldest expire first.
Pruned(s) == {SubSeq(s, n, Len(s)) : n \in 1..(Len(s) + 1)}

\* pushToken
Push(i) ==
  IF i = None THEN UNCHANGED tokens
  ELSE \E s \in Pruned(tokens) :
         tokens' = IF Len(s) >= target \/ i \in issued \cup Members(s) THEN s ELSE Append(s, i)

\* Recent traffic sizes the pool (computeActiveTarget), idle time shrinks it
\* down to the floor; only then it is pruned and trimmed, but for the last token
\* (maybeScaleDown).  r is left of s.
Resized(s, r) ==
  IF idle' = "active" THEN target' \in 1..PoolMax /\ r = s
  ELSE \/ UNCHANGED target /\ r = s
       \/ target > Floor /\ target' = Floor /\ Len(r) <= Greater(Floor, 1)

\* The CPU governor may leave a background refill out while a token is banked
\* (backgroundConcurrency).
Spared(urgent, n) == ~urgent /\ n >= 1

\* Idle decay: the background refill leaves a pool alone that holds n tokens,
\* expired or not.
Decayed(urgent, n) == ~urgent /\ idle' # "active" /\ n >= Greater(Floor, 1)

\* Mutant: a storm is not looked at, a fill is begun.
RefillMutant(urgent, s, ch) ==
  \E r \in Pruned(s) :
    /\ Resized(s, r) /\ tokens' = r /\ UNCHANGED storm
    /\ IF ~paused /\ ~Decayed(urgent, Len(r)) /\ ch["fill"] = None /\ Deficit(r, target', ch) > 0
       THEN Started(ch, line, "fill", Deficit(r, target', ch))
       ELSE chain' = ch /\ UNCHANGED line

\* refill, when s is banked and ch runs
Refill(urgent, s, ch) ==
  \E r \in Pruned(s) :
    /\ Resized(s, r)
    /\ \/ /\ paused \/ Decayed(urgent, Len(r)) \/ storm \in {"cooling", "probing"}
          /\ tokens' = r /\ chain' = ch /\ UNCHANGED <<line, storm>>
       \/ /\ ~paused /\ ~Decayed(urgent, Len(r)) /\ storm = "due"
          /\ tokens' = r /\ Started(ch, line, "probe", 1) /\ storm' = "probing"
       \/ /\ ~paused /\ ~Decayed(urgent, Len(r)) /\ storm = "none" /\ UNCHANGED storm
          /\ \/ /\ ch["fill"] # None \/ Spared(urgent, Len(r))
                /\ tokens' = r /\ chain' = ch /\ UNCHANGED line
             \/ /\ ch["fill"] = None /\ tokens' \in Pruned(r)
                /\ IF Deficit(tokens', target', ch) > 0 THEN Started(ch, line, "fill", Deficit(tokens', target', ch))
                   ELSE chain' = ch /\ UNCHANGED line

Tick ==
  /\ Quiet /\ armed /\ UNCHANGED <<idle, paused, take, issued, uses, armed>>
  /\ Refill(FALSE, tokens, chain)

\* popFresh: the newest banked id of s that was not handed out meanwhile
Fresh(s) == {n \in 1..Len(s) : s[n] \notin issued}
Hand(t, i) ==
  /\ take' = [take EXCEPT ![t] = "served"] /\ issued' = issued \cup {i}
  /\ uses' = [uses EXCEPT ![i] = @ + 1]
HandBanked(t, s) ==
  \E n \in Fresh(s) :
    (\A k \in Fresh(s) : k <= n) /\ Hand(t, s[n]) /\ Refill(TRUE, SubSeq(s, 1, n - 1), chain)

\* takeToken up to its first await
TakeArrives(t) ==
  /\ Quiet /\ take[t] = "new"
  /\ IF paused THEN /\ take' = [take EXCEPT ![t] = "refused"]
                    /\ UNCHANGED <<tokens, target, idle, storm, chain, line, issued, uses>>
     ELSE /\ idle' = "active"
          /\ \E s \in Pruned(tokens) :
             IF Fresh(s) # {} THEN HandBanked(t, s)
             ELSE /\ UNCHANGED <<issued, uses>>
                  /\ IF storm # "none"
                     THEN take' = [take EXCEPT ![t] = "refused"] /\ Refill(TRUE, <<>>, chain)
                     ELSE /\ take' = [take EXCEPT ![t] = "racing"] /\ Started(chain, line, t, 1)
                          /\ tokens' = <<>> /\ target' \in Greater(target, 1)..PoolMax /\ UNCHANGED storm
  /\ UNCHANGED <<paused, armed>>

\* The race of a take is lost: by a failed chain, or by its deadline.
Lose(t) == take' = [take EXCEPT ![t] = IF paused \/ storm # "none" THEN "refused" ELSE "grace"]

TakeDeadline(t) ==
  /\ take[t] = "racing" /\ t \notin Done /\ Lose(t)
  /\ UNCHANGED <<tokens, target, idle, paused, storm, chain, line, issued, uses, armed>>

\* A poll of the grace window finds a token, or its end comes.
GracePoll(t) ==
  /\ Quiet /\ take[t] = "grace" /\ UNCHANGED <<idle, paused, armed>>
  /\ \E s \in Pruned(tokens) :
       IF Fresh(s) # {} THEN HandBanked(t, s)
       ELSE tokens' = <<>> /\ UNCHANGED <<target, storm, chain, line, take, issued, uses>>
GraceEnds(t) ==
  /\ take[t] = "grace" /\ take' = [take EXCEPT ![t] = "refused"]
  /\ UNCHANGED <<tokens, target, idle, paused, storm, chain, line, issued, uses, armed>>

\* Mutant: the ids in the pool are not looked at.
DuplicateMutant(i) == FALSE
\* isDuplicateParam
Duplicate(i) == i \in issued \cup Members(tokens)

\* The beforeSolve of a job in line, when the one before it is over: nothing is
\* solved in a pause, and the probe alone in a storm.
Admitted(q, p, s) ==
  CASE p                      -> <<>>
    [] ~p /\ s = "none"       -> q
    [] OTHER                  -> IF "probe" \in Members(q) THEN <<"probe">> ELSE <<>>

\* What an attempt of solveFresh comes to: an id, an empty or failed solve, or
\* the provider's rate limit.  A failure may be the one that begins a storm.
SolveEnds(out) ==
  /\ Quiet /\ line # <<>>
  /\ LET c    == Head(line)
         ok   == out \in Id /\ ~Duplicate(out)
         rest == chain[c].tries - 1
     IN  /\ paused' = (paused \/ out = "rate")
         /\ IF ok \/ out = "rate" \/ storm # "none" THEN UNCHANGED storm ELSE storm' \in {"none", "cooling"}
         /\ LET again == ~ok /\ out # "rate" /\ rest > 0 /\ ~paused' /\ (storm' = "none" \/ c = "probe")
            IN  /\ chain' = [chain EXCEPT ![c].tries = rest, ![c].got = IF ok THEN out ELSE None]
                /\ line' = Admitted(IF again THEN Append(Tail(line), c) ELSE Tail(line), paused', storm')
  /\ UNCHANGED <<tokens, target, idle, take, issued, uses, armed>>

\* startCaptchaPool arms the refill timer after the warm-up, also a failed one.
Arms(c) == c = "warm"

\* A chain is over: takeToken, solveBatch or probeStorm goes on with its result.
Deliver(c) ==
  /\ c \in Done /\ UNCHANGED <<idle, paused>>
  /\ LET got  == chain[c].got
         rest == [chain EXCEPT ![c] = None]
     IN  \/ /\ c \in Take /\ take[c] = "racing" /\ got # None /\ UNCHANGED armed
            /\ Hand(c, got) /\ Refill(TRUE, tokens, rest)
         \/ /\ c \in Take /\ (take[c] # "racing" \/ got = None) /\ chain' = rest
            /\ IF take[c] = "racing" THEN Lose(c) ELSE UNCHANGED take
            /\ UNCHANGED <<tokens, target, storm, line, issued, uses, armed>>
         \/ /\ c \in {"fill", "warm"} /\ Push(got)
            /\ IF got # None /\ chain[c].left > 1 /\ storm = "none" /\ ~paused /\ Deficit(tokens', target, rest) > 0
               THEN Started(rest, line, c, chain[c].left - 1) /\ UNCHANGED armed
               ELSE chain' = rest /\ armed' = (armed \/ Arms(c)) /\ UNCHANGED line
            /\ UNCHANGED <<target, storm, take, issued, uses>>
         \/ /\ c = "probe" /\ chain' = rest /\ Push(got)
            /\ storm' = IF got = None THEN "cooling" ELSE "none"
            /\ UNCHANGED <<target, line, take, issued, uses, armed>>

\* Time passes.
PauseEnds == /\ paused /\ paused' = FALSE
             /\ UNCHANGED <<tokens, target, idle, storm, chain, line, take, issued, uses, armed>>
StormCools == /\ storm = "cooling" /\ storm' = "due"
              /\ UNCHANGED <<tokens, target, idle, paused, chain, line, take, issued, uses, armed>>
IdleGrows == /\ idle # "deep" /\ idle' = IF idle = "active" THEN "idle" ELSE "deep"
             /\ UNCHANGED <<tokens, target, paused, storm, chain, line, take, issued, uses, armed>>
\* Somebody asks /health: stats prunes.
Looks == /\ tokens' \in Pruned(tokens)
         /\ UNCHANGED <<target, idle, paused, storm, chain, line, take, issued, uses, armed>>
Forgets(i) == /\ i \in issued /\ issued' = issued \ {i} /\ uses' = [uses EXCEPT ![i] = 0]
              /\ UNCHANGED <<tokens, target, idle, paused, storm, chain, line, take, armed>>

\* classifyCaptchaError: what an attempt comes to
Outcomes == Id \cup {"failed", "rate"}
Next ==
  \/ Tick
  \/ \E t \in Take : TakeArrives(t) \/ TakeDeadline(t) \/ GracePoll(t) \/ GraceEnds(t)
  \/ \E out \in Outcomes : SolveEnds(out)
  \/ \E c \in Chain : Deliver(c)
  \/ PauseEnds \/ StormCools \/ IdleGrows \/ Looks \/ \E i \in Id : Forgets(i)

\* Timers fire: the refill's, a tick of which may find the pool busy, as often
\* as it takes.
Fairness ==
  /\ WF_vars(\E c \in Chain : Deliver(c)) /\ SF_vars(Tick)
  /\ WF_vars(PauseEnds) /\ WF_vars(StormCools)

Spec == Init /\ [][Next]_vars /\ Fairness
-----------------------------------------------------------------------------
TypeOK ==
  /\ tokens \in Seq(Id) /\ target \in 0..PoolMax /\ idle \in {"active", "idle", "deep"}
  /\ storm \in {"none", "cooling", "due", "probing"} /\ line \in Seq(Chain)
  /\ \A c \in Running(chain) : chain[c] \in [tries : 0..SolveRetries, left : 1..PoolMax, got : Id \cup {None}]
  /\ take \in [Take -> {"new", "racing", "grace", "served", "refused"}] /\ issued \subseteq Id

\* An id is handed to one take (a second use is refused by the provider, F008),
\* as long as the registry remembers it.
IssuedOnce == \A i \in Id : uses[i] <= 1

\* While the provider's pause lasts nothing is in the solver's line, and during
\* a mint storm the probe alone is: also what was queued before they began is
\* not let in.
MintsHeldBack ==
  /\ paused => line = <<>>
  /\ storm # "none" => Members(line) \subseteq {"probe"}

\* A storm is not for ever: it is probed again, whatever the pauses and the takes
\* (probeStorm, from the refill tick).  Only a proxy that nobody uses may leave it: the
\* tick of an idle one goes no further while a token is banked, also an expired one that
\* neither a take nor a look at /health has pruned.
StormIsProbed ==
  storm # "none" ~> storm \in {"none", "probing"} \/ [](idle # "active" /\ tokens # <<>>)
=============================================================================
