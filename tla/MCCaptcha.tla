------------------------------- MODULE MCCaptcha -------------------------------
(***************************************************************************)
(* Captcha tokens: the dispatcher of the solver and the token pool, each   *)
(* explored in behaviours where it alone moves.                            *)
(***************************************************************************)
EXTENDS Integers, Sequences, FiniteSets

CONSTANTS Job, None, FailuresAllowed, SolvesAllowed, MaxRequests, Take, Id, PoolMax, SolveRetries
VARIABLES part,
  queue, inFlight, alive, solves, failures, pending, closing, idleTimer, submitted, settled, requests,
  tokens, target, idle, paused, storm, chain, line, take, issued, uses, armed

ASSUME NoneAssumption  == None \notin Job \cup Id \cup [tries : Int, left : Int, got : Id \cup {None}]
ASSUME TakeAssumption  == IsFiniteSet(Take) /\ Take \cap {"fill", "warm", "probe"} = {}
ASSUME RetriesAssumption == SolveRetries \in Nat

solverVars == <<queue, inFlight, alive, solves, failures, pending, closing, idleTimer, submitted, settled, requests>>
poolVars   == <<tokens, target, idle, paused, storm, chain, line, take, issued, uses, armed>>

Solver == INSTANCE CaptchaSolver
Pool   == INSTANCE CaptchaPool

Init == part \in {"solver", "pool"} /\ Solver!Init /\ Pool!Init
SolverNext == part = "solver" /\ Solver!Next /\ UNCHANGED <<part, poolVars>>
PoolNext   == part = "pool" /\ Pool!Next /\ UNCHANGED <<part, solverVars>>
Next == SolverNext \/ PoolNext
Spec == Init /\ [][Next]_<<part, solverVars, poolVars>> /\ Solver!Fairness /\ Pool!Fairness

IssuedOnce       == Pool!IssuedOnce
MintsHeldBack    == Pool!MintsHeldBack
StormIsProbed    == Pool!StormIsProbed
SolvesOneAtATime == Solver!SolvesOneAtATime
EveryCallEnds    == Solver!EveryCallEnds
=============================================================================
