------------------------------- MODULE MCBridge --------------------------------
(***************************************************************************)
(* The side of the harness: the bridge's link to it, the tools that need   *)
(* several calls over the link, and what is checked before a harness's     *)
(* request goes to the proxy.  Each part is explored in behaviours where   *)
(* it alone moves.                                                         *)
(***************************************************************************)
EXTENDS Naturals, Sequences, TLC

CONSTANTS
  Call, Question, None, MaxConns, Client, Pref, MaxRev,
  Request, Ttl, StartLimit, ReadyLimit, Budget
VARIABLES part,
  conn, made, current, call, pending, task, ask, line, waiter, fatal, stopping,
  session, prefs, open, op, refused,
  proxy, hook, check, killIn, freshFor, tried, smoke, timeLeft, waitFor, sent, verdict, spent

ASSUME NoneAssumption  == None \notin Nat
ASSUME ConnsAssumption == MaxConns \in Nat

linkVars   == <<conn, made, current, call, pending, task, ask, line, waiter, fatal, stopping>>
toolVars   == <<session, prefs, open, op, refused>>
launchVars == <<proxy, hook, check, killIn, freshFor, tried, smoke, timeLeft, waitFor, sent, verdict, spent>>

Link   == INSTANCE HarnessLink
Tools  == INSTANCE SessionSettings
Launch == INSTANCE KitLaunch

\* The parts that do not move stay in one of their initial states.
Init ==
  /\ part \in {"link", "tools", "launch"} /\ Link!Init /\ Tools!Init
  /\ Launch!Init /\ (part # "launch" => proxy = "down")
Next ==
  \/ part = "link" /\ Link!Next /\ UNCHANGED <<part, toolVars, launchVars>>
  \/ part = "tools" /\ Tools!Next /\ UNCHANGED <<part, linkVars, launchVars>>
  \/ part = "launch" /\ Launch!Next /\ UNCHANGED <<part, linkVars, toolVars>>
\* No timer of the link runs in an initial state: without steps it is treated fairly.  Before
\* a request, time passes where it matters; elsewhere it may stand still.
Spec ==
  /\ Init /\ [][Next]_<<part, linkVars, toolVars, launchVars>> /\ Link!Fairness
  /\ WF_launchVars(part = "launch" /\ Launch!ProbeEnds) /\ WF_launchVars(part = "launch" /\ Launch!PreflightKilled)
  /\ WF_launchVars(part = "launch" /\ Launch!Tick)
  /\ WF_launchVars(part = "launch" /\ Launch!Due /\ (Launch!WaitEnds \/ Launch!RequestEnds))

EveryHarnessCallEnds == Link!EveryHarnessCallEnds
SuccessorUndisturbed == Link!SuccessorUndisturbed
EachHearsItsOwn      == Link!EachHearsItsOwn
BridgeSurvives       == Link!BridgeSurvives
NoForeignChange      == Tools!NoForeignChange
CatalogIsClosed      == Tools!CatalogIsClosed
RequestsProceed      == Launch!RequestsProceed
SmokeInBudget        == Launch!SmokeInBudget
=============================================================================
