---------------------------------- MODULE MCKit ----------------------------------
(***************************************************************************)
(* The kit's commands besides their file transactions - the state          *)
(* directory, consent, the update - and the managers they start the proxy  *)
(* with, beside the proxy's own watch over itself.  Each part is explored  *)
(* in behaviours where it alone moves.                                     *)
(***************************************************************************)
EXTENDS Naturals, Sequences, FiniteSets, TLC

CONSTANTS
  Setup, Missing, Rest, Harness, Detected, Bridged, External, Proving, Damaged, Varied, Unset, MaxTx, MaxOutside,
  OldFiles, NewFiles, Manifest, Preserved, MaxRuns, MaxDeaths,
  Pid, None, Manager, Foreign, Probes, Limit, MaxStarts, MaxCommands, MaxCrashes,
  Stall, Gap, HardSamples, MaxTime, MaxSleep, MaxSamples
VARIABLES part,
  legacy, legacyBusy, dir, members, staging, moveLock, setupLock, key, config, pc, runs, deaths, told,
  present, entry, bridge, choice, log, cmd, removed, outside, said, loose,
  kind, pinned, tree, running, at, archive, locked, code, updates, losses,
  proc, port, pidFile, lock, budget, mgr, starts, commands, crashes, accepted, stranger,
  now, sleeps, blocked, beat, seen, fired, guard, samples, phase, silent, over

ASSUME MembersAssumption   == {"key", "config"} \cap Rest = {}
ASSUME MissingAssumption   == Missing \notin Setup
ASSUME PreservedAssumption == Preserved \cap (OldFiles \cup NewFiles) = {}
ASSUME NoneAssumption      == None \notin Manager \cup Nat \cup [pid : Pid, start : Nat \cup {None}]
ASSUME ClockAssumption     == {Stall, Gap, HardSamples} \subseteq Nat
ASSUME LimitAssumption     == Limit \in Nat
\* No setup that runs is Unset.
ASSUME UnsetAssumption ==
  Unset \notin [is : {"setup"}, explicit : SUBSET Harness \cup {Unset}, tty : BOOLEAN, declined : BOOLEAN, built : BOOLEAN,
               reask : BOOLEAN, todo : SUBSET Harness, register : SUBSET Harness,
               before : [entry : [Harness -> {"none", "kit", "changed"}],
                         choice : [Harness -> {"none", "configured", "bridged", "skipped",
                                               "configured?", "bridged?", "skipped?"}],
                         said : [Harness -> {"no", "entry", "bridge", "unheeded"}]]]

stateVars   == <<legacy, legacyBusy, dir, members, staging, moveLock, setupLock, key, config,
                 pc, runs, deaths, told>>
consentVars == <<present, entry, bridge, choice, log, cmd, removed, outside, said, loose>>
updateVars  == <<kind, pinned, tree, running, at, archive, locked, code, updates, losses>>
managerVars == <<proc, port, pidFile, lock, budget, mgr, starts, commands, crashes, accepted, stranger>>
vitalVars   == <<now, sleeps, blocked, beat, seen, fired, guard, samples, phase, silent, over>>

State   == INSTANCE KitState
Consent == INSTANCE KitConsent
Update  == INSTANCE KitUpdate WITH proxy <- running, pc <- at, runs <- updates, deaths <- losses
Proxy   == INSTANCE ProxyManager
Vitals  == INSTANCE ProxyVitals

\* The parts that do not move stay in one of their initial states.
Init ==
  /\ part \in {"state", "consent", "update", "manager", "vitals"}
  /\ State!Init /\ (part # "state" => legacy = {} /\ ~legacyBusy)
  /\ Consent!Init
  /\ Update!Init /\ (part # "update" => kind = "npm" /\ pinned /\ ~locked /\ running = "down")
  /\ Proxy!Init /\ Vitals!Init
Next ==
  \/ part = "state" /\ State!Next /\ UNCHANGED <<part, consentVars, updateVars, managerVars, vitalVars>>
  \/ part = "consent" /\ Consent!Next /\ UNCHANGED <<part, stateVars, updateVars, managerVars, vitalVars>>
  \/ part = "update" /\ Update!Next /\ UNCHANGED <<part, stateVars, consentVars, managerVars, vitalVars>>
  \/ part = "manager" /\ Proxy!Next /\ UNCHANGED <<part, stateVars, consentVars, updateVars, vitalVars>>
  \/ part = "vitals" /\ Vitals!Next /\ UNCHANGED <<part, stateVars, consentVars, updateVars, managerVars>>
Spec == Init /\ [][Next]_<<part, stateVars, consentVars, updateVars, managerVars, vitalVars>>

Symmetric == Permutations(Pid) \cup Permutations(Manager)

StateIsWhole      == State!StateIsWhole
AdviceWorks       == State!AdviceWorks
NothingUnasked    == Consent!NothingUnasked
UninstalledIsGone == Consent!UninstalledIsGone
UpdatedIsWhole    == Update!UpdatedIsWhole
NothingToDoIsTrue == Update!NothingToDoIsTrue
UpdatedCodeRuns   == Update!UpdatedCodeRuns
KillsOnlyOwn      == Proxy!KillsOnlyOwn
OneProxy          == Proxy!OneProxy
RespawnBudget     == Proxy!RespawnBudget
GivesUpForCause   == Vitals!GivesUpForCause
=============================================================================
