-------------------------------- MODULE KitState --------------------------------
(***************************************************************************)
(* The kit's state directory (lib/state.mjs, and bootstrap of              *)
(* cli/context.mjs).  An npm installation keeps its key, config, backups,  *)
(* artifacts and logs outside the package, in a directory that carries an  *)
(* .owner.json.  The first command that changes something moves what an    *)
(* older version kept inside the package: a copy in a staging directory    *)
(* under a lock file, made the state directory by one rename.  Then the    *)
(* runtime files are completed under the setup lock.                       *)
(*                                                                         *)
(* Commands run in processes of their own and may die at any step.  The    *)
(* proxy's manager takes no part in the move: it creates the log directory *)
(* inside the state directory when it has something to log.                *)
(* Not modelled: a layout where state and package are one directory (then  *)
(* ensureState returns at once), another installation's .owner.json.       *)
(***************************************************************************)
EXTENDS Naturals, FiniteSets

CONSTANTS
  Setup,       \* processes that run setup, integrate, update, rollback, ...
  Missing,     \* no such file, no holder of a lock
  Rest,        \* the members besides the key and the config
  MaxRuns,     \* bound: commands run after the first one of each process
  MaxDeaths    \* bound: processes that die

Member == {"key", "config"} \cup Rest
\* The move is between taking its lock and releasing it.
Moving  == {"relook", "copy", "moved", "refused"}
Working == {"makeKey", "writeKey", "makeConfig"}

VARIABLES
  legacy,      \* what the package holds: members
  legacyBusy,  \* its proxy still runs, or one of its lock files is there
  dir,         \* the state directory: "absent", "stray" (no owner file), "owned"
  members,     \* what was moved into it
  staging,     \* what each process copied so far, or Missing
  moveLock, setupLock,
  key, config, \* the key in the key file and the one in the config
  pc,
  runs, deaths,
  told         \* history: the manager told the user to run setup first

vars == <<legacy, legacyBusy, dir, members, staging, moveLock, setupLock, key, config,
          pc, runs, deaths, told>>

Init ==
  /\ legacy \in {{}, Rest, {"key"} \cup Rest, Member}
  /\ legacyBusy \in BOOLEAN /\ dir = "absent" /\ members = {}
  /\ staging = [p \in Setup |-> Missing]
  /\ moveLock = Missing /\ setupLock = Missing
  /\ key = Missing /\ config = Missing
  /\ pc = [p \in Setup |-> "start"]
  /\ runs = 0 /\ deaths = 0 /\ told = FALSE

Goto(p, where) == pc' = [pc EXCEPT ![p] = where]
files  == <<key, config>>
place  == <<dir, members>>
locks  == <<moveLock, setupLock>>
legacyVars == <<legacy, legacyBusy>>
history == <<runs, deaths, told>>

\* The outcome of finding the state directory.
Found == CASE dir = "owned" -> "state" [] dir = "stray" -> "failed" [] OTHER -> "lock"

Look(p) ==
  /\ pc[p] = "start" /\ Goto(p, Found)
  /\ UNCHANGED <<legacyVars, place, staging, locks, files, history>>

TakeLock(p) ==
  /\ pc[p] = "lock"
  /\ IF moveLock = Missing THEN moveLock' = p /\ Goto(p, "relook")
                           ELSE moveLock' = moveLock /\ Goto(p, "failed")
  /\ UNCHANGED <<legacyVars, place, staging, setupLock, files, history>>

\* Another process may have finished the move since the first look.
Relook(p) ==
  /\ pc[p] = "relook"
  /\ \/ dir # "absent" /\ Goto(p, IF dir = "owned" THEN "moved" ELSE "refused") /\ UNCHANGED staging
     \/ dir = "absent" /\ legacyBusy /\ Goto(p, "refused") /\ UNCHANGED staging
     \/ dir = "absent" /\ ~legacyBusy /\ Goto(p, "copy")
        /\ staging' = [staging EXCEPT ![p] = {}]
  /\ UNCHANGED <<legacyVars, place, locks, files, history>>

CopyMember(p) ==
  /\ pc[p] = "copy"
  /\ \E m \in legacy \ staging[p] : staging' = [staging EXCEPT ![p] = @ \cup {m}]
  /\ UNCHANGED <<legacyVars, place, locks, files, pc, history>>

\* A symbolic link among the members, or the copy itself, ends the move.
CopyFails(p) ==
  /\ pc[p] = "copy" /\ Goto(p, "refused")
  /\ UNCHANGED <<legacyVars, place, staging, locks, files, history>>

CopiedAllMutant(p) == TRUE
CopiedAll(p) == legacy \subseteq staging[p]

\* One rename, refused when the directory came into being meanwhile.
Publish(p) ==
  /\ pc[p] = "copy" /\ CopiedAll(p)
  /\ IF dir = "absent"
       THEN /\ dir' = "owned" /\ members' = staging[p]
            /\ key'    = (IF "key" \in staging[p] THEN "legacy" ELSE Missing)
            /\ config' = (IF "config" \in staging[p] THEN "legacy" ELSE Missing)
            /\ Goto(p, "moved")
       ELSE Goto(p, "refused") /\ UNCHANGED <<place, files>>
  /\ UNCHANGED <<legacyVars, staging, locks, history>>

\* finally: the staging directory goes, and the lock if it is still this one's.
Cleanup(p) ==
  /\ pc[p] \in {"moved", "refused"}
  /\ staging' = [staging EXCEPT ![p] = Missing]
  /\ moveLock' = (IF moveLock = p THEN Missing ELSE moveLock)
  /\ Goto(p, IF pc[p] = "moved" THEN "state" ELSE "failed")
  /\ UNCHANGED <<legacyVars, place, setupLock, files, history>>

LockFree == setupLock = Missing

TakeSetupLock(p) ==
  /\ pc[p] = "state"
  /\ IF LockFree THEN setupLock' = p /\ Goto(p, "makeKey")
                 ELSE setupLock' = setupLock /\ Goto(p, "failed")
  /\ UNCHANGED <<legacyVars, place, staging, moveLock, files, history>>

\* The key file is created exclusively, and written in a second step.
MakeKey(p) ==
  /\ pc[p] = "makeKey"
  /\ IF key = Missing THEN key' = "empty" /\ Goto(p, "writeKey")
                      ELSE key' = key /\ Goto(p, "makeConfig")
  /\ UNCHANGED <<legacyVars, place, staging, locks, config, history>>

WriteKey(p) ==
  /\ pc[p] = "writeKey" /\ key' = p /\ Goto(p, "makeConfig")
  /\ UNCHANGED <<legacyVars, place, staging, locks, config, history>>

\* What follows (the dependencies, the command itself) may fail.
Ends(p) == \E end \in {"done", "failed"} : Goto(p, end)

\* The template filled with the key, renamed into place; the lock is released in the end.
MakeConfig(p) ==
  /\ pc[p] = "makeConfig"
  /\ config' = (IF config = Missing THEN key ELSE config)
  /\ setupLock' = (IF setupLock = p THEN Missing ELSE setupLock)
  /\ Ends(p)
  /\ UNCHANGED <<legacyVars, place, staging, moveLock, key, history>>

Again(p) ==
  /\ pc[p] \in {"done", "failed"} /\ runs < MaxRuns
  /\ runs' = runs + 1 /\ Goto(p, "start")
  /\ UNCHANGED <<legacyVars, place, staging, locks, files, deaths, told>>

Dies(p) ==
  /\ pc[p] \notin {"start", "done", "failed"} /\ deaths < MaxDeaths
  /\ deaths' = deaths + 1 /\ Goto(p, "failed")
  /\ UNCHANGED <<legacyVars, place, staging, locks, files, runs, told>>

\* The operator removes a lock whose process is gone, stops the old proxy, and
\* moves a state directory without an owner aside.
OperatorUnlocks ==
  /\ \/ /\ moveLock # Missing /\ pc[moveLock] \notin Moving
        /\ moveLock' = Missing /\ UNCHANGED setupLock
     \/ /\ setupLock # Missing /\ pc[setupLock] \notin Working
        /\ setupLock' = Missing /\ UNCHANGED moveLock
  /\ UNCHANGED <<legacyVars, place, staging, files, pc, history>>
LegacyStops ==
  /\ legacyBusy /\ legacyBusy' = FALSE
  /\ UNCHANGED <<legacy, place, staging, locks, files, pc, history>>
MovedAside ==
  /\ dir = "stray" /\ dir' = "absent"
  /\ UNCHANGED <<legacyVars, members, staging, locks, files, pc, history>>

\* `proxy start`, a launch or the extension's preflight before any setup: the
\* manager has no config, logs that setup must run first, and the log line
\* creates the log directory with its parents.
ManagerRefuses ==
  /\ config = Missing /\ dir # "owned" /\ ~told
  /\ dir' = "stray" /\ told' = TRUE
  /\ UNCHANGED <<legacyVars, members, staging, locks, files, pc, runs, deaths>>

Next ==
  \/ \E p \in Setup : \/ Look(p) \/ TakeLock(p) \/ Relook(p) \/ CopyMember(p) \/ CopyFails(p)
                      \/ Publish(p) \/ Cleanup(p) \/ TakeSetupLock(p) \/ MakeKey(p)
                      \/ WriteKey(p) \/ MakeConfig(p) \/ Again(p) \/ Dies(p)
  \/ OperatorUnlocks \/ LegacyStops \/ MovedAside \/ ManagerRefuses

Spec == Init /\ [][Next]_vars

(***************************************************************************)
(* Correctness.                                                            *)
(***************************************************************************)

\* Whoever dies when, a directory that counts as the kit's state holds all that
\* the package held, and the proxy's config carries the key of the key file: no
\* command ever works on half of a moved state or on two different keys.
StateIsWhole ==
  /\ dir = "owned" => legacy \subseteq members
  /\ config # Missing => config = key

\* The manager's advice to run setup first (zcode-proxy-manager.mjs, loadPort)
\* can be followed: a setup started afterwards is not turned away.
AdviceWorks == told => dir # "stray"
=============================================================================
