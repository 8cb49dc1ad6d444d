------------------------------ MODULE ProxyManager ------------------------------
(***************************************************************************)
(* The processes around the proxy: the service manager's start, stop,      *)
(* restart and respawn (proxy/zcode-proxy-manager.mjs), each run by a      *)
(* short-lived process of its own, over one port, one pid file, the start  *)
(* lock and the budget of restarts; the proxy's watchdog and memory guard, *)
(* which ask for a respawn; and an operating system that gives the pid of  *)
(* a process that has ended to another one.                                *)
(*                                                                         *)
(* A step is the code between two awaits; where a manager that dies in     *)
(* between matters (a child and its record), or the lock does not keep the *)
(* other managers out (the budget), it is two.  A guard and the signal     *)
(* behind it are one.                                                      *)
(***************************************************************************)
EXTENDS Naturals, FiniteSets

CONSTANTS
  Pid, None,
  Manager,      \* manager processes at a time
  Foreign,      \* a service of someone else, as a holder of the port
  Probes,       \* hungProbeCount
  Limit,        \* RESPAWN_LIMIT
  MaxStarts,    \* bound: processes started
  MaxCommands,  \* bound: manager commands
  MaxCrashes    \* bound: managers that die

VARIABLES
  proc,      \* per pid [kind, gen, state, old]: a proxy or another process; gen stands for
             \* the start time, old tells that the startup grace is over.  Two kinds are
             \* history: a stray is a proxy that its start lost hold of, an heir another
             \* process that got the pid of a child while the start of that child ran
  port,      \* who is bound to the port
  pidFile,   \* None or [pid, start]; start is None until it could be read
  lock,      \* manager.lock
  budget,    \* [lock, file]: respawn.lock and the restarts in respawn.json
  mgr,
  starts, commands, crashes,
  accepted,  \* history: restarts accepted within the window
  stranger   \* history: a process was signalled that is neither a proxy of the kit's nor an heir

vars == <<proc, port, pidFile, lock, budget, mgr, starts, commands, crashes, accepted, stranger>>

Gone == [kind |-> "none", gen |-> 0, state |-> None, old |-> FALSE]
\* cmd is the command, rec the record (or the child) it works on, only what
\* start's onlyIfRecord holds
Idle == [pc |-> "idle", cmd |-> None, rec |-> None, only |-> None, probes |-> 0,
         child |-> FALSE, hung |-> FALSE, read |-> {}, id |-> 0]

Init ==
  /\ proc = [p \in Pid |-> Gone] /\ port = None /\ pidFile = None /\ lock = None
  /\ budget = [lock |-> None, file |-> {}] /\ mgr = [m \in Manager |-> Idle]
  /\ starts = 0 /\ commands = 0 /\ crashes = 0 /\ accepted = {} /\ stranger = FALSE

Alive(p) == proc[p].kind # "none"
\* healthIdentify
Health ==
  CASE port = None    -> "down"
    [] port = Foreign -> "foreign"
    [] OTHER          -> IF proc[port].state = "serving" THEN "ours" ELSE "down"
\* verifyOwnProcess says "match"
Owned(rec) == Alive(rec.pid) /\ rec.start # None /\ proc[rec.pid].gen = rec.start
IsKitProxy(p) == proc[p].kind \in {"proxy", "stray"}
\* proveHungOwn before its probes: past the grace, the recorded process, our command line
Provable(rec) == Owned(rec) /\ proc[rec.pid].old /\ IsKitProxy(rec.pid)
\* removePidRecordFor
Without(p) == IF pidFile # None /\ pidFile.pid = p THEN None ELSE pidFile
Running(m) == mgr[m].pc \notin {"idle", "crashed"}

Is(m, p) == mgr[m].pc = p
Move(m, p) == mgr' = [mgr EXCEPT ![m].pc = p]
Release(m) == lock' = IF lock = m THEN None ELSE lock
Return(m) == mgr' = [mgr EXCEPT ![m] = Idle]
\* A start no longer knows of its child, if that still runs: the record is gone.
Loses(m) == proc' = IF Owned(mgr[m].rec) THEN [proc EXCEPT ![mgr[m].rec.pid].kind = "stray"] ELSE proc
LetsGo(m, file) == pidFile' = file /\ Loses(m) /\ Return(m) /\ Release(m) /\ UNCHANGED starts
system == <<proc, port, starts>>
-----------------------------------------------------------------------------
(* start *)

\* start() up to the lock, which is never taken over: a live holder is waited for.
StartChecks(m) ==
  /\ Is(m, "check")
  /\ \/ Return(m) /\ UNCHANGED lock          \* nokey, or no configuration
     \/ Health # "down" /\ Return(m) /\ UNCHANGED lock
     \/ Health = "down" /\ lock = None /\ lock' = m /\ Move(m, "locked")
     \/ /\ Health = "down" /\ lock # None /\ UNCHANGED lock
        /\ IF Running(lock) THEN Move(m, "contend") ELSE Return(m)
  /\ UNCHANGED <<system, pidFile, budget, commands, crashes, accepted, stranger>>

\* The other start's proxy answers, its lock is gone, or the bounded wait is over.
StartContends(m) ==
  /\ Is(m, "contend") /\ Return(m)
  /\ UNCHANGED <<system, pidFile, lock, budget, commands, crashes, accepted, stranger>>

\* Mutant: the child is recorded only once its start time is known.
RecordedMutant(p) == None
\* The record start() writes as soon as the child runs
Recorded(p) == [pid |-> p, start |-> None]

\* The old record goes; a child is spawned, or cannot be.
Spawns(m) ==
  /\ pidFile' = None
  /\ \/ Return(m) /\ Release(m) /\ UNCHANGED <<proc, starts>>
     \/ \E p \in Pid :
          /\ ~Alive(p) /\ starts < MaxStarts /\ starts' = starts + 1 /\ UNCHANGED lock
          /\ proc' = [proc EXCEPT ![p] = [kind |-> "proxy", gen |-> starts', state |-> "boot", old |-> FALSE]]
          /\ mgr' = [mgr EXCEPT ![m].pc = "record", ![m].child = TRUE, ![m].rec = [pid |-> p, start |-> starts']]

\* It is recorded at once, unless the file cannot be written.
StartRecords(m) ==
  /\ Is(m, "record") /\ UNCHANGED <<port, budget, commands, crashes, accepted, stranger>>
  /\ \/ pidFile' = Recorded(mgr[m].rec.pid) /\ Move(m, "stamp") /\ UNCHANGED <<proc, starts, lock>>
     \/ LetsGo(m, None)

\* onlyIfRecord
MayStart(m) == mgr[m].only \in {None, pidFile}

\* start() under the lock
StartLocked(m) ==
  /\ Is(m, "locked") /\ UNCHANGED <<port, budget, commands, crashes, accepted, stranger>>
  /\ IF Health # "down" \/ ~MayStart(m) THEN Return(m) /\ Release(m) /\ UNCHANGED <<proc, starts, pidFile>>
     ELSE IF pidFile = None \/ ~Alive(pidFile.pid) THEN Spawns(m)
     ELSE /\ UNCHANGED <<proc, starts, pidFile>>
          /\ IF Provable(pidFile)
             THEN mgr' = [mgr EXCEPT ![m].pc = "probe", ![m].rec = pidFile, ![m].probes = 0] /\ UNCHANGED lock
             ELSE Return(m) /\ Release(m)

\* The start time of the process with that pid is added, if there is one; a write that
\* fails may leave the record as it was, or none.
StartStamps(m) ==
  /\ Is(m, "stamp") /\ UNCHANGED <<port, budget, commands, crashes, accepted, stranger>>
  /\ LET pid == mgr[m].rec.pid
     IN  \/ /\ pidFile' = IF Alive(pid) THEN [pid |-> pid, start |-> proc[pid].gen] ELSE pidFile
            /\ Move(m, "await") /\ UNCHANGED <<proc, starts, lock>>
         \/ Return(m) /\ Release(m) /\ UNCHANGED <<proc, starts, pidFile>>
         \/ LetsGo(m, None)

\* The child ended; the proxy answers; the port is taken or the wait is over.
StartAwaits(m) ==
  /\ Is(m, "await") /\ UNCHANGED <<system, budget, commands, crashes, accepted, stranger>>
  /\ IF ~Owned(mgr[m].rec) THEN pidFile' = Without(mgr[m].rec.pid) /\ Return(m) /\ Release(m)
     ELSE /\ UNCHANGED pidFile
          /\ \/ Health = "ours" /\ Return(m) /\ Release(m)
             \/ Health # "ours" /\ Move(m, "term") /\ UNCHANGED lock
-----------------------------------------------------------------------------
(* A process is ended *)

\* stop() returned 0; restart goes on with start().
Stopped(m, file) ==
  /\ pidFile' = file /\ Release(m)
  /\ \/ mgr[m].cmd # "restart" /\ Return(m)
     \/ mgr[m].cmd = "restart" /\ mgr' = [mgr EXCEPT ![m] = [Idle EXCEPT !.pc = "check", !.cmd = "start"]]

\* killOwned returned true.
Killed(m) ==
  CASE mgr[m].child -> LetsGo(m, Without(mgr[m].rec.pid))
    [] ~mgr[m].child /\ mgr[m].cmd \in {"stop", "restart"} -> Stopped(m, Without(mgr[m].rec.pid)) /\ UNCHANGED <<proc, starts>>
    [] OTHER -> Spawns(m)

\* killOwned returned false: the record stays, unless it is of start()'s own child.
NotKilled(m) ==
  \/ mgr[m].child /\ LetsGo(m, Without(mgr[m].rec.pid))
  \/ ~mgr[m].child /\ Return(m) /\ Release(m) /\ UNCHANGED <<proc, starts, pidFile>>

\* Mutant: the guard is not asked again.
GuardMutant(m) == TRUE
\* ownershipGuard, asked right before every signal; a child of this call has none
Guard(m) ==
  LET r == mgr[m] IN r.child \/ (pidFile = r.rec /\ Owned(r.rec) /\ (r.hung => IsKitProxy(r.rec.pid)))

Signalled(m) ==
  LET r == mgr[m].rec
  IN  stranger' = (stranger \/ (proc[r.pid].kind # "heir" /\ ~(IsKitProxy(r.pid) /\ proc[r.pid].gen = r.start)))

\* SIGTERM, which a process may or may not act on (Exits)
Terminates(m) ==
  /\ Is(m, "term") /\ UNCHANGED <<port, budget, commands, crashes, accepted>>
  /\ CASE ~Alive(mgr[m].rec.pid) -> Killed(m) /\ UNCHANGED stranger
       [] Alive(mgr[m].rec.pid) /\ ~Guard(m) -> NotKilled(m) /\ UNCHANGED stranger
       [] OTHER -> Signalled(m) /\ Move(m, "wait") /\ UNCHANGED <<proc, starts, pidFile, lock>>

\* The process ended, or five seconds later SIGKILL, which may fail too: what happened
\* is seen by the pid alone.
KillWaits(m) ==
  /\ Is(m, "wait") /\ UNCHANGED <<budget, commands, crashes, accepted>>
  /\ CASE ~Alive(mgr[m].rec.pid) -> Killed(m) /\ UNCHANGED <<port, stranger>>
       [] Alive(mgr[m].rec.pid) /\ ~Guard(m) -> NotKilled(m) /\ UNCHANGED <<port, stranger>>
       [] OTHER ->
            /\ Signalled(m) /\ Move(m, "last") /\ UNCHANGED <<starts, pidFile, lock>>
            /\ \/ UNCHANGED <<proc, port>>
               \/ /\ proc' = [proc EXCEPT ![mgr[m].rec.pid] = Gone]
                  /\ port' = IF port = mgr[m].rec.pid THEN None ELSE port
\* The last waitForExit: a process that has the pid by then counts as not ended.
KillEnds(m) ==
  /\ Is(m, "last") /\ UNCHANGED <<port, budget, commands, crashes, accepted, stranger>>
  /\ IF Alive(mgr[m].rec.pid) THEN NotKilled(m) ELSE Killed(m)

\* stopVerified: /health answered as ours; the record must name the live process.
StopVerified(m, rec) ==
  /\ UNCHANGED pidFile
  /\ IF rec = None \/ ~Owned(rec) THEN Return(m) /\ Release(m)
     ELSE mgr' = [mgr EXCEPT ![m].pc = "term", ![m].rec = rec, ![m].hung = FALSE] /\ UNCHANGED lock

\* A probe of proveHungOwn; after enough silence recoverHung ends the process.
ProvesHung(m) ==
  /\ Is(m, "probe") /\ UNCHANGED <<system, budget, commands, crashes, accepted, stranger>>
  /\ CASE Health = "down" ->
            /\ UNCHANGED <<pidFile, lock>>
            /\ mgr' = [mgr EXCEPT ![m].probes = @ + 1, ![m].hung = TRUE,
                                  ![m].pc = IF mgr[m].probes + 1 = Probes THEN "term" ELSE "probe"]
       [] Health = "ours" /\ mgr[m].cmd \in {"stop", "restart"} -> StopVerified(m, mgr[m].rec)
       [] OTHER -> Return(m) /\ Release(m) /\ UNCHANGED pidFile

\* stop() waits for the lock of a live holder, for thirty seconds.
StopLocks(m) ==
  /\ Is(m, "stoplock")
  /\ \/ lock = None /\ lock' = m /\ Move(m, "stopping")
     \/ lock # None /\ Return(m) /\ UNCHANGED lock
  /\ UNCHANGED <<system, pidFile, budget, commands, crashes, accepted, stranger>>

\* stopLocked
StopDecides(m) ==
  /\ Is(m, "stopping") /\ UNCHANGED <<system, budget, commands, crashes, accepted, stranger>>
  /\ \/ Return(m) /\ Release(m) /\ UNCHANGED pidFile   \* nokey
     \/ CASE Health = "foreign" -> Return(m) /\ Release(m) /\ UNCHANGED pidFile
          [] Health = "ours"    -> StopVerified(m, pidFile)
          [] OTHER ->
               IF pidFile = None \/ ~Alive(pidFile.pid) THEN Stopped(m, None)
               ELSE /\ UNCHANGED pidFile
                    /\ IF Provable(pidFile)
                       THEN mgr' = [mgr EXCEPT ![m].pc = "probe", ![m].rec = pidFile, ![m].probes = 0] /\ UNCHANGED lock
                       ELSE Return(m) /\ Release(m)
-----------------------------------------------------------------------------
(* respawn *)

\* Only for the pid on record
RespawnChecks(m) ==
  /\ Is(m, "respawn") /\ UNCHANGED <<system, pidFile, lock, budget, commands, crashes, accepted, stranger>>
  /\ IF pidFile = None \/ pidFile.pid # mgr[m].rec THEN Return(m)
     ELSE mgr' = [mgr EXCEPT ![m].pc = "reserve", ![m].only = pidFile]

\* respawn.lock can be created.
BudgetFree == budget.lock = None

\* reserveRespawn: the lock is tried for two seconds, then the restart refused.
RespawnLocks(m) ==
  /\ Is(m, "reserve") /\ UNCHANGED <<system, pidFile, lock, commands, crashes, accepted, stranger>>
  /\ \/ BudgetFree /\ budget' = [budget EXCEPT !.lock = m]
        /\ mgr' = [mgr EXCEPT ![m].pc = "budget", ![m].read = budget.file]
     \/ ~BudgetFree /\ Return(m) /\ UNCHANGED budget

RespawnReserves(m) ==
  /\ Is(m, "budget") /\ UNCHANGED <<system, pidFile, lock, commands, crashes, stranger>>
  /\ \/ /\ Cardinality(mgr[m].read) < Limit /\ Move(m, "exit")
        /\ budget' = [lock |-> None, file |-> mgr[m].read \cup {mgr[m].id}]
        /\ accepted' = accepted \cup {mgr[m].id}
     \/ Return(m) /\ budget' = [budget EXCEPT !.lock = None] /\ UNCHANGED accepted  \* full, or unwritable

\* The asking proxy is gone, or thirty seconds are over: start(onlyIfRecord).
RespawnStarts(m) ==
  /\ Is(m, "exit") /\ Move(m, "check")
  /\ UNCHANGED <<system, pidFile, lock, budget, commands, crashes, accepted, stranger>>
-----------------------------------------------------------------------------
(* The proxy, and what surrounds it *)

Command(m, c) ==
  /\ Is(m, "idle") /\ commands < MaxCommands /\ commands' = commands + 1
  /\ mgr' = [mgr EXCEPT ![m] = [Idle EXCEPT !.pc = IF c = "start" THEN "check" ELSE "stoplock", !.cmd = c]]
  /\ UNCHANGED <<system, pidFile, lock, budget, crashes, accepted, stranger>>

\* The hook of the watchdog and of the memory guard: a manager runs respawn.  Both
\* watch for longer than the seconds in which start() adds the start time.
Asks(p) ==
  /\ \A m \in Manager : mgr[m].pc \in {"record", "stamp"} => mgr[m].rec.pid # p
  /\ \E m \in Manager :
       /\ Is(m, "idle") /\ commands < MaxCommands /\ commands' = commands + 1
       /\ mgr' = [mgr EXCEPT ![m] = [Idle EXCEPT !.pc = "respawn", !.cmd = "respawn", !.rec = p, !.id = commands']]

State(p, s) == proc' = [proc EXCEPT ![p].state = s]
Binds(p) ==
  /\ proc[p].state = "boot" /\ port = None /\ port' = p /\ State(p, "serving")
  /\ UNCHANGED <<pidFile, lock, budget, mgr, starts, commands, crashes, accepted, stranger>>
\* The main thread stalls, for a while or for good.
Stalls(p) ==
  /\ \/ proc[p].state = "serving" /\ State(p, "hung")
     \/ proc[p].state = "hung" /\ State(p, "serving")
  /\ UNCHANGED <<port, pidFile, lock, budget, mgr, starts, commands, crashes, accepted, stranger>>
\* The watchdog launches the hook, or cannot, also while the server closes (and then
\* stalls); the kill (Exits) comes whichever it was.
WatchdogFires(p) ==
  /\ proc[p].state \in {"hung", "draining"} /\ State(p, "fired") /\ (Asks(p) \/ UNCHANGED <<mgr, commands>>)
  /\ UNCHANGED <<port, pidFile, lock, budget, starts, crashes, accepted, stranger>>
\* The memory guard exits only once the manager runs; the server closes first.
GuardHandsOver(p) ==
  /\ proc[p].state = "serving" /\ State(p, "draining") /\ port' = None /\ Asks(p)
  /\ UNCHANGED <<pidFile, lock, budget, starts, crashes, accepted, stranger>>
\* A process ends: a kill of the watchdog, a signal, a crash, a port in use.
Exits(p) ==
  /\ Alive(p) /\ proc' = [proc EXCEPT ![p] = Gone] /\ port' = IF port = p THEN None ELSE port
  /\ UNCHANGED <<pidFile, lock, budget, mgr, starts, commands, crashes, accepted, stranger>>
\* Another process gets a free pid; that of a child is free once its start has paused.
ChildOf(m, p) == mgr[m].child /\ mgr[m].rec.pid = p
Reused(p) ==
  /\ ~Alive(p) /\ starts < MaxStarts /\ starts' = starts + 1
  /\ \A m \in Manager : Is(m, "record") => ~ChildOf(m, p)
  /\ LET who == IF \E m \in Manager : ChildOf(m, p) THEN "heir" ELSE "other"
     IN  proc' = [proc EXCEPT ![p] = [kind |-> who, gen |-> starts', state |-> None, old |-> FALSE]]
  /\ UNCHANGED <<port, pidFile, lock, budget, mgr, commands, crashes, accepted, stranger>>
ForeignBinds ==
  /\ port \in {None, Foreign} /\ port' = IF port = None THEN Foreign ELSE None
  /\ UNCHANGED <<proc, pidFile, lock, budget, mgr, starts, commands, crashes, accepted, stranger>>
GracePasses(p) ==
  /\ IsKitProxy(p) /\ ~proc[p].old /\ proc' = [proc EXCEPT ![p].old = TRUE]
  /\ UNCHANGED <<port, pidFile, lock, budget, mgr, starts, commands, crashes, accepted, stranger>>
WindowPasses(e) ==
  /\ e \in accepted /\ accepted' = accepted \ {e} /\ budget' = [budget EXCEPT !.file = @ \ {e}]
  /\ UNCHANGED <<proc, port, pidFile, lock, mgr, starts, commands, crashes, stranger>>
\* A manager dies, perhaps between the child and its record, or while it writes that;
\* a lock it holds is stale until the operator removes it.
Crashes(m) ==
  /\ Running(m) /\ crashes < MaxCrashes /\ crashes' = crashes + 1
  /\ mgr' = [mgr EXCEPT ![m] = [Idle EXCEPT !.pc = IF m \in {lock, budget.lock} THEN "crashed" ELSE "idle"]]
  /\ \/ mgr[m].pc \in {"record", "stamp"} /\ pidFile' = None /\ Loses(m)
     \/ ~Is(m, "record") /\ UNCHANGED <<pidFile, proc>>
  /\ UNCHANGED <<port, starts, lock, budget, commands, accepted, stranger>>
OperatorUnlocks(m) ==
  /\ Is(m, "crashed") /\ Return(m) /\ Release(m)
  /\ budget' = IF budget.lock = m THEN [budget EXCEPT !.lock = None] ELSE budget
  /\ UNCHANGED <<system, pidFile, commands, crashes, accepted, stranger>>

Steps(m) ==
  \/ StartChecks(m) \/ StartContends(m) \/ StartLocked(m) \/ StartRecords(m) \/ StartStamps(m) \/ StartAwaits(m)
  \/ Terminates(m) \/ KillWaits(m) \/ KillEnds(m) \/ ProvesHung(m) \/ StopLocks(m) \/ StopDecides(m)
  \/ RespawnChecks(m) \/ RespawnLocks(m) \/ RespawnReserves(m) \/ RespawnStarts(m)
Next ==
  \/ \E m \in Manager : Steps(m) \/ Crashes(m) \/ OperatorUnlocks(m) \/ (\E c \in {"start", "stop", "restart"} : Command(m, c))
  \/ \E p \in Pid : Binds(p) \/ Stalls(p) \/ WatchdogFires(p) \/ GuardHandsOver(p) \/ Exits(p) \/ Reused(p) \/ GracePasses(p)
  \/ \E e \in accepted : WindowPasses(e)
  \/ ForeignBinds
-----------------------------------------------------------------------------
TypeOK ==
  /\ proc \in [Pid -> [kind : {"none", "proxy", "stray", "other", "heir"}, gen : 0..MaxStarts,
                       state : {None, "boot", "serving", "hung", "fired", "draining"}, old : BOOLEAN]]
  /\ port \in Pid \cup {None, Foreign} /\ lock \in Manager \cup {None} /\ budget.lock \in Manager \cup {None}
  /\ pidFile \in {None} \cup [pid : Pid, start : (1..MaxStarts) \cup {None}]
  /\ accepted \subseteq 1..MaxCommands /\ stranger \in BOOLEAN

\* No signal ever reaches a process that is not a proxy of the kit's, and the very one the
\* manager meant, however old the proof and however pids are reused: ownershipGuard before
\* each signal.  The exception is an heir: start() signals its own child by the bare pid,
\* and may record as the child's the start time of a process that has the pid by then.
KillsOnlyOwn == ~stranger

\* The kit never runs two proxies at once, whichever manager dies and whichever kill fails:
\* the start lock, and the record written the moment the child runs.  Not counted are the
\* strays, of which no record tells: the manager died or failed between the spawn and the
\* record or while writing it, or start() gave up on a child that it could not end.
OneProxy == \A p, q \in Pid : proc[p].kind = "proxy" /\ proc[q].kind = "proxy" => p = q

\* Concurrent helpers never get more restarts than the budget of the window:
\* reserveRespawn reads, checks and writes under its lock.
RespawnBudget == Cardinality(accepted) <= Limit
=============================================================================
