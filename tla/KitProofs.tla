------------------------------- MODULE KitProofs -------------------------------
(***************************************************************************)
(* Proofs about the state directory, consent and uninstall, the update,    *)
(* the managers of the proxy and the proxy's watch over itself, as MCKit   *)
(* composes them: for every set of processes, harnesses, pids and files,   *)
(* and any limits of the watchdog, of the memory guard and of restarts.    *)
(***************************************************************************)
EXTENDS MCKit, FiniteSetTheorems, TLAPS

vars == <<part, stateVars, consentVars, updateVars, managerVars, vitalVars>>

\* A step of the composition is a step of each part or leaves it alone.
LEMMA EachPart ==
  [Next]_vars => /\ [State!Next]_State!vars /\ [Consent!Next]_Consent!vars /\ [Update!Next]_Update!vars
                 /\ [Proxy!Next]_Proxy!vars /\ [Vitals!Next]_Vitals!vars
BY DEF Next, vars, stateVars, consentVars, updateVars, managerVars, vitalVars, State!vars, Consent!vars, Update!vars, Proxy!vars,
       Vitals!vars, Vitals!watch, Vitals!memory

(***************************************************************************)
(* The state directory: KitState.                                          *)
(***************************************************************************)
\* A copy holds nothing but members of the package, of which the config never comes
\* without its key.
Copies ==
  /\ "config" \in legacy => "key" \in legacy
  /\ \A p \in Setup : pc[p] = "copy" => staging[p] \subseteq legacy

\* Whoever got past the move finds the kit's own directory, and who works in it holds
\* the setup lock.
Ahead ==
  \A p \in Setup :
    /\ pc[p] \in {"moved", "state"} \cup State!Working => dir = "owned"
    /\ pc[p] \in State!Working => setupLock = p

\* There is no key before there is a directory, and no config before the key is written.
KeyFirst ==
  /\ dir # "owned" => key = Missing /\ config = Missing
  /\ \A p \in Setup : pc[p] = "writeKey" => config = Missing

StateInv == DOMAIN pc = Setup /\ DOMAIN staging = Setup /\ Copies /\ Ahead /\ KeyFirst /\ StateIsWhole

LEMMA StateInit == State!Init => StateInv
BY MembersAssumption
   DEF State!Init, State!Member, State!Working, StateInv, Copies, Ahead, KeyFirst, StateIsWhole, State!StateIsWhole

LEMMA StateStep ==
  ASSUME StateInv, [State!Next]_State!vars
  PROVE  StateInv'
<1> USE DEF StateInv, Copies, Ahead, KeyFirst, StateIsWhole, State!StateIsWhole, State!Working
<1>1. CASE UNCHANGED State!vars
  BY <1>1 DEF State!vars
<1>2. ASSUME NEW p \in Setup, State!Look(p) \/ State!TakeLock(p) \/ State!Relook(p) \/ State!CopyMember(p) \/ State!CopyFails(p)
      PROVE  StateInv'
  BY <1>2 DEF State!Look, State!Found, State!TakeLock, State!Relook, State!CopyMember, State!CopyFails, State!Goto,
              State!legacyVars, State!place, State!locks, State!files, State!history
<1>3. ASSUME NEW p \in Setup, State!Publish(p)
      PROVE  StateInv'
  BY <1>3 DEF State!Publish, State!CopiedAll, State!Goto, State!legacyVars, State!place, State!locks, State!files, State!history
<1>4. ASSUME NEW p \in Setup, State!Cleanup(p) \/ State!Again(p) \/ State!Dies(p)
      PROVE  StateInv'
  BY <1>4 DEF State!Cleanup, State!Again, State!Dies, State!Goto, State!legacyVars, State!place, State!locks, State!files, State!history
<1>5. ASSUME NEW p \in Setup, State!TakeSetupLock(p) \/ State!MakeKey(p) \/ State!WriteKey(p)
      PROVE  StateInv'
  BY <1>5, MissingAssumption
     DEF State!TakeSetupLock, State!LockFree, State!MakeKey, State!WriteKey, State!Goto, State!legacyVars, State!place, State!locks,
         State!files, State!history
<1>6. ASSUME NEW p \in Setup, State!MakeConfig(p)
      PROVE  StateInv'
  BY <1>6, MissingAssumption DEF State!MakeConfig, State!Ends, State!Goto, State!legacyVars, State!place, State!history
<1>7. CASE State!OperatorUnlocks \/ State!LegacyStops \/ State!MovedAside \/ State!ManagerRefuses
  BY <1>7, MissingAssumption DEF State!OperatorUnlocks, State!LegacyStops, State!MovedAside, State!ManagerRefuses,
             State!legacyVars, State!place, State!locks, State!files, State!history
<1> QED
  BY <1>1, <1>2, <1>3, <1>4, <1>5, <1>6, <1>7 DEF State!Next

(***************************************************************************)
(* Whoever dies when, a directory that counts as the kit's state holds all *)
(* that the package held, and the proxy's config carries the key of the    *)
(* key file (migrateLegacyState, ensureState and bootstrap).               *)
(***************************************************************************)
THEOREM StateTheorem == Spec => []StateIsWhole
<1>1. Init => StateInv
  BY StateInit DEF Init
<1>2. StateInv /\ [Next]_vars => StateInv'
  BY EachPart, StateStep
<1>3. StateInv => StateIsWhole
  BY DEF StateInv
<1> QED  BY <1>1, <1>2, <1>3, PTL DEF Spec, vars

(***************************************************************************)
(* The update: KitUpdate.                                                  *)
(***************************************************************************)
\* The files of the new release are copied from a verified archive only, before the
\* first file is deleted, and both are over when the new version's setup runs.
Mirrored ==
  /\ at \in {"lock", "copy", "delete"} => archive = "good"
  /\ at = "delete" => \A f \in NewFiles : tree[f] = "new"
  /\ at \in {"setup", "start"} => Update!Complete

\* The result of an earlier update is gone while the next one is under way.
ResultIsOwn == at \notin {"idle", "start", "done"} => code = "none"

UpdateInv == DOMAIN tree = Update!File /\ Mirrored /\ ResultIsOwn /\ UpdatedIsWhole

LEMMA UpdateInit == Update!Init => UpdateInv
BY DEF Update!Init, Update!Version, UpdateInv, Mirrored, ResultIsOwn, UpdatedIsWhole, Update!UpdatedIsWhole, Update!File

LEMMA UpdateStep ==
  ASSUME UpdateInv, [Update!Next]_Update!vars
  PROVE  UpdateInv'
<1> USE DEF UpdateInv, Mirrored, ResultIsOwn, UpdatedIsWhole, Update!UpdatedIsWhole, Update!Complete, Update!Returns
<1>1. CASE UNCHANGED Update!vars
  BY <1>1 DEF Update!vars
<1>2. CASE Update!Begin \/ Update!FetchFails \/ Update!Resolve \/ Update!Verify \/ Update!Merge
  BY <1>2 DEF Update!Begin, Update!FetchFails, Update!Resolve, Update!LookupFails, Update!UpToDate, Update!StopsProxy,
              Update!Verify, Update!Verified, Update!Merge
<1>3. CASE Update!Replace
  BY <1>3, PreservedAssumption DEF Update!Replace, Update!File, Update!Version
<1>4. CASE Update!Lock \/ Update!MirrorFails \/ Update!RunsSetup \/ Update!Start \/ Update!Dies
  BY <1>4 DEF Update!Lock, Update!MirrorFails, Update!RunsSetup, Update!Start, Update!Dies
<1>5. CASE Update!Copy
  BY <1>5, PreservedAssumption DEF Update!Copy, Update!Content, Update!File, Update!Version
<1>6. CASE Update!Delete
  BY <1>6, PreservedAssumption DEF Update!Delete, Update!Stale, Update!IsPreserved, Update!File, Update!Version
<1>7. CASE Update!Again \/ Update!SomebodyStarts \/ Update!LockChanges
  BY <1>7 DEF Update!Again, Update!SomebodyStarts, Update!LockChanges
<1> QED
  BY <1>1, <1>2, <1>3, <1>4, <1>5, <1>6, <1>7 DEF Update!Next

(***************************************************************************)
(* What a machine keeps survives every update, a file is only replaced by  *)
(* its version of a verified release, and an update that went through has  *)
(* left the release and nothing of the old one (cmdUpdate, mirrorTree).    *)
(***************************************************************************)
THEOREM UpdateTheorem == Spec => []UpdatedIsWhole
<1>1. Init => UpdateInv
  BY UpdateInit DEF Init
<1>2. UpdateInv /\ [Next]_vars => UpdateInv'
  BY EachPart, UpdateStep
<1>3. UpdateInv => UpdatedIsWhole
  BY DEF UpdateInv
<1> QED  BY <1>1, <1>2, <1>3, PTL DEF Spec, vars

(***************************************************************************)
(* The proxy's watch over itself: ProxyVitals.                             *)
(***************************************************************************)
Guard == [recycled : BOOLEAN, streak : Nat, pending : BOOLEAN, gaveUp : BOOLEAN]
VitalsTypeOK ==
  /\ now \in Nat /\ sleeps \in {0, 1} /\ beat \in Nat /\ silent \in Nat /\ over \in Nat
  /\ seen \in [beat : Nat, changedAt : Nat, checkedAt : Nat]
  /\ guard \in Guard

\* Nothing is seen before it happens.
InOrder == seen.beat <= beat /\ seen.changedAt <= seen.checkedAt /\ seen.checkedAt <= now

\* While the heartbeat has not changed, the time since the watcher saw it change is time
\* awake, but for one sleep: a sleep after its last check, which the next check
\* notices unless it is shorter than the gap.
StillIsSilent ==
  beat = seen.beat =>
    \/ now - seen.changedAt <= silent
    \/ sleeps = 1 /\ (now - seen.changedAt <= silent + Gap \/ seen.checkedAt - seen.changedAt <= silent)

\* The streak is never longer than the samples since the recycle.
StreakIsSeen ==
  /\ guard.recycled => guard.streak <= over
  /\ ~guard.recycled => guard.streak = 0 /\ ~guard.pending
  /\ guard.pending => over >= HardSamples

Judged == (fired => silent + Gap > Stall) /\ (fired => phase = "exited")

VitalsInv == VitalsTypeOK /\ InOrder /\ StillIsSilent /\ StreakIsSeen /\ Judged

LEMMA VitalsInit == Vitals!Init => VitalsInv
BY ClockAssumption DEF Vitals!Init, Vitals!Calm, Guard, VitalsInv, VitalsTypeOK, InOrder, StillIsSilent, StreakIsSeen, Judged

\* The clock, the heartbeat and the watcher leave the memory guard alone.
LEMMA WatchStep ==
  ASSUME VitalsInv, Vitals!Tick \/ Vitals!Sleep \/ Vitals!Blocks \/ Vitals!WatcherChecks
  PROVE  VitalsInv'
<1> USE ClockAssumption DEF VitalsInv, Vitals!memory
<1>1. StreakIsSeen'
  BY DEF StreakIsSeen, Vitals!Tick, Vitals!Sleep, Vitals!Blocks, Vitals!WatcherChecks
<1>2. CASE Vitals!Tick
  BY <1>1, <1>2 DEF VitalsTypeOK, InOrder, StillIsSilent, Judged, Vitals!Tick, Vitals!Up
<1>3. CASE Vitals!Sleep
  <2>1. PICK d \in Nat : now' = now + d
    BY <1>3 DEF Vitals!Sleep
  <2>2. sleeps = 0 /\ sleeps' = 1 /\ UNCHANGED <<beat, seen, fired, silent, guard, over, phase>>
    BY <1>3 DEF Vitals!Sleep
  <2> QED  BY <1>1, <2>1, <2>2 DEF VitalsTypeOK, InOrder, StillIsSilent, Judged
<1>4. CASE Vitals!Blocks
  BY <1>1, <1>4 DEF VitalsTypeOK, InOrder, StillIsSilent, Judged, Vitals!Blocks
<1>5. CASE Vitals!WatcherChecks
  <2>1. ~fired /\ UNCHANGED <<now, sleeps, beat, silent, guard, over>>
    BY <1>5 DEF Vitals!WatcherChecks
  <2>2. CASE Vitals!Paused \/ beat # seen.beat
    <3>1. seen' = [beat |-> beat, changedAt |-> now, checkedAt |-> now] /\ UNCHANGED <<fired, phase>>
      BY <1>5, <2>2 DEF Vitals!WatcherChecks
    <3> QED  BY <1>1, <2>1, <3>1 DEF VitalsTypeOK, InOrder, StillIsSilent, Judged
  <2>3. CASE ~Vitals!Paused /\ beat = seen.beat
    <3>1. /\ seen' = [seen EXCEPT !.checkedAt = now] /\ fired' = (now - seen.changedAt > Stall)
          /\ phase' = IF fired' THEN "exited" ELSE phase
      BY <1>5, <2>3 DEF Vitals!WatcherChecks
    <3>2. seen'.beat = seen.beat /\ seen'.changedAt = seen.changedAt /\ seen'.checkedAt = now
      BY <3>1 DEF VitalsTypeOK
    <3>3. now - seen.changedAt <= silent + Gap
      BY <2>3 DEF Vitals!Paused, VitalsTypeOK, InOrder, StillIsSilent
    <3>4. VitalsTypeOK' /\ InOrder'
      BY <2>1, <3>1, <3>2 DEF VitalsTypeOK, InOrder
    <3>5. StillIsSilent'
      BY <2>1, <2>3, <3>2, <3>3 DEF VitalsTypeOK, StillIsSilent
    <3>6. Judged'
      <4>1. fired' => now - seen.changedAt > Stall
        BY <3>1
      <4>2. fired' => phase' = "exited"
        BY <3>1
      <4>3. now - seen.changedAt > Stall => silent' + Gap > Stall
        BY <2>1, <3>3 DEF VitalsTypeOK
      <4> QED  BY <4>1, <4>2, <4>3 DEF Judged
    <3> QED  BY <1>1, <3>4, <3>5, <3>6
  <2> QED  BY <2>2, <2>3
<1> QED  BY <1>2, <1>3, <1>4, <1>5

\* A sample, and what the guard does of it.
LEMMA SampleKeeps ==
  ASSUME VitalsInv, NEW size \in {"low", "soft", "hard"}, Vitals!Sample(size)
  PROVE  VitalsInv'
<1> USE ClockAssumption DEF VitalsInv, VitalsTypeOK
<1>1. UNCHANGED <<now, sleeps, blocked, beat, seen, fired, silent, phase>> /\ ~guard.pending
  BY DEF Vitals!Sample, Vitals!watch
<1>2. over' = IF size = "hard" /\ guard.recycled THEN over + 1 ELSE 0
  BY DEF Vitals!Sample
<1>3. /\ guard' \in Guard
      /\ StreakIsSeen'
  <2>1. CASE size = "low"
    <3>1. guard' = [recycled |-> FALSE, streak |-> 0, pending |-> FALSE, gaveUp |-> FALSE]
      BY <2>1 DEF Vitals!Sample, Vitals!Calm
    <3>2. guard' \in Guard
      BY <3>1 DEF Guard
    <3> QED  BY <3>1, <3>2 DEF StreakIsSeen
  <2>2. CASE size # "low" /\ ~guard.recycled
    <3>1. guard' = [guard EXCEPT !.recycled = TRUE, !.streak = 0]
      BY <2>2 DEF Vitals!Sample
    <3>2. guard' \in Guard
      BY <3>1 DEF Guard
    <3>3. guard'.recycled /\ guard'.streak = 0 /\ guard'.pending = guard.pending
      BY <3>1 DEF Guard
    <3>4. over' >= 0
      BY <1>2
    <3> QED  BY <1>1, <3>2, <3>3, <3>4 DEF StreakIsSeen
  <2>3. CASE size # "low" /\ guard.recycled
    <3>1. PICK asks \in {FALSE, Vitals!Streak(size) >= HardSamples /\ ~guard.gaveUp} :
            guard' = [guard EXCEPT !.streak = Vitals!Streak(size), !.pending = asks,
                                   !.gaveUp = @ \/ (Vitals!Streak(size) >= HardSamples /\ ~asks)]
      BY <2>3 DEF Vitals!Sample
    <3>2. Vitals!Streak(size) \in Nat /\ Vitals!Streak(size) <= over' /\ over' \in Nat
      BY <1>2, <2>3 DEF Vitals!Streak, StreakIsSeen, Guard
    <3>3. asks \in BOOLEAN
      OBVIOUS
    <3>4. asks => Vitals!Streak(size) >= HardSamples
      BY Zenon
    <3>5. guard' \in Guard
      BY <3>1, <3>2, <3>3 DEF Guard
    <3>6. guard'.recycled = guard.recycled /\ guard'.streak = Vitals!Streak(size) /\ guard'.pending = asks
      BY <3>1 DEF Guard
    <3>7. guard'.pending => over' >= HardSamples
      BY <3>2, <3>4, <3>6
    <3> QED  BY <2>3, <3>2, <3>5, <3>6, <3>7 DEF StreakIsSeen
  <2> QED  BY <2>1, <2>2, <2>3
<1> QED  BY <1>1, <1>2, <1>3 DEF InOrder, StillIsSilent, Judged

LEMMA VitalsStep ==
  ASSUME VitalsInv, [Vitals!Next]_Vitals!vars
  PROVE  VitalsInv'
<1>1. CASE UNCHANGED Vitals!vars
  BY <1>1 DEF Vitals!vars, Vitals!watch, Vitals!memory, VitalsInv, VitalsTypeOK, InOrder, StillIsSilent, StreakIsSeen, Judged
<1>2. CASE Vitals!HookFails
  <2>1. guard' = [guard EXCEPT !.pending = FALSE, !.gaveUp = TRUE, !.streak = 0]
    BY <1>2 DEF Vitals!HookFails
  <2>2. guard' \in Guard /\ guard'.streak = 0 /\ ~guard'.pending
    BY <2>1 DEF VitalsInv, VitalsTypeOK, Guard
  <2> QED  BY <1>2, <2>2 DEF Vitals!HookFails, Vitals!watch, VitalsInv, VitalsTypeOK, InOrder, StillIsSilent, StreakIsSeen, Judged
<1>3. CASE Vitals!HandsOver \/ Vitals!Signal \/ Vitals!Leaves
  BY <1>3 DEF Vitals!HandsOver, Vitals!Signal, Vitals!Leaves, Vitals!Up, Vitals!watch, Vitals!memory, VitalsInv, VitalsTypeOK, InOrder,
              StillIsSilent, StreakIsSeen, Judged
<1> QED
  BY <1>1, <1>2, <1>3, WatchStep, SampleKeeps DEF Vitals!Next

(***************************************************************************)
(* A proxy gives itself up only for a reason that lasted: the watchdog     *)
(* after the main thread stood still while the machine was awake, the      *)
(* memory guard after its samples in a row since the recycle               *)
(* (watchdogStep, MemoryGuard.sample).                                     *)
(***************************************************************************)
THEOREM VitalsTheorem == Spec => []GivesUpForCause
<1>1. Init => VitalsInv
  BY VitalsInit DEF Init
<1>2. VitalsInv /\ [Next]_vars => VitalsInv'
  BY EachPart, VitalsStep
<1>3. VitalsInv => GivesUpForCause
  BY DEF VitalsInv, Judged, StreakIsSeen, GivesUpForCause, Vitals!GivesUpForCause
<1> QED  BY <1>1, <1>2, <1>3, PTL DEF Spec, vars

(***************************************************************************)
(* The managers and the proxy they start: ProxyManager.                    *)
(***************************************************************************)
Process == [kind : {"none", "proxy", "stray", "other", "heir"}, gen : Nat,
            state : {None, "boot", "serving", "hung", "fired", "draining"}, old : BOOLEAN]
Record  == [pid : Pid, start : Nat \cup {None}]

\* Where a manager holds the start lock, where it has a child, and where it is about to
\* end a process.
LockPc  == {"locked", "stopping", "probe", "term", "wait", "last", "record", "stamp", "await"}
ChildPc == {"record", "stamp", "await", "term", "wait", "last"}
EndPc   == {"probe", "term", "wait", "last"}

SystemTypeOK ==
  /\ proc \in [Pid -> Process] /\ pidFile \in {None} \cup Record /\ starts \in Nat
  /\ DOMAIN mgr = Manager /\ \A p \in Pid : proc[p].gen <= starts

\* Who has the pid of a manager's child is that child or an heir.
ChildKnown(m) ==
  /\ lock = m /\ mgr[m].pc \in ChildPc /\ mgr[m].rec \in [pid : Pid, start : Nat]
  /\ pidFile # None => mgr[m].pc # "record" /\ pidFile.pid = mgr[m].rec.pid
  /\ Proxy!Alive(mgr[m].rec.pid) => \/ proc[mgr[m].rec.pid].kind = "heir"
                                    \/ /\ proc[mgr[m].rec.pid].kind = "proxy"
                                       /\ proc[mgr[m].rec.pid].gen = mgr[m].rec.start

\* What holds of each manager: who is to end a process that is not its child works on
\* the record in the file.
Local(m) ==
  /\ DOMAIN mgr[m] = DOMAIN Proxy!Idle
  /\ mgr[m].pc \in LockPc => lock = m
  /\ mgr[m].pc \in {"record", "stamp", "await"} => mgr[m].child
  /\ mgr[m].child => ChildKnown(m)
  /\ ~mgr[m].child /\ mgr[m].pc \in EndPc => mgr[m].rec = pidFile /\ pidFile # None

\* A proxy that runs and is no stray is the one on record, or is just about to be.
Fresh(p) == \E m \in Manager : mgr[m].pc = "record" /\ mgr[m].rec.pid = p
OnRecord == \A p \in Pid : proc[p].kind = "proxy" => (pidFile # None /\ pidFile.pid = p) \/ Fresh(p)

\* The process whose start time is on record is a proxy or an heir.
Honest ==
  pidFile # None /\ pidFile.start # None =>
    pidFile.start <= starts /\ (proc[pidFile.pid].gen = pidFile.start => proc[pidFile.pid].kind # "other")

ManagerInv == SystemTypeOK /\ (\A m \in Manager : Local(m)) /\ OnRecord /\ Honest /\ KillsOnlyOwn

\* A manager that holds no lock, has no child and ends nobody.
Free(m) == mgr[m].pc \notin LockPc /\ ~mgr[m].child
\* What matters of a manager stays.
Same(m) == /\ mgr'[m].pc = mgr[m].pc /\ mgr'[m].child = mgr[m].child /\ mgr'[m].rec = mgr[m].rec
           /\ DOMAIN mgr'[m] = DOMAIN mgr[m]

\* Only the manager with the lock has a child to record.
LEMMA NobodysFresh ==
  ASSUME ManagerInv, NEW p, Fresh(p)
  PROVE  /\ pidFile = None
         /\ \A m \in Manager : lock = m => mgr[m].pc = "record" /\ mgr[m].child /\ mgr[m].rec.pid = p
BY DEF ManagerInv, Local, ChildKnown, Fresh, LockPc

LEMMA ManagerInit == Proxy!Init => ManagerInv
BY NoneAssumption DEF Proxy!Init, Proxy!Idle, Proxy!Gone, ManagerInv, SystemTypeOK, Process, Local, LockPc, EndPc, OnRecord, Honest, KillsOnlyOwn, Proxy!KillsOnlyOwn

\* A step of a manager with the lock, or that takes it: all others are free.
LEMMA HolderSteps ==
  ASSUME ManagerInv, NEW m \in Manager, lock \in {m, None}, \A n \in Manager : n # m => Same(n),
         SystemTypeOK', Local(m)', OnRecord', Honest', ~stranger'
  PROVE  ManagerInv'
<1>1. ASSUME NEW n \in Manager, n # m
      PROVE  Local(n)'
  <2>1. Local(n) /\ Same(n)
    BY <1>1 DEF ManagerInv
  <2>2. lock # n
    BY <1>1, NoneAssumption
  <2>3. Free(n)
    BY <2>1, <2>2 DEF Local, ChildKnown, Free
  <2> QED  BY <2>1, <2>3 DEF Local, Same, Free, LockPc, EndPc
<1>2. \A n \in Manager : Local(n)'
  BY <1>1
<1> QED  BY <1>2 DEF ManagerInv, KillsOnlyOwn, Proxy!KillsOnlyOwn

\* A step of a manager that is free and stays so.
LEMMA FreeSteps ==
  ASSUME ManagerInv, NEW m \in Manager, Free(m), Free(m)', DOMAIN mgr'[m] = DOMAIN Proxy!Idle,
         \A n \in Manager : n # m => Same(n), DOMAIN mgr' = Manager,
         UNCHANGED <<proc, pidFile, starts, lock, stranger>>
  PROVE  ManagerInv'
<1>1. SystemTypeOK' /\ Honest' /\ KillsOnlyOwn'
  BY DEF ManagerInv, SystemTypeOK, Honest, KillsOnlyOwn, Proxy!KillsOnlyOwn
<1>4. OnRecord'
  BY DEF ManagerInv, OnRecord, Fresh, Free, Same, LockPc
<1>2. Local(m)'
  BY DEF Free, Local, LockPc, EndPc
<1>3. ASSUME NEW n \in Manager, n # m
      PROVE  Local(n)'
  <2>1. Local(n) /\ Same(n)
    BY <1>3 DEF ManagerInv
  <2> QED  BY <2>1 DEF Local, ChildKnown, Same, Proxy!Alive
<1> QED  BY <1>1, <1>2, <1>3, <1>4 DEF ManagerInv

\* A step of the system: a process stays what it is, ends, or is a new one that is no
\* proxy, and an heir where a manager has a child with its pid; the managers stay, but for
\* a free one.
LEMMA SystemSteps ==
  ASSUME ManagerInv, proc' \in [Pid -> Process], starts' \in Nat, starts <= starts', UNCHANGED <<pidFile, lock, stranger>>,
         \A p \in Pid : \/ proc'[p].kind = proc[p].kind /\ proc'[p].gen = proc[p].gen
                        \/ proc'[p].kind = "none" /\ proc'[p].gen = 0
                        \/ /\ proc'[p].kind \in {"other", "heir"} /\ proc'[p].gen = starts' /\ starts < starts'
                           /\ proc'[p].kind = "other" => \A m \in Manager : mgr[m].child => mgr[m].rec.pid # p,
         DOMAIN mgr' = Manager,
         \A m \in Manager : Same(m) \/ (Free(m) /\ Free(m)' /\ DOMAIN mgr'[m] = DOMAIN Proxy!Idle)
  PROVE  ManagerInv'
<1>1. SystemTypeOK' /\ KillsOnlyOwn'
  <2>1. ASSUME NEW p \in Pid
        PROVE  proc'[p].gen <= starts'
    <3>1. proc[p].gen \in Nat /\ proc[p].gen <= starts /\ starts \in Nat
      BY DEF ManagerInv, SystemTypeOK, Process
    <3> QED  BY <3>1
  <2> QED  BY <2>1 DEF ManagerInv, SystemTypeOK, KillsOnlyOwn, Proxy!KillsOnlyOwn
<1>3. OnRecord'
  <2> SUFFICES ASSUME NEW p \in Pid, proc'[p].kind = "proxy"
               PROVE  ((pidFile # None /\ pidFile.pid = p) \/ Fresh(p))'
    BY DEF OnRecord
  <2>1. (pidFile # None /\ pidFile.pid = p) \/ Fresh(p)
    BY DEF ManagerInv, OnRecord
  <2> QED  BY <2>1 DEF Fresh, Same, Free, LockPc
<1>4. Honest'
  <2>1. CASE pidFile # None /\ pidFile.start # None
    <3>1. pidFile.start \in Nat /\ pidFile.pid \in Pid /\ starts \in Nat
      BY <2>1 DEF ManagerInv, SystemTypeOK, Record
    <3>2. pidFile.start <= starts /\ (proc[pidFile.pid].gen = pidFile.start => proc[pidFile.pid].kind # "other")
      BY <2>1 DEF ManagerInv, Honest
    <3> QED  BY <3>1, <3>2 DEF Honest
  <2> QED  BY <2>1 DEF Honest
<1>2. ASSUME NEW m \in Manager
      PROVE  Local(m)'
  <2>1. Local(m)
    BY DEF ManagerInv
  <2>2. CASE Free(m)' /\ DOMAIN mgr'[m] = DOMAIN Proxy!Idle
    BY <2>2 DEF Free, Local, LockPc, EndPc
  <2>3. CASE Same(m)
    <3>1. ASSUME mgr[m].child
          PROVE  ChildKnown(m)'
      <4>1. ChildKnown(m) /\ mgr[m].rec.pid \in Pid
        BY <2>1, <3>1 DEF Local, ChildKnown
      <4>2. Proxy!Alive(mgr[m].rec.pid)' =>
              \/ proc'[mgr[m].rec.pid].kind = "heir"
              \/ proc'[mgr[m].rec.pid].kind = proc[mgr[m].rec.pid].kind /\ proc'[mgr[m].rec.pid].gen = proc[mgr[m].rec.pid].gen
        BY <2>3, <3>1, <4>1 DEF Proxy!Alive, Same
      <4> QED  BY <2>3, <4>1, <4>2 DEF ChildKnown, Same, Proxy!Alive
    <3> QED  BY <2>1, <2>3, <3>1 DEF Local, Same
  <2> QED  BY <2>2, <2>3
<1> QED  BY <1>1, <1>2, <1>3, <1>4 DEF ManagerInv

\* What the two ways to set a manager's state do to it.
LEMMA Returns ==
  ASSUME ManagerInv, NEW m \in Manager, Proxy!Return(m)
  PROVE  (\A n \in Manager : n # m => Same(n)) /\ DOMAIN mgr' = Manager /\ mgr'[m] = Proxy!Idle /\ Free(m)'
BY DEF ManagerInv, SystemTypeOK, Proxy!Return, Proxy!Idle, Same, Free, LockPc

LEMMA Moves ==
  ASSUME ManagerInv, NEW m \in Manager, NEW where, Proxy!Move(m, where)
  PROVE  /\ (\A n \in Manager : n # m => Same(n)) /\ DOMAIN mgr' = Manager
         /\ mgr'[m].pc = where /\ mgr'[m].child = mgr[m].child /\ mgr'[m].rec = mgr[m].rec
         /\ DOMAIN mgr'[m] = DOMAIN Proxy!Idle
<1>1. DOMAIN mgr[m] = DOMAIN Proxy!Idle /\ DOMAIN mgr = Manager
  BY DEF ManagerInv, SystemTypeOK, Local
<1>2. mgr'[m] = [mgr[m] EXCEPT !.pc = where] /\ DOMAIN mgr' = Manager /\ \A n \in Manager : n # m => mgr'[n] = mgr[n]
  BY <1>1 DEF Proxy!Move
<1> QED  BY <1>1, <1>2 DEF Proxy!Idle, Same

\* The holder lets go of the lock.
LEMMA HolderReturns ==
  ASSUME ManagerInv, NEW m \in Manager, lock = m, Proxy!Return(m), Proxy!Release(m), UNCHANGED <<starts, stranger>>,
         SystemTypeOK', OnRecord', Honest'
  PROVE  ManagerInv'
<1>1. Local(m)'
  BY Returns DEF Local, Free, Proxy!Idle, LockPc, EndPc
<1> QED  BY <1>1, Returns, HolderSteps DEF ManagerInv, KillsOnlyOwn, Proxy!KillsOnlyOwn

\* The record of a process that is gone may go, and so may that of a lost child.
LEMMA WithoutGone ==
  ASSUME ManagerInv, NEW m \in Manager, lock = m, NEW p, proc[p].kind # "proxy" \/ p \notin Pid, mgr[m].pc # "record",
         UNCHANGED <<proc, starts>>, pidFile' = Proxy!Without(p), DOMAIN mgr' = Manager
  PROVE  SystemTypeOK' /\ OnRecord' /\ Honest'
<1>1. \A q : ~Fresh(q)
  BY NobodysFresh
<1>2. OnRecord'
  BY <1>1 DEF ManagerInv, OnRecord, Proxy!Without
<1> QED  BY <1>2 DEF ManagerInv, SystemTypeOK, Honest, Proxy!Without

\* A start lets go of its child, which is lost if it still runs.
LEMMA LosesChild ==
  ASSUME ManagerInv, NEW m \in Manager, mgr[m].child, Proxy!Loses(m), UNCHANGED starts, DOMAIN mgr' = Manager,
         pidFile' \in {None, Proxy!Without(mgr[m].rec.pid)}
  PROVE  SystemTypeOK' /\ OnRecord' /\ Honest'
<1>1. /\ lock = m /\ mgr[m].rec \in [pid : Pid, start : Nat] /\ (pidFile # None => pidFile.pid = mgr[m].rec.pid)
      /\ Proxy!Alive(mgr[m].rec.pid) => \/ proc[mgr[m].rec.pid].kind = "heir"
                                        \/ proc[mgr[m].rec.pid].kind = "proxy" /\ proc[mgr[m].rec.pid].gen = mgr[m].rec.start
  BY DEF ManagerInv, Local, ChildKnown
<1> DEFINE p == mgr[m].rec.pid
<1>2. /\ proc \in [Pid -> Process] /\ p \in Pid
      /\ proc' = IF Proxy!Owned(mgr[m].rec) THEN [proc EXCEPT ![p].kind = "stray"] ELSE proc
  BY <1>1 DEF Proxy!Loses, ManagerInv, SystemTypeOK
<1>3. /\ proc' \in [Pid -> Process]
      /\ \A q \in Pid : proc'[q].gen = proc[q].gen /\ proc'[q].kind \in {proc[q].kind, "stray"}
      /\ \A q \in Pid : q # p => proc'[q] = proc[q]
  <2>1. [proc EXCEPT ![p].kind = "stray"] \in [Pid -> Process]
    BY ONLY <1>2, ZenonT(30) DEF Process
  <2>2. \A q \in Pid : [proc EXCEPT ![p].kind = "stray"][q] = IF q = p THEN [proc[p] EXCEPT !.kind = "stray"] ELSE proc[q]
    BY <1>2
  <2>3. [proc[p] EXCEPT !.kind = "stray"].gen = proc[p].gen /\ [proc[p] EXCEPT !.kind = "stray"].kind = "stray"
    BY <1>2 DEF Process
  <2> QED  BY <1>2, <2>1, <2>2, <2>3
<1>4. proc'[p].kind # "proxy"
  <2>1. CASE proc[p].kind = "proxy"
    <3>1. Proxy!Owned(mgr[m].rec)
      <4>1. mgr[m].rec.start \in Nat /\ mgr[m].rec.start # None
        BY <1>1, NoneAssumption
      <4>2. Proxy!Alive(mgr[m].rec.pid)
        BY <2>1 DEF Proxy!Alive
      <4>3. proc[mgr[m].rec.pid].gen = mgr[m].rec.start
        BY <1>1, <2>1, <4>2
      <4> QED  BY <4>1, <4>2, <4>3 DEF Proxy!Owned
    <3>2. [proc[p] EXCEPT !.kind = "stray"].kind = "stray"
      BY <1>2 DEF Process
    <3> QED  BY <1>2, <3>1, <3>2
  <2>2. CASE proc[p].kind # "proxy"
    BY <1>2, <1>3, <2>2
  <2> QED  BY <2>1, <2>2
<1>5. OnRecord'
  <2> SUFFICES ASSUME NEW q \in Pid, proc'[q].kind = "proxy"
               PROVE  FALSE
    BY DEF OnRecord
  <2>1. q # p /\ proc[q].kind = "proxy"
    BY <1>3, <1>4
  <2>2. ~Fresh(q)
    BY <1>1, <2>1, NobodysFresh
  <2>3. pidFile # None /\ pidFile.pid = q
    BY <2>1, <2>2 DEF ManagerInv, OnRecord
  <2> QED  BY <1>1, <2>1, <2>3
<1>6. pidFile' = None \/ pidFile' = pidFile
  BY DEF Proxy!Without
<1>7. SystemTypeOK'
  BY <1>3, <1>6 DEF ManagerInv, SystemTypeOK
<1>8. Honest'
  <2>1. CASE pidFile' = pidFile /\ pidFile # None
    <3>1. pidFile.pid \in Pid
      BY <2>1 DEF ManagerInv, SystemTypeOK, Record
    <3> QED  BY <1>3, <2>1, <3>1 DEF ManagerInv, Honest
  <2> QED  BY <1>6, <2>1 DEF Honest
<1> QED  BY <1>5, <1>7, <1>8
\* start() lets go of its child, and of the lock.
LEMMA ChildLeft ==
  ASSUME ManagerInv, NEW m \in Manager, mgr[m].child, NEW file \in {None, Proxy!Without(mgr[m].rec.pid)},
         Proxy!LetsGo(m, file), UNCHANGED stranger
  PROVE  ManagerInv'
<1>1. pidFile' = file /\ Proxy!Loses(m) /\ Proxy!Return(m) /\ Proxy!Release(m) /\ UNCHANGED starts
  BY DEF Proxy!LetsGo
<1>2. lock = m
  BY DEF ManagerInv, Local, ChildKnown
<1>3. DOMAIN mgr' = Manager
  BY <1>1, Returns
<1>4. SystemTypeOK' /\ OnRecord' /\ Honest'
  BY <1>1, <1>3, LosesChild
<1> QED  BY <1>1, <1>2, <1>4, HolderReturns

\* No other manager has a child to record.
LEMMA NoneFresh ==
  ASSUME ManagerInv, NEW m \in Manager, lock \in {m, None}, mgr[m].pc # "record"
  PROVE  \A p : ~Fresh(p)
BY NoneAssumption DEF ManagerInv, Local, Fresh, LockPc

\* A step of the holder that leaves the processes and the record alone.
LEMMA Unmoved ==
  ASSUME ManagerInv, NEW m \in Manager, lock \in {m, None}, mgr[m].pc # "record", UNCHANGED <<proc, pidFile, starts>>, DOMAIN mgr' = Manager
  PROVE  SystemTypeOK' /\ OnRecord' /\ Honest' /\ pidFile' \in {None} \cup Record
<1>1. OnRecord'
  BY NoneFresh DEF ManagerInv, OnRecord
<1> QED  BY <1>1 DEF ManagerInv, SystemTypeOK, Honest

\* The holder lets go and leaves everything as it is.
LEMMA GivesUp ==
  ASSUME ManagerInv, NEW m \in Manager, lock = m, mgr[m].pc # "record", Proxy!Return(m), Proxy!Release(m),
         UNCHANGED <<proc, starts, pidFile, stranger>>
  PROVE  ManagerInv'
BY Returns, Unmoved, HolderReturns

\* Where the record names no live process no proxy runs but for strays.
LEMMA NoneOnRecord ==
  ASSUME ManagerInv, NEW m \in Manager, lock = m, mgr[m].pc # "record", pidFile = None \/ ~Proxy!Alive(pidFile.pid)
  PROVE  \A p \in Pid : proc[p].kind # "proxy"
BY NoneFresh DEF ManagerInv, OnRecord, Proxy!Alive

\* A child is spawned where no proxy runs.
LEMMA SpawnsOne ==
  ASSUME ManagerInv, NEW m \in Manager, lock = m, mgr[m].pc # "record", pidFile = None \/ ~Proxy!Alive(pidFile.pid),
         Proxy!Spawns(m), UNCHANGED stranger
  PROVE  ManagerInv'
<1>1. \A p \in Pid : proc[p].kind # "proxy"
  BY NoneOnRecord
<1>2. pidFile' = None /\ Honest'
  BY DEF Proxy!Spawns, Honest
<1>3. CASE Proxy!Return(m) /\ Proxy!Release(m) /\ UNCHANGED <<proc, starts>>
  <2>1. OnRecord'
    BY <1>1, <1>3 DEF OnRecord
  <2>2. SystemTypeOK'
    BY <1>2, <1>3, Returns DEF ManagerInv, SystemTypeOK
  <2> QED  BY <1>2, <1>3, <2>1, <2>2, HolderReturns
<1>4. ASSUME NEW p \in Pid, ~Proxy!Alive(p), starts' = starts + 1, UNCHANGED lock,
             proc' = [proc EXCEPT ![p] = [kind |-> "proxy", gen |-> starts', state |-> "boot", old |-> FALSE]],
             mgr' = [mgr EXCEPT ![m].pc = "record", ![m].child = TRUE, ![m].rec = [pid |-> p, start |-> starts']]
      PROVE  ManagerInv'
  <2>1. starts' \in Nat /\ starts < starts' /\ [kind |-> "proxy", gen |-> starts', state |-> "boot", old |-> FALSE] \in Process
    BY <1>4 DEF ManagerInv, SystemTypeOK, Process
  <2>2. proc' \in [Pid -> Process] /\ proc'[p].kind = "proxy" /\ proc'[p].gen = starts' /\ \A q \in Pid : q # p => proc'[q] = proc[q]
    BY <1>4, <2>1 DEF ManagerInv, SystemTypeOK
  <2>3. DOMAIN mgr[m] = DOMAIN Proxy!Idle /\ DOMAIN mgr = Manager
    BY DEF ManagerInv, SystemTypeOK, Local
  <2>4. /\ DOMAIN mgr' = Manager /\ mgr'[m].pc = "record" /\ mgr'[m].child = TRUE /\ mgr'[m].rec = [pid |-> p, start |-> starts']
        /\ DOMAIN mgr'[m] = DOMAIN Proxy!Idle /\ \A n \in Manager : n # m => Same(n)
    BY <1>4, <2>3 DEF Proxy!Idle, Same
  <2>5. Local(m)'
    BY <1>2, <1>4, <2>1, <2>2, <2>4 DEF Local, ChildKnown, ChildPc, EndPc, Proxy!Alive
  <2>6. OnRecord'
    BY <1>1, <2>2, <2>4 DEF OnRecord, Fresh
  <2>7. SystemTypeOK'
    <3>1. ASSUME NEW q \in Pid
          PROVE  proc'[q].gen <= starts'
      <4>1. proc[q].gen \in Nat /\ proc[q].gen <= starts /\ starts \in Nat
        BY DEF ManagerInv, SystemTypeOK, Process
      <4> QED  BY <2>1, <2>2, <4>1
    <3> QED  BY <1>2, <2>1, <2>2, <2>4, <3>1 DEF SystemTypeOK
  <2> QED  BY <1>2, <1>4, <2>4, <2>5, <2>6, <2>7, HolderSteps DEF ManagerInv, KillsOnlyOwn, Proxy!KillsOnlyOwn
<1> QED  BY <1>3, <1>4 DEF Proxy!Spawns

\* stop() is done.
LEMMA StoppedKeeps ==
  ASSUME ManagerInv, NEW m \in Manager, lock = m, NEW file, Proxy!Stopped(m, file), UNCHANGED <<proc, starts, stranger>>,
         DOMAIN mgr' = Manager => SystemTypeOK' /\ OnRecord' /\ Honest'
  PROVE  ManagerInv'
<1>1. DOMAIN mgr = Manager
  BY DEF ManagerInv, SystemTypeOK
<1>2. CASE Proxy!Return(m)
  BY <1>2, Returns, HolderReturns DEF Proxy!Stopped
<1>3. CASE mgr' = [mgr EXCEPT ![m] = [Proxy!Idle EXCEPT !.pc = "check", !.cmd = "start"]]
  <2>1. DOMAIN mgr' = Manager /\ mgr'[m] = [Proxy!Idle EXCEPT !.pc = "check", !.cmd = "start"] /\ \A n \in Manager : n # m => mgr'[n] = mgr[n]
    BY <1>1, <1>3
  <2>2. \A n \in Manager : n # m => Same(n)
    BY <2>1 DEF Same
  <2>3. mgr'[m].pc = "check" /\ ~mgr'[m].child /\ DOMAIN mgr'[m] = DOMAIN Proxy!Idle
    BY <2>1 DEF Proxy!Idle
  <2>4. Local(m)'
    BY <2>3 DEF Local, LockPc, EndPc
  <2> QED  BY <2>1, <2>2, <2>4, HolderSteps DEF ManagerInv, KillsOnlyOwn, Proxy!KillsOnlyOwn
<1> QED  BY <1>2, <1>3 DEF Proxy!Stopped

\* The process that is to be ended is gone.
LEMMA KilledKeeps ==
  ASSUME ManagerInv, NEW m \in Manager, mgr[m].pc \in EndPc, ~Proxy!Alive(mgr[m].rec.pid), Proxy!Killed(m), UNCHANGED stranger
  PROVE  ManagerInv'
<1>1. lock = m /\ mgr[m].pc # "record" /\ (~mgr[m].child => mgr[m].rec = pidFile)
  BY DEF ManagerInv, Local, EndPc, LockPc
<1>2. CASE mgr[m].child
  BY <1>2, ChildLeft DEF Proxy!Killed
<1>3. CASE ~mgr[m].child /\ mgr[m].cmd \in {"stop", "restart"}
  <2>1. Proxy!Stopped(m, Proxy!Without(mgr[m].rec.pid)) /\ UNCHANGED <<proc, starts>>
    BY <1>3 DEF Proxy!Killed
  <2>2. pidFile' = Proxy!Without(mgr[m].rec.pid)
    BY <2>1 DEF Proxy!Stopped
  <2>3. proc[mgr[m].rec.pid].kind # "proxy"
    BY DEF Proxy!Alive
  <2>4. DOMAIN mgr' = Manager => SystemTypeOK' /\ OnRecord' /\ Honest'
    BY <1>1, <2>1, <2>2, <2>3, WithoutGone
  <2> QED  BY <1>1, <2>1, <2>4, StoppedKeeps
<1>4. CASE ~mgr[m].child /\ mgr[m].cmd \notin {"stop", "restart"}
  BY <1>1, <1>4, SpawnsOne DEF Proxy!Killed
<1> QED  BY <1>2, <1>3, <1>4

\* The process lives on, or another has its pid.
LEMMA NotKilledKeeps ==
  ASSUME ManagerInv, NEW m \in Manager, mgr[m].pc \in EndPc, Proxy!NotKilled(m), UNCHANGED stranger
  PROVE  ManagerInv'
<1>1. lock = m /\ mgr[m].pc # "record"
  BY DEF ManagerInv, Local, EndPc, LockPc
<1> QED  BY <1>1, ChildLeft, GivesUp DEF Proxy!NotKilled

\* A signal is sent to the process on record, to the child or to an heir.
LEMMA SignalsOwn ==
  ASSUME ManagerInv, NEW m \in Manager, mgr[m].pc \in EndPc, Proxy!Alive(mgr[m].rec.pid), Proxy!Guard(m), Proxy!Signalled(m)
  PROVE  ~stranger'
<1>1. ~stranger
  BY DEF ManagerInv, KillsOnlyOwn, Proxy!KillsOnlyOwn
<1>2. CASE mgr[m].child
  <2>1. ChildKnown(m)
    BY <1>2 DEF ManagerInv, Local
  <2> QED  BY <1>1, <2>1 DEF ChildKnown, Proxy!Signalled, Proxy!IsKitProxy
<1>3. CASE ~mgr[m].child
  <2>1. pidFile = mgr[m].rec /\ pidFile # None /\ Proxy!Owned(pidFile)
    BY <1>3 DEF Proxy!Guard, ManagerInv, Local
  <2>2. pidFile.start # None /\ proc[pidFile.pid].gen = pidFile.start /\ proc[pidFile.pid].kind # "none" /\ pidFile.pid \in Pid
    BY <2>1 DEF Proxy!Owned, Proxy!Alive, ManagerInv, SystemTypeOK, Record
  <2>3. proc[pidFile.pid].kind # "other"
    BY <2>1, <2>2 DEF ManagerInv, Honest
  <2>4. proc[pidFile.pid].kind \in {"none", "proxy", "stray", "other", "heir"}
    BY <2>2 DEF ManagerInv, SystemTypeOK, Process
  <2> QED  BY <1>1, <2>1, <2>2, <2>3, <2>4 DEF Proxy!Signalled, Proxy!IsKitProxy
<1> QED  BY <1>2, <1>3

\* The holder goes on, and at most the record changes.
LEMMA GoesOn ==
  ASSUME ManagerInv, NEW m \in Manager, NEW where, lock \in {m, None}, lock' = m, Proxy!Move(m, where), where # "record",
         mgr[m].child => where \in ChildPc, where \in {"stamp", "await"} => mgr[m].child,
         where \in EndPc => pidFile' = pidFile /\ (mgr[m].child \/ (mgr[m].rec = pidFile /\ pidFile # None)),
         mgr[m].child /\ pidFile' # None => pidFile'.pid = mgr[m].rec.pid, pidFile' \in {None} \cup Record,
         OnRecord', Honest', UNCHANGED <<proc, starts>>, ~stranger'
  PROVE  ManagerInv'
<1>1. SystemTypeOK'
  BY Moves DEF ManagerInv, SystemTypeOK
<1>2. mgr[m].child => ChildKnown(m)'
  <2>1. mgr[m].child => ChildKnown(m)
    BY DEF ManagerInv, Local
  <2> QED  BY <2>1, Moves DEF ChildKnown, Proxy!Alive
<1>3. Local(m)'
  BY <1>2, Moves DEF ManagerInv, Local, EndPc
<1> QED  BY <1>1, <1>3, Moves, HolderSteps

\* The record is checked before a process is probed or ended: the one on file.
LEMMA WorksOnRecord ==
  ASSUME ManagerInv, NEW m \in Manager, lock = m, mgr[m].pc # "record", ~mgr[m].child, pidFile # None, DOMAIN mgr' = Manager,
         \A n \in Manager : n # m => Same(n), DOMAIN mgr'[m] = DOMAIN Proxy!Idle,
         mgr'[m].pc \in {"probe", "term"}, ~mgr'[m].child, mgr'[m].rec = pidFile,
         UNCHANGED <<proc, starts, pidFile, lock, stranger>>
  PROVE  ManagerInv'
<1>1. Local(m)'
  BY DEF Local, ChildKnown, EndPc
<1> QED  BY <1>1, Unmoved, HolderSteps DEF ManagerInv, KillsOnlyOwn, Proxy!KillsOnlyOwn

\* A manager without the lock returns, or goes on without it.
LEMMA FreeReturns ==
  ASSUME ManagerInv, NEW m \in Manager, Free(m), Proxy!Return(m), UNCHANGED <<proc, starts, pidFile, lock, stranger>>
  PROVE  ManagerInv'
BY Returns, FreeSteps DEF Proxy!Idle

LEMMA FreeMoves ==
  ASSUME ManagerInv, NEW m \in Manager, Free(m), NEW where, Proxy!Move(m, where), where \notin LockPc,
         UNCHANGED <<proc, starts, pidFile, lock, stranger>>
  PROVE  ManagerInv'
<1>1. Free(m)'
  BY Moves DEF Free
<1> QED  BY <1>1, Moves, FreeSteps

LEMMA ManagerFree ==
  ASSUME ManagerInv, NEW m \in Manager,
         mgr[m].pc \in {"idle", "check", "contend", "stoplock", "respawn", "reserve", "budget", "exit"}
  PROVE  Free(m)
BY DEF ManagerInv, Local, ChildKnown, ChildPc, LockPc, Free

\* A manager takes the lock.
LEMMA TakesLock ==
  ASSUME ManagerInv, NEW m \in Manager, Free(m), lock = None, lock' = m, NEW where, where \in {"locked", "stopping"},
         Proxy!Move(m, where), UNCHANGED <<proc, starts, pidFile, stranger>>
  PROVE  ManagerInv'
<1>1. mgr[m].pc # "record" /\ ~stranger'
  BY DEF Free, LockPc, ManagerInv, KillsOnlyOwn, Proxy!KillsOnlyOwn
<1>2. SystemTypeOK' /\ OnRecord' /\ Honest' /\ pidFile' \in {None} \cup Record
  BY <1>1, Moves, Unmoved
<1> QED  BY <1>1, <1>2, GoesOn DEF Free, EndPc

LEMMA StartChecksKeeps ==
  ASSUME ManagerInv, NEW m \in Manager, Proxy!StartChecks(m) \/ Proxy!StartContends(m) \/ Proxy!StopLocks(m)
  PROVE  ManagerInv'
<1>1. Free(m) /\ UNCHANGED <<proc, starts, pidFile, stranger>>
  BY ManagerFree DEF Proxy!StartChecks, Proxy!StartContends, Proxy!StopLocks, Proxy!Is, Proxy!system
<1>2. \/ Proxy!Return(m) /\ UNCHANGED lock
      \/ lock = None /\ lock' = m /\ (Proxy!Move(m, "locked") \/ Proxy!Move(m, "stopping"))
      \/ Proxy!Move(m, "contend") /\ UNCHANGED lock
  BY DEF Proxy!StartChecks, Proxy!StartContends, Proxy!StopLocks
<1> QED  BY <1>1, <1>2, FreeReturns, TakesLock, FreeMoves DEF LockPc

LEMMA StartLockedKeeps ==
  ASSUME ManagerInv, NEW m \in Manager, Proxy!StartLocked(m)
  PROVE  ManagerInv'
<1>1. lock = m /\ UNCHANGED stranger /\ ~mgr[m].child /\ mgr[m].pc # "record"
  BY DEF Proxy!StartLocked, Proxy!Is, ManagerInv, Local, LockPc, ChildKnown, ChildPc
<1>2. CASE Proxy!Return(m) /\ Proxy!Release(m) /\ UNCHANGED <<proc, starts, pidFile>>
  BY <1>1, <1>2, GivesUp
<1>3. CASE (pidFile = None \/ ~Proxy!Alive(pidFile.pid)) /\ Proxy!Spawns(m)
  BY <1>1, <1>3, SpawnsOne
<1>4. CASE /\ pidFile # None /\ UNCHANGED <<proc, starts, pidFile, lock>>
           /\ mgr' = [mgr EXCEPT ![m].pc = "probe", ![m].rec = pidFile, ![m].probes = 0]
  <2>1. DOMAIN mgr = Manager /\ DOMAIN mgr[m] = DOMAIN Proxy!Idle
    BY DEF ManagerInv, SystemTypeOK, Local
  <2>2. /\ DOMAIN mgr' = Manager /\ (\A n \in Manager : n # m => Same(n)) /\ DOMAIN mgr'[m] = DOMAIN Proxy!Idle
        /\ mgr'[m].pc = "probe" /\ mgr'[m].child = mgr[m].child /\ mgr'[m].rec = pidFile
    BY <1>4, <2>1 DEF Proxy!Idle, Same
  <2> QED  BY <1>1, <1>4, <2>2, WorksOnRecord
<1> QED  BY <1>2, <1>3, <1>4 DEF Proxy!StartLocked

\* The record of the child: no other proxy runs that is no stray.
LEMMA RecordsChild ==
  ASSUME ManagerInv, NEW m \in Manager, mgr[m].child, NEW where \in {"stamp", "await"}, Proxy!Move(m, where),
         UNCHANGED <<proc, starts, lock, stranger>>,
         NEW begun \in Nat \cup {None}, pidFile' = [pid |-> mgr[m].rec.pid, start |-> begun],
         begun # None => begun <= starts /\ (proc[mgr[m].rec.pid].gen = begun => proc[mgr[m].rec.pid].kind # "other")
  PROVE  ManagerInv'
<1>1. ChildKnown(m)
  BY DEF ManagerInv, Local
<1>2. lock = m /\ mgr[m].rec.pid \in Pid /\ (pidFile # None => pidFile.pid = mgr[m].rec.pid)
  BY <1>1 DEF ChildKnown
<1>3. pidFile' \in Record /\ pidFile' # None /\ pidFile'.pid = mgr[m].rec.pid /\ pidFile'.start = begun
  BY <1>2, NoneAssumption DEF Record
<1>4. OnRecord'
  <2> SUFFICES ASSUME NEW q \in Pid, proc'[q].kind = "proxy"
               PROVE  pidFile'.pid = q
    BY <1>3 DEF OnRecord
  <2>1. CASE Fresh(q)
    BY <1>2, <1>3, <2>1, NobodysFresh
  <2>2. CASE pidFile # None /\ pidFile.pid = q
    BY <1>2, <1>3, <2>2
  <2> QED  BY <2>1, <2>2 DEF ManagerInv, OnRecord
<1>5. Honest'
  BY <1>3 DEF Honest
<1>6. where \in ChildPc /\ where \notin EndPc /\ where # "record"
  BY DEF ChildPc, EndPc
<1> QED  BY <1>2, <1>3, <1>4, <1>5, <1>6, GoesOn DEF ManagerInv, KillsOnlyOwn, Proxy!KillsOnlyOwn

LEMMA StartRecordsKeeps ==
  ASSUME ManagerInv, NEW m \in Manager, Proxy!StartRecords(m)
  PROVE  ManagerInv'
<1>1. mgr[m].child /\ UNCHANGED stranger
  BY DEF Proxy!StartRecords, Proxy!Is, ManagerInv, Local
<1>2. CASE pidFile' = Proxy!Recorded(mgr[m].rec.pid) /\ Proxy!Move(m, "stamp") /\ UNCHANGED <<proc, starts, lock>>
  BY <1>1, <1>2, RecordsChild DEF Proxy!Recorded
<1>3. CASE Proxy!LetsGo(m, None)
  BY <1>1, <1>3, ChildLeft
<1> QED  BY <1>2, <1>3 DEF Proxy!StartRecords

LEMMA StartStampsKeeps ==
  ASSUME ManagerInv, NEW m \in Manager, Proxy!StartStamps(m)
  PROVE  ManagerInv'
<1>1. lock = m /\ mgr[m].child /\ ChildKnown(m) /\ mgr[m].pc = "stamp" /\ UNCHANGED stranger
  BY DEF Proxy!StartStamps, Proxy!Is, ManagerInv, Local, LockPc
<1>2. CASE /\ pidFile' = IF Proxy!Alive(mgr[m].rec.pid) THEN [pid |-> mgr[m].rec.pid, start |-> proc[mgr[m].rec.pid].gen] ELSE pidFile
           /\ Proxy!Move(m, "await") /\ UNCHANGED <<proc, starts, lock>>
  <2>1. CASE Proxy!Alive(mgr[m].rec.pid)
    <3>1. proc[mgr[m].rec.pid].gen \in Nat /\ proc[mgr[m].rec.pid].gen <= starts /\ proc[mgr[m].rec.pid].kind \in {"heir", "proxy"}
      BY <1>1, <2>1 DEF ChildKnown, ManagerInv, SystemTypeOK, Process
    <3> QED  BY <1>1, <1>2, <2>1, <3>1, RecordsChild
  <2>2. CASE ~Proxy!Alive(mgr[m].rec.pid)
    <3>1. SystemTypeOK' /\ OnRecord' /\ Honest' /\ pidFile' \in {None} \cup Record
      BY <1>1, <1>2, <2>2, Moves, Unmoved
    <3>2. pidFile # None => pidFile.pid = mgr[m].rec.pid
      BY <1>1 DEF ChildKnown
    <3> QED  BY <1>1, <1>2, <2>2, <3>1, <3>2, GoesOn DEF ChildPc, EndPc, ManagerInv, KillsOnlyOwn, Proxy!KillsOnlyOwn
  <2> QED  BY <2>1, <2>2
<1>3. CASE Proxy!Return(m) /\ Proxy!Release(m) /\ UNCHANGED <<proc, starts, pidFile>>
  BY <1>1, <1>3, GivesUp
<1>4. CASE Proxy!LetsGo(m, None)
  BY <1>1, <1>4, ChildLeft
<1> QED  BY <1>2, <1>3, <1>4 DEF Proxy!StartStamps

LEMMA StartAwaitsKeeps ==
  ASSUME ManagerInv, NEW m \in Manager, Proxy!StartAwaits(m)
  PROVE  ManagerInv'
<1>1. lock = m /\ mgr[m].child /\ ChildKnown(m) /\ mgr[m].pc = "await" /\ UNCHANGED <<proc, starts, stranger>>
  BY DEF Proxy!StartAwaits, Proxy!Is, Proxy!system, ManagerInv, Local, LockPc
<1>2. CASE ~Proxy!Owned(mgr[m].rec) /\ pidFile' = Proxy!Without(mgr[m].rec.pid) /\ Proxy!Return(m) /\ Proxy!Release(m)
  <2>1. mgr[m].rec.start # None
    BY <1>1, NoneAssumption DEF ChildKnown
  <2>2. proc[mgr[m].rec.pid].kind # "proxy"
    BY <1>1, <1>2, <2>1 DEF ChildKnown, Proxy!Owned, Proxy!Alive
  <2>3. SystemTypeOK' /\ OnRecord' /\ Honest'
    BY <1>1, <1>2, <2>2, Returns, WithoutGone
  <2> QED  BY <1>1, <1>2, <2>3, HolderReturns
<1>3. CASE UNCHANGED pidFile /\ Proxy!Return(m) /\ Proxy!Release(m)
  BY <1>1, <1>3, GivesUp
<1>4. CASE UNCHANGED <<pidFile, lock>> /\ Proxy!Move(m, "term")
  <2>1. SystemTypeOK' /\ OnRecord' /\ Honest' /\ pidFile' \in {None} \cup Record
    BY <1>1, <1>4, Moves, Unmoved
  <2>2. pidFile # None => pidFile.pid = mgr[m].rec.pid
    BY <1>1 DEF ChildKnown
  <2> QED  BY <1>1, <1>4, <2>1, <2>2, GoesOn DEF ChildPc, EndPc, ManagerInv, KillsOnlyOwn, Proxy!KillsOnlyOwn
<1> QED  BY <1>2, <1>3, <1>4 DEF Proxy!StartAwaits

LEMMA TerminatesKeeps ==
  ASSUME ManagerInv, NEW m \in Manager, Proxy!Terminates(m)
  PROVE  ManagerInv'
<1>1. mgr[m].pc = "term" /\ mgr[m].pc \in EndPc /\ lock = m
  BY DEF Proxy!Terminates, Proxy!Is, EndPc, LockPc, ManagerInv, Local
<1>2. CASE /\ Proxy!Alive(mgr[m].rec.pid) /\ Proxy!Guard(m) /\ Proxy!Signalled(m) /\ Proxy!Move(m, "wait")
           /\ UNCHANGED <<proc, starts, pidFile, lock>>
  <2>1. ~stranger'
    BY <1>1, <1>2, SignalsOwn
  <2>2. SystemTypeOK' /\ OnRecord' /\ Honest' /\ pidFile' \in {None} \cup Record
    BY <1>1, <1>2, Moves, Unmoved
  <2>3. ~mgr[m].child => mgr[m].rec = pidFile /\ pidFile # None
    BY <1>1 DEF ManagerInv, Local
  <2>4. mgr[m].child /\ pidFile # None => pidFile.pid = mgr[m].rec.pid
    BY DEF ManagerInv, Local, ChildKnown
  <2> QED  BY <1>1, <1>2, <2>1, <2>2, <2>3, <2>4, GoesOn DEF ChildPc
<1> QED  BY <1>1, <1>2, KilledKeeps, NotKilledKeeps DEF Proxy!Terminates

LEMMA KillWaitsKeeps ==
  ASSUME ManagerInv, NEW m \in Manager, Proxy!KillWaits(m)
  PROVE  ManagerInv'
<1>1. mgr[m].pc = "wait" /\ mgr[m].pc \in EndPc /\ lock = m
  BY DEF Proxy!KillWaits, Proxy!Is, EndPc, LockPc, ManagerInv, Local
<1>2. CASE /\ Proxy!Alive(mgr[m].rec.pid) /\ Proxy!Guard(m) /\ Proxy!Signalled(m) /\ Proxy!Move(m, "last")
           /\ UNCHANGED <<starts, pidFile, lock>>
           /\ UNCHANGED proc \/ proc' = [proc EXCEPT ![mgr[m].rec.pid] = Proxy!Gone]
  <2>1. ~stranger'
    BY <1>1, <1>2, SignalsOwn
  <2>2. Proxy!Gone \in Process /\ Proxy!Gone.kind = "none" /\ Proxy!Gone.gen = 0
    BY DEF Proxy!Gone, Process
  <2>3. proc' \in [Pid -> Process] /\ \A p \in Pid : proc'[p] \in {proc[p], Proxy!Gone}
    BY <1>2, <2>2 DEF ManagerInv, SystemTypeOK
  <2>4. OnRecord'
    BY <1>1, <1>2, <2>2, <2>3, NoneFresh DEF ManagerInv, OnRecord
  <2>5. SystemTypeOK'
    <3>1. ASSUME NEW p \in Pid
          PROVE  proc'[p].gen <= starts
      <4>1. proc[p].gen <= starts /\ starts \in Nat
        BY DEF ManagerInv, SystemTypeOK
      <4> QED  BY <2>2, <2>3, <4>1
    <3> QED  BY <1>2, <2>3, <3>1, Moves DEF ManagerInv, SystemTypeOK
  <2>6. Honest'
    <3>1. CASE pidFile # None
      <4>1. pidFile.pid \in Pid
        BY <3>1 DEF ManagerInv, SystemTypeOK, Record
      <4> QED  BY <1>2, <2>2, <2>3, <3>1, <4>1 DEF ManagerInv, Honest
    <3> QED  BY <1>2, <3>1 DEF Honest
  <2>7. mgr[m].child => ChildKnown(m)'
    <3>1. mgr[m].child => ChildKnown(m)
      BY DEF ManagerInv, Local
    <3> QED  BY <1>1, <1>2, <2>2, <2>3, <3>1, Moves DEF ChildKnown, ChildPc, Proxy!Alive
  <2>8. Local(m)'
    BY <1>1, <1>2, <2>7, Moves DEF ManagerInv, Local, LockPc, EndPc
  <2> QED  BY <1>1, <1>2, <2>1, <2>4, <2>5, <2>6, <2>8, Moves, HolderSteps
<1> QED  BY <1>1, <1>2, KilledKeeps, NotKilledKeeps DEF Proxy!KillWaits

LEMMA KillEndsKeeps ==
  ASSUME ManagerInv, NEW m \in Manager, Proxy!KillEnds(m)
  PROVE  ManagerInv'
BY KilledKeeps, NotKilledKeeps DEF Proxy!KillEnds, Proxy!Is, EndPc

LEMMA StopVerifiedKeeps ==
  ASSUME ManagerInv, NEW m \in Manager, lock = m, mgr[m].pc # "record", ~mgr[m].child, Proxy!StopVerified(m, pidFile),
         UNCHANGED <<proc, starts, stranger>>
  PROVE  ManagerInv'
<1>1. CASE Proxy!Return(m) /\ Proxy!Release(m)
  BY <1>1, GivesUp DEF Proxy!StopVerified
<1>2. CASE /\ pidFile # None /\ UNCHANGED lock
           /\ mgr' = [mgr EXCEPT ![m].pc = "term", ![m].rec = pidFile, ![m].hung = FALSE]
  <2>1. DOMAIN mgr = Manager /\ DOMAIN mgr[m] = DOMAIN Proxy!Idle
    BY DEF ManagerInv, SystemTypeOK, Local
  <2>2. /\ DOMAIN mgr' = Manager /\ (\A n \in Manager : n # m => Same(n)) /\ DOMAIN mgr'[m] = DOMAIN Proxy!Idle
        /\ mgr'[m].pc = "term" /\ mgr'[m].child = mgr[m].child /\ mgr'[m].rec = pidFile
    BY <1>2, <2>1 DEF Proxy!Idle, Same
  <2> QED  BY <1>2, <2>2, WorksOnRecord DEF Proxy!StopVerified
<1> QED  BY <1>1, <1>2 DEF Proxy!StopVerified

LEMMA ProvesHungKeeps ==
  ASSUME ManagerInv, NEW m \in Manager, Proxy!ProvesHung(m)
  PROVE  ManagerInv'
<1>1. /\ lock = m /\ mgr[m].pc # "record" /\ ~mgr[m].child /\ mgr[m].rec = pidFile /\ pidFile # None
      /\ UNCHANGED <<proc, starts, stranger>>
  BY DEF Proxy!ProvesHung, Proxy!Is, Proxy!system, ManagerInv, Local, ChildKnown, LockPc, ChildPc, EndPc
<1>2. CASE Proxy!Health = "down"
  <2>1. DOMAIN mgr = Manager /\ DOMAIN mgr[m] = DOMAIN Proxy!Idle
    BY DEF ManagerInv, SystemTypeOK, Local
  <2>2. mgr' = [mgr EXCEPT ![m].probes = @ + 1, ![m].hung = TRUE,
                           ![m].pc = IF mgr[m].probes + 1 = Probes THEN "term" ELSE "probe"]
    BY <1>2 DEF Proxy!ProvesHung
  <2>3. /\ DOMAIN mgr' = Manager /\ (\A n \in Manager : n # m => Same(n)) /\ DOMAIN mgr'[m] = DOMAIN Proxy!Idle
        /\ mgr'[m].child = mgr[m].child /\ mgr'[m].rec = mgr[m].rec
    BY <2>1, <2>2 DEF Proxy!Idle, Same
  <2>4. mgr'[m].pc = IF mgr[m].probes + 1 = Probes THEN "term" ELSE "probe"
    BY <2>1, <2>2 DEF Proxy!Idle
  <2> QED  BY <1>1, <1>2, <2>3, <2>4, WorksOnRecord DEF Proxy!ProvesHung
<1>3. CASE Proxy!StopVerified(m, mgr[m].rec)
  BY <1>1, <1>3, StopVerifiedKeeps
<1>4. CASE Proxy!Return(m) /\ Proxy!Release(m) /\ UNCHANGED pidFile
  BY <1>1, <1>4, GivesUp
<1> QED  BY <1>2, <1>3, <1>4 DEF Proxy!ProvesHung

LEMMA StopDecidesKeeps ==
  ASSUME ManagerInv, NEW m \in Manager, Proxy!StopDecides(m)
  PROVE  ManagerInv'
<1>1. lock = m /\ mgr[m].pc # "record" /\ ~mgr[m].child /\ UNCHANGED <<proc, starts, stranger>>
  BY DEF Proxy!StopDecides, Proxy!Is, Proxy!system, ManagerInv, Local, ChildKnown, LockPc, ChildPc
<1>2. CASE Proxy!Return(m) /\ Proxy!Release(m) /\ UNCHANGED pidFile
  BY <1>1, <1>2, GivesUp
<1>3. CASE Proxy!StopVerified(m, pidFile)
  BY <1>1, <1>3, StopVerifiedKeeps
<1>4. CASE (pidFile = None \/ ~Proxy!Alive(pidFile.pid)) /\ Proxy!Stopped(m, None)
  <2>1. pidFile' = None /\ \A p \in Pid : proc[p].kind # "proxy"
    BY <1>1, <1>4, NoneOnRecord DEF Proxy!Stopped
  <2>2. DOMAIN mgr' = Manager => SystemTypeOK' /\ OnRecord' /\ Honest'
    BY <1>1, <2>1 DEF ManagerInv, SystemTypeOK, OnRecord, Honest
  <2> QED  BY <1>1, <1>4, <2>2, StoppedKeeps
<1>5. CASE /\ pidFile # None /\ UNCHANGED <<pidFile, lock>>
           /\ mgr' = [mgr EXCEPT ![m].pc = "probe", ![m].rec = pidFile, ![m].probes = 0]
  <2>1. DOMAIN mgr = Manager /\ DOMAIN mgr[m] = DOMAIN Proxy!Idle
    BY DEF ManagerInv, SystemTypeOK, Local
  <2>2. /\ DOMAIN mgr' = Manager /\ (\A n \in Manager : n # m => Same(n)) /\ DOMAIN mgr'[m] = DOMAIN Proxy!Idle
        /\ mgr'[m].pc = "probe" /\ mgr'[m].child = mgr[m].child /\ mgr'[m].rec = pidFile
    BY <1>5, <2>1 DEF Proxy!Idle, Same
  <2> QED  BY <1>1, <1>5, <2>2, WorksOnRecord
<1> QED  BY <1>2, <1>3, <1>4, <1>5 DEF Proxy!StopDecides

\* The respawn before start(): without the lock.
LEMMA RespawnKeeps ==
  ASSUME ManagerInv, NEW m \in Manager,
         Proxy!RespawnChecks(m) \/ Proxy!RespawnLocks(m) \/ Proxy!RespawnReserves(m) \/ Proxy!RespawnStarts(m)
  PROVE  ManagerInv'
<1>1. Free(m) /\ UNCHANGED <<proc, starts, pidFile, lock, stranger>>
  BY ManagerFree DEF Proxy!RespawnChecks, Proxy!RespawnLocks, Proxy!RespawnReserves, Proxy!RespawnStarts, Proxy!Is, Proxy!system
<1>2. CASE Proxy!Return(m)
  BY <1>1, <1>2, FreeReturns
<1>3. CASE Proxy!Move(m, "exit") \/ Proxy!Move(m, "check")
  BY <1>1, <1>3, FreeMoves DEF LockPc
<1>4. CASE \/ mgr' = [mgr EXCEPT ![m].pc = "reserve", ![m].only = pidFile]
           \/ mgr' = [mgr EXCEPT ![m].pc = "budget", ![m].read = budget.file]
  <2>1. DOMAIN mgr = Manager /\ DOMAIN mgr[m] = DOMAIN Proxy!Idle
    BY DEF ManagerInv, SystemTypeOK, Local
  <2>2. /\ DOMAIN mgr' = Manager /\ (\A n \in Manager : n # m => Same(n)) /\ DOMAIN mgr'[m] = DOMAIN Proxy!Idle
        /\ mgr'[m].pc \in {"reserve", "budget"} /\ mgr'[m].child = mgr[m].child
    BY <1>4, <2>1 DEF Proxy!Idle, Same
  <2>3. Free(m)'
    BY <1>1, <2>2 DEF Free, LockPc
  <2> QED  BY <1>1, <2>2, <2>3, FreeSteps
<1> QED
  BY <1>2, <1>3, <1>4 DEF Proxy!RespawnChecks, Proxy!RespawnLocks, Proxy!RespawnReserves, Proxy!RespawnStarts

LEMMA CommandKeeps ==
  ASSUME ManagerInv, NEW m \in Manager, NEW c \in {"start", "stop", "restart"}, Proxy!Command(m, c)
  PROVE  ManagerInv'
<1>1. Free(m) /\ UNCHANGED <<proc, starts, pidFile, lock, stranger>>
  BY ManagerFree DEF Proxy!Command, Proxy!Is, Proxy!system
<1>2. mgr' = [mgr EXCEPT ![m] = [Proxy!Idle EXCEPT !.pc = IF c = "start" THEN "check" ELSE "stoplock", !.cmd = c]]
  BY DEF Proxy!Command
<1>3. DOMAIN mgr = Manager
  BY DEF ManagerInv, SystemTypeOK
<1>4. /\ DOMAIN mgr' = Manager /\ (\A n \in Manager : n # m => Same(n))
      /\ mgr'[m] = [Proxy!Idle EXCEPT !.pc = IF c = "start" THEN "check" ELSE "stoplock", !.cmd = c]
  BY <1>2, <1>3 DEF Same
<1>5. DOMAIN mgr'[m] = DOMAIN Proxy!Idle /\ mgr'[m].pc \in {"check", "stoplock"} /\ ~mgr'[m].child
  BY <1>4 DEF Proxy!Idle
<1>6. Free(m)'
  BY <1>5 DEF Free, LockPc
<1> QED  BY <1>1, <1>4, <1>5, <1>6, FreeSteps

LEMMA AsksFree ==
  ASSUME ManagerInv, NEW p, Proxy!Asks(p) \/ UNCHANGED mgr
  PROVE  DOMAIN mgr' = Manager /\ \A m \in Manager : Same(m) \/ (Free(m) /\ Free(m)' /\ DOMAIN mgr'[m] = DOMAIN Proxy!Idle)
<1>1. CASE UNCHANGED mgr
  BY <1>1 DEF ManagerInv, SystemTypeOK, Same
<1>2. ASSUME NEW m \in Manager, Proxy!Is(m, "idle"),
             mgr' = [mgr EXCEPT ![m] = [Proxy!Idle EXCEPT !.pc = "respawn", !.cmd = "respawn", !.rec = p, !.id = commands']]
      PROVE  DOMAIN mgr' = Manager /\ \A n \in Manager : Same(n) \/ (Free(n) /\ Free(n)' /\ DOMAIN mgr'[n] = DOMAIN Proxy!Idle)
  <2>1. DOMAIN mgr = Manager
    BY DEF ManagerInv, SystemTypeOK
  <2>2. /\ DOMAIN mgr' = Manager /\ (\A n \in Manager : n # m => Same(n))
        /\ mgr'[m] = [Proxy!Idle EXCEPT !.pc = "respawn", !.cmd = "respawn", !.rec = p, !.id = commands']
    BY <1>2, <2>1 DEF Same
  <2>3. DOMAIN mgr'[m] = DOMAIN Proxy!Idle /\ mgr'[m].pc = "respawn" /\ ~mgr'[m].child
    BY <2>2 DEF Proxy!Idle
  <2>4. Free(m) /\ Free(m)'
    BY <1>2, <2>3, ManagerFree DEF Free, LockPc, Proxy!Is
  <2> QED  BY <2>2, <2>3, <2>4
<1> QED  BY <1>1, <1>2 DEF Proxy!Asks

\* The processes, whatever they do.
LEMMA ProcessKeeps ==
  ASSUME ManagerInv, NEW p \in Pid,
         \/ Proxy!Binds(p) \/ Proxy!Stalls(p) \/ Proxy!WatchdogFires(p) \/ Proxy!GuardHandsOver(p)
         \/ Proxy!Exits(p) \/ Proxy!Reused(p) \/ Proxy!GracePasses(p)
  PROVE  ManagerInv'
<1> USE DEF Proxy!Binds, Proxy!Stalls, Proxy!WatchdogFires, Proxy!GuardHandsOver, Proxy!Exits, Proxy!Reused, Proxy!GracePasses
<1>1. UNCHANGED <<pidFile, lock, stranger>>
  OBVIOUS
<1>2. Proxy!Asks(p) \/ UNCHANGED mgr
  OBVIOUS
<1>3. starts \in Nat /\ proc \in [Pid -> Process]
  BY DEF ManagerInv, SystemTypeOK
<1>4. starts' \in Nat /\ starts <= starts'
  BY <1>3
<1>5. /\ proc' \in [Pid -> Process]
      /\ \A q \in Pid : \/ proc'[q].kind = proc[q].kind /\ proc'[q].gen = proc[q].gen
                        \/ proc'[q].kind = "none" /\ proc'[q].gen = 0
                        \/ /\ proc'[q].kind \in {"other", "heir"} /\ proc'[q].gen = starts' /\ starts < starts'
                           /\ proc'[q].kind = "other" => \A m \in Manager : mgr[m].child => mgr[m].rec.pid # q
  <2>1. CASE \E s \in {"serving", "hung", "fired", "draining"} : Proxy!State(p, s)
    BY <1>3, <2>1 DEF Proxy!State, Process
  <2>2. CASE proc' = [proc EXCEPT ![p] = Proxy!Gone]
    BY <1>3, <2>2 DEF Proxy!Gone, Process
  <2>3. CASE Proxy!Reused(p)
    <3>1. PICK who \in {"other", "heir"} :
             /\ who = "other" => \A m \in Manager : ~Proxy!ChildOf(m, p)
             /\ proc' = [proc EXCEPT ![p] = [kind |-> who, gen |-> starts', state |-> None, old |-> FALSE]]
      BY <2>3
    <3>2. [kind |-> who, gen |-> starts', state |-> None, old |-> FALSE] \in Process /\ starts < starts'
      BY <1>3, <1>4, <2>3 DEF Process
    <3> QED  BY <1>3, <3>1, <3>2 DEF Proxy!ChildOf
  <2>4. CASE proc' = [proc EXCEPT ![p].old = TRUE]
    BY ZenonT(30), <1>3, <2>4 DEF Process
  <2> QED  BY <2>1, <2>2, <2>3, <2>4
<1> QED  BY <1>1, <1>2, <1>4, <1>5, AsksFree, SystemSteps

\* The port, the window of the budget: neither matters here.
LEMMA ElsewhereKeeps ==
  ASSUME ManagerInv, UNCHANGED <<proc, pidFile, lock, mgr, starts, stranger>>
  PROVE  ManagerInv'
BY DEF ManagerInv, SystemTypeOK, Local, ChildKnown, OnRecord, Fresh, Honest, Proxy!Alive, KillsOnlyOwn, Proxy!KillsOnlyOwn

\* A manager dies: a start may lose its child.
LEMMA CrashesKeeps ==
  ASSUME ManagerInv, NEW m \in Manager, Proxy!Crashes(m)
  PROVE  ManagerInv'
<1>1. UNCHANGED <<starts, lock, stranger>>
  BY DEF Proxy!Crashes
<1>2. DOMAIN mgr = Manager
  BY DEF ManagerInv, SystemTypeOK
<1>3. PICK where \in {"crashed", "idle"} : mgr' = [mgr EXCEPT ![m] = [Proxy!Idle EXCEPT !.pc = where]]
  BY DEF Proxy!Crashes
<1>4. DOMAIN mgr' = Manager /\ mgr'[m] = [Proxy!Idle EXCEPT !.pc = where] /\ \A n \in Manager : n # m => mgr'[n] = mgr[n]
  BY <1>2, <1>3
<1>5. \A n \in Manager : n # m => Same(n)
  BY <1>4 DEF Same
<1>6. mgr'[m].pc = where /\ ~mgr'[m].child /\ DOMAIN mgr'[m] = DOMAIN Proxy!Idle
  BY <1>4 DEF Proxy!Idle
<1>10. DOMAIN mgr' = Manager
  BY <1>4
<1>7. Free(m)'
  BY <1>6 DEF Free, LockPc
<1>8. CASE Free(m)
  <2>1. mgr[m].pc \notin {"record", "stamp"}
    BY <1>8 DEF Free, LockPc
  <2>2. UNCHANGED <<pidFile, proc>>
    BY <2>1 DEF Proxy!Crashes
  <2> QED  BY <1>1, <1>4, <1>5, <1>6, <1>7, <1>8, <2>2, FreeSteps
<1>9. CASE ~Free(m)
  <2>1. lock = m
    BY <1>9 DEF ManagerInv, Local, ChildKnown, Free
  <2>2. ASSUME mgr[m].pc \in {"record", "stamp"}, pidFile' = None, Proxy!Loses(m)
        PROVE  SystemTypeOK' /\ OnRecord' /\ Honest'
    <3>1. mgr[m].child
      BY <2>2 DEF ManagerInv, Local
    <3> QED  BY <1>1, <1>10, <2>2, <3>1, LosesChild
  <2>3. ASSUME mgr[m].pc # "record", UNCHANGED <<pidFile, proc>>
        PROVE  SystemTypeOK' /\ OnRecord' /\ Honest'
    BY <1>1, <1>10, <2>1, <2>3, Unmoved
  <2>4. SystemTypeOK' /\ OnRecord' /\ Honest'
    <3>1. \/ mgr[m].pc \in {"record", "stamp"} /\ pidFile' = None /\ Proxy!Loses(m)
          \/ mgr[m].pc # "record" /\ UNCHANGED <<pidFile, proc>>
      BY DEF Proxy!Crashes, Proxy!Is
    <3> QED  BY <2>2, <2>3, <3>1
  <2>5. Local(m)'
    BY <1>6, <1>7 DEF Local, Free, LockPc, EndPc
  <2> QED  BY <1>1, <1>5, <2>1, <2>4, <2>5, HolderSteps DEF ManagerInv, KillsOnlyOwn, Proxy!KillsOnlyOwn
<1> QED  BY <1>8, <1>9

LEMMA OperatorUnlocksKeeps ==
  ASSUME ManagerInv, NEW m \in Manager, Proxy!OperatorUnlocks(m)
  PROVE  ManagerInv'
<1>1. Proxy!Return(m) /\ Proxy!Release(m) /\ UNCHANGED <<proc, starts, pidFile, stranger>>
  BY DEF Proxy!OperatorUnlocks, Proxy!system
<1>2. CASE lock = m
  BY <1>1, <1>2, GivesUp DEF Proxy!OperatorUnlocks, Proxy!Is
<1>3. CASE lock # m
  <2>1. Free(m) /\ UNCHANGED lock
    BY <1>1, <1>3 DEF Proxy!OperatorUnlocks, Proxy!Is, Proxy!Release, ManagerInv, Local, ChildKnown, Free, LockPc
  <2> QED  BY <1>1, <2>1, FreeReturns
<1> QED  BY <1>2, <1>3

LEMMA ManagerStep ==
  ASSUME ManagerInv, [Proxy!Next]_Proxy!vars
  PROVE  ManagerInv'
<1>1. CASE UNCHANGED Proxy!vars
  BY <1>1, ElsewhereKeeps DEF Proxy!vars
<1>2. ASSUME NEW m \in Manager, Proxy!Steps(m)
      PROVE  ManagerInv'
  BY <1>2, StartChecksKeeps, StartLockedKeeps, StartRecordsKeeps, StartStampsKeeps, StartAwaitsKeeps, TerminatesKeeps, KillWaitsKeeps, KillEndsKeeps,
     ProvesHungKeeps, StopDecidesKeeps, RespawnKeeps
     DEF Proxy!Steps
<1>3. ASSUME NEW m \in Manager, Proxy!Crashes(m) \/ Proxy!OperatorUnlocks(m) \/ \E c \in {"start", "stop", "restart"} : Proxy!Command(m, c)
      PROVE  ManagerInv'
  BY <1>3, CrashesKeeps, OperatorUnlocksKeeps, CommandKeeps
<1>4. ASSUME \/ \E e \in accepted : Proxy!WindowPasses(e)
             \/ Proxy!ForeignBinds
      PROVE  ManagerInv'
  BY <1>4, ElsewhereKeeps DEF Proxy!WindowPasses, Proxy!ForeignBinds
<1> QED
  BY <1>1, <1>2, <1>3, <1>4, ProcessKeeps DEF Proxy!Next

LEMMA ManagerInvariant == Spec => []ManagerInv
<1>1. Init => ManagerInv
  BY ManagerInit DEF Init
<1>2. ManagerInv /\ [Next]_vars => ManagerInv'
  BY EachPart, ManagerStep
<1> QED  BY <1>1, <1>2, PTL DEF Spec, vars

(***************************************************************************)
(* No manager ever signals a process other than the proxy on record or its *)
(* own child - or an heir, which got that child's pid while the start ran: *)
(* a child is signalled by its bare pid - however the pids are reused,     *)
(* whichever manager dies and whichever kill or write fails                *)
(* (ownershipGuard before every other signal).                             *)
(***************************************************************************)
THEOREM SignalTheorem == Spec => []KillsOnlyOwn
<1>1. ManagerInv => KillsOnlyOwn
  BY DEF ManagerInv
<1> QED  BY <1>1, ManagerInvariant, PTL

(***************************************************************************)
(* Two proxies that are no strays never run at once, whichever manager     *)
(* dies and whichever kill or write fails: such a proxy is the one on      *)
(* record, or a start under the lock is about to record it (start).        *)
(***************************************************************************)
THEOREM OneProxyTheorem == Spec => []OneProxy
<1>1. ASSUME ManagerInv
      PROVE  OneProxy
  <2> SUFFICES ASSUME NEW p \in Pid, NEW q \in Pid, proc[p].kind = "proxy", proc[q].kind = "proxy"
               PROVE  p = q
    BY DEF OneProxy, Proxy!OneProxy
  <2>1. \/ pidFile # None /\ pidFile.pid = p /\ pidFile.pid = q
        \/ Fresh(p) /\ Fresh(q)
    BY <1>1, NobodysFresh DEF ManagerInv, OnRecord
  <2>2. ASSUME Fresh(p), Fresh(q)
        PROVE  p = q
    <3>1. PICK m \in Manager : mgr[m].pc = "record" /\ mgr[m].rec.pid = p
      BY <2>2 DEF Fresh
    <3>2. lock = m
      BY <1>1, <3>1 DEF ManagerInv, Local, LockPc
    <3> QED  BY <1>1, <2>2, <3>1, <3>2, NobodysFresh
  <2> QED  BY <2>1, <2>2
<1> QED  BY <1>1, ManagerInvariant, PTL

(***************************************************************************)
(* The budget of restarts.                                                 *)
(***************************************************************************)
\* The file never forgets a restart that counts, nor does what a manager with the
\* budget's lock has read of it: no other restart is accepted meanwhile.
BudgetInv ==
  /\ DOMAIN budget = {"lock", "file"} /\ IsFiniteSet(budget.file) /\ accepted \subseteq budget.file
  /\ \A m \in Manager : mgr[m].pc = "budget" =>
       budget.lock = m /\ IsFiniteSet(mgr[m].read) /\ accepted \subseteq mgr[m].read
  /\ Cardinality(accepted) <= Limit

\* The two ways in which a manager's state matters for the budget.
Reads(m) == mgr'[m].pc = "budget" => mgr[m].pc = "budget" /\ mgr'[m].read = mgr[m].read

LEMMA BudgetInit == Proxy!Init => BudgetInv
BY LimitAssumption, FS_EmptySet DEF Proxy!Init, Proxy!Idle, BudgetInv

LEMMA BudgetKept ==
  ASSUME BudgetInv, \A m \in Manager : Reads(m), UNCHANGED <<budget, accepted>>
  PROVE  BudgetInv'
BY DEF BudgetInv, Reads

\* Whatever does not concern the budget.
LEMMA OtherReads ==
  ASSUME ManagerInv, NEW m \in Manager,
         \/ Proxy!StartChecks(m) \/ Proxy!StartContends(m) \/ Proxy!StartLocked(m) \/ Proxy!StartRecords(m)
         \/ Proxy!StartStamps(m) \/ Proxy!StartAwaits(m)
         \/ Proxy!Terminates(m) \/ Proxy!KillWaits(m) \/ Proxy!KillEnds(m) \/ Proxy!ProvesHung(m) \/ Proxy!StopLocks(m)
         \/ Proxy!StopDecides(m) \/ Proxy!RespawnChecks(m) \/ Proxy!RespawnStarts(m) \/ Proxy!Crashes(m)
         \/ \E c \in {"start", "stop", "restart"} : Proxy!Command(m, c)
  PROVE  (\A n \in Manager : Reads(n)) /\ UNCHANGED <<budget, accepted>>
<1> USE DEF ManagerInv, SystemTypeOK, Local, Reads, Proxy!Idle
<1>1. DOMAIN mgr = Manager /\ \A n \in Manager : DOMAIN mgr[n] = DOMAIN Proxy!Idle
  OBVIOUS
<1>2. UNCHANGED <<budget, accepted>>
  BY DEF Proxy!StartChecks, Proxy!StartContends, Proxy!StartLocked, Proxy!StartRecords, Proxy!StartStamps, Proxy!StartAwaits, Proxy!Terminates,
         Proxy!KillWaits, Proxy!KillEnds, Proxy!ProvesHung, Proxy!StopLocks, Proxy!StopDecides, Proxy!RespawnChecks,
         Proxy!RespawnStarts, Proxy!Crashes, Proxy!Command
<1>3. ASSUME Proxy!Return(m)
      PROVE  \A n \in Manager : Reads(n)
  <2>1. \A n \in Manager : mgr'[n] = IF n = m THEN Proxy!Idle ELSE mgr[n]
    BY <1>1, <1>3 DEF Proxy!Return
  <2>2. Proxy!Idle.pc = "idle"
    OBVIOUS
  <2> QED  BY <2>1, <2>2
<1>4. ASSUME NEW where, where # "budget", Proxy!Move(m, where)
      PROVE  \A n \in Manager : Reads(n)
  BY <1>1, <1>4 DEF Proxy!Move
<1>5. ASSUME NEW file, Proxy!Stopped(m, file)
      PROVE  \A n \in Manager : Reads(n)
  <2>1. ASSUME mgr' = [mgr EXCEPT ![m] = [Proxy!Idle EXCEPT !.pc = "check", !.cmd = "start"]]
        PROVE  \A n \in Manager : Reads(n)
    <3>1. mgr'[m] = [Proxy!Idle EXCEPT !.pc = "check", !.cmd = "start"] /\ \A n \in Manager : n # m => mgr'[n] = mgr[n]
      BY <1>1, <2>1
    <3>2. mgr'[m].pc = "check"
      BY <3>1
    <3> QED  BY <3>1, <3>2
  <2> QED  BY <1>3, <1>5, <2>1 DEF Proxy!Stopped
<1>6. ASSUME Proxy!Spawns(m)
      PROVE  \A n \in Manager : Reads(n)
  <2>1. ASSUME NEW p, mgr' = [mgr EXCEPT ![m].pc = "record", ![m].child = TRUE, ![m].rec = [pid |-> p, start |-> starts']]
        PROVE  \A n \in Manager : Reads(n)
    BY <1>1, <2>1
  <2> QED  BY <1>3, <1>6, <2>1 DEF Proxy!Spawns
<1>7. ASSUME Proxy!Killed(m) \/ Proxy!NotKilled(m)
      PROVE  \A n \in Manager : Reads(n)
  BY <1>3, <1>5, <1>6, <1>7, Zenon DEF Proxy!Killed, Proxy!NotKilled, Proxy!LetsGo
<1>8. CASE Proxy!StartChecks(m) \/ Proxy!StartContends(m) \/ Proxy!StartRecords(m) \/ Proxy!StartStamps(m) \/ Proxy!StartAwaits(m)
  BY <1>3, <1>4, <1>8 DEF Proxy!StartChecks, Proxy!StartContends, Proxy!StartRecords, Proxy!StartStamps, Proxy!StartAwaits, Proxy!LetsGo
<1>9. CASE Proxy!StartLocked(m)
  BY <1>1, <1>3, <1>6, <1>9 DEF Proxy!StartLocked
<1>10. CASE Proxy!Terminates(m) \/ Proxy!KillWaits(m) \/ Proxy!KillEnds(m)
  BY <1>4, <1>7, <1>10 DEF Proxy!Terminates, Proxy!KillWaits, Proxy!KillEnds
<1>11. ASSUME NEW rec, Proxy!StopVerified(m, rec)
       PROVE  \A n \in Manager : Reads(n)
  BY <1>1, <1>3, <1>11 DEF Proxy!StopVerified
<1>12. CASE Proxy!ProvesHung(m) \/ Proxy!StopLocks(m) \/ Proxy!StopDecides(m)
  <2>1. CASE Proxy!ProvesHung(m)
    BY <1>1, <1>3, <1>11, <2>1 DEF Proxy!ProvesHung
  <2>2. CASE Proxy!StopLocks(m)
    BY <1>3, <1>4, <2>2 DEF Proxy!StopLocks
  <2>3. CASE Proxy!StopDecides(m)
    BY <1>1, <1>3, <1>5, <1>11, <2>3 DEF Proxy!StopDecides
  <2> QED  BY <1>12, <2>1, <2>2, <2>3
<1>13. CASE Proxy!RespawnChecks(m) \/ Proxy!RespawnStarts(m) \/ Proxy!Crashes(m)
  <2>1. CASE Proxy!RespawnChecks(m) \/ Proxy!RespawnStarts(m)
    BY <1>1, <1>3, <1>4, <2>1 DEF Proxy!RespawnChecks, Proxy!RespawnStarts
  <2>2. CASE Proxy!Crashes(m)
    BY <1>1, <2>2 DEF Proxy!Crashes
  <2> QED  BY <1>13, <2>1, <2>2
<1>14. CASE \E c \in {"start", "stop", "restart"} : Proxy!Command(m, c)
  BY <1>1, <1>14 DEF Proxy!Command
<1> QED  BY <1>2, <1>8, <1>9, <1>10, <1>12, <1>13, <1>14

\* A manager takes the budget's lock and reads.
LEMMA LocksBudget ==
  ASSUME ManagerInv, BudgetInv, NEW m \in Manager, Proxy!RespawnLocks(m)
  PROVE  BudgetInv'
<1>1. DOMAIN mgr = Manager /\ \A n \in Manager : DOMAIN mgr[n] = DOMAIN Proxy!Idle
  BY DEF ManagerInv, SystemTypeOK, Local
<1>2. CASE Proxy!Return(m) /\ UNCHANGED budget
  BY <1>1, <1>2, BudgetKept DEF Proxy!Return, Proxy!RespawnLocks, Reads, Proxy!Idle
<1>3. CASE /\ budget.lock = None /\ budget' = [budget EXCEPT !.lock = m]
           /\ mgr' = [mgr EXCEPT ![m].pc = "budget", ![m].read = budget.file]
  <2>1. mgr'[m].pc = "budget" /\ mgr'[m].read = budget.file /\ \A n \in Manager : n # m => mgr'[n] = mgr[n]
    BY <1>1, <1>3 DEF Proxy!Idle
  <2>2. \A n \in Manager : mgr[n].pc # "budget"
    BY <1>3, NoneAssumption DEF BudgetInv
  <2>3. DOMAIN budget' = {"lock", "file"} /\ budget'.lock = m /\ budget'.file = budget.file /\ UNCHANGED accepted
    BY <1>3 DEF BudgetInv, Proxy!RespawnLocks
  <2> QED  BY <2>1, <2>2, <2>3 DEF BudgetInv
<1> QED  BY <1>2, <1>3 DEF Proxy!RespawnLocks, Proxy!BudgetFree

\* A module's counting is that of the standard module it extends.
LEMMA SameCount == ASSUME NEW S PROVE Proxy!Cardinality(S) = Cardinality(S)
BY DEF Proxy!Cardinality, Cardinality

\* It accepts the restart, or gives the lock back.
LEMMA ReservesBudget ==
  ASSUME ManagerInv, BudgetInv, NEW m \in Manager, Proxy!RespawnReserves(m)
  PROVE  BudgetInv'
<1>1. DOMAIN mgr = Manager /\ \A n \in Manager : DOMAIN mgr[n] = DOMAIN Proxy!Idle
  BY DEF ManagerInv, SystemTypeOK, Local
<1>2. mgr[m].pc = "budget" /\ budget.lock = m /\ IsFiniteSet(mgr[m].read) /\ accepted \subseteq mgr[m].read
  BY DEF Proxy!RespawnReserves, Proxy!Is, BudgetInv
<1>3. \A n \in Manager : n # m => mgr[n].pc # "budget"
  BY <1>2 DEF BudgetInv
<1>4. CASE Proxy!Return(m) /\ budget' = [budget EXCEPT !.lock = None] /\ UNCHANGED accepted
  <2>1. \A n \in Manager : mgr'[n].pc # "budget"
    BY <1>1, <1>3, <1>4 DEF Proxy!Return, Proxy!Idle
  <2> QED  BY <1>4, <2>1 DEF BudgetInv
<1>5. CASE /\ Proxy!Cardinality(mgr[m].read) < Limit /\ Proxy!Move(m, "exit")
           /\ budget' = [lock |-> None, file |-> mgr[m].read \cup {mgr[m].id}]
           /\ accepted' = accepted \cup {mgr[m].id}
  <2> DEFINE both == mgr[m].read \cup {mgr[m].id}
  <2>1. \A n \in Manager : mgr'[n].pc # "budget"
    BY <1>1, <1>3, <1>5 DEF Proxy!Move, Proxy!Idle
  <2>2. /\ IsFiniteSet(both) /\ Cardinality(both) \in Nat /\ Cardinality(mgr[m].read) \in Nat
        /\ Cardinality(both) <= Cardinality(mgr[m].read) + 1
    <3>1. IsFiniteSet(both) /\ Cardinality(both) \in {Cardinality(mgr[m].read), Cardinality(mgr[m].read) + 1}
      BY <1>2, FS_AddElement
    <3>2. Cardinality(both) \in Nat /\ Cardinality(mgr[m].read) \in Nat
      BY <1>2, <3>1, FS_CardinalityType
    <3> QED  BY <3>1, <3>2
  <2>3. accepted' \subseteq both
    BY <1>2, <1>5
  <2>4. Cardinality(accepted') <= Cardinality(both) /\ Cardinality(accepted') \in Nat
    BY <2>2, <2>3, FS_Subset, FS_CardinalityType
  <2>5. Cardinality(mgr[m].read) < Limit
    BY <1>5, SameCount
  <2>6. Cardinality(accepted') <= Limit
    BY <2>2, <2>4, <2>5, LimitAssumption
  <2> QED  BY <1>5, <2>1, <2>2, <2>3, <2>6 DEF BudgetInv
<1> QED  BY <1>4, <1>5 DEF Proxy!RespawnReserves

\* An old restart no longer counts.
LEMMA WindowMoves ==
  ASSUME BudgetInv, NEW e \in accepted, Proxy!WindowPasses(e)
  PROVE  BudgetInv'
<1>1. /\ accepted' = accepted \ {e} /\ budget' = [budget EXCEPT !.file = @ \ {e}] /\ UNCHANGED mgr
  BY DEF Proxy!WindowPasses
<1>2. IsFiniteSet(accepted) /\ IsFiniteSet(budget.file \ {e}) /\ Cardinality(accepted') <= Cardinality(accepted)
      /\ Cardinality(accepted') \in Nat /\ Cardinality(accepted) \in Nat
  <2>1. IsFiniteSet(accepted)
    BY FS_Subset DEF BudgetInv
  <2>2. accepted' \subseteq accepted
    BY <1>1
  <2>3. IsFiniteSet(budget.file \ {e})
    BY FS_Subset DEF BudgetInv
  <2> QED  BY <2>1, <2>2, <2>3, FS_Subset, FS_CardinalityType
<1> QED  BY <1>1, <1>2, LimitAssumption DEF BudgetInv

LEMMA BudgetStep ==
  ASSUME ManagerInv, BudgetInv, [Proxy!Next]_Proxy!vars
  PROVE  BudgetInv'
<1>1. CASE UNCHANGED Proxy!vars
  BY <1>1 DEF Proxy!vars, BudgetInv
<1>2. ASSUME NEW m \in Manager, Proxy!Steps(m)
      PROVE  BudgetInv'
  BY <1>2, OtherReads, BudgetKept, LocksBudget, ReservesBudget DEF Proxy!Steps
<1>3. ASSUME NEW m \in Manager, Proxy!Crashes(m) \/ \E c \in {"start", "stop", "restart"} : Proxy!Command(m, c)
      PROVE  BudgetInv'
  BY <1>3, OtherReads, BudgetKept
<1>4. ASSUME NEW m \in Manager, Proxy!OperatorUnlocks(m)
      PROVE  BudgetInv'
  <2>1. \A n \in Manager : n # m => mgr'[n] = mgr[n]
    BY <1>4 DEF Proxy!OperatorUnlocks, Proxy!Return, ManagerInv, SystemTypeOK
  <2>2. mgr'[m].pc # "budget"
    BY <1>4 DEF Proxy!OperatorUnlocks, Proxy!Return, Proxy!Idle, ManagerInv, SystemTypeOK
  <2>3. UNCHANGED accepted /\ budget' = IF budget.lock = m THEN [budget EXCEPT !.lock = None] ELSE budget
    BY <1>4 DEF Proxy!OperatorUnlocks
  <2> QED  BY <2>1, <2>2, <2>3 DEF BudgetInv
<1>5. ASSUME NEW p \in Pid,
             \/ Proxy!Binds(p) \/ Proxy!Stalls(p) \/ Proxy!WatchdogFires(p) \/ Proxy!GuardHandsOver(p)
             \/ Proxy!Exits(p) \/ Proxy!Reused(p) \/ Proxy!GracePasses(p)
      PROVE  BudgetInv'
  <2>1. UNCHANGED <<budget, accepted>> /\ (Proxy!Asks(p) \/ UNCHANGED mgr)
    BY <1>5 DEF Proxy!Binds, Proxy!Stalls, Proxy!WatchdogFires, Proxy!GuardHandsOver, Proxy!Exits, Proxy!Reused, Proxy!GracePasses
  <2>2. \A m \in Manager : Reads(m)
    BY <2>1 DEF Proxy!Asks, ManagerInv, SystemTypeOK, Reads, Proxy!Idle
  <2> QED  BY <2>1, <2>2, BudgetKept
<1>6. CASE Proxy!ForeignBinds
  BY <1>6 DEF Proxy!ForeignBinds, BudgetInv
<1> QED
  BY <1>1, <1>2, <1>3, <1>4, <1>5, <1>6, WindowMoves DEF Proxy!Next

(***************************************************************************)
(* Concurrent helpers never get more restarts than the budget of the       *)
(* window, whatever the limit (reserveRespawn).                            *)
(***************************************************************************)
THEOREM BudgetTheorem == Spec => []RespawnBudget
<1>1. Init => BudgetInv
  BY BudgetInit DEF Init
<1>2. ManagerInv /\ BudgetInv /\ [Next]_vars => BudgetInv'
  BY EachPart, BudgetStep
<1>3. BudgetInv => RespawnBudget
  BY SameCount DEF BudgetInv, RespawnBudget, Proxy!RespawnBudget
<1> QED  BY <1>1, <1>2, <1>3, ManagerInvariant, PTL DEF Spec, vars

(***************************************************************************)
(* Consent and uninstall: KitConsent.                                      *)
(***************************************************************************)
Entry  == {"none", "kit", "changed"}
Bridge == {"none", "ours", "other"}

\* What the kit changed, and the word that stood before: a registration goes in where
\* there was none.
Op ==
  [on : {"entry"}, h : Harness, was : Entry, now : Entry, word : Consent!Words]
    \cup [on : {"bridge"}, h : Harness, was : {"none"}, now : {"ours"}, word : Consent!Words]
    \cup [on : {"choice"}, h : Harness, was : Consent!Choice, now : Consent!Choice, word : Consent!Words]

Before == [entry : [Harness -> Entry], choice : [Harness -> Consent!Choice], said : [Harness -> Consent!Words]]
SetupCmd ==
  [is : {"setup"}, explicit : SUBSET Harness \cup {Unset}, tty : BOOLEAN, declined : BOOLEAN, built : BOOLEAN,
   reask : BOOLEAN, todo : SUBSET Harness, register : SUBSET Harness, before : Before]
UninstallCmd == [is : {"uninstall"}, at : 0..Len(log)]

ConsentTypeOK ==
  /\ entry \in [Harness -> Entry] /\ bridge \in [Harness -> Bridge] /\ choice \in [Harness -> Consent!Choice]
  /\ said \in [Harness -> Consent!Words] /\ log \in Seq(SUBSET Op) /\ cmd \in {Unset} \cup SetupCmd \cup UninstallCmd

\* What the kit left in a program is named by a record, but for what the setup that runs
\* has written since.
Named(on, h) == \E i \in 1..Len(log) : \E o \in log[i] : o.on = on /\ o.h = h
Base == IF Consent!Running("setup") THEN cmd.before.entry ELSE entry
Kept ==
  /\ \A h \in Harness : Base[h] # "none" /\ h \notin loose => Named("entry", h)
  /\ \A h \in Harness : bridge[h] = "ours" => Named("bridge", h)

\* A record that gives an entry back stands above one that names it too.
Rooted ==
  \A j \in 1..Len(log) : \A o \in log[j] : o.on = "entry" /\ o.was # "none" /\ o.h \notin loose =>
    \E i \in 1..Len(log) : i < j /\ \E q \in log[i] : q.on = "entry" /\ q.h = o.h

ConsentInv == ConsentTypeOK /\ Kept /\ Rooted /\ (removed => cmd = Unset) /\ UninstalledIsGone

LEMMA ChoiceIs ==
  Consent!Choice = {"none", "configured", "bridged", "skipped", "configured?", "bridged?", "skipped?"}
<1>1. Consent!Decision = {"configured", "bridged", "skipped"}
  BY DEF Consent!Decision, Consent!Damage
<1>2. {d[2] : d \in Consent!Damage} = {"configured?", "bridged?", "skipped?"}
  BY DEF Consent!Damage
<1> QED  BY <1>1, <1>2 DEF Consent!Choice

LEMMA ConsentInit == Consent!Init => ConsentInv
BY ChoiceIs DEF Consent!Init, ConsentInv, ConsentTypeOK, Kept, Base, Rooted, Consent!Running, UninstalledIsGone,
                Consent!UninstalledIsGone, Entry, Bridge, Consent!Words

LEMMA SetupIsSet == \A c \in SetupCmd : c # Unset /\ c.is = "setup"
BY UnsetAssumption, ChoiceIs DEF SetupCmd, Before, Entry, Consent!Words

\* A command that ends records what it changed, on top.
LEMMA RecordKeeps ==
  ASSUME ConsentTypeOK, NEW before \in Before, log' = Consent!Recorded(before),
         entry' \in [Harness -> Entry], choice' \in [Harness -> Consent!Choice],
         \A h \in Harness : bridge'[h] = bridge[h] \/ (bridge[h] = "none" /\ bridge'[h] = "ours")
  PROVE  /\ log' \in Seq(SUBSET Op) /\ Len(log) <= Len(log') /\ \A j \in 1..Len(log) : log'[j] = log[j]
         /\ \A h \in Harness : before.entry[h] # entry'[h] => Named("entry", h)'
         /\ \A h \in Harness : bridge[h] # bridge'[h] => Named("bridge", h)'
         /\ \A j \in 1..Len(log') : j \notin 1..Len(log) => /\ j = Len(log) + 1
              /\ \A o \in log'[j] : /\ o.on = "entry" => o.was = before.entry[o.h]
                                    /\ o.on = "choice" => o.was = before.choice[o.h] /\ o.word = before.said[o.h]
<1> DEFINE T == Consent!Transaction(before)
<1>0. \A h \in Harness : before.said[h] \in Consent!Words /\ before.entry[h] \in Entry /\ before.choice[h] \in Consent!Choice
  BY DEF Before
<1>1. Consent!Changes("entry", before.entry, entry', before.said) \subseteq Op
  BY <1>0 DEF Consent!Changes, Op
<1>2. Consent!Changes("choice", before.choice, choice', before.said) \subseteq Op
  BY <1>0 DEF Consent!Changes, Op
<1>3. Consent!Changes("bridge", bridge, bridge', before.said) \subseteq Op
  BY <1>0 DEF Consent!Changes, Op
<1>4. T \subseteq Op
  BY <1>1, <1>2, <1>3 DEF Consent!Transaction
<1>5. \A h \in Harness : before.entry[h] # entry'[h] => \E o \in T : o.on = "entry" /\ o.h = h
  <2> SUFFICES ASSUME NEW h \in Harness, before.entry[h] # entry'[h]
               PROVE  \E o \in T : o.on = "entry" /\ o.h = h
    OBVIOUS
  <2>1. [on |-> "entry", h |-> h, was |-> before.entry[h], now |-> entry'[h], word |-> before.said[h]] \in T
    BY DEF Consent!Transaction, Consent!Changes
  <2> QED  BY <2>1
<1>6. \A h \in Harness : bridge[h] # bridge'[h] => \E o \in T : o.on = "bridge" /\ o.h = h
  <2> SUFFICES ASSUME NEW h \in Harness, bridge[h] # bridge'[h]
               PROVE  \E o \in T : o.on = "bridge" /\ o.h = h
    OBVIOUS
  <2>1. [on |-> "bridge", h |-> h, was |-> bridge[h], now |-> bridge'[h], word |-> before.said[h]] \in T
    BY DEF Consent!Transaction, Consent!Changes
  <2> QED  BY <2>1
<1>7. \A o \in T : /\ o.on = "entry" => o.was = before.entry[o.h]
                   /\ o.on = "choice" => o.was = before.choice[o.h] /\ o.word = before.said[o.h]
  BY DEF Consent!Transaction, Consent!Changes
<1>8. log' = IF T = {} THEN log ELSE Append(log, T)
  BY DEF Consent!Recorded
<1> HIDE DEF T
<1>9. CASE T = {}
  <2>1. log' = log /\ Len(log) \in Nat /\ log \in Seq(SUBSET Op)
    BY <1>8, <1>9 DEF ConsentTypeOK
  <2> QED  BY <1>5, <1>6, <1>9, <2>1
<1>10. CASE T # {}
  <2>1. /\ log' \in Seq(SUBSET Op) /\ Len(log') = Len(log) + 1 /\ log'[Len(log) + 1] = T
        /\ Len(log) \in Nat /\ \A i \in 1..Len(log) : log'[i] = log[i]
    BY <1>4, <1>8, <1>10 DEF ConsentTypeOK
  <2>2. (Len(log) + 1) \in 1..Len(log') /\ \A j \in 1..Len(log') : j \notin 1..Len(log) => j = Len(log) + 1
    BY <2>1
  <2>3. \A on, h : (\E o \in T : o.on = on /\ o.h = h) => Named(on, h)'
    BY <2>1, <2>2 DEF Named
  <2> QED  BY <1>5, <1>6, <1>7, <2>1, <2>2, <2>3
<1> QED  BY <1>9, <1>10

\* What a command found is named where it stood.
LEMMA RecordedKept ==
  ASSUME ConsentInv, NEW before \in Before, log' = Consent!Recorded(before), before.entry = Base,
         entry' \in [Harness -> Entry], choice' \in [Harness -> Consent!Choice],
         \A h \in Harness : bridge'[h] = bridge[h] \/ (bridge[h] = "none" /\ bridge'[h] = "ours"),
         UNCHANGED loose, ~Consent!Running("setup")'
  PROVE  Kept' /\ Rooted' /\ log' \in Seq(SUBSET Op)
<1>0. ConsentTypeOK /\ Kept /\ Rooted
  BY DEF ConsentInv
<1>1. /\ log' \in Seq(SUBSET Op) /\ Len(log) <= Len(log') /\ \A j \in 1..Len(log) : log'[j] = log[j]
      /\ \A h \in Harness : before.entry[h] # entry'[h] => Named("entry", h)'
      /\ \A h \in Harness : bridge[h] # bridge'[h] => Named("bridge", h)'
      /\ \A j \in 1..Len(log') : j \notin 1..Len(log) => /\ j = Len(log) + 1
           /\ \A o \in log'[j] : o.on = "entry" => o.was = before.entry[o.h]
  BY <1>0, RecordKeeps
<1>2. Len(log) \in Nat /\ Len(log') \in Nat /\ 1..Len(log) \subseteq 1..Len(log')
  BY <1>0, <1>1 DEF ConsentTypeOK
<1>3. \A on, h : Named(on, h) => Named(on, h)'
  BY <1>1, <1>2 DEF Named
<1>4. Kept'
  BY <1>0, <1>1, <1>3 DEF Kept, Base
<1>5. ASSUME NEW j \in 1..Len(log'), NEW o \in log'[j], o.on = "entry", o.was # "none", o.h \notin loose
      PROVE  \E i \in 1..Len(log') : i < j /\ \E q \in log'[i] : q.on = "entry" /\ q.h = o.h
  <2>1. CASE j \in 1..Len(log)
    <3>1. PICK i \in 1..Len(log) : i < j /\ \E q \in log[i] : q.on = "entry" /\ q.h = o.h
      BY <1>0, <1>1, <1>5, <2>1 DEF Rooted
    <3> QED  BY <1>1, <1>2, <3>1
  <2>2. CASE j \notin 1..Len(log)
    <3>1. j = Len(log) + 1 /\ o.was = before.entry[o.h]
      BY <1>1, <1>5, <2>2
    <3>2. o \in Op
      BY <1>1, <1>5
    <3>3. Named("entry", o.h)
      BY <1>0, <1>5, <3>1, <3>2 DEF Kept, Op
    <3>4. PICK i \in 1..Len(log) : \E q \in log[i] : q.on = "entry" /\ q.h = o.h
      BY <3>3 DEF Named
    <3> QED  BY <1>1, <1>2, <3>1, <3>4
  <2> QED  BY <2>1, <2>2
<1>6. Rooted'
  BY <1>5 DEF Rooted
<1> QED  BY <1>1, <1>4, <1>6

\* An operation as it is undone.
LEMMA OpShape ==
  ASSUME NEW o \in Op
  PROVE  /\ o.h \in Harness /\ o.on \in {"entry", "bridge", "choice"} /\ o.word \in Consent!Words
         /\ o.on = "entry" => o.was \in Entry /\ Consent!Value(o) = entry[o.h]
         /\ o.on = "bridge" => o.was = "none" /\ o.now = "ours" /\ Consent!Value(o) = bridge[o.h]
         /\ o.on = "choice" => o.was \in Consent!Choice
BY DEF Op, Consent!Value

\* What taking a record back does to a file, and to the records.
LEMMA BackShape ==
  ASSUME ConsentTypeOK, NEW i \in 1..Len(log), NEW undo \in BOOLEAN, Consent!TakesBack(i, undo)
  PROVE  /\ \A h \in Harness : \/ entry'[h] = entry[h] /\ Consent!Back(log[i], "entry", h, undo) = {}
                               \/ \E o \in Consent!Back(log[i], "entry", h, undo) : entry'[h] = o.was
         /\ \A h \in Harness : \/ bridge'[h] = bridge[h] /\ Consent!Back(log[i], "bridge", h, undo) = {}
                               \/ \E o \in Consent!Back(log[i], "bridge", h, undo) : bridge'[h] = o.was
         /\ \A h \in Harness : \/ choice'[h] = choice[h] /\ said'[h] = said[h]
                               \/ \E o \in Consent!Back(log[i], "choice", h, undo) : choice'[h] = o.was /\ said'[h] = o.word
         /\ entry' \in [Harness -> Entry] /\ bridge' \in [Harness -> Bridge]
         /\ choice' \in [Harness -> Consent!Choice] /\ said' \in [Harness -> Consent!Words]
         /\ log' \in Seq(SUBSET Op) /\ Len(log') = Len(log) /\ log'[i] = {o \in log[i] : ~Consent!Done(o, undo)}
         /\ \A j \in 1..Len(log) : j # i => log'[j] = log[j]
<1> DEFINE B(on, h) == Consent!Back(log[i], on, h, undo)
           First(on, h) == CHOOSE o \in B(on, h) : TRUE
<1>1. log[i] \subseteq Op
  BY DEF ConsentTypeOK
<1>2. \A on, h : B(on, h) # {} => First(on, h) \in B(on, h)
  <2> HIDE DEF B
  <2> QED  OBVIOUS
<1>3. \A on, h : \A o \in B(on, h) : o \in Op /\ o.on = on /\ o.h = h
  BY <1>1 DEF Consent!Back
<1>4. /\ entry'  = [h \in Harness |-> IF B("entry", h) = {} THEN entry[h] ELSE First("entry", h).was]
      /\ choice' = [h \in Harness |-> IF B("choice", h) = {} THEN choice[h] ELSE First("choice", h).was]
      /\ bridge' = [h \in Harness |-> IF B("bridge", h) = {} THEN bridge[h] ELSE First("bridge", h).was]
      /\ said'   = [h \in Harness |-> IF B("choice", h) = {} THEN said[h] ELSE First("choice", h).word]
  BY DEF Consent!TakesBack
<1> HIDE DEF B, First
<1>5. /\ \A h \in Harness : B("entry", h) # {} => First("entry", h).was \in Entry
      /\ \A h \in Harness : B("bridge", h) # {} => First("bridge", h).was = "none"
      /\ \A h \in Harness : B("choice", h) # {} => First("choice", h).was \in Consent!Choice /\ First("choice", h).word \in Consent!Words
  BY <1>2, <1>3, OpShape
<1>6. /\ entry' \in [Harness -> Entry] /\ bridge' \in [Harness -> Bridge]
      /\ choice' \in [Harness -> Consent!Choice] /\ said' \in [Harness -> Consent!Words]
  BY <1>4, <1>5 DEF ConsentTypeOK, Bridge
<1>7. /\ log' \in Seq(SUBSET Op) /\ Len(log') = Len(log) /\ log'[i] = {o \in log[i] : ~Consent!Done(o, undo)}
      /\ \A j \in 1..Len(log) : j # i => log'[j] = log[j]
  <2>1. {o \in log[i] : ~Consent!Done(o, undo)} \in SUBSET Op
    BY <1>1
  <2>2. log' = [log EXCEPT ![i] = {o \in log[i] : ~Consent!Done(o, undo)}]
    BY DEF Consent!TakesBack
  <2> QED  BY <2>1, <2>2 DEF ConsentTypeOK
<1>8. /\ \A h \in Harness : (entry'[h] = entry[h] /\ B("entry", h) = {}) \/ \E o \in B("entry", h) : entry'[h] = o.was
      /\ \A h \in Harness : (bridge'[h] = bridge[h] /\ B("bridge", h) = {}) \/ \E o \in B("bridge", h) : bridge'[h] = o.was
      /\ \A h \in Harness : \/ choice'[h] = choice[h] /\ said'[h] = said[h]
                            \/ \E o \in B("choice", h) : choice'[h] = o.was /\ said'[h] = o.word
  BY <1>2, <1>4
<1> QED  BY <1>6, <1>7, <1>8 DEF B

\* Taking a record back: what stays in a program stays on record, and what the record gives
\* back is named by an older one - or a newer one stands, and the harness is loose.
LEMMA BackKeeps ==
  ASSUME ConsentInv, NEW i \in 1..Len(log), NEW undo \in BOOLEAN, Consent!TakesBack(i, undo),
         ~Consent!Running("setup"), ~Consent!Running("setup")'
  PROVE  Kept' /\ Rooted'
<1>0. ConsentTypeOK /\ Kept /\ Rooted
  BY DEF ConsentInv
<1> DEFINE B(on, h) == Consent!Back(log[i], on, h, undo)
<1>1. /\ \A h \in Harness : (entry'[h] = entry[h] /\ B("entry", h) = {}) \/ \E o \in B("entry", h) : entry'[h] = o.was
      /\ \A h \in Harness : (bridge'[h] = bridge[h] /\ B("bridge", h) = {}) \/ \E o \in B("bridge", h) : bridge'[h] = o.was
      /\ log' \in Seq(SUBSET Op) /\ Len(log') = Len(log) /\ log'[i] = {o \in log[i] : ~Consent!Done(o, undo)}
      /\ \A j \in 1..Len(log) : j # i => log'[j] = log[j]
  BY <1>0, BackShape
<1>2. \A on, h : \A o : o \in B(on, h) <=> o \in log[i] /\ o.on = on /\ o.h = h /\ Consent!Restored(o) /\ (Consent!IsExternal(o) => undo)
  BY DEF Consent!Back
<1> HIDE DEF B
<1>3. \A k \in 1..Len(log) : log[k] \subseteq Op
  BY <1>0 DEF ConsentTypeOK
<1>4. /\ loose \subseteq loose' /\ DOMAIN log = 1..Len(log)
      /\ \A o \in log[i] : \A j \in 1..Len(log) : \A q \in log[j] :
           Consent!Done(o, undo) /\ j > i /\ q.on = o.on /\ q.h = o.h => o.h \in loose'
  BY <1>0 DEF Consent!TakesBack, Consent!Newer, ConsentTypeOK
<1>5. ASSUME NEW h \in Harness, entry'[h] # "none", h \notin loose'
      PROVE  Named("entry", h)'
  <2>1. CASE entry'[h] = entry[h] /\ B("entry", h) = {}
    <3>0. PICK k \in 1..Len(log) : \E o \in log[k] : o.on = "entry" /\ o.h = h
      BY <1>0, <1>4, <1>5, <2>1 DEF Kept, Base, Named
    <3>1. PICK o \in log[k] : o.on = "entry" /\ o.h = h
      BY <3>0
    <3>2. k = i => ~Consent!Restored(o)
      BY <1>2, <2>1, <3>1 DEF Consent!IsExternal
    <3>3. k = i => ~Consent!Done(o, undo)
      <4>1. o \in Op /\ Consent!Value(o) # "none" /\ ~Consent!IsExternal(o)
        BY <1>3, <1>5, <2>1, <3>1, OpShape DEF Consent!IsExternal
      <4> QED  BY <3>2, <4>1 DEF Consent!Done, Consent!Settled
    <3>4. o \in log'[k] /\ k \in 1..Len(log')
      BY <1>1, <3>1, <3>3
    <3> QED  BY <3>1, <3>4 DEF Named
  <2>2. ASSUME NEW o \in B("entry", h), entry'[h] = o.was
        PROVE  Named("entry", h)'
    <3>1. o \in log[i] /\ o.on = "entry" /\ o.h = h
      BY <1>2
    <3>2. PICK k \in 1..Len(log) : k < i /\ \E q \in log[k] : q.on = "entry" /\ q.h = o.h
      BY <1>0, <1>4, <1>5, <2>2, <3>1 DEF Rooted
    <3>3. log'[k] = log[k] /\ k \in 1..Len(log')
      BY <1>1, <3>2
    <3> QED  BY <3>1, <3>2, <3>3 DEF Named
  <2> QED  BY <1>1, <2>1, <2>2
<1>6. ASSUME NEW h \in Harness, bridge'[h] = "ours"
      PROVE  Named("bridge", h)'
  <2>1. ASSUME NEW o \in B("bridge", h)
        PROVE  o.was = "none"
    BY <1>2, <1>3, <2>1, OpShape
  <2>2. bridge[h] = "ours" /\ B("bridge", h) = {}
    BY <1>1, <1>6, <2>1
  <2>0. PICK k \in 1..Len(log) : \E o \in log[k] : o.on = "bridge" /\ o.h = h
    BY <1>0, <2>2 DEF Kept, Named
  <2>3. PICK o \in log[k] : o.on = "bridge" /\ o.h = h
    BY <2>0
  <2>4. o.now = "ours" /\ Consent!Value(o) = "ours"
    BY <1>3, <2>2, <2>3, OpShape
  <2>5. Consent!Restored(o)
    BY <2>4 DEF Consent!Restored
  <2>6. k = i => Consent!IsExternal(o) /\ ~undo
    BY <1>2, <2>2, <2>3, <2>5
  <2>7. k = i => ~Consent!Done(o, undo)
    BY <2>6 DEF Consent!Done, Consent!ExternalUndone
  <2>8. o \in log'[k] /\ k \in 1..Len(log')
    BY <1>1, <2>3, <2>7
  <2> QED  BY <2>3, <2>8 DEF Named
<1>7. Kept'
  BY <1>5, <1>6 DEF Kept, Base
<1>8. ASSUME NEW j \in 1..Len(log'), NEW o \in log'[j], o.on = "entry", o.was # "none", o.h \notin loose'
      PROVE  \E k \in 1..Len(log') : k < j /\ \E q \in log'[k] : q.on = "entry" /\ q.h = o.h
  <2>1. j \in 1..Len(log) /\ o \in log[j] /\ o.h \notin loose
    BY <1>1, <1>4, <1>8
  <2>2. PICK k \in 1..Len(log) : k < j /\ \E q \in log[k] : q.on = "entry" /\ q.h = o.h
    BY <1>0, <1>8, <2>1 DEF Rooted
  <2>3. PICK q \in log[k] : q.on = "entry" /\ q.h = o.h
    BY <2>2
  <2>4. k = i => ~Consent!Done(q, undo)
    BY <1>4, <1>8, <2>1, <2>2, <2>3
  <2>5. q \in log'[k] /\ k \in 1..Len(log')
    BY <1>1, <2>2, <2>3, <2>4
  <2> QED  BY <2>2, <2>3, <2>5
<1>9. Rooted'
  BY <1>8 DEF Rooted
<1> QED  BY <1>7, <1>9

\* The setup goes on with the harnesses todo.
LEMMA SetupGoesOn ==
  ASSUME NEW c \in SetupCmd, NEW todo \in SUBSET Harness, NEW register \in SUBSET Harness
  PROVE  /\ [c EXCEPT !.todo = todo, !.register = register] \in SetupCmd
         /\ [c EXCEPT !.todo = todo, !.register = register].before = c.before
<1>1. [c EXCEPT !.todo = todo, !.register = register] \in SetupCmd
  BY DEF SetupCmd
<1>2. [c EXCEPT !.todo = todo, !.register = register].before = c.before
  BY DEF SetupCmd
<1> QED  BY <1>1, <1>2

\* What a step of the setup may do to one harness.
StepsOn(h) ==
  /\ cmd' \in SetupCmd /\ cmd'.before = cmd.before
  /\ entry' \in [Harness -> Entry] /\ choice' \in [Harness -> Consent!Choice] /\ said' \in [Harness -> Consent!Words]

LEMMA RememberKeeps ==
  ASSUME ConsentTypeOK, NEW h \in Harness, NEW what \in Consent!Choice, Consent!Remember(h, what)
  PROVE  choice' \in [Harness -> Consent!Choice]
BY DEF Consent!Remember, ConsentTypeOK

LEMMA SaysKeeps ==
  ASSUME ConsentTypeOK, NEW h \in Harness, NEW word \in Consent!Words, Consent!Says(h, word)
  PROVE  said' \in [Harness -> Consent!Words]
BY DEF Consent!Says, ConsentTypeOK, Consent!Words

LEMMA WritesKeeps ==
  ASSUME ConsentTypeOK, NEW h \in Harness, Consent!Writes(h)
  PROVE  entry' \in [Harness -> Entry]
BY DEF Consent!Writes, Consent!Texts, ConsentTypeOK, Entry

LEMMA WordsAre ==
  /\ \A mcp : Consent!Configured(mcp) \in Consent!Choice /\ Consent!Word(mcp) \in Consent!Words
  /\ {"none", "skipped"} \subseteq Consent!Choice /\ {"no", "entry", "unheeded"} \subseteq Consent!Words
BY ChoiceIs DEF Consent!Configured, Consent!Word, Consent!Words

LEMMA ApplySteps ==
  ASSUME ConsentTypeOK, cmd \in SetupCmd, NEW h \in Harness, NEW record, NEW mcp, NEW word \in Consent!Words,
         Consent!Apply(h, record, mcp, word)
  PROVE  StepsOn(h)
<1>1. cmd.todo \ {h} \in SUBSET Harness /\ cmd.register \in SUBSET Harness /\ cmd.register \cup {h} \in SUBSET Harness
  BY DEF SetupCmd
<1>2. Consent!Configured(mcp) \in Consent!Choice /\ "unheeded" \in Consent!Words
  BY WordsAre
<1>3. \E r \in SUBSET Harness : cmd' = [cmd EXCEPT !.todo = cmd.todo \ {h}, !.register = r]
  <2>1. CASE cmd' = [cmd EXCEPT !.todo = @ \ {h}, !.register = IF mcp THEN @ \cup {h} ELSE @]
    BY <1>1, <2>1
  <2>2. CASE cmd' = [cmd EXCEPT !.todo = @ \ {h}]
    <3>1. cmd' = [cmd EXCEPT !.todo = cmd.todo \ {h}, !.register = cmd.register]
      BY <2>2 DEF SetupCmd
    <3> QED  BY <1>1, <3>1
  <2> QED  BY <2>1, <2>2 DEF Consent!Apply
<1>4. choice' \in [Harness -> Consent!Choice]
  BY <1>2, RememberKeeps DEF Consent!Apply, ConsentTypeOK
<1>5. said' \in [Harness -> Consent!Words]
  BY <1>2, SaysKeeps DEF Consent!Apply, ConsentTypeOK
<1>6. entry' \in [Harness -> Entry]
  BY WritesKeeps DEF Consent!Apply, ConsentTypeOK
<1>7. PICK r \in SUBSET Harness : cmd' = [cmd EXCEPT !.todo = cmd.todo \ {h}, !.register = r]
  BY <1>3
<1>8. /\ [cmd EXCEPT !.todo = cmd.todo \ {h}, !.register = r] \in SetupCmd
      /\ [cmd EXCEPT !.todo = cmd.todo \ {h}, !.register = r].before = cmd.before
  BY <1>1, SetupGoesOn
<1> QED  BY <1>4, <1>5, <1>6, <1>7, <1>8 DEF StepsOn

LEMMA PassedSteps ==
  ASSUME ConsentTypeOK, cmd \in SetupCmd, NEW h \in Harness, NEW todo \in SUBSET Harness, cmd' = [cmd EXCEPT !.todo = todo],
         UNCHANGED entry, choice' \in [Harness -> Consent!Choice], said' \in [Harness -> Consent!Words]
  PROVE  StepsOn(h)
<1>1. cmd' = [cmd EXCEPT !.todo = todo, !.register = cmd.register] /\ cmd.register \in SUBSET Harness
  BY DEF SetupCmd
<1>2. /\ [cmd EXCEPT !.todo = todo, !.register = cmd.register] \in SetupCmd
      /\ [cmd EXCEPT !.todo = todo, !.register = cmd.register].before = cmd.before
  BY <1>1, SetupGoesOn
<1> QED  BY <1>1, <1>2 DEF StepsOn, ConsentTypeOK

LEMMA TurnIs ==
  ASSUME ConsentTypeOK, Consent!SetupStep
  PROVE  cmd \in SetupCmd /\ Consent!Turn \in cmd.todo /\ Consent!Turn \in Harness
<1>1. cmd \in SetupCmd /\ cmd.todo # {}
  BY DEF Consent!SetupStep, Consent!Running, ConsentTypeOK, UninstallCmd
<1>2. Consent!Turn \in cmd.todo
  BY <1>1 DEF Consent!Turn
<1> QED  BY <1>1, <1>2 DEF SetupCmd

LEMMA SetupSteps ==
  ASSUME ConsentTypeOK, Consent!SetupStep
  PROVE  \E h \in Harness : StepsOn(h)
<1>1. cmd \in SetupCmd /\ Consent!Turn \in Harness
  BY TurnIs
<1>2. PICK h \in Harness : \/ Consent!Explicit(h) \/ Consent!Standing(h) \/ Consent!Unattended(h) \/ Consent!Undetected(h)
                           \/ \E a \in Consent!Answer : Consent!Asked(h, a)
  BY <1>1 DEF Consent!SetupStep
<1>3. cmd.todo \ {h} \in SUBSET Harness /\ {} \in SUBSET Harness
  BY <1>1 DEF SetupCmd
<1>4. Consent!Passed(h) => StepsOn(h)
  BY <1>1, <1>3, PassedSteps DEF Consent!Passed, ConsentTypeOK
<1>5. Consent!Skipped(h) => StepsOn(h)
  <2>1. "skipped" \in Consent!Choice /\ "no" \in Consent!Words
    BY WordsAre
  <2>2. Consent!Skipped(h) => choice' \in [Harness -> Consent!Choice] /\ said' \in [Harness -> Consent!Words]
    BY <2>1, RememberKeeps, SaysKeeps DEF Consent!Skipped
  <2> QED  BY <1>1, <1>3, <2>2, PassedSteps DEF Consent!Skipped
<1>6. \A record, mcp : \A word \in Consent!Words : Consent!Apply(h, record, mcp, word) => StepsOn(h)
  BY <1>1, ApplySteps
<1>7. said[h] \in Consent!Words /\ \A mcp : Consent!Word(mcp) \in Consent!Words
  BY WordsAre DEF ConsentTypeOK
<1>8. UNCHANGED <<entry, choice, said>> /\ cmd' = [cmd EXCEPT !.todo = {}] => StepsOn(h)
  BY <1>1, <1>3, PassedSteps DEF ConsentTypeOK
<1> QED
  BY <1>2, <1>4, <1>5, <1>6, <1>7, <1>8
     DEF Consent!Explicit, Consent!Standing, Consent!Unattended, Consent!Undetected, Consent!Asked

\* A command that registers nothing and records what it did.
LEMMA RecordedCommand ==
  ASSUME ConsentInv, cmd = Unset, UNCHANGED <<cmd, bridge, loose>>, log' = Consent!Recorded(Consent!Now), removed' = FALSE,
         entry' \in [Harness -> Entry], choice' \in [Harness -> Consent!Choice], said' \in [Harness -> Consent!Words]
  PROVE  ConsentInv'
<1>1. Consent!Now \in Before /\ Consent!Now.entry = Base
  BY DEF Consent!Now, Before, Base, Consent!Running, ConsentInv, ConsentTypeOK
<1>2. bridge' \in [Harness -> Bridge] /\ ConsentTypeOK
  BY DEF ConsentInv, ConsentTypeOK
<1>3. Kept' /\ Rooted' /\ log' \in Seq(SUBSET Op)
  BY <1>1, RecordedKept DEF Consent!Running
<1>4. ConsentTypeOK'
  BY <1>2, <1>3 DEF ConsentTypeOK
<1> QED  BY <1>3, <1>4 DEF ConsentInv, UninstalledIsGone, Consent!UninstalledIsGone

LEMMA ConsentStep ==
  ASSUME ConsentInv, [Consent!Next]_Consent!vars
  PROVE  ConsentInv'
<1> USE DEF Consent!Running
<1>0. ConsentTypeOK /\ Kept /\ Rooted
  BY DEF ConsentInv
<1>1. CASE UNCHANGED Consent!vars
  <2>1. UNCHANGED <<entry, bridge, choice, said, log, cmd, removed, loose>>
    BY <1>1 DEF Consent!vars
  <2>2. ConsentTypeOK'
    BY <2>1, <1>0 DEF ConsentTypeOK, SetupCmd, UninstallCmd
  <2>3. Kept' /\ Rooted'
    BY <2>1, <1>0 DEF Kept, Base, Rooted, Named
  <2> QED  BY <2>1, <2>2, <2>3 DEF ConsentInv, UninstalledIsGone, Consent!UninstalledIsGone
<1>2. CASE Consent!BeginSetup
  <2>1. UNCHANGED <<entry, bridge, choice, said, log, loose>> /\ removed' = FALSE /\ cmd = Unset
    BY <1>2 DEF Consent!BeginSetup, Consent!written
  <2>2. cmd' \in SetupCmd /\ cmd'.before.entry = entry
    <3>1. Consent!Now \in Before /\ Consent!Now.entry = entry
      BY <1>0 DEF Consent!Now, Before, ConsentTypeOK
    <3> HIDE DEF Consent!Now
    <3> QED  BY <1>2, <3>1 DEF Consent!BeginSetup, SetupCmd, Consent!Selection
  <2>3. ConsentTypeOK'
    BY <2>1, <2>2, <1>0 DEF ConsentTypeOK
  <2>4. Kept' /\ Rooted'
    BY <2>1, <2>2, <1>0 DEF Kept, Base, Rooted, Named
  <2> QED  BY <2>1, <2>3, <2>4 DEF ConsentInv, UninstalledIsGone, Consent!UninstalledIsGone
<1>3. CASE Consent!SetupStep
  <2>1. PICK h \in Harness : StepsOn(h)
    BY <1>3, <1>0, SetupSteps
  <2>2. UNCHANGED <<bridge, log, removed, loose>> /\ Consent!Running("setup") /\ removed = FALSE
    BY <1>3 DEF Consent!SetupStep, ConsentInv
  <2>3. cmd' \in SetupCmd /\ cmd'.before = cmd.before /\ Consent!Running("setup")'
    BY <2>1, SetupIsSet DEF StepsOn
  <2>4. ConsentTypeOK'
    BY <2>1, <2>2, <1>0 DEF ConsentTypeOK, StepsOn
  <2>5. Kept' /\ Rooted'
    BY <2>2, <2>3, <1>0 DEF Kept, Base, Rooted, Named
  <2> QED  BY <2>2, <2>4, <2>5 DEF ConsentInv, UninstalledIsGone, Consent!UninstalledIsGone
<1>4. CASE Consent!SetupEnds
  <2>1. /\ UNCHANGED <<entry, choice, said, removed, loose>> /\ cmd' = Unset /\ log' = Consent!Recorded(cmd.before)
        /\ Consent!Running("setup") /\ removed = FALSE
    BY <1>4 DEF Consent!SetupEnds, ConsentInv
  <2>2. /\ bridge' \in [Harness -> Bridge]
        /\ \A h \in Harness : bridge'[h] = bridge[h] \/ (bridge[h] = "none" /\ bridge'[h] = "ours")
    BY <1>4, <1>0 DEF Consent!SetupEnds, Consent!Registers, ConsentTypeOK, Bridge
  <2>3. cmd.before \in Before /\ cmd.before.entry = Base
    BY <2>1, <1>0 DEF ConsentTypeOK, SetupCmd, UninstallCmd, Base
  <2>4. entry' \in [Harness -> Entry] /\ choice' \in [Harness -> Consent!Choice] /\ said' \in [Harness -> Consent!Words]
    BY <2>1, <1>0 DEF ConsentTypeOK
  <2>5. Kept' /\ Rooted' /\ log' \in Seq(SUBSET Op)
    BY <2>1, <2>2, <2>3, <2>4, RecordedKept
  <2>6. ConsentTypeOK'
    BY <2>1, <2>2, <2>4, <2>5 DEF ConsentTypeOK
  <2> QED  BY <2>1, <2>5, <2>6 DEF ConsentInv, UninstalledIsGone, Consent!UninstalledIsGone
<1>5. CASE Consent!Repair
  <2>1. entry' \in [Harness -> Entry] /\ said' \in [Harness -> Consent!Words] /\ UNCHANGED choice
    BY <1>5, <1>0 DEF Consent!Repair, ConsentTypeOK, Entry, Consent!Words
  <2> QED  BY <1>5, <1>0, <2>1, RecordedCommand DEF Consent!Repair, ConsentTypeOK
<1>6. ASSUME NEW h \in Harness, Consent!Integrate(h)
      PROVE  ConsentInv'
  <2>1. entry' \in [Harness -> Entry]
    BY <1>6, <1>0, WritesKeeps DEF Consent!Integrate, ConsentTypeOK
  <2>2. (IF said[h] = "no" THEN "entry" ELSE said[h]) \in Consent!Words
    BY <1>0, WordsAre DEF ConsentTypeOK
  <2>3. said' \in [Harness -> Consent!Words]
    BY <1>6, <1>0, <2>2, SaysKeeps DEF Consent!Integrate
  <2>4. choice' \in [Harness -> Consent!Choice]
    BY <1>6, <1>0, WordsAre, RememberKeeps DEF Consent!Integrate, ConsentTypeOK
  <2> QED  BY <1>6, <2>1, <2>3, <2>4, RecordedCommand DEF Consent!Integrate
<1>7. ASSUME NEW h \in Harness, Consent!Forget(h)
      PROVE  ConsentInv'
  <2>1. said' \in [Harness -> Consent!Words] /\ choice' \in [Harness -> Consent!Choice]
    BY <1>7, <1>0, WordsAre DEF Consent!Forget, ConsentTypeOK
  <2> QED  BY <1>7, <1>0, <2>1, RecordedCommand DEF Consent!Forget, ConsentTypeOK
<1>8. CASE Consent!Rollback
  <2>1. PICK i \in DOMAIN log : Consent!TakesBack(i, FALSE)
    BY <1>8 DEF Consent!Rollback
  <2>2. i \in 1..Len(log) /\ cmd = Unset /\ UNCHANGED cmd /\ removed' = FALSE
    BY <1>8, <1>0 DEF Consent!Rollback, ConsentTypeOK
  <2>3. /\ entry' \in [Harness -> Entry] /\ bridge' \in [Harness -> Bridge] /\ choice' \in [Harness -> Consent!Choice]
        /\ said' \in [Harness -> Consent!Words] /\ log' \in Seq(SUBSET Op)
    BY <2>1, <2>2, <1>0, BackShape
  <2>4. Kept' /\ Rooted'
    BY <2>1, <2>2, BackKeeps
  <2>5. ConsentTypeOK'
    BY <2>2, <2>3 DEF ConsentTypeOK
  <2> QED  BY <2>2, <2>4, <2>5 DEF ConsentInv, UninstalledIsGone, Consent!UninstalledIsGone
<1>9. CASE Consent!BeginUninstall
  <2>1. /\ UNCHANGED <<entry, bridge, choice, said, log, loose>> /\ removed' = FALSE /\ cmd = Unset
        /\ cmd' = [is |-> "uninstall", at |-> Len(log)]
    BY <1>9 DEF Consent!BeginUninstall, Consent!written
  <2>2. cmd' \in UninstallCmd' /\ cmd'.is = "uninstall"
    BY <2>1, <1>0 DEF UninstallCmd, ConsentTypeOK
  <2>3. ConsentTypeOK'
    BY <2>1, <2>2, <1>0 DEF ConsentTypeOK
  <2>4. Kept' /\ Rooted'
    BY <2>1, <2>2, <1>0 DEF Kept, Base, Rooted, Named
  <2> QED  BY <2>1, <2>3, <2>4 DEF ConsentInv, UninstalledIsGone, Consent!UninstalledIsGone
<1>10. CASE Consent!UninstallStep
  <2>1. cmd \in UninstallCmd /\ cmd # Unset /\ cmd.at > 0 /\ removed = FALSE /\ UNCHANGED removed /\ cmd' = [cmd EXCEPT !.at = @ - 1]
    BY <1>10, <1>0, SetupIsSet DEF Consent!UninstallStep, ConsentInv, ConsentTypeOK
  <2>2. cmd.at \in 1..Len(log) /\ cmd.is = "uninstall" /\ Len(log) \in Nat
    BY <2>1, <1>0 DEF UninstallCmd, ConsentTypeOK
  <2>3. PICK undo \in BOOLEAN : Consent!TakesBack(cmd.at, undo)
    BY <1>10 DEF Consent!UninstallStep
  <2>4. /\ entry' \in [Harness -> Entry] /\ bridge' \in [Harness -> Bridge] /\ choice' \in [Harness -> Consent!Choice]
        /\ said' \in [Harness -> Consent!Words] /\ log' \in Seq(SUBSET Op) /\ Len(log') = Len(log)
    BY <2>2, <2>3, <1>0, BackShape
  <2>5. cmd' = [is |-> "uninstall", at |-> cmd.at - 1] /\ cmd.at - 1 \in 0..Len(log')
    BY <2>1, <2>2, <2>4 DEF UninstallCmd
  <2>6. cmd' \in UninstallCmd' /\ cmd'.is = "uninstall"
    BY <2>5 DEF UninstallCmd
  <2>7. Kept' /\ Rooted'
    BY <2>2, <2>3, <2>6, BackKeeps
  <2>8. ConsentTypeOK'
    BY <2>4, <2>6 DEF ConsentTypeOK
  <2> QED  BY <2>1, <2>7, <2>8 DEF ConsentInv, UninstalledIsGone, Consent!UninstalledIsGone
<1>11. CASE Consent!UninstallEnds
  <2>1. /\ UNCHANGED <<entry, bridge, choice, said, log, loose>> /\ cmd' = Unset /\ cmd # Unset /\ cmd.is = "uninstall"
        /\ removed' = (\A i \in DOMAIN log : log[i] = {})
    BY <1>11 DEF Consent!UninstallEnds, Consent!Active, Consent!written
  <2>2. ConsentTypeOK'
    BY <2>1, <1>0 DEF ConsentTypeOK
  <2>3. Kept' /\ Rooted'
    BY <2>1, <1>0 DEF Kept, Base, Rooted, Named
  <2>4. ASSUME removed'
        PROVE  \A on, h : ~Named(on, h)'
    <3>1. DOMAIN log = 1..Len(log)
      BY <1>0 DEF ConsentTypeOK
    <3>2. \A i \in DOMAIN log : log[i] = {}
      BY <2>1, <2>4, Zenon
    <3> QED  BY <2>1, <3>1, <3>2 DEF Named
  <2>5. \A h \in Harness : (entry'[h] # "none" /\ h \notin loose' => Named("entry", h)') /\ (bridge'[h] = "ours" => Named("bridge", h)')
    BY <2>1, <2>3 DEF Kept, Base
  <2>6. UninstalledIsGone'
    BY <2>4, <2>5 DEF UninstalledIsGone, Consent!UninstalledIsGone
  <2> QED  BY <2>1, <2>2, <2>3, <2>6 DEF ConsentInv
<1>12. ASSUME NEW h \in Harness, Consent!Others(h)
       PROVE  ConsentInv'
  <2>1. UNCHANGED <<cmd, log, loose>> /\ cmd = Unset /\ removed' = FALSE
    BY <1>12 DEF Consent!Others
  <2>2. /\ entry' \in [Harness -> Entry] /\ bridge' \in [Harness -> Bridge]
        /\ \A g \in Harness : (entry'[g] # "none" => entry[g] # "none") /\ (bridge'[g] = "ours" => bridge[g] = "ours")
    BY <1>12, <1>0 DEF Consent!Others, ConsentTypeOK, Entry, Bridge, Consent!written
  <2>3. choice' \in [Harness -> Consent!Choice] /\ said' \in [Harness -> Consent!Words]
    <3>1. \A d \in Consent!Damage, i \in 1..2 : d[3 - i] \in Consent!Choice
      BY ChoiceIs DEF Consent!Damage
    <3> QED  BY <1>12, <1>0, <3>1, WordsAre DEF Consent!Others, ConsentTypeOK, Consent!written
  <2>4. ConsentTypeOK'
    BY <2>1, <2>2, <2>3, <1>0 DEF ConsentTypeOK
  <2>5. Kept' /\ Rooted'
    BY <2>1, <2>2, <1>0 DEF Kept, Base, Rooted, Named
  <2> QED  BY <2>1, <2>4, <2>5 DEF ConsentInv, UninstalledIsGone, Consent!UninstalledIsGone
<1> QED
  BY <1>1, <1>2, <1>3, <1>4, <1>5, <1>6, <1>7, <1>8, <1>9, <1>10, <1>11, <1>12 DEF Consent!Next

(***************************************************************************)
(* After an uninstall that reports success no program holds an entry or a  *)
(* registration of this installation, unless an older change of its entry  *)
(* was undone while a newer one stood: what the kit left anywhere is on a  *)
(* record until it is taken back, also what an earlier rollback could not  *)
(* undo, and a record that gives an older text back stands above one that  *)
(* still names it (cmdUninstall, cmdRollback with an id).                  *)
(***************************************************************************)
THEOREM GoneTheorem == Spec => []UninstalledIsGone
<1>1. Init => ConsentInv
  BY ConsentInit DEF Init
<1>2. ConsentInv /\ [Next]_vars => ConsentInv'
  BY EachPart, ConsentStep
<1>3. ConsentInv => UninstalledIsGone
  BY DEF ConsentInv
<1> QED  BY <1>1, <1>2, <1>3, PTL DEF Spec, vars

(***************************************************************************)
(* Consent: what a decision file says, the user has said, and so with what *)
(* a record brings back.                                                   *)
(***************************************************************************)
SaidInv ==
  /\ ConsentTypeOK
  /\ \A h \in Harness : Consent!Covers(said[h], choice[h])
  /\ \A j \in 1..Len(log) : \A o \in log[j] : o.on = "choice" => Consent!Covers(o.word, o.was)
  /\ Consent!Running("setup") =>
       /\ \A h \in Harness : Consent!Covers(cmd.before.said[h], cmd.before.choice[h])
       /\ \A h \in cmd.register : said[h] \in {"bridge", "unheeded"} /\ h \notin cmd.todo

LEMMA SaidInit == Consent!Init => SaidInv
<1> SUFFICES ASSUME Consent!Init PROVE SaidInv
  OBVIOUS
<1>1. ConsentTypeOK /\ log = <<>> /\ cmd = Unset
  BY ConsentInit DEF ConsentInv, Consent!Init
<1>2. \A h \in Harness : Consent!Covers(said[h], choice[h])
  BY DEF Consent!Init, Consent!Covers
<1> QED  BY <1>1, <1>2 DEF SaidInv, Consent!Running

\* A word that could not be recorded covers what the file says.
LEMMA CoversIs ==
  /\ \A c : Consent!Covers("unheeded", c) /\ Consent!Covers("bridge", c)
  /\ \A w : Consent!Covers(w, "none") /\ Consent!Covers(w, "skipped")
  /\ \A w, c : Consent!Covers(w, c) => Consent!Covers(IF w = "no" THEN "entry" ELSE w, c)
  /\ \A mcp \in BOOLEAN : Consent!Covers(Consent!Word(mcp), Consent!Configured(mcp))
BY DEF Consent!Covers, Consent!Word, Consent!Configured

\* What a step of the setup says of one harness.
Heard(h) ==
  /\ \A g \in Harness : Consent!Covers(said'[g], choice'[g])
  /\ \A g \in cmd'.register : said'[g] \in {"bridge", "unheeded"} /\ g \notin cmd'.todo
  /\ \A g \in Harness : entry[g] = "none" /\ entry'[g] # "none" => said'[g] # "no"

\* Of the other harnesses nothing changes; this one is done with.
LEMMA HeardOf ==
  ASSUME SaidInv, Consent!Running("setup"), cmd \in SetupCmd, NEW h \in cmd.todo,
         \A g \in Harness \ {h} : choice'[g] = choice[g] /\ said'[g] = said[g] /\ entry'[g] = entry[g],
         Consent!Covers(said'[h], choice'[h]), entry[h] = "none" /\ entry'[h] # "none" => said'[h] # "no",
         cmd'.todo \subseteq cmd.todo \ {h}, cmd'.register \subseteq cmd.register \cup {h},
         h \in cmd'.register => said'[h] \in {"bridge", "unheeded"}
  PROVE  Heard(h)
<1>1. cmd.register \subseteq Harness /\ h \in Harness /\ h \notin cmd.register
  BY DEF SaidInv, SetupCmd
<1> QED  BY <1>1 DEF SaidInv, Heard

LEMMA ApplyHeard ==
  ASSUME SaidInv, Consent!Running("setup"), cmd \in SetupCmd, NEW h \in cmd.todo, NEW record \in BOOLEAN, NEW mcp \in BOOLEAN,
         NEW word \in Consent!Words, Consent!Apply(h, record, mcp, word),
         record => Consent!Covers(word, Consent!Configured(mcp)),
         ~record => Consent!Covers(word, choice[h]) \/ ~Consent!Readable(h),
         mcp => word \in {"bridge", "unheeded"}, entry[h] # "none" \/ word # "no"
  PROVE  Heard(h)
<1>1. ConsentTypeOK /\ h \in Harness /\ Consent!Covers(said[h], choice[h]) /\ h \notin cmd.register
  BY DEF SaidInv, SetupCmd
<1>2. DOMAIN said = Harness /\ DOMAIN choice = Harness /\ DOMAIN entry = Harness
  BY <1>1 DEF ConsentTypeOK
<1>3. \A g \in Harness \ {h} : choice'[g] = choice[g] /\ said'[g] = said[g] /\ entry'[g] = entry[g]
  BY <1>2 DEF Consent!Apply, Consent!Remember, Consent!Says, Consent!Writes
<1>4. Consent!Says(h, word) => said'[h] = IF Consent!Readable(h) \/ Consent!Covers(word, choice[h]) THEN word ELSE "unheeded"
  BY <1>1, <1>2 DEF Consent!Says
<1>5. /\ cmd'.todo \subseteq cmd.todo \ {h} /\ cmd'.register \subseteq cmd.register \cup {h}
      /\ h \in cmd'.register => mcp /\ Consent!Says(h, word)
  <2>1. DOMAIN cmd = {"is", "explicit", "tty", "declined", "built", "reask", "todo", "register", "before"}
    BY DEF SetupCmd
  <2>2. ASSUME cmd' = [cmd EXCEPT !.todo = @ \ {h}]
        PROVE  cmd'.todo = cmd.todo \ {h} /\ cmd'.register = cmd.register
    BY <2>1, <2>2
  <2>3. ASSUME cmd' = [cmd EXCEPT !.todo = @ \ {h}, !.register = IF mcp THEN @ \cup {h} ELSE @]
        PROVE  cmd'.todo = cmd.todo \ {h} /\ cmd'.register = IF mcp THEN cmd.register \cup {h} ELSE cmd.register
    BY <2>1, <2>3
  <2> QED  BY <1>1, <2>2, <2>3 DEF Consent!Apply
<1>6. Consent!Remember(h, Consent!Configured(mcp)) => choice'[h] = IF Consent!Readable(h) THEN Consent!Configured(mcp) ELSE choice[h]
  BY <1>1, <1>2 DEF Consent!Remember
<1>7. Consent!Covers(said'[h], choice'[h])
  <2>1. CASE said' = [said EXCEPT ![h] = IF Consent!Covers(word, choice[h]) THEN @ ELSE "unheeded"] /\ UNCHANGED choice
    <3>1. said'[h] = said[h] \/ said'[h] = "unheeded"
      BY <1>1, <1>2, <2>1
    <3> QED  BY <1>1, <2>1, <3>1, CoversIs
  <2>2. CASE Consent!Says(h, word) /\ UNCHANGED choice /\ ~record
    BY <1>4, <2>2, CoversIs
  <2>3. CASE Consent!Says(h, word) /\ Consent!Remember(h, Consent!Configured(mcp)) /\ record
    BY <1>4, <1>6, <2>3, CoversIs
  <2> QED  BY <2>1, <2>2, <2>3 DEF Consent!Apply
<1>8. Consent!Says(h, word) /\ word # "no" => said'[h] # "no"
  BY <1>4
<1>9. entry[h] = "none" /\ entry'[h] # "none" => said'[h] # "no"
  BY <1>8 DEF Consent!Apply
<1>10. h \in cmd'.register => said'[h] \in {"bridge", "unheeded"}
  BY <1>4, <1>5
<1> QED  BY <1>3, <1>5, <1>7, <1>9, <1>10, HeardOf

LEMMA PassedHeard ==
  ASSUME SaidInv, Consent!Running("setup"), cmd \in SetupCmd, NEW h \in cmd.todo, Consent!Passed(h)
  PROVE  Heard(h)
<1>1. cmd'.todo = cmd.todo \ {h} /\ cmd'.register = cmd.register /\ UNCHANGED <<entry, choice, said>>
  BY DEF Consent!Passed, SetupCmd
<1> QED  BY <1>1 DEF SaidInv, Heard

LEMMA SkippedHeard ==
  ASSUME SaidInv, Consent!Running("setup"), cmd \in SetupCmd, NEW h \in cmd.todo, Consent!Skipped(h)
  PROVE  Heard(h)
<1>1. cmd'.todo = cmd.todo \ {h} /\ cmd'.register = cmd.register /\ UNCHANGED entry
  BY DEF Consent!Skipped, SetupCmd
<1>2. ConsentTypeOK /\ h \in Harness /\ h \notin cmd.register
  BY DEF SaidInv, SetupCmd
<1>3. DOMAIN said = Harness /\ DOMAIN choice = Harness
  BY <1>2 DEF ConsentTypeOK
<1>4. /\ said'[h] = IF Consent!Readable(h) \/ Consent!Covers("no", choice[h]) THEN "no" ELSE "unheeded"
      /\ choice'[h] = IF Consent!Readable(h) THEN "skipped" ELSE choice[h]
  BY <1>2, <1>3 DEF Consent!Skipped, Consent!Remember, Consent!Says
<1>5. Consent!Covers(said'[h], choice'[h])
  BY <1>4, CoversIs
<1>6. \A g \in Harness \ {h} : choice'[g] = choice[g] /\ said'[g] = said[g] /\ entry'[g] = entry[g]
  BY <1>1, <1>3 DEF Consent!Skipped, Consent!Remember, Consent!Says
<1> QED  BY <1>1, <1>2, <1>5, <1>6, HeardOf

LEMMA SetupHeard ==
  ASSUME SaidInv, Consent!SetupStep
  PROVE  \E h \in Harness : Heard(h)
<1>1. ConsentTypeOK /\ Consent!Running("setup") /\ cmd \in SetupCmd /\ Consent!Turn \in cmd.todo
  BY TurnIs DEF Consent!SetupStep, SaidInv
<1>2. PICK h \in cmd.todo : \/ Consent!Explicit(h) \/ Consent!Standing(h) \/ Consent!Unattended(h) \/ Consent!Undetected(h)
                            \/ \E a \in Consent!Answer : Consent!Asked(h, a)
  BY <1>1 DEF Consent!SetupStep
<1>3. h \in Harness /\ Consent!Covers(said[h], choice[h]) /\ said[h] \in Consent!Words
  BY <1>1 DEF SetupCmd, SaidInv, ConsentTypeOK
<1>4. (Consent!Passed(h) => Heard(h)) /\ (Consent!Skipped(h) => Heard(h))
  BY <1>1, PassedHeard, SkippedHeard
<1>5. \A mcp \in BOOLEAN :
        /\ Consent!Word(mcp) \in Consent!Words /\ Consent!Word(mcp) # "no" /\ (mcp => Consent!Word(mcp) = "bridge")
        /\ Consent!Covers(Consent!Word(mcp), Consent!Configured(mcp))
  BY CoversIs, WordsAre DEF Consent!Word
<1>6. Consent!MayRefresh(h) /\ Consent!Apply(h, FALSE, FALSE, said[h]) => Heard(h)
  <2>1. Consent!MayRefresh(h) => entry[h] # "none"
    BY DEF Consent!MayRefresh, Consent!Owned
  <2> QED  BY <1>1, <1>3, <2>1, ApplyHeard
<1>7. Consent!Consented(h) /\ Consent!Apply(h, FALSE, Consent!StoredMcp(h), said[h]) => Heard(h)
  <2>1. Consent!StoredMcp(h) \in BOOLEAN /\ (Consent!StoredMcp(h) => said[h] \in {"bridge", "unheeded"})
    BY <1>3 DEF Consent!StoredMcp, Consent!Covers
  <2>2. Consent!Consented(h) => said[h] # "no"
    BY <1>3 DEF Consent!Consented, Consent!Covers
  <2> QED  BY <1>1, <1>3, <2>1, <2>2, ApplyHeard
<1>8. Consent!Apply(h, TRUE, ~cmd.declined, Consent!Word(~cmd.declined)) => Heard(h)
  <2>1. (~cmd.declined) \in BOOLEAN
    OBVIOUS
  <2> QED  BY <1>1, <1>5, <2>1, ApplyHeard
<1>9. Consent!Apply(h, Consent!Readable(h), Consent!Offered(h), Consent!Word(Consent!Offered(h))) => Heard(h)
  <2>1. Consent!Readable(h) \in BOOLEAN /\ Consent!Offered(h) \in BOOLEAN
    BY DEF Consent!Readable, Consent!Offered
  <2> QED  BY <1>1, <1>5, <2>1, ApplyHeard
<1>10. UNCHANGED <<entry, choice, said>> /\ cmd' = [cmd EXCEPT !.todo = {}] => Heard(h)
  <2>1. cmd' = [cmd EXCEPT !.todo = {}] => cmd'.todo = {} /\ cmd'.register = cmd.register
    BY <1>1 DEF SetupCmd
  <2> QED  BY <1>1, <2>1 DEF Heard, SaidInv
<1>11. CASE Consent!Explicit(h)
  BY <1>3, <1>4, <1>8, <1>11 DEF Consent!Explicit
<1>12. CASE Consent!Standing(h)
  BY <1>3, <1>4, <1>7, <1>12 DEF Consent!Standing
<1>13. CASE Consent!Unattended(h)
  BY <1>3, <1>4, <1>6, <1>13 DEF Consent!Unattended
<1>14. CASE \E a \in Consent!Answer : Consent!Asked(h, a)
  BY <1>3, <1>4, <1>6, <1>9, <1>10, <1>14 DEF Consent!Asked
<1>15. CASE Consent!Undetected(h)
  BY <1>3, <1>4, <1>15 DEF Consent!Undetected
<1> QED  BY <1>2, <1>3, <1>11, <1>12, <1>13, <1>14, <1>15

\* What a command found is recorded with the word it was decided on.
LEMMA RecordedWords ==
  ASSUME SaidInv, ConsentTypeOK', NEW before \in Before, log' = Consent!Recorded(before),
         \A h \in Harness : Consent!Covers(before.said[h], before.choice[h]),
         \A h \in Harness : bridge'[h] = bridge[h] \/ (bridge[h] = "none" /\ bridge'[h] = "ours")
  PROVE  \A j \in 1..Len(log') : \A o \in log'[j] : o.on = "choice" => Consent!Covers(o.word, o.was)
<1>1. /\ log' \in Seq(SUBSET Op) /\ \A j \in 1..Len(log) : log'[j] = log[j]
      /\ \A j \in 1..Len(log') : j \notin 1..Len(log) =>
           \A o \in log'[j] : o.on = "choice" => o.was = before.choice[o.h] /\ o.word = before.said[o.h]
  BY RecordKeeps DEF SaidInv, ConsentTypeOK
<1>2. \A j \in 1..Len(log') : \A o \in log'[j] : o.h \in Harness
  BY <1>1, OpShape
<1> QED  BY <1>1, <1>2 DEF SaidInv

\* A command that decides and ends in one step.
LEMMA SaidCommand ==
  ASSUME SaidInv, ConsentTypeOK', cmd = Unset, UNCHANGED <<cmd, bridge>>, log' = Consent!Recorded(Consent!Now),
         \A h \in Harness : Consent!Covers(said'[h], choice'[h])
  PROVE  SaidInv'
<1>1. ConsentTypeOK
  BY DEF SaidInv
<1>2. Consent!Now \in Before /\ \A h \in Harness : Consent!Covers(Consent!Now.said[h], Consent!Now.choice[h])
  BY <1>1 DEF Consent!Now, Before, ConsentTypeOK, SaidInv
<1>3. \A j \in 1..Len(log') : \A o \in log'[j] : o.on = "choice" => Consent!Covers(o.word, o.was)
  <2> HIDE DEF Consent!Now
  <2> QED  BY <1>2, RecordedWords
<1> QED  BY <1>3 DEF SaidInv, Consent!Running

\* What a step of anyone may do to another program.
OnWord == \A h \in Harness :
  /\ entry[h] = "none" /\ entry'[h] # "none" /\ ~Consent!TakenBack => said'[h] # "no"
  /\ bridge[h] = "none" /\ bridge'[h] = "ours" => said'[h] \in {"bridge", "unheeded"}

\* A decision comes back with its word; an entry comes back only by taking a record back, and
\* a registration never.
LEMMA BackSaid ==
  ASSUME SaidInv, ConsentTypeOK', NEW i \in 1..Len(log), NEW undo \in BOOLEAN, Consent!TakesBack(i, undo),
         ~Consent!Running("setup")'
  PROVE  SaidInv' /\ OnWord
<1> DEFINE B(on, h) == Consent!Back(log[i], on, h, undo)
<1>0. ConsentTypeOK
  BY DEF SaidInv
<1>1. /\ \A h \in Harness : entry'[h] = entry[h] \/ \E o \in B("entry", h) : entry'[h] = o.was
      /\ \A h \in Harness : bridge'[h] = bridge[h] \/ \E o \in B("bridge", h) : bridge'[h] = o.was
      /\ \A h \in Harness : \/ choice'[h] = choice[h] /\ said'[h] = said[h]
                            \/ \E o \in B("choice", h) : choice'[h] = o.was /\ said'[h] = o.word
      /\ Len(log') = Len(log) /\ log'[i] = {o \in log[i] : ~Consent!Done(o, undo)}
      /\ \A j \in 1..Len(log) : j # i => log'[j] = log[j]
  BY <1>0, BackShape
<1>2. \A on, h : \A o : o \in B(on, h) <=> o \in log[i] /\ o.on = on /\ o.h = h /\ Consent!Restored(o) /\ (Consent!IsExternal(o) => undo)
  BY DEF Consent!Back
<1> HIDE DEF B
<1>3. log[i] \subseteq Op
  BY <1>0 DEF ConsentTypeOK
<1>4. \A h \in Harness : Consent!Covers(said'[h], choice'[h])
  BY <1>1, <1>2 DEF SaidInv
<1>5. \A j \in 1..Len(log') : log'[j] \subseteq log[j]
  BY <1>1
<1>6. SaidInv'
  BY <1>1, <1>4, <1>5 DEF SaidInv
<1>7. ASSUME NEW h \in Harness, entry[h] = "none", entry'[h] # "none"
      PROVE  Consent!TakenBack
  <2>1. PICK o \in B("entry", h) : entry'[h] = o.was
    BY <1>1, <1>7
  <2>2. o \in log[i] /\ Consent!Restored(o) /\ ~Consent!IsExternal(o)
    BY <1>2 DEF Consent!IsExternal
  <2>3. Consent!Done(o, undo)
    BY <2>2 DEF Consent!Done, Consent!Settled
  <2>4. log'[i] # log[i]
    BY <1>1, <2>2, <2>3
  <2> QED  BY <1>1, <2>4 DEF Consent!TakenBack
<1>8. ASSUME NEW h \in Harness, bridge[h] = "none"
      PROVE  bridge'[h] # "ours"
  <2>1. \A o \in B("bridge", h) : o.was = "none"
    BY <1>2, <1>3, OpShape
  <2> QED  BY <1>1, <1>8, <2>1
<1> QED  BY <1>6, <1>7, <1>8 DEF OnWord

LEMMA SaidStep ==
  ASSUME ConsentInv, SaidInv, [Consent!Next]_Consent!vars
  PROVE  SaidInv' /\ OnWord
<1>0. ConsentTypeOK /\ ConsentTypeOK'
  BY ConsentStep DEF ConsentInv
<1>a. \A h \in Harness : Consent!Covers(said[h], choice[h])
  BY DEF SaidInv
<1>1. CASE UNCHANGED Consent!vars
  <2>1. UNCHANGED <<entry, bridge, choice, log, cmd, said>>
    BY <1>1 DEF Consent!vars
  <2>2. SaidInv'
    BY <2>1, <1>0 DEF SaidInv, Consent!Running
  <2> QED  BY <2>1, <2>2 DEF OnWord
<1>2. CASE Consent!BeginSetup
  <2>1. UNCHANGED <<entry, bridge, choice, said, log>>
    BY <1>2 DEF Consent!BeginSetup, Consent!written
  <2>2. cmd'.before.choice = choice /\ cmd'.before.said = said /\ cmd'.register = {}
    BY <1>2 DEF Consent!BeginSetup, Consent!Now
  <2>3. SaidInv'
    BY <1>0, <2>1, <2>2 DEF SaidInv
  <2> QED  BY <2>1, <2>3 DEF OnWord
<1>3. CASE Consent!SetupStep
  <2>1. PICK g \in Harness : StepsOn(g)
    BY <1>0, <1>3, SetupSteps
  <2>2. PICK h \in Harness : Heard(h)
    BY <1>3, SetupHeard
  <2>3. UNCHANGED <<bridge, log>> /\ Consent!Running("setup") /\ cmd'.before = cmd.before
    BY <1>3, <2>1 DEF Consent!SetupStep, StepsOn
  <2>4. SaidInv'
    BY <1>0, <2>2, <2>3 DEF SaidInv, Heard
  <2> QED  BY <2>2, <2>3, <2>4 DEF OnWord, Heard
<1>4. CASE Consent!SetupEnds
  <2>1. /\ UNCHANGED <<entry, choice, said>> /\ cmd' = Unset /\ log' = Consent!Recorded(cmd.before) /\ Consent!Running("setup")
    BY <1>4 DEF Consent!SetupEnds
  <2>2. \A h \in Harness : bridge'[h] = bridge[h] \/ (bridge[h] = "none" /\ bridge'[h] = "ours" /\ h \in cmd.register)
    BY <1>4, <1>0 DEF Consent!SetupEnds, Consent!Registers
  <2>3. cmd.before \in Before /\ \A h \in Harness : Consent!Covers(cmd.before.said[h], cmd.before.choice[h])
    BY <2>1, <1>0 DEF ConsentTypeOK, SetupCmd, UninstallCmd, Consent!Running, SaidInv
  <2>4. \A j \in 1..Len(log') : \A o \in log'[j] : o.on = "choice" => Consent!Covers(o.word, o.was)
    BY <1>0, <2>1, <2>2, <2>3, RecordedWords
  <2>5. SaidInv'
    BY <1>0, <1>a, <2>1, <2>4 DEF SaidInv, Consent!Running
  <2> QED  BY <2>1, <2>2, <2>5 DEF OnWord, SaidInv
<1>5. CASE Consent!Repair
  <2>1. /\ UNCHANGED <<bridge, choice, cmd>> /\ cmd = Unset /\ log' = Consent!Recorded(Consent!Now)
    BY <1>5 DEF Consent!Repair
  <2>2. \A h \in Harness :
          /\ said'[h] = said[h] \/ said'[h] = IF said[h] = "no" THEN "entry" ELSE said[h]
          /\ entry[h] = "none" /\ entry'[h] # "none" => said'[h] # "no"
    <3> SUFFICES ASSUME NEW h \in Harness
                 PROVE  /\ said'[h] = said[h] \/ said'[h] = IF said[h] = "no" THEN "entry" ELSE said[h]
                        /\ entry[h] = "none" /\ entry'[h] # "none" => said'[h] # "no"
      OBVIOUS
    <3>1. Consent!MayRepair(h) => said[h] # "no" \/ entry[h] # "none"
      BY <1>a DEF Consent!MayRepair, Consent!Consented, Consent!Owned, Consent!Covers
    <3>2. PICK named \in SUBSET Harness :
            LET targets == IF named = {} THEN {x \in Harness : Consent!MayRepair(x)} ELSE named
            IN  /\ \E changed \in SUBSET (targets \cap Varied) :
                     entry' = [x \in Harness |-> IF x \in changed THEN "changed" ELSE IF x \in targets THEN "kit" ELSE entry[x]]
                /\ said' = [x \in Harness |-> IF x \in named /\ said[x] = "no" THEN "entry" ELSE said[x]]
      BY <1>5 DEF Consent!Repair
    <3> QED  BY <3>1, <3>2
  <2>3. \A h \in Harness : Consent!Covers(said'[h], choice'[h])
    BY <1>a, <2>1, <2>2, CoversIs
  <2>4. SaidInv'
    BY <1>0, <2>1, <2>3, SaidCommand
  <2> QED  BY <2>1, <2>2, <2>4 DEF OnWord
<1>6. ASSUME NEW h \in Harness, Consent!Integrate(h)
      PROVE  SaidInv' /\ OnWord
  <2>1. UNCHANGED <<bridge, cmd>> /\ cmd = Unset /\ log' = Consent!Recorded(Consent!Now)
    BY <1>6 DEF Consent!Integrate
  <2> DEFINE word == IF said[h] = "no" THEN "entry" ELSE said[h]
  <2>2. DOMAIN said = Harness /\ DOMAIN choice = Harness /\ DOMAIN entry = Harness
    BY <1>0 DEF ConsentTypeOK
  <2>3. Consent!Covers(word, choice[h]) /\ word # "no"
    BY <1>a, CoversIs
  <2>4. said'[h] = word
    BY <1>6, <2>2, <2>3 DEF Consent!Integrate, Consent!Says
  <2>5. choice'[h] = choice[h] \/ choice'[h] = Consent!Configured(Consent!StoredMcp(h))
    BY <1>6, <2>2 DEF Consent!Integrate, Consent!Remember
  <2>6. Consent!Covers(word, Consent!Configured(Consent!StoredMcp(h)))
    BY <2>3 DEF Consent!Configured, Consent!StoredMcp, Consent!Covers
  <2>7. \A g \in Harness \ {h} : choice'[g] = choice[g] /\ said'[g] = said[g] /\ entry'[g] = entry[g]
    BY <1>6, <2>2 DEF Consent!Integrate, Consent!Says, Consent!Remember, Consent!Writes
  <2> HIDE DEF word
  <2>8. \A g \in Harness : Consent!Covers(said'[g], choice'[g])
    BY <1>a, <2>3, <2>4, <2>5, <2>6, <2>7
  <2>9. SaidInv'
    BY <1>0, <2>1, <2>8, SaidCommand
  <2> QED  BY <2>1, <2>3, <2>4, <2>7, <2>9 DEF OnWord
<1>7. ASSUME NEW h \in Harness, Consent!Forget(h)
      PROVE  SaidInv' /\ OnWord
  <2>1. UNCHANGED <<entry, bridge, cmd>> /\ cmd = Unset /\ log' = Consent!Recorded(Consent!Now)
    BY <1>7 DEF Consent!Forget
  <2>2. \A g \in Harness : (choice'[g] = choice[g] /\ said'[g] = said[g]) \/ choice'[g] = "none"
    BY <1>0, <1>7 DEF Consent!Forget, ConsentTypeOK
  <2>3. \A g \in Harness : Consent!Covers(said'[g], choice'[g])
    BY <1>a, <2>2, CoversIs
  <2>4. SaidInv'
    BY <1>0, <2>1, <2>3, SaidCommand
  <2> QED  BY <2>1, <2>4 DEF OnWord
<1>8. CASE Consent!Rollback
  <2>1. PICK i \in DOMAIN log : Consent!TakesBack(i, FALSE)
    BY <1>8 DEF Consent!Rollback
  <2>2. i \in 1..Len(log) /\ ~Consent!Running("setup")'
    BY <1>8, <1>0 DEF Consent!Rollback, Consent!Running, ConsentTypeOK
  <2> QED  BY <1>0, <2>1, <2>2, BackSaid
<1>9. CASE Consent!BeginUninstall
  <2>1. UNCHANGED <<entry, bridge, choice, said, log>> /\ ~Consent!Running("setup")'
    BY <1>9 DEF Consent!BeginUninstall, Consent!written, Consent!Running
  <2>2. SaidInv'
    BY <1>0, <2>1 DEF SaidInv
  <2> QED  BY <2>1, <2>2 DEF OnWord
<1>10. CASE Consent!UninstallStep
  <2>1. cmd \in UninstallCmd /\ cmd.at > 0 /\ cmd' = [cmd EXCEPT !.at = @ - 1] /\ cmd.is = "uninstall"
    BY <1>10, <1>0, SetupIsSet DEF Consent!UninstallStep, Consent!Running, ConsentTypeOK
  <2>2. cmd.at \in 1..Len(log) /\ ~Consent!Running("setup")'
    BY <2>1, <1>0 DEF UninstallCmd, Consent!Running, ConsentTypeOK
  <2>3. PICK undo \in BOOLEAN : Consent!TakesBack(cmd.at, undo)
    BY <1>10 DEF Consent!UninstallStep
  <2> QED  BY <1>0, <2>2, <2>3, BackSaid
<1>11. CASE Consent!UninstallEnds
  <2>1. UNCHANGED <<entry, bridge, choice, said, log>> /\ ~Consent!Running("setup")'
    BY <1>11 DEF Consent!UninstallEnds, Consent!written, Consent!Running
  <2>2. SaidInv'
    BY <1>0, <2>1 DEF SaidInv
  <2> QED  BY <2>1, <2>2 DEF OnWord
<1>12. ASSUME NEW h \in Harness, Consent!Others(h)
       PROVE  SaidInv' /\ OnWord
  <2>1. UNCHANGED <<log, cmd>> /\ ~Consent!Running("setup")'
    BY <1>12 DEF Consent!Others, Consent!Running
  <2>2. \A g \in Harness : (entry'[g] # "none" => entry[g] # "none") /\ (bridge'[g] = "ours" => bridge[g] = "ours")
    BY <1>12, <1>0 DEF Consent!Others, ConsentTypeOK, Consent!written
  <2>3. DOMAIN choice = Harness /\ DOMAIN said = Harness
    BY <1>0 DEF ConsentTypeOK
  <2>4. \A d \in Consent!Damage, i \in 1..2 : \A w : Consent!Covers(w, d[i]) => Consent!Covers(w, d[3 - i])
    BY DEF Consent!Damage, Consent!Covers
  <2>5. \A g \in Harness :
          \/ choice'[g] = choice[g] /\ said'[g] = said[g]
          \/ choice'[g] = "none"
          \/ said'[g] = said[g] /\ \E d \in Consent!Damage, i \in 1..2 : choice[g] = d[i] /\ choice'[g] = d[3 - i]
    BY <1>12, <2>3 DEF Consent!Others, Consent!written
  <2>6. \A g \in Harness : Consent!Covers(said'[g], choice'[g])
    BY <1>a, <2>4, <2>5, CoversIs
  <2>7. SaidInv'
    BY <1>0, <2>1, <2>6 DEF SaidInv
  <2> QED  BY <2>2, <2>7 DEF OnWord
<1> QED
  BY <1>1, <1>2, <1>3, <1>4, <1>5, <1>6, <1>7, <1>8, <1>9, <1>10, <1>11, <1>12 DEF Consent!Next

(***************************************************************************)
(* Nobody's program is configured on silence, however many commands run,   *)
(* in whatever order they are rolled back, and also when decision files    *)
(* are damaged, repaired and deleted meanwhile: a provider entry goes      *)
(* where there was none only on the user's standing word for it, and the   *)
(* bridge is registered only on a word that covered the bridge - but for   *)
(* a word the command had to report that it could not record, and an entry *)
(* that a rollback gives back (decideHarness, recordHarnessChoice,         *)
(* integrateMcp, rollbackTransaction).                                     *)
(***************************************************************************)
THEOREM ConsentTheorem == Spec => NothingUnasked
<1>1. Init => ConsentInv /\ SaidInv
  BY ConsentInit, SaidInit DEF Init
<1>2. ConsentInv /\ SaidInv /\ [Next]_vars => (ConsentInv /\ SaidInv)'
  BY EachPart, ConsentStep, SaidStep
<1>3. ConsentInv /\ SaidInv /\ [Next]_vars => [OnWord]_Consent!vars
  BY EachPart, SaidStep
<1>4. NothingUnasked <=> [][OnWord]_Consent!vars
  BY PTL DEF NothingUnasked, Consent!NothingUnasked, OnWord
<1> QED  BY <1>1, <1>2, <1>3, <1>4, PTL DEF Spec, vars
=============================================================================
