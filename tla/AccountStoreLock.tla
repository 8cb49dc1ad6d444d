---------------------------- MODULE AccountStoreLock ----------------------------
(***************************************************************************)
(* The account store under the lock file beside it (account-store.ts).     *)
(* Each process is one command: an update of the store (login, add,        *)
(* remove, pause, a pass of the proxy's writer) or an operator's unlock,   *)
(* with or without force.  A step is one call of the file system; any      *)
(* process may die before any of them.  AccountPool takes this lock as     *)
(* given.  Every update has a nonce of its own, so its process stands for  *)
(* it, and a pid that the system gives again has another start time        *)
(* (processStartToken).  Temporary files are left out.                     *)
(***************************************************************************)

CONSTANT Proc
VARIABLES
  pc,       \* what each process does next
  seen,     \* the owner whose lock it is about to recover, if any
  lock,     \* the record in the lock file, if there is one
  store,    \* the updates in the store file
  read,     \* the updates in the snapshot an update works on
  applied,  \* history: the updates that have replaced the store file
  robbed    \* history: the live owners whose lock someone else removed
vars == <<pc, seen, lock, store, read, applied, robbed>>

Record == [owner : Proc, whole : BOOLEAN]

Init ==
  /\ pc = [p \in Proc |-> "idle"] /\ seen = [p \in Proc |-> {}] /\ lock = {}
  /\ store = {} /\ read = [p \in Proc |-> {}] /\ applied = {} /\ robbed = {}

Dead(p) == pc[p] = "dead"

\* parseLockRecord and ownerIsAlive: whose dead lock a process finds.
DeadOwner == {p \in Proc : Dead(p) /\ [owner |-> p, whole |-> TRUE] \in lock}

Goes(p, from, to) == pc[p] = from /\ pc' = [pc EXCEPT ![p] = to]

\* The lock's name goes, whoever holds it now.
Removes(p) ==
  /\ lock' = {}
  /\ robbed' = robbed \cup {q \in Proc \ {p} : ~Dead(q) /\ \E r \in lock : r.owner = q}
----------------------------------------------------------------------------
\* The command begins.
Start(p) ==
  /\ \E first \in {"create", "unlock", "force"} : Goes(p, "idle", first)
  /\ UNCHANGED <<seen, lock, store, read, applied, robbed>>

\* acquireLock: the exclusive create; the record is written into the new file next.
Create(p) ==
  /\ lock = {} /\ (Goes(p, "create", "fill") \/ Goes(p, "again", "fill"))
  /\ lock' = {[owner |-> p, whole |-> FALSE]}
  /\ UNCHANGED <<seen, store, read, applied, robbed>>

Fill(p) ==
  /\ Goes(p, "fill", "read")
  /\ lock' = IF [owner |-> p, whole |-> FALSE] \in lock THEN {[owner |-> p, whole |-> TRUE]} ELSE lock
  /\ UNCHANGED <<seen, store, read, applied, robbed>>

\* The record cannot be written: the empty file stays.
FillFails(p) ==
  /\ Goes(p, "fill", "refused")
  /\ UNCHANGED <<seen, lock, store, read, applied, robbed>>

\* Mutant: the dead owner is looked for at the second attempt only.
ExistsMutant(p) ==
  /\ lock # {} /\ (Goes(p, "create", "refused") \/ Goes(p, "again", "look"))
  /\ UNCHANGED <<seen, lock, store, read, applied, robbed>>

\* The file exists: the first time a dead owner is worth a recovery.
Exists(p) ==
  /\ lock # {} /\ (Goes(p, "create", "look") \/ Goes(p, "again", "refused"))
  /\ UNCHANGED <<seen, lock, store, read, applied, robbed>>

Look(p) ==
  /\ Goes(p, "look", IF DeadOwner = {} THEN "refused" ELSE "inspect")
  /\ seen' = [seen EXCEPT ![p] = DeadOwner]
  /\ UNCHANGED <<lock, store, read, applied, robbed>>

\* recoverAccountStoreLock looks twice before it renames the lock away; the
\* operator's unlock expects no owner in particular.
Inspect(p) ==
  /\ \/ Goes(p, "inspect", IF DeadOwner = {} \/ DeadOwner # seen[p] THEN "refused" ELSE "recheck")
     \/ Goes(p, "unlock", IF DeadOwner = {} THEN "refused" ELSE "unlock recheck")
  /\ seen' = [seen EXCEPT ![p] = DeadOwner]
  /\ UNCHANGED <<lock, store, read, applied, robbed>>

SameDead(p) == DeadOwner # {} /\ DeadOwner = seen[p]

Recheck(p) ==
  /\ \/ Goes(p, "recheck", IF SameDead(p) THEN "rename" ELSE "refused")
     \/ Goes(p, "unlock recheck", IF SameDead(p) THEN "unlock rename" ELSE "refused")
  /\ UNCHANGED <<seen, lock, store, read, applied, robbed>>

RenameAway(p) ==
  /\ \/ Goes(p, "rename", IF lock = {} THEN "refused" ELSE "again")
     \/ Goes(p, "unlock rename", "done")
  /\ Removes(p)
  /\ UNCHANGED <<seen, store, read, applied>>

\* unlockAccountStore with force
Forces(p) ==
  /\ Goes(p, "force", "done") /\ Removes(p)
  /\ UNCHANGED <<seen, store, read, applied>>
----------------------------------------------------------------------------
\* Mutant: the lock is given back before the awaits that follow the read.
ReadMutant(p) ==
  /\ Goes(p, "read", "write") \/ Goes(p, "read", "release")
  /\ read' = [read EXCEPT ![p] = store] /\ lock' = {}
  /\ UNCHANGED <<seen, store, applied, robbed>>

\* readStoreSnapshot; a store that cannot be read ends the update.
Read(p) ==
  /\ Goes(p, "read", "write") \/ Goes(p, "read", "release")
  /\ read' = [read EXCEPT ![p] = store]
  /\ UNCHANGED <<seen, lock, store, applied, robbed>>

\* writeStore, after the update has been computed and encrypted
Write(p) ==
  /\ Goes(p, "write", "release")
  /\ store' = read[p] \cup {p} /\ applied' = applied \cup {p}
  /\ UNCHANGED <<seen, lock, read, robbed>>

\* A conflict, nothing to change, an invalid profile, a failure to encrypt or to write.
Fails(p) ==
  /\ Goes(p, "write", "release")
  /\ UNCHANGED <<seen, lock, store, read, applied, robbed>>

\* The release compares the owner before it unlinks.
Release(p) ==
  /\ Goes(p, "release", IF [owner |-> p, whole |-> TRUE] \in lock THEN "unlink" ELSE "done")
  /\ UNCHANGED <<seen, lock, store, read, applied, robbed>>

\* A lock that cannot be unlinked stays, with a warning.
Unlink(p) ==
  /\ Goes(p, "unlink", "done") /\ (Removes(p) \/ UNCHANGED <<lock, robbed>>)
  /\ UNCHANGED <<seen, store, read, applied>>

\* The process ends, or is killed.
Dies(p) ==
  /\ ~Dead(p) /\ pc' = [pc EXCEPT ![p] = "dead"]
  /\ UNCHANGED <<seen, lock, store, read, applied, robbed>>

Recovers(p) == Look(p) \/ Inspect(p) \/ Recheck(p) \/ RenameAway(p)
Acquires(p) == Create(p) \/ Fill(p) \/ FillFails(p) \/ Exists(p)
Updates(p)  == Read(p) \/ Write(p) \/ Fails(p) \/ Release(p) \/ Unlink(p)
Moves(p)    == Recovers(p) \/ Acquires(p) \/ Forces(p) \/ Updates(p)
Next == \E p \in Proc : Start(p) \/ Moves(p) \/ Dies(p)

\* A command that has begun goes on: none of its calls waits for anyone.
Fairness == \A p \in Proc : WF_vars(Moves(p))
Spec == Init /\ [][Next]_vars /\ Fairness
----------------------------------------------------------------------------
Step == {"idle", "create", "unlock", "force", "fill", "look", "inspect", "recheck", "unlock recheck", "rename",
         "unlock rename", "again", "read", "write", "release", "unlink", "refused", "done", "dead"}
TypeOK ==
  /\ pc \in [Proc -> Step] /\ seen \in [Proc -> SUBSET Proc] /\ lock \subseteq Record /\ (\A r, s \in lock : r = s)
  /\ store \subseteq Proc /\ read \in [Proc -> SUBSET Proc] /\ applied \subseteq Proc /\ robbed \subseteq Proc

Holding(p) == pc[p] \in {"fill", "read", "write", "release", "unlink"}

\* Two updates overlap only when one of them was robbed of its lock: by force, or
\* by a recovery that was overtaken between its last look and its rename.
OverlapMeansRobbed == \A p, q \in Proc : Holding(p) /\ Holding(q) /\ p # q => p \in robbed \/ q \in robbed

\* No update that has replaced the store is lost to a later one, unless a lock was
\* robbed: deaths at any point, refused commands and recoveries lose none.
UpdatesKept == robbed = {} => applied \subseteq store

LockProtects == OverlapMeansRobbed /\ UpdatesKept

\* The lock of a dead process keeps nobody out: an update that begins while it is
\* there sees it gone, whichever process removes it, unless it dies itself.  (A
\* record that was never written is not recognized as a dead one.)
DeadLockGoes ==
  \A o \in Proc : \A p \in Proc \ {o} : (o \in DeadOwner /\ pc[p] = "create") ~> (o \notin DeadOwner \/ Dead(p))

\* Only a dead owner's lock is recovered ("this cannot steal a live lock").
RecoversOnlyDead ==
  [][\A p \in Proc : RenameAway(p) => \A r \in lock : Dead(r.owner)]_vars
=============================================================================
