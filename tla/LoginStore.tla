------------------------------- MODULE LoginStore -------------------------------
(***************************************************************************)
(* The single-account login: the encrypted credentials file, the running   *)
(* proxy that reads it before each request, replaces a refused login by    *)
(* the desktop client's and seals a file of an older version anew, and the *)
(* user who logs in and out meanwhile, from this or another process.       *)
(*                                                                         *)
(* A file is one write: encryption is salted, so no two writes have equal  *)
(* bytes.  Its record names the write (id), the credential in it, whether  *)
(* an older version sealed it, and - history only - the login it descends  *)
(* from.  Reading a file and comparing its bytes are single steps.         *)
(***************************************************************************)
EXTENDS Naturals

CONSTANTS
  Cred,       \* credentials a login or the desktop client may hold
  Short,      \* those that may expire
  NoCred,     \* none
  NoFile,     \* the file does not exist
  Request,    \* requests of the proxy
  Window,     \* BOOLEAN: another process may act between a compare and the rename after it
  MaxWrites,  \* bound: writes of the file
  MaxDesk     \* bound: changes of the desktop client's login

VARIABLES
  file,       \* credentials.json
  writes,     \* writes of it so far
  login,      \* history: the write of the last login, 0 after a logout
  desk,       \* the desktop client's login: [cred, rev]
  expired,    \* credentials past their expiry
  mem,        \* AuthManager.oauthCred
  finger,     \* AuthManager.persistedFingerprint, as the credential
  snap,       \* snapshot of createStoredAuthManager: the file of the last good load
  load,       \* AuthManager.loading: [at, seen, moved]
  rescue,     \* AuthManager.recovering: [at, cred, against, moved, key]
  attempted,  \* AuthManager.attempted
  failures,   \* AuthManager.persistenceFailures: key -> failed writes
  tries,      \* history: attempts to write the desktop's login down, per refused credential and desktop revision
  req,        \* request -> where it is
  held        \* request -> the credential it was last given

storeVars == <<file, writes, login, desk, expired>>
memVars   == <<mem, finger, snap, load, rescue, attempted, failures, tries>>
vars      == <<storeVars, memVars, req, held>>

Idle    == [at |-> "idle", seen |-> NoFile, moved |-> FALSE]
Resting == [at |-> "idle", cred |-> NoCred, against |-> NoFile, moved |-> FALSE, key |-> <<NoCred, 0>>]

\* The proxy starts with the login it found; the desktop client logs in later, if at all.
Init ==
  /\ \E c \in Cred : file = [id |-> 1, cred |-> c, old |-> FALSE, from |-> 1] /\ mem = c
  /\ writes = 1 /\ login = 1
  /\ desk = [cred |-> NoCred, rev |-> 0]
  /\ expired = {} /\ finger = NoCred /\ snap = NoFile
  /\ load = Idle /\ rescue = Resting /\ attempted = {}
  /\ failures = [k \in Cred \X (0 .. MaxDesk) |-> 0] /\ tries = failures
  /\ req = [r \in Request |-> "idle"] /\ held = [r \in Request |-> NoCred]

(***************************************************************************)
(* The user and the desktop client.                                        *)
(***************************************************************************)
\* saveCredential, of this version or an older one: a new file over whatever is there.
LogsIn(c, old) ==
  /\ writes < MaxWrites
  /\ writes' = writes + 1 /\ login' = writes'
  /\ file' = [id |-> writes', cred |-> c, old |-> old, from |-> writes']
  /\ UNCHANGED <<desk, expired, memVars, req, held>>

\* clearCredential
LogsOut ==
  /\ file # NoFile /\ file' = NoFile /\ login' = 0
  /\ UNCHANGED <<writes, desk, expired, memVars, req, held>>

DesktopChanges(c) ==
  /\ desk.rev < MaxDesk /\ c # desk.cred /\ desk' = [cred |-> c, rev |-> desk.rev + 1]
  /\ UNCHANGED <<file, writes, login, expired, memVars, req, held>>

Expires(c) ==
  /\ c \notin expired /\ expired' = expired \cup {c}
  /\ UNCHANGED <<file, writes, login, desk, memVars, req, held>>

(***************************************************************************)
(* Loading.  A change of the manager's credential counts its revision up,  *)
(* which a load or a rescue under way notices.                             *)
(***************************************************************************)
Set(c, l, r) ==
  /\ mem' = c /\ finger' = c
  /\ load' = [l EXCEPT !.moved = l.at # "idle"] /\ rescue' = [r EXCEPT !.moved = r.at # "idle"]

\* reload: a request joins the load under way or begins one.  With no file there is
\* nothing to wait for: the login is gone.
Reload ==
  \/ load.at # "idle" /\ UNCHANGED <<mem, finger, snap, load, rescue>>
  \/ /\ load.at = "idle" /\ file # NoFile
     /\ load' = [at |-> IF file.old THEN "sealing" ELSE "open", seen |-> file, moved |-> FALSE]
     /\ UNCHANGED <<mem, finger, snap, rescue>>
  \/ load.at = "idle" /\ file = NoFile /\ snap' = NoFile /\ Set(NoCred, Idle, rescue)

Begins(r, wait, go) ==
  /\ Reload /\ req' = [req EXCEPT ![r] = IF load'.at = "idle" THEN go ELSE wait]
  /\ UNCHANGED <<storeVars, attempted, failures, tries>>

Asks(r) == req[r] = "idle" /\ Begins(r, "load", "loaded") /\ UNCHANGED held
\* The upstream refuses the credential, or it has expired before it could be sent.
Refused(r) == req[r] \in {"sent", "stale"} /\ Begins(r, "reload", "reloaded") /\ UNCHANGED held

\* The bytes of the file are still those of seen.
UnchangedMutant(seen) == file # NoFile
Unchanged(seen) == file = seen

\* A write that descends from f's login.
Rewrite(f, c) ==
  /\ writes < MaxWrites /\ writes' = writes + 1
  /\ file' = [id |-> writes', cred |-> c, old |-> FALSE, from |-> f.from]
  /\ UNCHANGED <<login, desk, expired>>

\* loadCredential of an older version's file: sealed anew if nothing changed meanwhile; a
\* write that fails does not fail the load.
Migrates ==
  /\ load.at = "sealing"
  /\ \/ Unchanged(load.seen) /\ Window /\ load' = [load EXCEPT !.at = "renaming"] /\ UNCHANGED storeVars
     \/ Unchanged(load.seen) /\ ~Window /\ load' = [load EXCEPT !.at = "open"] /\ Rewrite(load.seen, load.seen.cred)
     \/ load' = [load EXCEPT !.at = "open"] /\ UNCHANGED storeVars
  /\ UNCHANGED <<mem, finger, snap, rescue, attempted, failures, tries, req, held>>
MigrationLands ==
  /\ load.at = "renaming" /\ Rewrite(load.seen, load.seen.cred) /\ load' = [load EXCEPT !.at = "open"]
  /\ UNCHANGED <<mem, finger, snap, rescue, attempted, failures, tries, req, held>>

\* A load counts only if the file stood still; otherwise the last good credential stays.
\* All who waited go on.
LoadEnds ==
  /\ load.at = "open"
  /\ snap' = IF Unchanged(load.seen) THEN load.seen ELSE snap
  /\ IF Unchanged(load.seen) /\ ~load.moved /\ finger # load.seen.cred
     THEN Set(load.seen.cred, Idle, rescue)
     ELSE load' = Idle /\ UNCHANGED <<mem, finger, rescue>>
  /\ req' = [r \in Request |-> CASE req[r] = "load" -> "loaded" [] req[r] = "reload" -> "reloaded" [] OTHER -> req[r]]
  /\ UNCHANGED <<storeVars, attempted, failures, tries, held>>

\* The request goes upstream with c, or ends.
GoesOn(r, c) ==
  /\ held' = [held EXCEPT ![r] = c]
  /\ req' = [req EXCEPT ![r] = IF c = NoCred THEN "idle" ELSE "sent"]

\* getCredential: without a credential the request fails.
Served(r) ==
  /\ req[r] = "loaded"
  /\ IF mem \in expired THEN held' = [held EXCEPT ![r] = mem] /\ req' = [req EXCEPT ![r] = "stale"] ELSE GoesOn(r, mem)
  /\ UNCHANGED <<storeVars, memVars>>

Answered(r) ==
  /\ req[r] = "sent" /\ GoesOn(r, NoCred) /\ UNCHANGED <<storeVars, memVars>>

(***************************************************************************)
(* Rescue of a refused login by the desktop client's.                      *)
(***************************************************************************)
\* What the manager has by now that the refused credential is not.
Different(r) == IF mem \in expired \cup {held[r]} THEN NoCred ELSE mem
\* The desktop client is read once per refused credential and state of that client, and
\* again only while writing its login down failed less than three times.
MayImport(key) == key \notin attempted \/ failures[key] \in 1 .. 2

\* A login that changed meanwhile is taken, also when there is none any more.
Overtaken(r) ==
  /\ req[r] = "reloaded" /\ (mem = NoCred \/ Different(r) # NoCred)
  /\ GoesOn(r, Different(r)) /\ UNCHANGED <<storeVars, memVars>>

Unhelped(r) == req[r] = "reloaded" /\ mem # NoCred /\ Different(r) = NoCred
JoinsRescue(r) ==
  /\ Unhelped(r) /\ rescue.at # "idle"
  /\ req' = [req EXCEPT ![r] = "wait"] /\ UNCHANGED <<storeVars, memVars, held>>
\* Already tried, and thirty seconds may not have passed since a failed write.
GivesUp(r) ==
  /\ Unhelped(r) /\ rescue.at = "idle" /\ <<held[r], desk.rev>> \in attempted
  /\ GoesOn(r, NoCred) /\ UNCHANGED <<storeVars, memVars>>
BeginsRescue(r) ==
  LET key == <<held[r], desk.rev>> IN
  /\ Unhelped(r) /\ rescue.at = "idle" /\ MayImport(key)
  /\ attempted' = attempted \cup {key}
  /\ IF desk.cred \in expired \cup {NoCred, held[r]}
     THEN GoesOn(r, NoCred) /\ UNCHANGED <<rescue, tries>>
     ELSE /\ req' = [req EXCEPT ![r] = "wait"] /\ UNCHANGED held
          /\ tries' = [tries EXCEPT ![key] = @ + 1]
          /\ rescue' = [at |-> "sealing", cred |-> desk.cred, against |-> snap, moved |-> FALSE, key |-> key]
  /\ UNCHANGED <<storeVars, mem, finger, snap, load, failures>>

Resume == req' = [r \in Request |-> IF req[r] = "wait" THEN "rescued" ELSE req[r]]
Resumed(r) == req[r] = "rescued" /\ GoesOn(r, Different(r)) /\ UNCHANGED <<storeVars, memVars>>

\* saveCredentialIfUnchanged: the file must still be the one the manager knew.
NotSaved ==
  /\ rescue.at = "sealing"
  /\ failures' = [failures EXCEPT ![rescue.key] = IF @ < 3 THEN @ + 1 ELSE @]
  /\ rescue' = Resting /\ Resume
  /\ UNCHANGED <<storeVars, mem, finger, snap, load, attempted, tries, held>>

Lands ==
  /\ Rewrite(rescue.against, rescue.cred)
  /\ failures' = [failures EXCEPT ![rescue.key] = 0]
  /\ IF rescue.moved THEN rescue' = Resting /\ UNCHANGED <<mem, finger, load>>
                     ELSE Set(rescue.cred, load, Resting)
  /\ Resume /\ UNCHANGED <<snap, attempted, tries, held>>
Known == rescue.against # NoFile /\ Unchanged(rescue.against)
Saved ==
  /\ rescue.at = "sealing" /\ Known
  /\ IF Window THEN rescue' = [rescue EXCEPT !.at = "renaming"]
                    /\ UNCHANGED <<storeVars, mem, finger, snap, load, attempted, failures, tries, req, held>>
               ELSE Lands
SaveLands == rescue.at = "renaming" /\ Lands

\* What an answer sets going runs before anything else does.
AtRest == \A r \in Request : req[r] \notin {"loaded", "reloaded", "rescued"}

Next ==
  \/ /\ AtRest
     /\ \/ \E c \in Cred, old \in BOOLEAN : LogsIn(c, old)
        \/ \E c \in Cred \cup {NoCred} : DesktopChanges(c)
        \/ \E c \in Short : Expires(c)
        \/ LogsOut \/ Migrates \/ MigrationLands \/ LoadEnds \/ NotSaved \/ Saved \/ SaveLands
        \/ \E r \in Request : Asks(r) \/ Refused(r) \/ Answered(r)
  \/ \E r \in Request : Served(r) \/ Overtaken(r) \/ JoinsRescue(r) \/ GivesUp(r) \/ BeginsRescue(r) \/ Resumed(r)

Spec == Init /\ [][Next]_vars

\* What the user did last stands: after a logout there is no file, and after a login the file
\* holds that login or what was put in its place because it was refused - neither a migration
\* nor a rescue that began before brings back or overwrites anything (loadCredential,
\* saveCredentialIfUnchanged, recoverCredential).
LoginStands == IF login = 0 THEN file = NoFile ELSE file # NoFile /\ file.from = login

\* However many requests are refused, together or one after another, the desktop client's
\* login is written down at most three times for one refused credential and one state of that
\* client (attempted, recovering, persistenceFailures).
RescuesBounded == \A k \in DOMAIN tries : tries[k] <= 3
=============================================================================
