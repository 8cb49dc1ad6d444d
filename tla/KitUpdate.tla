-------------------------------- MODULE KitUpdate --------------------------------
(***************************************************************************)
(* zcode-kit update (cmdUpdate and finishUpdate of cli/zcode-kit.mjs,      *)
(* lib/self-update.mjs): replaces the files of a live installation, runs   *)
(* the new version's setup in a fresh process and starts the proxy again.  *)
(* A release is downloaded, verified and unpacked before the first file is *)
(* touched, then mirrored file by file; npm and git replace the files      *)
(* themselves.                                                             *)
(*                                                                         *)
(* Meanwhile the proxy may be started by anybody (a launch, the extension, *)
(* the user): starting is not serialised with the update.  The update may  *)
(* die at any step and be run again.                                       *)
(* Not modelled: directories, and a copy cut in the middle of one file.    *)
(***************************************************************************)
EXTENDS Naturals, FiniteSets

CONSTANTS
  OldFiles, NewFiles,  \* the files of the installed release and of the new one, Manifest in both
  Manifest,            \* package.json: names the version
  Preserved,           \* files and trees of the machine: key, config, state; in neither release
  MaxRuns,             \* bound: updates after the first one
  MaxDeaths            \* bound: updates that die

File    == OldFiles \cup NewFiles \cup Preserved
Version == {"old", "new", "mine", "none"}

VARIABLES
  kind,     \* the installation: "checkout", "npm", "release"
  pinned,   \* a version was named on the command line
  tree,     \* the version of each file
  proxy,    \* the code the running proxy was started from, or "down"
  pc,
  archive,  \* the downloaded release: "none", "good", "corrupt", "wrong"
  locked,   \* another command holds the setup lock
  code,     \* how the update returned
  runs, deaths

vars == <<kind, pinned, tree, proxy, pc, archive, locked, code, runs, deaths>>

Init ==
  /\ kind \in {"checkout", "npm", "release"} /\ pinned \in BOOLEAN
  /\ tree = [f \in File |-> IF f \in Preserved THEN "mine" ELSE IF f \in OldFiles THEN "old" ELSE "none"]
  /\ proxy \in {"old", "down"}
  /\ pc = "idle" /\ archive = "none" /\ locked \in BOOLEAN /\ code = "none"
  /\ runs = 0 /\ deaths = 0

Installed == tree[Manifest]
Complete  == /\ \A f \in NewFiles : tree[f] = "new"
             /\ \A f \in OldFiles \ NewFiles : tree[f] = "none"
\* What a process started now loads.
Code == IF \A f \in NewFiles : tree[f] = "new" THEN "new"
        ELSE IF \A f \in OldFiles : tree[f] = "old" THEN "old" ELSE "mixed"

Returns(c) == pc' = "done" /\ code' = c

\* The manager stops the proxy before the first change; what it reports is noted.
StopsProxy == proxy' = "down" \/ proxy' = proxy

Begin ==
  /\ pc = "idle" /\ code' = "none"
  /\ pc' = (IF kind = "checkout" THEN "fetched" ELSE "resolve")
  /\ UNCHANGED <<kind, pinned, tree, proxy, archive, locked, runs, deaths>>

\* git: no git, local changes, a failed fetch or an unknown tag end it early.
FetchFails ==
  /\ pc = "fetched" /\ Returns("error")
  /\ UNCHANGED <<kind, pinned, tree, proxy, archive, locked, runs, deaths>>

\* The newest tag is looked up unless one was named; the version on disk ends an
\* update that was not pinned.
UpToDate == ~pinned /\ Installed = "new"
LookupFails == ~pinned /\ Returns("error")
Resolve ==
  /\ pc = "resolve"
  /\ \/ LookupFails /\ UNCHANGED <<proxy, archive>>
     \/ UpToDate /\ Returns("current") /\ UNCHANGED <<proxy, archive>>
     \/ /\ ~UpToDate /\ kind = "npm" /\ StopsProxy
        /\ pc' = "replace" /\ UNCHANGED <<archive, code>>
     \/ /\ ~UpToDate /\ kind = "release"
        /\ archive' \in {"good", "corrupt", "wrong"}
        /\ pc' = "verify" /\ UNCHANGED <<proxy, code>>
  /\ UNCHANGED <<kind, pinned, tree, locked, runs, deaths>>

\* SHA-256 against checksums.txt, one top-level directory, the version inside.
VerifiedMutant == archive # "wrong"
Verified == archive = "good"
Verify ==
  /\ pc = "verify"
  /\ IF Verified THEN StopsProxy /\ pc' = "lock" /\ UNCHANGED code
                 ELSE Returns("error") /\ UNCHANGED proxy
  /\ UNCHANGED <<kind, pinned, tree, archive, locked, runs, deaths>>

Merge ==
  /\ pc = "fetched" /\ StopsProxy /\ pc' = "replace"
  /\ UNCHANGED <<kind, pinned, tree, archive, locked, code, runs, deaths>>

\* git's fast-forward and npm's install change the files as one operation here,
\* or fail: then the update returns with the proxy stopped.
Replace ==
  /\ pc = "replace"
  /\ \/ /\ tree' = [f \in File |-> IF f \in Preserved THEN tree[f]
                                   ELSE IF f \in NewFiles THEN "new" ELSE "none"]
        /\ pc' = "setup" /\ UNCHANGED code
     \/ Returns("error") /\ UNCHANGED tree
  /\ UNCHANGED <<kind, pinned, proxy, archive, locked, runs, deaths>>

Lock ==
  /\ pc = "lock"
  /\ IF locked THEN Returns("error") ELSE pc' = "copy" /\ UNCHANGED code
  /\ UNCHANGED <<kind, pinned, tree, proxy, archive, locked, runs, deaths>>

\* mirrorTree: every file of the release first, in some order; then the files
\* the release does not have, preserved names excepted; an error ends it.
IsPreserved(f) == f \in Preserved
\* What the archive holds at this path.
Content(f) == IF archive = "good" THEN "new" ELSE "bad"
Copy ==
  /\ pc = "copy"
  /\ \/ \E f \in NewFiles : tree[f] # Content(f) /\ tree' = [tree EXCEPT ![f] = Content(f)] /\ pc' = pc
     \/ (\A f \in NewFiles : tree[f] = Content(f)) /\ pc' = "delete" /\ UNCHANGED tree
  /\ UNCHANGED <<kind, pinned, proxy, archive, locked, code, runs, deaths>>

Stale == {f \in File \ NewFiles : tree[f] # "none" /\ ~IsPreserved(f)}
Delete ==
  /\ pc = "delete"
  /\ \/ \E f \in Stale : tree' = [tree EXCEPT ![f] = "none"] /\ pc' = pc
     \/ Stale = {} /\ pc' = "setup" /\ UNCHANGED tree
  /\ UNCHANGED <<kind, pinned, proxy, archive, locked, code, runs, deaths>>

MirrorFails ==
  /\ pc \in {"copy", "delete"} /\ Returns("error")
  /\ UNCHANGED <<kind, pinned, tree, proxy, archive, locked, runs, deaths>>

\* The new version's setup, in a process of its own: it starts the proxy for its
\* smoke request unless the user interrupts it, one that runs is left running.
\* 20: a harness failed, 130: interrupted; anything else ends the update.
RunsSetup ==
  /\ pc = "setup"
  /\ \/ /\ code' \in {"ok", "harness", "aborted"} /\ pc' = "start"
        /\ proxy' = proxy \/ (proxy = "down" /\ code' # "aborted" /\ proxy' = Code)
     \/ Returns("error") /\ proxy' = proxy
  /\ UNCHANGED <<kind, pinned, tree, archive, locked, runs, deaths>>

Start ==
  /\ pc = "start"
  /\ \/ proxy' = (IF proxy = "down" THEN Code ELSE proxy) /\ pc' = "done" /\ UNCHANGED code
     \/ proxy = "down" /\ proxy' = proxy /\ Returns("error")
  /\ UNCHANGED <<kind, pinned, tree, archive, locked, runs, deaths>>

\* The journal and the temporary directory go with the process.
Dies ==
  /\ pc \notin {"idle", "done"} /\ deaths < MaxDeaths
  /\ deaths' = deaths + 1 /\ Returns("died")
  /\ UNCHANGED <<kind, pinned, tree, proxy, archive, locked, runs>>

Again ==
  /\ pc = "done" /\ runs < MaxRuns /\ runs' = runs + 1
  /\ pc' = "idle" /\ pinned' \in BOOLEAN /\ archive' = "none"
  /\ UNCHANGED <<kind, tree, proxy, locked, code, deaths>>

\* Others start and stop the proxy, and hold or release the setup lock.
SomebodyStarts ==
  /\ proxy = "down" /\ proxy' = Code
  /\ UNCHANGED <<kind, pinned, tree, pc, archive, locked, code, runs, deaths>>
LockChanges ==
  /\ pc \notin {"copy", "delete"} /\ locked' = ~locked
  /\ UNCHANGED <<kind, pinned, tree, proxy, pc, archive, code, runs, deaths>>

Next ==
  \/ Begin \/ FetchFails \/ Resolve \/ Verify \/ Merge \/ Replace \/ Lock \/ Copy \/ Delete
  \/ MirrorFails \/ RunsSetup \/ Start \/ Dies \/ Again \/ SomebodyStarts \/ LockChanges

Spec == Init /\ [][Next]_vars

(***************************************************************************)
(* Correctness.                                                            *)
(***************************************************************************)

\* What a machine keeps survives every update, whatever fails or dies in it; a
\* file is only ever replaced by its version of a verified release; and an
\* update that went through has left the release and nothing of the old one,
\* also when it took over from one that died halfway.
UpdatedIsWhole ==
  /\ \A f \in Preserved : tree[f] = "mine"
  /\ \A f \in File : tree[f] \in Version
  /\ pc = "start" \/ (pc = "done" /\ code \in {"ok", "harness", "aborted"}) => Complete

\* "rerunning update repairs that" (mirrorTree, on one that died): an update
\* that finds nothing to do finds the release complete.
NothingToDoIsTrue == code = "current" => Complete

\* "when update returns, the proxy is running the updated code" (cmdUpdate).
UpdatedCodeRuns == pc = "done" /\ code = "ok" => proxy \in {"new", "down"}
=============================================================================
