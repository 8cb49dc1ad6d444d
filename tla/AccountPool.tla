------------------------------ MODULE AccountPool ------------------------------
(***************************************************************************)
(* The account pool of the proxy (zcode-proxy-src/src/auth): the rotator's *)
(* memory of the accounts (account-rotator.ts), the encrypted store it     *)
(* comes from and the CLI also writes (account-store.ts, runtime.ts), the  *)
(* background writer of quota marks (manager.ts), and the requests that    *)
(* take an account, lose it to a quota answer and fail over                *)
(* (proxy/handler.ts, proxy/upstream-errors.ts).                           *)
(*                                                                         *)
(* Every await lets other requests, the writer and the CLI run.  One proxy *)
(* works on a store; an account differs from another in id and credential  *)
(* only (plan, provider, allowlist and expiry filters are static and       *)
(* satisfied), a credential stands for its effective identity, and a reset *)
(* marker in the past is as good as none.  The wait before a same-account  *)
(* resend changes no state and is left out, as is the stream of a served   *)
(* answer.                                                                 *)
(***************************************************************************)
EXTENDS Naturals, Sequences, FiniteSets

CONSTANTS
  Account,      \* account ids
  Cred,         \* credentials
  Request,      \* client requests; each is served once
  None,         \* no account, no snapshot
  Cooldown,     \* lengths of a quarantine: until the reset, or a fallback
  RetryDelays,  \* length of DEFAULT_PERSISTENCE_RETRY_DELAYS_MS
  MaxTime,      \* bound: the clock
  MaxUpsets     \* bound: writes by the CLI, and failed ones by the proxy

ASSUME PoolConstants ==
  /\ IsFiniteSet(Account) /\ None \notin Account /\ Cooldown \subseteq Nat \ {0}
  /\ RetryDelays \in Nat /\ MaxTime \in Nat \ {0} /\ MaxUpsets \in Nat

\* rev 0: the store has no credentialRevision; until 0: no exhaustedUntil;
\* failed: lastFailureAt is set.
Profile == [id: Account, cred: Cred, rev: Nat, fg: Nat, qg: Nat, until: Nat,
            failed: BOOLEAN, paused: BOOLEAN]
Handle  == [id: Account, cred: Cred, rev: Nat, fg: Nat, qg: Nat]
Phase   == {"new", "refreshing", "select", "held", "verifying", "admit", "sent",
            "recovering", "rotate", "resent", "done"}

VARIABLES
  now,        \* the clock
  store,      \* accounts.json: its profiles, in order
  revision,   \* its revision
  lock,       \* accounts.json.lock: "free", "proxy", "cli"
  pool,       \* AccountRotator.accounts
  active,     \* activeAccountId
  cursor,
  observed,   \* observedRevision
  refresh,    \* refreshInFlight: the snapshot it has read, or None
  phase, handle,
  dirty,      \* poolPersistenceDirty
  pass,       \* poolPersistence: "none", "queued", "writing"
  passes,
  written,    \* the profiles the pass in flight writes
  timer,      \* persistenceRetryTimer
  retryIndex,
  unsaved,    \* persistenceStatus.unsaved
  fatal,      \* history: the last write failed for good (corrupt, invalid)
  barred,     \* history: accounts paused or removed ever since a request came
  gone,       \* history: ids the CLI has ever removed
  upsets

disk    == <<store, revision, lock, gone, upsets>>
rotator == <<pool, active, cursor>>
source  == <<observed, refresh>>
context == <<handle, barred>>
request == <<phase, context>>
writer  == <<dirty, pass, passes, written, timer, retryIndex, unsaved, fatal>>
vars    == <<now, disk, rotator, source, request, writer>>

Later(m, n) == IF m >= n THEN m ELSE n
Sooner(m, n) == IF m <= n THEN m ELSE n

\* Accounts a new request may use, as far as the store goes.
Servable(profiles) == {profiles[i].id : i \in {k \in DOMAIN profiles : ~profiles[k].paused}}

Init ==
  /\ \E order \in [1..Cardinality(Account) -> Account], creds \in [Account -> Cred], r \in {0, 1} :
        /\ \A i, j \in DOMAIN order : order[i] = order[j] => i = j
        /\ store = [i \in DOMAIN order |->
             [id |-> order[i], cred |-> creds[order[i]], rev |-> r, fg |-> 0,
              qg |-> 0, until |-> 0, failed |-> FALSE, paused |-> FALSE]]
  /\ pool = [i \in DOMAIN store |-> [store[i] EXCEPT !.rev = 1]]
  /\ now = 1 /\ revision = 1 /\ observed = 1 /\ lock = "free" /\ refresh = None
  /\ active = None /\ cursor = 0
  /\ phase = [r \in Request |-> "new"] /\ handle = [r \in Request |-> None]
  /\ dirty = FALSE /\ pass = "none" /\ passes = 0 /\ written = <<>>
  /\ timer = FALSE /\ retryIndex = 0 /\ unsaved = FALSE /\ fatal = FALSE
  /\ barred = [r \in Request |-> {}] /\ gone = {} /\ upsets = 0

---------------------------------------------------------------------------
(* The rotator.                                                            *)

\* isUsable
Usable(p) == ~p.paused /\ p.until <= now

\* Mutant: the credential is not compared.
SameNumbers(p, h) == p.id = h.id /\ p.rev = h.rev /\ p.fg = h.fg /\ p.qg = h.qg

\* sameHandle
SameHandle(p, h) ==
  p.id = h.id /\ p.rev = h.rev /\ p.fg = h.fg /\ p.qg = h.qg /\ p.cred = h.cred

HandleOf(p) == [id |-> p.id, cred |-> p.cred, rev |-> p.rev, fg |-> p.fg, qg |-> p.qg]

\* getCredentialHandle: the positions it may take, for a request that was
\* rejected on the credentials tried.  One alias of a credential at most, the
\* first from the cursor on; none when any alias is quarantined.
Candidates(excluded, tried) ==
  LET total    == Len(pool)
      At(o)    == ((cursor + o) % total) + 1
      blocked  == {pool[i].cred : i \in {k \in 1..total : pool[k].until > now}}
      Fit(o)   == /\ Usable(pool[At(o)]) /\ pool[At(o)].id \notin excluded
                  /\ pool[At(o)].cred \notin blocked \cup tried
  IN {o \in 0..(total - 1) :
        Fit(o) /\ \A e \in 0..(o - 1) : Fit(e) => pool[At(e)].cred # pool[At(o)].cred}

\* The sticky account when it is a candidate, else the first one.
Choice(offsets) ==
  LET At(o) == ((cursor + o) % Len(pool)) + 1
      sticky == {o \in offsets : pool[At(o)].id = active}
  IN IF sticky # {} THEN At(CHOOSE o \in sticky : TRUE)
     ELSE At(CHOOSE o \in offsets : \A e \in offsets : o <= e)

\* syncProfiles, for one profile of the store and what the pool knew before.
Synced(p) ==
  LET new   == [p EXCEPT !.rev = Later(p.rev, 1)]
      prior == {pool[i] : i \in {k \in DOMAIN pool : pool[k].id = p.id}}
      Kept(q) == [new EXCEPT !.rev = Later(q.rev, @), !.fg = Later(q.fg, @),
                    !.qg = Later(q.qg, @), !.until = Later(q.until, @),
                    !.failed = q.failed \/ @]
      Renewed(q) == [new EXCEPT !.rev = Later(q.rev + 1, @), !.fg = Later(q.fg + 1, @),
                       !.qg = Later(q.qg + 1, @)]
  IN IF prior = {} THEN new
     ELSE LET q == CHOOSE q \in prior : TRUE
          IN IF q.cred = p.cred THEN Kept(q) ELSE Renewed(q)

\* syncProfiles
SyncProfiles(profiles) ==
  LET next == [i \in DOMAIN profiles |-> Synced(profiles[i])]
      live == active # None /\ \E i \in DOMAIN next : next[i].id = active /\ Usable(next[i])
  IN /\ pool' = next
     /\ IF live THEN UNCHANGED <<active, cursor>>
        ELSE /\ active' = None
             /\ cursor' = IF next = <<>> THEN 0 ELSE Sooner(cursor, Len(next) - 1)

\* Mutant: a quarantine that leaves the generations alone.
MarkOnly(h) ==
  LET hit == {i \in DOMAIN pool : SameHandle(pool[i], h)}
  IN IF hit = {} THEN UNCHANGED rotator
     ELSE \E i \in hit, d \in Cooldown :
       /\ pool' = [pool EXCEPT ![i].until = Later(@, now + d), ![i].failed = TRUE]
       /\ IF active = h.id
          THEN active' = None /\ cursor' = i % Len(pool)
          ELSE UNCHANGED <<active, cursor>>

\* markExhausted, with a handle
MarkExhausted(h) ==
  LET hit == {i \in DOMAIN pool : SameHandle(pool[i], h)}
  IN IF hit = {} THEN UNCHANGED rotator
     ELSE \E i \in hit, d \in Cooldown :
       /\ pool' = [pool EXCEPT ![i].until = Later(@, now + d), ![i].failed = TRUE,
                               ![i].fg = @ + 1, ![i].qg = @ + 1]
       /\ IF active = h.id
          THEN active' = None /\ cursor' = i % Len(pool)
          ELSE UNCHANGED <<active, cursor>>

\* clearFailure, with a handle; something was there to clear.
ClearFailure(i) ==
  /\ pool' = [pool EXCEPT ![i].until = 0, ![i].failed = FALSE, ![i].fg = @ + 1]
  /\ UNCHANGED <<active, cursor>>

---------------------------------------------------------------------------
(* The writer of quota marks.                                              *)

\* persistAccounts
PersistAccounts ==
  /\ dirty' = TRUE /\ unsaved' = TRUE /\ timer' = FALSE /\ retryIndex' = 0 /\ fatal' = FALSE
  /\ pass' = IF pass = "none" THEN "queued" ELSE pass
  /\ UNCHANGED <<passes, written>>

\* The end of runPersistencePasses wakes the recoveries that await it.
EndPasses ==
  /\ pass' = "none" /\ passes' = 0 /\ written' = <<>>
  /\ phase' = [r \in Request |-> IF phase[r] = "recovering" THEN "rotate" ELSE phase[r]]

\* schedulePersistenceRetry, from a given place of the schedule
ScheduleRetry(index) ==
  IF index < RetryDelays THEN timer' = TRUE /\ retryIndex' = index + 1
  ELSE UNCHANGED timer /\ retryIndex' = index

\* Mutant: a failed write waits for the next change.
PassGivesUp(retryable) ==
  /\ unsaved' = TRUE /\ fatal' = ~retryable
  /\ UNCHANGED <<timer, retryIndex>>
  /\ EndPasses

\* The catch of runPersistencePasses.
PassFails(retryable) ==
  /\ unsaved' = TRUE /\ fatal' = ~retryable
  /\ IF retryable THEN ScheduleRetry(retryIndex) ELSE UNCHANGED <<timer, retryIndex>>
  /\ EndPasses

\* A pass takes its snapshot and the store lock, in one breath.
BeginPass ==
  /\ pass = "queued"
  /\ dirty' = FALSE
  /\ \/ /\ lock = "free" /\ lock' = "proxy"
        /\ pass' = "writing" /\ passes' = passes + 1 /\ written' = pool
        /\ UNCHANGED <<phase, timer, retryIndex, unsaved, fatal>>
     \/ /\ lock = "cli" /\ PassFails(TRUE) /\ UNCHANGED lock
  /\ UNCHANGED <<now, store, revision, gone, upsets, rotator, source, context>>

\* persistAccounts of runtime.ts: the store's profile with the pool's marks.
Merged(stored) ==
  LET own == {written[i] : i \in {k \in DOMAIN written : written[k].id = stored.id}}
      q   == CHOOSE q \in own : TRUE
  IN IF own = {} \/ (stored.rev # 0 /\ stored.rev # q.rev) \/ stored.cred # q.cred
     THEN stored
     ELSE [stored EXCEPT !.until = Later(@, q.until), !.failed = @ \/ q.failed,
             !.fg = Later(@, q.fg), !.qg = Later(@, q.qg),
             !.rev = IF @ = 0 THEN q.rev ELSE @]

\* updateAccountStore has written; the pool takes the result; maybe once more.
EndPass ==
  LET next == [i \in DOMAIN store |-> Merged(store[i])]
  IN /\ pass = "writing"
     /\ store' = next /\ revision' = revision + 1 /\ lock' = "free"
     /\ SyncProfiles(next) /\ observed' = revision + 1
     /\ IF dirty /\ passes < 3
        THEN /\ pass' = "queued" /\ retryIndex' = 0 /\ unsaved' = TRUE
             /\ UNCHANGED <<passes, written, timer, phase>>
        ELSE /\ EndPasses
             /\ unsaved' = dirty
             /\ IF dirty THEN ScheduleRetry(0) ELSE retryIndex' = 0 /\ UNCHANGED timer
     /\ fatal' = FALSE
     /\ UNCHANGED <<now, gone, upsets, refresh, context, dirty>>

\* The write fails: an I/O error is worth a retry, a corrupt store is not.
WriteFails ==
  /\ pass = "writing" /\ upsets < MaxUpsets
  /\ upsets' = upsets + 1 /\ lock' = "free"
  /\ \E retryable \in BOOLEAN : PassFails(retryable)
  /\ UNCHANGED <<now, store, revision, gone, rotator, source, context, dirty>>

RetryFires ==
  /\ timer
  /\ timer' = FALSE /\ dirty' = TRUE
  /\ pass' = IF pass = "none" THEN "queued" ELSE pass
  /\ UNCHANGED <<now, disk, rotator, source, request, passes, written, retryIndex,
                 unsaved, fatal>>

---------------------------------------------------------------------------
(* Requests.                                                               *)

\* refreshAccountPool reads the store at once, and is shared while it decrypts.
JoinRefresh ==
  refresh' = IF refresh = None THEN [accounts |-> store, rev |-> revision] ELSE refresh

RefreshEnds ==
  /\ refresh # None
  /\ IF refresh.rev # observed
     THEN SyncProfiles(refresh.accounts) /\ observed' = refresh.rev
     ELSE UNCHANGED <<rotator, observed>>
  /\ refresh' = None
  /\ phase' = [r \in Request |-> CASE phase[r] = "refreshing" -> "select"
                                   [] phase[r] = "verifying" -> "admit"
                                   [] OTHER -> phase[r]]
  /\ UNCHANGED <<now, disk, context, writer>>

Goto(r, p) == phase' = [phase EXCEPT ![r] = p]
Ends(r)    == Goto(r, "done") /\ handle' = [handle EXCEPT ![r] = None]
              /\ barred' = [barred EXCEPT ![r] = {}]

\* Request r takes a position of the pool, or ends without an account.
Take(r, offsets, next) ==
  IF offsets = {} THEN Ends(r) /\ UNCHANGED active
  ELSE LET p == pool[Choice(offsets)]
       IN /\ handle' = [handle EXCEPT ![r] = HandleOf(p)]
          /\ active' = p.id /\ Goto(r, next) /\ UNCHANGED barred

Arrive(r) ==
  /\ phase[r] = "new" /\ Goto(r, "refreshing") /\ JoinRefresh
  /\ barred' = [barred EXCEPT ![r] = Account \ Servable(store)]
  /\ UNCHANGED <<now, disk, rotator, observed, handle, writer>>

Select(r) ==
  /\ phase[r] = "select"
  /\ Take(r, Candidates({}, {}), "held")
  /\ UNCHANGED <<now, disk, pool, cursor, source, writer>>

\* validateAccountHandle, before the first dispatch
Verify(r) ==
  /\ phase[r] = "held" /\ Goto(r, "verifying") /\ JoinRefresh
  /\ UNCHANGED <<now, disk, rotator, observed, context, writer>>

\* Mutant: admission looks at the generations only.
SameAsTaken(h) == \E i \in DOMAIN pool : SameHandle(pool[i], h)

\* isHandleCurrent; otherwise the client gets 409 account_context_changed.
Current(h) == \E i \in DOMAIN pool : SameHandle(pool[i], h) /\ Usable(pool[i])

Admit(r) ==
  /\ phase[r] = "admit"
  /\ IF Current(handle[r]) THEN Goto(r, "sent") /\ UNCHANGED context ELSE Ends(r)
  /\ UNCHANGED <<now, disk, rotator, source, writer>>

\* An answer that says nothing of the account, as a stream does.
Served(r) ==
  /\ phase[r] \in {"sent", "resent"} /\ Ends(r)
  /\ UNCHANGED <<now, disk, rotator, source, writer>>

\* markCredentialHealthy, for a complete answer
Healthy(r) ==
  /\ phase[r] \in {"sent", "resent"} /\ Ends(r)
  /\ \E i \in DOMAIN pool :
       /\ SameHandle(pool[i], handle[r]) /\ (pool[i].until # 0 \/ pool[i].failed)
       /\ ClearFailure(i)
  /\ PersistAccounts
  /\ UNCHANGED <<now, disk, source>>

\* recoverFromAccountPool: an explicit quota answer to a current handle.  The
\* mark makes every copy of the handle stale, so the singleflight map is hit only
\* for an account that was removed and came back meanwhile; that is left out.
Rejected(r) ==
  /\ phase[r] = "sent" /\ \E i \in DOMAIN pool : SameHandle(pool[i], handle[r])
  /\ MarkExhausted(handle[r]) /\ PersistAccounts
  /\ Goto(r, "recovering")
  /\ UNCHANGED <<now, disk, source, context>>

\* The request goes on with one of the other accounts; when there is none the
\* quota answer is reported, through markCredentialExhausted.
MoveOn(r, others) ==
  /\ IF others = {} THEN MarkExhausted(handle[r]) /\ PersistAccounts /\ Ends(r)
     ELSE Take(r, others, "resent") /\ UNCHANGED <<pool, cursor, writer>>
  /\ UNCHANGED <<now, disk, source>>

Others(r) == Candidates({handle[r].id}, {handle[r].cred})

\* A quota answer to a stale handle moves the request, and marks nothing; not
\* when the account is gone or paused.
RejectedLate(r) ==
  /\ phase[r] = "sent" /\ ~\E i \in DOMAIN pool : SameHandle(pool[i], handle[r])
  /\ MoveOn(r, IF \E i \in DOMAIN pool : pool[i].id = handle[r].id /\ ~pool[i].paused
               THEN Others(r) ELSE {})

\* The recovery goes on after its write.
Failover(r) == phase[r] = "rotate" /\ MoveOn(r, Others(r))

\* A quota answer that is only reported: to the second account, inside a stream,
\* or to a client that has left.
RejectedForGood(r) == phase[r] \in {"sent", "resent"} /\ MoveOn(r, {})

---------------------------------------------------------------------------
(* The CLI, another process.                                               *)

CliLocks ==
  /\ lock = "free" /\ upsets < MaxUpsets
  /\ lock' = "cli" /\ upsets' = upsets + 1
  /\ UNCHANGED <<now, store, revision, gone, rotator, source, request, writer>>

\* writeStore, and the release of the lock
CliWrites(next) ==
  /\ lock = "cli" /\ lock' = "free"
  /\ store' = next /\ revision' = revision + 1
  /\ barred' = [r \in Request |-> barred[r] \ Servable(next)]
  /\ gone' = gone \cup {store[i].id : i \in {k \in DOMAIN store :
                           \A j \in DOMAIN next : next[j].id # store[k].id}}
  /\ UNCHANGED <<now, upsets, rotator, source, phase, handle, writer>>

\* accounts pause, accounts resume
Pause(i) == CliWrites([store EXCEPT ![i].paused = ~@])

\* rememberAccount: the user of an account signs in again.
Login(i, c) ==
  /\ c # store[i].cred
  /\ CliWrites([store EXCEPT ![i].cred = c, ![i].rev = Later(@, 1) + 1])

\* addAccount with replace: auth login --account ID --replace
Replace(i, c) == CliWrites([store EXCEPT ![i].cred = c, ![i].rev = @ + 1])

\* addAccount leaves the revision out, rememberAccount starts with 1.
Add(a, c, r) ==
  /\ \A i \in DOMAIN store : store[i].id # a
  /\ CliWrites(Append(store, [id |-> a, cred |-> c, rev |-> r, fg |-> 0, qg |-> 0,
                              until |-> 0, failed |-> FALSE, paused |-> FALSE]))

\* removeAccount
Remove(i) ==
  CliWrites([k \in 1..(Len(store) - 1) |-> IF k < i THEN store[k] ELSE store[k + 1]])

Tick ==
  /\ now < MaxTime /\ now' = now + 1
  /\ UNCHANGED <<disk, rotator, source, request, writer>>

Next ==
  \/ Tick \/ RefreshEnds \/ BeginPass \/ EndPass \/ WriteFails \/ RetryFires \/ CliLocks
  \/ \E r \in Request :
       \/ Arrive(r) \/ Select(r) \/ Verify(r) \/ Admit(r) \/ Served(r) \/ Healthy(r)
       \/ Rejected(r) \/ RejectedLate(r) \/ Failover(r) \/ RejectedForGood(r)
  \/ \E i \in DOMAIN store : Pause(i) \/ Remove(i)
  \/ \E i \in DOMAIN store, c \in Cred : Login(i, c) \/ Replace(i, c)
  \/ \E a \in Account, c \in Cred, r \in {0, 1} : Add(a, c, r)

Spec == Init /\ [][Next]_vars

---------------------------------------------------------------------------
(* Properties.                                                             *)

\* Every variable keeps its type, ids are unique in the store and in the
\* pool, and a retry timer never overlaps a pass.
TypeOK ==
  /\ now \in 1..MaxTime /\ revision \in Nat /\ observed \in 1..revision
  /\ store \in Seq(Profile) /\ pool \in Seq(Profile) /\ written \in Seq(Profile)
  /\ lock \in {"free", "proxy", "cli"} /\ (lock = "proxy") = (pass = "writing")
  /\ active \in Account \cup {None} /\ cursor \in Nat
  /\ refresh = None \/ refresh \in [accounts: Seq(Profile), rev: 1..revision]
  /\ phase \in [Request -> Phase] /\ handle \in [Request -> Handle \cup {None}]
  /\ dirty \in BOOLEAN /\ unsaved \in BOOLEAN /\ fatal \in BOOLEAN /\ timer \in BOOLEAN
  /\ pass \in {"none", "queued", "writing"} /\ passes \in 0..3
  /\ retryIndex \in 0..RetryDelays /\ (timer => pass = "none")
  /\ barred \in [Request -> SUBSET Account] /\ gone \subseteq Account
  /\ upsets \in 0..MaxUpsets
  /\ \A s \in {store, pool, written} : \A i, j \in DOMAIN s : s[i].id = s[j].id => i = j

\* "Paused accounts never receive new requests": an account that was paused or
\* removed before a request came, and has stayed so, is not sent that request,
\* whatever the request's two refreshes shared and a late refresh put back.
PausedGetNoNewRequest ==
  \A r \in Request : phase[r] \in {"sent", "resent"} => handle[r].id \notin barred[r]

\* A change that is not on disk has a pass or a timer to bring it there, until
\* the schedule is spent or the store cannot be written at all.
NoSilentDrop ==
  unsaved /\ pass = "none" => timer \/ retryIndex = RetryDelays \/ fatal

\* A rejected handle opens one recovery: two requests that hold the same handle
\* never both quarantine the account.  (A removed id that is added again starts
\* with the generations of a new account.)
RecoveryIsUnique ==
  \A r, s \in Request :
    r # s /\ phase[r] = "recovering" /\ phase[s] = "recovering"
      => handle[r] # handle[s] \/ handle[r].id \in gone

\* A quarantine is not lifted and not shortened before its time, be it by a
\* late success, a weaker rejection or an older snapshot of the store.
QuarantineHolds ==
  [][\A i \in DOMAIN pool, j \in DOMAIN pool' :
       /\ pool[i].until > now /\ pool[i].id \notin gone'
       /\ pool[i].id = pool'[j].id /\ pool[i].cred = pool'[j].cred
       => pool'[j].until >= pool[i].until]_vars

OnDisk(p, stored) ==
  \A j \in DOMAIN stored :
    p.until > now /\ p.id \notin gone /\ stored[j].id = p.id /\ stored[j].cred = p.cred
      => stored[j].until >= p.until
OtherRevision(p, stored) ==
  \E j \in DOMAIN stored, k \in DOMAIN written :
    /\ stored[j].id = p.id /\ written[k].id = p.id
    /\ stored[j].rev # written[k].rev

\* When the writer reports that all is saved, every quarantine the pool knows is
\* on disk, also one that came while the write was under way.  Not so for an
\* account whose credentialRevision in the store was not the one of the pass.
SavedIsSaved ==
  [][unsaved /\ ~unsaved' =>
       \A i \in DOMAIN pool' :
         OnDisk(pool'[i], store') \/ OtherRevision(pool'[i], store')]_vars

\* The same whatever the revisions: "unsaved: true while a change is not on
\* disk yet" (manager.ts).
UnsavedUntilOnDisk ==
  [][unsaved /\ ~unsaved' => \A i \in DOMAIN pool' : OnDisk(pool'[i], store')]_vars

\* The writer never undoes what the CLI did: accounts, credentials and pauses
\* leave a pass as they were when the lock was taken.
AdminStateKept ==
  [][lock = "proxy" /\ lock' = "free" =>
       /\ DOMAIN store' = DOMAIN store
       /\ \A i \in DOMAIN store :
            /\ store'[i].id = store[i].id /\ store'[i].cred = store[i].cred
            /\ store'[i].paused = store[i].paused]_vars

\* An answer acts on the credential it was asked with: a late one neither
\* quarantines nor clears the credential that has replaced it.
AnswerHitsItsCredential ==
  [][\A r \in Request : phase[r] \in {"sent", "resent"} /\ phase'[r] # phase[r] =>
       \A i \in DOMAIN pool : pool'[i] # pool[i] =>
         pool[i].id = handle[r].id /\ pool[i].cred = handle[r].cred]_vars

\* A success clears the marker of the account, for good: only a new quota
\* signal, which moves quotaGeneration, makes it a failed account again.
SuccessClearsMarker ==
  [][\A i \in DOMAIN pool, j \in DOMAIN pool' :
       /\ pool[i].id = pool'[j].id /\ pool[i].cred = pool'[j].cred
       /\ ~pool[i].failed /\ pool'[j].failed
       => pool'[j].qg > pool[i].qg]_vars
=============================================================================
