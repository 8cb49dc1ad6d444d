# A specification of ZCode Agent Kit

TLA+ models of the stateful parts of ZCode Agent Kit, the TLC runs that check
them on small instances, and TLAPS proofs of what matters most for every
instance. The source paths below are relative to the repository.

## 1. The system

The kit connects coding agents ("harnesses") to a local ZCode installation. It
has three programs that share files and talk over pipes and HTTP.

| Part | State it keeps | Operations | What is hard |
|---|---|---|---|
| **Installer** `cli/`, `lib/`: `zcode-kit setup / integrate / doctor / update / rollback / uninstall` | config files of other programs; `backups/tx-*` (journal, manifest, backup files); `.setup-lock`; consent choices; state directory | transactions: touch, expectWrite, rename, savepoint, restoreSince, finish, rollback | crashes between any two file operations, user edits in between, several transactions on one file |
| **Process manager** `proxy/zcode-proxy-manager.mjs` | `manager.lock`, pid record, respawn history | start, stop, restart, respawn, status | pid reuse, parallel starts, a hung proxy, stale locks |
| **MCP harness bridge** `mcp/zcode-harness-mcp/src` | tasks, start queue, session owners, pending questions, the harness connection; task files | task_start, task_send, task_cancel, interaction_respond, model_set, settings_update; harness events and reverse requests | every operation awaits several calls; events, timers and clients interleave at each await; the harness exits, the bridge restarts |
| **Local proxy** `zcode-proxy-src/src` | account pool and its store, login file, captcha token pool and solver, routing and signing state, response store, tickets, claims | requests with retries and failover, streams through gate and translators, logins, token solving, claims, persistence | concurrent requests over shared state, timeouts racing late answers, streams that break anywhere, locks between processes |

Inside the bridge: `tasks/manager.ts` owns the task records; `runtime/manager.ts`
delivers harness notifications to `tasks/ingress.ts` and reverse requests to
`tasks/relay.ts`, which asks `interactions/manager.ts`; a lost connection calls
back into `TaskManager.stopAll`. Inside the installer: each command takes the
setup lock, opens a `Transaction`, runs the adapters (which write only through
`commitFile`), and finishes; `rollback` and `uninstall` read what is on disk.
The proxy is started by the process manager, whose watchdog hook asks for a
respawn; the installer writes the proxy's configuration and key.

What makes each part correct:

- **Task manager**: one writer per workspace, the slot and queue limits, one
  active task per session, no stranded queue entry, a cancel that ends in a
  verdict and, when verified, means that no turn and no tool call runs on, a start that
  ends.
- **Transactions**: what the kit wrote is always on record, backups are never
  overwritten, foreign changes are never clobbered, undoing everything gives
  the original files, a repeated rollback is quiet.
- **Connection and questions**: every call ends, also when the harness crashes,
  hangs or is replaced; a late exit does not touch the successor; a decision
  reaches the question it was made about.
- **Settings**: a guarded change never overwrites another client's.
- **Kit commands**: the state directory is whole or not there; nothing is written
  into another program without a word of the user, and an uninstall that
  reports success left nothing; an update ends with the whole release, also
  after one that died.
- **Process manager, watchdog**: one proxy at a time among those the kit keeps hold
  of, no signal to a foreign process, a proxy is given up only for a lasting reason,
  and no model request waits for ever on the check before it.
- **Account pool**: a quarantined account is not selected, no recovery marks two
  accounts for one failure, dirty state is written in the end, a late answer
  does not touch what replaced its credential.
- **Login**: what the user did last stands; the stored login is the one of its flow.
- **Requests**: an abort ends a request; an account is remembered as exhausted
  only on proof; signing is given up only on proof; an off-peak ticket is
  settled once and its retry never shows.
- **Streams and conversations**: what reaches the client is what was sent, whole
  and in order, with one terminal event; a conversation goes on whole or not at all.
- **Captcha**: a token is handed out once, a solve ends whatever its worker does,
  a storm of failures is probed again.
- **Claims**: the plan that is first in line is claimed; what an answer says of one
  plan does not keep it waiting.

`PROJECT.json` lists every component with its status and every hazard with its
source line.

## 2. Modules

| Module | Models |
|---|---|
| `HarnessTask` | `tasks/manager.ts`, `tasks/ingress.ts`, `tasks/relay.ts`, the crash path through `runtime/manager.ts` and `index.ts` |
| `HarnessLink` | `protocol/connection.ts`, `runtime/manager.ts`, `interactions/manager.ts`, the replies of `tasks/relay.ts` |
| `SessionSettings` | the tools of `mcp/tools.ts` that change settings in several calls, `settings/manager.ts` |
| `SetupTransaction` | `lib/transaction.mjs`, `commitFile` of `lib/edit.mjs`, the rollback and uninstall commands |
| `KitState` | `lib/state.mjs`, bootstrap of `cli/context.mjs` |
| `KitConsent` | `cli/harness-consent.mjs`, setup, integrate, rollback and uninstall of `cli/zcode-kit.mjs`, repair of `cli/heal.mjs` |
| `KitUpdate` | the update of `cli/zcode-kit.mjs`, `lib/self-update.mjs` |
| `KitLaunch` | `proxy/zcode-proxy-autostart.ts`, preflight and smoke test of `cli/heal.mjs` |
| `ProxyManager` | `proxy/zcode-proxy-manager.mjs` and the operating system under it |
| `ProxyVitals` | `runtime/watchdog.ts`, the memory guard of `runtime/health-monitor.ts`, how `serve` leaves |
| `AccountPool` | `auth/account-rotator.ts`, the pool part of `auth/manager.ts`, `auth/runtime.ts`, the store operations of `auth/account-store.ts`, the account side of a request |
| `AccountStoreLock` | the lock file of `auth/account-store.ts`: create, release, recovery, `accounts unlock` |
| `RequestPath` | `proxy/handler.ts`, `proxy/responses-handler.ts`, `proxy/upstream-errors.ts`, `proxy/captcha-retry.ts`: the layers around a dispatch |
| `ClientSigning` | `proxy/endpoint-routing.ts`, `proxy/client-signing.ts` |
| `AsyncBridge` | `async/bridge.ts`, `async/handler.ts`, `async/client.ts` |
| `StreamGate` | `proxy/stream-prelude.ts`, `proxy/sse-terminal.ts` |
| `StreamTranslation`, `ReverseTranslation` | the two directions of `translator/sse-translator.ts`, `translator/chat-to-responses.ts` |
| `Conversation` | `responses/store.ts` and the way of a history through `translator/responses-to-chat.ts` and `translator/openai-to-anthropic.ts` |
| `CaptchaPool` | `proxy/captcha-pool.ts`, the caps of `proxy/captcha-cpu-governor.ts` |
| `CaptchaSolver`, `SettledOnce` | the dispatcher of `proxy/captcha-solver.ts`, and what it promises in the abstract |
| `LoginStore`, `LoginFlow` | the login file (`auth/store.ts`, `auth/manager.ts`, `auth/desktop.ts`) and the flows that fill it (`auth/oauth.ts`, `android/control.ts`, `index.ts`) |
| `Claims` | `claim/scheduler.ts`, `claim/runtime.ts`, `claim/client.ts` |
| `HarnessTaskProofs`, `SetupTransactionProofs`, `AccountPoolProofs`, `CaptchaProofs`, `RequestProofs`, `ProxyProofs`, `BridgeProofs`, `KitProofs` | theorems |
| `MCHarnessTask`, `MCSetupTransaction`, `MCAccountPool` | one module each, for TLC |
| `MCCaptcha`, `MCRequest`, `MCProxy`, `MCBridge`, `MCKit` | several components side by side, for TLC |

The last five MC modules (`MCCaptcha` to `MCKit`) hold components that share no variable. Exploring all
interleavings of independent components would only multiply their states, so a
variable `part` chooses one, and the others stay in one of their initial states.
What a component sees of another is in its own module: `RequestPath` draws the
answers of the account checks that `AccountPool` models, `KitLaunch` draws the
outcomes of a start that `ProxyManager` models, `ProxyManager` contains the
watchdog's request that `ProxyVitals` justifies. In all modules Node's rule
holds: a step is the code between two awaits, and the callbacks that are due
when a step ends belong to it.

### HarnessTask

Node runs one callback at a time, so **a step is the code between two awaits**.
Every async function in flight is a coroutine with a program counter that names
what it awaits: `start[t]` is `startNow` (boot, setup, send, sent), `input[t]`
is `addInput`, `cancel[t]` is `cancel`, `quiet[t]` the set of `checkQuiet`
loops of the task (each may be asleep or reading). `state`, `sid`, `owner`
(`bySession`), `queue` (`startQueue`), `accepting` and `sending` are fields of
the code; `job` is what the client asked for; `turn` is what the harness does
in a session (external: as the projection read back by `session/read` shows it).

Decisions worth knowing when reading it beside the code:

- `turnRevision` only grows and is only compared for equality with a captured
  value. The model keeps the outcome of that comparison in the coroutine
  (`fresh`) and clears it where the code increments. A sleeping `checkQuiet`
  that has become outdated returns when it wakes and does nothing else, so it
  is dropped at once.
- Consecutive awaits of one function with the same failure handling and no
  state change between them are one program counter (`setup` stands for
  model, mode, selection read-back and subscription).
- `Drain` is the whole loop of `drainQueue`: it counts the slots per entry as
  the loop does, and each `startNow` it launches runs up to its first await.
  Every action whose code ends in `onTerminal()` or `drainQueue()` contains it.
- `waiting_for_input` and `waiting_for_approval` are one state: no code tells
  them apart.
- `session/close` of an abandoned session (`manager.ts:405`) changes nothing
  the model can see: no turn was started in it.
- When a turn is over, tool calls may still run in its session ("settling"), or only
  background jobs and unanswered permissions ("jobs"). `checkQuiet` asks for all of
  them, `cancel` for the status and the tool calls only (`LooksStopped`).
- When the harness exits, `stopAll` interrupts the active tasks, and every awaited call
  is rejected. The coroutines of an interrupted task find its revision changed; two
  others still write: a `checkQuiet` on its last read, and the catch of an input
  whose task completed or failed while it was in flight, since `stopAll` skips such a
  task (`LateWrite`). Their `checkQuiet`s sleep on (`QuietAfterExit`). A bridge that
  is told to shut down is a `HarnessExit` followed by a `BridgeRestart`.
- A bridge restart may find the state before a follow-up on disk, because
  `addInput` persists only right before it sends.

Not modelled: idempotency keys, a second `cancel` of a task while one runs (its
polls only repeat the first one's), the 120 s bound of `checkQuiet` on
"starting" (the calls of a start time out earlier), results, usage, derived
events, sequence numbers.

### SetupTransaction

All calls are synchronous; the process that holds the lock is a straight line
of file operations, `pc`, with `ops` the operations in its memory. `file`,
`backup`, `journal`, `manifest` and `lock` are what is on disk and survive
`Crash`. Contents are abstract: the number of the user's latest edit and the
number of what the kit put in, so that an adapter merges its part into the
user's and a hash stands for the content it was taken of. `older` and `exp` are
`expectedHashes` and `expectedHash`, `post` is `postHash`, `done` is
`rolledBack`. A rollback marks operations in memory and saves them at the end,
as the code does; uninstall goes on with the next older transaction.
`wrote` and `orig` are history variables for the properties.

Left out: operations outside the file system (a registration with a harness
CLI; they only add an undo hint), a torn manifest (`openSync` and
`writeFileSync` at lines 293-301), and a user's edit between a check and the
rename that follows it. Clocks are assumed to order transactions.

### AccountPool

Four kinds of actors share the accounts, and every await lets the others run:

- **requests** (`phase[r]`): refresh the pool and select (`Arrive`, `Select`), refresh
  again and check the handle before the first dispatch (`Verify`, `Admit`), then an
  answer: one that says nothing (`Served`), a success (`Healthy`), a quota answer
  to a current handle (`Rejected`, then `Failover` once the mark is written), to a
  stale one (`RejectedLate`), or one that can only be reported (`RejectedForGood`);
- **the refresh** (`refresh`): one at a time, shared by all who ask while it runs,
  with the snapshot of the store it read when it began (`JoinRefresh`, `RefreshEnds`);
- **the writer** (`pass`, `dirty`, `timer`, ...): passes over the whole pool, at most
  three in a row, a schedule of retries after failures (`PersistAccounts`,
  `BeginPass`, `EndPass`, `WriteFails`, `RetryFires`);
- **the CLI**, another process, which changes the store under its lock (`CliLocks`,
  then `Pause`, `Login`, `Replace`, `Add` or `Remove`).

A profile has the fields that decide something: `rev`, `fg` and `qg` are
`credentialRevision`, `failureGeneration` and `quotaGeneration`, `until` is
`exhaustedUntil`, `failed` says that `lastFailureAt` is set. `rev` 0 is a store
entry without `credentialRevision`, which `cloneProfile` counts as 1; which
operation leaves it out matters (section 5). A credential stands for its effective
identity; equal credentials under two ids are aliases. A handle is the record the
request carries; it is compared field by field, as `sameHandle` does.

- `BeginPass` takes the snapshot and tries the lock in one step, since
  `updateAccountStore` reaches `acquireLock` before its first await; a busy lock
  is the first kind of failure.
- `EndPass` is the read, the merge (`Merged`), the write, the release and
  `syncProfiles` with the result: the lock keeps the CLI out, and the pool is not
  read in between except by the steps the model interleaves before it.
- A mark makes every copy of its handle stale, so the singleflight map of
  recoveries is hit only after an id was removed and added again; joining is left
  out, and `gone` names those ids for the properties that exempt them.
- `barred`, `gone` and `fatal` are history variables.

Left out: the lock file itself (`AccountStoreLock`), the flush at
shutdown, the legacy single credential, the same-account resend of a quota answer
and its wait, permanent failures, and the static filters (plan, provider,
allowlist, expiry), which are satisfied for every account of the model.

### AccountStoreLock

What `AccountPool` takes for granted of the lock, call by call of the file system:
the exclusive `Create` of the file and the `Fill` of its record, the three looks
at a lock that exists (`Look` in `acquireLock`, `Inspect` and `Recheck` in
`recoverAccountStoreLock`), `RenameAway`, and the `Release` that compares before it
unlinks. A process is one command, `read` the snapshot its update works on, and
`Dies` may happen before any call, which leaves a lock, a lock without a record
(nobody recognizes its owner as dead; the message of the CLI asks for `--force`),
or an update that is in the store. `applied` and `robbed` are history variables:
the updates that replaced the store file, and the live owners whose lock another
process removed. Temporary files are left out.

### HarnessLink and SessionSettings

A connection is a child process with its two flags (`child`, `exited`);
`current` is `RuntimeManager.connection`, `pending` the map of calls that wait
for an answer, `line` the undecided questions in order and `waiter` the reply
context each decision will resume. `FailAll` is `failAllPending`, the comparison
in `onExit` decides whether an exit concerns the current connection. A reply to
a question is written when its decision's callback runs; if the connection has
gone, the exception has no handler and the bridge dies (`fatal`).

`SessionSettings` gives each client one operation in flight. `base` and `done`
remember which state of the session its caller had seen and how often it has
changed the session since; the harness's own check of `expectedRevision` is
external. Calls refused at once are no steps.

### KitState, KitConsent, KitUpdate

Commands are processes; each may die at any step and be run again. `KitState`
has the move of an older version's files (staging, then one rename, under a
lock file) and the completion of key and config under the setup lock; `told`
remembers that the manager sent the user to setup. `KitConsent` runs the
commands one at a time, as the setup lock does, and keeps a transaction as the set
of what it changed (`SetupTransaction` has the inside). `rollback` takes an id, so
transactions are undone in any order; `TakesBack` does to one of them what
`rollbackLocked` does, file by file: restore, leave a conflict, or find nothing left
to do. `Varied` are the harnesses whose entry may be written anew with another text,
`Damaged` those whose decision file somebody else may make unreadable, make readable
again or delete. `said` is the user's last word on each harness; it is "unheeded" when
it was less than the decision that stands and the command had to report that it could
not record it (the adapter threw, or the file was unreadable). `loose` are the
harnesses of which an older change was undone while a newer one stood. Setup takes
the harnesses in one order (`Turn`), as the code does; they share nothing, so the order
does not matter. Not modelled: a disk that refuses to write a decision, a command that
dies, an adapter that finds a foreign entry and leaves it. `KitUpdate` has one file of each kind that matters
(in both releases, only in the old one, only in the new one, the machine's own)
and a proxy that anybody may start meanwhile. A file is copied in one step.

### ProxyManager, ProxyVitals, KitLaunch

A manager is a short-lived process that runs one command; `proc` is the
operating system's table, where a pid may be given to another process when its
owner has ended. The guard that verifies a process and the signal after it are
one step: no await lies between them, and the window that remains between two
system calls is the operating system's. The spawn of the proxy and its record are two
(`Spawns`, `StartRecords`): the manager may die between them, and the write of the
record, or of its start time later, may fail or be cut. A kill may have no effect;
`killOwned` looks at the pid alone (`KillWaits`, `KillEnds`), and `start` drops the
record of its child whatever came of it. Two kinds of processes name what the code
loses sight of: a *stray* is a proxy that runs and of which no record tells any more,
an *heir* another process that got the pid of a child while the start of that child
ran - Node reaps a child during the awaits, so its pid is free again, except in the
step between the spawn and the record. The budget of respawns has a lock of its own, so
its read and its write are two steps.

`ProxyVitals` counts time in the watcher's checks; a sleeping machine moves the
clock while neither thread runs. `KitLaunch` counts timers down, and a timer
that is due fires before time goes on.

### RequestPath, ClientSigning, AsyncBridge

`proxyRequest` and `handleResponses` wrap the same four layers around a dispatch:
the ladder of transient failures, the captcha seam, the schedule of quota
resends, the failover. `layer` says in which one a dispatch is, `held` what it
returned; `Failures` and `Answers` are the classes that some layer tells apart.
`Dispatched` draws any of them, so all orders of failures over all layers are
explored. In `ClientSigning` a key is the number of its handshake; the server
may drop all keys it gave out; whatever is cached may expire at any time.
`AsyncBridge` makes each call to the ticket service a step, with every answer
and its failure; a ticket may expire at the service at any time.

### StreamGate, StreamTranslation, ReverseTranslation, Conversation

A frame has two units of bytes, the first with its event line, so chunks may cut
a frame after its kind is known. The gate's read that a time limit overtook is
still in flight when the stream is handed on, and its chunk must not be lost:
`inflight` and `awaited` follow that read. In the translators a delta counts as
not empty, and frames and events are kinds with the index of their block; the
end of the upstream may come at any frame, as an end or as an error, through two
translators that each see only the other's output. `Conversation` keeps the map
of `responses/store.ts` as the sequence of its insertion order, and builds what
is sent for the next turn by the code's two passes (items to messages, messages
to messages).

### CaptchaPool, CaptchaSolver, SettledOnce

A chain is a run of `solveFresh` with its attempts; every take has one and so
have refill, warm-up and storm probe. Solves go through the one line of the
solver. `Deliver` is what follows a solve without an await and runs first. A token
expires unseen: `tokens` holds the expired ones too, and each place where the code
calls `pruneExpired` drops some number of the oldest (`Pruned`; `Looks` is `stats`, which
anybody asks through /health). Where the code counts without pruning, as
the idle decay of `refill` does, so does the model (`Decayed`).
`CaptchaSolver` has the dispatcher's counters and flags and a worker thread that
may hang, fail, be spoilt or exit; its deadline timer (`Lost`) always fires.
`SettledOnce` is the abstract dispatcher: jobs are submitted, at most one runs,
a job is settled once; `CaptchaSolver!Board` is the refinement mapping.

### LoginStore, LoginFlow, Claims

A write of the login file is a number, since no two have equal bytes; the record
says which credential it holds and from which login it descends. Import from the
desktop client and the check that follows it are one step. The compare of the
file and the rename after it are one step when `Window` is FALSE; section 5 says
what happens when another process acts between them. `LoginFlow` has the app's
flows (Z.AI by polling, Bigmodel by a callback on one shared port), terminal
logins and pasted addresses; an attempt is a flow's own or one started by a
delivered code. `Claims` counts time down; hold-backs count from the start of a
cycle. `eligible` are the plans the configuration allows: all, or the one
`claim.planId` names, which may be none on offer (`Available`, `Picked`). Plans are
numbered in the order of `pickPlan`. `waited` is kept per plan: the time it has been the
first in line, since it was last answered or a cycle failed.

Simplifications the three share: one provider; waits of fixed length between
retries are dropped; the secret of the callback's state parameter is the flow.

## 3. Runs

| Run | Instance | Shows |
|---|---|---|
| `task_limits` | 3 tasks, 2 slots, 1 workspace, 1 shared session, policy deny, starts and cancels, failing boots, sends and stops | WriteExclusion, NoIdleSlot, CancelledMeansStopped, CancelKeepsWish |
| `task_live` | 1 task, policy ask, steering, follow-ups, cancel, all faults, 1 exit or restart | CancelResolves under `LiveSpec` |
| `undo` | 2 files, 2 transactions, 3 writes, 2 kit contents, 1 user edit, 1 crash in a setup | Discoverable, BackupIntact, UndoIsExact |
| `account_pool` | 2 accounts, 2 credentials, 2 requests, 2 writes of the CLI or failed writes, clock to 2, 1 retry | PausedGetNoNewRequest, NoSilentDrop, RecoveryIsUnique, AnswerHitsItsCredential |
| `captcha` | 4 jobs, generations of 2 failures or 3 solves, 2 outside requests; 2 takes, 2 ids, pool of 2, 2 tries per solve, expired tokens | SolvesOneAtATime (the refinement), EveryCallEnds; IssuedOnce, StormIsProbed |
| `request` | 2 accounts, 4 attempts, 2 delays; 2 requests, 2 drops of keys; 2 retries, 2 polls, 3 frames; 3 processes, each an update, an unlock or a forced unlock of the store | AbortEnds; BypassIsEarned; AnswerIsOne, TicketsSettled; LockProtects, DeadLockGoes |
| `proxy` | 3 frames in chunks of 3 units; 6 frames with 2 tool blocks; 4 chunks with 2 calls; 3 turns with 2 calls, 2 entries; 2 credentials, 2 requests, 3 file writes; 2 overlapping flows; 2 plans, all or one or none configured | StreamIsWhole; TurnIsWhole; BlocksAreWhole; ConversationIsWhole; LoginStands; SavedIsOwn; ReadyPlanIsClaimed |
| `bridge` | 2 calls, 2 questions, 2 harness processes; 2 clients, 2 preferences, 4 revisions; 2 requests, timers of 2 and 3 | EveryHarnessCallEnds, SuccessorUndisturbed; NoForeignChange; RequestsProceed |
| `kit` | 2 setups, 1 rerun, 1 death; 2 harnesses (one whose decision file may be damaged, one whose entry may change), 2 transactions, rollbacks in any order, 1 change by others; 4 kinds of files; 2 managers, 2 pids, 3 starts, 3 commands, 1 crash, any failing kill or write; a clock to 8 with 4 ticks of sleep | StateIsWhole; NothingUnasked, UninstalledIsGone; UpdatedIsWhole; KillsOnlyOwn, OneProxy; GivesUpForCause |
| `steer_race`, `bridge_survives`, `lock_stolen` | 1-2 tasks; as `bridge`; as `request` | counterexamples, see section 5 |

The modules define further invariants that hold on the same instances and are
left out of the runs because they are weaker, proved, or say little beyond the
ones above: `TypeOK`, `SlotLimit`, `SessionExclusive`, `QueueExact`,
`StartResolves`, `OwnWritesOnly`, `QuarantineHolds`, `SavedIsSaved`,
`AdminStateKept`, `MintsHeldBack`, `TokenIsFresh`, `EveryWaitEnds`,
`RescuesBounded`, `PortsReleased`, `EachHearsItsOwn`, `CatalogIsClosed`,
`SmokeInBudget`, `RespawnBudget`, `MemoIsProven`. They can be added to the configurations.

**Bounds and why they are enough.** Three tasks with two slots is the least
instance with a task queued behind two running ones and a second one behind it
or cancelled in the queue; a second workspace adds only tasks that do not
conflict, which read-only tasks already provide. One poll per cancel and one
read per `checkQuiet` make the last attempt (the one with an effect) reachable
at once; `task_live` takes two reads so that the loop repeats. `MaxQuiet`
bounds concurrent `checkQuiet` loops: an outdated one has no effect, and a
turn completes once per prompt. `MaxExits` = 1: an exit leaves at most a `checkQuiet`
behind that sleeps on; what it leaves (states, late writes, session owners) is in the
instance with follow-ups. For transactions, two files let a failing adapter keep one
operation and drop another; three writes allow two commits of one file in one
transaction, or one file in two; one edit and one crash put each at every point.
`CrashIn = {"setup"}` for `undo` because a crash inside a rollback is known to
break the exactness a repeated rollback promises (section 5).
`Named = FALSE`: undoing by name out of order can bring back the kit's version
of a file the user deleted (lines 415-418 and 434-438 restore whatever was
there before the named transaction), and no document promises otherwise.
For the lock, three processes are one dead owner and two that recover its lock, or
two updates and an operator; the theorem covers any number.
For the pool, two accounts and two credentials allow both a failover and an alias
(one credential under two ids); two requests allow a late answer, a shared
refresh and a second rejection of one handle; two CLI writes allow a pause and
its end, a removal and a return, a change of the credential and back; the
clock's two ticks let a quarantine of length 1 expire. One retry reaches a
scheduled retry and a spent schedule. More quarantine lengths add no comparison.

Four jobs give the solver a job in flight, one that is dropped with it, one
queued and one submitted into a shutdown; the allowed failures and solves are
less than the jobs, so generations end for each reason. Two takes and three
background chains over two ids let two solves return one id. Two requests over
the signing state are the one that bypasses and the one whose handshake is late;
two drops of the keys make the second rejection possible. Two retries and two
polls reach the last ticket and the deadline. Three frames with chunks of up to
three units put a chunk's end at every place of a frame, and `MaxHeld` below the
whole stream lets the gate give up holding. Six frames hold two interleaved
tools with text or reasoning; two entries for three turns evict the first. Two
plans are one that is held back and one published meanwhile; the windows are
longer than the pause of a failed cycle, so that pausing for one shows. Two harness processes are a lost one and its
successor; two questions share one waiter or not. Two managers over two pids
cover each race of start, stop and respawn with a reuse; three commands are a
start, a stop and a respawn. `Stall` = 3 and `Gap` = 1 keep the order of the
code's constants (a stall is longer than the gap that tells a sleep) with a
clock long enough for a sleep before, inside and after a stall. Two transactions are
an older and a newer one undone in either order; damage to one harness's decision and
new texts of the other's entry are independent of each other, as harnesses share
nothing but the transactions.

All specifications stop when their bounds are used up, so runs do not check
for deadlock; that nothing waits for ever is what the liveness properties say.
Runs with symmetry check invariants and action properties only.

**Fairness.**

- `HarnessTask` (`LiveSpec`): weak fairness of every coroutine step, of the harness
  taking a prompt that is on its pipe, and of questions being decided. Every
  call of the bridge has a request timeout and is rejected when the harness
  exits, every sleep is a timer, and a question resolves by its timeout
  (`interactionTimeoutSec`). The step of a cancel that waits for a send is strongly
  fair: it goes on once that send is settled, whatever another input sends after it.
  Nothing is assumed of clients, of a turn ever ending, or of faults.
- `HarnessLink`: the timer of each call and the grace timer of a stop fire. The
  harness need not answer or exit.
- `CaptchaSolver`: the deadline timer of a solve fires; the worker may hang.
- `CaptchaPool`: callbacks that are due run, a pause and a storm's back-off end
  (clocks), and the refill timer fires; its tick is strongly fair because it may
  find the pool busy and is set again as often as that. That somebody takes a token, or
  looks at /health and so prunes the expired ones, is not assumed.
- `RequestPath`: the request's own steps (timers, local work, calls with a limit)
  and the time limit of the prelude. The upstream's answer is not assumed; an
  abort ends the wait for it, since the signal is given to the fetch.
- `AsyncBridge`: calls to the ticket service have time limits and sleeps end.
  The model's stream is assumed to go on only when the client's signal aborts it.
- `AccountStoreLock`: a command that has begun goes on, until it dies; none of its
  calls of the file system waits for anyone. `DeadLockGoes` rests on it.
- `KitLaunch`: the probe has a limit, the preflight process is killed by its
  timer, time passes. The preflight itself may hang.

Each property of a passing run is paired with a change of the model that a
plausible bug in the code would make (section "mutants" of `PROJECT.json`; the
operators stand next to the ones they change, marked "Mutant"), under which TLC
finds the property violated in the same instance.

## 4. Proofs

### `HarnessTaskProofs`

For any sets of tasks, sessions and workspaces and any bounds, from
`ConstantsOK` only:

- `TypeCorrect`: `Spec => []TypeOK`. `TypeOK` is inductive. The lemmas
  `DrainType`, `StaleType`, `RemovedType` and `ClosedType` type the helpers
  once, and there is one lemma per group of actions.
- `CancelIsKept`: if `Policy = "deny"`, `Spec => CancelKeepsWish`, for every
  client operation and every fault. The invariant needed is `TypeOK` alone: the
  argument is that each writer of `state` is guarded by a comparison that
  "cancelling" fails (`WishTask` for the coroutines, the `Listening` guard for
  harness events), and that `Drain` touches queued tasks only (`DrainAt`).
- `Exclusion`: if `Policy = "deny"`, clients only start and cancel tasks, no
  `session/read` fails and the harness does not exit (bridge restarts and all
  other failures are allowed), `Spec => []WriteExclusion`. WriteExclusion is
  not inductive by itself: an input in flight could revive an inactive task,
  and an event could reach one. `ExclusionInv` adds that there is no input in
  flight (`NoInputs`) and that a session's owner exists (`ListenersExist`), so
  that every step other than `StartTask` only moves active tasks to active or
  inactive states (`KeepsExclusion`), and `StartTask` checks the workspace
  (`StartTaskExclusion`). The conditions are needed: `steer_race` refutes the
  claim with steering; a failing last read or an exit writes "unknown" over an
  inactive state (section 6).
- `NoLostWakeup`: `Spec => [](NoIdleSlot /\ QueueExact)`, with every tool of the
  clients, every fault and both policies. `NoIdleSlot` is not inductive: a slot
  that is freed wakes the next task only if the queue holds what is queued and
  nothing else (`QueueExact`), and it goes on to do so only if whatever still runs
  for a task (a session, a startup, an input, a `checkQuiet`) belongs to a task
  that has left the queue for good (`Started`). So `QueueInv` is the four together
  with `TypeOK`. `VisitedPrefix` and `DrainQueue` say what the loop of `drainQueue`
  leaves: a prefix of the queue is decided, and either the queue is empty or no
  slot is. Every action is then shown to be `Orderly`: it calls `Drain` after
  whatever could free a slot (`DrainOrderly`), or frees none and queues none
  (`SteadyOrderly`, `SameOrderly`). `RemovedExact` is the cancel of a queued task.
- `SlotsAreLimited`: `Spec => []SlotLimit` under the hypotheses of `Exclusion`, from
  `QueueInv`, `NoInputs` and `ListenersExist`: `Drain` starts a task only into a free
  slot, and no other step takes one (`SlotTask`). Each of the hypotheses is needed:
  TLC breaks `SlotLimit` with steering, with follow-ups, with a failing last read
  and with an exit, each of which puts a task that has left its slot back into one.
- `CancelIsVerified`: if clients only start and cancel tasks,
  `Spec => []CancelledMeansStopped`, under every fault and both policies. The
  property speaks of prompts, turns and their tool calls; background jobs are not in
  it, since the read that verifies a cancel does not look at them (section 6). The
  invariant (`StopInv`) follows a prompt: it is on the pipe exactly while
  `startNow` is at "send" or "sent" (`SendKnown`), and a turn that runs belongs to
  a task of that session whose startup has sent its prompt or is over, and which is
  not cancelled (`TurnKnown`). Follow-ups break it: one puts a cancelled task back into
  "starting" while the old `startNow` is still on its way
  (`HarnessTask_cancel_startup.cfg`, section 5); steering breaks it together with
  faults.

### `SetupTransactionProofs`

For any sets of files and any bounds, from `SetupConstants` and `UnsetIsNothing`
(a hash or record that was not written is none). Induction over data is needed
in two places, the operations `restoreSince` keeps and the newest transaction
that `uninstall` goes on with; the library's induction theorems cannot be
instantiated by the provers at hand, so the module derives the least-number
principle (`LeastNumber`, `SetInduction`, `GreatestNumber`) from the well-founded
order of the numbers and proves the lemmas about `Left` (`NthPosition`,
`LeftIsPart`, `LeftIsAll`) from it.

- `TypeCorrect` and `BackupsStay`: `Spec => []TypeOK` and `Spec => []BackupIntact`.
  `BackupIntact` speaks of the disk, but entries reach the disk from the memory
  of a process and undoing restores from the backups, so the invariant `Inv`
  adds that the operations in memory are backed up as well (`IntactInv`). The one
  step that could overwrite a backup is `Touch`; it numbers by the backups there
  are, not by the operations on record (`NewBackup`).
- `KitIsDiscoverable`: `Spec => []Discoverable`. Undoing puts the previous
  content back, which may be the kit's too, written by an older transaction; so
  `PreInv` says that whatever a record would restore is named by an older record.
  `MemoryInv` says that memory and journal of a running setup name the same
  contents, and `FileInv` that a file's content is named by an older record or by
  an operation that was not undone yet. With those, dropping undone operations
  (`UndoEnds`), unlinking an empty journal (`Finish`) and dying at any point are
  harmless.
- `UndoRestores`: if rollbacks do not die (`"rollback" \notin CrashIn`) and take the
  newest transaction or all (`~Named`), `Spec => []UndoIsExact`, with every failing
  adapter and with setups that die anywhere. The property speaks of the end only,
  when nothing is left to undo; before, the transactions that hold a file lie on it
  like a stack (`ExactInv`): the one on top would put back what the next one left,
  the lowest the original (`Based`, `Stands`), a running setup continues the stack
  with what it wrote (`SetupExact`), and a rollback, which undoes the newest first,
  takes the top off (`RollbackExact`). TLC refutes the property without either
  hypothesis: a named rollback puts back what the named transaction overwrote, under
  newer ones, and a rollback that died reports its own restored files as conflicts
  when it is repeated (`SetupTransaction_phantom.cfg`).

### `AccountPoolProofs`

For any sets of accounts, credentials and requests, any cooldowns, retries and
number of CLI writes, from `PoolConstants`. `Steps` turns `Next` into its disjuncts,
`Chooses` and the other lemmas on operators say once what each part of the code
returns or keeps, `Inv` is the typed state with unique ids, one conjunct per group
of variables (`ClockInv`, `DiskInv`, `LockInv`, `RotatorInv`, `SourceInv`,
`RequestInv`, `WriterInv`).

- `TypeCorrect`: `Spec => []TypeOK`.
- `ChangesAreKept`: `Spec => []NoSilentDrop`; each end of the passes either saved
  everything, failed for good, set the timer or spent the schedule.
- `AdminIsKept` and `AnswersHit`: `Spec => AdminStateKept` and
  `Spec => AnswerHitsItsCredential`, step by step from `Inv`. The first needs that
  the lock is the proxy's exactly while a pass writes (`LockInv`), so that nothing
  else releases it; the second that a mark is made only through `SameHandle`.
- `PausedGetNone`: `Spec => []PausedGetNoNewRequest`. The property speaks of a request
  that was sent, the reason lies two awaits back: the request joined a refresh that
  was perhaps older than the pause, or the pool was. `PauseInv` carries the
  argument over the phases: what the pool holds, the refresh in flight or the
  next sync brings cannot make an account usable that has been barred since the
  request came, once the request has passed the refresh it waits for.
- `OneRecovery`: `Spec => []RecoveryIsUnique`. A mark raises the generations of the
  account, and generations never fall while the id stays in the store;
  `RecoveryInv` says that no profile of the pool matches a handle in recovery any
  more, unless its id was removed once.

### `RequestProofs`

About `MCRequest`, whose parts share no variable: `EachPart` says that a step of the
composition is a step of each part or leaves it alone, and each part has an
invariant of its own. The other proofs of compositions begin the same way.

- `LockTheorem`: `Spec => []LockProtects`, for any set of processes. `LockInv` adds to
  the types that a holder who was not robbed is the owner in the file (`Owns`), and
  that without robbery the snapshot of an update that is about to write is the
  store (`Fresh`). `Owns` is needed because the property says nothing of the file
  that keeps the others out, `Fresh` because a write replaces the store by what was
  read two steps before.
- `SigningTheorem`: `Spec => BypassIsEarned`, for any set of requests and any number of
  rotations. A key is the number of its handshake, so newer keys are greater.
  `AfterRejection` says of a request that was rejected once that every key it can
  still come by - the cached one, the one it waits for, the one it was sent with
  and those of handshakes that run in this epoch - was asked for after the
  rejection. A handshake of an older epoch ends without effect, which is why
  `invalidateState` must count the epoch up.
- `TicketsTheorem` and `AnswerTheorem`: `Spec => []TicketsSettled` and
  `Spec => []AnswerIsOne`, for any `MaxRetries` in Nat and any number of polls and
  frames. `TicketsInOrder` says that tickets later than the one in use were never
  touched; `GivenInOrder` that what was forwarded so far is the beginning of one
  ticket's answer, and is empty wherever the bridge may still retry.

### `CaptchaProofs`

Assumed: `None` is no job, id or attempt, the takes are a finite set apart from the
background chains, and the number of tries is in Nat.

- `BoardTheorem`: `Spec => SolvesOneAtATime`. Each step of the dispatcher is a step or a
  stutter of `SettledOnce` under the refinement mapping. `SolverInv` says that a job
  that was submitted and not settled is in flight or in the queue, once; `PumpKeeps`
  is the step that several actions end with, which settles the jobs that are lost
  on the way and dispatches the next.
- `IssuedTheorem`: `Spec => []IssuedOnce`. An id that a chain has solved and not yet
  handed out or banked was not issued before (`Unissued`), since `isDuplicateParam`
  asks in the step that solves it and at most one chain has such an id (`Chains`).
- `MintsTheorem`: `Spec => []MintsHeldBack`, by the same invariant.

### `ProxyProofs`

- `StreamTheorem`: `Spec => []StreamIsWhole`. Units of the stream are numbers, so what
  was read together is a run of numbers (`Run`). `GateInv` says that four runs lie end
  to end: what went out, the beginning of a frame that the monitor keeps (`tail`), what
  the gate left of its prelude (`prefix`), and the chunk of the read that a time limit
  overtook (`Came`). Before the verdict all that came is in `held` and `pending`, and
  nothing is out (`AtGate`, `AtVerdict`); afterwards the monitor stops only where a
  frame ends (`Cut`, `Within`), so its own error never cuts one in two.
- `TurnTheorem`: `Spec => []TurnIsWhole`, for every item, with one difference: a delta of
  the reasoning comes after its item was opened but may come after it was closed (section
  6), one of a message or a call lies between the two. Two invariants are chained, one for each
  translator. The marker [DONE] in the queue, or seen, stands for a `message_stop`
  that was read (`Marked`); this holds through both translators whichever of them
  fails. What a client was told is followed item by item, by the places of its events
  in the sequence (`Marks`): nothing, open, or done (`Items`), and `Sending` says how one
  more event changes that. For a call to be open when its arguments arrive, the reader
  must know a call before it reads them: `Waits` says of the chunks in the queue that
  the calls the reader does not know are announced in their order, each before its
  arguments. With it the calls are always 1 to some k (`RsInv`), which is what makes
  `closeToolItems` close each of them once (`CallsClose`, `FinalizeEnds`).
- `ConversationTheorem`: `Spec => []ConversationIsWhole`, assumed that the bounds of the
  store are numbers (`TalkAssumption`). `TalkInv` says that an entry of the store, and a
  request under way, holds all that was said since the conversation's first turn, and
  that an id is stored once at most. That every call is answered in the message that
  follows it is an argument over one history, in three states: no call is open
  (`Resting`), calls were made (`Asking`), some of them were answered (`Replying`);
  `WordsRest`, `NextCall`, `NextResult` and `AllReplied` say how one more item changes
  the state, and the answers to a turn's calls, in whatever order, end at rest
  (`RepliesRest`). The two passes and the count of bytes are recursive functions;
  that such a function exists, and what it does with one more element, is proved
  once (`FoldExists`, `BuildAppend`, `AnthropicAppend`, `TotalAppend`) by an
  induction over sets of numbers (`SetInduction`), which needs no theorem that takes an
  operator.
- `LoginTheorem`: `~Window => (Spec => []LoginStands)`. `Window` allows another
  process to write between the proxy's compare of the file and its rename; with
  it TLC refutes the property (section 5). The file is one of the sealed records,
  and a load works on a file that was there (`NoWindow`).
- `RescueTheorem`: `Spec => []RescuesBounded`. `Attempted` relates the history of tries
  to the two counters of the code: every attempt but the one under way has failed or
  was the last.
- `SavedTheorem` and `PortsTheorem`: `Spec => []SavedIsOwn` and `Spec => []PortsReleased`,
  assumed that neither "bad" nor `None` is a flow. The shared port delivers codes of
  any flow; `FlowInv` says that what a flow keeps is its own code, or bad, or none.
- `ClaimTheorem`: `Spec => []ReadyPlanIsClaimed`, for any plans, any configured plan, any
  `Poll` and `Cooldown`, assumed `MaxCall < Poll` (`ClaimAssumption`): the calls of a cycle
  have time limits of seconds, polls are minutes apart, and without it a slow cycle could
  be followed by the next before the plan's turn came. The wait is that of the plan
  which is first in line; a lower one, or one that is not the configured one, is promised
  nothing. `TimerIsSet` says that the timer fires before a wait exceeds a poll or a
  pause, and that the pause is over by then; `FirstWaits` that none but the first waits,
  and that one which waits longer than the cycle lasts is one the cycle has seen, and
  picks.

### `BridgeProofs`

- `SuccessorTheorem`: `Spec => SuccessorUndisturbed`, for any number of calls, questions
  and harness processes. `LinkInv` types connections and who may name them; each
  handler of an old process compares itself with the current connection.
- `SettingsTheorem`: `Spec => NoForeignChange`, for any clients and preferences.
  `Guards` says that the revision that guards the next setter is the one the caller
  read plus its own setters since.

### `KitProofs`

Assumptions on the constants say only that values that stand for nothing are not
values, that the sets of files are apart, and that limits are numbers.

- `StateTheorem`: `Spec => []StateIsWhole`. A staged copy holds nothing but members of
  the package (`Copies`); who got past the move finds the kit's own directory and
  holds the setup lock (`Ahead`); no config before its key (`KeyFirst`).
- `GoneTheorem`: `Spec => []UninstalledIsGone`, for any harnesses, number of transactions,
  rollbacks in any order and changes by others. `Kept` says that what the kit left in a
  program is named by an operation on record, or will be by the setup that runs, and
  `Rooted` that a record which gives an entry's older text back stands above one that
  names it too; a registration that could not be undone stays on record. Both exempt
  the harnesses in `loose`, of whose entry an older change was undone while a newer one
  stood: for them the claim is false (section 6).
- `ConsentTheorem`: `Spec => NothingUnasked`, for any harnesses, number of transactions,
  rollbacks in any order, and changes by others, damaged, repaired and deleted decision
  files among them. `SaidInv` says that no decision asks for more than the user's word
  (`Covers`): the one in the file, which counts also while it cannot be read, and every
  one a record would put back, with the word that stood then. So the argument needs no
  order of the rollbacks: each brings a decision back together with its word. What the
  property exempts is stated with it: a word the command reported it could not record,
  and the entry that a rollback gives back because it was deleted since.
- `UpdateTheorem`: `Spec => []UpdatedIsWhole`. Files are copied from a verified archive
  only, all of them before the first is deleted (`Mirrored`), and the result of an
  earlier run is not taken for the present one's (`ResultIsOwn`).
- `VitalsTheorem`: `Spec => []GivesUpForCause`. `StillIsSilent` is the argument: the time
  since the watcher saw the heartbeat change is time awake, except for one sleep
  after its last check, which the next check notices unless it is shorter than `Gap`.
- `SignalTheorem` and `OneProxyTheorem`: `Spec => []KillsOnlyOwn` and `Spec => []OneProxy`,
  for any managers and pids, whoever dies when and whichever kill or write fails.
  `ManagerInv` says of every manager what it holds of the lock, the record and its child
  (`Local`), that a proxy which runs and is no stray is the one on record, or about to
  be recorded (`OnRecord`), and that a start time on record is that of a proxy or an
  heir (`Honest`). `ChildKnown` carries the argument over reused pids: until a manager
  lets go of the lock, who has its child's pid is that child or an heir. Strays and
  heirs are what the two properties exempt, by name, because the code loses them
  (section 6).
- `BudgetTheorem`: `Spec => []RespawnBudget`. The file, and what a manager with the
  budget's lock has read of it, contain every restart that counts (`BudgetInv`).

### Only model-checked

- Liveness (`CancelResolves`, `AbortEnds`, `DeadLockGoes`, `EveryCallEnds`,
  `StormIsProbed`, `EveryHarnessCallEnds`, `RequestsProceed`): fairness and ENABLED
  are beyond the prover.
- `BlocksAreWhole`: blocks are closed in an order that a recursive sort returns, and
  flattened by a recursive operator, which the prover cannot unfold.
- `QuarantineHolds` and `SavedIsSaved` of `AccountPool` (section 6 says what larger
  instances would need).

## 5. Where the code and its documents disagree

With a run of its own:

- `steer_race` (`tasks/manager.ts:491`, `514`): steering revives a task whose turn
  failed while the input was verified, beside a writer admitted meanwhile.
- `bridge_survives` (`tasks/relay.ts:87`): a question is decided, or expires, after its
  harness has gone; the reply throws inside a promise callback without a catch,
  and the bridge dies. A test asserts that it survives a crash of the harness.
- `lock_stolen` (`account-store.ts:338`): of two processes that recover a dead lock,
  the later one renames the lock that the other has acquired meanwhile; the
  comment above says this cannot happen. `LockProtects` says that nothing else but
  force lets two updates overlap.

With a configuration that TLC finds violated, not in the list of runs:

- `HarnessTask_ask_vs_cancel.cfg` (`relay.ts:80`): under policy "ask" a question that
  arrives during a cancel sets the task waiting, the cancel returns without a
  verdict and deciding the question sets it running.
- `HarnessTask_cancel_startup.cfg` (`manager.ts:383`): cancel and follow-up during a
  startup let the old `startNow` send the cancelled prompt.
- `SetupTransaction_phantom.cfg` (`transaction.mjs:445`): a rollback that dies before
  it saves its marks reports restored files as conflicts when it is repeated.
- `SetupTransaction_stuck.cfg` (`transaction.mjs:357`): a transaction whose stale
  journal survived stays listed after it was rolled back in full.
- `AccountPool_unsaved.cfg` (`account-store.ts:632`): `auth login --account ID --replace`
  on an account without `credentialRevision` stores revision 1 while the rotator
  counts 2; from then on the merge skips every quota mark of the account, and the
  status still says that all is saved.

By a change of a line or two in a configuration:

- `AccountPool_pool.cfg` with `SuccessClearsMarker` (`runtime.ts:106`): the success that
  clears a failure marker is undone by its own write, which merges by maximum with
  the store.
- `Request.cfg` with `PostWriteStays`: the ladder resends after a failure that came
  after the request was written; when the resend is answered with a quota envelope,
  the failover sends it on another account, although `handler.ts:688` says of such a
  failure that it is never replayed on another account.
- `Kit.cfg` with `AdviceWorks` (`zcode-proxy-manager.mjs:92`): a manager command before
  the first setup advises to run setup (line 77), and its log line creates a state
  directory without an owner, which setup then refuses (`state.mjs:93`).
- `Proxy.cfg` with `Overlap = FALSE`, three flows and `PortTakenOver`: a code the app
  delivers clears `activeOauth` whichever flow is active (`android/control.ts`,
  `deliverOAuthCode`), so the next login cannot tear the active one down and fails to
  bind the port; `control.test.ts:361` expects the port to be taken over.
- `Kit.cfg` with `NothingToDoIsTrue`: an update that died after it copied
  `package.json` finds the new version installed and says there is nothing to do
  (`zcode-kit.mjs:978-984`), while `self-update.mjs:161-169` says that rerunning
  the update repairs that.
- `Proxy.cfg` with `Window = TRUE`: another process writes the login between the
  proxy's compare of the file and its rename, and is overwritten.

## 6. Known and not stated by a run

Bridge:

- `checkQuiet` whose last read fails writes "unknown" over any state
  (`ingress.ts:187-213`). The model contains it.
- Two pending questions, the first decided: the task reports running.
- A cancel is verified by the status and the tool calls of the session; its background jobs
  are not looked at (`manager.ts:579-580`), while `checkQuiet` waits for them
  (`ingress.ts:193-195`). So a task is reported cancelled while jobs of its turn run on.
  `CancelledMeansStopped` does not speak of them.
- A steering input in flight when the harness exits, of a task that has completed or
  failed meanwhile, writes "unknown" or the earlier state over it, because `stopAll` skips
  the task (`manager.ts:694`, `528-537`). The model contains it.
- An expired question is answered with an error, while `docs/MCP_API.md:98` speaks of
  a default deny. A decision may set a task that has ended waiting or running.
- The resolution sent to the harness is the redacted one. The file of open
  questions stays after a crash.

Installer and processes:

- Two commits of one file in one transaction with a user's edit between them:
  the edit is merged by the adapter and lost by a rollback, since only the
  first touch makes a backup (`transaction.mjs:169`).
- An adapter that fails after writing a file an earlier adapter of the same
  transaction touched: `restoreSince` looks only at operations recorded after
  the savepoint, so its write to that file stays.
- A file is hashed and then replaced; an edit in between is overwritten. Node
  offers no atomic compare and rename.
- A setup that names a harness without the bridge (`--harness X --no-mcp`) and whose
  adapter fails records no decision (`zcode-kit.mjs:355-357`): an older one that
  covered the bridge stands, and the next setup registers it, although the comment at
  `harness-consent.mjs:290-292` says that with `--no-mcp` nothing must remember the bridge as
  consented. The setup reports the failure; `NothingUnasked` exempts the word
  ("unheeded"), in the model and by name.
- Rollbacks out of order: setup, a second transaction that writes the entry anew, the
  user deletes the file (or sets the older text back), `rollback` of the first, `rollback` of
  the second. The last one restores its backup, with the kit's entry, and no record names
  it any more: a later uninstall succeeds and leaves it (`transaction.mjs:434-438`).
  `UninstalledIsGone` exempts such entries (`loose`).
- A rollback of the transaction that withdrew a consent brings the decision back and the
  word it was taken on, also when the transaction that recorded that word was
  rolled back before.
- A `.migration-lock` left by a death fails every later move of the state
  (`state.mjs:104`) until the user removes it (`OperatorUnlocks`).
- A crash between creating and filling `.proxykey` leaves it empty
  (`context.mjs:196-200`).
- The update's comment that the proxy runs the updated code when it returns is
  true only if nobody starts the proxy during the copy (`UpdatedCodeRuns`).
- A pid record whose pid was reused makes `start` refuse until a stop clears it.
- A manager that dies between the spawn and the record, or whose write of the record
  fails, leaves a proxy that no record names (`zcode-proxy-manager.mjs:585-602`), although
  the comment at lines 600-601 says that a crash never does. So does `start` when it gives
  up on a child it cannot end: errors of the kill are swallowed (`:416`), the record is
  dropped (`:635-636`, `:642-643`). The kit cannot stop such a stray, and a second
  proxy may run beside it until one of them fails to get the port. `OneProxy` exempts
  strays.
- `start` signals its own child by the bare pid (`:635`, `:642`), after awaits in which
  Node may have reaped it: the pid may be another process's by then. The start time it
  records may be that process's too (`:604-609`). `KillsOnlyOwn` exempts such heirs.
- `manager.lock` and `respawn.lock` left by a manager that died stay until the operator
  removes them (`OperatorUnlocks`): the first blocks every start and stop, the second
  every respawn.

Proxy:

- `validateAccountHandle` does not look at aliases: a request selected before another
  account with the same credential was quarantined is still sent.
- A quota answer to a stale handle moves the sticky account to the one the request
  goes on with, although the account it was asked with may be healthy again.
- A shared refresh with an older snapshot may land after a newer sync and make a
  paused account selectable in memory; the check before the dispatch refreshes
  again (`PausedGetNoNewRequest` is about what is sent).
- A quarantine that is not on disk yet is lost when the CLI replaces the credential
  meanwhile (`SavedIsSaved` is about equal credentials).
- An id that is removed and added again starts with the generations of a new
  account, so an old handle may match it: the properties exempt `gone` ids.
- With three requests, a credential replaced and set back around one stale refresh
  may make an old handle match again and clear a newer quarantine:
  `QuarantineHolds` is claimed for the checked instance only.
- The refill of an idle proxy counts banked tokens that have expired as long as
  nothing prunes them (`captcha-pool.ts:502`): with a token left from before a mint storm,
  the storm is not probed until somebody takes a token or looks at /health.
  `StormIsProbed` exempts that.
- A take in its grace window is served a banked token during a provider's pause
  (`captcha-pool.ts:292-303`).
- A ticket whose `takeTicket` answer was lost is never settled. A model stream
  that ends without `message_stop` counts as done. A CRLF split across chunks
  splits a frame.
- A reasoning delta after the reasoning item is done goes into the closed item, since
  `ensureReasoningItem` opens no second one (`TurnIsWhole` says so).
- After the third failed write of a rescued login its count stays at the limit;
  below it the desktop client is read again. The first load after a migration of
  the key may be discarded. A load begun before a logout is joined by requests
  after it. A second redemption of a code is answered `oauth_exchange_failed`; a
  page of an old tab with another state ends the newer login; an older flow that
  completes late stores its login over a newer one.
- A campaign plan that is not first in line may wait for ever: plans of higher priority
  that are claimed again whenever their holds end keep it from its turn, and with
  `claim.planId` set no other plan is ever claimed (`scheduler.ts:159-160`). A claim that succeeds without an end
  date is held for one poll. A claim whose answer was lost is asked again.

## 7. Not modelled, and what comes next

Not modelled: formatting, parsing and drawing (terminal UI, reports, server
routes, configuration); the simulated browser of `captcha-happy.ts`; the host
side of the Android app; `account-setup.mjs`; the frames of
`openai-stream-adapter.ts`; packaging and installation scripts; the contents that
adapters write. These keep no state between steps, or their state is a file that
is written whole.

Next, in this order:

1. `SavedIsSaved` of `AccountPool`, `BlocksAreWhole` of `ReverseTranslation`.
2. `HarnessLink` composed with `HarnessTask`; `AccountPool` over `AccountStoreLock`.
