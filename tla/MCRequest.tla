------------------------------- MODULE MCRequest -------------------------------
(***************************************************************************)
(* The layers around a request, the signing state that requests share, the *)
(* off-peak path, and the lock of the account store below them.  Each is   *)
(* explored in behaviours where it alone moves.                            *)
(***************************************************************************)
EXTENDS Naturals, Sequences, FiniteSets

CONSTANTS Account, None, MaxAttempts, Delays, Request, Rotations,
  MaxRetries, Polls, AnswerFrames,
  Proc
VARIABLES part,
  opts, pc, layer, attempt, held, account, tried, delays, confirmed, completed, memo, aborted, answer, token, proofs, written,
  snapshot, cooling, refresh, gate, probe, privKey, handshake, shakes, epoch, bypass, count, valid, rotations, at, round, awaits, key, rejected,
  kind, phase, srv, cur, settles, given, partial, gone, signal, left, fails, keep,
  step, seen, lock, store, read, applied, robbed

ASSUME NoneAssumption    == None \notin Nat
ASSUME RetriesAssumption == MaxRetries \in Nat

pathVars    == <<opts, pc, layer, attempt, held, account, tried, delays, confirmed, completed, memo, aborted, answer, token, proofs, written>>
signingVars == <<snapshot, cooling, refresh, gate, probe, privKey, handshake, shakes, epoch, bypass, count, valid, rotations, at, round, awaits, key, rejected>>
asyncVars   == <<kind, phase, srv, cur, settles, given, partial, gone, signal, left, fails, keep>>
lockVars    == <<step, seen, lock, store, read, applied, robbed>>

Path    == INSTANCE RequestPath
Signing == INSTANCE ClientSigning
OffPeak == INSTANCE AsyncBridge WITH aborted <- gone
Store   == INSTANCE AccountStoreLock WITH pc <- step

\* The parts that do not move stay in one of their initial states, where no action
\* of theirs that is treated fairly is enabled, or is told by its part.
Init ==
  /\ part \in {"path", "signing", "async", "lock"}
  /\ Path!Init /\ (part # "path" => opts = [startPlan |-> FALSE, ordered |-> FALSE, extended |-> FALSE])
  /\ Signing!Init /\ OffPeak!Init /\ (part # "async" => kind = "batch")
  /\ Store!Init
PathNext    == part = "path" /\ Path!Next /\ UNCHANGED <<part, signingVars, asyncVars, lockVars>>
SigningNext == part = "signing" /\ Signing!Next /\ UNCHANGED <<part, pathVars, asyncVars, lockVars>>
AsyncNext   == part = "async" /\ OffPeak!Next /\ UNCHANGED <<part, pathVars, signingVars, lockVars>>
LockNext    == part = "lock" /\ Store!Next /\ UNCHANGED <<part, pathVars, signingVars, asyncVars>>
Next == PathNext \/ SigningNext \/ AsyncNext \/ LockNext
vars == <<part, pathVars, signingVars, asyncVars, lockVars>>

Spec ==
  /\ Init /\ [][Next]_vars
  /\ WF_pathVars(part = "path" /\ Path!Own) /\ WF_pathVars(part = "path" /\ Path!Prelude)
  /\ WF_asyncVars(part = "async" /\ (OffPeak!Preflight \/ OffPeak!Takes))
  /\ WF_asyncVars(part = "async" /\ OffPeak!Poll)
  /\ WF_asyncVars(part = "async" /\ (OffPeak!Sleep \/ OffPeak!LastSleep))
  /\ WF_asyncVars(part = "async" /\ signal /\ (OffPeak!Forward \/ OffPeak!Leaves))
  /\ Store!Fairness

TokenIsFresh     == Path!TokenIsFresh
MemoIsProven     == Path!MemoIsProven
AbortEnds        == Path!AbortEnds
PostWriteStays   == Path!PostWriteStays
BypassIsEarned   == Signing!BypassIsEarned
AnswerIsOne      == OffPeak!AnswerIsOne
TicketsSettled   == OffPeak!TicketsSettled
EveryWaitEnds    == OffPeak!EveryWaitEnds
LockProtects     == Store!LockProtects
DeadLockGoes     == Store!DeadLockGoes
RecoversOnlyDead == Store!RecoversOnlyDead
=============================================================================
