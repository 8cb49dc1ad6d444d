------------------------------ MODULE ProxyVitals ------------------------------
(***************************************************************************)
(* What makes a proxy give itself up: the watchdog, a second thread that   *)
(* reads a heartbeat of the main one (runtime/watchdog.ts), the memory     *)
(* guard, which samples the resident size (runtime/health-monitor.ts), and *)
(* how serve() leaves (index.ts).                                          *)
(*                                                                         *)
(* A tick is the watcher's check interval.  The machine may sleep: then    *)
(* the clock moves and neither thread runs.                                *)
(***************************************************************************)
EXTENDS Naturals

CONSTANTS
  Stall, Gap,   \* stallMs, and the distance of two checks that tells a sleep
  HardSamples,  \* samples over the hard limit before a restart
  MaxTime,      \* bound of the clock
  MaxSleep, MaxSamples

VARIABLES
  now, sleeps, blocked,
  beat,       \* the heartbeat
  seen,       \* the watcher's state [beat, changedAt, checkedAt]
  fired,
  guard,      \* [recycled, streak, pending, gaveUp] of the memory guard
  samples,
  phase,      \* of the process: "serving", "closing", "flushing" or "exited"
  silent,     \* history: ticks awake since the main thread last ran
  over        \* history: samples over the hard limit, one after the other, since the recycle

watch  == <<now, sleeps, blocked, beat, seen, fired, silent>>
memory == <<guard, samples, over>>
vars == <<watch, memory, phase>>

Calm == [recycled |-> FALSE, streak |-> 0, pending |-> FALSE, gaveUp |-> FALSE]

Init ==
  /\ now = 0 /\ sleeps = 0 /\ blocked = FALSE /\ beat = 0 /\ fired = FALSE /\ silent = 0
  /\ seen = [beat |-> 0, changedAt |-> 0, checkedAt |-> 0]
  /\ guard = Calm /\ samples = 0 /\ over = 0 /\ phase = "serving"

Up == phase # "exited"
\* A tick awake: the heartbeat's interval is shorter, so a main thread that runs beats.
Tick ==
  /\ Up /\ now < MaxTime /\ now' = now + 1
  /\ IF blocked THEN silent' = silent + 1 /\ UNCHANGED beat ELSE silent' = 0 /\ beat' = beat + 1
  /\ UNCHANGED <<sleeps, blocked, seen, fired, memory, phase>>
Sleep ==
  /\ Up /\ sleeps = 0 /\ sleeps' = 1
  /\ \E d \in 1..MaxSleep : now + d <= MaxTime /\ now' = now + d
  /\ UNCHANGED <<blocked, beat, seen, fired, silent, memory, phase>>
Blocks ==
  /\ Up /\ blocked' = ~blocked /\ UNCHANGED <<now, sleeps, beat, seen, fired, silent, memory, phase>>

\* Mutant: the watcher does not notice that it was paused itself.
PausedMutant == FALSE
\* Checks too far apart: the frozen heartbeat says nothing.
Paused == now - seen.checkedAt > Gap

\* watchdogStep, and the kill whatever became of the hook
WatcherChecks ==
  /\ Up /\ ~fired /\ seen.checkedAt < now
  /\ IF Paused \/ beat # seen.beat
     THEN seen' = [beat |-> beat, changedAt |-> now, checkedAt |-> now] /\ UNCHANGED <<fired, phase>>
     ELSE /\ seen' = [seen EXCEPT !.checkedAt = now]
          /\ fired' = (now - seen.changedAt > Stall) /\ phase' = IF fired' THEN "exited" ELSE phase
  /\ UNCHANGED <<now, sleeps, blocked, beat, silent, memory>>

Streak(size) == IF size = "hard" THEN guard.streak + 1 ELSE 0

\* MemoryGuard.sample: the first growth recycles the solver; only what stays over the
\* hard limit after that asks the manager; without its hook there is nobody to ask.
Sample(size) ==
  /\ Up /\ ~blocked /\ ~guard.pending /\ samples < MaxSamples /\ samples' = samples + 1
  /\ over' = IF size = "hard" /\ guard.recycled THEN over + 1 ELSE 0
  /\ CASE size = "low" -> guard' = Calm
       [] size # "low" /\ ~guard.recycled -> guard' = [guard EXCEPT !.recycled = TRUE, !.streak = 0]
       [] OTHER -> \E asks \in {FALSE, Streak(size) >= HardSamples /\ ~guard.gaveUp} :
                     guard' = [guard EXCEPT !.streak = Streak(size), !.pending = asks,
                                            !.gaveUp = @ \/ (Streak(size) >= HardSamples /\ ~asks)]
  /\ UNCHANGED <<watch, phase>>
\* The manager could not be launched: keep serving, and no second try in this episode.
HookFails ==
  /\ Up /\ guard.pending /\ phase = "serving"
  /\ guard' = [guard EXCEPT !.pending = FALSE, !.gaveUp = TRUE, !.streak = 0]
  /\ UNCHANGED <<watch, samples, over, phase>>
\* The manager runs: close the server, then write the metadata, then exit.
HandsOver ==
  /\ Up /\ guard.pending /\ phase = "serving" /\ phase' = "closing" /\ UNCHANGED <<watch, memory>>
\* SIGINT or SIGTERM: the metadata first
Signal ==
  /\ phase = "serving" /\ ~blocked /\ phase' = "flushing" /\ UNCHANGED <<watch, memory>>
\* The server has closed or six seconds are over; the write ended or three are.
Leaves ==
  /\ phase \in {"closing", "flushing"} /\ ~blocked
  /\ phase' = IF phase = "closing" THEN "flushing" ELSE "exited"
  /\ UNCHANGED <<watch, memory>>

Next ==
  \/ Tick \/ Sleep \/ Blocks \/ WatcherChecks
  \/ \E size \in {"low", "soft", "hard"} : Sample(size)
  \/ HookFails \/ HandsOver \/ Signal \/ Leaves
-----------------------------------------------------------------------------
TypeOK ==
  /\ now \in 0..MaxTime /\ beat \in 0..MaxTime /\ guard.streak \in Nat
  /\ phase \in {"serving", "closing", "flushing", "exited"}

\* A proxy gives itself up only for a reason that lasted: the watchdog after the
\* main thread stood still while the machine was awake (one sleep may hide up to
\* Gap of the wait), the memory guard after its samples in a row since the recycle.
GivesUpForCause ==
  /\ fired => silent + Gap > Stall
  /\ guard.pending => over >= HardSamples
=============================================================================
