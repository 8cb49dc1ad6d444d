------------------------------- MODULE KitConsent -------------------------------
(***************************************************************************)
(* What the kit may write into other programs, and on whose word           *)
(* (cli/harness-consent.mjs; setup, integrate, doctor, rollback and        *)
(* uninstall of cli/zcode-kit.mjs; repairManaged of cli/heal.mjs).  A      *)
(* harness gets a provider entry, and some also a registration of the MCP  *)
(* bridge, which needs a consent of its own.  Decisions are kept in one    *)
(* file per harness, written by the same transaction as the entries, so a  *)
(* rollback takes them back too.  Transactions may be rolled back in any   *)
(* order.                                                                  *)
(*                                                                         *)
(* Commands run one at a time under the setup lock.  A transaction is      *)
(* recorded by what it changed (SetupTransaction models how); the user and *)
(* other installations change the same things between commands.            *)
(* Not modelled: a disk that refuses to write a decision, a command that   *)
(* dies, and an adapter that finds a foreign entry and leaves it.          *)
(***************************************************************************)
EXTENDS Naturals, Sequences, FiniteSets

CONSTANTS
  Harness,
  Detected,    \* those found installed at first
  Bridged,     \* those the MCP bridge can be registered with
  External,    \* those of Bridged whose own command registers it
  Proving,     \* those whose adapter can prove that an entry is this kit's
  Damaged,     \* those whose decision file others may damage, repair and delete
  Varied,      \* those whose entry may be written anew with another text
  Unset,
  MaxTx,       \* bound: commands that record a transaction
  MaxOutside   \* bound: changes made by others

\* A decision file: none, configured without or with the bridge, skipped.  One that
\* cannot be read, ?, may be made readable again, and then says what it said before.
Damage == {<<"configured", "configured?">>, <<"bridged", "bridged?">>, <<"skipped", "skipped?">>}
Decision == {d[1] : d \in Damage}
Choice == {"none"} \cup Decision \cup {d[2] : d \in Damage}
Answer == {"y", "n", "eof", "ctrl-c"}

VARIABLES
  present,   \* the harnesses detected
  entry,     \* the provider entry of each: "none", or the kit's, as one text or another
  bridge,    \* its bridge registration: "none", "ours", "other"
  choice,    \* its decision file
  log,       \* transactions, oldest first: the changes of each, as operations
  cmd,       \* the running setup or uninstall, or Unset
  removed,   \* the last command was an uninstall that reported success
  outside,
  said,      \* history: the user's last word on each
  loose      \* history: those of which an older change was undone while a newer one stood

vars == <<present, entry, bridge, choice, log, cmd, removed, outside, said, loose>>
written == <<entry, bridge, choice>>

\* A word: nothing, the entry, the bridge too - or less than the decision that stands,
\* when the command it was given to had to report that it could not record it.
Words == {"no", "entry", "bridge", "unheeded"}
\* The decision c asks for no more than the word w.
Covers(w, c) ==
  /\ c \in {"configured", "configured?", "bridged", "bridged?"} => w # "no"
  /\ c \in {"bridged", "bridged?"} => w \in {"bridge", "unheeded"}

Init ==
  /\ present = Detected
  /\ entry = [h \in Harness |-> "none"] /\ bridge = [h \in Harness |-> "none"]
  /\ choice = [h \in Harness |-> "none"]
  /\ log = <<>> /\ cmd = Unset /\ removed = FALSE /\ outside = 0
  /\ said = [h \in Harness |-> "no"] /\ loose = {}

Readable(h) == choice[h] \in {"none"} \cup Decision
Consented(h) == choice[h] \in {"configured", "bridged"}
Owned(h) == h \in present /\ h \in Proving /\ entry[h] # "none"
\* The entry as the settings of the moment make it.
Texts(h) == IF h \in Varied THEN {"kit", "changed"} ELSE {"kit"}
Writes(h) == \E text \in Texts(h) : entry' = [entry EXCEPT ![h] = text]

\* A transaction: what it changed, and the word that stood before it.  The registration
\* made by a harness's own command is an external operation.
Changes(on, was, now, word) ==
  {[on |-> on, h |-> h, was |-> was[h], now |-> now[h], word |-> word[h]] : h \in {x \in Harness : was[x] # now[x]}}
Transaction(before) ==
  Changes("entry", before.entry, entry', before.said) \cup Changes("choice", before.choice, choice', before.said)
    \cup Changes("bridge", bridge, bridge', before.said)
Recorded(before) == IF Transaction(before) = {} THEN log ELSE Append(log, Transaction(before))
Now == [entry |-> entry, choice |-> choice, said |-> said]

\* recordHarnessChoice: a file that cannot be read is never overwritten.
Remember(h, what) == choice' = (IF Readable(h) THEN [choice EXCEPT ![h] = what] ELSE choice)
\* A word that cannot be recorded: what the file says stands.
Says(h, word) ==
  said' = [said EXCEPT ![h] = IF Readable(h) \/ Covers(word, choice[h]) THEN word ELSE "unheeded"]
Word(mcp) == IF mcp THEN "bridge" ELSE "entry"
Configured(mcp) == IF mcp THEN "bridged" ELSE "configured"

(***************************************************************************)
(* setup                                                                   *)
(***************************************************************************)

\* explicit: the harnesses named by --harness or the environment ({}: none), or
\* Unset; tty: someone can answer; declined: --no-mcp; built: the bridge is
\* there to register; reask: --reask or --select.
Running(what) == cmd # Unset /\ cmd.is = what
\* --harness, or the environment: a list, none, or (auto) no selection.
Selection == SUBSET Harness \cup {Unset}
BeginSetup ==
  /\ cmd = Unset /\ Len(log) < MaxTx
  /\ \E explicit \in Selection, tty, declined, built, reask \in BOOLEAN :
       /\ reask => tty
       /\ tty => explicit = Unset
       /\ cmd' = [is |-> "setup", explicit |-> explicit, tty |-> tty, declined |-> declined, built |-> built,
                  reask |-> reask, todo |-> Harness, register |-> {}, before |-> Now]
  /\ removed' = FALSE
  /\ UNCHANGED <<present, written, log, outside, said, loose>>

\* The adapter succeeds, finds nothing to configure yet (the decision stands),
\* or throws: then its own writes are undone and no decision is recorded.  The
\* one that stood stands, with the bridge that --no-mcp declined just now.
Apply(h, record, mcp, word) ==
  \/ /\ Writes(h) /\ Says(h, word)
     /\ IF record THEN Remember(h, Configured(mcp)) ELSE choice' = choice
     /\ cmd' = [cmd EXCEPT !.todo = @ \ {h}, !.register = IF mcp THEN @ \cup {h} ELSE @]
  \/ /\ entry[h] = "none" /\ record /\ Remember(h, Configured(mcp)) /\ Says(h, word)
     /\ cmd' = [cmd EXCEPT !.todo = @ \ {h}] /\ UNCHANGED entry
  \/ /\ said' = [said EXCEPT ![h] = IF Covers(word, choice[h]) THEN @ ELSE "unheeded"]
     /\ cmd' = [cmd EXCEPT !.todo = @ \ {h}] /\ UNCHANGED <<entry, choice>>

Passed(h) == cmd' = [cmd EXCEPT !.todo = @ \ {h}] /\ UNCHANGED <<entry, choice, said>>
Skipped(h) ==
  /\ Remember(h, "skipped") /\ Says(h, "no")
  /\ cmd' = [cmd EXCEPT !.todo = @ \ {h}] /\ UNCHANGED entry

\* A y covers the bridge when the note about it was shown before the question.
Offered(h) == cmd.built /\ ~cmd.declined /\ h \in Bridged
StoredMcpMutant(h) == Consented(h)
StoredMcp(h) == choice[h] = "bridged"

Explicit(h) ==
  /\ cmd.explicit # Unset
  /\ \/ /\ h \in cmd.explicit
        /\ Apply(h, TRUE, ~cmd.declined, Word(~cmd.declined))
     \/ cmd.explicit = {} /\ h \in present /\ Skipped(h)
     \/ /\ h \notin cmd.explicit /\ ~(cmd.explicit = {} /\ h \in present)
        /\ Passed(h)

\* A stored decision stands unless it is asked about again.
Standing(h) ==
  /\ cmd.explicit = Unset /\ h \in present /\ ~cmd.reask
  /\ \/ Consented(h) /\ Apply(h, FALSE, StoredMcp(h), said[h])
     \/ choice[h] = "skipped" /\ Passed(h)

Undecided(h) ==
  /\ cmd.explicit = Unset /\ h \in present
  /\ cmd.reask \/ choice[h] \notin Decision

\* Without a terminal an existing entry of this kit is refreshed, nothing else.
MayRefresh(h) == Readable(h) /\ Owned(h)
Unattended(h) ==
  /\ Undecided(h) /\ ~cmd.tty
  /\ IF MayRefresh(h) THEN Apply(h, FALSE, FALSE, said[h]) ELSE Passed(h)

Asked(h, a) ==
  /\ Undecided(h) /\ cmd.tty
  /\ \/ a = "y" /\ Apply(h, Readable(h), Offered(h), Word(Offered(h)))
     \/ a = "n" /\ Skipped(h)
     \/ /\ a = "eof"
        /\ IF MayRefresh(h) THEN Apply(h, FALSE, FALSE, said[h]) ELSE Passed(h)
     \/ /\ a = "ctrl-c" /\ UNCHANGED <<entry, choice, said>>
        /\ cmd' = [cmd EXCEPT !.todo = {}]

Undetected(h) ==
  cmd.explicit = Unset /\ h \notin present /\ Passed(h)

\* The harnesses are taken in one order.
Turn == CHOOSE h \in cmd.todo : TRUE
SetupStep ==
  /\ Running("setup") /\ cmd.todo # {}
  /\ \/ Explicit(Turn) \/ Standing(Turn) \/ Unattended(Turn) \/ Undetected(Turn)
     \/ \E a \in Answer : Asked(Turn, a)
  /\ UNCHANGED <<present, bridge, log, removed, outside, loose>>

\* integrateMcp, then finish.  A registration of another copy is left alone; the
\* command that registers with an external one may fail.
Registers(h) == h \in cmd.register \cap Bridged \cap present /\ cmd.built /\ ~cmd.declined /\ bridge[h] = "none"
SetupEnds ==
  /\ Running("setup") /\ cmd.todo = {}
  /\ \E fails \in SUBSET External :
       bridge' = [h \in Harness |-> IF Registers(h) /\ h \notin fails THEN "ours" ELSE bridge[h]]
  /\ UNCHANGED <<entry, choice, said>>
  /\ log' = Recorded(cmd.before)
  /\ cmd' = Unset
  /\ UNCHANGED <<present, removed, outside, loose>>

(***************************************************************************)
(* The other commands.                                                     *)
(***************************************************************************)

\* integrate is consent to the entry; it neither grants nor revokes the bridge's.
\* An adapter that throws leaves what it wrote to the recorded transaction.
Integrate(h) ==
  /\ cmd = Unset /\ Len(log) < MaxTx /\ removed' = FALSE
  /\ Says(h, IF said[h] = "no" THEN "entry" ELSE said[h])
  /\ \/ Writes(h) /\ Remember(h, Configured(StoredMcp(h)))
     \/ (Writes(h) \/ entry' = entry) /\ choice' = choice
  /\ UNCHANGED bridge /\ log' = Recorded(Now)
  /\ UNCHANGED <<present, cmd, outside, loose>>

\* consentedForRepair, or the harnesses named to doctor --fix.  A repair that
\* fails is rolled back as a whole.
MayRepair(h) ==
  /\ h \in present
  /\ Consented(h) \/ (choice[h] = "none" /\ Owned(h))
Repair ==
  /\ cmd = Unset /\ Len(log) < MaxTx /\ removed' = FALSE
  /\ \E named \in SUBSET Harness :
       LET targets == IF named = {} THEN {h \in Harness : MayRepair(h)} ELSE named
       IN  /\ \E changed \in SUBSET (targets \cap Varied) :
                entry' = [h \in Harness |-> IF h \in changed THEN "changed" ELSE IF h \in targets THEN "kit" ELSE entry[h]]
           /\ said' = [h \in Harness |-> IF h \in named /\ said[h] = "no" THEN "entry" ELSE said[h]]
  /\ UNCHANGED <<bridge, choice>> /\ log' = Recorded(Now)
  /\ UNCHANGED <<present, cmd, outside, loose>>

\* doctor --forget: the decision goes, the entry stays, setup asks again.
Forget(h) ==
  /\ cmd = Unset /\ Len(log) < MaxTx /\ choice[h] # "none" /\ removed' = FALSE
  /\ choice' = [choice EXCEPT ![h] = "none"] /\ said' = [said EXCEPT ![h] = "no"]
  /\ UNCHANGED <<entry, bridge>> /\ log' = Recorded(Now)
  /\ UNCHANGED <<present, cmd, outside, loose>>

\* One operation rolled back: what the transaction wrote goes back to what it
\* found; a file deleted since comes back unless the transaction created it; a
\* file changed since is a conflict, and the operation stays in the record.
Value(o) == CASE o.on = "entry" -> entry[o.h] [] o.on = "choice" -> choice[o.h] [] o.on = "bridge" -> bridge[o.h]
IsExternal(o) == o.on = "bridge" /\ o.h \in External
Restored(o) == Value(o) = o.now \/ (Value(o) = "none" /\ o.was # "none")
Settled(o) == Restored(o) \/ Value(o) = "none"
\* Only uninstall undoes an external registration, when it points at this copy;
\* the command to do so may fail.
ExternalUndoneMutant(undo) == TRUE
ExternalUndone(undo) == undo
Done(o, undo) == IF IsExternal(o) THEN ExternalUndone(undo) ELSE Settled(o)
\* The changes to one file that go back; a decision takes its word back with it.
Back(t, on, h, undo) == {o \in t : o.on = on /\ o.h = h /\ Restored(o) /\ (IsExternal(o) => undo)}
Newer(o, i) == \E j \in DOMAIN log : j > i /\ \E q \in log[j] : q.on = o.on /\ q.h = o.h
TakesBack(i, undo) ==
  LET Was(on, f, h) == IF Back(log[i], on, h, undo) = {} THEN f[h] ELSE (CHOOSE o \in Back(log[i], on, h, undo) : TRUE).was
      decided(h)    == Back(log[i], "choice", h, undo)
  IN  /\ entry'  = [h \in Harness |-> Was("entry", entry, h)]
      /\ choice' = [h \in Harness |-> Was("choice", choice, h)]
      /\ bridge' = [h \in Harness |-> Was("bridge", bridge, h)]
      /\ said'   = [h \in Harness |-> IF decided(h) = {} THEN said[h] ELSE (CHOOSE o \in decided(h) : TRUE).word]
      /\ log'    = [log EXCEPT ![i] = {o \in @ : ~Done(o, undo)}]
      /\ loose'  = loose \cup {o.h : o \in {x \in log[i] : Done(x, undo) /\ Newer(x, i)}}

Active(i) == log[i] # {}
\* rollback: any transaction that is not rolled back yet, by its id; without one, the newest.
Rollback ==
  /\ cmd = Unset /\ removed' = FALSE
  /\ \E i \in DOMAIN log : Active(i) /\ TakesBack(i, FALSE)
  /\ UNCHANGED <<present, cmd, outside>>

\* uninstall: all of them, newest first.
BeginUninstall ==
  /\ cmd = Unset /\ log # <<>>
  /\ cmd' = [is |-> "uninstall", at |-> Len(log)] /\ removed' = FALSE
  /\ UNCHANGED <<present, written, log, outside, said, loose>>
UninstallStep ==
  /\ Running("uninstall") /\ cmd.at > 0
  /\ \E undo \in BOOLEAN : TakesBack(cmd.at, undo)
  /\ cmd' = [cmd EXCEPT !.at = @ - 1]
  /\ UNCHANGED <<present, removed, outside>>
UninstallEnds ==
  /\ Running("uninstall") /\ cmd.at = 0
  /\ removed' = (\A i \in DOMAIN log : ~Active(i))
  /\ cmd' = Unset
  /\ UNCHANGED <<present, written, log, outside, said, loose>>

(***************************************************************************)
(* Others: the user deletes what the kit wrote, a decision file is         *)
(* damaged, repaired or deleted, a harness comes or goes, another copy of  *)
(* the kit registers its own bridge.                                       *)
(***************************************************************************)
Others(h) ==
  /\ cmd = Unset /\ outside < MaxOutside /\ outside' = outside + 1
  /\ \/ /\ entry[h] # "none" /\ entry' = [entry EXCEPT ![h] = "none"]
        /\ UNCHANGED <<present, bridge, choice, said>>
     \/ /\ h \in Damaged
        /\ \E d \in Damage, i \in 1..2 : choice[h] = d[i] /\ choice' = [choice EXCEPT ![h] = d[3 - i]]
        /\ UNCHANGED <<present, entry, bridge, said>>
     \/ /\ h \in Damaged /\ choice[h] # "none" /\ choice' = [choice EXCEPT ![h] = "none"]
        /\ said' = [said EXCEPT ![h] = "no"] /\ UNCHANGED <<present, entry, bridge>>
     \/ /\ bridge[h] = "none" /\ bridge' = [bridge EXCEPT ![h] = "other"]
        /\ h \in Bridged /\ UNCHANGED <<present, entry, choice, said>>
     \/ /\ present' = (IF h \in present THEN present \ {h} ELSE present \cup {h})
        /\ UNCHANGED <<written, said>>
  /\ removed' = FALSE
  /\ UNCHANGED <<log, cmd, loose>>

Next ==
  \/ BeginSetup \/ SetupStep \/ SetupEnds \/ Repair \/ Rollback
  \/ BeginUninstall \/ UninstallStep \/ UninstallEnds
  \/ \E h \in Harness : Integrate(h) \/ Forget(h) \/ Others(h)

Spec == Init /\ [][Next]_vars

(***************************************************************************)
(* Correctness.                                                            *)
(***************************************************************************)

\* A rollback or an uninstall took something back.
TakenBack == Len(log') = Len(log) /\ log' # log

\* Nobody's program is configured on silence: a provider entry is written where there is
\* none only on the user's standing word, and the bridge is registered only on a word that
\* covered the bridge.  A run without a terminal, a refresh, a repair, an update's setup, a
\* forgotten or rolled back decision, an end of input, an unreadable decision file and one
\* made readable again are no such word.  What the property does not cover:
\*  - a word the command reported it could not record, because the adapter threw or the
\*    decision file was unreadable ("unheeded"): the earlier decision stands.  Of --no-mcp
\*    decideHarness says otherwise ("nothing must remember it as consented");
\*  - the entry a rollback gives back, because it was deleted since.
\* A rollback that restores a decision restores the word it was taken on, also where that
\* word's own transaction was rolled back before.
NothingUnasked ==
  [][\A h \in Harness :
       /\ entry[h] = "none" /\ entry'[h] # "none" /\ ~TakenBack => said'[h] # "no"
       /\ bridge[h] = "none" /\ bridge'[h] = "ours" => said'[h] \in {"bridge", "unheeded"}]_vars

\* After an uninstall that reports success nothing of this installation is left in any
\* program: no provider entry and no registration of the bridge, also the one an earlier
\* rollback could not undo - unless an older change to that program was undone while a newer
\* one stood, which can only be where the file was gone or had the older text again.  The
\* newer one then gives the older one's text back, and no record names it any more.
UninstalledIsGone ==
  removed => \A h \in Harness : (h \notin loose => entry[h] = "none") /\ bridge[h] # "ours"
=============================================================================
