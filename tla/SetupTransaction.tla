---------------------------- MODULE SetupTransaction ----------------------------
(***************************************************************************)
(* Transactions of the kit's installer (lib/transaction.mjs, commitFile of *)
(* lib/edit.mjs): setup, integrate, update and doctor --fix edit config    *)
(* files of other programs, and rollback or uninstall undoes that.         *)
(*                                                                         *)
(* All calls are synchronous, so a process is a straight line of file      *)
(* operations that a crash may cut anywhere; one process works at a time,  *)
(* under the setup lock.  The user edits the same files.  A hash stands    *)
(* for the content it was taken of.  Not modelled: an edit that falls      *)
(* between the check and the rename of one commitFile or one undone        *)
(* operation, and a torn write of the manifest.                            *)
(***************************************************************************)
EXTENDS Naturals, Sequences, FiniteSets

CONSTANTS
  File,        \* config files of the harnesses
  Absent,      \* what a file that does not exist contains
  Unset,       \* a hash or record that was not written
  MaxTx,       \* bound: transactions; ids are handed out in starting order
  MaxKit,      \* bound: different contents the adapters write
  MaxWrites,   \* bound: commitFile calls of all transactions together
  MaxEdits,    \* bound: edits and deletions by the user
  MaxCrashes,  \* bound: processes that die
  CrashIn,     \* which of them may die: "setup", "rollback"
  Named        \* whether a transaction may be rolled back out of order, by name

ASSUME SetupConstants ==
  /\ Absent # Unset
  /\ MaxTx \in Nat /\ MaxKit \in Nat /\ MaxWrites \in Nat
  /\ MaxEdits \in Nat /\ MaxCrashes \in Nat
  /\ CrashIn \subseteq {"setup", "rollback"} /\ Named \in BOOLEAN

Tx == 1..MaxTx
\* A config file: the user's part (its latest edit) and the kit's part (0: none).
Content == [user: 0..MaxEdits, kit: 0..MaxKit]
OnDisk  == Content \cup {Absent}
\* A backup file: whose content, and which.
Copy    == [of: File, is: Content]
Pc == {"idle", "open", "touched", "expected", "undo", "committed",
       "rollback", "release"}

VARIABLES
  file,      \* the config files
  backup,    \* the backup files of a transaction, by number
  journal,   \* tx-<id>.manifest.in-progress.json: its ops, or Unset
  manifest,  \* tx-<id>.manifest.json: its ops, or Unset
  lock,      \* .setup-lock
  pc, cur,   \* the process that holds the lock, and its transaction
  ops,       \* the operations it has in memory
  mark,      \* setup: the savepoint; rollback: the next operation
  todo,      \* setup: the file and content being committed
  all,       \* rollback: this is an uninstall, which goes on with the next one
  started, writes, edits, crashes,
  wrote,     \* history: the contents transactions put into each file
  orig       \* history: the files before any transaction

vars == <<file, backup, journal, manifest, lock, pc, cur, ops, mark, todo, all,
          started, writes, edits, crashes, wrote, orig>>

Op == [file: File, kind: {"modify", "create"}, backup: Nat, pre: OnDisk,
       exp: Content \cup {Unset}, older: SUBSET Content, post: Content \cup {Unset}, done: BOOLEAN]

ASSUME UnsetIsNothing == Unset \notin Content /\ Unset \notin Seq(Op)

NoWork == [file |-> Absent, to |-> Absent]
Work == {NoWork} \cup [file: File, to: Content]

TypeOK ==
  /\ file \in [File -> OnDisk]
  /\ backup \in [Tx -> Seq(Copy)]
  /\ journal \in [Tx -> {Unset} \cup Seq(Op)]
  /\ manifest \in [Tx -> {Unset} \cup Seq(Op)]
  /\ lock \in {"free", "held", "stale"} /\ pc \in Pc /\ cur \in 0..MaxTx
  /\ ops \in Seq(Op) /\ mark \in Nat /\ todo \in Work /\ all \in BOOLEAN
  /\ started \in 0..MaxTx /\ writes \in 0..MaxWrites /\ edits \in 0..MaxEdits /\ crashes \in 0..MaxCrashes
  /\ wrote \in [File -> SUBSET Content]
  /\ orig \in [File -> OnDisk]

Init ==
  /\ file \in [File -> {Absent, [user |-> 0, kit |-> 0]}]
  /\ backup = [t \in Tx |-> <<>>]
  /\ journal = [t \in Tx |-> Unset]
  /\ manifest = [t \in Tx |-> Unset]
  /\ lock = "free" /\ pc = "idle" /\ cur = 0
  /\ ops = <<>> /\ mark = 0 /\ all = FALSE
  /\ todo = NoWork
  /\ started = 0 /\ writes = 0 /\ edits = 0 /\ crashes = 0
  /\ wrote = [f \in File |-> {}]
  /\ orig = file

(***************************************************************************)
(* Helpers                                                                 *)
(***************************************************************************)
\* The operation of the running transaction on f, 0 if there is none yet.
OpOn(f) == IF \E i \in DOMAIN ops : ops[i].file = f
             THEN CHOOSE i \in DOMAIN ops : ops[i].file = f ELSE 0

\* readManifest: the committed manifest wins over the journal.
Record(t)   == IF manifest[t] # Unset THEN manifest[t] ELSE journal[t]
Complete(r) == \A i \in DOMAIN r : r[i].done

\* Mutant: a transaction that never committed is not listed.
ListedCommitted(t) == manifest[t] # Unset /\ ~Complete(manifest[t])

\* listTransactions
Listed(t) == \/ manifest[t] # Unset /\ ~Complete(manifest[t])
             \/ journal[t] # Unset /\ ~Complete(journal[t])

\* The contents a transaction takes for its own: those it announced in its
\* journal or, once committed, the last one it found in place.
Ours(op, committed) == op.older \cup {IF committed THEN op.post ELSE op.exp}

\* The operation is undone, or needs no undoing; else it is a conflict.
Undoes(op, committed) ==
  \/ file[op.file] = Absent
  \/ file[op.file] \in Ours(op, committed)
  \/ ~committed /\ op.kind = "modify" /\ file[op.file] = op.pre

\* What undoing leaves in the file.
AfterUndo(op, committed) ==
  IF op.kind = "modify"
    THEN IF file[op.file] = Absent \/ file[op.file] \in Ours(op, committed)
           THEN backup[cur][op.backup].is ELSE file[op.file]
    ELSE IF file[op.file] \in Ours(op, committed) THEN Absent ELSE file[op.file]

\* Mutant: the number is derived from the operations on record.
BackupSlotByOps(t) == Len(SelectSeq(ops, LAMBDA op : op.kind = "modify")) + 1

\* backupSeq: the number of the next backup file
BackupSlot(t) == Len(backup[t]) + 1

\* expectWrite: the new hash is expected, the one expected before is kept.
Announced(op, to) == [op EXCEPT !.older = @ \cup ({op.exp} \ {Unset}), !.exp = to]

\* Mutant: restoreSince drops the operations it could not undo as well.
LeftBefore(o) == SubSeq(o, 1, mark)

\* What restoreSince keeps on record.
Left(o) ==
  LET kept == {i \in DOMAIN o : ~o[i].done} IN
  [n \in 1..Cardinality(kept) |-> o[CHOOSE i \in kept : Cardinality({j \in kept : j <= i}) = n]]

(***************************************************************************)
(* setup                                                                   *)
(***************************************************************************)
\* acquireLock and beginTransaction
Begin ==
  /\ pc = "idle" /\ lock = "free" /\ started < MaxTx
  /\ lock' = "held" /\ pc' = "open"
  /\ started' = started + 1 /\ cur' = started + 1
  /\ ops' = <<>> /\ mark' = 0
  /\ UNCHANGED <<file, backup, journal, manifest, todo, edits, crashes, wrote, writes, orig, all>>

\* commitFile up to touch: the adapter merges its part into what it read; on
\* first contact the file is backed up and the operation journalled.
Touch(f, k) ==
  LET to == [user |-> IF file[f] = Absent THEN 0 ELSE file[f].user, kit |-> k]
      n  == BackupSlot(cur)
      op == [file |-> f, kind |-> IF file[f] = Absent THEN "create" ELSE "modify",
             backup |-> IF file[f] = Absent THEN 0 ELSE n, pre |-> file[f],
             exp |-> Unset, older |-> {}, post |-> Unset, done |-> FALSE]
  IN
  /\ pc = "open" /\ writes < MaxWrites
  /\ file[f] # to
  /\ writes' = writes + 1
  /\ pc' = "touched" /\ todo' = [file |-> f, to |-> to]
  /\ IF OpOn(f) # 0 THEN UNCHANGED <<backup, ops, journal>>
       ELSE /\ backup' = IF file[f] = Absent THEN backup
                         ELSE [backup EXCEPT ![cur] = SubSeq(@, 1, n - 1) \o <<[of |-> f, is |-> file[f]]>> \o SubSeq(@, n + 1, Len(@))]
            /\ ops' = Append(ops, op)
            /\ journal' = [journal EXCEPT ![cur] = Append(ops, op)]
  /\ UNCHANGED <<file, manifest, lock, cur, mark, started, edits, crashes, wrote, orig, all>>

\* expectWrite: the content about to be written is journalled.
Expect ==
  LET i    == OpOn(todo.file)
      next == [ops EXCEPT ![i] = Announced(@, todo.to)]
  IN
  /\ pc = "touched"
  /\ pc' = "expected" /\ ops' = next /\ journal' = [journal EXCEPT ![cur] = next]
  /\ UNCHANGED <<file, backup, manifest, lock, cur, mark, todo, started, edits, crashes, wrote, writes, orig, all>>

\* The staged content is renamed over the file.
Rename ==
  /\ pc = "expected"
  /\ pc' = "open" /\ todo' = NoWork
  /\ file' = [file EXCEPT ![todo.file] = todo.to]
  /\ wrote' = [wrote EXCEPT ![todo.file] = @ \cup {todo.to}]
  /\ UNCHANGED <<backup, journal, manifest, lock, cur, ops, mark, started, edits, crashes, writes, orig, all>>

\* The next adapter starts.
Savepoint ==
  /\ pc = "open" /\ mark # Len(ops)
  /\ mark' = Len(ops)
  /\ UNCHANGED <<file, backup, journal, manifest, lock, pc, cur, ops, todo, started, edits, crashes, wrote, writes, orig, all>>

\* An adapter threw: restoreSince undoes its operations one by one ...
AdapterFails ==
  /\ pc = "open" /\ mark < Len(ops)
  /\ pc' = "undo"
  /\ UNCHANGED <<file, backup, journal, manifest, lock, cur, ops, mark, todo, started, edits, crashes, wrote, writes, orig, all>>

NextUndo == {i \in (mark + 1)..Len(ops) : ~ops[i].done /\ Undoes(ops[i], FALSE)}
UndoOp ==
  /\ pc = "undo" /\ NextUndo # {}
  /\ LET i == CHOOSE j \in NextUndo : \A m \in NextUndo : j <= m IN
       /\ file' = [file EXCEPT ![ops[i].file] = AfterUndo(ops[i], FALSE)]
       /\ ops' = [ops EXCEPT ![i].done = TRUE]
  /\ UNCHANGED <<backup, journal, manifest, lock, pc, cur, mark, todo, started, edits, crashes, wrote, writes, orig, all>>

\* ... and drops them, so that only conflicts stay on record.
UndoEnds ==
  /\ pc = "undo" /\ NextUndo = {}
  /\ pc' = "open" /\ ops' = Left(ops) /\ mark' = Len(Left(ops))
  /\ journal' = [journal EXCEPT ![cur] = Left(ops)]
  /\ UNCHANGED <<file, backup, manifest, lock, cur, todo, started, edits, crashes, wrote, writes, orig, all>>

\* finish: with nothing recorded the journal goes, else the manifest is written
\* with what is expected in every file that exists.
Finish ==
  /\ pc = "open"
  /\ IF ops = <<>>
       THEN pc' = "release" /\ journal' = [journal EXCEPT ![cur] = Unset] /\ UNCHANGED manifest
       ELSE /\ pc' = "committed" /\ UNCHANGED journal
            /\ manifest' = [manifest EXCEPT ![cur] = [i \in DOMAIN ops |->
                 IF file[ops[i].file] = Absent THEN ops[i] ELSE [ops[i] EXCEPT !.post = ops[i].exp]]]
  /\ UNCHANGED <<file, backup, lock, cur, ops, mark, todo, started, edits, crashes, wrote, writes, orig, all>>

FinishUnlinks ==
  /\ pc = "committed"
  /\ pc' = "release" /\ journal' = [journal EXCEPT ![cur] = Unset]
  /\ UNCHANGED <<file, backup, manifest, lock, cur, ops, mark, todo, started, edits, crashes, wrote, writes, orig, all>>

Release ==
  /\ pc = "release"
  /\ pc' = "idle" /\ lock' = "free"
  /\ cur' = 0 /\ ops' = <<>> /\ mark' = 0 /\ all' = FALSE
  /\ UNCHANGED <<file, backup, journal, manifest, todo, started, edits, crashes, wrote, writes, orig>>

(***************************************************************************)
(* rollbackTransaction, by name, of the newest, or of all (uninstall)      *)
(***************************************************************************)
Rollback(t, everything) ==
  /\ pc = "idle" /\ lock = "free"
  /\ \/ Listed(t) /\ \A u \in Tx : Listed(u) => u <= t
     \/ Named /\ ~everything /\ Record(t) # Unset
  /\ lock' = "held" /\ pc' = "rollback" /\ cur' = t
  /\ ops' = Record(t) /\ mark' = 1 /\ all' = everything
  /\ UNCHANGED <<file, backup, journal, manifest, todo, started, edits, crashes, wrote, writes, orig>>

RollbackOp ==
  LET op == ops[mark]
      committed == manifest[cur] # Unset
  IN
  /\ pc = "rollback" /\ mark <= Len(ops)
  /\ mark' = mark + 1
  /\ IF op.done THEN UNCHANGED <<file, ops>>
       ELSE /\ file' = [file EXCEPT ![op.file] = AfterUndo(op, committed)]
            /\ ops' = [ops EXCEPT ![mark].done = Undoes(op, committed)]
  /\ UNCHANGED <<backup, journal, manifest, lock, pc, cur, todo, started, edits, crashes, wrote, writes, orig, all>>

\* What was undone is marked on disk, all at once.
RollbackSaves ==
  LET rest == {t \in 1..(cur - 1) : Listed(t)}
      next == CHOOSE t \in rest : \A u \in rest : u <= t
  IN
  /\ pc = "rollback" /\ mark > Len(ops)
  /\ IF manifest[cur] # Unset
       THEN manifest' = [manifest EXCEPT ![cur] = ops] /\ UNCHANGED journal
       ELSE journal' = [journal EXCEPT ![cur] = ops] /\ UNCHANGED manifest
  /\ IF all /\ rest # {}
       THEN cur' = next /\ ops' = Record(next) /\ mark' = 1 /\ UNCHANGED pc
       ELSE pc' = "release" /\ UNCHANGED <<cur, ops, mark>>
  /\ UNCHANGED <<file, backup, lock, todo, started, edits, crashes, wrote, writes, orig, all>>

(***************************************************************************)
(* Crashes and the user                                                    *)
(***************************************************************************)
\* The process dies and leaves its lock behind.
Crash ==
  /\ pc # "idle" /\ crashes < MaxCrashes
  /\ (IF pc = "rollback" THEN "rollback" ELSE "setup") \in CrashIn
  /\ crashes' = crashes + 1
  /\ lock' = "stale" /\ pc' = "idle" /\ todo' = NoWork
  /\ cur' = 0 /\ ops' = <<>> /\ mark' = 0 /\ all' = FALSE
  /\ UNCHANGED <<file, backup, journal, manifest, started, edits, wrote, writes, orig>>

\* There is no automatic takeover: the user removes a lock whose process is gone.
RemoveLock ==
  /\ lock = "stale"
  /\ lock' = "free"
  /\ UNCHANGED <<file, backup, journal, manifest, pc, cur, ops, mark, todo, started, edits, crashes, wrote, writes, orig, all>>

UserEdits(f) ==
  /\ pc \in {"idle", "open", "undo", "rollback"} /\ edits < MaxEdits
  /\ edits' = edits + 1
  /\ \/ file' = [file EXCEPT ![f] = [user |-> edits + 1, kit |-> IF @ = Absent THEN 0 ELSE @.kit]]
     \/ file[f] # Absent /\ file' = [file EXCEPT ![f] = Absent]
  /\ UNCHANGED <<backup, journal, manifest, lock, pc, cur, ops, mark, todo, started, crashes, wrote, writes, orig, all>>

Next ==
  \/ Begin \/ (\E f \in File, k \in 1..MaxKit : Touch(f, k)) \/ Expect \/ Rename
  \/ Savepoint \/ AdapterFails \/ UndoOp \/ UndoEnds
  \/ Finish \/ FinishUnlinks \/ Release
  \/ (\E t \in Tx, everything \in BOOLEAN : Rollback(t, everything)) \/ RollbackOp \/ RollbackSaves
  \/ Crash \/ RemoveLock \/ (\E f \in File : UserEdits(f))

Spec == Init /\ [][Next]_vars

(***************************************************************************)
(* Properties                                                              *)
(***************************************************************************)
\* "A crash after a rename but before finish() leaves a discoverable record":
\* whatever content of the kit is in a file, some transaction on disk names it,
\* however setups, failing adapters and rollbacks were cut short.
Discoverable ==
  \A f \in File : file[f] # Absent /\ file[f].kit # 0 =>
    \E t \in Tx : /\ Record(t) # Unset
                  /\ \E i \in DOMAIN Record(t) :
                       /\ Record(t)[i].file = f
                       /\ \E c \in Ours(Record(t)[i], FALSE) : c # Unset /\ c.kit = file[f].kit

\* "A journal entry always has its backup on disk", and the one it was made
\* with: no later touch overwrites it, also after restoreSince dropped entries.
BackupIntact ==
  \A t \in Tx : Record(t) # Unset =>
    \A i \in DOMAIN Record(t) :
      Record(t)[i].kind = "modify" =>
        backup[t][Record(t)[i].backup] = [of |-> Record(t)[i].file, is |-> Record(t)[i].pre]

\* "Changes made after the transaction are reported as conflicts, never
\* clobbered": undoing replaces only contents that the kit itself put there.
OwnWritesOnly ==
  [][(pc \in {"undo", "rollback"}) /\ edits' = edits =>
       \A f \in File : file'[f] # file[f] /\ file[f] # Absent => file[f] \in wrote[f]]_vars

\* If nobody else touched the files, they are back to their original state once
\* no transaction is left to undo: whatever adapters failed, wherever a setup
\* died, and however setups and rollbacks of the newest (or of all) alternate.
UndoIsExact == pc = "idle" /\ edits = 0 /\ (\A t \in Tx : ~Listed(t)) => file = orig

\* "A repeated rollback never re-reports it as a conflict": an operation whose
\* file is as the backup has it is no conflict.
NoPhantomConflict ==
  [][pc = "rollback" /\ mark' = mark + 1 /\ ~ops[mark].done /\ ~ops'[mark].done =>
       file[ops[mark].file] # ops[mark].pre]_vars

\* "Active (not fully rolled back) transactions": what listTransactions lists
\* has something left to undo.
ListedIsActive == \A t \in Tx : Listed(t) /\ pc = "idle" => ~Complete(Record(t))
=============================================================================
