------------------------- MODULE SetupTransactionProofs -------------------------
(***************************************************************************)
(* Proofs about SetupTransaction for every number of files, transactions,  *)
(* writes, edits and crashes.                                              *)
(***************************************************************************)
EXTENDS SetupTransaction, TLAPS, FiniteSetTheorems, SequenceTheorems, WellFoundedInduction

(***************************************************************************)
(* The least-number principle, and induction over a set of numbers.        *)
(***************************************************************************)
Less == {p \in Nat \X Nat : p[1] < p[2]}

\* The library's order of the natural numbers as a set of pairs.
LEMMA LessIs == OpToRel(<, Nat) = Less
  BY Zenon DEF OpToRel, Less

\* A non-empty set of numbers has a least element.
LEMMA LeastNumber ==
  ASSUME NEW S \in SUBSET Nat, S # {}
  PROVE  \E x \in S : \A y \in S : x <= y
<1>1. IsWellFoundedOn(Less, Nat)
  BY NatLessThanWellFounded, LessIs, Zenon
<1>2. PICK x \in S : \A y \in S : <<y, x>> \notin Less
  BY <1>1, WFMin
<1>3. \A y \in S : ~(y < x)
  BY <1>2 DEF Less
<1> QED  BY <1>3

\* A set of numbers with 0 and with the successor of each of its members has
\* all of them.
LEMMA SetInduction ==
  ASSUME NEW S, 0 \in S, \A n \in Nat : n \in S => n + 1 \in S
  PROVE  Nat \subseteq S
<1> SUFFICES ASSUME Nat \ S # {} PROVE FALSE
  OBVIOUS
<1>1. PICK x \in Nat \ S : \A y \in Nat \ S : x <= y
  BY LeastNumber
<1>2. x # 0 /\ x - 1 \in Nat /\ x - 1 \notin Nat \ S
  BY <1>1
<1> QED  BY <1>1, <1>2

\* A non-empty set of numbers with an upper bound has a greatest element.
LEMMA GreatestNumber ==
  ASSUME NEW m \in Nat, NEW S \in SUBSET (0..m), S # {}
  PROVE  \E x \in S : \A y \in S : y <= x
<1> DEFINE R == {m - y : y \in S}
<1>1. R \in SUBSET Nat /\ R # {}
  <2>1. \A y \in S : m - y \in Nat
    OBVIOUS
  <2> QED  BY <2>1
<1>2. PICK r \in R : \A q \in R : r <= q
  BY <1>1, LeastNumber
<1>3. PICK x \in S : r = m - x
  BY <1>2
<1>4. \A y \in S : y <= x
  BY <1>2, <1>3
<1> QED  BY <1>4

(***************************************************************************)
(* What restoreSince keeps on record.                                      *)
(***************************************************************************)
UpTo(K, i) == {j \in K : j <= i}

\* A set of positions has an n-th one.
LEMMA NthPosition ==
  ASSUME NEW m \in Nat, NEW K \in SUBSET (1..m)
  PROVE  /\ IsFiniteSet(K)
         /\ \A n \in 1..Cardinality(K) : \E i \in K : Cardinality(UpTo(K, i)) = n
<1>0. \A i \in K : i \in Nat
  OBVIOUS
<1>1. IsFiniteSet(K)
  <2>1. IsFiniteSet(1..m)
    BY FS_Interval
  <2> QED  BY <2>1, FS_Subset
<1>2. Cardinality(K) \in Nat
  BY <1>1, FS_CardinalityType
<1> DEFINE S == {n \in Nat : n \in 1..Cardinality(K) => \E i \in K : Cardinality(UpTo(K, i)) = n}
<1>3. 0 \in S
  OBVIOUS
<1>4. ASSUME NEW n \in Nat, n \in S
      PROVE  n + 1 \in S
  <2> SUFFICES ASSUME n + 1 \in 1..Cardinality(K)
               PROVE  \E i \in K : Cardinality(UpTo(K, i)) = n + 1
    OBVIOUS
  <2>1. CASE n = 0
    <3>1. K # {}
      BY <2>1, FS_EmptySet
    <3>2. PICK i \in K : \A j \in K : i <= j
      BY <3>1, LeastNumber
    <3>3. UpTo(K, i) = {i}
      <4>1. \A j \in K : j <= i => j = i
        BY <1>0, <3>2
      <4>2. i <= i
        BY <1>0
      <4> QED  BY <4>1, <4>2 DEF UpTo
    <3> QED  BY <2>1, <3>3, FS_Singleton
  <2>2. CASE n # 0
    <3>1. PICK i \in K : Cardinality(UpTo(K, i)) = n
      BY <1>2, <1>4, <2>2
    <3>2. {j \in K : j > i} # {}
      <4> SUFFICES ASSUME {j \in K : j > i} = {} PROVE FALSE
        OBVIOUS
      <4>1. \A j \in K : j <= i
        BY <1>0
      <4>2. UpTo(K, i) = K
        BY <4>1 DEF UpTo
      <4> QED  BY <1>2, <3>1, <4>2
    <3>3. PICK k \in {j \in K : j > i} : \A j \in {l \in K : l > i} : k <= j
      <4>1. {j \in K : j > i} \in SUBSET Nat
        BY <1>0
      <4> QED  BY <3>2, <4>1, LeastNumber
    <3>4. UpTo(K, k) = UpTo(K, i) \cup {k} /\ k \notin UpTo(K, i)
      <4>1. k \in K /\ k > i /\ \A j \in K : j > i => k <= j
        BY <3>3
      <4>2. \A j \in K : j <= k <=> j <= i \/ j = k
        BY <1>0, <4>1
      <4>3. ~(k <= i)
        BY <1>0, <4>1
      <4> QED  BY <4>1, <4>2, <4>3 DEF UpTo
    <3>5. IsFiniteSet(UpTo(K, i))
      BY <1>1, FS_Subset DEF UpTo
    <3> QED  BY <3>1, <3>3, <3>4, <3>5, FS_AddElement
  <2> QED  BY <2>1, <2>2
<1>5. Nat \subseteq S
  <2> HIDE DEF S
  <2> QED  BY <1>3, <1>4, SetInduction
<1> QED  BY <1>1, <1>2, <1>5

\* Left(o) has only operations of o, those that were not undone, ...
LEMMA LeftIsPart ==
  ASSUME NEW o \in Seq(Op)
  PROVE  /\ Left(o) \in Seq(Op)
         /\ \A n \in DOMAIN Left(o) : \E i \in DOMAIN o : Left(o)[n] = o[i] /\ ~o[i].done
<1> DEFINE kept == {i \in DOMAIN o : ~o[i].done}
           nth(n) == CHOOSE i \in kept : Cardinality(UpTo(kept, i)) = n
<1>1. Len(o) \in Nat /\ kept \in SUBSET (1..Len(o))
  BY LenProperties
<1>2. IsFiniteSet(kept) /\ Cardinality(kept) \in Nat
  BY <1>1, NthPosition, FS_CardinalityType
<1>3. \A n \in 1..Cardinality(kept) : nth(n) \in kept
  <2> HIDE DEF kept
  <2>1. \A n \in 1..Cardinality(kept) : \E i \in kept : Cardinality(UpTo(kept, i)) = n
    BY <1>1, NthPosition
  <2> QED  BY <2>1
<1>4. Left(o) = [n \in 1..Cardinality(kept) |-> o[nth(n)]]
  BY DEF Left, UpTo
<1>5. \A i \in kept : o[i] \in Op /\ i \in DOMAIN o /\ ~o[i].done
  BY <1>1, ElementOfSeq
<1> HIDE DEF kept, nth
<1>6. \A n \in 1..Cardinality(kept) : o[nth(n)] \in Op
  BY <1>3, <1>5
<1>7. Left(o) \in Seq(Op)
  BY <1>2, <1>4, <1>6
<1>8. DOMAIN Left(o) = 1..Cardinality(kept)
  BY <1>4
<1> QED  BY <1>3, <1>4, <1>5, <1>7, <1>8

\* ... and all of those.
LEMMA LeftIsAll ==
  ASSUME NEW o \in Seq(Op), NEW i \in DOMAIN o, ~o[i].done
  PROVE  \E n \in DOMAIN Left(o) : Left(o)[n] = o[i]
<1> DEFINE kept == {j \in DOMAIN o : ~o[j].done}
           n == Cardinality(UpTo(kept, i))
<1>1. Len(o) \in Nat /\ kept \in SUBSET (1..Len(o)) /\ i \in kept
  BY LenProperties
<1>2. IsFiniteSet(kept)
  BY <1>1, NthPosition
<1> HIDE DEF kept
<1>3. /\ IsFiniteSet(UpTo(kept, i)) /\ n \in Nat
      /\ n <= Cardinality(kept)
  BY <1>2, FS_Subset, FS_CardinalityType DEF UpTo
<1>4. n # 0
  <2>1. i \in UpTo(kept, i)
    BY <1>1 DEF UpTo
  <2> QED  BY <1>3, <2>1, FS_EmptySet
<1>5. ASSUME NEW j \in kept, Cardinality(UpTo(kept, j)) = n
      PROVE  j = i
  <2>1. UpTo(kept, i) \subseteq UpTo(kept, j) \/ UpTo(kept, j) \subseteq UpTo(kept, i)
    BY <1>1 DEF UpTo
  <2>2. UpTo(kept, i) = UpTo(kept, j)
    <3>1. IsFiniteSet(UpTo(kept, j))
      BY <1>2, FS_Subset DEF UpTo
    <3> QED  BY <1>3, <1>5, <2>1, <3>1, FS_Subset
  <2> QED  BY <1>1, <2>2 DEF UpTo
<1>6. (CHOOSE j \in kept : Cardinality(UpTo(kept, j)) = n) = i
  BY <1>1, <1>5
<1>7. Left(o) = [k \in 1..Cardinality(kept) |-> o[CHOOSE j \in kept : Cardinality(UpTo(kept, j)) = k]]
  BY DEF Left, UpTo, kept
<1>8. n \in 1..Cardinality(kept)
  BY <1>2, <1>3, <1>4, FS_CardinalityType
<1> HIDE DEF n
<1> QED  BY ZenonT(30), <1>6, <1>7, <1>8

(***************************************************************************)
(* The inductive invariant.                                                *)
(***************************************************************************)
Setup == {"open", "touched", "expected", "undo"}

\* Every operation of r that modifies a file has its backup among those of b.
Intact(b, r) ==
  \A i \in DOMAIN r : r[i].kind = "modify" =>
    /\ r[i].backup \in DOMAIN b
    /\ b[r[i].backup] = [of |-> r[i].file, is |-> r[i].pre]

PcInv ==
  /\ pc # "idle" => cur \in Tx
  /\ pc \in {"touched", "expected"} => todo \in [file: File, to: Content]
  /\ pc = "rollback" => mark >= 1

IntactInv ==
  /\ pc # "idle" => Intact(backup[cur], ops)
  /\ \A t \in Tx : journal[t] # Unset => Intact(backup[t], journal[t])
  /\ \A t \in Tx : manifest[t] # Unset => Intact(backup[t], manifest[t])

Inv == TypeOK /\ PcInv /\ IntactInv

\* The fields of an operation on a list.
LEMMA OpAt ==
  ASSUME NEW o \in Seq(Op), NEW i \in DOMAIN o
  PROVE  /\ o[i] \in Op /\ o[i].file \in File /\ o[i].kind \in {"modify", "create"}
         /\ o[i].backup \in Nat /\ o[i].pre \in OnDisk
         /\ o[i].exp \in Content \cup {Unset} /\ o[i].older \in SUBSET Content
         /\ o[i].post \in Content \cup {Unset} /\ o[i].done \in BOOLEAN
<1>1. o[i] \in Op
  BY LenProperties, ElementOfSeq
<1> QED  BY <1>1 DEF Op

\* Changing one operation of a list.
LEMMA OpsExcept ==
  ASSUME NEW o \in Seq(Op), NEW i \in DOMAIN o, NEW e \in Op
  PROVE  /\ [o EXCEPT ![i] = e] \in Seq(Op)
         /\ DOMAIN [o EXCEPT ![i] = e] = DOMAIN o
         /\ \A j \in DOMAIN o : [o EXCEPT ![i] = e][j] = IF j = i THEN e ELSE o[j]
  BY LenProperties, ExceptSeq

\* A later backup is written behind the earlier ones.
LEMMA NewBackup ==
  ASSUME NEW b \in Seq(Copy), NEW x \in Copy
  PROVE  SubSeq(b, 1, (Len(b) + 1) - 1) \o <<x>> \o SubSeq(b, (Len(b) + 1) + 1, Len(b)) = Append(b, x)
<1>1. Len(b) \in Nat /\ (Len(b) + 1) - 1 = Len(b)
  BY LenProperties
<1>2. SubSeq(b, 1, (Len(b) + 1) - 1) = b
  BY <1>1, SubSeqFull
<1>3. SubSeq(b, (Len(b) + 1) + 1, Len(b)) = <<>>
  BY <1>1, SubSeqEmpty
<1>4. b \o <<x>> \in Seq(Copy)
  BY ConcatProperties
<1> QED  BY <1>2, <1>3, <1>4, ConcatEmptySeq, AppendIsConcat

\* Undoing an operation leaves the file alone, restores it or deletes it.
LEMMA AfterUndoIs ==
  ASSUME Inv, pc # "idle", NEW i \in DOMAIN ops, NEW committed
  PROVE  \/ AfterUndo(ops[i], committed) = file[ops[i].file]
         \/ AfterUndo(ops[i], committed) = Absent
         \/ ops[i].kind = "modify" /\ AfterUndo(ops[i], committed) = ops[i].pre
<1>1. ops[i].kind = "modify" => backup[cur][ops[i].backup].is = ops[i].pre
  <2>1. Intact(backup[cur], ops)
    BY DEF Inv, IntactInv
  <2>2. ops[i].kind = "modify" => backup[cur][ops[i].backup] = [of |-> ops[i].file, is |-> ops[i].pre]
    BY <2>1 DEF Intact
  <2>3. [of |-> ops[i].file, is |-> ops[i].pre].is = ops[i].pre
    OBVIOUS
  <2> QED  BY <2>2, <2>3
<1> DEFINE op == ops[i]
           mine == file[op.file] \in Ours(op, committed)
<1>2. AfterUndo(op, committed) =
        IF op.kind = "modify"
          THEN IF file[op.file] = Absent \/ mine THEN backup[cur][op.backup].is ELSE file[op.file]
          ELSE IF mine THEN Absent ELSE file[op.file]
  BY DEF AfterUndo
<1> HIDE DEF mine
<1>3. CASE op.kind = "modify"
  BY <1>1, <1>2, <1>3
<1>4. CASE op.kind # "modify"
  BY <1>2, <1>4
<1> QED  BY <1>3, <1>4

\* Undoing leaves a content the file could have had.
LEMMA AfterUndoType ==
  ASSUME Inv, pc # "idle", NEW i \in DOMAIN ops, NEW committed
  PROVE  AfterUndo(ops[i], committed) \in OnDisk
<1>1. ops \in Seq(Op) /\ file \in [File -> OnDisk]
  BY DEF Inv, TypeOK
<1>2. ops[i].file \in File /\ ops[i].pre \in OnDisk
  BY <1>1, OpAt
<1>3. file[ops[i].file] \in OnDisk /\ Absent \in OnDisk
  BY <1>1, <1>2 DEF OnDisk
<1> QED  BY <1>2, <1>3, AfterUndoIs

\* restoreSince picks an operation that is still to be undone.
LEMMA NextUndoLeast ==
  ASSUME Inv, NextUndo # {}
  PROVE  LET i == CHOOSE j \in NextUndo : \A m \in NextUndo : j <= m
         IN  i \in NextUndo /\ i \in DOMAIN ops
<1>1. ops \in Seq(Op) /\ mark \in Nat
  BY DEF Inv, TypeOK
<1>2. Len(ops) \in Nat /\ DOMAIN ops = 1..Len(ops)
  BY <1>1, LenProperties
<1>3. NextUndo \in SUBSET Nat
  <2>1. \A j \in (mark + 1)..Len(ops) : j \in Nat
    BY <1>1, <1>2
  <2> QED  BY <2>1 DEF NextUndo
<1>4. PICK least \in NextUndo : \A m \in NextUndo : least <= m
  BY <1>3, LeastNumber
<1>5. (CHOOSE j \in NextUndo : \A m \in NextUndo : j <= m) \in NextUndo
  BY <1>4
<1>6. \A j \in NextUndo : j \in DOMAIN ops
  <2>1. \A j \in (mark + 1)..Len(ops) : j \in 1..Len(ops)
    BY <1>1, <1>2
  <2> QED  BY <1>2, <2>1 DEF NextUndo
<1> QED  BY <1>5, <1>6

(***************************************************************************)
(* Type correctness, one lemma per group of actions.                       *)
(***************************************************************************)
\* The invariant holds initially.
LEMMA InitInv == Init => Inv
<1> SUFFICES ASSUME Init PROVE Inv
  OBVIOUS
<1>1. TypeOK
  <2>1. /\ <<>> \in Seq(Copy) /\ <<>> \in Seq(Op) /\ 0 \in 0..MaxTx
        /\ 0 \in 0..MaxWrites /\ 0 \in 0..MaxEdits /\ 0 \in 0..MaxCrashes /\ 0 \in 0..MaxKit
    BY SetupConstants
  <2>2. {Absent, [user |-> 0, kit |-> 0]} \subseteq OnDisk
    BY <2>1 DEF OnDisk, Content
  <2>3. file \in [File -> OnDisk]
    BY <2>2 DEF Init
  <2> QED  BY <2>1, <2>3 DEF Init, TypeOK, Pc, Work
<1>2. PcInv /\ IntactInv
  BY DEF Init, PcInv, IntactInv
<1> QED  BY <1>1, <1>2 DEF Inv

\* What commitFile writes: the user's part of the file and the kit's new part.
LEMMA MergedType ==
  ASSUME TypeOK, NEW f \in File, NEW k \in 1..MaxKit
  PROVE  [user |-> IF file[f] = Absent THEN 0 ELSE file[f].user, kit |-> k] \in Content
<1>1. file[f] \in Content \/ file[f] = Absent
  BY DEF TypeOK, OnDisk
<1>2. 0 \in 0..MaxEdits /\ k \in 0..MaxKit
  BY SetupConstants
<1> QED  BY <1>1, <1>2 DEF Content

\* The first contact backs the file up under a new number and journals it.
LEMMA TouchInv ==
  ASSUME Inv, NEW f \in File, NEW k \in 1..MaxKit, Touch(f, k)
  PROVE  Inv'
<1> DEFINE to == [user |-> IF file[f] = Absent THEN 0 ELSE file[f].user, kit |-> k]
           n  == BackupSlot(cur)
           op == [file |-> f, kind |-> IF file[f] = Absent THEN "create" ELSE "modify",
                  backup |-> IF file[f] = Absent THEN 0 ELSE n, pre |-> file[f],
                  exp |-> Unset, older |-> {}, post |-> Unset, done |-> FALSE]
           x  == [of |-> f, is |-> file[f]]
<1>0. /\ TypeOK /\ PcInv /\ IntactInv /\ cur \in Tx
      /\ backup \in [Tx -> Seq(Copy)] /\ ops \in Seq(Op) /\ file[f] \in OnDisk
      /\ journal \in [Tx -> {Unset} \cup Seq(Op)] /\ manifest \in [Tx -> {Unset} \cup Seq(Op)]
  BY DEF Inv, PcInv, TypeOK, Touch
<1>1. to \in Content
  BY <1>0, MergedType
<1>2. Len(backup[cur]) \in Nat /\ n = Len(backup[cur]) + 1 /\ DOMAIN backup[cur] = 1..Len(backup[cur])
  BY <1>0, LenProperties DEF BackupSlot
<1>3. op \in Op
  BY <1>0, <1>2 DEF Op
<1>4. Append(ops, op) \in Seq(Op) /\ Len(Append(ops, op)) = Len(ops) + 1
      /\ \A i \in DOMAIN Append(ops, op) :
           (i \in DOMAIN ops /\ Append(ops, op)[i] = ops[i]) \/ Append(ops, op)[i] = op
  BY <1>0, <1>3
<1>5. /\ writes' = writes + 1 /\ writes' \in 0..MaxWrites
      /\ pc' = "touched" /\ todo' = [file |-> f, to |-> to]
      /\ UNCHANGED <<file, manifest, lock, cur, mark, started, edits, crashes, wrote, orig, all>>
  BY <1>0, SetupConstants DEF Touch, TypeOK
<1>6. todo' \in [file: File, to: Content] /\ todo' \in Work
  BY <1>1, <1>5 DEF Work
<1>7. CASE OpOn(f) # 0
  <2>1. UNCHANGED <<backup, ops, journal>>
    BY <1>7 DEF Touch
  <2>2. TypeOK'
    BY <1>0, <1>5, <1>6, <2>1 DEF TypeOK, Pc
  <2>3. IntactInv'
    BY <1>0, <1>5, <2>1 DEF IntactInv, Touch
  <2> QED  BY <1>0, <1>5, <1>6, <2>2, <2>3 DEF Inv, PcInv
<1>8. CASE OpOn(f) = 0
  <2>1. /\ ops' = Append(ops, op)
        /\ journal' = [journal EXCEPT ![cur] = Append(ops, op)]
        /\ backup' = IF file[f] = Absent THEN backup
                     ELSE [backup EXCEPT ![cur] = SubSeq(@, 1, n - 1) \o <<x>> \o SubSeq(@, n + 1, Len(@))]
    <3>1. IF OpOn(f) # 0 THEN UNCHANGED <<backup, ops, journal>>
            ELSE /\ backup' = IF file[f] = Absent THEN backup
                     ELSE [backup EXCEPT ![cur] = SubSeq(@, 1, n - 1) \o <<x>> \o SubSeq(@, n + 1, Len(@))]
                 /\ ops' = Append(ops, op)
                 /\ journal' = [journal EXCEPT ![cur] = Append(ops, op)]
      BY DEF Touch
    <3> HIDE DEF op, n, x
    <3> QED  BY <1>8, <3>1
  <2>2. file[f] # Absent => x \in Copy
    BY <1>0 DEF Copy, OnDisk
  <2>3. backup' = IF file[f] = Absent THEN backup ELSE [backup EXCEPT ![cur] = Append(@, x)]
    <3>1. file[f] # Absent => SubSeq(backup[cur], 1, n - 1) \o <<x>> \o SubSeq(backup[cur], n + 1, Len(backup[cur])) = Append(backup[cur], x)
      BY <1>0, <1>2, <2>2, NewBackup
    <3> QED  BY <2>1, <3>1
  <2>4. file[f] # Absent => Append(backup[cur], x) \in Seq(Copy)
    BY <1>0, <2>2
  <2> HIDE DEF to, op, x, n
  <2>5. backup' \in [Tx -> Seq(Copy)]
    BY <1>0, <2>3, <2>4
  <2>6. ops' \in Seq(Op) /\ journal' \in [Tx -> {Unset} \cup Seq(Op)]
    BY <1>0, <1>4, <2>1
  <2>7. TypeOK'
    BY <1>0, <1>5, <1>6, <2>5, <2>6 DEF TypeOK, Pc
  <2>8. \A t \in Tx : \A i \in DOMAIN backup[t] : i \in DOMAIN backup'[t] /\ backup'[t][i] = backup[t][i]
    <3>1. file[f] # Absent => \A i \in DOMAIN backup[cur] : i \in DOMAIN Append(backup[cur], x) /\ Append(backup[cur], x)[i] = backup[cur][i]
      BY <1>0, <1>2, <2>2
    <3> QED  BY <1>0, <2>3, <3>1
  <2>9. \A t \in Tx : \A r : Intact(backup[t], r) => Intact(backup'[t], r)
    BY <2>8 DEF Intact
  <2>10. op.kind = "modify" => op.backup \in DOMAIN backup'[cur] /\ backup'[cur][op.backup] = [of |-> op.file, is |-> op.pre]
    <3>1. CASE file[f] = Absent
      BY <3>1 DEF op
    <3>2. CASE file[f] # Absent
      <4>1. op.backup = n /\ op.file = f /\ op.pre = file[f]
        BY <3>2 DEF op
      <4>2. backup'[cur] = Append(backup[cur], x)
        BY <1>0, <2>3, <3>2
      <4>3. n \in DOMAIN Append(backup[cur], x) /\ Append(backup[cur], x)[n] = x
        BY <1>0, <1>2, <2>2, <3>2
      <4> QED  BY <4>1, <4>2, <4>3 DEF x
    <3> QED  BY <3>1, <3>2
  <2>11. Intact(backup'[cur], Append(ops, op))
    <3>1. Intact(backup'[cur], ops)
      BY <1>0, <2>9 DEF IntactInv, Touch
    <3> QED  BY <1>4, <2>10, <3>1 DEF Intact
  <2>12. IntactInv'
    <3>1. ASSUME NEW t \in Tx, journal'[t] # Unset
          PROVE  Intact(backup'[t], journal'[t])
      <4>1. CASE t = cur
        BY <1>0, <2>1, <2>11, <4>1
      <4>2. CASE t # cur
        BY <1>0, <2>1, <2>9, <3>1, <4>2 DEF IntactInv
      <4> QED  BY <4>1, <4>2
    <3>2. ASSUME NEW t \in Tx, manifest'[t] # Unset
          PROVE  Intact(backup'[t], manifest'[t])
      BY <1>0, <1>5, <2>9, <3>2 DEF IntactInv
    <3> QED  BY <1>5, <2>1, <2>11, <3>1, <3>2 DEF IntactInv
  <2> QED  BY <1>0, <1>5, <1>6, <2>7, <2>12 DEF Inv, PcInv
<1> QED  BY <1>7, <1>8

\* Operations that differ in other fields than these are backed up alike.
LEMMA IntactAlike ==
  ASSUME NEW b, NEW r, NEW o, DOMAIN r \subseteq DOMAIN o, Intact(b, o),
         \A i \in DOMAIN r : /\ r[i].file = o[i].file /\ r[i].kind = o[i].kind
                             /\ r[i].backup = o[i].backup /\ r[i].pre = o[i].pre
  PROVE  Intact(b, r)
  BY DEF Intact

\* expectWrite changes the hashes of one operation only.
LEMMA ExpectInv ==
  ASSUME Inv, Expect
  PROVE  Inv'
<1> DEFINE i    == OpOn(todo.file)
           e    == Announced(ops[i], todo.to)
           next == [ops EXCEPT ![i] = Announced(@, todo.to)]
<1>0. /\ TypeOK /\ PcInv /\ IntactInv /\ cur \in Tx /\ ops \in Seq(Op)
      /\ journal \in [Tx -> {Unset} \cup Seq(Op)]
      /\ todo \in [file: File, to: Content] /\ Intact(backup[cur], ops)
  BY DEF Inv, PcInv, IntactInv, TypeOK, Expect
<1>1. /\ pc' = "expected" /\ ops' = next /\ journal' = [journal EXCEPT ![cur] = next]
      /\ UNCHANGED <<file, backup, manifest, lock, cur, mark, todo, started, edits, crashes, wrote, writes, orig, all>>
  BY DEF Expect
<1>2. next \in Seq(Op) /\ Intact(backup[cur], next)
  <2>1. CASE i \in DOMAIN ops
    <3>1. ops[i] \in Op /\ todo.to \in Content
      BY <1>0, <2>1, OpAt
    <3>2. /\ e \in Op
          /\ e.file = ops[i].file /\ e.kind = ops[i].kind /\ e.backup = ops[i].backup /\ e.pre = ops[i].pre
      BY <3>1 DEF Announced, Op
    <3>3. next = [ops EXCEPT ![i] = e]
      BY <1>0
    <3> HIDE DEF e, next, i
    <3>4. /\ next \in Seq(Op) /\ DOMAIN next = DOMAIN ops
          /\ \A j \in DOMAIN ops : next[j] = IF j = i THEN e ELSE ops[j]
      BY <1>0, <2>1, <3>2, <3>3, OpsExcept
    <3>5. Intact(backup[cur], next)
      BY <1>0, <3>2, <3>4, IntactAlike
    <3> QED  BY <3>4, <3>5
  <2>2. CASE i \notin DOMAIN ops
    <3>1. next = ops
      BY <1>0, <2>2
    <3> QED  BY <1>0, <3>1
  <2> QED  BY <2>1, <2>2
<1> HIDE DEF next
<1>3. TypeOK'
  <2>1. journal' \in [Tx -> {Unset} \cup Seq(Op)]
    BY <1>0, <1>1, <1>2
  <2> QED  BY <1>0, <1>1, <1>2, <2>1 DEF TypeOK, Pc
<1>4. IntactInv'
  BY <1>0, <1>1, <1>2 DEF IntactInv, TypeOK
<1> QED  BY <1>0, <1>1, <1>3, <1>4 DEF Inv, PcInv

\* The staged content replaces the file.
LEMMA RenameInv ==
  ASSUME Inv, Rename
  PROVE  Inv'
<1>1. TypeOK /\ PcInv /\ IntactInv /\ cur \in Tx /\ todo.file \in File /\ todo.to \in Content
  BY DEF Inv, PcInv, Rename
<1>2. TypeOK'
  <2>1. file' \in [File -> OnDisk] /\ wrote' \in [File -> SUBSET Content]
    BY <1>1 DEF Rename, TypeOK, OnDisk
  <2> QED  BY <1>1, <2>1 DEF Rename, TypeOK, Pc, Work
<1>3. PcInv' /\ IntactInv'
  BY <1>1 DEF Rename, PcInv, IntactInv
<1> QED  BY <1>2, <1>3 DEF Inv

\* Steps that leave files, backups and records alone.
LEMMA QuietInv ==
  ASSUME Inv, Begin \/ Savepoint \/ AdapterFails \/ Release \/ Crash \/ RemoveLock
  PROVE  Inv'
<1>0. TypeOK /\ PcInv /\ IntactInv
  BY DEF Inv
<1>1. ops' = <<>> \/ (ops' = ops /\ cur' = cur /\ (pc' # "idle" => pc # "idle"))
  BY DEF Begin, Savepoint, AdapterFails, Release, Crash, RemoveLock
<1>2. UNCHANGED <<file, backup, journal, manifest, writes, edits, wrote, orig>>
  BY DEF Begin, Savepoint, AdapterFails, Release, Crash, RemoveLock
<1>3. TypeOK'
  <2>1. ops' \in Seq(Op) /\ Len(ops) \in Nat
    BY <1>0, <1>1, LenProperties, EmptySeq DEF TypeOK
  <2>2. 0 \in 0..MaxTx /\ NoWork \in Work
    BY SetupConstants DEF Work
  <2>3. CASE Begin
    <3>1. started' \in 0..MaxTx /\ cur' \in 0..MaxTx
      BY <1>0, <2>3, SetupConstants DEF Begin, TypeOK
    <3> QED  BY <1>0, <1>2, <2>1, <2>3, <3>1 DEF Begin, TypeOK, Pc
  <2>4. CASE Savepoint \/ AdapterFails
    BY <1>0, <1>2, <2>1, <2>4 DEF Savepoint, AdapterFails, TypeOK, Pc
  <2>6. CASE Release
    BY <1>0, <1>2, <2>1, <2>2, <2>6 DEF Release, TypeOK, Pc
  <2>7. CASE RemoveLock
    BY <1>0, <1>2, <2>7 DEF RemoveLock, TypeOK
  <2>5. CASE Crash
    <3>1. crashes' \in 0..MaxCrashes
      BY <1>0, <2>5, SetupConstants DEF Crash, TypeOK
    <3> QED  BY <1>0, <1>2, <2>1, <2>2, <2>5, <3>1 DEF Crash, TypeOK, Pc
  <2> QED  BY <2>3, <2>4, <2>5, <2>6, <2>7
<1>4. PcInv'
  <2>1. CASE Begin
    <3>1. cur' \in Tx
      BY <1>0, <2>1, SetupConstants DEF Begin, TypeOK, Tx
    <3> QED  BY <2>1, <3>1 DEF Begin, PcInv
  <2>2. CASE Savepoint \/ AdapterFails \/ Release \/ RemoveLock \/ Crash
    BY <1>0, <2>2 DEF Savepoint, AdapterFails, Release, RemoveLock, Crash, PcInv
  <2> QED  BY <2>1, <2>2
<1>5. IntactInv'
  <2>1. \A b : Intact(b, <<>>)
    BY DEF Intact
  <2> QED  BY <1>0, <1>1, <1>2, <2>1 DEF IntactInv
<1> QED  BY <1>3, <1>4, <1>5 DEF Inv

\* An edit of the user leaves the records alone.
LEMMA UserInv ==
  ASSUME Inv, NEW f \in File, UserEdits(f)
  PROVE  Inv'
<1>1. TypeOK /\ PcInv /\ IntactInv
  BY DEF Inv
<1>2. edits' \in 0..MaxEdits
  BY <1>1, SetupConstants DEF TypeOK, UserEdits
<1>3. file' \in [File -> OnDisk]
  <2>1. file[f] = Absent \/ file[f] \in Content
    BY <1>1 DEF TypeOK, OnDisk
  <2>2. [user |-> edits + 1, kit |-> IF file[f] = Absent THEN 0 ELSE file[f].kit] \in Content
    BY <1>2, <2>1, SetupConstants DEF UserEdits, Content
  <2> QED  BY <1>1, <2>2 DEF TypeOK, UserEdits, OnDisk
<1>4. TypeOK'
  BY <1>1, <1>2, <1>3 DEF TypeOK, UserEdits
<1>5. PcInv' /\ IntactInv'
  BY <1>1 DEF PcInv, IntactInv, UserEdits
<1> QED  BY <1>4, <1>5 DEF Inv

\* Undoing one operation restores from its backup and marks it done.
LEMMA UndoOpInv ==
  ASSUME Inv, UndoOp
  PROVE  Inv'
<1> DEFINE i == CHOOSE j \in NextUndo : \A m \in NextUndo : j <= m
           e == [ops[i] EXCEPT !.done = TRUE]
<1>0. /\ TypeOK /\ PcInv /\ IntactInv /\ pc # "idle" /\ cur \in Tx /\ ops \in Seq(Op)
      /\ Intact(backup[cur], ops) /\ NextUndo # {}
  BY DEF Inv, PcInv, IntactInv, TypeOK, UndoOp
<1>1. i \in DOMAIN ops
  BY <1>0, NextUndoLeast
<1>2. /\ file' = [file EXCEPT ![ops[i].file] = AfterUndo(ops[i], FALSE)]
      /\ ops' = [ops EXCEPT ![i].done = TRUE]
  BY DEF UndoOp
<1> HIDE DEF i
<1>3. e \in Op /\ e.file = ops[i].file /\ e.kind = ops[i].kind /\ e.backup = ops[i].backup /\ e.pre = ops[i].pre
  <2>1. ops[i] \in Op
    BY <1>0, <1>1, OpAt
  <2> QED  BY <2>1 DEF Op
<1>4. ops' = [ops EXCEPT ![i] = e]
  BY <1>2
<1> HIDE DEF e
<1>5. /\ ops' \in Seq(Op) /\ DOMAIN ops' = DOMAIN ops
      /\ \A j \in DOMAIN ops : ops'[j] = IF j = i THEN e ELSE ops[j]
  BY <1>0, <1>1, <1>3, <1>4, OpsExcept
<1>6. Intact(backup[cur], ops')
  BY <1>0, <1>3, <1>5, IntactAlike
<1>7. file' \in [File -> OnDisk]
  BY <1>0, <1>1, <1>2, AfterUndoType DEF TypeOK
<1> QED  BY <1>0, <1>5, <1>6, <1>7 DEF Inv, TypeOK, PcInv, IntactInv, UndoOp

\* What restoreSince keeps on record has its backups still.
LEMMA UndoEndsInv ==
  ASSUME Inv, UndoEnds
  PROVE  Inv'
<1>0. /\ TypeOK /\ PcInv /\ IntactInv /\ cur \in Tx /\ ops \in Seq(Op) /\ Intact(backup[cur], ops)
      /\ journal \in [Tx -> {Unset} \cup Seq(Op)]
  BY DEF Inv, PcInv, IntactInv, TypeOK, UndoEnds
<1>1. Left(ops) \in Seq(Op) /\ Len(Left(ops)) \in Nat
  BY <1>0, LeftIsPart, LenProperties
<1>2. Intact(backup[cur], Left(ops))
  BY <1>0, LeftIsPart DEF Intact
<1>3. /\ pc' = "open" /\ ops' = Left(ops) /\ mark' = Len(Left(ops))
      /\ journal' = [journal EXCEPT ![cur] = Left(ops)]
      /\ UNCHANGED <<file, backup, manifest, lock, cur, todo, started, edits, crashes, wrote, writes, orig, all>>
  BY DEF UndoEnds
<1>4. journal' \in [Tx -> {Unset} \cup Seq(Op)]
  BY <1>0, <1>1, <1>3
<1>5. TypeOK'
  BY <1>0, <1>1, <1>3, <1>4 DEF TypeOK, Pc
<1>6. IntactInv'
  BY <1>0, <1>2, <1>3 DEF IntactInv
<1> QED  BY <1>0, <1>3, <1>5, <1>6 DEF Inv, PcInv

\* The manifest that finish writes.
Final == [i \in DOMAIN ops |-> IF file[ops[i].file] = Absent THEN ops[i] ELSE [ops[i] EXCEPT !.post = ops[i].exp]]

\* finish adds the final hashes and changes nothing else.
LEMMA FinalIs ==
  ASSUME TypeOK
  PROVE  /\ Final \in Seq(Op) /\ DOMAIN Final = DOMAIN ops
         /\ \A i \in DOMAIN ops :
              /\ Final[i].file = ops[i].file /\ Final[i].kind = ops[i].kind
              /\ Final[i].backup = ops[i].backup /\ Final[i].pre = ops[i].pre
              /\ Final[i].exp = ops[i].exp /\ Final[i].older = ops[i].older
<1>1. ops \in Seq(Op) /\ Len(ops) \in Nat /\ DOMAIN ops = 1..Len(ops)
  BY LenProperties DEF TypeOK
<1>2. ASSUME NEW i \in DOMAIN ops
      PROVE  /\ Final[i] \in Op
             /\ Final[i].file = ops[i].file /\ Final[i].kind = ops[i].kind
             /\ Final[i].backup = ops[i].backup /\ Final[i].pre = ops[i].pre
             /\ Final[i].exp = ops[i].exp /\ Final[i].older = ops[i].older
  <2>1. ops[i] \in Op
    BY <1>1, OpAt
  <2>2. Final[i] = ops[i] \/ Final[i] = [ops[i] EXCEPT !.post = ops[i].exp]
    BY DEF Final
  <2> QED  BY <2>1, <2>2 DEF Op
<1>3. Final \in [1..Len(ops) -> Op]
  BY <1>1, <1>2 DEF Final
<1>4. Final \in Seq(Op)
  BY <1>1, <1>3
<1> QED  BY <1>2, <1>4 DEF Final

\* The manifest of finish is backed up like the journal.
LEMMA FinishInv ==
  ASSUME Inv, Finish
  PROVE  Inv'
<1>0. /\ TypeOK /\ PcInv /\ IntactInv /\ cur \in Tx /\ Intact(backup[cur], ops)
      /\ journal \in [Tx -> {Unset} \cup Seq(Op)] /\ manifest \in [Tx -> {Unset} \cup Seq(Op)]
  BY DEF Inv, PcInv, IntactInv, TypeOK, Finish
<1>1. UNCHANGED <<file, backup, lock, cur, ops, mark, todo, started, edits, crashes, wrote, writes, orig, all>>
  BY DEF Finish
<1>2. CASE pc' = "release" /\ journal' = [journal EXCEPT ![cur] = Unset] /\ manifest' = manifest
  <2>1. journal' \in [Tx -> {Unset} \cup Seq(Op)]
    BY <1>0, <1>2
  <2> QED  BY <1>0, <1>1, <1>2, <2>1 DEF Inv, TypeOK, Pc, PcInv, IntactInv
<1>3. CASE pc' = "committed" /\ journal' = journal /\ manifest' = [manifest EXCEPT ![cur] = Final]
  <2>1. Final \in Seq(Op) /\ Intact(backup[cur], Final)
    BY <1>0, FinalIs, IntactAlike
  <2>2. manifest' \in [Tx -> {Unset} \cup Seq(Op)]
    BY <1>0, <1>3, <2>1
  <2>3. TypeOK'
    BY <1>0, <1>1, <1>3, <2>2 DEF TypeOK, Pc
  <2>4. IntactInv'
    BY <1>0, <1>1, <1>3, <2>1 DEF IntactInv
  <2> QED  BY <1>0, <1>1, <1>3, <2>3, <2>4 DEF Inv, PcInv
<1> QED  BY <1>2, <1>3 DEF Finish, Final

\* The journal goes once the manifest is written.
LEMMA UnlinkInv ==
  ASSUME Inv, FinishUnlinks
  PROVE  Inv'
<1>1. journal' \in [Tx -> {Unset} \cup Seq(Op)]
  BY DEF Inv, TypeOK, FinishUnlinks
<1> QED  BY <1>1 DEF Inv, TypeOK, Pc, PcInv, IntactInv, FinishUnlinks

\* What is read from disk is a list of operations with their backups.
LEMMA RecordType ==
  ASSUME Inv, NEW t \in Tx, Record(t) # Unset
  PROVE  Record(t) \in Seq(Op) /\ Intact(backup[t], Record(t))
<1>1. journal[t] \in {Unset} \cup Seq(Op) /\ manifest[t] \in {Unset} \cup Seq(Op)
  BY DEF Inv, TypeOK
<1>2. IntactInv
  BY DEF Inv
<1> QED  BY <1>1, <1>2 DEF Record, IntactInv

\* A rollback works on what it reads from disk.
LEMMA RollbackInv ==
  ASSUME Inv, NEW t \in Tx, NEW everything \in BOOLEAN, Rollback(t, everything)
  PROVE  Inv'
<1>1. Record(t) # Unset
  BY DEF Rollback, Listed, Record
<1>2. Record(t) \in Seq(Op) /\ Intact(backup[t], Record(t))
  BY <1>1, RecordType
<1>3. t \in 0..MaxTx
  BY SetupConstants DEF Tx
<1>4. /\ ops' = Record(t) /\ cur' = t /\ mark' = 1 /\ all' = everything /\ lock' = "held" /\ pc' = "rollback"
      /\ UNCHANGED <<file, backup, journal, manifest, todo, started, edits, crashes, wrote, writes, orig>>
  BY DEF Rollback
<1>5. TypeOK'
  BY <1>2, <1>3, <1>4 DEF Inv, TypeOK, Pc
<1>6. IntactInv'
  BY <1>2, <1>4 DEF Inv, IntactInv
<1> QED  BY <1>4, <1>5, <1>6 DEF Inv, PcInv

\* Rolling back one operation restores from its backup and marks it.
LEMMA RollbackOpInv ==
  ASSUME Inv, RollbackOp
  PROVE  Inv'
<1> DEFINE op == ops[mark]
           committed == manifest[cur] # Unset
           e == [op EXCEPT !.done = Undoes(op, committed)]
<1>0. /\ TypeOK /\ PcInv /\ IntactInv /\ pc # "idle" /\ cur \in Tx /\ ops \in Seq(Op)
      /\ Intact(backup[cur], ops) /\ mark \in Nat /\ mark >= 1 /\ mark <= Len(ops)
  BY DEF Inv, PcInv, IntactInv, TypeOK, RollbackOp
<1>1. mark \in DOMAIN ops
  BY <1>0, LenProperties
<1>2. /\ mark' = mark + 1
      /\ UNCHANGED <<backup, journal, manifest, lock, pc, cur, todo, started, edits, crashes, wrote, writes, orig, all>>
  BY DEF RollbackOp
<1>3. CASE op.done
  BY <1>0, <1>2, <1>3 DEF RollbackOp, Inv, TypeOK, PcInv, IntactInv
<1>4. CASE ~op.done
  <2>1. /\ file' = [file EXCEPT ![op.file] = AfterUndo(op, committed)]
        /\ ops' = [ops EXCEPT ![mark].done = Undoes(op, committed)]
    BY <1>4 DEF RollbackOp
  <2>2. e \in Op /\ e.file = op.file /\ e.kind = op.kind /\ e.backup = op.backup /\ e.pre = op.pre
    <3>1. op \in Op
      BY <1>0, <1>1, OpAt
    <3>2. Undoes(op, committed) \in BOOLEAN
      BY DEF Undoes
    <3> QED  BY <3>1, <3>2 DEF Op
  <2>3. ops' = [ops EXCEPT ![mark] = e]
    BY <2>1
  <2>4. file' \in [File -> OnDisk]
    BY <1>0, <1>1, <2>1, AfterUndoType DEF TypeOK
  <2> HIDE DEF e
  <2>5. /\ ops' \in Seq(Op) /\ DOMAIN ops' = DOMAIN ops
        /\ \A j \in DOMAIN ops : ops'[j] = IF j = mark THEN e ELSE ops[j]
    BY <1>0, <1>1, <2>2, <2>3, OpsExcept
  <2>6. Intact(backup[cur], ops')
    BY <1>0, <2>2, <2>5, IntactAlike
  <2> QED  BY <1>0, <1>2, <2>4, <2>5, <2>6 DEF Inv, TypeOK, PcInv, IntactInv
<1> QED  BY <1>3, <1>4

\* Uninstall goes on with the newest transaction that is still listed.
LEMMA NextListed ==
  ASSUME Inv, cur \in Tx, NEW rest, rest = {t \in 1..(cur - 1) : Listed(t)}, rest # {}
  PROVE  LET next == CHOOSE t \in rest : \A u \in rest : u <= t
         IN  next \in Tx /\ next < cur /\ Record(next) # Unset
<1> DEFINE next == CHOOSE t \in rest : \A u \in rest : u <= t
<1>1. cur \in Nat /\ cur <= MaxTx /\ MaxTx \in Nat
  BY SetupConstants DEF Tx
<1>2. \A t \in rest : t \in 0..MaxTx /\ t \in Tx /\ t < cur
  <2>1. \A t \in 1..(cur - 1) : t \in 0..MaxTx /\ t \in Tx /\ t < cur
    BY <1>1 DEF Tx
  <2> QED  BY <2>1
<1>3. \E t \in rest : \A u \in rest : u <= t
  <2>1. rest \in SUBSET (0..MaxTx)
    BY <1>2
  <2> QED  BY <1>1, <2>1, GreatestNumber
<1>4. next \in rest
  BY <1>3
<1> HIDE DEF next
<1>5. Listed(next)
  BY <1>4
<1>6. Record(next) # Unset
  BY <1>5 DEF Listed, Record
<1> QED  BY <1>2, <1>4, <1>6 DEF next

\* The marks are saved and uninstall goes on with the next transaction.
LEMMA RollbackSavesInv ==
  ASSUME Inv, RollbackSaves
  PROVE  Inv'
<1> DEFINE rest == {t \in 1..(cur - 1) : Listed(t)}
           next == CHOOSE t \in rest : \A u \in rest : u <= t
<1>0. /\ TypeOK /\ PcInv /\ IntactInv /\ pc # "idle" /\ cur \in Tx /\ ops \in Seq(Op)
      /\ Intact(backup[cur], ops)
      /\ journal \in [Tx -> {Unset} \cup Seq(Op)] /\ manifest \in [Tx -> {Unset} \cup Seq(Op)]
  BY DEF Inv, PcInv, IntactInv, TypeOK, RollbackSaves
<1>1. UNCHANGED <<file, backup, lock, todo, started, edits, crashes, wrote, writes, orig>>
  BY DEF RollbackSaves
<1>2. \/ manifest' = [manifest EXCEPT ![cur] = ops] /\ journal' = journal
      \/ journal' = [journal EXCEPT ![cur] = ops] /\ manifest' = manifest
  BY DEF RollbackSaves
<1>3. \/ rest # {} /\ cur' = next /\ ops' = Record(next) /\ mark' = 1 /\ pc' = pc /\ all' = all
      \/ pc' = "release" /\ cur' = cur /\ ops' = ops /\ mark' = mark /\ all' = all
  BY DEF RollbackSaves
<1>4. rest # {} => next \in Tx /\ next < cur /\ Record(next) # Unset
  BY <1>0, NextListed
<1> HIDE DEF next, rest
<1>5. rest # {} => Record(next) \in Seq(Op) /\ Intact(backup[next], Record(next))
  BY <1>4, RecordType
<1>6. /\ journal' \in [Tx -> {Unset} \cup Seq(Op)] /\ manifest' \in [Tx -> {Unset} \cup Seq(Op)]
  BY <1>0, <1>2
<1>7. cur' \in Tx /\ cur' \in 0..MaxTx /\ ops' \in Seq(Op) /\ mark' \in Nat /\ Intact(backup[cur'], ops')
      /\ (pc' = "rollback" => mark' >= 1)
  BY <1>0, <1>3, <1>4, <1>5, SetupConstants DEF Tx, TypeOK
<1>8. TypeOK'
  BY <1>0, <1>1, <1>3, <1>6, <1>7 DEF TypeOK, Pc
<1>9. IntactInv'
  <2>1. /\ \A t \in Tx : journal'[t] # Unset => Intact(backup[t], journal'[t])
        /\ \A t \in Tx : manifest'[t] # Unset => Intact(backup[t], manifest'[t])
    BY <1>0, <1>2 DEF IntactInv
  <2> QED  BY <1>1, <1>7, <2>1 DEF IntactInv
<1>10. PcInv'
  <2>1. pc' \notin {"touched", "expected"}
    BY <1>3 DEF RollbackSaves
  <2> QED  BY <1>7, <2>1 DEF PcInv
<1> QED  BY <1>8, <1>9, <1>10 DEF Inv

\* Every step preserves the invariant.
LEMMA StepInv == Inv /\ [Next]_vars => Inv'
<1> SUFFICES ASSUME Inv, [Next]_vars PROVE Inv'
  OBVIOUS
<1>1. CASE UNCHANGED vars
  BY <1>1 DEF vars, Inv, TypeOK, PcInv, IntactInv
<1>2. CASE \E f \in File, k \in 1..MaxKit : Touch(f, k)
  BY <1>2, TouchInv
<1>3. CASE Expect \/ Rename \/ UndoOp \/ UndoEnds \/ Finish \/ FinishUnlinks
  BY <1>3, ExpectInv, RenameInv, UndoOpInv, UndoEndsInv, FinishInv, UnlinkInv
<1>4. CASE Begin \/ Savepoint \/ AdapterFails \/ Release \/ Crash \/ RemoveLock
  BY <1>4, QuietInv
<1>5. CASE \E t \in Tx, everything \in BOOLEAN : Rollback(t, everything)
  BY <1>5, RollbackInv
<1>6. CASE RollbackOp \/ RollbackSaves
  BY <1>6, RollbackOpInv, RollbackSavesInv
<1>7. CASE \E f \in File : UserEdits(f)
  BY <1>7, UserInv
<1> QED  BY <1>1, <1>2, <1>3, <1>4, <1>5, <1>6, <1>7 DEF Next

\* Every variable keeps its type, whatever is edited, undone or cut short.
THEOREM TypeCorrect == Spec => []TypeOK
<1>1. Inv => TypeOK
  BY DEF Inv
<1> QED  BY <1>1, InitInv, StepInv, PTL DEF Spec

\* "A journal entry always has its backup on disk", and the one it was made
\* with: for any number of files, transactions, failing adapters, crashes and
\* rollbacks, in any order.  BackupIntact is not inductive: the entries reach
\* the disk from the memory of a process, so those must be backed up as well.
THEOREM BackupsStay == Spec => []BackupIntact
<1>1. Inv => BackupIntact
  BY RecordType DEF BackupIntact, Intact
<1> QED  BY <1>1, InitInv, StepInv, PTL DEF Spec

(***************************************************************************)
(* Discoverability.  A content of the kit is named by the record of its    *)
(* own transaction; when that one is undone the file gets back what it had *)
(* before, and if that was the kit's as well, an older transaction names   *)
(* it (PreInv).  While a setup runs, the memory of its process and the     *)
(* journal agree on everything but what was undone since (MemoryInv).      *)
(***************************************************************************)
\* The record r names the kit's content k for file f.
Covers(r, f, k) ==
  \E i \in DOMAIN r : r[i].file = f /\ \E c \in Ours(r[i], FALSE) : c # Unset /\ c.kit = k
Covered(t, f, k) == Record(t) # Unset /\ Covers(Record(t), f, k)
Below(t, f, k)   == \E u \in Tx : u < t /\ Covered(u, f, k)

\* So does an operation in memory that was not undone.
OpCovers(f, k) ==
  \E i \in DOMAIN ops : /\ ~ops[i].done /\ ops[i].file = f
                        /\ \E c \in Ours(ops[i], FALSE) : c # Unset /\ c.kit = k
Known(f, k) ==
  IF pc \in Setup THEN Below(cur, f, k) \/ OpCovers(f, k) ELSE \E u \in Tx : Covered(u, f, k)

Alike(r, o) ==
  /\ DOMAIN r = DOMAIN o
  /\ \A i \in DOMAIN r : /\ r[i].file = o[i].file /\ r[i].pre = o[i].pre
                         /\ r[i].exp = o[i].exp /\ r[i].older = o[i].older

MemoryInv ==
  /\ \A t \in Tx : t > started => journal[t] = Unset /\ manifest[t] = Unset
  /\ pc \in Setup \cup {"committed"} => cur = started
  /\ pc \in Setup => /\ manifest[cur] = Unset
                     /\ ops = <<>> \/ (journal[cur] # Unset /\ Alike(journal[cur], ops))
  /\ pc \in {"open", "touched", "expected"} => \A i \in DOMAIN ops : ~ops[i].done
  /\ pc = "touched" => \E i \in DOMAIN ops : ops[i].file = todo.file
  /\ pc = "expected" => Covers(ops, todo.file, todo.to.kit)
  /\ pc = "committed" => manifest[cur] # Unset
  /\ pc = "rollback" => Record(cur) # Unset /\ Alike(Record(cur), ops)

\* What r has to restore is named by a transaction older than t.
PreNamed(t, r) ==
  \A i \in DOMAIN r : r[i].pre # Absent /\ r[i].pre.kit # 0 => Below(t, r[i].file, r[i].pre.kit)
PreInv  == \A t \in Tx : Record(t) # Unset => PreNamed(t, Record(t))
FileInv == \A f \in File : file[f] # Absent /\ file[f].kit # 0 => Known(f, file[f].kit)

Names == MemoryInv /\ PreInv /\ FileInv
Full  == Inv /\ Names

\* Records that agree on files and hashes name the same contents.
LEMMA AlikeCovers ==
  ASSUME NEW r, NEW o, Alike(r, o), NEW f, NEW k
  PROVE  Covers(r, f, k) <=> Covers(o, f, k)
  BY DEF Alike, Covers, Ours

\* Without journal and manifest there is no record.
LEMMA RecordNothing ==
  ASSUME NEW t, journal[t] = Unset, manifest[t] = Unset
  PROVE  Record(t) = Unset
  BY DEF Record

\* A step that changes records of t only leaves those below it as they are.
LEMMA BelowStays ==
  ASSUME NEW t \in Tx, \A u \in Tx : u # t => journal'[u] = journal[u] /\ manifest'[u] = manifest[u],
         NEW f, NEW k, Below(t, f, k)
  PROVE  Below(t, f, k)'
<1>1. PICK u \in Tx : u < t /\ Covered(u, f, k)
  BY DEF Below
<1>2. u # t
  BY <1>1 DEF Tx
<1>3. Covered(u, f, k)'
  BY <1>1, <1>2 DEF Covered, Record
<1> QED  BY <1>1, <1>3 DEF Below

\* What such a step must see to for PreInv.
LEMMA PreStep ==
  ASSUME Full, NEW t \in Tx,
         \A u \in Tx : u # t => journal'[u] = journal[u] /\ manifest'[u] = manifest[u],
         Record(t)' # Unset => PreNamed(t, Record(t)'),
         \/ t = started
         \/ \A f, k : Covered(t, f, k) => Covered(t, f, k)'
  PROVE  PreInv'
<1>1. Full /\ MemoryInv /\ PreInv
  BY DEF Full, Names
<1> SUFFICES ASSUME NEW v \in Tx, Record(v)' # Unset, NEW i \in DOMAIN Record(v)',
                    Record(v)'[i].pre # Absent, Record(v)'[i].pre.kit # 0,
                    NEW f, f = Record(v)'[i].file, NEW k, k = Record(v)'[i].pre.kit
             PROVE  Below(v, f, k)'
  <2>1. ASSUME NEW v \in Tx, NEW i \in DOMAIN Record(v)',
               \A f, k : f = Record(v)'[i].file /\ k = Record(v)'[i].pre.kit => Below(v, f, k)'
        PROVE  Below(v, Record(v)[i].file, Record(v)[i].pre.kit)'
    BY <2>1
  <2> QED  BY <2>1 DEF PreInv, PreNamed
<1>2. CASE v = t
  <2>1. Below(t, f, k)
    BY <1>2 DEF PreNamed
  <2>2. Below(t, f, k)'
    BY <2>1, BelowStays
  <2> QED  BY <1>2, <2>2
<1>3. CASE v # t
  <2>1. Record(v)' = Record(v)
    BY <1>3 DEF Record
  <2>2. Below(v, f, k)
    BY <1>1, <2>1 DEF PreInv, PreNamed
  <2>3. PICK u \in Tx : u < v /\ Covered(u, f, k)
    BY <2>2 DEF Below
  <2>4. CASE u # t
    <3>1. Covered(u, f, k)'
      BY <2>3, <2>4 DEF Covered, Record
    <3> QED  BY <2>3, <3>1 DEF Below
  <2>5. CASE u = t
    <3>1. CASE t = started
      <4>1. journal[v] = Unset /\ manifest[v] = Unset
        BY <1>1, <2>3, <2>5, <3>1 DEF MemoryInv, Tx
      <4> QED  BY <2>1, <4>1, RecordNothing
    <3>2. CASE \A g, l : Covered(t, g, l) => Covered(t, g, l)'
      <4>1. Covered(u, f, k)'
        BY <2>3, <2>5, <3>2
      <4> QED  BY <2>3, <4>1 DEF Below
    <3> QED  BY <3>1, <3>2
  <2> QED  BY <2>4, <2>5
<1> QED  BY <1>2, <1>3

\* What is in memory during setup was journalled, so what it would restore is named.
LEMMA MemoryNamed ==
  ASSUME Full, pc \in Setup \cup {"rollback"}
  PROVE  PreNamed(cur, ops)
<1>0. MemoryInv /\ PreInv /\ PcInv
  BY DEF Full, Names, Inv
<1>1. cur \in Tx
  BY <1>0 DEF PcInv, Setup
<1>2. CASE ops = <<>>
  BY <1>2 DEF PreNamed
<1>3. CASE ops # <<>>
  <2>1. Record(cur) # Unset /\ Alike(Record(cur), ops)
    <3>1. CASE pc \in Setup
      BY <1>0, <1>3, <3>1 DEF MemoryInv, Record
    <3>2. CASE pc = "rollback"
      BY <1>0, <3>2 DEF MemoryInv
    <3> QED  BY <3>1, <3>2
  <2>2. PreNamed(cur, Record(cur))
    BY <1>0, <1>1, <2>1 DEF PreInv
  <2> QED  BY <2>1, <2>2 DEF Alike, PreNamed
<1> QED  BY <1>2, <1>3

\* With no record changed, the record of a transaction is as it was.
LEMMA SameRecords ==
  ASSUME UNCHANGED <<journal, manifest>>
  PROVE  /\ \A t : Record(t)' = Record(t)
         /\ \A t, f, k : Covered(t, f, k)' <=> Covered(t, f, k)
         /\ \A t, f, k : Below(t, f, k)' <=> Below(t, f, k)
         /\ PreInv' <=> PreInv
  BY DEF Record, Covered, Below, PreInv, PreNamed

\* What is known of a file depends on records and memory only.
LEMMA KnownStays ==
  ASSUME UNCHANGED <<journal, manifest, cur, ops>>, pc \in Setup <=> pc' \in Setup, NEW f, NEW k
  PROVE  Known(f, k)' <=> Known(f, k)
<1>1. Below(cur, f, k)' <=> Below(cur, f, k)
  BY DEF Below, Covered, Record
<1>2. OpCovers(f, k)' <=> OpCovers(f, k)
  BY DEF OpCovers
<1>3. (\E u \in Tx : Covered(u, f, k))' <=> \E u \in Tx : Covered(u, f, k)
  BY DEF Covered, Record
<1> QED  BY <1>1, <1>2, <1>3 DEF Known

\* Initially there is nothing to name.
LEMMA InitNames == Init => Names
  BY DEF Init, Names, MemoryInv, PreInv, FileInv, Record, Setup

\* A new transaction is younger than every record.
LEMMA BeginNames ==
  ASSUME Full, Begin
  PROVE  Names'
<1>0. MemoryInv /\ PreInv /\ FileInv /\ TypeOK /\ PcInv'
  BY StepInv DEF Full, Names, Inv, Next
<1>1. /\ pc = "idle" /\ pc' = "open" /\ cur' = started + 1 /\ started' = started + 1 /\ ops' = <<>>
      /\ UNCHANGED <<journal, manifest, file>>
  BY DEF Begin
<1>2. cur' \in Tx /\ started \in Nat
  <2>1. cur' \in Tx
    BY <1>0, <1>1 DEF PcInv
  <2>2. started \in Nat
    BY <1>0, SetupConstants DEF TypeOK
  <2> QED  BY <2>1, <2>2
<1>3. MemoryInv'
  <2>1. \A t \in Tx : t > started' => t > started
    BY <1>1, <1>2 DEF Tx
  <2>2. manifest[cur'] = Unset
    BY <1>0, <1>1, <1>2 DEF MemoryInv
  <2> QED  BY <1>0, <1>1, <2>1, <2>2 DEF MemoryInv, Setup
<1>4. FileInv'
  <2> SUFFICES ASSUME NEW f \in File, file[f] # Absent, file[f].kit # 0
               PROVE  Known(f, file[f].kit)'
    BY <1>1 DEF FileInv
  <2>1. PICK u \in Tx : Covered(u, f, file[f].kit)
    BY <1>0, <1>1 DEF FileInv, Known, Setup
  <2>2. ~(u > started)
    BY <1>0, <2>1, RecordNothing DEF MemoryInv, Covered
  <2>3. u < cur'
    BY <1>1, <1>2, <2>2 DEF Tx
  <2>4. Below(cur', f, file[f].kit)
    BY <2>1, <2>3 DEF Below
  <2>5. Below(cur, f, file[f].kit)'
    BY <1>1, <2>4 DEF Below, Covered, Record
  <2> QED  BY <1>1, <2>5 DEF Known, Setup
<1> QED  BY <1>0, <1>1, <1>3, <1>4, SameRecords DEF Names

\* What a new operation would restore is named by an older transaction.
LEMMA TouchNames ==
  ASSUME Full, NEW f \in File, NEW k \in 1..MaxKit, Touch(f, k)
  PROVE  Names'
<1>0. /\ MemoryInv /\ PreInv /\ FileInv /\ cur \in Tx /\ ops \in Seq(Op) /\ cur = started
      /\ journal \in [Tx -> {Unset} \cup Seq(Op)] /\ pc = "open" /\ manifest[cur] = Unset
      /\ \A i \in DOMAIN ops : ~ops[i].done
  BY DEF Full, Names, Inv, PcInv, TypeOK, MemoryInv, Setup, Touch
<1>1. /\ pc' = "touched" /\ todo'.file = f
      /\ UNCHANGED <<file, manifest, cur, started>>
  BY DEF Touch
<1>2. CASE OpOn(f) # 0
  <2>1. UNCHANGED <<ops, journal>>
    BY <1>2 DEF Touch
  <2>2. \E i \in DOMAIN ops : ops[i].file = f
    BY <1>2 DEF OpOn
  <2>3. MemoryInv'
    BY <1>0, <1>1, <2>1, <2>2 DEF MemoryInv, Setup
  <2>4. FileInv'
    <3> SUFFICES ASSUME NEW g \in File, file[g] # Absent, file[g].kit # 0, NEW l, l = file[g].kit
                 PROVE  Known(g, l)'
      BY <1>1 DEF FileInv
    <3>1. Known(g, l)
      BY <1>0 DEF FileInv
    <3> QED  BY <1>0, <1>1, <2>1, <3>1, KnownStays DEF Setup
  <2> QED  BY <1>0, <1>1, <2>1, <2>3, <2>4, SameRecords DEF Names
<1>3. CASE OpOn(f) = 0
  <2>1. PICK op : /\ ops' = Append(ops, op) /\ journal' = [journal EXCEPT ![cur] = Append(ops, op)]
                  /\ op.file = f /\ op.pre = file[f] /\ op.done = FALSE
    BY <1>3 DEF Touch
  <2>2. ops' \in Seq(Op)
    BY StepInv DEF Full, Inv, TypeOK, Next
  <2>3. /\ Len(ops) \in Nat /\ DOMAIN ops = 1..Len(ops) /\ DOMAIN ops' = 1..(Len(ops) + 1)
        /\ \A i \in 1..Len(ops) : ops'[i] = ops[i]
        /\ ops'[Len(ops) + 1] = op
    BY <1>0, <2>1
  <2>4. /\ journal'[cur] = ops' /\ journal'[cur] # Unset
        /\ \A u \in Tx : u # cur => journal'[u] = journal[u] /\ manifest'[u] = manifest[u]
    BY <1>0, <1>1, <2>1, <2>2, UnsetIsNothing
  <2>5. \A i \in DOMAIN ops : ops[i].file # f
    BY <1>3, <2>3 DEF OpOn
  <2>6. file[f] # Absent /\ file[f].kit # 0 => Below(cur, f, file[f].kit)
    BY <1>0, <2>5 DEF FileInv, Known, OpCovers, Setup
  <2>7. PreNamed(cur, ops')
    <3>1. PreNamed(cur, ops)
      BY <1>0, MemoryNamed DEF Setup
    <3> QED  BY <2>1, <2>3, <2>6, <3>1 DEF PreNamed
  <2>8. PreInv'
    <3>1. Record(cur)' = ops'
      BY <1>0, <1>1, <2>4 DEF Record
    <3>2. Record(cur)' # Unset => PreNamed(cur, Record(cur)')
      BY <2>7, <3>1
    <3>3. cur' = cur /\ started' = started
      BY <1>1
    <3>4. ASSUME NEW t, t = cur
          PROVE  Record(t)' # Unset => PreNamed(t, Record(t)')
      BY <1>0, <1>1, <2>4, <2>7, <3>3, <3>4 DEF Record
    <3> QED  BY <1>0, <2>4, <3>4, PreStep
  <2>9. MemoryInv'
    <3>1. \E i \in DOMAIN ops' : ops'[i].file = f
      BY <2>1, <2>3
    <3>2. \A i \in DOMAIN ops' : ~ops'[i].done
      BY <1>0, <2>1, <2>3
    <3>3. \A t \in Tx : t > started => t # cur
      BY <1>0 DEF Tx
    <3> QED  BY <1>0, <1>1, <2>4, <3>1, <3>2, <3>3 DEF MemoryInv, Setup, Alike
  <2>10. FileInv'
    <3> SUFFICES ASSUME NEW g \in File, file[g] # Absent, file[g].kit # 0,
                        NEW l, l = file[g].kit
                 PROVE  Known(g, l)'
      BY <1>1 DEF FileInv
    <3>1. Below(cur, g, l) \/ OpCovers(g, l)
      BY <1>0 DEF FileInv, Known, Setup
    <3>2. CASE Below(cur, g, l)
      <4>1. ASSUME NEW t, t = cur
            PROVE  Below(t, g, l)'
        BY <1>0, <2>4, <3>2, <4>1, BelowStays
      <4> QED  BY <1>1, <4>1 DEF Known, Setup
    <3>3. CASE OpCovers(g, l)
      <4>1. OpCovers(g, l)'
        <5>1. PICK i \in DOMAIN ops : /\ ~ops[i].done /\ ops[i].file = g
                                      /\ \E c \in Ours(ops[i], FALSE) : c # Unset /\ c.kit = l
          BY <3>3 DEF OpCovers
        <5>2. i \in DOMAIN ops' /\ ops'[i] = ops[i]
          BY <2>3
        <5> QED  BY <5>1, <5>2 DEF OpCovers
      <4> QED  BY <1>1, <4>1 DEF Known, Setup
    <3> QED  BY <3>1, <3>2, <3>3
  <2> QED  BY <2>8, <2>9, <2>10 DEF Names
<1> QED  BY <1>2, <1>3

\* The announcement names the new content and still names the old one.
LEMMA ExpectNames ==
  ASSUME Full, Expect
  PROVE  Names'
<1> DEFINE i == OpOn(todo.file)
           e == Announced(ops[i], todo.to)
<1>0. /\ MemoryInv /\ PreInv /\ FileInv /\ cur \in Tx /\ ops \in Seq(Op) /\ cur = started
      /\ journal \in [Tx -> {Unset} \cup Seq(Op)] /\ pc = "touched" /\ manifest[cur] = Unset
      /\ todo.to \in Content
  BY DEF Full, Names, Inv, PcInv, TypeOK, MemoryInv, Setup, Expect
<1>1. /\ pc' = "expected" /\ ops' = [ops EXCEPT ![i] = e] /\ journal' = [journal EXCEPT ![cur] = ops']
      /\ UNCHANGED <<file, manifest, cur, started, todo>>
  BY DEF Expect
<1>2. i \in DOMAIN ops /\ ops[i].file = todo.file
  BY <1>0 DEF MemoryInv, OpOn
<1> HIDE DEF i
<1>3. /\ e.file = ops[i].file /\ e.pre = ops[i].pre /\ e.done = ops[i].done
      /\ e.exp = todo.to /\ e.older = ops[i].older \cup ({ops[i].exp} \ {Unset})
  <2>1. ops[i] \in Op
    BY <1>0, <1>2, OpAt
  <2> QED  BY <2>1 DEF Announced, Op
<1> HIDE DEF e
<1>4. /\ DOMAIN ops' = DOMAIN ops
      /\ \A j \in DOMAIN ops : ops'[j] = IF j = i THEN e ELSE ops[j]
  BY <1>0, <1>1
<1>5. ops' \in Seq(Op)
  BY StepInv DEF Full, Inv, TypeOK, Next
<1>6. /\ journal'[cur] = ops' /\ journal'[cur] # Unset
      /\ \A u \in Tx : u # cur => journal'[u] = journal[u] /\ manifest'[u] = manifest[u]
  BY <1>0, <1>1, <1>5, UnsetIsNothing
<1>7. PreNamed(cur, ops')
  <2>1. PreNamed(cur, ops)
    BY <1>0, MemoryNamed DEF Setup
  <2> QED  BY <1>3, <1>4, <2>1 DEF PreNamed
<1>8. PreInv'
  <2>1. ASSUME NEW t, t = cur
        PROVE  Record(t)' # Unset => PreNamed(t, Record(t)')
    BY <1>0, <1>1, <1>6, <1>7, <2>1 DEF Record
  <2> QED  BY <1>0, <1>6, <2>1, PreStep
<1>9. MemoryInv'
  <2>1. Covers(ops', todo.file, todo.to.kit)
    <3>1. todo.to \in Ours(ops'[i], FALSE) /\ todo.to # Unset /\ ops'[i].file = todo.file
      BY <1>0, <1>2, <1>3, <1>4, UnsetIsNothing DEF Ours
    <3> QED  BY <1>2, <1>4, <3>1 DEF Covers
  <2>2. \A j \in DOMAIN ops' : ~ops'[j].done
    BY <1>0, <1>3, <1>4 DEF MemoryInv
  <2>3. \A t \in Tx : t > started => t # cur
    BY <1>0 DEF Tx
  <2> QED  BY <1>0, <1>1, <1>6, <2>1, <2>2, <2>3 DEF MemoryInv, Setup, Alike
<1>10. FileInv'
  <2> SUFFICES ASSUME NEW g \in File, file[g] # Absent, file[g].kit # 0, NEW l, l = file[g].kit
               PROVE  Known(g, l)'
    BY <1>1 DEF FileInv
  <2>1. Below(cur, g, l) \/ OpCovers(g, l)
    BY <1>0 DEF FileInv, Known, Setup
  <2>2. CASE Below(cur, g, l)
    <3>1. ASSUME NEW t, t = cur
          PROVE  Below(t, g, l)'
      BY <1>0, <1>6, <2>2, <3>1, BelowStays
    <3> QED  BY <1>1, <3>1 DEF Known, Setup
  <2>3. CASE OpCovers(g, l)
    <3>1. PICK j \in DOMAIN ops : /\ ~ops[j].done /\ ops[j].file = g
                                  /\ \E c \in Ours(ops[j], FALSE) : c # Unset /\ c.kit = l
      BY <2>3 DEF OpCovers
    <3>2. PICK c \in Ours(ops[j], FALSE) : c # Unset /\ c.kit = l
      BY <3>1
    <3>3. /\ j \in DOMAIN ops' /\ c \in Ours(ops'[j], FALSE)
          /\ ~ops'[j].done /\ ops'[j].file = g
      <4>1. CASE j = i
        BY <1>3, <1>4, <3>1, <3>2, <4>1 DEF Ours
      <4>2. CASE j # i
        BY <1>4, <3>1, <3>2, <4>2
      <4> QED  BY <4>1, <4>2
    <3>4. OpCovers(g, l)'
      BY <3>2, <3>3 DEF OpCovers
    <3> QED  BY <1>1, <3>4 DEF Known, Setup
  <2> QED  BY <2>1, <2>2, <2>3
<1> QED  BY <1>8, <1>9, <1>10 DEF Names

\* The content put in place was announced.
LEMMA RenameNames ==
  ASSUME Full, Rename
  PROVE  Names'
<1>0. MemoryInv /\ PreInv /\ FileInv /\ pc = "expected" /\ todo.file \in File /\ file \in [File -> OnDisk]
  BY DEF Full, Names, Inv, PcInv, TypeOK, Rename
<1>1. /\ pc' = "open" /\ file' = [file EXCEPT ![todo.file] = todo.to]
      /\ UNCHANGED <<journal, manifest, cur, ops, started>>
  BY DEF Rename
<1>2. MemoryInv'
  BY <1>0, <1>1 DEF MemoryInv, Setup
<1>3. FileInv'
  <2> SUFFICES ASSUME NEW g \in File, file'[g] # Absent, file'[g].kit # 0, NEW l, l = file'[g].kit
               PROVE  Known(g, l)'
    BY DEF FileInv
  <2>1. CASE g = todo.file
    <3>1. l = todo.to.kit
      BY <1>0, <1>1, <2>1
    <3>2. Covers(ops, g, l) /\ \A i \in DOMAIN ops : ~ops[i].done
      BY <1>0, <2>1, <3>1 DEF MemoryInv
    <3>3. OpCovers(g, l)
      BY <3>2 DEF Covers, OpCovers
    <3>4. Known(g, l)
      BY <1>0, <3>3 DEF Known, Setup
    <3> QED  BY <1>0, <1>1, <3>4, KnownStays DEF Setup
  <2>2. CASE g # todo.file
    <3>1. Known(g, l)
      BY <1>0, <1>1, <2>2 DEF FileInv
    <3> QED  BY <1>0, <1>1, <3>1, KnownStays DEF Setup
  <2> QED  BY <2>1, <2>2
<1> QED  BY <1>0, <1>1, <1>2, <1>3, SameRecords DEF Names

\* An operation that names a content is one of those on record.
LEMMA OpCoversIs ==
  ASSUME NEW f, NEW k, OpCovers(f, k)
  PROVE  Covers(ops, f, k) /\ ops # <<>>
<1>1. PICK i \in DOMAIN ops : /\ ~ops[i].done /\ ops[i].file = f
                              /\ \E c \in Ours(ops[i], FALSE) : c # Unset /\ c.kit = k
  BY DEF OpCovers
<1>2. Covers(ops, f, k)
  BY <1>1 DEF Covers
<1>3. i \in DOMAIN ops /\ DOMAIN <<>> = {}
  BY <1>1
<1> QED  BY <1>2, <1>3

\* Steps that change neither files nor what is known of them.
LEMMA CalmNames ==
  ASSUME Full, Savepoint \/ AdapterFails \/ RemoveLock
  PROVE  Names'
<1>0. MemoryInv /\ PreInv /\ FileInv
  BY DEF Full, Names
<1>1. /\ UNCHANGED <<file, journal, manifest, cur, ops, started, todo>>
      /\ pc' = pc \/ (pc = "open" /\ pc' = "undo")
  BY DEF Savepoint, AdapterFails, RemoveLock
<1>2. MemoryInv'
  BY <1>0, <1>1, SameRecords DEF MemoryInv, Setup, Record
<1>3. FileInv'
  <2> SUFFICES ASSUME NEW g \in File, file[g] # Absent, file[g].kit # 0, NEW l, l = file[g].kit
               PROVE  Known(g, l)'
    BY <1>1 DEF FileInv
  <2>1. Known(g, l)
    BY <1>0 DEF FileInv
  <2> QED  BY <1>1, <2>1, KnownStays DEF Setup
<1> QED  BY <1>0, <1>1, <1>2, <1>3, SameRecords DEF Names

\* The process ends or dies: what its memory names, its journal names too.
LEMMA EndNames ==
  ASSUME Full, Release \/ Crash
  PROVE  Names'
<1>0. MemoryInv /\ PreInv /\ FileInv /\ PcInv
  BY DEF Full, Names, Inv
<1>1. /\ pc' = "idle" /\ UNCHANGED <<file, journal, manifest, started>>
      /\ pc # "idle"
  BY DEF Release, Crash
<1>2. MemoryInv'
  BY <1>0, <1>1 DEF MemoryInv, Setup
<1>3. FileInv'
  <2> SUFFICES ASSUME NEW g \in File, file[g] # Absent, file[g].kit # 0, NEW l, l = file[g].kit
               PROVE  Known(g, l)'
    BY <1>1 DEF FileInv
  <2>1. Known(g, l)
    BY <1>0 DEF FileInv
  <2>2. \E u \in Tx : Covered(u, g, l)
    <3>1. CASE pc \in Setup /\ OpCovers(g, l)
      <4>1. ops # <<>> /\ Covers(ops, g, l)
        BY <3>1, OpCoversIs
      <4>2. Covered(cur, g, l)
        BY <1>0, <3>1, <4>1, AlikeCovers DEF MemoryInv, Covered, Record
      <4> QED  BY <1>0, <1>1, <4>2 DEF PcInv
    <3>2. CASE ~(pc \in Setup /\ OpCovers(g, l))
      BY <2>1, <3>2 DEF Known, Below
    <3> QED  BY <3>1, <3>2
  <2>3. (\E u \in Tx : Covered(u, g, l))'
    BY <1>1, <2>2 DEF Covered, Record
  <2> QED  BY <1>1, <2>3 DEF Known, Setup
<1> QED  BY <1>0, <1>1, <1>2, <1>3, SameRecords DEF Names

\* An undone file has what an older transaction names, or nothing.
LEMMA UndoOpNames ==
  ASSUME Full, UndoOp
  PROVE  Names'
<1> DEFINE i == CHOOSE j \in NextUndo : \A m \in NextUndo : j <= m
           f == ops[i].file
<1>0. /\ MemoryInv /\ PreInv /\ FileInv /\ Inv /\ pc = "undo" /\ cur \in Tx /\ ops \in Seq(Op)
      /\ file \in [File -> OnDisk] /\ NextUndo # {}
  BY DEF Full, Names, Inv, PcInv, TypeOK, UndoOp
<1>1. i \in NextUndo /\ i \in DOMAIN ops
  BY <1>0, NextUndoLeast
<1>2. Undoes(ops[i], FALSE)
  BY <1>1 DEF NextUndo
<1>3. /\ file' = [file EXCEPT ![f] = AfterUndo(ops[i], FALSE)]
      /\ ops' = [ops EXCEPT ![i].done = TRUE]
      /\ UNCHANGED <<pc, journal, manifest, cur, started>>
  BY DEF UndoOp
<1> HIDE DEF i
<1>4. f \in File /\ ops[i] \in Op
  BY <1>0, <1>1, OpAt
<1>5. AfterUndo(ops[i], FALSE) = Absent \/ AfterUndo(ops[i], FALSE) = ops[i].pre
  <2>1. ops[i].kind = "modify" => backup[cur][ops[i].backup].is = ops[i].pre
    <3>1. Intact(backup[cur], ops)
      BY <1>0 DEF Inv, IntactInv
    <3>2. ops[i].kind = "modify" => backup[cur][ops[i].backup] = [of |-> f, is |-> ops[i].pre]
      BY <1>1, <3>1 DEF Intact
    <3>3. [of |-> f, is |-> ops[i].pre].is = ops[i].pre
      OBVIOUS
    <3> QED  BY <3>2, <3>3
  <2>2. CASE ops[i].kind = "modify"
    <3>1. /\ file[f] = Absent \/ file[f] \in Ours(ops[i], FALSE) \/ file[f] = ops[i].pre
          /\ AfterUndo(ops[i], FALSE) = IF file[f] = Absent \/ file[f] \in Ours(ops[i], FALSE)
                                          THEN backup[cur][ops[i].backup].is ELSE file[f]
      BY <1>2, <2>2 DEF Undoes, AfterUndo
    <3> QED  BY <2>1, <2>2, <3>1
  <2>3. CASE ops[i].kind # "modify"
    <3>1. /\ file[f] = Absent \/ file[f] \in Ours(ops[i], FALSE)
          /\ AfterUndo(ops[i], FALSE) = IF file[f] \in Ours(ops[i], FALSE) THEN Absent ELSE file[f]
      BY <1>2, <2>3 DEF Undoes, AfterUndo
    <3> QED  BY <3>1
  <2> QED  BY <2>2, <2>3
<1>6. /\ DOMAIN ops' = DOMAIN ops
      /\ \A j \in DOMAIN ops : /\ ops'[j].file = ops[j].file /\ ops'[j].pre = ops[j].pre
                               /\ ops'[j].exp = ops[j].exp /\ ops'[j].older = ops[j].older
                               /\ j # i => ops'[j] = ops[j]
  BY <1>0, <1>1, <1>3, <1>4 DEF Op
<1>7. MemoryInv'
  <2>1. ops = <<>> => ops' = <<>>
    BY <1>1
  <2>2. ops # <<>> => Alike(journal[cur], ops')
    BY <1>0, <1>6 DEF MemoryInv, Alike, Setup
  <2> QED  BY <1>0, <1>3, <2>1, <2>2 DEF MemoryInv, Setup
<1>8. FileInv'
  <2> SUFFICES ASSUME NEW g \in File, file'[g] # Absent, file'[g].kit # 0, NEW l, l = file'[g].kit
               PROVE  Known(g, l)'
    BY DEF FileInv
  <2>1. ASSUME Below(cur, g, l)
        PROVE  Known(g, l)'
    <3>1. Below(cur, g, l)'
      BY <1>3, <2>1 DEF Below, Covered, Record
    <3> QED  BY <1>0, <1>3, <3>1 DEF Known, Setup
  <2>2. CASE g = f
    <3>1. l = ops[i].pre.kit /\ ops[i].pre # Absent /\ l # 0
      BY <1>0, <1>3, <1>5, <2>2
    <3>2. PreNamed(cur, ops)
      BY <1>0, MemoryNamed DEF Setup
    <3> QED  BY <1>1, <2>1, <2>2, <3>1, <3>2 DEF PreNamed
  <2>3. CASE g # f
    <3>1. file'[g] = file[g]
      BY <1>0, <1>3, <2>3
    <3>2. Below(cur, g, l) \/ OpCovers(g, l)
      BY <1>0, <3>1 DEF FileInv, Known, Setup
    <3>3. CASE OpCovers(g, l)
      <4>1. PICK j \in DOMAIN ops : /\ ~ops[j].done /\ ops[j].file = g
                                    /\ \E c \in Ours(ops[j], FALSE) : c # Unset /\ c.kit = l
        BY <3>3 DEF OpCovers
      <4>2. j \in DOMAIN ops' /\ ops'[j] = ops[j]
        BY <1>6, <2>3, <4>1
      <4>3. OpCovers(g, l)'
        BY <4>1, <4>2 DEF OpCovers
      <4> QED  BY <1>0, <1>3, <4>3 DEF Known, Setup
    <3> QED  BY <2>1, <3>2, <3>3
  <2> QED  BY <2>2, <2>3
<1> QED  BY <1>0, <1>3, <1>7, <1>8, SameRecords DEF Names

\* Operations that could not be undone keep their place on record.
LEMMA UndoEndsNames ==
  ASSUME Full, UndoEnds
  PROVE  Names'
<1>0. /\ MemoryInv /\ PreInv /\ FileInv /\ pc = "undo" /\ cur \in Tx /\ ops \in Seq(Op) /\ cur = started
      /\ journal \in [Tx -> {Unset} \cup Seq(Op)] /\ manifest[cur] = Unset
  BY DEF Full, Names, Inv, PcInv, TypeOK, MemoryInv, Setup, UndoEnds
<1>1. /\ pc' = "open" /\ ops' = Left(ops) /\ journal' = [journal EXCEPT ![cur] = ops']
      /\ UNCHANGED <<file, manifest, cur, started>>
  BY DEF UndoEnds
<1>2. /\ ops' \in Seq(Op)
      /\ \A n \in DOMAIN ops' : \E i \in DOMAIN ops : ops'[n] = ops[i] /\ ~ops[i].done
  BY <1>0, <1>1, LeftIsPart
<1>3. /\ journal'[cur] = ops' /\ journal'[cur] # Unset
      /\ \A u \in Tx : u # cur => journal'[u] = journal[u] /\ manifest'[u] = manifest[u]
  BY <1>0, <1>1, <1>2, UnsetIsNothing
<1>4. PreNamed(cur, ops')
  <2>1. PreNamed(cur, ops)
    BY <1>0, MemoryNamed DEF Setup
  <2> QED  BY <1>2, <2>1 DEF PreNamed
<1>5. PreInv'
  <2>1. ASSUME NEW t, t = cur
        PROVE  Record(t)' # Unset => PreNamed(t, Record(t)')
    BY <1>0, <1>1, <1>3, <1>4, <2>1 DEF Record
  <2> QED  BY <1>0, <1>3, <2>1, PreStep
<1>6. MemoryInv'
  <2>1. \A n \in DOMAIN ops' : ~ops'[n].done
    BY <1>2
  <2>2. \A t \in Tx : t > started => t # cur
    BY <1>0 DEF Tx
  <2> QED  BY <1>0, <1>1, <1>3, <2>1, <2>2 DEF MemoryInv, Setup, Alike
<1>7. FileInv'
  <2> SUFFICES ASSUME NEW g \in File, file[g] # Absent, file[g].kit # 0, NEW l, l = file[g].kit
               PROVE  Known(g, l)'
    BY <1>1 DEF FileInv
  <2>1. Below(cur, g, l) \/ OpCovers(g, l)
    BY <1>0 DEF FileInv, Known, Setup
  <2>2. CASE Below(cur, g, l)
    <3>1. ASSUME NEW t, t = cur
          PROVE  Below(t, g, l)'
      BY <1>0, <1>3, <2>2, <3>1, BelowStays
    <3> QED  BY <1>1, <3>1 DEF Known, Setup
  <2>3. CASE OpCovers(g, l)
    <3>1. PICK j \in DOMAIN ops : /\ ~ops[j].done /\ ops[j].file = g
                                  /\ \E c \in Ours(ops[j], FALSE) : c # Unset /\ c.kit = l
      BY <2>3 DEF OpCovers
    <3>2. PICK n \in DOMAIN ops' : ops'[n] = ops[j]
      BY <1>0, <1>1, <3>1, LeftIsAll
    <3>3. OpCovers(g, l)'
      BY <3>1, <3>2 DEF OpCovers
    <3> QED  BY <1>1, <3>3 DEF Known, Setup
  <2> QED  BY <2>1, <2>2, <2>3
<1> QED  BY <1>5, <1>6, <1>7 DEF Names

\* A journal without operations names nothing that is still needed.
LEMMA FinishNames ==
  ASSUME Full, Finish
  PROVE  Names'
<1>0. /\ MemoryInv /\ PreInv /\ FileInv /\ TypeOK /\ pc = "open" /\ cur \in Tx /\ ops \in Seq(Op) /\ cur = started
      /\ journal \in [Tx -> {Unset} \cup Seq(Op)] /\ manifest \in [Tx -> {Unset} \cup Seq(Op)] /\ manifest[cur] = Unset
  BY DEF Full, Names, Inv, PcInv, TypeOK, MemoryInv, Setup, Finish
<1>1. UNCHANGED <<file, cur, ops, started>>
  BY DEF Finish
<1>2. \A t \in Tx : t > started => t # cur
  BY <1>0 DEF Tx
<1>3. \A g \in File : file[g] # Absent /\ file[g].kit # 0 =>
        Below(cur, g, file[g].kit) \/ OpCovers(g, file[g].kit)
  BY <1>0 DEF FileInv, Known, Setup
<1>4. CASE ops = <<>> /\ pc' = "release" /\ journal' = [journal EXCEPT ![cur] = Unset] /\ manifest' = manifest
  <2>1. \A u \in Tx : u # cur => journal'[u] = journal[u] /\ manifest'[u] = manifest[u]
    BY <1>0, <1>4
  <2>2. MemoryInv'
    BY <1>0, <1>1, <1>2, <1>4 DEF MemoryInv, Setup
  <2>3. PreInv'
    <3>1. ASSUME NEW t, t = cur
          PROVE  Record(t)' = Unset
      BY <1>0, <1>4, <3>1 DEF Record
    <3> QED  BY <1>0, <2>1, <3>1, PreStep
  <2>4. FileInv'
    <3> SUFFICES ASSUME NEW g \in File, file[g] # Absent, file[g].kit # 0, NEW l, l = file[g].kit
                 PROVE  Known(g, l)'
      BY <1>1 DEF FileInv
    <3>1. Below(cur, g, l)
      BY <1>3, <1>4 DEF OpCovers
    <3>2. ASSUME NEW t, t = cur
          PROVE  Below(t, g, l)'
      BY <1>0, <2>1, <3>1, <3>2, BelowStays
    <3>3. (\E u \in Tx : Covered(u, g, l))'
      BY <3>2 DEF Below
    <3> QED  BY <1>4, <3>3 DEF Known, Setup
  <2> QED  BY <2>2, <2>3, <2>4 DEF Names
<1>5. CASE ops # <<>> /\ pc' = "committed" /\ journal' = journal /\ manifest' = [manifest EXCEPT ![cur] = Final]
  <2>1. \A u \in Tx : u # cur => journal'[u] = journal[u] /\ manifest'[u] = manifest[u]
    BY <1>0, <1>5
  <2>2. manifest'[cur] = Final /\ Final # Unset /\ Alike(Final, ops)
    BY <1>0, <1>5, FinalIs, UnsetIsNothing DEF Alike
  <2>3. MemoryInv'
    BY <1>0, <1>1, <1>2, <1>5, <2>1, <2>2 DEF MemoryInv, Setup
  <2>4. PreInv'
    <3>1. PreNamed(cur, ops)
      BY <1>0, MemoryNamed DEF Setup
    <3>2. PreNamed(cur, Final)
      BY <2>2, <3>1 DEF PreNamed, Alike
    <3>3. ASSUME NEW t, t = cur
          PROVE  Record(t)' # Unset => PreNamed(t, Record(t)')
      <4>1. Record(t)' = Final
        BY <2>2, <3>3 DEF Record
      <4> QED  BY <3>2, <3>3, <4>1
    <3> QED  BY <1>0, <2>1, <3>3, PreStep
  <2>5. FileInv'
    <3> SUFFICES ASSUME NEW g \in File, file[g] # Absent, file[g].kit # 0, NEW l, l = file[g].kit
                 PROVE  Known(g, l)'
      BY <1>1 DEF FileInv
    <3>1. (\E u \in Tx : Covered(u, g, l))'
      <4>1. CASE Below(cur, g, l)
        <5>1. ASSUME NEW t, t = cur
              PROVE  Below(t, g, l)'
          BY <1>0, <2>1, <4>1, <5>1, BelowStays
        <5> QED  BY <5>1 DEF Below
      <4>2. CASE OpCovers(g, l)
        <5>1. Covers(Final, g, l)
          BY <2>2, <4>2, AlikeCovers, OpCoversIs
        <5>2. ASSUME NEW t, t = cur
              PROVE  Covered(t, g, l)'
          <6>1. Record(t)' = Final
            BY <2>2, <5>2 DEF Record
          <6> QED  BY <2>2, <5>1, <6>1 DEF Covered
        <5> QED  BY <1>0, <5>2
      <4> QED  BY <1>3, <4>1, <4>2
    <3> QED  BY <1>5, <3>1 DEF Known, Setup
  <2> QED  BY <2>3, <2>4, <2>5 DEF Names
<1> QED  BY <1>4, <1>5 DEF Finish, Final

\* The manifest stands for the journal it replaces.
LEMMA UnlinkNames ==
  ASSUME Full, FinishUnlinks
  PROVE  Names'
<1>0. /\ MemoryInv /\ PreInv /\ FileInv /\ pc = "committed" /\ cur \in Tx
      /\ journal \in [Tx -> {Unset} \cup Seq(Op)] /\ manifest[cur] # Unset
  BY DEF Full, Names, Inv, PcInv, TypeOK, MemoryInv, FinishUnlinks
<1>1. /\ pc' = "release" /\ journal' = [journal EXCEPT ![cur] = Unset]
      /\ UNCHANGED <<file, manifest, started>>
  BY DEF FinishUnlinks
<1>2. \A t \in Tx : Record(t)' = Record(t)
  BY <1>0, <1>1 DEF Record
<1>3. \A t, f, k : Below(t, f, k)' <=> Below(t, f, k)
  BY <1>2 DEF Below, Covered
<1>4. PreInv'
  BY <1>0, <1>2, <1>3 DEF PreInv, PreNamed
<1>5. MemoryInv'
  BY <1>0, <1>1 DEF MemoryInv, Setup
<1>6. FileInv'
  <2> SUFFICES ASSUME NEW g \in File, file[g] # Absent, file[g].kit # 0, NEW l, l = file[g].kit
               PROVE  Known(g, l)'
    BY <1>1 DEF FileInv
  <2>1. \E u \in Tx : Covered(u, g, l)
    BY <1>0 DEF FileInv, Known, Setup
  <2>2. (\E u \in Tx : Covered(u, g, l))'
    BY <1>2, <2>1 DEF Covered
  <2> QED  BY <1>1, <2>2 DEF Known, Setup
<1> QED  BY <1>4, <1>5, <1>6 DEF Names

\* A rollback starts with the record in memory.
LEMMA RollbackNames ==
  ASSUME Full, NEW t \in Tx, NEW everything \in BOOLEAN, Rollback(t, everything)
  PROVE  Names'
<1>0. MemoryInv /\ PreInv /\ FileInv /\ pc = "idle"
  BY DEF Full, Names, Rollback
<1>1. Record(t) # Unset
  BY DEF Rollback, Listed, Record
<1>2. /\ ops' = Record(t) /\ cur' = t /\ pc' = "rollback"
      /\ UNCHANGED <<file, journal, manifest, started>>
  BY DEF Rollback
<1>3. MemoryInv'
  <2>1. Record(t)' = Record(t)
    BY <1>2, SameRecords
  <2>2. Alike(Record(t), Record(t))
    BY DEF Alike
  <2>3. Record(cur)' = Record(t)
    BY <1>2 DEF Record
  <2> QED  BY <1>0, <1>1, <1>2, <2>2, <2>3 DEF MemoryInv, Setup
<1>4. FileInv'
  <2> SUFFICES ASSUME NEW g \in File, file[g] # Absent, file[g].kit # 0, NEW l, l = file[g].kit
               PROVE  Known(g, l)'
    BY <1>2 DEF FileInv
  <2>1. \E u \in Tx : Covered(u, g, l)
    BY <1>0 DEF FileInv, Known, Setup
  <2>2. (\E u \in Tx : Covered(u, g, l))'
    BY <1>2, <2>1 DEF Covered, Record
  <2> QED  BY <1>2, <2>2 DEF Known, Setup
<1> QED  BY <1>0, <1>2, <1>3, <1>4, SameRecords DEF Names

\* A file rolled back has what an older transaction names, or nothing.
LEMMA RollbackOpNames ==
  ASSUME Full, RollbackOp
  PROVE  Names'
<1> DEFINE op == ops[mark]
           committed == manifest[cur] # Unset
           f == op.file
<1>0. /\ MemoryInv /\ PreInv /\ FileInv /\ Inv /\ pc = "rollback" /\ cur \in Tx /\ ops \in Seq(Op)
      /\ file \in [File -> OnDisk] /\ mark \in Nat /\ mark >= 1 /\ mark <= Len(ops)
  BY DEF Full, Names, Inv, PcInv, TypeOK, RollbackOp
<1>1. mark \in DOMAIN ops
  BY <1>0, LenProperties
<1>2. UNCHANGED <<pc, journal, manifest, cur, started>>
  BY DEF RollbackOp
<1>3. f \in File /\ op \in Op
  BY <1>0, <1>1, OpAt
<1>4. \/ ops' = ops /\ file' = file
      \/ /\ ops' = [ops EXCEPT ![mark].done = Undoes(op, committed)]
         /\ file' = [file EXCEPT ![f] = AfterUndo(op, committed)]
  BY DEF RollbackOp
<1>5. /\ DOMAIN ops' = DOMAIN ops
      /\ \A j \in DOMAIN ops : /\ ops'[j].file = ops[j].file /\ ops'[j].pre = ops[j].pre
                               /\ ops'[j].exp = ops[j].exp /\ ops'[j].older = ops[j].older
  BY <1>0, <1>1, <1>3, <1>4 DEF Op
<1>6. MemoryInv'
  <2>1. Alike(Record(cur), ops')
    BY <1>0, <1>5 DEF MemoryInv, Alike
  <2>2. Record(cur)' = Record(cur)
    BY <1>2 DEF Record
  <2>3. Record(cur) # Unset
    BY <1>0 DEF MemoryInv
  <2> QED  BY <1>0, <1>2, <2>1, <2>2, <2>3 DEF MemoryInv, Setup
<1>7. FileInv'
  <2> SUFFICES ASSUME NEW g \in File, file'[g] # Absent, file'[g].kit # 0, NEW l, l = file'[g].kit
               PROVE  Known(g, l)'
    BY DEF FileInv
  <2>1. \E u \in Tx : Covered(u, g, l)
    <3>1. CASE file'[g] = file[g]
      BY <1>0, <3>1 DEF FileInv, Known, Setup
    <3>2. CASE file'[g] # file[g]
      <4>1. g = f /\ file'[g] = AfterUndo(op, committed)
        BY <1>0, <1>3, <1>4, <3>2
      <4>2. \/ AfterUndo(op, committed) = file[f]
            \/ AfterUndo(op, committed) = Absent
            \/ AfterUndo(op, committed) = op.pre
        BY <1>0, <1>1, AfterUndoIs
      <4>3. op.pre # Absent /\ op.pre.kit = l /\ l # 0
        BY <3>2, <4>1, <4>2
      <4>4. PreNamed(cur, ops)
        BY <1>0, MemoryNamed
      <4>5. Below(cur, g, l)
        BY <1>1, <4>1, <4>3, <4>4 DEF PreNamed
      <4> QED  BY <4>5 DEF Below
    <3> QED  BY <3>1, <3>2
  <2>2. (\E u \in Tx : Covered(u, g, l))'
    BY <1>2, <2>1 DEF Covered, Record
  <2> QED  BY <1>0, <1>2, <2>2 DEF Known, Setup
<1> QED  BY <1>0, <1>2, <1>6, <1>7, SameRecords DEF Names

\* Saving the marks loses no name.
LEMMA RollbackSavesNames ==
  ASSUME Full, RollbackSaves
  PROVE  Names'
<1> DEFINE rest == {t \in 1..(cur - 1) : Listed(t)}
           next == CHOOSE t \in rest : \A u \in rest : u <= t
<1>0. /\ MemoryInv /\ PreInv /\ FileInv /\ Inv /\ pc = "rollback" /\ cur \in Tx /\ ops \in Seq(Op)
      /\ journal \in [Tx -> {Unset} \cup Seq(Op)] /\ manifest \in [Tx -> {Unset} \cup Seq(Op)]
      /\ Record(cur) # Unset /\ Alike(Record(cur), ops)
  BY DEF Full, Names, Inv, PcInv, TypeOK, MemoryInv, RollbackSaves
<1>1. UNCHANGED <<file, started>>
  BY DEF RollbackSaves
<1>2. \/ manifest[cur] # Unset /\ manifest' = [manifest EXCEPT ![cur] = ops] /\ journal' = journal
      \/ manifest[cur] = Unset /\ journal' = [journal EXCEPT ![cur] = ops] /\ manifest' = manifest
  BY DEF RollbackSaves
<1>3. \/ rest # {} /\ cur' = next /\ ops' = Record(next) /\ pc' = "rollback"
      \/ pc' = "release"
  BY <1>0 DEF RollbackSaves
<1>4. rest # {} => next \in Tx /\ next < cur /\ Record(next) # Unset
  BY <1>0, NextListed
<1> HIDE DEF next, rest
<1>5. /\ \A u \in Tx : u # cur => journal'[u] = journal[u] /\ manifest'[u] = manifest[u]
      /\ ops # Unset
  BY <1>0, <1>2, UnsetIsNothing
<1>6. ASSUME NEW t, t = cur
      PROVE  Record(t)' = ops
  BY <1>0, <1>2, <1>5, <1>6 DEF Record
<1>7. ~(cur > started)
  BY <1>0, RecordNothing DEF MemoryInv
<1>8. \A t \in Tx : \A f, k : Covered(t, f, k) => Covered(t, f, k)'
  <2> SUFFICES ASSUME NEW t \in Tx, NEW f, NEW k, Covered(t, f, k)
               PROVE  Covered(t, f, k)'
    OBVIOUS
  <2>1. CASE t = cur
    <3>1. Covers(ops, f, k)
      BY <1>0, <2>1, AlikeCovers DEF Covered
    <3> QED  BY <1>5, <1>6, <2>1, <3>1 DEF Covered
  <2>2. CASE t # cur
    BY <1>5, <2>2 DEF Covered, Record
  <2> QED  BY <2>1, <2>2
<1>9. PreInv'
  <2>1. PreNamed(cur, ops)
    BY <1>0, MemoryNamed
  <2>2. ASSUME NEW t, t = cur
        PROVE  Record(t)' # Unset => PreNamed(t, Record(t)')
    BY <1>6, <2>1, <2>2
  <2>3. ASSUME NEW t, t = cur
        PROVE  \A f, k : Covered(t, f, k) => Covered(t, f, k)'
    BY <1>0, <1>8, <2>3
  <2>4. ASSUME NEW t \in Tx, t = cur
        PROVE  PreInv'
    BY <1>5, <2>2, <2>3, <2>4, PreStep
  <2> QED  BY <1>0, <2>4
<1>10. MemoryInv'
  <2>1. \A t \in Tx : t > started => journal'[t] = Unset /\ manifest'[t] = Unset
    BY <1>0, <1>5, <1>7 DEF MemoryInv
  <2>2. CASE rest # {} /\ cur' = next /\ ops' = Record(next) /\ pc' = "rollback"
    <3>1. ASSUME NEW n, n = next
          PROVE  Record(n)' = Record(n)
      <4>1. n \in Tx /\ n # cur
        BY <1>4, <2>2, <3>1 DEF Tx
      <4> QED  BY <1>5, <4>1 DEF Record
    <3>2. ASSUME NEW n, n = next
          PROVE  Record(cur)' = Record(n)
      <4>1. Record(n)' = Record(n)
        BY <3>1, <3>2
      <4>2. Record(cur)' = Record(n)'
        BY <2>2, <3>2 DEF Record
      <4> QED  BY <4>1, <4>2
    <3>3. Record(cur)' = ops' /\ ops' # Unset
      BY <1>4, <2>2, <3>2
    <3>4. Alike(ops', ops')
      BY DEF Alike
    <3> QED  BY <1>1, <2>1, <2>2, <3>3, <3>4 DEF MemoryInv, Setup
  <2>3. CASE pc' = "release"
    BY <1>1, <2>1, <2>3 DEF MemoryInv, Setup
  <2> QED  BY <1>3, <2>2, <2>3
<1>11. FileInv'
  <2> SUFFICES ASSUME NEW g \in File, file[g] # Absent, file[g].kit # 0, NEW l, l = file[g].kit
               PROVE  Known(g, l)'
    BY <1>1 DEF FileInv
  <2>1. \E u \in Tx : Covered(u, g, l)
    BY <1>0 DEF FileInv, Known, Setup
  <2>2. (\E u \in Tx : Covered(u, g, l))'
    BY <1>8, <2>1
  <2> QED  BY <1>3, <2>2 DEF Known, Setup
<1> QED  BY <1>9, <1>10, <1>11 DEF Names

\* The user keeps the kit's part of a file or deletes the file.
LEMMA UserNames ==
  ASSUME Full, NEW f \in File, UserEdits(f)
  PROVE  Names'
<1>0. MemoryInv /\ PreInv /\ FileInv /\ file \in [File -> OnDisk]
  BY DEF Full, Names, Inv, TypeOK
<1>1. UNCHANGED <<journal, manifest, pc, cur, ops, started, todo>>
  BY DEF UserEdits
<1>2. MemoryInv'
  BY <1>0, <1>1, SameRecords DEF MemoryInv, Setup, Record
<1>3. FileInv'
  <2> SUFFICES ASSUME NEW g \in File, file'[g] # Absent, file'[g].kit # 0, NEW l, l = file'[g].kit
               PROVE  Known(g, l)'
    BY DEF FileInv
  <2>1. file[g] # Absent /\ file[g].kit = l
    <3>1. CASE g = f
      <4>1. \/ file'[f] = [user |-> edits + 1, kit |-> IF file[f] = Absent THEN 0 ELSE file[f].kit]
            \/ file'[f] = Absent
        BY <1>0 DEF UserEdits
      <4>2. l = IF file[f] = Absent THEN 0 ELSE file[f].kit
        BY <3>1, <4>1
      <4> QED  BY <3>1, <4>2
    <3>2. CASE g # f
      BY <1>0, <3>2 DEF UserEdits
    <3> QED  BY <3>1, <3>2
  <2>2. Known(g, l)
    BY <1>0, <2>1 DEF FileInv
  <2> QED  BY <1>1, <2>2, KnownStays
<1> QED  BY <1>0, <1>1, <1>2, <1>3, SameRecords DEF Names

\* Every step preserves the invariant.
LEMMA StepNames == Full /\ [Next]_vars => Full'
<1> SUFFICES ASSUME Full, [Next]_vars PROVE Full'
  OBVIOUS
<1>1. Inv'
  BY StepInv DEF Full
<1>2. CASE UNCHANGED vars
  <2>1. UNCHANGED <<file, journal, manifest, pc, cur, ops, started, todo>>
    BY <1>2 DEF vars
  <2>2. MemoryInv'
    BY <2>1 DEF Full, Names, MemoryInv, Setup, Record
  <2>3. FileInv'
    BY <2>1, KnownStays DEF Full, Names, FileInv
  <2> QED  BY <1>1, <2>1, <2>2, <2>3, SameRecords DEF Full, Names
<1>3. CASE \E f \in File, k \in 1..MaxKit : Touch(f, k)
  BY <1>1, <1>3, TouchNames DEF Full
<1>4. CASE Expect \/ Rename \/ UndoOp \/ UndoEnds \/ Finish \/ FinishUnlinks
  BY <1>1, <1>4, ExpectNames, RenameNames, UndoOpNames, UndoEndsNames, FinishNames, UnlinkNames DEF Full
<1>5. CASE Begin \/ Savepoint \/ AdapterFails \/ Release \/ Crash \/ RemoveLock
  BY <1>1, <1>5, BeginNames, CalmNames, EndNames DEF Full
<1>6. CASE \E t \in Tx, everything \in BOOLEAN : Rollback(t, everything)
  BY <1>1, <1>6, RollbackNames DEF Full
<1>7. CASE RollbackOp \/ RollbackSaves
  BY <1>1, <1>7, RollbackOpNames, RollbackSavesNames DEF Full
<1>8. CASE \E f \in File : UserEdits(f)
  BY <1>1, <1>8, UserNames DEF Full
<1> QED  BY <1>2, <1>3, <1>4, <1>5, <1>6, <1>7, <1>8 DEF Next

\* A crash leaves a discoverable record: for any number of files, transactions
\* and crashes, with failing adapters, edits of the user and rollbacks in any
\* order, each content of the kit in a file is named by a record on disk.
THEOREM KitIsDiscoverable == Spec => []Discoverable
<1>1. Init => Full
  BY InitInv, InitNames DEF Full
<1>2. Full => Discoverable
  <2> SUFFICES ASSUME Full, NEW f \in File, file[f] # Absent, file[f].kit # 0, NEW k, k = file[f].kit
               PROVE  \E t \in Tx : Covered(t, f, k)
    BY DEF Discoverable, Covered, Covers
  <2>1. Known(f, k) /\ PcInv /\ MemoryInv
    BY DEF Full, Names, Inv, FileInv
  <2>2. CASE pc \in Setup /\ OpCovers(f, k)
    <3>1. ops # <<>> /\ Covers(ops, f, k)
      BY <2>2, OpCoversIs
    <3>2. Covered(cur, f, k)
      BY <2>1, <2>2, <3>1, AlikeCovers DEF MemoryInv, Covered, Record
    <3> QED  BY <2>1, <2>2, <3>2 DEF PcInv, Setup
  <2>3. CASE ~(pc \in Setup /\ OpCovers(f, k))
    BY <2>1, <2>3 DEF Known, Below
  <2> QED  BY <2>2, <2>3
<1> QED  BY <1>1, <1>2, StepNames, PTL DEF Spec

(***************************************************************************)
(* Undoing is exact.  Transactions that still hold a file lie on each      *)
(* other like a stack: what one has to restore is what the one below it    *)
(* left (or the original, at the bottom), and what is in the file is what  *)
(* the uppermost one left.  A rollback takes them from the top.            *)
(***************************************************************************)
\* What readManifest finds of each transaction, and whether it was committed.
Disk == [t \in Tx |-> [rec |-> Record(t), com |-> manifest[t] # Unset]]

\* Undoing op finds v in its file and can undo it.
Fits(op, committed, v) ==
  v = Absent \/ v \in Ours(op, committed) \/ (~committed /\ v = op.pre)

\* On the disk d, transaction t has an operation on f to undo, ...
Held(d, t, f) == d[t].rec # Unset /\ \E i \in DOMAIN d[t].rec : d[t].rec[i].file = f /\ ~d[t].rec[i].done
\* ... and can undo it when it finds v.
HeldAs(d, t, f, v) ==
  /\ d[t].rec # Unset
  /\ \E i \in DOMAIN d[t].rec : /\ d[t].rec[i].file = f /\ ~d[t].rec[i].done
                                /\ Fits(d[t].rec[i], d[t].com, v)

\* v is what the transactions before n left in f, which was o originally.
Stands(d, n, f, v, o) ==
  \/ v = o /\ \A u \in Tx : u < n => ~Held(d, u, f)
  \/ \E u \in Tx : u < n /\ HeldAs(d, u, f, v) /\ \A w \in Tx : u < w /\ w < n => ~Held(d, w, f)

\* The operations of r are of different files, and a created file was absent.
Plain(r) ==
  /\ \A i, j \in DOMAIN r : r[i].file = r[j].file => i = j
  /\ \A i \in DOMAIN r : r[i].kind = "create" => r[i].pre = Absent
\* No transaction after t has anything to undo.
NoneAfter(d, t) == \A u \in Tx, f \in File : u > t => ~Held(d, u, f)

Based(d, t, or) ==
  d[t].rec # Unset =>
    /\ Plain(d[t].rec)
    /\ \A i \in DOMAIN d[t].rec : ~d[t].rec[i].done =>
         Stands(d, t, d[t].rec[i].file, d[t].rec[i].pre, or[d[t].rec[i].file])

\* A rollback has restored f and not yet saved its mark.
Restored(f) ==
  /\ pc = "rollback"
  /\ \E i \in DOMAIN ops : i < mark /\ ~Record(cur)[i].done /\ ops[i].file = f

\* The journal r notes the operations o of a setup, as not undone yet.
Noted(r, o) == Alike(r, o) /\ \A i \in DOMAIN r : r[i].kind = o[i].kind /\ ~r[i].done

SetupExact ==
  /\ \/ Record(cur) = Unset /\ ops = <<>>
     \/ Record(cur) # Unset /\ Noted(Record(cur), ops)
  /\ Plain(ops)
  /\ pc # "undo" => \A i \in DOMAIN ops : ~ops[i].done
  /\ pc = "undo" => mark < Len(ops) /\ \A i \in DOMAIN ops : ops[i].done => i > mark /\ file[ops[i].file] = ops[i].pre
  /\ \A i \in DOMAIN ops :
       ~ops[i].done /\ (pc \in {"touched", "expected"} => ops[i].file # todo.file) => file[ops[i].file] = ops[i].exp
  /\ pc = "expected" => \A i \in DOMAIN ops : ops[i].file = todo.file => ops[i].exp = todo.to

RollbackExact ==
  /\ Plain(ops) /\ NoneAfter(Disk, cur)
  /\ \A i \in DOMAIN ops : i >= mark => ops[i] = Record(cur)[i]
  /\ \A i \in DOMAIN ops : i < mark => /\ ops[i].done
                                       /\ ~Record(cur)[i].done => file[ops[i].file] = ops[i].pre

Exact ==
  /\ \A t \in Tx : Based(Disk, t, orig)
  /\ \A f \in File : ~Restored(f) => Stands(Disk, MaxTx + 1, f, file[f], orig[f])
  /\ pc \in Setup => SetupExact
  /\ pc = "rollback" => RollbackExact
ExactInv == edits = 0 => Exact
LEMMA DiskIs ==
  ASSUME NEW t \in Tx
  PROVE  /\ Disk[t].rec = Record(t) /\ Disk[t].com = (manifest[t] # Unset)
         /\ Disk'[t].rec = Record(t)' /\ Disk'[t].com = (manifest[t] # Unset)'
  BY DEF Disk

\* A transaction whose record did not change is on disk as it was.
LEMMA DiskStays ==
  ASSUME NEW t \in Tx, journal'[t] = journal[t], manifest'[t] = manifest[t]
  PROVE  Disk'[t] = Disk[t] /\ Record(t)' = Record(t)
  BY DEF Disk, Record

\* What the transactions before n left depends on those only.
LEMMA StandsBelow ==
  ASSUME NEW d, NEW e, NEW n, \A u \in Tx : u < n => d[u] = e[u], NEW f, NEW v, NEW o,
         Stands(d, n, f, v, o)
  PROVE  Stands(e, n, f, v, o)
<1>1. \A u \in Tx : u < n => /\ Held(e, u, f) <=> Held(d, u, f)
                             /\ HeldAs(e, u, f, v) <=> HeldAs(d, u, f, v)
  BY DEF Held, HeldAs
<1>2. CASE v = o /\ \A u \in Tx : u < n => ~Held(d, u, f)
  BY <1>1, <1>2 DEF Stands
<1>3. CASE \E u \in Tx : u < n /\ HeldAs(d, u, f, v) /\ \A w \in Tx : u < w /\ w < n => ~Held(d, w, f)
  <2>1. PICK u \in Tx : u < n /\ HeldAs(d, u, f, v) /\ \A w \in Tx : u < w /\ w < n => ~Held(d, w, f)
    BY <1>3
  <2>2. u < n /\ HeldAs(e, u, f, v) /\ \A w \in Tx : u < w /\ w < n => ~Held(e, w, f)
    BY <1>1, <2>1
  <2> QED  BY <2>2 DEF Stands
<1> QED  BY <1>2, <1>3 DEF Stands

\* On top of the stack is t, or what the transactions before t left.
LEMMA TopIs ==
  ASSUME NEW d, NEW t \in Tx, NoneAfter(d, t), NEW f \in File, NEW v, NEW o
  PROVE  Stands(d, MaxTx + 1, f, v, o) <=>
           IF Held(d, t, f) THEN HeldAs(d, t, f, v) ELSE Stands(d, t, f, v, o)
<1>1. \A u \in Tx : u \in Nat /\ u < MaxTx + 1
  BY SetupConstants DEF Tx
<1>2. \A u \in Tx : HeldAs(d, u, f, v) => Held(d, u, f)
  BY DEF Held, HeldAs
<1>3. \A u \in Tx : u > t => ~Held(d, u, f)
  BY DEF NoneAfter
<1>4. \A u, w \in Tx : u < w \/ u = w \/ u > w
  BY <1>1
<1>5. CASE Held(d, t, f)
  <2>1. ASSUME NEW u \in Tx, HeldAs(d, u, f, v), \A w \in Tx : u < w /\ w < MaxTx + 1 => ~Held(d, w, f)
        PROVE  u = t
    BY <1>1, <1>2, <1>3, <1>4, <1>5, <2>1
  <2>2. \A w \in Tx : t < w /\ w < MaxTx + 1 => ~Held(d, w, f)
    BY <1>1, <1>3
  <2> QED  BY <1>1, <1>5, <2>1, <2>2 DEF Stands
<1>6. CASE ~Held(d, t, f)
  <2>1. \A u \in Tx : Held(d, u, f) => u < t
    BY <1>3, <1>4, <1>6
  <2>2. (\A u \in Tx : u < MaxTx + 1 => ~Held(d, u, f)) <=> \A u \in Tx : u < t => ~Held(d, u, f)
    BY <1>1, <2>1
  <2>3. ASSUME NEW u \in Tx
        PROVE  (\A w \in Tx : u < w /\ w < MaxTx + 1 => ~Held(d, w, f)) <=> \A w \in Tx : u < w /\ w < t => ~Held(d, w, f)
    BY <1>1, <2>1
  <2>4. (\E u \in Tx : u < MaxTx + 1 /\ HeldAs(d, u, f, v) /\ \A w \in Tx : u < w /\ w < MaxTx + 1 => ~Held(d, w, f))
          <=> \E u \in Tx : u < t /\ HeldAs(d, u, f, v) /\ \A w \in Tx : u < w /\ w < t => ~Held(d, w, f)
    BY <1>1, <1>2, <2>1, <2>3
  <2> QED  BY <1>6, <2>2, <2>4 DEF Stands
<1> QED  BY <1>5, <1>6

\* A step that changes the record of the uppermost transaction only keeps what
\* the others have to restore.
LEMMA BasedStays ==
  ASSUME Full, \A u \in Tx : Based(Disk, u, orig), NEW t \in Tx, NoneAfter(Disk, t), orig' = orig,
         \A u \in Tx : u # t => journal'[u] = journal[u] /\ manifest'[u] = manifest[u],
         Based(Disk', t, orig)
  PROVE  \A u \in Tx : Based(Disk', u, orig')
<1> SUFFICES ASSUME NEW u \in Tx, u # t PROVE Based(Disk', u, orig)
  OBVIOUS
<1>1. Disk'[u] = Disk[u] /\ Disk[u].rec = Record(u)
  BY DiskStays, DiskIs
<1>2. Based(Disk, u, orig)
  OBVIOUS
<1>3. u < t \/ u > t
  BY SetupConstants DEF Tx
<1>4. ASSUME NEW i \in DOMAIN Disk[u].rec, Disk[u].rec # Unset, ~Disk[u].rec[i].done
      PROVE  u < t
  <2>1. Disk[u].rec[i].file \in File
    BY <1>1, <1>4, RecordType, OpAt DEF Full
  <2>2. Held(Disk, u, Disk[u].rec[i].file)
    BY <1>4 DEF Held
  <2> QED  BY <1>3, <2>1, <2>2 DEF NoneAfter
<1>5. \A v \in Tx : v < u /\ u < t => Disk[v] = Disk'[v]
  BY DiskStays DEF Tx
<1>6. ASSUME NEW i \in DOMAIN Disk[u].rec, Disk[u].rec # Unset, ~Disk[u].rec[i].done
      PROVE  Stands(Disk', u, Disk[u].rec[i].file, Disk[u].rec[i].pre, orig[Disk[u].rec[i].file])
  <2>1. Stands(Disk, u, Disk[u].rec[i].file, Disk[u].rec[i].pre, orig[Disk[u].rec[i].file])
    BY <1>2, <1>6 DEF Based
  <2>2. \A v \in Tx : v < u => Disk[v] = Disk'[v]
    BY <1>4, <1>5, <1>6
  <2> QED  BY <2>1, <2>2, StandsBelow
<1> QED  BY <1>1, <1>2, <1>6 DEF Based

(***************************************************************************)
(* Setup.                                                                  *)
(***************************************************************************)
\* An operation of a running setup is uncommitted and on disk.
LEMMA SetupFacts ==
  ASSUME Full, Exact, pc \in Setup
  PROVE  /\ cur \in Tx /\ ops \in Seq(Op) /\ NoneAfter(Disk, cur)
         /\ \A f : Held(Disk, cur, f) <=> \E i \in DOMAIN ops : ops[i].file = f
         /\ \A i \in DOMAIN ops :
              /\ ops[i].file \in File /\ Fits(ops[i], FALSE, file[ops[i].file])
              /\ Stands(Disk, cur, ops[i].file, ops[i].pre, orig[ops[i].file])
         /\ \A f \in File : (\A i \in DOMAIN ops : ops[i].file # f) =>
              Stands(Disk, cur, f, file[f], orig[f])
<1>0. /\ cur \in Tx /\ cur = started /\ manifest[cur] = Unset /\ SetupExact /\ ops \in Seq(Op)
      /\ \A t \in Tx : t > started => Record(t) = Unset
  BY RecordNothing DEF Full, Names, MemoryInv, Inv, PcInv, TypeOK, Exact, Setup
<1>1. NoneAfter(Disk, cur)
  BY <1>0, DiskIs DEF NoneAfter, Held
<1>2. \A f : Held(Disk, cur, f) <=> \E i \in DOMAIN ops : ops[i].file = f
  BY <1>0, DiskIs DEF SetupExact, Noted, Alike, Held
<1>3. \A f \in File : Stands(Disk, MaxTx + 1, f, file[f], orig[f])
  BY DEF Exact, Restored, Setup
<1>4. ASSUME NEW i \in DOMAIN ops
      PROVE  /\ ops[i].file \in File /\ Fits(ops[i], FALSE, file[ops[i].file])
             /\ Stands(Disk, cur, ops[i].file, ops[i].pre, orig[ops[i].file])
  <2>1. ops[i].file \in File
    BY <1>0, OpAt
  <2>2. HeldAs(Disk, cur, ops[i].file, file[ops[i].file])
    BY <1>0, <1>1, <1>2, <1>3, <2>1, TopIs
  <2>3. PICK j \in DOMAIN Record(cur) : /\ Record(cur)[j].file = ops[i].file
                                        /\ Fits(Record(cur)[j], FALSE, file[ops[i].file])
    BY <1>0, <2>2, DiskIs DEF HeldAs
  <2>4. Record(cur) # Unset /\ Alike(Record(cur), ops) /\ ~Record(cur)[i].done
    BY <1>0 DEF SetupExact, Noted, Alike
  <2>5. j = i
    BY <1>0, <2>3, <2>4 DEF SetupExact, Plain, Alike
  <2>6. Fits(ops[i], FALSE, file[ops[i].file])
    BY <2>3, <2>4, <2>5 DEF Fits, Ours, Alike
  <2>7. Based(Disk, cur, orig)
    BY <1>0 DEF Exact
  <2>8. Stands(Disk, cur, Record(cur)[i].file, Record(cur)[i].pre, orig[Record(cur)[i].file])
    BY <1>0, <2>4, <2>7, DiskIs DEF Based, Alike
  <2> QED  BY <2>1, <2>4, <2>6, <2>8 DEF Alike
<1>5. \A f \in File : (\A i \in DOMAIN ops : ops[i].file # f) => Stands(Disk, cur, f, file[f], orig[f])
  BY <1>0, <1>1, <1>2, <1>3, TopIs
<1> QED  BY <1>0, <1>1, <1>2, <1>4, <1>5

\* What a step of a setup must see to.
LEMMA SetupStep ==
  ASSUME Full, Full', Exact, pc \in Setup, pc' \in Setup, cur' = cur, orig' = orig, SetupExact',
         \A u \in Tx : u # cur => journal'[u] = journal[u] /\ manifest'[u] = manifest[u],
         \A i \in DOMAIN ops' : /\ Fits(ops'[i], FALSE, file'[ops'[i].file])
                                /\ Stands(Disk, cur, ops'[i].file, ops'[i].pre, orig[ops'[i].file]),
         \A f \in File : (\A i \in DOMAIN ops' : ops'[i].file # f) => Stands(Disk, cur, f, file'[f], orig[f])
  PROVE  Exact'
<1>0. /\ cur \in Tx /\ NoneAfter(Disk, cur) /\ ops' \in Seq(Op) /\ manifest'[cur] = Unset
      /\ \A t \in Tx : t > cur => Record(t)' = Unset
  <2>1. cur' = started' /\ manifest'[cur'] = Unset
    BY DEF Full, Names, MemoryInv
  <2>2. \A t \in Tx : t > started' => journal'[t] = Unset /\ manifest'[t] = Unset
    BY DEF Full, Names, MemoryInv
  <2>3. \A t \in Tx : t > cur => Record(t)' = Unset
    BY <2>1, <2>2 DEF Record
  <2>4. ops' \in Seq(Op)
    BY DEF Full, Inv, TypeOK
  <2> QED  BY <2>1, <2>3, <2>4, SetupFacts
<1>1. NoneAfter(Disk', cur)
  BY <1>0, DiskIs DEF NoneAfter, Held
<1>2. Disk'[cur].rec = Record(cur)' /\ Disk'[cur].com = FALSE
  BY <1>0, DiskIs
<1>3. /\ Record(cur)' = Unset => ops' = <<>>
      /\ Record(cur)' # Unset => /\ Alike(Record(cur)', ops')
                                 /\ \A i \in DOMAIN Record(cur)' :
                                      /\ Record(cur)'[i].kind = ops'[i].kind
                                      /\ ~Record(cur)'[i].done
  BY DEF SetupExact, Noted
<1>4. \A u \in Tx : u < cur => Disk[u] = Disk'[u]
  BY DiskStays DEF Tx
<1>5. \A f \in File : \A v : Stands(Disk, cur, f, v, orig[f]) => Stands(Disk', cur, f, v, orig[f])
  BY <1>4, StandsBelow
<1>6. \A f : Held(Disk', cur, f) => \E i \in DOMAIN ops' : ops'[i].file = f
  BY <1>2, <1>3 DEF Held, Alike
<1>7. \A i \in DOMAIN ops' : HeldAs(Disk', cur, ops'[i].file, file'[ops'[i].file])
  BY <1>2, <1>3 DEF HeldAs, Alike, Fits, Ours
<1>8. \A f : (\E i \in DOMAIN ops' : ops'[i].file = f) => HeldAs(Disk', cur, f, file'[f]) /\ Held(Disk', cur, f)
  BY <1>7 DEF HeldAs, Held
<1>9. \A f \in File : Stands(Disk', MaxTx + 1, f, file'[f], orig[f])
  BY <1>0, <1>1, <1>5, <1>8, <1>6, TopIs
<1>10. Based(Disk', cur, orig)
  <2> SUFFICES ASSUME Record(cur)' # Unset PROVE Based(Disk', cur, orig)
    BY <1>2 DEF Based
  <2>1. Plain(Record(cur)')
    <3>1. Plain(ops')
      BY DEF SetupExact
    <3> QED  BY <1>3, <3>1 DEF Plain, Alike
  <2>2. ASSUME NEW i \in DOMAIN Record(cur)'
        PROVE  Stands(Disk', cur, Record(cur)'[i].file, Record(cur)'[i].pre, orig[Record(cur)'[i].file])
    <3>1. i \in DOMAIN ops' /\ Record(cur)'[i].file = ops'[i].file /\ Record(cur)'[i].pre = ops'[i].pre
      BY <1>3 DEF Alike
    <3>2. ops'[i].file \in File
      BY <1>0, <3>1, OpAt
    <3> QED  BY <1>5, <3>1, <3>2
  <2> QED  BY <1>2, <2>1, <2>2 DEF Based
<1>11. \A u \in Tx : Based(Disk', u, orig')
  BY <1>0, <1>10, BasedStays DEF Exact
<1> QED  BY <1>9, <1>11 DEF Exact, Setup

\* An operation that fits what is in its file is undone, and leaves the file as
\* it found it.
LEMMA FitsUndone ==
  ASSUME Inv, pc # "idle", Plain(ops), NEW i \in DOMAIN ops, NEW committed,
         Fits(ops[i], committed, file[ops[i].file])
  PROVE  Undoes(ops[i], committed) /\ AfterUndo(ops[i], committed) = ops[i].pre
<1> DEFINE f == ops[i].file
           mine == file[f] \in Ours(ops[i], committed)
<1>1. ops[i].kind = "modify" => backup[cur][ops[i].backup].is = ops[i].pre
  <2>1. Intact(backup[cur], ops)
    BY DEF Inv, IntactInv
  <2>2. ops[i].kind = "modify" => backup[cur][ops[i].backup] = [of |-> f, is |-> ops[i].pre]
    BY <2>1 DEF Intact
  <2>3. [of |-> f, is |-> ops[i].pre].is = ops[i].pre
    OBVIOUS
  <2> QED  BY <2>2, <2>3
<1>2. ops[i].kind \in {"modify", "create"} /\ (ops[i].kind = "create" => ops[i].pre = Absent)
  BY OpAt DEF Inv, TypeOK, Plain
<1>3. file[f] = Absent \/ mine \/ (~committed /\ file[f] = ops[i].pre)
  BY DEF Fits
<1>4. /\ Undoes(ops[i], committed) <=> \/ file[f] = Absent \/ mine
                                       \/ ~committed /\ ops[i].kind = "modify" /\ file[f] = ops[i].pre
      /\ AfterUndo(ops[i], committed) =
           IF ops[i].kind = "modify"
             THEN IF file[f] = Absent \/ mine THEN backup[cur][ops[i].backup].is ELSE file[f]
             ELSE IF mine THEN Absent ELSE file[f]
  BY DEF Undoes, AfterUndo
<1> HIDE DEF mine, f
<1>5. CASE ops[i].kind = "modify"
  BY <1>1, <1>3, <1>4, <1>5
<1>6. CASE ops[i].kind = "create"
  <2>1. ops[i].kind # "modify"
    BY <1>6
  <2> QED  BY <1>2, <1>3, <1>4, <1>6, <2>1
<1> QED  BY <1>2, <1>5, <1>6

\* The original files lie at the bottom.
LEMMA InitExact == Init => Exact
<1> SUFFICES ASSUME Init PROVE Exact
  OBVIOUS
<1>1. \A t \in Tx : Record(t) = Unset
  BY DEF Init, Record
<1>2. \A t \in Tx : \A f : ~Held(Disk, t, f)
  BY <1>1, DiskIs DEF Held
<1>3. \A t \in Tx : Based(Disk, t, orig)
  BY <1>1, DiskIs DEF Based
<1>4. \A f \in File : Stands(Disk, MaxTx + 1, f, file[f], orig[f])
  BY <1>2 DEF Stands, Init
<1> QED  BY <1>3, <1>4 DEF Init, Exact, Setup

\* With the records as they were, what is in the files stands as it stood.
LEMMA SameDisk ==
  ASSUME UNCHANGED <<journal, manifest, orig>>
  PROVE  Disk' = Disk /\ orig' = orig /\ \A t : Record(t)' = Record(t)
  BY DEF Disk, Record

\* Neither the lock nor the counters matter.
LEMMA SameExact ==
  ASSUME Exact, UNCHANGED <<file, journal, manifest, orig, pc, ops, cur, todo, mark>>
  PROVE  Exact'
<1>1. /\ \A t \in Tx : Based(Disk', t, orig')
      /\ \A f \in File : ~Restored(f)' => Stands(Disk', MaxTx + 1, f, file'[f], orig'[f])
  BY SameDisk DEF Exact, Restored
<1>2. /\ pc' \in Setup => SetupExact'
      /\ pc' = "rollback" => RollbackExact'
  BY SameDisk DEF Exact, SetupExact, RollbackExact
<1> QED  BY <1>1, <1>2 DEF Exact

\* Steps that change neither files nor records.
LEMMA CalmExact ==
  ASSUME Full, Full', Exact, "rollback" \notin CrashIn,
         Begin \/ Savepoint \/ AdapterFails \/ Release \/ Crash
  PROVE  Exact'
<1>1. /\ UNCHANGED <<file, journal, manifest, orig>>
      /\ pc # "rollback" /\ pc' \notin {"rollback"}
  BY DEF Begin, Savepoint, AdapterFails, Release, Crash
<1>2. (\A t \in Tx : Based(Disk', t, orig')) /\ \A f \in File : Stands(Disk', MaxTx + 1, f, file'[f], orig'[f])
  BY <1>1, SameDisk DEF Exact, Restored
<1>3. pc' \in Setup => SetupExact'
  <2>1. CASE Begin
    <3>1. cur' = started + 1 /\ cur' \in Tx /\ ops' = <<>> /\ pc' = "open" /\ started \in Nat
      BY <2>1, SetupConstants DEF Begin, Full, Inv, PcInv, TypeOK
    <3>2. Record(cur') = Unset
      BY <3>1, RecordNothing DEF Full, Names, MemoryInv
    <3>3. Record(cur)' = Unset
      BY <1>1, <3>2 DEF Record
    <3> QED  BY <3>1, <3>3 DEF SetupExact, Plain
  <2>2. CASE Savepoint
    <3>1. pc = "open" /\ pc' = pc /\ UNCHANGED <<ops, cur, todo>>
      BY <2>2 DEF Savepoint
    <3> QED  BY <1>1, <3>1 DEF Exact, SetupExact, Setup, Record
  <2>3. CASE AdapterFails
    <3>1. pc = "open" /\ pc' = "undo" /\ UNCHANGED <<ops, cur, todo, mark>> /\ mark < Len(ops)
      BY <2>3 DEF AdapterFails
    <3>2. \A i \in DOMAIN ops : ~ops[i].done
      BY <3>1 DEF Exact, SetupExact, Setup
    <3> QED  BY <1>1, <3>1, <3>2 DEF Exact, SetupExact, Setup, Record
  <2>4. CASE Release \/ Crash
    BY <2>4 DEF Release, Crash, Setup
  <2> QED  BY <2>1, <2>2, <2>3, <2>4
<1> QED  BY <1>1, <1>2, <1>3 DEF Exact

\* A new operation has to restore what the transactions before left.
LEMMA TouchExact ==
  ASSUME Full, Full', Exact, NEW f \in File, NEW k \in 1..MaxKit, Touch(f, k)
  PROVE  Exact'
<1>0. /\ cur \in Tx /\ ops \in Seq(Op) /\ journal \in [Tx -> {Unset} \cup Seq(Op)]
      /\ pc = "open" /\ pc \in Setup /\ manifest[cur] = Unset /\ SetupExact
  BY DEF Full, Names, Inv, PcInv, TypeOK, MemoryInv, Setup, Touch, Exact
<1>1. /\ pc' = "touched" /\ pc' \in Setup /\ todo'.file = f
      /\ UNCHANGED <<file, manifest, cur, orig>>
  BY DEF Touch, Setup
<1>2. CASE OpOn(f) # 0
  <2>1. UNCHANGED <<ops, journal>>
    BY <1>2 DEF Touch
  <2>2. SetupExact'
    BY <1>0, <1>1, <2>1 DEF SetupExact, Record
  <2> QED  BY <1>0, <1>1, <2>1, <2>2, SetupFacts, SetupStep
<1>3. CASE OpOn(f) = 0
  <2>1. PICK op : /\ ops' = Append(ops, op) /\ journal' = [journal EXCEPT ![cur] = Append(ops, op)]
                  /\ op.file = f /\ op.pre = file[f] /\ op.done = FALSE
                  /\ op.kind = "create" => op.pre = Absent
    BY <1>3 DEF Touch
  <2>2. ops' \in Seq(Op)
    BY DEF Full, Inv, TypeOK
  <2>3. /\ Len(ops) \in Nat /\ DOMAIN ops = 1..Len(ops) /\ DOMAIN ops' = 1..(Len(ops) + 1)
        /\ \A i \in 1..Len(ops) : ops'[i] = ops[i]
        /\ ops'[Len(ops) + 1] = op
    BY <1>0, <2>1
  <2>4. \A i \in DOMAIN ops' : \/ i \in DOMAIN ops /\ ops'[i] = ops[i]
                               \/ i = Len(ops) + 1 /\ ops'[i] = op
    <3>1. \A i \in 1..(Len(ops) + 1) : i \in 1..Len(ops) \/ i = Len(ops) + 1
      BY <2>3
    <3> QED  BY <2>3, <3>1
  <2>5. /\ journal'[cur] = ops' /\ journal'[cur] # Unset
        /\ \A u \in Tx : u # cur => journal'[u] = journal[u] /\ manifest'[u] = manifest[u]
    BY <1>0, <1>1, <2>1, <2>2, UnsetIsNothing
  <2>6. \A i \in DOMAIN ops : ops[i].file # f
    BY <1>3, <2>3 DEF OpOn
  <2>7. SetupExact'
    <3>1. Record(cur)' = ops' /\ Record(cur)' # Unset
      BY <1>0, <1>1, <2>5 DEF Record
    <3>2. \A i \in DOMAIN ops' : ~ops'[i].done
      BY <1>0, <2>1, <2>4 DEF SetupExact
    <3>3. Noted(Record(cur)', ops')
      BY <3>1, <3>2 DEF Noted, Alike
    <3>4. Plain(ops')
      <4>1. Plain(ops)
        BY <1>0 DEF SetupExact
      <4>2. \A i, j \in DOMAIN ops' : ops'[i].file = ops'[j].file => i = j
        BY <2>1, <2>4, <2>6, <4>1 DEF Plain
      <4>3. \A i \in DOMAIN ops' : ops'[i].kind = "create" => ops'[i].pre = Absent
        BY <2>1, <2>4, <4>1 DEF Plain
      <4> QED  BY <4>2, <4>3 DEF Plain
    <3>5. \A i \in DOMAIN ops' : ops'[i].file # f => file'[ops'[i].file] = ops'[i].exp
      BY <1>0, <1>1, <2>1, <2>4 DEF SetupExact
    <3> QED  BY <1>1, <3>1, <3>2, <3>3, <3>4, <3>5 DEF SetupExact
  <2>8. ASSUME NEW i \in DOMAIN ops'
        PROVE  /\ Fits(ops'[i], FALSE, file'[ops'[i].file])
               /\ Stands(Disk, cur, ops'[i].file, ops'[i].pre, orig[ops'[i].file])
    <3>1. CASE i \in DOMAIN ops /\ ops'[i] = ops[i]
      BY <1>0, <1>1, <3>1, SetupFacts
    <3>2. CASE ops'[i] = op
      <4>1. Stands(Disk, cur, f, file[f], orig[f])
        BY <1>0, <2>6, SetupFacts
      <4> QED  BY <1>1, <2>1, <3>2, <4>1 DEF Fits
    <3> QED  BY <2>4, <3>1, <3>2
  <2>9. \A g \in File : (\A i \in DOMAIN ops' : ops'[i].file # g) => Stands(Disk, cur, g, file'[g], orig[g])
    <3>1. \A g \in File : (\A i \in DOMAIN ops' : ops'[i].file # g) => \A i \in DOMAIN ops : ops[i].file # g
      <4>1. \A i \in DOMAIN ops : i \in DOMAIN ops' /\ ops'[i] = ops[i]
        BY <2>3
      <4> QED  BY <4>1
    <3> QED  BY <1>0, <1>1, <3>1, SetupFacts
  <2> QED  BY <1>0, <1>1, <2>5, <2>7, <2>8, <2>9, SetupStep
<1> QED  BY <1>2, <1>3

\* The journal expects what is written before it is written.
LEMMA ExpectExact ==
  ASSUME Full, Full', Exact, Expect
  PROVE  Exact'
<1> DEFINE i == OpOn(todo.file)
           e == Announced(ops[i], todo.to)
<1>0. /\ MemoryInv /\ cur \in Tx /\ ops \in Seq(Op) /\ pc \in Setup /\ SetupExact
      /\ file \in [File -> OnDisk] /\ journal \in [Tx -> {Unset} \cup Seq(Op)]
      /\ pc = "touched" /\ manifest[cur] = Unset
  BY DEF Full, Names, Inv, PcInv, TypeOK, MemoryInv, Setup, Expect, Exact
<1>1. /\ pc' = "expected" /\ pc' \in Setup
      /\ ops' = [ops EXCEPT ![i] = e] /\ journal' = [journal EXCEPT ![cur] = ops']
      /\ UNCHANGED <<file, manifest, cur, todo, orig>>
  BY DEF Expect, Setup
<1>2. i \in DOMAIN ops /\ ops[i].file = todo.file
  BY <1>0 DEF MemoryInv, OpOn
<1> HIDE DEF i
<1>3. /\ e.file = ops[i].file /\ e.pre = ops[i].pre /\ e.done = ops[i].done /\ e.kind = ops[i].kind
      /\ e.exp = todo.to /\ e.older = ops[i].older \cup ({ops[i].exp} \ {Unset})
  <2>1. ops[i] \in Op
    BY <1>0, <1>2, OpAt
  <2> QED  BY <2>1 DEF Announced, Op
<1> HIDE DEF e
<1>4. /\ DOMAIN ops' = DOMAIN ops
      /\ \A j \in DOMAIN ops : ops'[j] = IF j = i THEN e ELSE ops[j]
  BY <1>0, <1>1
<1>5. ops' \in Seq(Op)
  BY DEF Full, Inv, TypeOK
<1>6. /\ journal'[cur] = ops' /\ journal'[cur] # Unset
      /\ \A u \in Tx : u # cur => journal'[u] = journal[u] /\ manifest'[u] = manifest[u]
  BY <1>0, <1>1, <1>5, UnsetIsNothing
<1>7. \A j \in DOMAIN ops : /\ ops'[j].file = ops[j].file /\ ops'[j].pre = ops[j].pre
                            /\ ops'[j].done = ops[j].done /\ ops'[j].kind = ops[j].kind
                            /\ j # i => ops'[j].exp = ops[j].exp
  BY <1>3, <1>4
<1>8. SetupExact'
  <2>1. Record(cur)' = ops' /\ Record(cur)' # Unset
    BY <1>0, <1>1, <1>6 DEF Record
  <2>2. \A j \in DOMAIN ops' : ~ops'[j].done
    BY <1>0, <1>4, <1>7 DEF SetupExact
  <2>3. Noted(Record(cur)', ops')
    BY <2>1, <2>2 DEF Noted, Alike
  <2>4. Plain(ops')
    BY <1>0, <1>4, <1>7 DEF SetupExact, Plain
  <2>5. \A j \in DOMAIN ops' : ops'[j].file = todo.file => ops'[j].exp = todo.to
    BY <1>0, <1>2, <1>3, <1>4 DEF SetupExact, Plain
  <2>6. \A j \in DOMAIN ops' : ops'[j].file # todo.file => file[ops'[j].file] = ops'[j].exp
    BY <1>0, <1>2, <1>4, <1>7 DEF SetupExact
  <2> QED  BY <1>1, <2>1, <2>2, <2>3, <2>4, <2>5, <2>6 DEF SetupExact
<1>9. ASSUME NEW j \in DOMAIN ops
      PROVE  Fits(ops'[j], FALSE, file[ops[j].file])
  <2>1. Fits(ops[j], FALSE, file[ops[j].file]) /\ file[ops[j].file] # Unset
    <3>1. ops[j].file \in File /\ Fits(ops[j], FALSE, file[ops[j].file])
      BY <1>0, SetupFacts
    <3> QED  BY <1>0, <3>1, SetupConstants, UnsetIsNothing DEF OnDisk
  <2>2. CASE j = i
    BY <1>3, <1>4, <2>1, <2>2 DEF Fits, Ours
  <2>3. CASE j # i
    BY <1>4, <2>1, <2>3
  <2> QED  BY <2>2, <2>3
<1>10. /\ \A j \in DOMAIN ops : Stands(Disk, cur, ops[j].file, ops[j].pre, orig[ops[j].file])
       /\ \A f \in File : (\A j \in DOMAIN ops : ops[j].file # f) => Stands(Disk, cur, f, file[f], orig[f])
  BY <1>0, SetupFacts
<1>11. \A j \in DOMAIN ops' : /\ Fits(ops'[j], FALSE, file'[ops'[j].file])
                              /\ Stands(Disk, cur, ops'[j].file, ops'[j].pre, orig[ops'[j].file])
  BY <1>1, <1>4, <1>7, <1>9, <1>10
<1>12. \A f \in File : (\A j \in DOMAIN ops' : ops'[j].file # f) => Stands(Disk, cur, f, file'[f], orig[f])
  BY <1>1, <1>4, <1>7, <1>10
<1> QED  BY <1>0, <1>1, <1>6, <1>8, <1>11, <1>12, SetupStep

\* What is written is what the journal expects.
LEMMA RenameExact ==
  ASSUME Full, Full', Exact, Rename
  PROVE  Exact'
<1>0. /\ MemoryInv /\ cur \in Tx /\ ops \in Seq(Op) /\ pc \in Setup /\ SetupExact /\ pc = "expected"
      /\ file \in [File -> OnDisk] /\ todo.file \in File
  BY DEF Full, Names, Inv, PcInv, TypeOK, Setup, Rename, Exact
<1>1. /\ pc' = "open" /\ pc' \in Setup /\ file' = [file EXCEPT ![todo.file] = todo.to]
      /\ UNCHANGED <<journal, manifest, cur, ops, mark, orig>>
  BY DEF Rename, Setup
<1>2. \E i \in DOMAIN ops : ops[i].file = todo.file
  BY <1>0 DEF MemoryInv, Covers
<1>3. \A i \in DOMAIN ops : ops[i].file \in File /\ file'[ops[i].file] = ops[i].exp
  <2>1. ASSUME NEW i \in DOMAIN ops
        PROVE  ops[i].file \in File /\ file'[ops[i].file] = ops[i].exp
    <3>1. ops[i].file \in File /\ ~ops[i].done
      BY <1>0, OpAt DEF SetupExact
    <3>2. CASE ops[i].file = todo.file
      BY <1>0, <1>1, <3>1, <3>2 DEF SetupExact
    <3>3. CASE ops[i].file # todo.file
      BY <1>0, <1>1, <3>1, <3>3 DEF SetupExact
    <3> QED  BY <3>1, <3>2, <3>3
  <2> QED  BY <2>1
<1>4. SetupExact'
  BY <1>0, <1>1, <1>3 DEF SetupExact, Record
<1>5. \A i \in DOMAIN ops : Fits(ops[i], FALSE, file'[ops[i].file])
  BY <1>3 DEF Fits, Ours
<1>6. \A f \in File : (\A i \in DOMAIN ops : ops[i].file # f) => file'[f] = file[f]
  BY <1>0, <1>1, <1>2
<1> QED  BY <1>0, <1>1, <1>4, <1>5, <1>6, SetupFacts, SetupStep

\* Undoing an operation of a failed adapter leaves its file as it found it.
LEMMA UndoOpExact ==
  ASSUME Full, Full', Exact, UndoOp
  PROVE  Exact'
<1> DEFINE i == CHOOSE j \in NextUndo : \A m \in NextUndo : j <= m
           g == ops[i].file
<1>0. /\ Inv /\ cur \in Tx /\ ops \in Seq(Op) /\ pc = "undo" /\ pc \in Setup /\ SetupExact
      /\ file \in [File -> OnDisk] /\ NextUndo # {} /\ mark \in Nat
  BY DEF Full, Names, Inv, PcInv, TypeOK, Setup, UndoOp, Exact
<1>1. i \in NextUndo /\ i \in DOMAIN ops
  BY <1>0, NextUndoLeast
<1>2. ~ops[i].done /\ i > mark
  BY <1>0, <1>1 DEF NextUndo
<1>3. /\ file' = [file EXCEPT ![g] = AfterUndo(ops[i], FALSE)]
      /\ ops' = [ops EXCEPT ![i].done = TRUE]
      /\ UNCHANGED <<pc, journal, manifest, cur, orig, mark>>
  BY DEF UndoOp
<1> HIDE DEF i
<1>4. g \in File /\ ops[i] \in Op
  BY <1>0, <1>1, OpAt
<1>5. AfterUndo(ops[i], FALSE) = ops[i].pre
  <2>1. Fits(ops[i], FALSE, file[g])
    BY <1>0, <1>1, SetupFacts
  <2> QED  BY <1>0, <1>1, <2>1, FitsUndone DEF SetupExact
<1>6. /\ DOMAIN ops' = DOMAIN ops /\ Len(ops') = Len(ops)
      /\ \A j \in DOMAIN ops : /\ ops'[j].file = ops[j].file /\ ops'[j].pre = ops[j].pre
                               /\ ops'[j].exp = ops[j].exp /\ ops'[j].older = ops[j].older
                               /\ ops'[j].kind = ops[j].kind
                               /\ j # i => ops'[j] = ops[j]
      /\ ops'[i].done
  BY <1>0, <1>1, <1>3, <1>4 DEF Op
<1>7. \A j \in DOMAIN ops : j # i => ops[j].file # g
  BY <1>0, <1>1 DEF SetupExact, Plain
<1>8. file'[g] = ops[i].pre /\ \A f \in File : f # g => file'[f] = file[f]
  BY <1>0, <1>3, <1>4, <1>5
<1>9. SetupExact'
  <2>1. \/ Record(cur)' = Unset /\ ops' = <<>>
        \/ Record(cur)' # Unset /\ Noted(Record(cur)', ops')
    <3>1. Record(cur)' = Record(cur)
      BY <1>3 DEF Record
    <3>2. ops # <<>>
      BY <1>1
    <3> QED  BY <1>0, <1>6, <3>1, <3>2 DEF SetupExact, Noted, Alike
  <2>2. Plain(ops')
    BY <1>0, <1>6 DEF SetupExact, Plain
  <2>3. \A j \in DOMAIN ops' : ops'[j].done => j > mark /\ file'[ops'[j].file] = ops'[j].pre
    <3> SUFFICES ASSUME NEW j \in DOMAIN ops, ops'[j].done
                 PROVE  j > mark /\ file'[ops[j].file] = ops[j].pre
      BY <1>6
    <3>1. CASE j = i
      BY <1>2, <1>8, <3>1
    <3>2. CASE j # i
      <4>1. ops[j].done /\ ops[j].file # g /\ ops[j].file \in File
        BY <1>0, <1>6, <1>7, <3>2, OpAt
      <4> QED  BY <1>0, <1>8, <4>1 DEF SetupExact
    <3> QED  BY <3>1, <3>2
  <2>4. \A j \in DOMAIN ops' : ~ops'[j].done => file'[ops'[j].file] = ops'[j].exp
    <3> SUFFICES ASSUME NEW j \in DOMAIN ops, ~ops'[j].done
                 PROVE  file'[ops[j].file] = ops[j].exp
      BY <1>6
    <3>1. ~ops[j].done /\ ops[j].file # g /\ ops[j].file \in File
      BY <1>0, <1>6, <1>7, OpAt
    <3> QED  BY <1>0, <1>8, <3>1 DEF SetupExact
  <2>5. mark' < Len(ops')
    BY <1>0, <1>3, <1>6 DEF SetupExact
  <2> QED  BY <1>0, <1>3, <2>1, <2>2, <2>3, <2>4, <2>5 DEF SetupExact
<1>10. ASSUME NEW j \in DOMAIN ops
       PROVE  /\ Fits(ops'[j], FALSE, file'[ops[j].file])
              /\ Stands(Disk, cur, ops[j].file, ops[j].pre, orig[ops[j].file])
  <2>1. /\ Fits(ops[j], FALSE, file[ops[j].file]) /\ ops[j].file \in File
        /\ Stands(Disk, cur, ops[j].file, ops[j].pre, orig[ops[j].file])
    BY <1>0, SetupFacts
  <2>2. CASE j = i
    BY <1>6, <1>8, <2>1, <2>2 DEF Fits
  <2>3. CASE j # i
    BY <1>6, <1>7, <1>8, <2>1, <2>3
  <2> QED  BY <2>1, <2>2, <2>3
<1>11. \A j \in DOMAIN ops' : /\ Fits(ops'[j], FALSE, file'[ops'[j].file])
                              /\ Stands(Disk, cur, ops'[j].file, ops'[j].pre, orig[ops'[j].file])
  BY <1>6, <1>10
<1>12. \A f \in File : (\A j \in DOMAIN ops' : ops'[j].file # f) => Stands(Disk, cur, f, file'[f], orig[f])
  <2>1. \A f \in File : (\A j \in DOMAIN ops' : ops'[j].file # f) => (\A j \in DOMAIN ops : ops[j].file # f) /\ f # g
    BY <1>1, <1>6
  <2> QED  BY <1>0, <1>8, <2>1, SetupFacts
<1> QED  BY <1>0, <1>3, <1>9, <1>11, <1>12, SetupStep

\* ... each of them once.
LEMMA LeftOnce ==
  ASSUME NEW o \in Seq(Op), Plain(o)
  PROVE  Plain(Left(o))
<1> DEFINE kept == {i \in DOMAIN o : ~o[i].done}
           nth(n) == CHOOSE i \in kept : Cardinality(UpTo(kept, i)) = n
<1>1. Len(o) \in Nat /\ kept \in SUBSET (1..Len(o)) /\ \A i \in kept : i \in DOMAIN o
  BY LenProperties
<1>2. Left(o) = [n \in 1..Cardinality(kept) |-> o[nth(n)]]
  BY DEF Left, UpTo
<1> HIDE DEF kept
<1>3. \A n \in 1..Cardinality(kept) : nth(n) \in kept /\ Cardinality(UpTo(kept, nth(n))) = n
  <2>1. \A n \in 1..Cardinality(kept) : \E i \in kept : Cardinality(UpTo(kept, i)) = n
    BY <1>1, NthPosition
  <2> QED  BY <2>1
<1> HIDE DEF nth
<1>4. ASSUME NEW m \in DOMAIN Left(o), NEW n \in DOMAIN Left(o), Left(o)[m].file = Left(o)[n].file
      PROVE  m = n
  <2>1. /\ m \in 1..Cardinality(kept) /\ n \in 1..Cardinality(kept)
        /\ Left(o)[m] = o[nth(m)] /\ Left(o)[n] = o[nth(n)]
    BY <1>2, <1>4
  <2>2. nth(m) \in DOMAIN o /\ nth(n) \in DOMAIN o /\ o[nth(m)].file = o[nth(n)].file
    BY <1>1, <1>3, <1>4, <2>1
  <2>3. nth(m) = nth(n)
    BY <2>2 DEF Plain
  <2> QED  BY <1>3, <2>1, <2>3
<1>5. \A n \in DOMAIN Left(o) : Left(o)[n].kind = "create" => Left(o)[n].pre = Absent
  BY LeftIsPart DEF Plain
<1> QED  BY <1>4, <1>5 DEF Plain

\* What a failed adapter did is undone when restoreSince drops it.
LEMMA UndoEndsExact ==
  ASSUME Full, Full', Exact, UndoEnds
  PROVE  Exact'
<1>0. /\ Inv /\ cur \in Tx /\ ops \in Seq(Op) /\ pc = "undo" /\ pc \in Setup /\ SetupExact
      /\ NextUndo = {} /\ mark \in Nat /\ manifest[cur] = Unset
      /\ journal \in [Tx -> {Unset} \cup Seq(Op)]
  BY DEF Full, Names, MemoryInv, Inv, PcInv, TypeOK, Setup, UndoEnds, Exact
<1>1. /\ pc' = "open" /\ pc' \in Setup /\ ops' = Left(ops) /\ journal' = [journal EXCEPT ![cur] = ops']
      /\ UNCHANGED <<file, manifest, cur, orig>>
  BY DEF UndoEnds, Setup
<1>2. /\ ops' \in Seq(Op)
      /\ \A n \in DOMAIN ops' : \E i \in DOMAIN ops : ops'[n] = ops[i] /\ ~ops[i].done
  BY <1>0, <1>1, LeftIsPart
<1>3. /\ journal'[cur] = ops' /\ journal'[cur] # Unset
      /\ \A u \in Tx : u # cur => journal'[u] = journal[u] /\ manifest'[u] = manifest[u]
  BY <1>0, <1>1, <1>2, UnsetIsNothing
<1>4. SetupExact'
  <2>1. Record(cur)' = ops' /\ Record(cur)' # Unset
    BY <1>0, <1>1, <1>3 DEF Record
  <2>2. Plain(ops')
    BY <1>0, <1>1, LeftOnce DEF SetupExact
  <2>3. \A n \in DOMAIN ops' : ~ops'[n].done /\ file'[ops'[n].file] = ops'[n].exp
    <3> SUFFICES ASSUME NEW n \in DOMAIN ops'
                 PROVE  ~ops'[n].done /\ file'[ops'[n].file] = ops'[n].exp
      OBVIOUS
    <3>1. PICK i \in DOMAIN ops : ops'[n] = ops[i] /\ ~ops[i].done
      BY <1>2
    <3> QED  BY <1>0, <1>1, <3>1 DEF SetupExact
  <2>4. Noted(Record(cur)', ops')
    BY <2>1, <2>3 DEF Noted, Alike
  <2> QED  BY <1>1, <2>1, <2>2, <2>3, <2>4 DEF SetupExact
<1>5. ASSUME NEW n \in DOMAIN ops'
      PROVE  /\ Fits(ops'[n], FALSE, file'[ops'[n].file])
             /\ Stands(Disk, cur, ops'[n].file, ops'[n].pre, orig[ops'[n].file])
  <2>1. PICK i \in DOMAIN ops : ops'[n] = ops[i]
    BY <1>2
  <2> QED  BY <1>0, <1>1, <2>1, SetupFacts
<1>6. ASSUME NEW f \in File, \A n \in DOMAIN ops' : ops'[n].file # f
      PROVE  Stands(Disk, cur, f, file'[f], orig[f])
  <2>1. CASE \A i \in DOMAIN ops : ops[i].file # f
    BY <1>0, <1>1, <2>1, SetupFacts
  <2>2. ASSUME NEW i \in DOMAIN ops, ops[i].file = f
        PROVE  Stands(Disk, cur, f, file'[f], orig[f])
    <3>1. ops[i].done
      BY <1>0, <1>1, <1>6, <2>2, LeftIsAll
    <3>2. file[f] = ops[i].pre
      BY <1>0, <2>2, <3>1 DEF SetupExact
    <3> QED  BY <1>0, <1>1, <2>2, <3>2, SetupFacts
  <2> QED  BY <2>1, <2>2
<1> QED  BY <1>0, <1>1, <1>3, <1>4, <1>5, <1>6, SetupStep

\* The manifest names what finish finds in the files.
LEMMA FinishExact ==
  ASSUME Full, Full', Exact, Finish
  PROVE  Exact'
<1>0. /\ Inv /\ TypeOK /\ cur \in Tx /\ cur = started /\ ops \in Seq(Op) /\ pc = "open" /\ pc \in Setup
      /\ SetupExact /\ manifest[cur] = Unset
      /\ journal \in [Tx -> {Unset} \cup Seq(Op)] /\ manifest \in [Tx -> {Unset} \cup Seq(Op)]
  BY DEF Full, Names, MemoryInv, Inv, PcInv, TypeOK, Setup, Finish, Exact
<1>1. /\ UNCHANGED <<file, cur, ops, orig>>
      /\ \A u \in Tx : u # cur => journal'[u] = journal[u] /\ manifest'[u] = manifest[u]
  BY <1>0 DEF Finish
<1>2. pc' \notin Setup /\ pc' # "rollback"
  BY DEF Finish, Setup
<1>3. NoneAfter(Disk, cur) /\ NoneAfter(Disk', cur)
  <2>1. \A t \in Tx : t > cur => Disk'[t] = Disk[t]
    BY <1>0, <1>1, DiskStays DEF Tx
  <2>2. NoneAfter(Disk, cur)
    BY <1>0, SetupFacts
  <2> QED  BY <2>1, <2>2 DEF NoneAfter, Held
<1>4. \A f \in File : \A v : Stands(Disk, cur, f, v, orig[f]) => Stands(Disk', cur, f, v, orig[f])
  <2>1. \A u \in Tx : u < cur => Disk[u] = Disk'[u]
    BY <1>0, <1>1, DiskStays DEF Tx
  <2> QED  BY <2>1, StandsBelow
<1>5. CASE ops = <<>>
  <2>1. Record(cur)' = Unset
    BY <1>0, <1>5 DEF Finish, Record
  <2>2. Based(Disk', cur, orig) /\ \A f : ~Held(Disk', cur, f)
    <3>1. Disk'[cur].rec = Unset
      BY <1>0, <1>1, <2>1, DiskIs
    <3> QED  BY <3>1 DEF Based, Held
  <2>3. ASSUME NEW f \in File
        PROVE  Stands(Disk', MaxTx + 1, f, file[f], orig[f])
    <3>1. Stands(Disk, cur, f, file[f], orig[f])
      BY <1>0, <1>5, SetupFacts
    <3>2. Stands(Disk', cur, f, file[f], orig[f])
      BY <1>4, <3>1
    <3> QED  BY <1>0, <1>3, <2>2, <3>2, TopIs
  <2> QED  BY <1>0, <1>1, <1>2, <1>3, <2>2, <2>3, BasedStays DEF Exact
<1>6. CASE ops # <<>>
  <2>1. manifest' = [manifest EXCEPT ![cur] = Final]
    BY <1>6 DEF Finish, Final
  <2>2. /\ Final \in Seq(Op) /\ DOMAIN Final = DOMAIN ops
        /\ \A i \in DOMAIN ops :
             /\ Final[i].file = ops[i].file /\ Final[i].kind = ops[i].kind
             /\ Final[i].pre = ops[i].pre /\ Final[i].older = ops[i].older
    BY <1>0, FinalIs
  <2>3. \A i \in DOMAIN ops : ~Final[i].done /\ (file[ops[i].file] = Absent \/ Final[i].post = file[ops[i].file])
    <3>1. ASSUME NEW i \in DOMAIN ops
          PROVE  ~Final[i].done /\ (file[ops[i].file] = Absent \/ Final[i].post = file[ops[i].file])
      <4>1. ops[i] \in Op /\ ~ops[i].done /\ file[ops[i].file] = ops[i].exp
        BY <1>0, OpAt DEF SetupExact
      <4> QED  BY <4>1 DEF Final, Op
    <3> QED  BY <3>1
  <2> HIDE DEF Final
  <2>4. manifest'[cur] = Final /\ Final # Unset
    BY <1>0, <2>1, <2>2, UnsetIsNothing
  <2>5. Disk'[cur].rec = Final /\ Disk'[cur].com = TRUE
    BY <1>0, <2>4, DiskIs DEF Record
  <2>6. Based(Disk', cur, orig)
    <3>1. Plain(Final)
      BY <1>0, <2>2 DEF SetupExact, Plain
    <3>2. \A i \in DOMAIN Final : Stands(Disk', cur, Final[i].file, Final[i].pre, orig[Final[i].file])
      BY <1>0, <1>4, <2>2, SetupFacts
    <3> QED  BY <2>5, <3>1, <3>2 DEF Based
  <2>7. \A i \in DOMAIN ops : HeldAs(Disk', cur, ops[i].file, file[ops[i].file])
    BY <2>2, <2>3, <2>4, <2>5 DEF HeldAs, Fits, Ours
  <2>8. \A f : Held(Disk', cur, f) <=> \E i \in DOMAIN ops : ops[i].file = f
    BY <2>2, <2>3, <2>4, <2>5 DEF Held
  <2>9. ASSUME NEW f \in File
        PROVE  Stands(Disk', MaxTx + 1, f, file[f], orig[f])
    <3>1. CASE \E i \in DOMAIN ops : ops[i].file = f
      <4>1. Held(Disk', cur, f) /\ HeldAs(Disk', cur, f, file[f])
        BY <2>7, <2>8, <3>1
      <4> QED  BY <1>0, <1>3, <4>1, TopIs
    <3>2. CASE \A i \in DOMAIN ops : ops[i].file # f
      <4>1. Stands(Disk', cur, f, file[f], orig[f])
        BY <1>0, <1>4, <3>2, SetupFacts
      <4> QED  BY <1>0, <1>3, <2>8, <3>2, <4>1, TopIs
    <3> QED  BY <3>1, <3>2
  <2> QED  BY <1>0, <1>1, <1>2, <1>3, <2>6, <2>9, BasedStays DEF Exact
<1> QED  BY <1>5, <1>6

\* The journal goes when the manifest is there.
LEMMA UnlinkExact ==
  ASSUME Full, Exact, FinishUnlinks
  PROVE  Exact'
<1>1. /\ pc = "committed" /\ pc' = "release" /\ journal' = [journal EXCEPT ![cur] = Unset]
      /\ UNCHANGED <<file, manifest, orig>>
      /\ manifest[cur] # Unset /\ cur \in Tx /\ journal \in [Tx -> {Unset} \cup Seq(Op)]
  BY DEF FinishUnlinks, Full, Names, MemoryInv, Inv, PcInv, TypeOK
<1>2. \A t \in Tx : Record(t)' = Record(t)
  BY <1>1 DEF Record
<1>3. Disk' = Disk
  BY <1>1, <1>2 DEF Disk
<1> QED  BY <1>1, <1>3 DEF Exact, Restored, Setup

(***************************************************************************)
(* Rollback.                                                               *)
(***************************************************************************)
\* What is still to be undone is listed.
LEMMA HeldListed ==
  ASSUME NEW t \in Tx, NEW f, Held(Disk, t, f)
  PROVE  Listed(t)
<1>1. Record(t) # Unset /\ ~Complete(Record(t))
  BY DiskIs DEF Held, Complete
<1> QED  BY <1>1 DEF Record, Listed

\* The newest transaction is rolled back: no later one holds a file.
LEMMA RollbackExactly ==
  ASSUME Full, Exact, Named = FALSE, NEW t \in Tx, NEW everything \in BOOLEAN, Rollback(t, everything)
  PROVE  Exact'
<1>1. /\ pc = "idle" /\ pc' = "rollback" /\ cur' = t /\ ops' = Record(t) /\ mark' = 1
      /\ UNCHANGED <<file, journal, manifest, orig>> /\ Listed(t) /\ \A u \in Tx : Listed(u) => u <= t
  BY DEF Rollback
<1>2. Record(t) # Unset /\ Record(t) \in Seq(Op)
  <2>1. Record(t) # Unset
    BY <1>1 DEF Listed, Record
  <2> QED  BY <2>1, RecordType DEF Full
<1>3. NoneAfter(Disk, t)
  <2>1. \A u \in Tx : u > t => ~(u <= t)
    BY DEF Tx
  <2> QED  BY <1>1, <2>1, HeldListed DEF NoneAfter
<1>4. Plain(Record(t))
  BY <1>2, DiskIs DEF Exact, Based
<1>5. \A i \in DOMAIN Record(t) : ~(i < 1)
  BY <1>2, LenProperties
<1>6. Disk' = Disk /\ Record(t)' = Record(t)
  BY <1>1, SameDisk
<1>7. RollbackExact'
  BY <1>1, <1>3, <1>4, <1>5, <1>6 DEF RollbackExact
<1>8. \A f \in File : Stands(Disk', MaxTx + 1, f, file'[f], orig'[f])
  BY <1>1, <1>6 DEF Exact, Restored
<1> QED  BY <1>1, <1>6, <1>7, <1>8 DEF Exact, Setup

\* The operation at hand finds its file as it left it.
LEMMA RollbackFacts ==
  ASSUME Full, Exact, RollbackOp, ~ops[mark].done
  PROVE  /\ mark \in DOMAIN ops /\ cur \in Tx /\ ops[mark] = Record(cur)[mark] /\ ops[mark].file \in File
         /\ ~Restored(ops[mark].file)
         /\ Fits(ops[mark], manifest[cur] # Unset, file[ops[mark].file])
<1> DEFINE f == ops[mark].file
<1>0. /\ Inv /\ pc = "rollback" /\ cur \in Tx /\ ops \in Seq(Op) /\ RollbackExact
      /\ mark \in Nat /\ mark >= 1 /\ mark <= Len(ops)
      /\ Record(cur) # Unset /\ Alike(Record(cur), ops)
  BY DEF Full, Names, MemoryInv, Inv, PcInv, TypeOK, RollbackOp, Exact
<1>1. mark \in DOMAIN ops /\ DOMAIN Record(cur) = DOMAIN ops
  BY <1>0, LenProperties DEF Alike
<1>2. ops[mark] = Record(cur)[mark] /\ f \in File
  BY <1>0, <1>1, OpAt DEF RollbackExact
<1>3. ~Restored(f)
  <2>1. \A i \in DOMAIN ops : i < mark => i # mark
    BY <1>0
  <2> QED  BY <1>0, <1>1, <2>1 DEF Restored, RollbackExact, Plain
<1>4. Held(Disk, cur, f)
  BY <1>0, <1>1, <1>2, DiskIs DEF Held
<1>5. HeldAs(Disk, cur, f, file[f])
  BY <1>0, <1>2, <1>3, <1>4, TopIs DEF Exact, RollbackExact
<1>6. PICK i \in DOMAIN Record(cur) : /\ Record(cur)[i].file = f
                                      /\ Fits(Record(cur)[i], manifest[cur] # Unset, file[f])
  BY <1>0, <1>5, DiskIs DEF HeldAs
<1>7. i = mark
  BY <1>0, <1>1, <1>6 DEF RollbackExact, Plain, Alike
<1> QED  BY <1>0, <1>1, <1>2, <1>3, <1>6, <1>7

\* Rolling back an operation leaves its file as it found it.
LEMMA RollbackOpExact ==
  ASSUME Full, Exact, RollbackOp
  PROVE  Exact'
<1> DEFINE f == ops[mark].file
           committed == manifest[cur] # Unset
<1>0. /\ Inv /\ pc = "rollback" /\ cur \in Tx /\ ops \in Seq(Op) /\ RollbackExact
      /\ mark \in Nat /\ mark >= 1 /\ mark <= Len(ops) /\ file \in [File -> OnDisk]
      /\ Record(cur) # Unset /\ Alike(Record(cur), ops)
  BY DEF Full, Names, MemoryInv, Inv, PcInv, TypeOK, RollbackOp, Exact
<1>1. mark \in DOMAIN ops /\ \A i \in DOMAIN ops : i \in Nat
  BY <1>0, LenProperties
<1>2. mark' = mark + 1 /\ UNCHANGED <<pc, journal, manifest, cur, orig>>
  BY DEF RollbackOp
<1>3. Disk' = Disk /\ orig' = orig /\ Record(cur)' = Record(cur)
  BY <1>2, SameDisk
<1>4. ops[mark] = Record(cur)[mark]
  BY <1>0, <1>1 DEF RollbackExact
<1>5. CASE ops[mark].done
  <2>1. UNCHANGED <<file, ops>>
    BY <1>5 DEF RollbackOp
  <2>2. \A i \in DOMAIN ops : (i < mark + 1 => i < mark \/ i = mark) /\ (i >= mark + 1 => i >= mark)
    BY <1>0, <1>1
  <2>3. RollbackExact'
    BY <1>0, <1>2, <1>3, <1>4, <1>5, <2>1, <2>2 DEF RollbackExact
  <2>4. \A g \in File : Restored(g) => Restored(g)'
    <3>1. \A i \in DOMAIN ops : i < mark => i < mark + 1
      BY <1>0, <1>1
    <3> QED  BY <1>0, <1>2, <1>3, <2>1, <3>1 DEF Restored
  <2> QED  BY <1>0, <1>2, <1>3, <2>1, <2>3, <2>4 DEF Exact, Setup
<1>6. CASE ~ops[mark].done
  <2>1. /\ f \in File /\ Fits(ops[mark], committed, file[f])
    BY <1>6, RollbackFacts
  <2>2. Undoes(ops[mark], committed) /\ AfterUndo(ops[mark], committed) = ops[mark].pre
    BY <1>0, <1>1, <2>1, FitsUndone DEF RollbackExact
  <2>3. file' = [file EXCEPT ![f] = ops[mark].pre] /\ ops' = [ops EXCEPT ![mark].done = TRUE]
    BY <1>6, <2>2 DEF RollbackOp
  <2>4. ops[mark] \in Op
    BY <1>0, <1>1, OpAt
  <2>5. /\ DOMAIN ops' = DOMAIN ops
        /\ \A j \in DOMAIN ops : /\ ops'[j].file = ops[j].file /\ ops'[j].pre = ops[j].pre
                                 /\ ops'[j].kind = ops[j].kind
                                 /\ j # mark => ops'[j] = ops[j]
        /\ ops'[mark].done
    BY <1>0, <1>1, <2>3, <2>4 DEF Op
  <2>6. file'[f] = ops[mark].pre /\ \A g \in File : g # f => file'[g] = file[g]
    BY <1>0, <2>1, <2>3
  <2>7. RollbackExact'
    <3>1. Plain(ops')
      BY <1>0, <2>5 DEF RollbackExact, Plain
    <3>2. ASSUME NEW i \in DOMAIN ops, i >= mark + 1
          PROVE  ops'[i] = Record(cur)[i]
      <4>1. i # mark /\ i >= mark
        BY <1>0, <1>1, <3>2
      <4> QED  BY <1>0, <2>5, <4>1 DEF RollbackExact
    <3>3. ASSUME NEW i \in DOMAIN ops, i < mark + 1
          PROVE  ops'[i].done /\ (~Record(cur)[i].done => file'[ops'[i].file] = ops'[i].pre)
      <4>1. CASE i = mark
        BY <2>5, <2>6, <4>1
      <4>2. CASE i # mark
        <5>1. i < mark /\ ops[i].file # f /\ ops[i].file \in File
          BY <1>0, <1>1, <3>3, <4>2, OpAt DEF RollbackExact, Plain
        <5> QED  BY <1>0, <2>5, <2>6, <4>2, <5>1 DEF RollbackExact
      <4> QED  BY <4>1, <4>2
    <3> QED  BY <1>0, <1>2, <1>3, <2>5, <3>1, <3>2, <3>3 DEF RollbackExact
  <2>8. \A g \in File : ~Restored(g)' => ~Restored(g) /\ g # f
    <3>1. \A i \in DOMAIN ops : i < mark => i < mark + 1
      BY <1>0, <1>1
    <3>2. \A g \in File : g = f => Restored(g)'
      <4>1. mark < mark + 1 /\ ~Record(cur)[mark].done
        BY <1>0, <1>4, <1>6
      <4> QED  BY <1>0, <1>1, <1>2, <1>3, <2>5, <4>1 DEF Restored
    <3>3. \A g \in File : Restored(g) => Restored(g)'
      BY <1>0, <1>2, <1>3, <2>5, <3>1 DEF Restored
    <3> QED  BY <3>2, <3>3
  <2>9. \A g \in File : ~Restored(g)' => Stands(Disk', MaxTx + 1, g, file'[g], orig'[g])
    BY <1>3, <2>6, <2>8 DEF Exact
  <2> QED  BY <1>0, <1>2, <1>3, <2>7, <2>9 DEF Exact, Setup
<1> QED  BY <1>5, <1>6

\* The marks are saved: what was restored is no longer held.
LEMMA RollbackSavesExact ==
  ASSUME Full, Full', Exact, RollbackSaves
  PROVE  Exact'
<1> DEFINE rest == {t \in 1..(cur - 1) : Listed(t)}
           next == CHOOSE t \in rest : \A u \in rest : u <= t
<1>0. /\ Inv /\ pc = "rollback" /\ cur \in Tx /\ ops \in Seq(Op) /\ RollbackExact
      /\ mark \in Nat /\ mark > Len(ops)
      /\ Record(cur) # Unset /\ Alike(Record(cur), ops) /\ cur \in Nat /\ \A t \in Tx : t \in Nat
      /\ journal \in [Tx -> {Unset} \cup Seq(Op)] /\ manifest \in [Tx -> {Unset} \cup Seq(Op)]
      /\ ops # Unset
  <2>1. /\ Inv /\ pc = "rollback" /\ cur \in Tx /\ ops \in Seq(Op) /\ mark \in Nat /\ mark > Len(ops)
        /\ journal \in [Tx -> {Unset} \cup Seq(Op)] /\ manifest \in [Tx -> {Unset} \cup Seq(Op)]
    BY DEF Full, Inv, PcInv, TypeOK, RollbackSaves
  <2>2. RollbackExact /\ Record(cur) # Unset /\ Alike(Record(cur), ops)
    BY <2>1 DEF Full, Names, MemoryInv, Exact
  <2>3. \A t \in Tx : t \in Nat
    BY SetupConstants DEF Tx
  <2> QED  BY <2>1, <2>2, <2>3, UnsetIsNothing
<1>1. \A i \in DOMAIN ops : i < mark
  BY <1>0, LenProperties
<1>2. \A i \in DOMAIN ops : ops[i].done /\ (~Record(cur)[i].done => file[ops[i].file] = ops[i].pre)
  BY <1>0, <1>1 DEF RollbackExact
<1>3. /\ UNCHANGED <<file, orig>>
      /\ \A u \in Tx : u # cur => journal'[u] = journal[u] /\ manifest'[u] = manifest[u]
  BY <1>0 DEF RollbackSaves
<1>4. ASSUME NEW t, t = cur
      PROVE  Disk'[t].rec = ops
  <2>1. \/ manifest[t] # Unset /\ manifest'[t] = ops
        \/ manifest[t] = Unset /\ manifest'[t] = Unset /\ journal'[t] = ops
    BY <1>0, <1>4 DEF RollbackSaves
  <2> QED  BY <1>0, <1>4, <2>1, DiskIs DEF Record
<1>5. Disk'[cur].rec = ops
  BY <1>4
<1>6. Based(Disk', cur, orig) /\ \A f : ~Held(Disk', cur, f)
  BY <1>0, <1>2, <1>5 DEF Based, Held, RollbackExact
<1>7. NoneAfter(Disk, cur) /\ NoneAfter(Disk', cur)
  <2>1. \A t \in Tx : t > cur => Disk'[t] = Disk[t]
    BY <1>0, <1>3, DiskStays
  <2> QED  BY <1>0, <2>1 DEF NoneAfter, Held, RollbackExact
<1>8. \A u \in Tx : Based(Disk', u, orig')
  BY <1>0, <1>3, <1>6, <1>7, BasedStays DEF Exact
<1>9. ASSUME NEW f \in File
      PROVE  Stands(Disk', MaxTx + 1, f, file[f], orig[f])
  <2>1. Stands(Disk, cur, f, file[f], orig[f])
    <3>1. CASE Held(Disk, cur, f)
      <4>1. PICK i \in DOMAIN Record(cur) : Record(cur)[i].file = f /\ ~Record(cur)[i].done
        BY <1>0, <3>1, DiskIs DEF Held
      <4>2. i \in DOMAIN ops /\ ops[i].file = f /\ ops[i].pre = Record(cur)[i].pre
        BY <1>0, <4>1 DEF Alike
      <4>3. Stands(Disk, cur, f, Record(cur)[i].pre, orig[f])
        BY <1>0, <4>1, DiskIs DEF Exact, Based
      <4> QED  BY <1>2, <4>1, <4>2, <4>3
    <3>2. CASE ~Held(Disk, cur, f)
      <4>1. ~Restored(f)
        BY <1>0, <3>2, DiskIs DEF Restored, Held, Alike
      <4>2. Stands(Disk, MaxTx + 1, f, file[f], orig[f])
        BY <4>1 DEF Exact
      <4> QED  BY <1>0, <1>7, <3>2, <4>2, TopIs
    <3> QED  BY <3>1, <3>2
  <2>2. \A u \in Tx : u < cur => Disk[u] = Disk'[u]
    BY <1>0, <1>3, DiskStays
  <2>3. Stands(Disk', cur, f, file[f], orig[f])
    BY <2>1, <2>2, StandsBelow
  <2> QED  BY <1>0, <1>6, <1>7, <2>3, TopIs
<1>10. pc' \notin Setup
  BY <1>0 DEF RollbackSaves, Setup
<1>11. CASE rest = {}
  <2>1. pc' = "release"
    BY <1>11 DEF RollbackSaves
  <2> QED  BY <1>3, <1>8, <1>9, <1>10, <2>1 DEF Exact
<1>12. CASE rest # {}
  <2>1. pc' = "release" \/ (pc' = "rollback" /\ cur' = next /\ ops' = Record(next) /\ mark' = 1)
    BY <1>0, <1>12 DEF RollbackSaves
  <2>2. CASE pc' = "release"
    BY <1>3, <1>8, <1>9, <1>10, <2>2 DEF Exact
  <2>3. CASE pc' = "rollback" /\ cur' = next /\ ops' = Record(next) /\ mark' = 1
    <3>1. next \in Tx /\ next < cur /\ Record(next) # Unset
      BY <1>0, <1>12, NextListed
    <3>2. next \in rest /\ \A u \in rest : u <= next
      <4>1. rest \in SUBSET (0..cur)
        BY <1>0
      <4>2. \E t \in rest : \A u \in rest : u <= t
        BY <1>0, <1>12, <4>1, GreatestNumber
      <4> QED  BY <4>2
    <3> HIDE DEF next
    <3>3. next # cur /\ Disk'[next] = Disk[next]
      BY <1>0, <1>3, <3>1, DiskStays
    <3>4. Record(next) \in Seq(Op)
      BY <1>0, <3>1, RecordType
    <3>5. Record(cur)' = Record(next)
      BY <1>0, <1>3, <2>3, <3>1, <3>3, DiskIs DEF Record
    <3>6. NoneAfter(Disk', next)
      <4> SUFFICES ASSUME NEW u \in Tx, NEW f \in File, u > next, Held(Disk', u, f) PROVE FALSE
        BY DEF NoneAfter
      <4>1. u # cur /\ ~(u > cur)
        BY <1>6, <1>7 DEF NoneAfter
      <4>2. u < cur /\ u \in 1..(cur - 1)
        BY <1>0, <4>1 DEF Tx
      <4>3. Held(Disk, u, f)
        BY <1>3, <4>1, DiskStays DEF Held
      <4>4. u \in rest
        BY <4>2, <4>3, HeldListed
      <4>5. u <= next
        BY <3>2, <4>4
      <4> QED  BY <1>0, <3>1, <4>5
    <3>7. Plain(Record(next))
      BY <3>1, DiskIs DEF Exact, Based
    <3>8. \A i \in DOMAIN Record(next) : ~(i < 1)
      BY <3>4, LenProperties
    <3>9. RollbackExact'
      BY <2>3, <3>5, <3>6, <3>7, <3>8 DEF RollbackExact
    <3> QED  BY <1>3, <1>8, <1>9, <1>10, <3>9 DEF Exact
  <2> QED  BY <2>1, <2>2, <2>3
<1> QED  BY <1>11, <1>12

\* Every step that is not an edit keeps undoing exact.
LEMMA StepExact ==
  ASSUME "rollback" \notin CrashIn, Named = FALSE, Full, ExactInv, [Next]_vars
  PROVE  ExactInv'
<1> SUFFICES ASSUME edits' = 0 PROVE Exact'
  BY DEF ExactInv
<1>0. Full'
  BY StepNames
<1>1. edits = 0 /\ ~\E f \in File : UserEdits(f)
  <2>1. edits \in Nat
    BY SetupConstants DEF Full, Inv, TypeOK
  <2>2. ~\E f \in File : UserEdits(f)
    BY <2>1 DEF UserEdits
  <2>3. UNCHANGED edits
    BY <2>2 DEF Next, vars, Begin, Touch, Expect, Rename, Savepoint, AdapterFails, UndoOp, UndoEnds,
                Finish, FinishUnlinks, Release, Rollback, RollbackOp, RollbackSaves, Crash, RemoveLock
  <2> QED  BY <2>2, <2>3
<1>2. Exact
  BY <1>1 DEF ExactInv
<1>3. CASE UNCHANGED vars \/ RemoveLock
  BY <1>2, <1>3, SameExact DEF vars, RemoveLock
<1>4. CASE \E f \in File, k \in 1..MaxKit : Touch(f, k)
  BY <1>0, <1>2, <1>4, TouchExact
<1>5. CASE Begin \/ Savepoint \/ AdapterFails \/ Release \/ Crash
  BY <1>0, <1>2, <1>5, CalmExact
<1>6. CASE Expect \/ Rename \/ UndoOp \/ UndoEnds
  BY <1>0, <1>2, <1>6, ExpectExact, RenameExact, UndoOpExact, UndoEndsExact
<1>7. CASE Finish \/ FinishUnlinks
  BY <1>0, <1>2, <1>7, FinishExact, UnlinkExact
<1>8. CASE \E t \in Tx, everything \in BOOLEAN : Rollback(t, everything)
  BY <1>2, <1>8, RollbackExactly
<1>9. CASE RollbackOp \/ RollbackSaves
  BY <1>0, <1>2, <1>9, RollbackOpExact, RollbackSavesExact
<1> QED  BY <1>1, <1>3, <1>4, <1>5, <1>6, <1>7, <1>8, <1>9 DEF Next

\* Undoing is exact: for any number of files, transactions, failing adapters and
\* setups that die anywhere, as long as nobody else edits the files, they are
\* back to their original state once no transaction is left to undo.  Rollbacks
\* go from the newest transaction (or all of them) and do not die: by name, or
\* repeated after it died, a rollback can find a file as an older transaction
\* left it, and then restores what that one had overwritten.
THEOREM UndoRestores ==
  ASSUME "rollback" \notin CrashIn, Named = FALSE
  PROVE  Spec => []UndoIsExact
<1>1. Init => Full /\ ExactInv
  BY InitInv, InitNames, InitExact DEF Full, ExactInv
<1>2. Full /\ ExactInv /\ [Next]_vars => Full' /\ ExactInv'
  BY StepNames, StepExact
<1>3. Full /\ ExactInv => UndoIsExact
  <2> SUFFICES ASSUME Full, Exact, pc = "idle", \A t \in Tx : ~Listed(t) PROVE file = orig
    BY DEF UndoIsExact, ExactInv
  <2>1. \A t \in Tx : \A f : ~Held(Disk, t, f)
    BY HeldListed
  <2>2. \A t \in Tx : \A f, v : ~HeldAs(Disk, t, f, v)
    BY <2>1 DEF Held, HeldAs
  <2>3. \A f \in File : file[f] = orig[f]
    BY <2>1, <2>2 DEF Exact, Restored, Stands
  <2>4. file \in [File -> OnDisk] /\ orig \in [File -> OnDisk]
    BY DEF Full, Inv, TypeOK
  <2> QED  BY <2>3, <2>4
<1> QED  BY <1>1, <1>2, <1>3, PTL DEF Spec
=============================================================================
