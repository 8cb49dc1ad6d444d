------------------------------ MODULE RequestProofs ------------------------------
(***************************************************************************)
(* Proofs about the signing state that requests share, the off-peak path   *)
(* and the lock of the account store, as MCRequest composes them: for      *)
(* every set of requests, accounts and processes, and any bound on the     *)
(* retries, on the server's rotations and on the frames of an answer.      *)
(***************************************************************************)
EXTENDS MCRequest, TLAPS

\* A step of the composition is a step of each part or leaves it alone.
LEMMA EachPart ==
  [Next]_vars => [Signing!Next]_Signing!vars /\ [OffPeak!Next]_OffPeak!vars /\ [Store!Next]_Store!vars
BY DEF Next, vars, PathNext, SigningNext, AsyncNext, LockNext, pathVars, signingVars, asyncVars, lockVars,
       Signing!vars, Signing!routeVars, Signing!gateVars, Signing!keyVars, Signing!reqVars, OffPeak!vars, Store!vars

(***************************************************************************)
(* The lock: AccountStoreLock.                                             *)
(***************************************************************************)
\* Who holds the lock and was not robbed of it is the owner in the file.
Owns == \A p \in Proc : Store!Holding(p) /\ p \notin robbed => lock # {} /\ \A r \in lock : r.owner = p

\* Without robbery the snapshot that an update works on is what the store is.
Fresh == robbed = {} => applied \subseteq store /\ \A p \in Proc : step[p] = "write" => read[p] = store

LockInv == Store!TypeOK /\ Owns /\ Fresh

\* The invariant holds at first.
LEMMA LockInit == Store!Init => LockInv
BY DEF Store!Init, LockInv, Store!TypeOK, Owns, Fresh, Store!Step, Store!Holding

\* A step keeps the types.
LEMMA LockStepType ==
  ASSUME Store!TypeOK, [Store!Next]_Store!vars
  PROVE  Store!TypeOK'
<1> USE DEF Store!TypeOK
<1>1. CASE UNCHANGED Store!vars
  BY <1>1 DEF Store!vars
<1>2. ASSUME NEW p \in Proc, Store!Start(p) \/ Store!Moves(p) \/ Store!Dies(p)
      PROVE  Store!TypeOK'
  <2>1. CASE Store!Start(p)
    <3>1. \A to \in {"create", "unlock", "force"} : to \in Store!Step
      BY DEF Store!Step
    <3>2. step' \in [Proc -> Store!Step]
      BY <2>1, <3>1 DEF Store!Start, Store!Goes
    <3> QED  BY <2>1, <3>2 DEF Store!Start
  <2>2. ASSUME Store!Removes(p)
        PROVE  lock' = {} /\ robbed' \subseteq Proc
    BY <2>2 DEF Store!Removes
  <2>3. CASE Store!Look(p)
    <3>1. step' \in [Proc -> Store!Step]
      BY <2>3 DEF Store!Look, Store!Goes, Store!Step
    <3> QED  BY <2>3, <3>1 DEF Store!Look, Store!DeadOwner
  <2>4. CASE Store!Inspect(p)
    <3>1. step' \in [Proc -> Store!Step]
      BY <2>4 DEF Store!Inspect, Store!Goes, Store!Step
    <3> QED  BY <2>4, <3>1 DEF Store!Inspect, Store!DeadOwner
  <2>5. CASE Store!Recheck(p)
    <3>1. step' \in [Proc -> Store!Step]
      BY <2>5 DEF Store!Recheck, Store!Goes, Store!Step
    <3> QED  BY <2>5, <3>1 DEF Store!Recheck
  <2>6. CASE Store!RenameAway(p)
    <3>1. step' \in [Proc -> Store!Step]
      BY <2>6 DEF Store!RenameAway, Store!Goes, Store!Step
    <3> QED  BY <2>2, <2>6, <3>1 DEF Store!RenameAway
  <2>7. CASE Store!Create(p)
    <3>1. step' \in [Proc -> Store!Step]
      BY <2>7 DEF Store!Create, Store!Goes, Store!Step
    <3>2. lock' = {[owner |-> p, whole |-> FALSE]}
      BY <2>7 DEF Store!Create
    <3>3. [owner |-> p, whole |-> FALSE] \in Store!Record
      BY DEF Store!Record
    <3> QED  BY <2>7, <3>1, <3>2, <3>3 DEF Store!Create
  <2>8. CASE Store!Fill(p)
    <3>1. step' \in [Proc -> Store!Step]
      BY <2>8 DEF Store!Fill, Store!Goes, Store!Step
    <3>2. lock' = {[owner |-> p, whole |-> TRUE]} \/ lock' = lock
      BY <2>8 DEF Store!Fill
    <3>3. [owner |-> p, whole |-> TRUE] \in Store!Record
      BY DEF Store!Record
    <3> QED  BY <2>8, <3>1, <3>2, <3>3 DEF Store!Fill
  <2>9. CASE Store!FillFails(p) \/ Store!Exists(p)
    <3>1. step' \in [Proc -> Store!Step]
      BY <2>9 DEF Store!FillFails, Store!Exists, Store!Goes, Store!Step
    <3> QED  BY <2>9, <3>1 DEF Store!FillFails, Store!Exists
  <2>10. CASE Store!Forces(p)
    <3>1. step' \in [Proc -> Store!Step]
      BY <2>10 DEF Store!Forces, Store!Goes, Store!Step
    <3> QED  BY <2>2, <2>10, <3>1 DEF Store!Forces
  <2>11. CASE Store!Read(p) \/ Store!Write(p) \/ Store!Fails(p) \/ Store!Release(p)
    <3>1. step' \in [Proc -> Store!Step]
      BY <2>11 DEF Store!Read, Store!Write, Store!Fails, Store!Release, Store!Goes, Store!Step
    <3> QED  BY <2>11, <3>1 DEF Store!Read, Store!Write, Store!Fails, Store!Release
  <2>12. CASE Store!Unlink(p)
    <3>1. step' \in [Proc -> Store!Step]
      BY <2>12 DEF Store!Unlink, Store!Goes, Store!Step
    <3> QED  BY <2>2, <2>12, <3>1 DEF Store!Unlink
  <2>13. CASE Store!Dies(p)
    <3>1. step' \in [Proc -> Store!Step]
      BY <2>13 DEF Store!Dies, Store!Step
    <3> QED  BY <2>13, <3>1 DEF Store!Dies
  <2> QED
    BY <1>2, <2>1, <2>3, <2>4, <2>5, <2>6, <2>7, <2>8, <2>9, <2>10, <2>11, <2>12, <2>13
       DEF Store!Moves, Store!Recovers, Store!Acquires, Store!Updates
<1> QED  BY <1>1, <1>2 DEF Store!Next

(***************************************************************************)
(* Who holds the lock.                                                     *)
(***************************************************************************)
\* The name of the lock goes: other holders of it are robbed.
LEMMA RemovesOwns ==
  ASSUME Store!TypeOK, Owns, NEW p \in Proc, Store!Removes(p), ~Store!Holding(p)',
         \A q \in Proc : q # p => step'[q] = step[q]
  PROVE  Owns' /\ robbed \subseteq robbed'
<1>1. robbed \subseteq robbed'
  BY DEF Store!Removes
<1>2. ASSUME NEW q \in Proc, Store!Holding(q)', q \notin robbed'
      PROVE  FALSE
  <2>1. q # p /\ Store!Holding(q) /\ q \notin robbed
    BY <1>1, <1>2 DEF Store!Holding
  <2>2. lock # {} /\ \A r \in lock : r.owner = q
    BY <2>1 DEF Owns
  <2>3. ~Store!Dead(q)
    BY <2>1 DEF Store!Holding, Store!Dead
  <2>4. q \in robbed'
    BY <2>1, <2>2, <2>3 DEF Store!Removes
  <2> QED  BY <1>2, <2>4
<1>3. Owns'
  BY <1>2 DEF Owns, Store!Holding
<1> QED  BY <1>1, <1>3

\* A step that makes nobody a holder and leaves the lock alone.
LEMMA QuietOwns ==
  ASSUME Store!TypeOK, Owns, UNCHANGED <<lock, robbed>>, \A q \in Proc : Store!Holding(q)' => Store!Holding(q)
  PROVE  Owns'
BY DEF Owns

\* A step keeps holders the owners, and never forgets a robbery.
LEMMA LockStepOwns ==
  ASSUME Store!TypeOK, Owns, [Store!Next]_Store!vars
  PROVE  Owns' /\ robbed \subseteq robbed'
<1>1. CASE UNCHANGED Store!vars
  BY <1>1, QuietOwns DEF Store!vars, Store!Holding
<1>2. ASSUME NEW p \in Proc, Store!Start(p) \/ Store!Moves(p) \/ Store!Dies(p)
      PROVE  Owns' /\ robbed \subseteq robbed'
  <2>1. CASE \/ Store!Start(p) \/ Store!Look(p) \/ Store!Inspect(p) \/ Store!Recheck(p) \/ Store!FillFails(p) \/ Store!Exists(p)
             \/ Store!Read(p) \/ Store!Write(p) \/ Store!Fails(p) \/ Store!Release(p) \/ Store!Dies(p)
    <3>1. UNCHANGED <<lock, robbed>>
      BY <2>1 DEF Store!Start, Store!Look, Store!Inspect, Store!Recheck, Store!FillFails, Store!Exists, Store!Read, Store!Write, Store!Fails, Store!Release, Store!Dies
    <3>2. \A q \in Proc : q # p => step'[q] = step[q]
      BY <2>1 DEF Store!TypeOK, Store!Goes, Store!Start, Store!Look, Store!Inspect, Store!Recheck, Store!FillFails, Store!Exists, Store!Read, Store!Write, Store!Fails, Store!Release, Store!Dies
    <3>3. Store!Holding(p)' => Store!Holding(p)
      BY <2>1 DEF Store!TypeOK, Store!Holding, Store!Goes, Store!Start, Store!Look, Store!Inspect, Store!Recheck, Store!FillFails, Store!Exists, Store!Read, Store!Write, Store!Fails, Store!Release, Store!Dies
    <3>4. \A q \in Proc : Store!Holding(q)' => Store!Holding(q)
      BY <3>2, <3>3 DEF Store!Holding
    <3> QED  BY <3>1, <3>4, QuietOwns
  <2>2. CASE Store!RenameAway(p) \/ Store!Forces(p)
    <3>1. Store!Removes(p) /\ ~Store!Holding(p)' /\ \A q \in Proc : q # p => step'[q] = step[q]
      BY <2>2 DEF Store!TypeOK, Store!RenameAway, Store!Forces, Store!Goes, Store!Holding
    <3> QED  BY <3>1, RemovesOwns
  <2>3. CASE Store!Unlink(p)
    <3>1. ~Store!Holding(p)' /\ \A q \in Proc : q # p => step'[q] = step[q]
      BY <2>3 DEF Store!TypeOK, Store!Unlink, Store!Goes, Store!Holding
    <3>2. CASE Store!Removes(p)
      BY <3>1, <3>2, RemovesOwns
    <3>3. CASE UNCHANGED <<lock, robbed>>
      <4>1. \A q \in Proc : Store!Holding(q)' => Store!Holding(q)
        BY <3>1 DEF Store!Holding
      <4> QED  BY <3>3, <4>1, QuietOwns
    <3> QED  BY <2>3, <3>2, <3>3 DEF Store!Unlink
  <2>4. CASE Store!Create(p)
    <3>1. \A q \in Proc : q # p => step'[q] = step[q]
      BY <2>4 DEF Store!TypeOK, Store!Create, Store!Goes
    <3>2. \A q \in Proc : q # p /\ Store!Holding(q)' => q \in robbed
      BY <2>4, <3>1 DEF Store!Create, Owns, Store!Holding
    <3>3. lock' = {[owner |-> p, whole |-> FALSE]} /\ robbed' = robbed
      BY <2>4 DEF Store!Create
    <3> QED  BY <3>2, <3>3 DEF Owns
  <2>5. CASE Store!Fill(p)
    <3>1. \A q \in Proc : Store!Holding(q)' => Store!Holding(q)
      BY <2>5 DEF Store!TypeOK, Store!Fill, Store!Goes, Store!Holding
    <3>2. lock' = lock \/ ([owner |-> p, whole |-> FALSE] \in lock /\ lock' = {[owner |-> p, whole |-> TRUE]})
      BY <2>5 DEF Store!Fill
    <3>3. ASSUME NEW q \in Proc, lock # {}, \A r \in lock : r.owner = q
          PROVE  lock' # {} /\ \A r \in lock' : r.owner = q
      <4>1. CASE lock' = lock
        BY <3>3, <4>1
      <4>2. CASE [owner |-> p, whole |-> FALSE] \in lock /\ lock' = {[owner |-> p, whole |-> TRUE]}
        <5>1. [owner |-> p, whole |-> FALSE].owner = q
          BY <3>3, <4>2
        <5> QED  BY <4>2, <5>1
      <4> QED  BY <3>2, <4>1, <4>2
    <3>4. robbed' = robbed
      BY <2>5 DEF Store!Fill
    <3>5. ASSUME NEW q \in Proc, Store!Holding(q)', q \notin robbed'
          PROVE  lock' # {} /\ \A r \in lock' : r.owner = q
      <4>1. lock # {} /\ \A r \in lock : r.owner = q
        BY <3>1, <3>4, <3>5 DEF Owns
      <4> QED  BY <3>3, <4>1
    <3>6. Owns'
      BY <3>5, Zenon DEF Owns, Store!Holding
    <3> QED  BY <3>4, <3>6
  <2> QED
    BY <1>2, <2>1, <2>2, <2>3, <2>4, <2>5 DEF Store!Moves, Store!Recovers, Store!Acquires, Store!Updates
<1> QED  BY <1>1, <1>2 DEF Store!Next

\* Two who were not robbed would both be the owner.
LEMMA OwnerExcludes ==
  ASSUME Owns, NEW p \in Proc, NEW q \in Proc, Store!Holding(p), Store!Holding(q), p # q
  PROVE  p \in robbed \/ q \in robbed
BY DEF Owns

(***************************************************************************)
(* What an update has read is what it replaces.                            *)
(***************************************************************************)
\* A step keeps snapshots fresh and the store complete.
LEMMA LockStepFresh ==
  ASSUME Store!TypeOK, Owns, Fresh, [Store!Next]_Store!vars
  PROVE  Fresh'
<1>0. robbed \subseteq robbed'
  BY LockStepOwns
<1> SUFFICES ASSUME robbed' = {}
             PROVE  applied' \subseteq store' /\ \A q \in Proc : step'[q] = "write" => read'[q] = store'
  BY DEF Fresh
<1>1. applied \subseteq store /\ \A q \in Proc : step[q] = "write" => read[q] = store
  BY <1>0 DEF Fresh
<1>2. CASE UNCHANGED Store!vars
  BY <1>1, <1>2 DEF Store!vars
<1>3. ASSUME NEW p \in Proc, Store!Start(p) \/ Store!Moves(p) \/ Store!Dies(p)
      PROVE  applied' \subseteq store' /\ \A q \in Proc : step'[q] = "write" => read'[q] = store'
  <2>1. CASE Store!Write(p)
    <3>1. step[p] = "write" /\ step'[p] = "release" /\ \A q \in Proc : q # p => step'[q] = step[q]
      BY <2>1 DEF Store!TypeOK, Store!Write, Store!Goes
    <3>2. ASSUME NEW q \in Proc, q # p
          PROVE  step'[q] # "write"
      <4>1. Store!Holding(p) /\ p \notin robbed /\ q \notin robbed
        BY <1>0, <3>1 DEF Store!Holding
      <4>2. ~Store!Holding(q)
        BY <3>2, <4>1, OwnerExcludes
      <4> QED  BY <3>1, <3>2, <4>2 DEF Store!Holding
    <3>3. \A q \in Proc : step'[q] # "write"
      BY <3>1, <3>2
    <3>4. store' = store \cup {p} /\ applied' = applied \cup {p}
      BY <1>1, <2>1, <3>1 DEF Store!Write
    <3> QED  BY <1>1, <3>3, <3>4
  <2>2. CASE Store!Read(p)
    <3>1. \A q \in Proc : q # p => step'[q] = step[q] /\ read'[q] = read[q]
      BY <2>2 DEF Store!TypeOK, Store!Read, Store!Goes
    <3>2. read'[p] = store /\ UNCHANGED <<store, applied>>
      BY <2>2 DEF Store!TypeOK, Store!Read
    <3> QED  BY <1>1, <3>1, <3>2
  <2>3. CASE Store!Start(p) \/ Store!Recovers(p) \/ Store!Acquires(p) \/ Store!Forces(p) \/ Store!Fails(p) \/ Store!Release(p) \/ Store!Unlink(p) \/ Store!Dies(p)
    <3>1. UNCHANGED <<store, read, applied>>
      BY <2>3 DEF Store!Start, Store!Recovers, Store!Look, Store!Inspect, Store!Recheck, Store!RenameAway, Store!Acquires, Store!Create, Store!Fill, Store!FillFails, Store!Exists,
                  Store!Forces, Store!Fails, Store!Release, Store!Unlink, Store!Dies
    <3>2. \A q \in Proc : q # p => step'[q] = step[q]
      BY <2>3 DEF Store!TypeOK, Store!Goes, Store!Start, Store!Recovers, Store!Look, Store!Inspect, Store!Recheck, Store!RenameAway, Store!Acquires, Store!Create, Store!Fill, Store!FillFails,
                  Store!Exists, Store!Forces, Store!Fails, Store!Release, Store!Unlink, Store!Dies
    <3>3. step'[p] # "write"
      BY <2>3 DEF Store!TypeOK, Store!Goes, Store!Start, Store!Recovers, Store!Look, Store!Inspect, Store!Recheck, Store!RenameAway, Store!Acquires, Store!Create, Store!Fill, Store!FillFails,
                  Store!Exists, Store!Forces, Store!Fails, Store!Release, Store!Unlink, Store!Dies
    <3> QED  BY <1>1, <3>1, <3>2, <3>3
  <2> QED  BY <1>3, <2>1, <2>2, <2>3 DEF Store!Moves, Store!Updates
<1> QED  BY <1>2, <1>3 DEF Store!Next

(***************************************************************************)
(* While no live owner was robbed of the lock, updates of the account      *)
(* store exclude each other, and each that has replaced the store is kept  *)
(* by the later ones (acquireLock, recoverAccountStoreLock,                *)
(* unlockAccountStore, the updates and writeStore).                        *)
(***************************************************************************)
THEOREM LockTheorem == Spec => []LockProtects
<1>1. Init => LockInv
  BY LockInit DEF Init
<1>2. LockInv /\ [Next]_vars => LockInv'
  BY EachPart, LockStepType, LockStepOwns, LockStepFresh DEF LockInv
<1>3. LockInv => Store!OverlapMeansRobbed
  BY OwnerExcludes DEF LockInv, Store!OverlapMeansRobbed
<1>4. LockInv => Store!UpdatesKept
  BY DEF LockInv, Fresh, Store!UpdatesKept
<1>5. LockInv => LockProtects
  BY <1>3, <1>4 DEF LockProtects, Store!LockProtects
<1> QED  BY <1>1, <1>2, <1>5, PTL DEF Spec

(***************************************************************************)
(* The signing state: ClientSigning.  A key is the number of the handshake *)
(* it comes from, so that newer keys are greater.                          *)
(***************************************************************************)
Key == Nat \cup {None}
At  == {"new", "route", "sign", "gate", "key", "shake", "send", "done"}

SigningTypeOK ==
  /\ privKey \in Key /\ handshake \in Key /\ count \in Nat /\ epoch \in Nat
  /\ shakes \subseteq [n : Nat, epoch : Nat]
  /\ at \in [Request -> At] /\ round \in [Request -> 1..3]
  /\ awaits \in [Request -> Key] /\ key \in [Request -> Key] /\ rejected \in [Request -> Key]

\* Handshakes that run began by now, in this epoch or an earlier one.
Begun == \A h \in shakes : h.epoch <= epoch /\ h.n <= count

Newer(k, n) == k = None \/ k > n

\* Every key that a request may still come by once it was rejected: the cached one,
\* the one it waits for, the one it was sent with, and those of handshakes whose epoch
\* is not over, are of handshakes begun after the rejection.
Ahead(r) ==
  /\ rejected[r] \in Nat /\ rejected[r] <= count
  /\ Newer(privKey, rejected[r]) /\ Newer(handshake, rejected[r])
  /\ \A h \in shakes : h.epoch = epoch => h.n > rejected[r]
  /\ at[r] = "shake" => awaits[r] \in Nat /\ awaits[r] > rejected[r]
  /\ at[r] = "send" => Newer(key[r], rejected[r])
AfterRejection == \A r \in Request : round[r] = 2 => Ahead(r)

\* A request that was rejected twice goes out unsigned.
Unsigned(r) == at[r] \in {"send", "done"} /\ (at[r] = "send" => key[r] = None)
AfterBypass == \A r \in Request : round[r] = 3 => Unsigned(r)

SigningInv == SigningTypeOK /\ Begun /\ AfterRejection /\ AfterBypass

LEMMA SigningInit == Signing!Init => SigningInv
BY DEF Signing!Init, SigningInv, SigningTypeOK, Key, At, Begun, AfterRejection, AfterBypass

\* A request goes on to another place than "shake" and "send": nothing else changes.
LEMMA OnlyMoves ==
  ASSUME SigningInv, at' \in [Request -> At],
         \A r \in Request : at'[r] = at[r] \/ (at'[r] \notin {"shake", "send"} /\ (round[r] = 3 => at'[r] = "done")),
         UNCHANGED <<privKey, handshake, shakes, epoch, count, round, awaits, key, rejected>>
  PROVE  SigningInv'
BY DEF SigningInv, SigningTypeOK, Begun, AfterRejection, AfterBypass, Ahead, Unsigned, Newer

\* A request goes out unsigned.
LEMMA SendsUnsigned ==
  ASSUME SigningInv, NEW r \in Request, Signing!Sent(r, None),
         UNCHANGED <<privKey, handshake, shakes, epoch, count, round, awaits, rejected>>
  PROVE  SigningInv'
BY DEF SigningInv, SigningTypeOK, Begun, AfterRejection, AfterBypass, Ahead, Unsigned, Newer, Signing!Sent, Signing!Goes, At, Key

\* A request that is to be signed takes the cached key, or waits for a handshake.
LEMMA EnsuresKey ==
  ASSUME SigningInv, NEW r \in Request, at[r] \in {"sign", "key"}, Signing!EnsureKey(r), UNCHANGED <<round, rejected>>
  PROVE  SigningInv'
<1> USE DEF SigningInv, SigningTypeOK
<1>1. CASE privKey # None
  BY <1>1 DEF Begun, AfterRejection, AfterBypass, Ahead, Unsigned, Newer, Signing!EnsureKey, Signing!Sent, Signing!Goes, Signing!keyVars, At, Key
<1>2. CASE privKey = None /\ handshake # None
  BY <1>2 DEF Begun, AfterRejection, AfterBypass, Ahead, Unsigned, Newer, Signing!EnsureKey, Signing!Sent, Signing!Goes, Signing!keyVars, At, Key
<1>3. CASE privKey = None /\ handshake = None
  BY <1>3 DEF Begun, AfterRejection, AfterBypass, Ahead, Unsigned, Newer, Signing!EnsureKey, Signing!Sent, Signing!Goes, Signing!keyVars, At, Key
<1> QED  BY <1>1, <1>2, <1>3

LEMMA HandshakeEnds ==
  ASSUME SigningInv, NEW h \in shakes, Signing!HandshakeSucceeds(h) \/ Signing!HandshakeFails(h)
  PROVE  SigningInv'
<1> USE DEF SigningInv, SigningTypeOK, Begun, AfterRejection, AfterBypass, Ahead, Unsigned, Newer
<1>1. CASE Signing!HandshakeSucceeds(h)
  BY <1>1 DEF Signing!HandshakeSucceeds, Signing!Stale, At, Key
<1>2. CASE Signing!HandshakeFails(h)
  <2> DEFINE waiting == {r \in Request : at[r] = "shake" /\ awaits[r] = h.n}
  <2>1. /\ shakes' = shakes \ {h} /\ UNCHANGED <<count, round, awaits, rejected>>
        /\ at' = [r \in Request |-> IF r \in waiting THEN "send" ELSE at[r]]
        /\ key' = [r \in Request |-> IF r \in waiting THEN None ELSE key[r]]
    BY <1>2 DEF Signing!HandshakeFails
  <2>2. \/ epoch' = epoch + 1 /\ privKey' = None /\ handshake' = None
        \/ handshake' \in {None, handshake} /\ UNCHANGED <<epoch, privKey>>
    BY <1>2 DEF Signing!HandshakeFails, Signing!Invalidated
  <2>3. SigningTypeOK' /\ Begun'
    BY <2>1, <2>2 DEF At, Key
  <2>4. AfterRejection'
    BY <2>1, <2>2
  <2>5. AfterBypass'
    BY <2>1
  <2> QED  BY <2>3, <2>4, <2>5
<1> QED  BY <1>1, <1>2

LEMMA RejectedKeeps ==
  ASSUME SigningInv, NEW r \in Request, Signing!Rejected(r)
  PROVE  SigningInv'
<1> USE DEF SigningInv, SigningTypeOK
<1>1. at[r] = "send" /\ key[r] # None /\ round[r] \in {1, 2}
  BY DEF Signing!Rejected, Signing!Refused, AfterBypass, Unsigned
<1>2. /\ epoch' = epoch + 1 /\ privKey' = None /\ handshake' = None /\ round' = [round EXCEPT ![r] = @ + 1]
      /\ UNCHANGED <<shakes, count, awaits>>
  BY DEF Signing!Rejected, Signing!Invalidated
<1>3. \A h \in shakes : h.epoch # epoch'
  BY <1>2 DEF Begun
<1>4. CASE round[r] = 1
  <2>1. at' = [at EXCEPT ![r] = "sign"] /\ rejected' = [rejected EXCEPT ![r] = count] /\ UNCHANGED key
    BY <1>4 DEF Signing!Rejected, Signing!Goes
  <2>2. SigningTypeOK' /\ Begun'
    BY <1>2, <1>4, <2>1 DEF At, Key, Begun
  <2>3. AfterRejection'
    BY <1>2, <1>3, <1>4, <2>1 DEF AfterRejection, Ahead, Newer
  <2>4. AfterBypass'
    BY <1>2, <1>4, <2>1 DEF AfterBypass, Unsigned
  <2> QED  BY <2>2, <2>3, <2>4
<1>5. CASE round[r] = 2
  <2>1. at' = [at EXCEPT ![r] = "send"] /\ key' = [key EXCEPT ![r] = None] /\ UNCHANGED rejected
    BY <1>5 DEF Signing!Rejected, Signing!Sent, Signing!Goes
  <2>2. SigningTypeOK' /\ Begun'
    BY <1>2, <1>5, <2>1 DEF At, Key, Begun
  <2>3. AfterRejection'
    BY <1>2, <1>3, <1>5, <2>1 DEF AfterRejection, Ahead, Newer
  <2>4. AfterBypass'
    BY <1>2, <1>5, <2>1 DEF AfterBypass, Unsigned
  <2> QED  BY <2>2, <2>3, <2>4
<1> QED  BY <1>1, <1>4, <1>5

\* A step keeps the invariant.
LEMMA SigningStep ==
  ASSUME SigningInv, [Signing!Next]_Signing!vars
  PROVE  SigningInv'
<1>1. CASE UNCHANGED Signing!vars
  BY <1>1 DEF Signing!vars, Signing!keyVars, Signing!reqVars, SigningInv, SigningTypeOK, Begun, AfterRejection, AfterBypass, Ahead, Unsigned, Newer
<1>2. ASSUME NEW r \in Request, Signing!Resolve(r)
      PROVE  SigningInv'
  BY <1>2, OnlyMoves DEF SigningInv, SigningTypeOK, AfterBypass, Unsigned, Signing!Resolve, Signing!Goes, Signing!keyVars, At
<1>3. ASSUME NEW r \in Request, Signing!Sign(r)
      PROVE  SigningInv'
  <2>1. at[r] = "sign" /\ UNCHANGED <<round, rejected>>
    BY <1>3 DEF Signing!Sign
  <2>2. CASE Signing!EnsureKey(r)
    BY <2>1, <2>2, EnsuresKey
  <2>3. CASE Signing!Sent(r, None) /\ UNCHANGED <<Signing!keyVars, awaits>>
    BY <2>1, <2>3, SendsUnsigned DEF Signing!keyVars
  <2>4. CASE Signing!Goes(r, "gate") /\ UNCHANGED <<Signing!keyVars, awaits, key>>
    BY <2>1, <2>4, OnlyMoves DEF SigningInv, SigningTypeOK, AfterBypass, Unsigned, Signing!Goes, Signing!keyVars, At
  <2> QED  BY <1>3, <2>2, <2>3, <2>4 DEF Signing!Sign
<1>4. ASSUME NEW r \in Request, Signing!GateOn(r)
      PROVE  SigningInv'
  BY <1>4, EnsuresKey DEF Signing!GateOn
<1>5. ASSUME NEW r \in Request, Signing!Answered(r)
      PROVE  SigningInv'
  BY <1>5, OnlyMoves DEF SigningInv, SigningTypeOK, AfterBypass, Unsigned, Signing!Answered, Signing!Goes, Signing!keyVars, At
<1>6. CASE Signing!RefreshEnds
  BY <1>6, OnlyMoves DEF SigningInv, SigningTypeOK, AfterBypass, Unsigned, Signing!RefreshEnds, Signing!keyVars, At
<1>7. CASE Signing!ProbeEnds
  BY <1>7 DEF SigningInv, SigningTypeOK, Begun, AfterRejection, AfterBypass, Ahead, Unsigned, Newer, Signing!ProbeEnds, Signing!keyVars, At, Key
<1>8. CASE Signing!Rotates \/ Signing!Expires
  BY <1>8 DEF SigningInv, SigningTypeOK, Begun, AfterRejection, AfterBypass, Ahead, Unsigned, Newer, Signing!Rotates, Signing!Expires, Signing!keyVars, Signing!reqVars
<1> QED
  BY <1>1, <1>2, <1>3, <1>4, <1>5, <1>6, <1>7, <1>8, RejectedKeeps, HandshakeEnds DEF Signing!Next

\* Only a rejection gives signing up.
LEMMA OnlyRejection ==
  ASSUME SigningInv, [Signing!Next]_Signing!vars, ~bypass, bypass'
  PROVE  \E r \in Request : round[r] = 2 /\ round'[r] = 3 /\ key[r] > rejected[r]
<1>1. PICK r \in Request : Signing!Rejected(r)
  BY DEF Signing!Next, Signing!vars, Signing!keyVars, Signing!reqVars, Signing!Resolve, Signing!Sign, Signing!EnsureKey, Signing!GateOn, Signing!Answered,
         Signing!RefreshEnds, Signing!ProbeEnds, Signing!Rotates, Signing!Expires, Signing!HandshakeSucceeds, Signing!HandshakeFails
<1>2. at[r] = "send" /\ key[r] # None /\ round[r] # 1 /\ round' = [round EXCEPT ![r] = @ + 1]
  BY <1>1 DEF Signing!Rejected, Signing!Refused
<1>3. round[r] = 2
  BY <1>2 DEF SigningInv, SigningTypeOK, AfterBypass, Unsigned
<1> QED
  BY <1>2, <1>3 DEF SigningInv, SigningTypeOK, AfterRejection, Ahead, Newer

(***************************************************************************)
(* Signing is given up for good only on the word of a key that was asked   *)
(* for after the first rejection: no handshake begun before it, by         *)
(* whichever request, can supply the second one (sendWithClientSigning,    *)
(* ensurePrivateKey, performHandshake and invalidateState).                *)
(***************************************************************************)
THEOREM SigningTheorem == Spec => BypassIsEarned
<1>1. Init => SigningInv
  BY SigningInit DEF Init
<1>2. SigningInv /\ [Next]_vars => SigningInv'
  BY EachPart, SigningStep
<1>3. SigningInv /\ [Next]_vars
      => [~bypass /\ bypass' => \E r \in Request : round[r] = 2 /\ round'[r] = 3 /\ key[r] > rejected[r]]_Signing!vars
  BY EachPart, OnlyRejection
<1> QED  BY <1>1, <1>2, <1>3, PTL DEF Spec, BypassIsEarned, Signing!BypassIsEarned

(***************************************************************************)
(* The off-peak path: AsyncBridge.                                         *)
(***************************************************************************)
Phase == {"account", "take", "poll", "sleep", "last", "forward", "read", "retake", "closed"}
Frame == {"start", "text", "stop", "error"}

AsyncTypeOK ==
  /\ phase \in Phase /\ cur \in Nat /\ keep \in BOOLEAN
  /\ settles \in [OffPeak!Ticket -> Nat]
  /\ given \in Seq([ticket : Nat, frame : Frame])
  /\ partial \in {"none", "start", "text", "stop", "marker"}

\* Where there is a ticket, how many a request may have taken, and that later ones were
\* not touched.
TicketsInOrder ==
  /\ phase \in {"account", "take"} => cur = 0
  /\ phase \in {"poll", "sleep", "last", "forward", "read", "retake"} => cur > 0
  /\ cur <= MaxRetries + (IF phase = "retake" THEN 0 ELSE 1)
  /\ \A t \in OffPeak!Ticket : t > cur => settles[t] = 0
SettleInv == TicketsInOrder /\ TicketsSettled

\* Output begins with the answer of the ticket in use, whose frames come in order; an
\* error ends it, and only where the request ends.
GivenInOrder ==
  /\ phase \notin {"read", "closed"} => given = <<>>
  /\ keep => phase \in {"poll", "sleep", "last"}
  /\ \A i \in 1..Len(given) :
       /\ given[i].frame = "error" => i = Len(given) /\ phase = "closed"
       /\ given[i].frame # "error" => given[i].ticket = cur /\ (given[i].frame = "start" <=> i = 1)
       /\ given[i].frame = "stop" => i = Len(given) \/ given[i + 1].frame = "error"
\* What was received in part continues what was forwarded.
PartialFollows == phase = "read" /\ partial \notin {"none", "marker"} => OffPeak!Follows(partial)

AsyncInv == AsyncTypeOK /\ SettleInv /\ GivenInOrder /\ PartialFollows

LEMMA AsyncInit == OffPeak!Init => AsyncInv
<1> SUFFICES ASSUME OffPeak!Init
             PROVE  AsyncInv
  OBVIOUS
<1> USE DEF OffPeak!Init
<1>1. AsyncTypeOK
  <2>1. given \in Seq([ticket : Nat, frame : Frame])
    OBVIOUS
  <2>2. settles \in [OffPeak!Ticket -> Nat]
    OBVIOUS
  <2> QED  BY <2>1, <2>2 DEF AsyncTypeOK, Phase
<1>2. SettleInv
  BY RetriesAssumption DEF SettleInv, TicketsInOrder, TicketsSettled, OffPeak!TicketsSettled, OffPeak!Ticket
<1>3. GivenInOrder /\ PartialFollows
  BY DEF GivenInOrder, PartialFollows
<1> QED  BY <1>1, <1>2, <1>3 DEF AsyncInv

LEMMA ElementOfSeq ==
  ASSUME NEW S, NEW s \in Seq(S), NEW i \in 1..Len(s)
  PROVE  s[i] \in S
OBVIOUS

\* The ticket in use is settled once.
LEMMA SettlesTicket ==
  ASSUME AsyncTypeOK, SettleInv, phase \in {"poll", "sleep", "last", "forward", "read"}, OffPeak!Settled, cur' = cur,
         phase' \in {"closed", "retake"}, phase' = "retake" => cur <= MaxRetries
  PROVE  settles' \in [OffPeak!Ticket -> Nat] /\ SettleInv'
<1>1. cur \in OffPeak!Ticket /\ settles[cur] = 0
  BY RetriesAssumption DEF AsyncTypeOK, SettleInv, TicketsInOrder, TicketsSettled, OffPeak!TicketsSettled, OffPeak!Ticket
<1>2. settles' = [settles EXCEPT ![cur] = 1]
  BY <1>1 DEF OffPeak!Settled, AsyncTypeOK
<1>3. settles' \in [OffPeak!Ticket -> Nat]
  BY <1>1, <1>2 DEF AsyncTypeOK
<1>4. TicketsInOrder'
  BY <1>1, <1>2, RetriesAssumption DEF AsyncTypeOK, SettleInv, TicketsInOrder
<1>5. TicketsSettled'
  BY <1>1, <1>2, RetriesAssumption DEF AsyncTypeOK, SettleInv, TicketsInOrder, TicketsSettled, OffPeak!TicketsSettled, OffPeak!Ticket
<1> QED  BY <1>3, <1>4, <1>5 DEF SettleInv

\* The request ends, with or without an error told.
LEMMA Tells ==
  ASSUME AsyncTypeOK, GivenInOrder, OffPeak!Tells \/ UNCHANGED given, cur' = cur, phase # "closed", phase' = "closed", keep' = FALSE
  PROVE  given' \in Seq([ticket : Nat, frame : Frame]) /\ GivenInOrder'
<1>1. CASE UNCHANGED given
  BY <1>1 DEF AsyncTypeOK, GivenInOrder
<1>2. CASE given' = Append(given, OffPeak!ErrorFrame)
  <2>1. OffPeak!ErrorFrame \in [ticket : Nat, frame : Frame] /\ OffPeak!ErrorFrame.frame = "error"
    BY DEF OffPeak!ErrorFrame, Frame
  <2>2. /\ given' \in Seq([ticket : Nat, frame : Frame]) /\ Len(given') = Len(given) + 1 /\ given'[Len(given')].frame = "error"
        /\ \A i \in 1..Len(given) : given'[i] = given[i]
    BY <1>2, <2>1 DEF AsyncTypeOK
  <2>3. \A i \in 1..Len(given) : given[i].frame # "error"
    BY DEF GivenInOrder
  <2>4. Len(given) \in Nat
    BY DEF AsyncTypeOK
  <2>5. ASSUME NEW i \in 1..Len(given')
        PROVE  /\ given'[i].frame = "error" => i = Len(given')
               /\ given'[i].frame # "error" => given'[i].ticket = cur /\ (given'[i].frame = "start" <=> i = 1)
               /\ given'[i].frame = "stop" => i = Len(given') \/ given'[i + 1].frame = "error"
    <3>1. CASE i = Len(given')
      BY <2>2, <3>1
    <3>2. CASE i \in 1..Len(given)
      <4>1. given'[i] = given[i] /\ (given[i].frame = "stop" => i = Len(given))
        BY <2>2, <2>3, <2>4, <3>2 DEF GivenInOrder
      <4> QED  BY <2>2, <2>3, <2>4, <3>2, <4>1 DEF GivenInOrder
    <3> QED  BY <2>2, <2>4, <3>1, <3>2
  <2> QED  BY <2>2, <2>5 DEF GivenInOrder
<1> QED  BY <1>1, <1>2 DEF OffPeak!Tells

\* An end keeps the invariant.
LEMMA Ends ==
  ASSUME AsyncInv, phase \in {"poll", "sleep", "last", "forward", "read"}, OffPeak!EndsWell \/ OffPeak!EndsBadly,
         cur' = cur, partial' \in {"none", "start", "text", "stop", "marker"}
  PROVE  AsyncInv'
<1>1. OffPeak!Settled /\ phase' = "closed" /\ keep' = FALSE /\ (OffPeak!Tells \/ UNCHANGED given)
  BY DEF OffPeak!EndsWell, OffPeak!EndsBadly, OffPeak!Closes
<1>2. settles' \in [OffPeak!Ticket -> Nat] /\ SettleInv'
  BY <1>1, SettlesTicket DEF AsyncInv
<1>3. given' \in Seq([ticket : Nat, frame : Frame]) /\ GivenInOrder'
  BY <1>1, Tells DEF AsyncInv
<1> QED
  BY <1>1, <1>2, <1>3 DEF AsyncInv, AsyncTypeOK, PartialFollows, Phase

\* An expired ticket is replaced, or ends the request.
LEMMA Expires ==
  ASSUME AsyncInv, phase \in {"poll", "forward", "read"}, given = <<>>, NEW late \in BOOLEAN, OffPeak!Expired(late),
         cur' = cur, partial' \in {"none", "start", "text", "stop", "marker"}
  PROVE  AsyncInv'
<1>1. CASE OffPeak!EndsBadly
  BY <1>1, Ends
<1>2. CASE ~(late \/ cur > MaxRetries)
  <2>1. OffPeak!Settled /\ phase' = "retake" /\ keep' = FALSE /\ UNCHANGED given /\ cur <= MaxRetries
    BY <1>2, RetriesAssumption DEF OffPeak!Expired, AsyncInv, AsyncTypeOK
  <2>2. settles' \in [OffPeak!Ticket -> Nat] /\ SettleInv'
    BY <2>1, SettlesTicket DEF AsyncInv
  <2> QED
    BY ZenonT(30), <2>1, <2>2 DEF AsyncInv, AsyncTypeOK, GivenInOrder, PartialFollows, Phase
<1> QED  BY <1>1, <1>2 DEF OffPeak!Expired

\* The wait goes on, or the answer may be read.
LEMMA GoesOn ==
  ASSUME AsyncInv, phase \in {"poll", "sleep", "forward"}, phase' \in {"poll", "sleep", "last", "forward", "read"},
         keep' \in BOOLEAN, keep' => phase' \in {"poll", "sleep", "last"},
         partial' = partial \/ (partial' = "none"), phase' = "read" => partial' = "none", UNCHANGED <<cur, settles, given>>
  PROVE  AsyncInv'
BY DEF AsyncInv, AsyncTypeOK, SettleInv, TicketsInOrder, TicketsSettled, OffPeak!TicketsSettled, GivenInOrder, PartialFollows, Phase

\* A ticket is taken, unless the service refuses.
LEMMA TakesKeeps ==
  ASSUME AsyncInv, OffPeak!Takes
  PROVE  AsyncInv'
<1>1. phase \in {"take", "retake"} /\ partial' = partial
  BY DEF OffPeak!Takes
<1>2. cur + 1 \in OffPeak!Ticket /\ settles[cur + 1] = 0 /\ given = <<>>
  BY <1>1, RetriesAssumption DEF AsyncInv, AsyncTypeOK, SettleInv, TicketsInOrder, GivenInOrder, OffPeak!Ticket
<1>3. ASSUME NEW state \in {"queued", "ready"}, OffPeak!Enters(cur + 1, state), UNCHANGED given
      PROVE  AsyncInv'
  <2>1. cur' = cur + 1
    BY <1>3 DEF OffPeak!Enters
  <2>2. CASE settles' = [settles EXCEPT ![cur + 1] = 1] /\ OffPeak!Closes
    <3>1. AsyncTypeOK'
      <4>1. settles' \in [OffPeak!Ticket -> Nat]
        BY <1>2, <2>2 DEF AsyncInv, AsyncTypeOK
      <4>2. cur' \in Nat /\ phase' = "closed" /\ keep' = FALSE /\ UNCHANGED <<given, partial>>
        BY <1>1, <1>3, <2>1, <2>2 DEF AsyncInv, AsyncTypeOK, OffPeak!Closes
      <4> QED  BY <4>1, <4>2 DEF AsyncInv, AsyncTypeOK, Phase
    <3>4. GivenInOrder' /\ PartialFollows'
      BY <1>2, <1>3, <2>2 DEF GivenInOrder, PartialFollows, OffPeak!Closes
    <3>2. TicketsInOrder'
      BY <1>1, <1>2, <2>1, <2>2, RetriesAssumption DEF AsyncInv, AsyncTypeOK, SettleInv, TicketsInOrder, OffPeak!Closes
    <3>3. TicketsSettled'
      BY <1>1, <1>2, <2>1, <2>2, RetriesAssumption
         DEF AsyncInv, AsyncTypeOK, SettleInv, TicketsInOrder, TicketsSettled, OffPeak!TicketsSettled, OffPeak!Closes, OffPeak!Ticket
    <3> QED  BY <3>1, <3>2, <3>3, <3>4 DEF AsyncInv, SettleInv
  <2>3. CASE phase' = (IF state = "ready" THEN "forward" ELSE "poll") /\ keep' = (state # "ready") /\ UNCHANGED settles
    <3>1. AsyncTypeOK' /\ GivenInOrder' /\ PartialFollows'
      BY <1>1, <1>2, <1>3, <2>1, <2>3 DEF AsyncInv, AsyncTypeOK, GivenInOrder, PartialFollows, Phase
    <3>2. TicketsInOrder'
      BY <1>1, <1>2, <2>1, <2>3, RetriesAssumption DEF AsyncInv, AsyncTypeOK, SettleInv, TicketsInOrder
    <3>3. TicketsSettled'
      BY <1>1, <1>2, <2>1, <2>3, RetriesAssumption
         DEF AsyncInv, AsyncTypeOK, SettleInv, TicketsInOrder, TicketsSettled, OffPeak!TicketsSettled
    <3> QED  BY <3>1, <3>2, <3>3 DEF AsyncInv, SettleInv
  <2> QED  BY <1>3, <2>2, <2>3 DEF OffPeak!Enters
<1>4. CASE OffPeak!Closes /\ UNCHANGED <<cur, settles>> /\ (UNCHANGED given \/ OffPeak!Tells)
  <2>1. given' \in Seq([ticket : Nat, frame : Frame]) /\ GivenInOrder'
    BY <1>1, <1>4, Tells DEF AsyncInv, OffPeak!Closes
  <2>2. SettleInv'
    BY <1>1, <1>4, RetriesAssumption DEF AsyncInv, AsyncTypeOK, SettleInv, TicketsInOrder, TicketsSettled, OffPeak!TicketsSettled, OffPeak!Closes
  <2> QED  BY <1>1, <1>4, <2>1, <2>2 DEF AsyncInv, AsyncTypeOK, PartialFollows, OffPeak!Closes, Phase
<1> QED  BY <1>3, <1>4 DEF OffPeak!Takes

LEMMA PollKeeps ==
  ASSUME AsyncInv, OffPeak!Poll
  PROVE  AsyncInv'
<1>1. phase = "poll" /\ given = <<>> /\ UNCHANGED <<cur, partial>>
  BY DEF OffPeak!Poll, AsyncInv, GivenInOrder
<1>2. partial \in {"none", "start", "text", "stop", "marker"}
  BY DEF AsyncInv, AsyncTypeOK
<1>3. CASE OffPeak!EndsWell \/ OffPeak!EndsBadly
  BY <1>1, <1>2, <1>3, Ends
<1>4. CASE UNCHANGED <<phase, settles, given, keep>>
  BY <1>1, <1>4, GoesOn DEF AsyncInv, AsyncTypeOK, GivenInOrder
<1>5. CASE phase' = "forward" /\ keep' = FALSE /\ UNCHANGED <<settles, given>>
  BY <1>1, <1>5, GoesOn
<1>6. CASE phase' \in {"last", "sleep"} /\ UNCHANGED <<settles, given, keep>>
  BY <1>1, <1>6, GoesOn DEF AsyncInv, AsyncTypeOK, GivenInOrder
<1>7. ASSUME NEW late \in {FALSE, left = 0}, OffPeak!Expired(late)
      PROVE  AsyncInv'
  BY <1>1, <1>2, <1>7, Expires
<1> QED
  BY <1>3, <1>4, <1>5, <1>6, <1>7 DEF OffPeak!Poll

LEMMA ForwardKeeps ==
  ASSUME AsyncInv, OffPeak!Forward
  PROVE  AsyncInv'
<1>1. phase = "forward" /\ given = <<>> /\ cur' = cur
  BY DEF OffPeak!Forward, AsyncInv, GivenInOrder
<1>2. partial \in {"none", "start", "text", "stop", "marker"} /\ keep = FALSE
  BY <1>1 DEF AsyncInv, AsyncTypeOK, GivenInOrder
<1>3. CASE OffPeak!EndsBadly /\ UNCHANGED partial
  BY <1>1, <1>2, <1>3, Ends
<1>4. CASE OffPeak!Expired(FALSE) /\ UNCHANGED partial
  BY <1>1, <1>2, <1>4, Expires
<1>5. CASE phase' = "read" /\ partial' = "none" /\ UNCHANGED <<settles, given, keep>>
  BY <1>1, <1>2, <1>5, GoesOn
<1> QED  BY <1>3, <1>4, <1>5 DEF OffPeak!Forward

\* The marker of an expired ticket.
LEMMA MarkedKeeps ==
  ASSUME AsyncInv, phase = "read", OffPeak!Marked, cur' = cur, partial' \in {"none", "start", "text", "stop", "marker"}
  PROVE  AsyncInv'
<1>1. CASE given # <<>>
  BY <1>1, Ends DEF OffPeak!Marked, OffPeak!Committed
<1>2. CASE given = <<>>
  BY <1>2, Expires DEF OffPeak!Marked, OffPeak!Committed
<1> QED  BY <1>1, <1>2

\* A frame that follows is forwarded.
LEMMA CompletesKeeps ==
  ASSUME AsyncInv, phase = "read", NEW f \in {"start", "text", "stop", "marker"}, OffPeak!Follows(f), OffPeak!Completes(f),
         cur' = cur, partial' = "none"
  PROVE  AsyncInv'
<1>1. CASE f = "marker"
  BY <1>1, MarkedKeeps DEF OffPeak!Completes
<1>2. CASE f # "marker"
  <2> DEFINE new == [ticket |-> cur, frame |-> f]
  <2>1. given' = Append(given, new) /\ UNCHANGED <<phase, settles, keep>>
    BY <1>2 DEF OffPeak!Completes
  <2>2. new \in [ticket : Nat, frame : Frame] /\ new.frame = f /\ new.ticket = cur
    BY <1>2 DEF AsyncInv, AsyncTypeOK, Frame
  <2> HIDE DEF new
  <2>3. /\ given' \in Seq([ticket : Nat, frame : Frame]) /\ Len(given') = Len(given) + 1 /\ given'[Len(given')] = new
        /\ (\A i \in 1..Len(given) : given'[i] = given[i]) /\ Len(given) \in Nat
    BY <2>1, <2>2 DEF AsyncInv, AsyncTypeOK
  <2>4. \A i \in 1..Len(given) : given[i].frame # "error"
    BY DEF AsyncInv, GivenInOrder
  <2>5. f = "start" <=> Len(given) = 0
    <3>1. CASE given = <<>>
      BY <1>2, <3>1 DEF OffPeak!Follows
    <3>2. CASE given # <<>>
      <4>1. Len(given) \in 1..Len(given) /\ Len(given) # 0
        BY <3>2 DEF AsyncInv, AsyncTypeOK
      <4>2. given[Len(given)] \in [ticket : Nat, frame : Frame]
        BY <4>1, ElementOfSeq DEF AsyncInv, AsyncTypeOK
      <4>3. given[Len(given)].frame \in Frame
        BY <4>2
      <4> QED  BY <1>2, <3>2, <4>1, <4>3 DEF OffPeak!Follows, Frame
    <3> QED  BY <3>1, <3>2
  <2>6. Len(given) # 0 => given[Len(given)].frame # "stop"
    BY <1>2 DEF OffPeak!Follows, AsyncInv, AsyncTypeOK
  <2>7. ASSUME NEW i \in 1..Len(given')
        PROVE  /\ given'[i].frame # "error"
               /\ given'[i].ticket = cur /\ (given'[i].frame = "start" <=> i = 1)
               /\ given'[i].frame = "stop" => i = Len(given')
    <3>1. CASE i = Len(given')
      BY <1>2, <2>2, <2>3, <2>5, <3>1
    <3>2. CASE i \in 1..Len(given)
      <4>1. given'[i] = given[i] /\ (given[i].frame = "stop" => i = Len(given))
        BY <2>3, <2>4, <3>2 DEF AsyncInv, GivenInOrder
      <4> QED  BY <2>3, <2>4, <2>6, <3>2, <4>1 DEF AsyncInv, GivenInOrder
    <3> QED  BY <2>3, <3>1, <3>2
  <2>8. GivenInOrder'
    BY <2>1, <2>7 DEF AsyncInv, GivenInOrder
  <2>9. AsyncTypeOK' /\ PartialFollows'
    BY <2>1, <2>3 DEF AsyncInv, AsyncTypeOK, PartialFollows
  <2>10. SettleInv'
    BY <2>1 DEF AsyncInv, SettleInv, TicketsInOrder, TicketsSettled, OffPeak!TicketsSettled
  <2> QED  BY <2>8, <2>9, <2>10 DEF AsyncInv
<1> QED  BY <1>1, <1>2

LEMMA ReadKeeps ==
  ASSUME AsyncInv, OffPeak!Read
  PROVE  AsyncInv'
<1>1. phase = "read" /\ cur' = cur
  BY DEF OffPeak!Read
<1>2. partial \in {"none", "start", "text", "stop", "marker"}
  BY DEF AsyncInv, AsyncTypeOK
<1>3. ASSUME NEW f \in {"start", "text", "stop", "marker"}, partial = "none", OffPeak!Follows(f), OffPeak!Completes(f), UNCHANGED partial
      PROVE  AsyncInv'
  BY <1>1, <1>3, CompletesKeeps
<1>4. ASSUME NEW f \in {"start", "text", "stop", "marker"}, OffPeak!Follows(f), partial' = f, UNCHANGED <<phase, settles, given, keep>>
      PROVE  AsyncInv'
  BY <1>1, <1>4 DEF AsyncInv, AsyncTypeOK, SettleInv, TicketsInOrder, TicketsSettled, OffPeak!TicketsSettled, GivenInOrder, PartialFollows,
                    OffPeak!Follows
<1>5. CASE partial # "none" /\ OffPeak!Completes(partial) /\ partial' = "none"
  <2>1. partial \in {"start", "text", "stop", "marker"} /\ OffPeak!Follows(partial)
    BY <1>1, <1>2, <1>5 DEF AsyncInv, PartialFollows, OffPeak!Follows
  <2> QED  BY <1>1, <1>5, <2>1, CompletesKeeps
<1>6. CASE (OffPeak!EndsWell \/ OffPeak!EndsBadly) /\ UNCHANGED partial
  BY <1>1, <1>2, <1>6, Ends
<1>7. CASE OffPeak!Marked /\ UNCHANGED partial
  BY <1>1, <1>2, <1>7, MarkedKeeps
<1> QED
  BY <1>3, <1>4, <1>5, <1>6, <1>7 DEF OffPeak!Read

\* A step keeps the invariant.
LEMMA AsyncStep ==
  ASSUME AsyncInv, [OffPeak!Next]_OffPeak!vars
  PROVE  AsyncInv'
<1>1. CASE UNCHANGED <<phase, cur, settles, given, partial, keep>>
  BY <1>1 DEF AsyncInv, AsyncTypeOK, SettleInv, TicketsInOrder, TicketsSettled, OffPeak!TicketsSettled, GivenInOrder, PartialFollows,
              OffPeak!Follows
<1>2. CASE OffPeak!Preflight
  BY <1>2, RetriesAssumption DEF OffPeak!Preflight, AsyncInv, AsyncTypeOK, SettleInv, TicketsInOrder, TicketsSettled, OffPeak!TicketsSettled, GivenInOrder,
              PartialFollows, Phase
<1>3. CASE OffPeak!Sleep
  BY <1>3, GoesOn DEF OffPeak!Sleep, AsyncInv, AsyncTypeOK, GivenInOrder
<1>4. CASE OffPeak!LastSleep \/ OffPeak!Leaves
  BY <1>4, Ends DEF OffPeak!LastSleep, OffPeak!Leaves, AsyncInv, AsyncTypeOK
<1>5. CASE (\E connection \in BOOLEAN : OffPeak!ClientLeaves(connection)) \/ (\E t \in OffPeak!Ticket : OffPeak!Moves(t))
  BY <1>1, <1>5 DEF OffPeak!ClientLeaves, OffPeak!Moves
<1> QED
  BY <1>1, <1>2, <1>3, <1>4, <1>5, TakesKeeps, PollKeeps, ForwardKeeps, ReadKeeps DEF OffPeak!Next, OffPeak!Own, OffPeak!vars

LEMMA AsyncInductive == Spec => []AsyncInv
<1>1. Init => AsyncInv
  BY AsyncInit DEF Init
<1>2. AsyncInv /\ [Next]_vars => AsyncInv'
  BY EachPart, AsyncStep
<1> QED  BY <1>1, <1>2, PTL DEF Spec

(***************************************************************************)
(* Each ticket given up was settled once, whichever way the request ended, *)
(* and the one in use was not (settleOnce, runBridgeStream, waitForReady,  *)
(* forwardLLM).                                                            *)
(***************************************************************************)
THEOREM TicketsTheorem == Spec => []TicketsSettled
<1>1. AsyncInv => TicketsSettled
  BY DEF AsyncInv, SettleInv
<1> QED  BY <1>1, AsyncInductive, PTL

(***************************************************************************)
(* The client's answer is one: its output comes from one ticket, nothing   *)
(* follows an error, no keepalive falls between its frames, and a document *)
(* with a message has all of it (runBridgeStream, the frame splitter and   *)
(* reconstructAnthropicBatch).                                             *)
(***************************************************************************)
THEOREM AnswerTheorem == Spec => []AnswerIsOne
<1>1. AsyncInv => AnswerIsOne
  <2> SUFFICES ASSUME AsyncInv
               PROVE  AnswerIsOne
    OBVIOUS
  <2>1. \A i, j \in 1..Len(given) : {given[i].frame, given[j].frame} \cap {"error"} = {} => given[i].ticket = given[j].ticket
    BY DEF AsyncInv, GivenInOrder
  <2>2. OffPeak!Frames("error") \subseteq {Len(given)} /\ (keep => given = <<>>)
    BY DEF AsyncInv, GivenInOrder, OffPeak!Frames
  <2>3. ASSUME OffPeak!Message
        PROVE  given[1].frame = "start" /\ given[Len(given)].frame = "stop"
    <3>1. PICK i \in 1..Len(given) : given[i].frame = "start"
      BY <2>3 DEF OffPeak!Message, OffPeak!Frames
    <3>2. PICK j \in 1..Len(given) : given[j].frame = "stop"
      BY <2>3 DEF OffPeak!Message, OffPeak!Frames
    <3>3. \A k \in 1..Len(given) : given[k].frame # "error"
      BY <2>3 DEF OffPeak!Message, OffPeak!Frames
    <3>4. Len(given) \in Nat
      BY DEF AsyncInv, AsyncTypeOK
    <3>5. j = Len(given)
      BY <3>2, <3>3, <3>4 DEF AsyncInv, GivenInOrder
    <3> QED  BY <3>1, <3>2, <3>3, <3>5 DEF AsyncInv, GivenInOrder
  <2> QED  BY <2>1, <2>2, <2>3 DEF AnswerIsOne, OffPeak!AnswerIsOne
<1> QED  BY <1>1, AsyncInductive, PTL
=============================================================================
