--------------------------- MODULE AccountPoolProofs ---------------------------
(***************************************************************************)
(* Proofs about AccountPool for every number of accounts, credentials and  *)
(* requests, every schedule of retries and every number of CLI writes.     *)
(***************************************************************************)
EXTENDS AccountPool, TLAPS, FiniteSetTheorems, SequenceTheorems, WellFoundedInduction

Unique(s) == \A i, j \in DOMAIN s : s[i].id = s[j].id => i = j
Profiles(s) == s \in Seq(Profile) /\ Unique(s)

\* t has the accounts of s, in their order, with their credentials and pauses.
SameAccounts(s, t) ==
  /\ DOMAIN t = DOMAIN s
  /\ \A i \in DOMAIN s : t[i].id = s[i].id /\ t[i].cred = s[i].cred /\ t[i].paused = s[i].paused

(***************************************************************************)
(* Facts about numbers and sequences.                                      *)
(***************************************************************************)
LEMMA LaterType ==
  ASSUME NEW m \in Nat, NEW n \in Nat
  PROVE  Later(m, n) \in Nat /\ Later(m, n) >= m /\ Later(m, n) >= n
BY DEF Later

LEMMA ModRange ==
  ASSUME NEW m \in Nat, NEW n \in Nat \ {0}
  PROVE  (m % n) + 1 \in 1..n
<1>1. m % n \in 0..(n - 1)
  OBVIOUS
<1> QED  BY <1>1

LEMMA Chosen ==
  ASSUME NEW S, S # {}
  PROVE  (CHOOSE x \in S : TRUE) \in S
<1>1. \E x : x \in S
  OBVIOUS
<1> QED  BY <1>1

\* A function on 1..n is a sequence.
LEMMA FunctionSeq ==
  ASSUME NEW S, NEW n \in Nat, NEW f \in [1..n -> S]
  PROVE  f \in Seq(S) /\ Len(f) = n /\ DOMAIN f = 1..n
<1>1. f \in Seq(S)
  BY SeqDef
<1>2. DOMAIN f = 1..n
  OBVIOUS
<1>3. Len(f) \in Nat /\ DOMAIN f = 1..Len(f)
  BY <1>1, LenProperties
<1> QED  BY <1>1, <1>2, <1>3

\* A non-empty set of numbers has a least element.
LEMMA LeastNumber ==
  ASSUME NEW S \in SUBSET Nat, S # {}
  PROVE  \E x \in S : \A y \in S : x <= y
<1> DEFINE Less == {p \in Nat \X Nat : p[1] < p[2]}
<1>0. OpToRel(<, Nat) = Less
  BY Zenon DEF OpToRel
<1>1. IsWellFoundedOn(Less, Nat)
  BY NatLessThanWellFounded, <1>0, Zenon
<1>2. PICK x \in S : \A y \in S : <<y, x>> \notin Less
  BY <1>1, WFMin
<1>3. \A y \in S : ~(y < x)
  BY <1>2
<1> QED  BY <1>3

\* Each profile keeps its account, and the sequence its length, so the ids stay
\* unique.
LEMMA SameAccountsProfiles ==
  ASSUME NEW s, Profiles(s), NEW t, t \in [DOMAIN s -> Profile], SameAccounts(s, t)
  PROVE  Profiles(t)
<1>1. Len(s) \in Nat /\ DOMAIN s = 1..Len(s)
  BY LenProperties DEF Profiles
<1>2. t \in Seq(Profile)
  BY <1>1, FunctionSeq
<1> QED  BY <1>2 DEF Profiles, Unique, SameAccounts

(***************************************************************************)
(* What the operators of the rotator and the store return.                 *)
(***************************************************************************)

\* syncProfiles keeps what the store says of an account, and never lets a
\* generation go back.
LEMMA SyncedProfile ==
  ASSUME Profiles(pool), NEW p \in Profile
  PROVE  /\ Synced(p) \in Profile
         /\ Synced(p).id = p.id /\ Synced(p).cred = p.cred /\ Synced(p).paused = p.paused
         /\ \A i \in DOMAIN pool : pool[i].id = p.id => Synced(p).qg >= pool[i].qg
<1> DEFINE new == [p EXCEPT !.rev = Later(p.rev, 1)]
           prior == {pool[i] : i \in {k \in DOMAIN pool : pool[k].id = p.id}}
<1>1. new \in Profile /\ new.id = p.id /\ new.cred = p.cred /\ new.paused = p.paused
  BY LaterType DEF Profile
<1>2. DOMAIN pool = 1..Len(pool) /\ \A i \in DOMAIN pool : pool[i] \in Profile
  BY LenProperties, ElementOfSeq DEF Profiles
<1>3. CASE prior = {}
  <2>1. Synced(p) = new
    BY <1>3 DEF Synced
  <2> QED  BY <1>1, <2>1, <1>3
<1>4. CASE prior # {}
  <2> DEFINE q == CHOOSE q \in prior : TRUE
             Kept == [new EXCEPT !.rev = Later(q.rev, @), !.fg = Later(q.fg, @),
                        !.qg = Later(q.qg, @), !.until = Later(q.until, @),
                        !.failed = q.failed \/ @]
             Renewed == [new EXCEPT !.rev = Later(q.rev + 1, @), !.fg = Later(q.fg + 1, @),
                           !.qg = Later(q.qg + 1, @)]
  <2>1. q \in prior
    <3> HIDE DEF prior
    <3> QED  BY <1>4, Chosen
  <2>2. q \in Profile /\ \A i \in DOMAIN pool : pool[i].id = p.id => pool[i] = q
    BY <2>1, <1>2 DEF Profiles, Unique
  <2>3. Synced(p) = IF q.cred = p.cred THEN Kept ELSE Renewed
    BY <1>4 DEF Synced
  <2> HIDE DEF q, new
  <2>4. /\ Kept \in Profile
        /\ Kept.id = new.id /\ Kept.cred = new.cred /\ Kept.paused = new.paused
        /\ Kept.qg = Later(q.qg, new.qg)
    BY <1>1, <2>2, LaterType DEF Profile
  <2>5. /\ Renewed \in Profile
        /\ Renewed.id = new.id /\ Renewed.cred = new.cred /\ Renewed.paused = new.paused
        /\ Renewed.qg = Later(q.qg + 1, new.qg)
    <3>1. /\ Later(q.rev + 1, new.rev) \in Nat /\ Later(q.fg + 1, new.fg) \in Nat
          /\ Later(q.qg + 1, new.qg) \in Nat
      <4>1. new.rev \in Nat /\ new.fg \in Nat /\ new.qg \in Nat
        BY <1>1 DEF Profile
      <4>2. q.rev + 1 \in Nat /\ q.fg + 1 \in Nat /\ q.qg + 1 \in Nat
        BY <2>2 DEF Profile
      <4> QED  BY <4>1, <4>2, LaterType
    <3> QED  BY <1>1, <3>1 DEF Profile
  <2>6. Synced(p).qg >= q.qg
    BY <2>2, <2>3, <2>4, <2>5, <1>1, LaterType DEF Profile
  <2> QED  BY <1>1, <2>2, <2>3, <2>4, <2>5, <2>6
<1> QED  BY <1>3, <1>4

\* The pool after syncProfiles holds the accounts of the store.
LEMMA SyncedPool ==
  ASSUME Profiles(pool), active \in Account \cup {None}, cursor \in Nat,
         NEW s, Profiles(s), SyncProfiles(s)
  PROVE  /\ Profiles(pool') /\ active' \in Account \cup {None} /\ cursor' \in Nat
         /\ SameAccounts(s, pool')
         /\ \A i \in DOMAIN pool, j \in DOMAIN pool' :
               pool[i].id = pool'[j].id => pool'[j].qg >= pool[i].qg
<1>1. \A i \in DOMAIN s : s[i] \in Profile
  BY LenProperties, ElementOfSeq DEF Profiles
<1>2. pool' = [i \in DOMAIN s |-> Synced(s[i])]
  BY DEF SyncProfiles
<1>3. pool' \in [DOMAIN s -> Profile] /\ SameAccounts(s, pool')
  BY <1>1, <1>2, SyncedProfile DEF SameAccounts
<1>4. Profiles(pool')
  BY <1>3, SameAccountsProfiles
<1>5. ASSUME NEW i \in DOMAIN pool, NEW j \in DOMAIN pool', pool[i].id = pool'[j].id
      PROVE  pool'[j].qg >= pool[i].qg
  BY <1>1, <1>2, <1>3, <1>5, SyncedProfile DEF SameAccounts
<1>6. active' \in Account \cup {None} /\ cursor' \in Nat
  <2> DEFINE next == [i \in DOMAIN s |-> Synced(s[i])]
  <2>1. next = <<>> \/ Len(next) - 1 \in Nat
    BY <1>2, <1>4, LenProperties, EmptySeq DEF Profiles
  <2> HIDE DEF next
  <2>2. \/ active' = active /\ cursor' = cursor
        \/ active' = None /\ cursor' = IF next = <<>> THEN 0 ELSE Sooner(cursor, Len(next) - 1)
    BY DEF SyncProfiles, next
  <2> QED  BY <2>1, <2>2 DEF Sooner
<1> QED  BY <1>3, <1>4, <1>5, <1>6

\* A pass changes marks and numbers of a profile, and nothing the user decides.
LEMMA MergedProfile ==
  ASSUME Profiles(written), NEW p \in Profile
  PROVE  /\ Merged(p) \in Profile
         /\ Merged(p).id = p.id /\ Merged(p).cred = p.cred /\ Merged(p).paused = p.paused
<1> DEFINE own == {written[i] : i \in {k \in DOMAIN written : written[k].id = p.id}}
           q == CHOOSE q \in own : TRUE
           Marked == [p EXCEPT !.until = Later(@, q.until), !.failed = @ \/ q.failed,
                        !.fg = Later(@, q.fg), !.qg = Later(@, q.qg),
                        !.rev = IF @ = 0 THEN q.rev ELSE @]
<1>1. Merged(p) = p \/ (own # {} /\ Merged(p) = Marked)
  BY DEF Merged
<1>2. ASSUME own # {} PROVE q \in Profile
  <2>1. q \in own
    <3> HIDE DEF own
    <3> QED  BY <1>2, Chosen
  <2> QED  BY <2>1, LenProperties, ElementOfSeq DEF Profiles
<1> HIDE DEF q, own
<1>3. q \in Profile => /\ Marked \in Profile
                       /\ Marked.id = p.id /\ Marked.cred = p.cred /\ Marked.paused = p.paused
  BY LaterType DEF Profile
<1> QED  BY <1>1, <1>2, <1>3

LEMMA MergedStore ==
  ASSUME Profiles(written), NEW s, Profiles(s)
  PROVE  LET next == [i \in DOMAIN s |-> Merged(s[i])]
         IN Profiles(next) /\ SameAccounts(s, next)
<1> DEFINE next == [i \in DOMAIN s |-> Merged(s[i])]
<1>1. \A i \in DOMAIN s : s[i] \in Profile
  BY LenProperties, ElementOfSeq DEF Profiles
<1>2. next \in [DOMAIN s -> Profile] /\ SameAccounts(s, next)
  BY <1>1, MergedProfile DEF SameAccounts
<1> QED  BY <1>2, SameAccountsProfiles

\* An account is marked, or none.
LEMMA MarkedPool ==
  ASSUME Profiles(pool), active \in Account \cup {None}, cursor \in Nat,
         now \in Nat, NEW h, MarkExhausted(h)
  PROVE  /\ Profiles(pool') /\ active' \in Account \cup {None} /\ cursor' \in Nat
         /\ SameAccounts(pool, pool')
         /\ \A i \in DOMAIN pool :
               /\ pool'[i].qg >= pool[i].qg
               /\ SameHandle(pool[i], h) => pool'[i].qg > pool[i].qg
               /\ pool'[i] # pool[i] => SameHandle(pool[i], h)
<1>1. DOMAIN pool = 1..Len(pool) /\ Len(pool) \in Nat /\ \A i \in DOMAIN pool : pool[i] \in Profile
  BY LenProperties, ElementOfSeq DEF Profiles
<1>2. CASE ~\E i \in DOMAIN pool : SameHandle(pool[i], h)
  <2>1. UNCHANGED rotator
    BY <1>2 DEF MarkExhausted
  <2> QED  BY <1>1, <1>2, <2>1 DEF rotator, SameAccounts, Profile
<1>3. CASE \E i \in DOMAIN pool : SameHandle(pool[i], h)
  <2>1. PICK i \in DOMAIN pool, d \in Cooldown :
          /\ SameHandle(pool[i], h)
          /\ pool' = [pool EXCEPT ![i].until = Later(@, now + d), ![i].failed = TRUE,
                                  ![i].fg = @ + 1, ![i].qg = @ + 1]
          /\ IF active = h.id THEN active' = None /\ cursor' = i % Len(pool)
             ELSE UNCHANGED <<active, cursor>>
    BY <1>3 DEF MarkExhausted
  <2> DEFINE e == [pool[i] EXCEPT !.until = Later(@, now + d), !.failed = TRUE,
                                  !.fg = @ + 1, !.qg = @ + 1]
  <2>2. /\ e \in Profile /\ e.id = pool[i].id /\ e.cred = pool[i].cred
        /\ e.paused = pool[i].paused /\ e.qg = pool[i].qg + 1
    <3>1. /\ Later(pool[i].until, now + d) \in Nat
          /\ pool[i].fg + 1 \in Nat /\ pool[i].qg + 1 \in Nat
      <4>1. now + d \in Nat /\ pool[i].until \in Nat
        BY <1>1, PoolConstants DEF Profile, PoolConstants
      <4> QED  BY <1>1, <4>1, LaterType DEF Profile
    <3> QED  BY <1>1, <3>1 DEF Profile
  <2>3. pool' = [pool EXCEPT ![i] = e]
    BY <2>1
  <2> HIDE DEF e
  <2>4. pool' \in [DOMAIN pool -> Profile] /\ SameAccounts(pool, pool')
    BY <1>1, <2>2, <2>3 DEF SameAccounts
  <2>5. Profiles(pool')
    BY <2>4, SameAccountsProfiles
  <2>6. \A k \in DOMAIN pool : SameHandle(pool[k], h) => k = i
    BY <2>1 DEF SameHandle, Profiles, Unique
  <2>7. active' \in Account \cup {None} /\ cursor' \in Nat
    <3>1. i % Len(pool) \in Nat
      BY <1>1
    <3> QED  BY <2>1, <3>1
  <2>8. \A k \in DOMAIN pool : pool[k].qg \in Nat
    BY <1>1 DEF Profile
  <2> QED  BY <2>1, <2>2, <2>3, <2>4, <2>5, <2>6, <2>7, <2>8
<1> QED  BY <1>2, <1>3

\* A success clears the marks of an account that has the given handle.
LEMMA ClearedPool ==
  ASSUME Profiles(pool), NEW i \in DOMAIN pool, ClearFailure(i)
  PROVE  /\ Profiles(pool') /\ UNCHANGED <<active, cursor>>
         /\ SameAccounts(pool, pool')
         /\ \A k \in DOMAIN pool : pool'[k].qg = pool[k].qg /\ (pool'[k] # pool[k] => k = i)
<1>1. DOMAIN pool = 1..Len(pool) /\ \A k \in DOMAIN pool : pool[k] \in Profile
  BY LenProperties, ElementOfSeq DEF Profiles
<1> DEFINE e == [pool[i] EXCEPT !.until = 0, !.failed = FALSE, !.fg = @ + 1]
<1>2. /\ e \in Profile /\ e.id = pool[i].id /\ e.cred = pool[i].cred
      /\ e.paused = pool[i].paused /\ e.qg = pool[i].qg
  <2>1. pool[i].fg + 1 \in Nat
    BY <1>1 DEF Profile
  <2> QED  BY <1>1, <2>1 DEF Profile
<1>3. pool' = [pool EXCEPT ![i] = e]
  BY DEF ClearFailure
<1> HIDE DEF e
<1>4. pool' \in [DOMAIN pool -> Profile] /\ SameAccounts(pool, pool')
  BY <1>1, <1>2, <1>3 DEF SameAccounts
<1>5. Profiles(pool')
  BY <1>4, SameAccountsProfiles
<1> QED  BY <1>2, <1>3, <1>4, <1>5 DEF ClearFailure

\* A request takes an account of the pool.
LEMMA Chooses ==
  ASSUME Profiles(pool), cursor \in Nat, NEW excluded, NEW tried,
         Candidates(excluded, tried) # {}
  PROVE  LET i == Choice(Candidates(excluded, tried))
         IN i \in DOMAIN pool /\ Usable(pool[i])
<1> DEFINE S == Candidates(excluded, tried)
           At(o) == ((cursor + o) % Len(pool)) + 1
           sticky == {o \in S : pool[At(o)].id = active}
<1>1. Len(pool) \in Nat /\ DOMAIN pool = 1..Len(pool)
  BY LenProperties DEF Profiles
<1>2. S \in SUBSET Nat /\ \A o \in S : o \in 0..(Len(pool) - 1) /\ Usable(pool[At(o)])
  BY <1>1 DEF Candidates
<1>3. Len(pool) # 0
  BY <1>1, <1>2
<1>4. \A o \in S : At(o) \in DOMAIN pool
  <2> TAKE o \in S
  <2>1. cursor + o \in Nat /\ Len(pool) \in Nat \ {0}
    BY <1>1, <1>2, <1>3
  <2> HIDE DEF S
  <2>2. At(o) \in 1..Len(pool)
    BY <2>1, ModRange
  <2> QED  BY <1>1, <2>2
<1>5. \E o \in S : Choice(S) = At(o)
  <2>1. CASE sticky # {}
    <3>1. (CHOOSE o \in sticky : TRUE) \in sticky
      BY <2>1, Chosen
    <3>2. Choice(S) = At(CHOOSE o \in sticky : TRUE)
      BY <2>1 DEF Choice
    <3> QED  BY <3>1, <3>2
  <2>2. CASE sticky = {}
    <3>1. \E o \in S : \A e \in S : o <= e
      BY <1>2, LeastNumber
    <3> HIDE DEF S
    <3>2. (CHOOSE o \in S : \A e \in S : o <= e) \in S
      BY <3>1
    <3>3. Choice(S) = At(CHOOSE o \in S : \A e \in S : o <= e)
      BY <2>2 DEF Choice
    <3> QED  BY <3>2, <3>3
  <2> QED  BY <2>1, <2>2
<1> QED  BY <1>2, <1>4, <1>5

(***************************************************************************)
(* The invariant: TypeOK by groups of variables, and what it rests on.     *)
(***************************************************************************)
DiskInv ==
  /\ revision \in Nat /\ Profiles(store) /\ gone \subseteq Account /\ upsets \in 0..MaxUpsets

RotatorInv ==
  Profiles(pool) /\ active \in Account \cup {None} /\ cursor \in Nat

\* A snapshot on its way to the pool has unique ids, too.
SourceInv ==
  /\ observed \in 1..revision
  /\ refresh # None => /\ refresh \in [accounts: Seq(Profile), rev: 1..revision]
                       /\ Profiles(refresh.accounts)

RequestInv ==
  /\ phase \in [Request -> Phase] /\ handle \in [Request -> Handle \cup {None}]
  /\ barred \in [Request -> SUBSET Account]

\* Between runs of the writer no pass is counted; a queued one is one of three.
WriterInv ==
  /\ dirty \in BOOLEAN /\ unsaved \in BOOLEAN /\ fatal \in BOOLEAN /\ timer \in BOOLEAN
  /\ pass \in {"none", "queued", "writing"} /\ passes \in 0..3
  /\ pass = "none" => passes = 0
  /\ pass = "queued" => passes < 3
  /\ retryIndex \in 0..RetryDelays /\ (timer => pass = "none")
  /\ Profiles(written)

LockInv == lock \in {"free", "proxy", "cli"} /\ (lock = "proxy") = (pass = "writing")

ClockInv == now \in 1..MaxTime

Inv ==
  ClockInv /\ DiskInv /\ LockInv /\ RotatorInv /\ SourceInv /\ RequestInv /\ WriterInv

LEMMA InvType == Inv => TypeOK
<1> SUFFICES ASSUME Inv PROVE TypeOK
  OBVIOUS
<1>1. /\ store \in Seq(Profile) /\ pool \in Seq(Profile) /\ written \in Seq(Profile)
      /\ Unique(store) /\ Unique(pool) /\ Unique(written)
  BY DEF Inv, DiskInv, RotatorInv, WriterInv, Profiles
<1>2. \A s \in {store, pool, written} : \A i, j \in DOMAIN s : s[i].id = s[j].id => i = j
  BY <1>1 DEF Unique
<1> QED
  BY <1>1, <1>2
  DEF Inv, TypeOK, ClockInv, DiskInv, LockInv, RotatorInv, SourceInv, RequestInv, WriterInv

LEMMA InitInv == Init => Inv
<1> SUFFICES ASSUME Init PROVE Inv
  OBVIOUS
<1>1. PICK order \in [1..Cardinality(Account) -> Account], creds \in [Account -> Cred], r \in {0, 1} :
        /\ \A i, j \in DOMAIN order : order[i] = order[j] => i = j
        /\ store = [i \in DOMAIN order |->
             [id |-> order[i], cred |-> creds[order[i]], rev |-> r, fg |-> 0,
              qg |-> 0, until |-> 0, failed |-> FALSE, paused |-> FALSE]]
  BY DEF Init
<1>2. Cardinality(Account) \in Nat
  BY PoolConstants, FS_CardinalityType DEF PoolConstants
<1>3. /\ store \in [1..Cardinality(Account) -> Profile]
      /\ \A i \in 1..Cardinality(Account) : store[i].id = order[i]
  BY <1>1 DEF Profile
<1>4. Profiles(store)
  <2>1. store \in Seq(Profile)
    BY <1>2, <1>3, FunctionSeq
  <2>2. Unique(store)
    BY <1>1, <1>3 DEF Unique
  <2> QED  BY <2>1, <2>2 DEF Profiles
<1>5. pool = [i \in DOMAIN store |-> [store[i] EXCEPT !.rev = 1]]
  BY DEF Init
<1>6. Profiles(pool)
  <2>1. \A i \in DOMAIN store : store[i] \in Profile
    BY <1>3
  <2>2. pool \in [DOMAIN store -> Profile] /\ SameAccounts(store, pool)
    BY <1>5, <2>1 DEF Profile, SameAccounts
  <2> QED  BY <1>4, <2>2, SameAccountsProfiles
<1>7. Profiles(written)
  BY EmptySeq DEF Init, Profiles, Unique
<1>8. 1 \in 1..MaxTime /\ 0 \in 0..MaxUpsets /\ 0 \in 0..RetryDelays /\ 1 \in 1..1
  BY PoolConstants DEF PoolConstants
<1>9. ClockInv /\ DiskInv /\ RotatorInv /\ SourceInv
  BY <1>4, <1>6, <1>8 DEF Init, ClockInv, DiskInv, RotatorInv, SourceInv
<1>10. LockInv /\ WriterInv
  <2>1. 0 \in 0..3 /\ 0 < 3
    OBVIOUS
  <2> QED  BY <1>7, <1>8, <2>1, Zenon DEF Init, LockInv, WriterInv
<1>11. RequestInv
  BY DEF Init, RequestInv, Phase
<1> QED  BY <1>9, <1>10, <1>11 DEF Inv

(***************************************************************************)
(* The operators that several actions use.                                 *)
(***************************************************************************)
LEMMA PersistKeeps ==
  ASSUME WriterInv, LockInv, PersistAccounts, UNCHANGED lock
  PROVE  WriterInv' /\ LockInv'
<1>1. Profiles(written')
  BY DEF WriterInv, PersistAccounts
<1>2. 0 \in 0..RetryDelays
  BY PoolConstants DEF PoolConstants
<1>3. pass' = (IF pass = "none" THEN "queued" ELSE pass) /\ passes' = passes
  BY DEF PersistAccounts
<1>4. /\ pass' \in {"queued", "writing"} /\ passes' \in 0..3
      /\ pass' = "queued" => passes' < 3
      /\ (pass' = "writing") = (pass = "writing")
  BY <1>3 DEF WriterInv
<1>5. WriterInv'
  BY <1>1, <1>2, <1>4, Zenon DEF WriterInv, PersistAccounts
<1> QED  BY <1>4, <1>5 DEF LockInv

LEMMA EndPassesKeeps ==
  ASSUME RequestInv, EndPasses, UNCHANGED context
  PROVE  RequestInv' /\ Profiles(written') /\ pass' = "none" /\ passes' = 0
<1>1. Profiles(written')
  BY EmptySeq DEF EndPasses, Profiles, Unique
<1> QED  BY <1>1 DEF RequestInv, EndPasses, context, Phase

LEMMA ScheduleKeeps ==
  ASSUME NEW index \in 0..RetryDelays, timer \in BOOLEAN, ScheduleRetry(index)
  PROVE  /\ timer' \in BOOLEAN /\ retryIndex' \in 0..RetryDelays
         /\ timer' \/ retryIndex' = RetryDelays
<1>0. RetryDelays \in Nat
  BY PoolConstants DEF PoolConstants
<1>1. CASE index < RetryDelays
  <2>1. timer' = TRUE /\ retryIndex' = index + 1
    BY <1>1 DEF ScheduleRetry
  <2> QED  BY <1>0, <1>1, <2>1
<1>2. CASE ~(index < RetryDelays)
  <2>1. timer' = timer /\ retryIndex' = index
    BY <1>2 DEF ScheduleRetry
  <2>2. index = RetryDelays
    BY <1>0, <1>2
  <2> QED  BY <2>1, <2>2
<1> QED  BY <1>1, <1>2

LEMMA FailKeeps ==
  ASSUME WriterInv, RequestInv, NEW retryable \in BOOLEAN, PassFails(retryable),
         UNCHANGED context, dirty' \in BOOLEAN
  PROVE  RequestInv' /\ WriterInv' /\ pass' = "none" /\ NoSilentDrop'
<1>1. EndPasses /\ unsaved' = TRUE /\ fatal' = ~retryable
  BY DEF PassFails
<1>2. RequestInv' /\ Profiles(written') /\ pass' = "none" /\ passes' = 0
  BY <1>1, EndPassesKeeps
<1>3. /\ timer' \in BOOLEAN /\ retryIndex' \in 0..RetryDelays
      /\ retryable => timer' \/ retryIndex' = RetryDelays
  BY ScheduleKeeps DEF PassFails, WriterInv
<1>4. passes' \in 0..3
  BY <1>2
<1>5. WriterInv'
  BY <1>1, <1>2, <1>3, <1>4, Zenon DEF WriterInv
<1>6. NoSilentDrop'
  BY <1>1, <1>3, Zenon DEF NoSilentDrop
<1> QED  BY <1>2, <1>5, <1>6

LEMMA EndsKeeps ==
  ASSUME RequestInv, NEW r \in Request, Ends(r)
  PROVE  RequestInv'
BY DEF RequestInv, Ends, Goto, Phase

LEMMA GotoKeeps ==
  ASSUME RequestInv, NEW r \in Request, NEW p \in Phase, Goto(r, p), UNCHANGED context
  PROVE  RequestInv'
BY DEF RequestInv, Goto, context

LEMMA TakeKeeps ==
  ASSUME RequestInv, RotatorInv, NEW r \in Request, NEW p \in Phase, NEW excluded, NEW tried,
         Take(r, Candidates(excluded, tried), p)
  PROVE  RequestInv' /\ active' \in Account \cup {None}
<1>1. CASE Candidates(excluded, tried) = {}
  BY <1>1, EndsKeeps DEF Take, RotatorInv
<1>2. CASE Candidates(excluded, tried) # {}
  <2> DEFINE q == pool[Choice(Candidates(excluded, tried))]
  <2>1. q \in Profile
    BY <1>2, Chooses, LenProperties, ElementOfSeq DEF RotatorInv, Profiles
  <2>2. /\ handle' = [handle EXCEPT ![r] = HandleOf(q)]
        /\ active' = q.id /\ Goto(r, p) /\ UNCHANGED barred
    BY <1>2 DEF Take
  <2> HIDE DEF q
  <2>3. HandleOf(q) \in Handle /\ q.id \in Account
    BY <2>1 DEF HandleOf, Handle, Profile
  <2> QED  BY <2>2, <2>3 DEF RequestInv, Goto
<1> QED  BY <1>1, <1>2

LEMMA JoinKeeps ==
  ASSUME DiskInv, SourceInv, JoinRefresh, UNCHANGED <<revision, observed>>
  PROVE  SourceInv'
<1>1. CASE refresh = None
  <2>1. refresh' = [accounts |-> store, rev |-> revision]
    BY <1>1 DEF JoinRefresh
  <2>2. refresh'.accounts = store /\ refresh'.rev = revision
    BY <2>1
  <2>3. refresh' \in [accounts: Seq(Profile), rev: 1..revision]
    BY <2>1 DEF DiskInv, SourceInv, Profiles
  <2> QED  BY <2>2, <2>3 DEF DiskInv, SourceInv
<1>2. CASE refresh # None
  BY <1>2 DEF JoinRefresh, SourceInv
<1> QED  BY <1>1, <1>2

(***************************************************************************)
(* Every step keeps the invariant.                                         *)
(***************************************************************************)
LEMMA BeginPassInv == Inv /\ BeginPass => Inv'
<1> SUFFICES ASSUME Inv, BeginPass PROVE Inv'
  OBVIOUS
<1>1. ClockInv' /\ DiskInv' /\ RotatorInv' /\ SourceInv'
  BY DEF Inv, BeginPass, ClockInv, DiskInv, RotatorInv, SourceInv, rotator, source
<1>2. CASE lock = "cli" /\ PassFails(TRUE) /\ UNCHANGED lock
  <2>1. RequestInv' /\ WriterInv' /\ pass' = "none"
    BY <1>2, FailKeeps DEF Inv, BeginPass
  <2> QED  BY <1>1, <1>2, <2>1 DEF Inv, LockInv
<1>3. CASE /\ lock = "free" /\ lock' = "proxy"
           /\ pass' = "writing" /\ passes' = passes + 1 /\ written' = pool
           /\ UNCHANGED <<phase, timer, retryIndex, unsaved, fatal>>
  <2>1. passes' \in 0..3
    BY <1>3 DEF Inv, WriterInv, BeginPass
  <2>2. Profiles(written')
    BY <1>3 DEF Inv, RotatorInv
  <2>3. WriterInv'
    <3>1. ~timer /\ dirty' = FALSE
      BY Zenon DEF Inv, WriterInv, BeginPass
    <3> QED  BY <1>3, <2>1, <2>2, <3>1, Zenon DEF Inv, WriterInv
  <2>4. RequestInv' /\ LockInv'
    BY <1>3 DEF Inv, RequestInv, BeginPass, context, LockInv
  <2> QED  BY <1>1, <2>3, <2>4 DEF Inv
<1> QED  BY <1>2, <1>3, Zenon DEF BeginPass

LEMMA EndPassInv ==
  ASSUME Inv, EndPass
  PROVE  /\ Inv' /\ NoSilentDrop'
         /\ SameAccounts(store, store') /\ SameAccounts(store', pool')
         /\ \A i \in DOMAIN pool, j \in DOMAIN pool' :
               pool[i].id = pool'[j].id => pool'[j].qg >= pool[i].qg
<1> DEFINE next == [i \in DOMAIN store |-> Merged(store[i])]
<1>1. Profiles(next) /\ SameAccounts(store, next)
  BY MergedStore DEF Inv, WriterInv, DiskInv
<1>2. /\ store' = next /\ revision' = revision + 1 /\ lock' = "free"
      /\ SyncProfiles(next) /\ observed' = revision + 1 /\ pass = "writing"
      /\ UNCHANGED <<now, gone, upsets, refresh, context, dirty>> /\ fatal' = FALSE
  BY DEF EndPass
<1> HIDE DEF next
<1>3. /\ RotatorInv' /\ SameAccounts(next, pool')
      /\ \A i \in DOMAIN pool, j \in DOMAIN pool' :
            pool[i].id = pool'[j].id => pool'[j].qg >= pool[i].qg
  BY <1>1, <1>2, SyncedPool DEF Inv, RotatorInv
<1>4. ClockInv' /\ DiskInv'
  BY <1>1, <1>2 DEF Inv, ClockInv, DiskInv
<1>5. SourceInv'
  <2>1. 1..revision \subseteq 1..(revision + 1) /\ revision + 1 \in 1..(revision + 1)
    BY DEF Inv, DiskInv
  <2> QED  BY <1>2, <2>1 DEF Inv, SourceInv
<1>6. CASE dirty /\ passes < 3
  <2>1. /\ pass' = "queued" /\ retryIndex' = 0 /\ unsaved' = TRUE
        /\ UNCHANGED <<passes, written, timer, phase>>
    BY <1>6 DEF EndPass
  <2>2. 0 \in 0..RetryDelays
    BY PoolConstants DEF PoolConstants
  <2>3. WriterInv' /\ LockInv' /\ NoSilentDrop'
    <3>1. ~timer
      BY <1>2, Zenon DEF Inv, WriterInv
    <3>2. passes' \in 0..3 /\ passes' < 3 /\ Profiles(written')
      BY <1>6, <2>1 DEF Inv, WriterInv
    <3> QED  BY <1>2, <2>1, <2>2, <3>1, <3>2, Zenon DEF Inv, WriterInv, LockInv, NoSilentDrop
  <2>4. RequestInv'
    BY <1>2, <2>1 DEF Inv, RequestInv, context
  <2> QED  BY <1>1, <1>2, <1>3, <1>4, <1>5, <2>3, <2>4 DEF Inv
<1>7. CASE ~(dirty /\ passes < 3)
  <2>1. EndPasses /\ unsaved' = dirty
        /\ IF dirty THEN ScheduleRetry(0) ELSE retryIndex' = 0 /\ UNCHANGED timer
    BY <1>7 DEF EndPass
  <2>2. RequestInv' /\ Profiles(written') /\ pass' = "none" /\ passes' = 0
    BY <1>2, <2>1, EndPassesKeeps DEF Inv
  <2>3. 0 \in 0..RetryDelays
    BY PoolConstants DEF PoolConstants
  <2>4. /\ timer' \in BOOLEAN /\ retryIndex' \in 0..RetryDelays
        /\ dirty => timer' \/ retryIndex' = RetryDelays
    BY <2>1, <2>3, ScheduleKeeps DEF Inv, WriterInv
  <2>5. passes' \in 0..3
    BY <2>2
  <2>6. WriterInv' /\ LockInv' /\ NoSilentDrop'
    BY <1>2, <2>1, <2>2, <2>4, <2>5, Zenon DEF Inv, WriterInv, LockInv, NoSilentDrop
  <2> QED  BY <1>1, <1>2, <1>3, <1>4, <1>5, <2>2, <2>6 DEF Inv
<1> QED  BY <1>6, <1>7

LEMMA WriteFailsInv == Inv /\ WriteFails => Inv'
<1> SUFFICES ASSUME Inv, WriteFails PROVE Inv'
  OBVIOUS
<1>1. PICK retryable \in BOOLEAN : PassFails(retryable)
  BY DEF WriteFails
<1>2. RequestInv' /\ WriterInv' /\ pass' = "none"
  BY <1>1, FailKeeps DEF Inv, WriteFails, WriterInv
<1>3. upsets' \in 0..MaxUpsets
  BY PoolConstants DEF Inv, DiskInv, WriteFails, PoolConstants
<1>4. ClockInv' /\ DiskInv' /\ RotatorInv' /\ SourceInv' /\ LockInv'
  BY <1>2, <1>3 DEF Inv, WriteFails, ClockInv, DiskInv, RotatorInv, SourceInv, LockInv, rotator, source
<1> QED  BY <1>2, <1>4 DEF Inv

LEMMA RetryFiresInv == Inv /\ RetryFires => Inv'
<1> SUFFICES ASSUME Inv, RetryFires PROVE Inv'
  OBVIOUS
<1>1. ClockInv' /\ DiskInv' /\ RotatorInv' /\ SourceInv' /\ RequestInv'
  BY DEF Inv, RetryFires, ClockInv, DiskInv, RotatorInv, SourceInv, RequestInv, rotator, source,
         request, context, disk
<1>2. /\ pass = "none" /\ pass' = "queued" /\ UNCHANGED <<lock, passes, written, retryIndex, unsaved, fatal>>
      /\ timer' = FALSE /\ dirty' = TRUE
  BY Zenon DEF Inv, WriterInv, RetryFires, disk
<1>3. passes' \in 0..3 /\ passes' < 3 /\ Profiles(written')
  BY <1>2 DEF Inv, WriterInv
<1>4. WriterInv' /\ LockInv'
  BY <1>2, <1>3, Zenon DEF Inv, WriterInv, LockInv
<1> QED  BY <1>1, <1>4 DEF Inv

LEMMA RefreshEndsInv ==
  ASSUME Inv, RefreshEnds
  PROVE  /\ Inv'
         /\ IF refresh.rev # observed
            THEN /\ SameAccounts(refresh.accounts, pool')
                 /\ \A i \in DOMAIN pool, j \in DOMAIN pool' :
                       pool[i].id = pool'[j].id => pool'[j].qg >= pool[i].qg
            ELSE pool' = pool
<1>1. /\ refresh # None /\ refresh' = None
      /\ UNCHANGED <<now, revision, store, lock, gone, upsets, handle, barred>> /\ UNCHANGED writer
  BY DEF RefreshEnds, disk, context
<1>2. /\ RotatorInv' /\ observed' \in 1..revision'
      /\ IF refresh.rev # observed
         THEN /\ SameAccounts(refresh.accounts, pool')
              /\ \A i \in DOMAIN pool, j \in DOMAIN pool' :
                    pool[i].id = pool'[j].id => pool'[j].qg >= pool[i].qg
         ELSE pool' = pool
  <2>1. CASE refresh.rev # observed
    <3>1. SyncProfiles(refresh.accounts) /\ observed' = refresh.rev
      BY <2>1 DEF RefreshEnds
    <3>2. Profiles(refresh.accounts) /\ refresh.rev \in 1..revision
      BY <1>1 DEF Inv, SourceInv
    <3>3. /\ RotatorInv' /\ SameAccounts(refresh.accounts, pool')
          /\ \A i \in DOMAIN pool, j \in DOMAIN pool' :
                pool[i].id = pool'[j].id => pool'[j].qg >= pool[i].qg
      BY <3>1, <3>2, SyncedPool DEF Inv, RotatorInv
    <3> QED  BY <1>1, <2>1, <3>1, <3>2, <3>3
  <2>2. CASE refresh.rev = observed
    BY <1>1, <2>2 DEF RefreshEnds, Inv, RotatorInv, SourceInv, rotator
  <2> QED  BY <2>1, <2>2
<1>3. SourceInv' /\ ClockInv' /\ DiskInv'
  BY <1>1, <1>2 DEF Inv, SourceInv, ClockInv, DiskInv
<1>4. WriterInv' /\ LockInv'
  BY <1>1, Zenon DEF Inv, WriterInv, LockInv, writer
<1>5. RequestInv'
  BY <1>1 DEF Inv, RequestInv, RefreshEnds, Phase
<1> QED  BY <1>2, <1>3, <1>4, <1>5 DEF Inv

\* Variables a step leaves alone keep their part of the invariant.
LEMMA WriterStays == Inv /\ UNCHANGED <<writer, lock>> => WriterInv' /\ LockInv'
<1> SUFFICES ASSUME Inv, UNCHANGED <<writer, lock>> PROVE WriterInv' /\ LockInv'
  OBVIOUS
<1>1. UNCHANGED <<dirty, pass, passes, written, timer, retryIndex, unsaved, fatal, lock>>
  BY DEF writer
<1> QED  BY <1>1, Zenon DEF Inv, WriterInv, LockInv

LEMMA DiskStays == Inv /\ UNCHANGED <<now, disk>> => ClockInv' /\ DiskInv'
BY DEF Inv, ClockInv, DiskInv, disk

LEMMA QuietRequestInv ==
  ASSUME Inv, NEW r \in Request, Arrive(r) \/ Select(r) \/ Verify(r) \/ Admit(r) \/ Served(r)
  PROVE  Inv'
<1>1. UNCHANGED <<now, disk, writer, pool, cursor, observed>>
  BY DEF Arrive, Select, Verify, Admit, Served, rotator, source
<1>2. ClockInv' /\ DiskInv' /\ WriterInv' /\ LockInv'
  BY <1>1, WriterStays, DiskStays DEF disk
<1>3. CASE Arrive(r)
  <2>1. SourceInv'
    BY <1>3, JoinKeeps DEF Inv, Arrive, disk
  <2>2. RotatorInv' /\ RequestInv'
    BY <1>3 DEF Arrive, Inv, RotatorInv, rotator, RequestInv, Goto, Phase
  <2> QED  BY <1>2, <2>1, <2>2 DEF Inv
<1>4. CASE Select(r)
  <2>1. RequestInv' /\ active' \in Account \cup {None}
    BY <1>4, TakeKeeps DEF Select, Inv, Phase
  <2>2. RotatorInv' /\ SourceInv'
    BY <1>1, <1>4, <2>1 DEF Select, Inv, RotatorInv, SourceInv, source, disk
  <2> QED  BY <1>2, <2>1, <2>2 DEF Inv
<1>5. CASE Verify(r)
  <2>1. SourceInv'
    BY <1>5, JoinKeeps DEF Inv, Verify, disk
  <2>2. RotatorInv' /\ RequestInv'
    BY <1>5, GotoKeeps DEF Verify, Inv, RotatorInv, rotator, Phase
  <2> QED  BY <1>2, <2>1, <2>2 DEF Inv
<1>6. CASE Admit(r) \/ Served(r)
  <2>1. RequestInv'
    BY <1>6, GotoKeeps, EndsKeeps DEF Admit, Served, Inv, Phase
  <2>2. RotatorInv' /\ SourceInv'
    BY <1>1, <1>6 DEF Admit, Served, Inv, RotatorInv, SourceInv, source, rotator, disk
  <2> QED  BY <1>2, <2>1, <2>2 DEF Inv
<1> QED  BY <1>3, <1>4, <1>5, <1>6

LEMMA HealthyInv ==
  ASSUME Inv, NEW r \in Request, Healthy(r)
  PROVE  Inv'
<1>1. PICK i \in DOMAIN pool : ClearFailure(i)
  BY DEF Healthy
<1>2. RotatorInv'
  BY <1>1, ClearedPool DEF Inv, RotatorInv
<1>3. WriterInv' /\ LockInv'
  BY PersistKeeps DEF Inv, Healthy, disk
<1>4. RequestInv'
  BY EndsKeeps DEF Inv, Healthy
<1>5. ClockInv' /\ DiskInv' /\ SourceInv'
  BY DiskStays DEF Inv, Healthy, SourceInv, source, disk
<1> QED  BY <1>2, <1>3, <1>4, <1>5 DEF Inv

LEMMA MarkKeeps ==
  ASSUME Inv, NEW h, MarkExhausted(h)
  PROVE  RotatorInv'
BY MarkedPool DEF Inv, RotatorInv, ClockInv

LEMMA RejectedInv ==
  ASSUME Inv, NEW r \in Request, Rejected(r)
  PROVE  Inv'
<1>1. RotatorInv'
  BY MarkKeeps DEF Rejected
<1>2. WriterInv' /\ LockInv'
  BY PersistKeeps DEF Inv, Rejected, disk
<1>3. RequestInv'
  BY GotoKeeps DEF Inv, Rejected, Phase
<1>4. ClockInv' /\ DiskInv' /\ SourceInv'
  BY DiskStays DEF Inv, Rejected, SourceInv, source, disk
<1> QED  BY <1>1, <1>2, <1>3, <1>4 DEF Inv

LEMMA MoveOnInv ==
  ASSUME Inv, NEW r \in Request, NEW others \in {{}, Others(r)}, MoveOn(r, others)
  PROVE  Inv'
<1>1. ClockInv' /\ DiskInv' /\ SourceInv'
  BY DiskStays DEF Inv, MoveOn, SourceInv, source, disk
<1>2. CASE others = {}
  <2>1. MarkExhausted(handle[r]) /\ PersistAccounts /\ Ends(r)
    BY <1>2 DEF MoveOn
  <2>2. RotatorInv'
    BY <2>1, MarkKeeps
  <2>3. WriterInv' /\ LockInv'
    BY <2>1, PersistKeeps DEF Inv, MoveOn, disk
  <2>4. RequestInv'
    BY <2>1, EndsKeeps DEF Inv
  <2> QED  BY <1>1, <2>2, <2>3, <2>4 DEF Inv
<1>3. CASE others # {}
  <2>1. /\ Take(r, Candidates({handle[r].id}, {handle[r].cred}), "resent")
        /\ UNCHANGED <<pool, cursor, writer>>
    BY <1>3 DEF MoveOn, Others
  <2>2. RequestInv' /\ active' \in Account \cup {None}
    BY <2>1, TakeKeeps DEF Inv, Phase
  <2>3. WriterInv' /\ LockInv'
    BY <2>1, WriterStays DEF MoveOn, disk
  <2>4. RotatorInv'
    BY <2>1, <2>2 DEF Inv, RotatorInv
  <2> QED  BY <1>1, <2>2, <2>3, <2>4 DEF Inv
<1> QED  BY <1>2, <1>3

\* The CLI writes a store of accounts with unique ids.
LEMMA CliWritesInv ==
  ASSUME Inv, NEW next, Profiles(next), CliWrites(next)
  PROVE  Inv'
<1>1. /\ lock = "cli" /\ lock' = "free" /\ store' = next /\ revision' = revision + 1
      /\ UNCHANGED <<now, upsets, rotator, source, phase, handle, writer>>
  BY DEF CliWrites
<1>2. gone' \subseteq Account
  <2>0. \A k \in DOMAIN store : store[k] \in Profile
    BY LenProperties, ElementOfSeq DEF Inv, DiskInv, Profiles
  <2>1. \A k \in DOMAIN store : store[k].id \in Account
    BY <2>0 DEF Profile
  <2> QED  BY <2>1 DEF CliWrites, Inv, DiskInv
<1>3. DiskInv' /\ ClockInv' /\ RotatorInv'
  BY <1>1, <1>2 DEF Inv, DiskInv, ClockInv, RotatorInv, rotator
<1>4. SourceInv'
  <2>1. 1..revision \subseteq 1..(revision + 1)
    BY DEF Inv, DiskInv
  <2> QED  BY <1>1, <2>1 DEF Inv, SourceInv, source
<1>5. WriterInv' /\ LockInv'
  <2>1. UNCHANGED <<dirty, pass, passes, written, timer, retryIndex, unsaved, fatal>>
    BY <1>1 DEF writer
  <2> QED  BY <1>1, <2>1, Zenon DEF Inv, WriterInv, LockInv
<1>6. RequestInv'
  BY <1>1 DEF Inv, RequestInv, CliWrites
<1> QED  BY <1>3, <1>4, <1>5, <1>6 DEF Inv

LEMMA CliInv ==
  ASSUME Inv,
         \/ \E i \in DOMAIN store : Pause(i) \/ Remove(i)
         \/ \E i \in DOMAIN store, c \in Cred : Login(i, c) \/ Replace(i, c)
         \/ \E a \in Account, c \in Cred, r \in {0, 1} : Add(a, c, r)
  PROVE  \E next : Profiles(next) /\ CliWrites(next)
<1>1. /\ Len(store) \in Nat /\ DOMAIN store = 1..Len(store) /\ Profiles(store)
      /\ \A i \in DOMAIN store : store[i] \in Profile
  BY LenProperties, ElementOfSeq DEF Inv, DiskInv, Profiles
<1>2. ASSUME NEW i \in DOMAIN store, NEW e \in Profile, e.id = store[i].id
      PROVE  Profiles([store EXCEPT ![i] = e])
  <2> DEFINE t == [store EXCEPT ![i] = e]
  <2>1. t \in Seq(Profile) /\ DOMAIN t = DOMAIN store
    BY <1>1, ExceptSeq DEF Profiles
  <2>2. \A j \in DOMAIN t : t[j].id = store[j].id
    BY <1>1, <1>2
  <2> HIDE DEF t
  <2>3. Profiles(t)
    BY <1>1, <2>1, <2>2 DEF Profiles, Unique
  <2> QED  BY <2>3 DEF t
<1>3. ASSUME NEW i \in DOMAIN store, Pause(i)
      PROVE  \E next : Profiles(next) /\ CliWrites(next)
  <2> DEFINE e == [store[i] EXCEPT !.paused = ~@]
  <2>1. e \in Profile /\ e.id = store[i].id
    BY <1>1 DEF Profile
  <2>2. CliWrites([store EXCEPT ![i] = e])
    BY <1>3 DEF Pause
  <2> HIDE DEF e
  <2> QED  BY <1>2, <2>1, <2>2
<1>4. ASSUME NEW i \in DOMAIN store, NEW c \in Cred, Login(i, c)
      PROVE  \E next : Profiles(next) /\ CliWrites(next)
  <2> DEFINE e == [store[i] EXCEPT !.cred = c, !.rev = Later(@, 1) + 1]
  <2>1. e \in Profile /\ e.id = store[i].id
    <3>1. Later(store[i].rev, 1) + 1 \in Nat
      <4>1. store[i].rev \in Nat
        BY <1>1 DEF Profile
      <4>2. \A m \in Nat : Later(m, 1) + 1 \in Nat
        BY DEF Later
      <4> QED  BY <4>1, <4>2
    <3> QED  BY <1>1, <3>1 DEF Profile
  <2>2. CliWrites([store EXCEPT ![i] = e])
    BY <1>4 DEF Login
  <2> HIDE DEF e
  <2> QED  BY <1>2, <2>1, <2>2
<1>5. ASSUME NEW i \in DOMAIN store, NEW c \in Cred, Replace(i, c)
      PROVE  \E next : Profiles(next) /\ CliWrites(next)
  <2> DEFINE e == [store[i] EXCEPT !.cred = c, !.rev = @ + 1]
  <2>1. e \in Profile /\ e.id = store[i].id
    <3>1. store[i].rev + 1 \in Nat
      BY <1>1 DEF Profile
    <3> QED  BY <1>1, <3>1 DEF Profile
  <2>2. CliWrites([store EXCEPT ![i] = e])
    BY <1>5 DEF Replace
  <2> HIDE DEF e
  <2> QED  BY <1>2, <2>1, <2>2
<1>6. ASSUME NEW a \in Account, NEW c \in Cred, NEW r \in {0, 1}, Add(a, c, r)
      PROVE  \E next : Profiles(next) /\ CliWrites(next)
  <2> DEFINE e == [id |-> a, cred |-> c, rev |-> r, fg |-> 0, qg |-> 0,
                   until |-> 0, failed |-> FALSE, paused |-> FALSE]
  <2>1. e \in Profile /\ e.id = a
    BY DEF Profile
  <2>2. CliWrites(Append(store, e)) /\ \A i \in DOMAIN store : store[i].id # a
    BY <1>6 DEF Add
  <2> HIDE DEF e
  <2>3. /\ Append(store, e) \in Seq(Profile) /\ Len(Append(store, e)) = Len(store) + 1
        /\ \A i \in 1..Len(store) : Append(store, e)[i] = store[i]
        /\ Append(store, e)[Len(store) + 1] = e
    BY <1>1, <2>1, AppendProperties DEF Profiles
  <2>4. DOMAIN Append(store, e) = 1..(Len(store) + 1)
    BY <2>3, LenProperties
  <2>5. Profiles(Append(store, e))
    <3> DEFINE t == Append(store, e)
    <3>1. \A i \in 1..(Len(store) + 1) : i \in 1..Len(store) \/ i = Len(store) + 1
      BY <1>1
    <3>2. /\ t \in Seq(Profile) /\ DOMAIN t = 1..(Len(store) + 1)
          /\ \A i \in 1..Len(store) : t[i] = store[i] /\ t[Len(store) + 1] = e
      BY <2>3, <2>4
    <3>3. t[Len(store) + 1] = e
      BY <2>3
    <3> HIDE DEF t
    <3>4. Profiles(t)
      BY <1>1, <2>1, <2>2, <3>1, <3>2, <3>3 DEF Profiles, Unique
    <3> QED  BY <3>4 DEF t
  <2> QED  BY <2>2, <2>5
<1>7. ASSUME NEW i \in DOMAIN store, Remove(i)
      PROVE  \E next : Profiles(next) /\ CliWrites(next)
  <2> DEFINE t == [k \in 1..(Len(store) - 1) |-> IF k < i THEN store[k] ELSE store[k + 1]]
  <2>1. Len(store) - 1 \in Nat /\ \A k \in 1..(Len(store) - 1) : k \in DOMAIN store /\ k + 1 \in DOMAIN store
    BY <1>1
  <2>2. t \in [1..(Len(store) - 1) -> Profile]
    BY <1>1, <2>1
  <2>3. t \in Seq(Profile) /\ DOMAIN t = 1..(Len(store) - 1)
    BY <2>1, <2>2, FunctionSeq
  <2>4. ASSUME NEW j \in DOMAIN t, NEW k \in DOMAIN t, t[j].id = t[k].id
        PROVE  j = k
    <3> DEFINE Old(n) == IF n < i THEN n ELSE n + 1
    <3>1. /\ Old(j) \in DOMAIN store /\ Old(k) \in DOMAIN store
          /\ t[j] = store[Old(j)] /\ t[k] = store[Old(k)]
      BY <2>1, <2>3
    <3> HIDE DEF t
    <3>2. Old(j) = Old(k)
      BY <1>1, <2>4, <3>1 DEF Profiles, Unique
    <3>3. j \in Nat /\ k \in Nat /\ i \in Nat
      BY <1>1, <2>1, <2>3
    <3> QED  BY <3>2, <3>3
  <2>5. CliWrites(t)
    BY <1>7 DEF Remove
  <2> QED  BY <2>3, <2>4, <2>5 DEF Profiles, Unique
<1> QED  BY <1>3, <1>4, <1>5, <1>6, <1>7

LEMMA TickInv == Inv /\ (Tick \/ CliLocks) => Inv'
<1> SUFFICES ASSUME Inv, Tick \/ CliLocks PROVE Inv'
  OBVIOUS
<1>1. ClockInv' /\ DiskInv'
  <2>1. now' \in 1..MaxTime
    BY PoolConstants DEF Inv, ClockInv, Tick, CliLocks, PoolConstants
  <2>2. upsets' \in 0..MaxUpsets
    BY PoolConstants DEF Inv, DiskInv, Tick, CliLocks, PoolConstants, disk
  <2> QED  BY <2>1, <2>2 DEF Inv, ClockInv, DiskInv, Tick, CliLocks, disk
<1>2. RotatorInv' /\ SourceInv' /\ RequestInv'
  BY DEF Inv, RotatorInv, SourceInv, RequestInv, Tick, CliLocks, rotator, source, request, context, disk
<1>3. WriterInv' /\ LockInv'
  <2>1. /\ UNCHANGED <<dirty, pass, passes, written, timer, retryIndex, unsaved, fatal>>
        /\ lock' = lock \/ (lock = "free" /\ lock' = "cli")
    BY DEF Tick, CliLocks, writer, disk
  <2> QED  BY <2>1, Zenon DEF Inv, WriterInv, LockInv
<1> QED  BY <1>1, <1>2, <1>3 DEF Inv

LEMMA StepInv == Inv /\ [Next]_vars => Inv'
<1> SUFFICES ASSUME Inv, [Next]_vars PROVE Inv'
  OBVIOUS
<1>1. CASE UNCHANGED vars
  <2>1. UNCHANGED <<now, disk, rotator, source, request, writer, lock>>
    BY <1>1 DEF vars, disk
  <2> QED
    BY <2>1, WriterStays, DiskStays
    DEF Inv, RotatorInv, SourceInv, RequestInv, rotator, source, request, context, disk
<1>2. CASE Tick \/ RefreshEnds \/ BeginPass \/ EndPass \/ WriteFails \/ RetryFires \/ CliLocks
  BY <1>2, TickInv, RefreshEndsInv, BeginPassInv, EndPassInv, WriteFailsInv, RetryFiresInv
<1>3. ASSUME NEW r \in Request,
             \/ Arrive(r) \/ Select(r) \/ Verify(r) \/ Admit(r) \/ Served(r) \/ Healthy(r)
             \/ Rejected(r) \/ RejectedLate(r) \/ Failover(r) \/ RejectedForGood(r)
      PROVE  Inv'
  <2>1. CASE RejectedLate(r) \/ Failover(r) \/ RejectedForGood(r)
    <3>1. PICK others \in {{}, Others(r)} : MoveOn(r, others)
      BY <2>1 DEF RejectedLate, Failover, RejectedForGood
    <3> QED  BY <3>1, MoveOnInv
  <2> QED  BY <1>3, <2>1, QuietRequestInv, HealthyInv, RejectedInv
<1>4. CASE \/ \E i \in DOMAIN store : Pause(i) \/ Remove(i)
           \/ \E i \in DOMAIN store, c \in Cred : Login(i, c) \/ Replace(i, c)
           \/ \E a \in Account, c \in Cred, r \in {0, 1} : Add(a, c, r)
  BY <1>4, CliInv, CliWritesInv
<1> QED  BY <1>1, <1>2, <1>3, <1>4 DEF Next

LEMMA SpecInv == Spec => []Inv
  BY InitInv, StepInv, PTL DEF Spec

\* Types and unique ids, for any accounts, credentials and requests.
THEOREM TypeCorrect == Spec => []TypeOK
  BY SpecInv, InvType, PTL

(***************************************************************************)
(* The writer.                                                             *)
(***************************************************************************)
LEMMA DropStep == Inv /\ NoSilentDrop /\ [Next]_vars => NoSilentDrop'
<1> SUFFICES ASSUME Inv, NoSilentDrop, [Next]_vars PROVE NoSilentDrop'
  OBVIOUS
<1>1. CASE UNCHANGED writer
  <2>1. UNCHANGED <<pass, timer, retryIndex, unsaved, fatal>>
    BY <1>1 DEF writer
  <2> QED  BY <2>1, Zenon DEF NoSilentDrop
<1>2. CASE PersistAccounts
  <2>1. pass' # "none"
    BY <1>2 DEF PersistAccounts
  <2> QED  BY <2>1, Zenon DEF NoSilentDrop
<1>3. CASE BeginPass
  <2>1. CASE pass' = "writing"
    BY <2>1, Zenon DEF NoSilentDrop
  <2>2. CASE PassFails(TRUE)
    BY <1>3, <2>2, FailKeeps DEF Inv, BeginPass
  <2> QED  BY <1>3, <2>1, <2>2, Zenon DEF BeginPass
<1>4. CASE WriteFails
  BY <1>4, FailKeeps DEF Inv, WriterInv, WriteFails
<1>5. CASE RetryFires
  <2>1. pass' # "none"
    BY <1>5 DEF RetryFires
  <2> QED  BY <2>1, Zenon DEF NoSilentDrop
<1>6. CASE EndPass
  BY <1>6, EndPassInv
<1>7. CASE UNCHANGED vars \/ Tick \/ RefreshEnds \/ CliLocks
  BY <1>1, <1>7 DEF vars, Tick, RefreshEnds, CliLocks
<1>8. ASSUME NEW r \in Request,
             \/ Arrive(r) \/ Select(r) \/ Verify(r) \/ Admit(r) \/ Served(r) \/ Healthy(r)
             \/ Rejected(r) \/ RejectedLate(r) \/ Failover(r) \/ RejectedForGood(r)
      PROVE  NoSilentDrop'
  <2>1. PersistAccounts \/ UNCHANGED writer
    BY <1>8 DEF Arrive, Select, Verify, Admit, Served, Healthy, Rejected, RejectedLate, Failover,
       RejectedForGood, MoveOn
  <2> QED  BY <1>1, <1>2, <2>1
<1>9. CASE \/ \E i \in DOMAIN store : Pause(i) \/ Remove(i)
           \/ \E i \in DOMAIN store, c \in Cred : Login(i, c) \/ Replace(i, c)
           \/ \E a \in Account, c \in Cred, r \in {0, 1} : Add(a, c, r)
  BY <1>1, <1>9, CliInv DEF CliWrites
<1> QED  BY <1>3, <1>4, <1>5, <1>6, <1>7, <1>8, <1>9 DEF Next

\* A change that is not on disk is never dropped: a pass or a timer brings it
\* there, unless the schedule is spent or the store cannot be written at all.
THEOREM ChangesAreKept == Spec => []NoSilentDrop
<1>1. Init => NoSilentDrop
  BY Zenon DEF Init, NoSilentDrop
<1> QED  BY <1>1, SpecInv, DropStep, PTL DEF Spec

\* Whatever the CLI writes between the passes, a pass preserves: the accounts,
\* their order, their credentials and their pauses.
THEOREM AdminIsKept == Spec => AdminStateKept
<1>1. ASSUME Inv, [Next]_vars, lock = "proxy", lock' = "free"
      PROVE  SameAccounts(store, store')
  <2>1. CASE EndPass
    BY <2>1, <1>1, EndPassInv
  <2>2. CASE WriteFails
    BY <2>2 DEF WriteFails, SameAccounts
  <2>3. CASE CliLocks \/ BeginPass
    BY <2>3, <1>1 DEF CliLocks, BeginPass
  <2>4. CASE UNCHANGED vars \/ Tick \/ RefreshEnds \/ RetryFires
    BY <2>4, <1>1 DEF vars, Tick, RefreshEnds, RetryFires, disk
  <2>5. ASSUME NEW r \in Request,
               \/ Arrive(r) \/ Select(r) \/ Verify(r) \/ Admit(r) \/ Served(r) \/ Healthy(r)
               \/ Rejected(r) \/ RejectedLate(r) \/ Failover(r) \/ RejectedForGood(r)
        PROVE  UNCHANGED lock
    BY <2>5 DEF Arrive, Select, Verify, Admit, Served, Healthy, Rejected, RejectedLate, Failover,
       RejectedForGood, MoveOn, disk
  <2>6. CASE \/ \E i \in DOMAIN store : Pause(i) \/ Remove(i)
             \/ \E i \in DOMAIN store, c \in Cred : Login(i, c) \/ Replace(i, c)
             \/ \E a \in Account, c \in Cred, r \in {0, 1} : Add(a, c, r)
    BY <2>6, <1>1, CliInv DEF CliWrites
  <2> QED  BY <1>1, <2>1, <2>2, <2>3, <2>4, <2>5, <2>6 DEF Next
<1>2. Inv /\ [Next]_vars =>
        [lock = "proxy" /\ lock' = "free" =>
           /\ DOMAIN store' = DOMAIN store
           /\ \A i \in DOMAIN store :
                 /\ store'[i].id = store[i].id /\ store'[i].cred = store[i].cred
                 /\ store'[i].paused = store[i].paused]_vars
  BY <1>1 DEF SameAccounts
<1> QED  BY <1>2, SpecInv, PTL DEF Spec, AdminStateKept

(***************************************************************************)
(* Answers.                                                                *)
(***************************************************************************)

\* An answer moves the marks of the very credential it was asked with, however
\* late it comes and whatever has happened to the account meanwhile.
THEOREM AnswersHit == Spec => AnswerHitsItsCredential
<1> DEFINE Answered(r) == phase[r] \in {"sent", "resent"} /\ phase'[r] # phase[r]
           Hits(r) == \A i \in DOMAIN pool : pool'[i] # pool[i] =>
                        pool[i].id = handle[r].id /\ pool[i].cred = handle[r].cred
<1>1. ASSUME Inv, [Next]_vars, NEW r \in Request, Answered(r)
      PROVE  Hits(r)
  <2>1. ASSUME NEW h, MarkExhausted(h), h = handle[r]
        PROVE  Hits(r)
    BY <2>1, <1>1, MarkedPool DEF Inv, RotatorInv, ClockInv, SameHandle
  <2>2. ASSUME NEW q \in Request,
               \/ Arrive(q) \/ Select(q) \/ Verify(q) \/ Admit(q) \/ Served(q) \/ Healthy(q)
               \/ Rejected(q) \/ RejectedLate(q) \/ Failover(q) \/ RejectedForGood(q)
        PROVE  Hits(r)
    <3>1. q = r
      <4>1. \E p : Goto(q, p)
        BY <2>2 DEF Arrive, Select, Verify, Admit, Served, Healthy, Rejected, RejectedLate,
           Failover, RejectedForGood, MoveOn, Take, Ends
      <4> QED  BY <4>1, <1>1 DEF Goto, Inv, RequestInv
    <3>2. CASE Healthy(q)
      <4>1. PICK i \in DOMAIN pool : SameHandle(pool[i], handle[q]) /\ ClearFailure(i)
        BY <3>2 DEF Healthy
      <4>2. \A k \in DOMAIN pool : pool'[k] # pool[k] => k = i
        BY <1>1, <4>1, ClearedPool DEF Inv, RotatorInv
      <4> QED  BY <3>1, <4>1, <4>2 DEF SameHandle
    <3>3. CASE Rejected(q)
      BY <2>1, <3>1, <3>3 DEF Rejected
    <3>4. CASE RejectedLate(q) \/ Failover(q) \/ RejectedForGood(q)
      <4>1. MarkExhausted(handle[q]) \/ UNCHANGED pool
        BY <3>4 DEF RejectedLate, Failover, RejectedForGood, MoveOn
      <4> QED  BY <2>1, <3>1, <4>1
    <3>5. CASE Arrive(q) \/ Select(q) \/ Verify(q) \/ Admit(q) \/ Served(q)
      BY <3>5 DEF Arrive, Select, Verify, Admit, Served, rotator
    <3> QED  BY <2>2, <3>2, <3>3, <3>4, <3>5
  <2>3. CASE EndPass \/ RefreshEnds \/ BeginPass \/ WriteFails
    <3>1. \/ EndPasses \/ UNCHANGED phase
          \/ phase' = [q \in Request |-> CASE phase[q] = "refreshing" -> "select"
                                          [] phase[q] = "verifying" -> "admit"
                                          [] OTHER -> phase[q]]
      BY <2>3 DEF EndPass, RefreshEnds, BeginPass, WriteFails, PassFails
    <3>2. phase'[r] = phase[r]
      BY <1>1, <3>1 DEF EndPasses
    <3> QED  BY <1>1, <3>2
  <2>4. CASE UNCHANGED vars \/ Tick \/ RetryFires \/ CliLocks
    BY <2>4, <1>1 DEF vars, Tick, RetryFires, CliLocks, request
  <2>5. CASE \/ \E i \in DOMAIN store : Pause(i) \/ Remove(i)
             \/ \E i \in DOMAIN store, c \in Cred : Login(i, c) \/ Replace(i, c)
             \/ \E a \in Account, c \in Cred, s \in {0, 1} : Add(a, c, s)
    BY <2>5, <1>1, CliInv DEF CliWrites
  <2> QED  BY <1>1, <2>2, <2>3, <2>4, <2>5 DEF Next
<1>2. Inv /\ [Next]_vars =>
        [\A r \in Request : phase[r] \in {"sent", "resent"} /\ phase'[r] # phase[r] =>
           \A i \in DOMAIN pool : pool'[i] # pool[i] =>
             pool[i].id = handle[r].id /\ pool[i].cred = handle[r].cred]_vars
  BY <1>1
<1> QED  BY <1>2, SpecInv, PTL DEF Spec, AnswerHitsItsCredential

(***************************************************************************)
(* What a step of one request leaves alone.                                *)
(***************************************************************************)
Moves(r) ==
  \/ Arrive(r) \/ Select(r) \/ Verify(r) \/ Admit(r) \/ Served(r) \/ Healthy(r)
  \/ Rejected(r) \/ RejectedLate(r) \/ Failover(r) \/ RejectedForGood(r)

CliWritesSome == \E next : Profiles(next) /\ CliWrites(next)

LEMMA Steps ==
  ASSUME Inv, [Next]_vars
  PROVE  \/ UNCHANGED vars \/ Tick \/ RefreshEnds \/ BeginPass \/ EndPass \/ WriteFails
         \/ RetryFires \/ CliLocks \/ CliWritesSome
         \/ \E r \in Request : Moves(r)
<1>1. CASE \/ \E i \in DOMAIN store : Pause(i) \/ Remove(i)
           \/ \E i \in DOMAIN store, c \in Cred : Login(i, c) \/ Replace(i, c)
           \/ \E a \in Account, c \in Cred, r \in {0, 1} : Add(a, c, r)
  BY <1>1, CliInv DEF CliWritesSome
<1>2. CASE \E r \in Request : Moves(r)
  BY <1>2
<1> QED  BY <1>1, <1>2 DEF Next, Moves

\* Other requests, the store and the snapshot on its way are not touched; the
\* pool keeps its accounts, and its quota generations never go back.
LEMMA MovesFrame ==
  ASSUME Inv, NEW q \in Request, Moves(q)
  PROVE  /\ \A r \in Request \ {q} :
               phase'[r] = phase[r] /\ handle'[r] = handle[r] /\ barred'[r] = barred[r]
         /\ UNCHANGED <<store, revision, gone, observed>>
         /\ SameAccounts(pool, pool')
         /\ \A i \in DOMAIN pool : pool[i].qg \in Nat /\ pool'[i].qg \in Nat /\ pool'[i].qg >= pool[i].qg
<1>0. \A i \in DOMAIN pool : pool[i] \in Profile
  BY LenProperties, ElementOfSeq DEF Inv, RotatorInv, Profiles
<1>1. UNCHANGED <<store, revision, gone, observed>>
  BY DEF Moves, Arrive, Select, Verify, Admit, Served, Healthy, Rejected, RejectedLate, Failover,
     RejectedForGood, MoveOn, disk, source
<1>2. /\ \E p \in Phase : Goto(q, p)
      /\ UNCHANGED handle \/ \E h : handle' = [handle EXCEPT ![q] = h]
      /\ UNCHANGED barred \/ \E b : barred' = [barred EXCEPT ![q] = b]
  <2>1. CASE Select(q) \/ RejectedLate(q) \/ Failover(q) \/ RejectedForGood(q)
    <3>1. Ends(q) \/ \E offsets : \E p \in {"held", "resent"} : Take(q, offsets, p)
      BY <2>1 DEF Select, RejectedLate, Failover, RejectedForGood, MoveOn
    <3>2. ASSUME NEW offsets, NEW p \in {"held", "resent"}, Take(q, offsets, p)
          PROVE  \/ Ends(q)
                 \/ Goto(q, p) /\ UNCHANGED barred /\ \E h : handle' = [handle EXCEPT ![q] = h]
      BY <3>2 DEF Take
    <3> QED  BY <3>1, <3>2 DEF Ends, Phase
  <2>2. CASE Arrive(q)
    BY <2>2 DEF Arrive, Phase
  <2>3. CASE Verify(q) \/ Admit(q) \/ Served(q) \/ Healthy(q) \/ Rejected(q)
    BY <2>3 DEF Verify, Admit, Served, Healthy, Rejected, Ends, context, Phase
  <2> QED  BY <2>1, <2>2, <2>3 DEF Moves
<1>3. \A r \in Request \ {q} :
        phase'[r] = phase[r] /\ handle'[r] = handle[r] /\ barred'[r] = barred[r]
  BY <1>2 DEF Inv, RequestInv, Goto
<1> DEFINE Grows ==
      /\ SameAccounts(pool, pool')
      /\ \A i \in DOMAIN pool : pool[i].qg \in Nat /\ pool'[i].qg \in Nat /\ pool'[i].qg >= pool[i].qg
<1>4. Grows
  <2>0. \A i \in DOMAIN pool : pool[i].qg \in Nat
    BY <1>0 DEF Profile
  <2>1. CASE UNCHANGED pool
    BY <2>0, <2>1 DEF SameAccounts
  <2>2. ASSUME NEW i \in DOMAIN pool, ClearFailure(i)
        PROVE  Grows
    BY <2>0, <2>2, ClearedPool DEF Inv, RotatorInv
  <2>3. ASSUME MarkExhausted(handle[q])
        PROVE  Grows
    <3>1. /\ Profiles(pool') /\ SameAccounts(pool, pool')
          /\ \A i \in DOMAIN pool : pool'[i].qg >= pool[i].qg
      BY <2>3, MarkedPool DEF Inv, RotatorInv, ClockInv
    <3>2. \A i \in DOMAIN pool' : pool'[i] \in Profile
      BY <3>1, LenProperties, ElementOfSeq DEF Profiles
    <3>3. \A i \in DOMAIN pool : pool'[i].qg \in Nat
      BY <3>1, <3>2 DEF SameAccounts, Profile
    <3> QED  BY <2>0, <3>1, <3>3
  <2>4. \/ UNCHANGED pool \/ (\E i \in DOMAIN pool : ClearFailure(i)) \/ MarkExhausted(handle[q])
    BY DEF Moves, Arrive, Select, Verify, Admit, Served, Healthy, Rejected, RejectedLate, Failover,
       RejectedForGood, MoveOn, rotator
  <2> QED  BY <2>1, <2>2, <2>3, <2>4
<1> QED  BY <1>1, <1>3, <1>4

(***************************************************************************)
(* Paused and removed accounts.                                            *)
(***************************************************************************)

\* Once a request has been through its second refresh.
Verified == {"admit", "sent", "recovering", "rotate", "resent"}

\* The pool and the snapshot on its way agree with the store, and with each
\* other, when their revisions do.  A request's barred accounts are barred in
\* the store, in a snapshot that was begun after its first refresh, and in the
\* pool after its second one.
PauseInv ==
  /\ observed = revision => Servable(pool) = Servable(store)
  /\ refresh # None => /\ refresh.rev = revision => Servable(refresh.accounts) = Servable(store)
                       /\ refresh.rev = observed => Servable(refresh.accounts) = Servable(pool)
  /\ \A r \in Request :
       /\ Servable(store) \cap barred[r] = {}
       /\ phase[r] \in Verified \cup {"select", "held", "verifying"} /\ refresh # None
            => Servable(refresh.accounts) \cap barred[r] = {}
       /\ phase[r] \in Verified => Servable(pool) \cap barred[r] = {}

LEMMA ServableSame ==
  ASSUME NEW s, NEW t, SameAccounts(s, t)
  PROVE  Servable(t) = Servable(s)
BY DEF Servable, SameAccounts

LEMMA PauseMoves ==
  ASSUME Inv, PauseInv, PausedGetNoNewRequest, NEW q \in Request, Moves(q)
  PROVE  PauseInv' /\ PausedGetNoNewRequest'
<1>1. /\ \A r \in Request \ {q} :
            phase'[r] = phase[r] /\ handle'[r] = handle[r] /\ barred'[r] = barred[r]
      /\ UNCHANGED <<store, revision, gone, observed>>
      /\ SameAccounts(pool, pool')
  BY MovesFrame
<1>2. Servable(pool') = Servable(pool) /\ Servable(store') = Servable(store)
  BY <1>1, ServableSame
<1>3. UNCHANGED refresh \/ (refresh = None /\ refresh' = [accounts |-> store, rev |-> revision])
  BY DEF Moves, Arrive, Select, Verify, Admit, Served, Healthy, Rejected, RejectedLate, Failover,
     RejectedForGood, MoveOn, JoinRefresh, source
<1>4. /\ observed' = revision' => Servable(pool') = Servable(store')
      /\ refresh' # None => /\ refresh'.rev = revision' => Servable(refresh'.accounts) = Servable(store')
                            /\ refresh'.rev = observed' => Servable(refresh'.accounts) = Servable(pool')
  BY <1>1, <1>2, <1>3 DEF PauseInv
\* A snapshot that this step takes is the store.
<1>5. ASSUME NEW r \in Request, Servable(store) \cap barred'[r] = {},
             refresh # None => Servable(refresh.accounts) \cap barred'[r] = {}
      PROVE  refresh' # None => Servable(refresh'.accounts) \cap barred'[r] = {}
  BY <1>3, <1>5
<1> DEFINE Kept(r) ==
      /\ Servable(store') \cap barred'[r] = {}
      /\ phase'[r] \in Verified \cup {"select", "held", "verifying"} /\ refresh' # None
           => Servable(refresh'.accounts) \cap barred'[r] = {}
      /\ phase'[r] \in Verified => Servable(pool') \cap barred'[r] = {}
      /\ phase'[r] \in {"sent", "resent"} => handle'[r].id \notin barred'[r]
<1>6. ASSUME NEW r \in Request \ {q} PROVE Kept(r)
  BY <1>1, <1>2, <1>5 DEF PauseInv, PausedGetNoNewRequest
<1>7. Kept(q)
  <2>0. phase \in [Request -> Phase] /\ barred \in [Request -> SUBSET Account] /\ handle \in [Request -> Handle \cup {None}]
    BY DEF Inv, RequestInv
  <2>1. CASE Ends(q)
    <3>1. phase'[q] = "done" /\ barred'[q] = {}
      BY <2>0, <2>1 DEF Ends, Goto
    <3> QED  BY <3>1 DEF Verified
  <2>2. CASE Arrive(q)
    <3>1. phase'[q] = "refreshing" /\ barred'[q] = Account \ Servable(store)
      BY <2>0, <2>2 DEF Arrive, Goto
    <3> QED  BY <1>2, <3>1 DEF Verified
  <2>3. CASE Verify(q) \/ Rejected(q)
    <3>1. /\ phase[q] \in Verified \cup {"held"} /\ barred'[q] = barred[q]
          /\ phase'[q] \in {"verifying", "recovering"}
          /\ phase'[q] = "recovering" => phase[q] = "sent"
      BY <2>0, <2>3 DEF Verify, Rejected, Goto, context, Verified
    <3>2. Servable(pool) \cap barred[q] = {} \/ phase'[q] = "verifying"
      BY <3>1 DEF PauseInv, Verified
    <3> QED  BY <1>2, <1>5, <3>1, <3>2 DEF PauseInv, Verified
  <2>4. CASE Admit(q) /\ ~Ends(q)
    <3>1. Current(handle[q]) /\ phase[q] = "admit" /\ phase'[q] = "sent" /\ UNCHANGED <<handle, barred, refresh>>
      BY <2>0, <2>4 DEF Admit, Goto, context, source
    <3>2. handle[q].id \in Servable(pool)
      BY <3>1 DEF Current, SameHandle, Usable, Servable
    <3> QED  BY <1>2, <3>1, <3>2 DEF PauseInv, Verified
  <2>5. ASSUME NEW excluded, NEW tried, NEW p \in {"held", "resent"},
               Take(q, Candidates(excluded, tried), p), ~Ends(q), UNCHANGED refresh,
               phase[q] \in {"select"} \cup Verified, p = "resent" => phase[q] \in Verified
        PROVE  Kept(q)
    <3> DEFINE c == Choice(Candidates(excluded, tried))
    <3>1. Candidates(excluded, tried) # {}
      BY <2>5 DEF Take
    <3>2. c \in DOMAIN pool /\ Usable(pool[c])
      BY <3>1, Chooses DEF Inv, RotatorInv
    <3>3. /\ handle' = [handle EXCEPT ![q] = HandleOf(pool[c])] /\ Goto(q, p) /\ UNCHANGED barred
      BY <2>5, <3>1 DEF Take
    <3> HIDE DEF c
    <3>4. handle'[q].id \in Servable(pool) /\ phase'[q] = p
      BY <2>0, <3>2, <3>3 DEF HandleOf, Usable, Servable, Goto
    <3> QED  BY <1>2, <2>5, <3>3, <3>4 DEF PauseInv, Verified
  <2>6. CASE (Select(q) \/ RejectedLate(q) \/ Failover(q) \/ RejectedForGood(q)) /\ ~Ends(q)
    <3>1. CASE Select(q)
      BY <2>5, <2>6, <3>1 DEF Select, source
    <3>2. CASE ~Select(q)
      <4>1. PICK others \in {{}, Others(q)} : MoveOn(q, others)
        BY <2>6, <3>2 DEF RejectedLate, Failover, RejectedForGood
      <4>2. Take(q, Candidates({handle[q].id}, {handle[q].cred}), "resent") /\ UNCHANGED refresh
        BY <2>6, <4>1 DEF MoveOn, Others, source
      <4>3. phase[q] \in Verified
        BY <2>6, <3>2 DEF RejectedLate, Failover, RejectedForGood, Verified
      <4> QED  BY <2>5, <2>6, <4>2, <4>3
    <3> QED  BY <3>1, <3>2
  <2>7. CASE Served(q) \/ Healthy(q)
    BY <2>1, <2>7 DEF Served, Healthy
  <2> QED  BY <2>1, <2>2, <2>3, <2>4, <2>6, <2>7 DEF Moves
<1>8. \A r \in Request : Kept(r)
  BY <1>6, <1>7
<1>9. PausedGetNoNewRequest'
  BY <1>8 DEF PausedGetNoNewRequest
<1> QED  BY <1>4, <1>8, <1>9 DEF PauseInv

LEMMA PauseStep ==
  Inv /\ PauseInv /\ PausedGetNoNewRequest /\ [Next]_vars => PauseInv' /\ PausedGetNoNewRequest'
<1> SUFFICES ASSUME Inv, PauseInv, PausedGetNoNewRequest, [Next]_vars
             PROVE  PauseInv' /\ PausedGetNoNewRequest'
  OBVIOUS
<1>0. /\ phase \in [Request -> Phase] /\ revision \in Nat /\ observed \in 1..revision
      /\ refresh # None => refresh.rev \in 1..revision
  BY DEF Inv, RequestInv, DiskInv, SourceInv
<1>1. CASE \E q \in Request : Moves(q)
  BY <1>1, PauseMoves
\* Nothing but the writer's wake-ups.
<1>2. CASE /\ UNCHANGED <<pool, store, revision, observed, refresh, handle, barred>>
           /\ EndPasses \/ UNCHANGED phase
  <2>1. \A r \in Request : phase'[r] = phase[r] \/ (phase[r] = "recovering" /\ phase'[r] = "rotate")
    BY <1>2, <1>0 DEF EndPasses
  <2>2. \A r \in Request :
          /\ phase'[r] \in Verified => phase[r] \in Verified
          /\ phase'[r] \in {"select", "held", "verifying", "sent", "resent"} => phase'[r] = phase[r]
    BY <2>1 DEF Verified
  <2>3. /\ pool' = pool /\ store' = store /\ revision' = revision /\ observed' = observed
        /\ refresh' = refresh /\ handle' = handle /\ barred' = barred
    BY <1>2
  <2>4. PausedGetNoNewRequest'
    BY <2>2, <2>3 DEF PausedGetNoNewRequest
  <2>5. ASSUME NEW r \in Request
        PROVE  /\ Servable(store') \cap barred'[r] = {}
               /\ phase'[r] \in Verified \cup {"select", "held", "verifying"} /\ refresh' # None
                    => Servable(refresh'.accounts) \cap barred'[r] = {}
               /\ phase'[r] \in Verified => Servable(pool') \cap barred'[r] = {}
    BY <2>2, <2>3 DEF PauseInv
  <2>6. /\ observed' = revision' => Servable(pool') = Servable(store')
        /\ refresh' # None => /\ refresh'.rev = revision' => Servable(refresh'.accounts) = Servable(store')
                              /\ refresh'.rev = observed' => Servable(refresh'.accounts) = Servable(pool')
    BY <2>3 DEF PauseInv
  <2> QED  BY <2>4, <2>5, <2>6 DEF PauseInv
<1>3. CASE UNCHANGED vars \/ Tick \/ BeginPass \/ WriteFails \/ RetryFires \/ CliLocks
  BY <1>2, <1>3
  DEF vars, Tick, BeginPass, WriteFails, RetryFires, CliLocks, PassFails, disk, rotator, source,
      request, context
<1>4. CASE EndPass
  <2>1. SameAccounts(store, store') /\ SameAccounts(store', pool')
    BY <1>4, EndPassInv
  <2>2. Servable(store') = Servable(store) /\ Servable(pool') = Servable(store)
    BY <2>1, ServableSame
  <2>3. /\ revision' = revision + 1 /\ observed' = revision + 1
        /\ UNCHANGED <<refresh, handle, barred>>
        /\ EndPasses \/ UNCHANGED phase
    BY <1>4 DEF EndPass, context
  <2>4. \A r \in Request : phase'[r] = phase[r] \/ (phase[r] = "recovering" /\ phase'[r] = "rotate")
    BY <2>3, <1>0 DEF EndPasses
  <2>5. refresh # None => refresh.rev # revision + 1
    BY <1>0
  <2>6. refresh' = refresh /\ handle' = handle /\ barred' = barred
    BY <2>3
  <2>7. \A r \in Request :
          phase'[r] \in Verified \cup {"select", "held", "verifying"}
            => phase[r] \in Verified \cup {"select", "held", "verifying"}
    BY <2>4 DEF Verified
  <2>8. PausedGetNoNewRequest'
    BY <2>4, <2>6 DEF PausedGetNoNewRequest
  <2>9. ASSUME NEW r \in Request
        PROVE  /\ Servable(store') \cap barred'[r] = {}
               /\ phase'[r] \in Verified \cup {"select", "held", "verifying"} /\ refresh' # None
                    => Servable(refresh'.accounts) \cap barred'[r] = {}
               /\ phase'[r] \in Verified => Servable(pool') \cap barred'[r] = {}
    BY <2>2, <2>6, <2>7 DEF PauseInv
  <2> QED  BY <2>2, <2>3, <2>5, <2>6, <2>8, <2>9 DEF PauseInv
<1>5. CASE RefreshEnds
  <2>1. /\ refresh # None /\ refresh' = None
        /\ UNCHANGED <<store, revision, handle, barred>>
        /\ phase' = [r \in Request |-> CASE phase[r] = "refreshing" -> "select"
                                        [] phase[r] = "verifying" -> "admit"
                                        [] OTHER -> phase[r]]
    BY <1>5 DEF RefreshEnds, disk, context
  <2>2. Servable(pool') = Servable(refresh.accounts) /\ observed' = refresh.rev
    <3>1. CASE refresh.rev # observed
      BY <1>5, <3>1, RefreshEndsInv, ServableSame DEF RefreshEnds
    <3>2. CASE refresh.rev = observed
      BY <1>5, <2>1, <3>2, RefreshEndsInv DEF RefreshEnds, PauseInv
    <3> QED  BY <3>1, <3>2
  <2>3. ASSUME NEW r \in Request
        PROVE  /\ Servable(store') \cap barred'[r] = {}
               /\ phase'[r] \in Verified => Servable(pool') \cap barred'[r] = {}
               /\ phase'[r] \in {"sent", "resent"} => phase[r] = phase'[r]
    <3>1. \/ phase[r] = "refreshing" /\ phase'[r] = "select"
          \/ phase[r] = "verifying" /\ phase'[r] = "admit"
          \/ phase[r] # "refreshing" /\ phase[r] # "verifying" /\ phase'[r] = phase[r]
      BY <2>1
    <3> QED  BY <2>1, <2>2, <3>1 DEF PauseInv, Verified
  <2> QED  BY <2>1, <2>2, <2>3 DEF PauseInv, PausedGetNoNewRequest
<1>6. CASE CliWritesSome
  <2>1. PICK next : CliWrites(next)
    BY <1>6 DEF CliWritesSome
  <2>2. /\ store' = next /\ revision' = revision + 1
        /\ barred' = [r \in Request |-> barred[r] \ Servable(next)]
        /\ UNCHANGED <<pool, observed, refresh, phase, handle>>
    BY <2>1 DEF CliWrites, rotator, source
  <2>3. observed # revision + 1 /\ (refresh # None => refresh.rev # revision + 1)
    BY <1>0
  <2>4. \A r \in Request : barred'[r] = barred[r] \ Servable(next)
    BY <2>2
  <2> QED  BY <2>2, <2>3, <2>4 DEF PauseInv, PausedGetNoNewRequest
<1> QED  BY <1>1, <1>3, <1>4, <1>5, <1>6, Steps

\* "Paused accounts never receive new requests": for any number of requests
\* that share refreshes, and any writes of the CLI.
THEOREM PausedGetNone == Spec => []PausedGetNoNewRequest
<1>1. Init => PauseInv /\ PausedGetNoNewRequest
  <2> SUFFICES ASSUME Init PROVE PauseInv /\ PausedGetNoNewRequest
    OBVIOUS
  <2>1. SameAccounts(store, pool)
    <3>1. Inv
      BY InitInv
    <3>2. \A i \in DOMAIN store : store[i] \in Profile
      BY <3>1, LenProperties, ElementOfSeq DEF Inv, DiskInv, Profiles
    <3>3. pool = [i \in DOMAIN store |-> [store[i] EXCEPT !.rev = 1]]
      BY DEF Init
    <3> QED  BY <3>2, <3>3 DEF SameAccounts, Profile
  <2>2. Servable(pool) = Servable(store)
    BY <2>1, ServableSame
  <2> QED  BY <2>2 DEF Init, PauseInv, PausedGetNoNewRequest, Verified
<1> QED  BY <1>1, SpecInv, PauseStep, PTL DEF Spec

(***************************************************************************)
(* One recovery for a handle.                                              *)
(***************************************************************************)
Ids(s) == {s[i].id : i \in DOMAIN s}

\* An account that was never removed is everywhere, so the pool has never
\* forgotten its generations; a request that recovers has moved the one it saw.
RecoveryInv ==
  /\ Account \ gone \subseteq Ids(store) /\ Account \ gone \subseteq Ids(pool)
  /\ refresh # None => Account \ gone \subseteq Ids(refresh.accounts)
  /\ \A r \in Request : phase[r] = "recovering" /\ handle[r].id \notin gone =>
       /\ handle[r].qg \in Nat
       /\ \A i \in DOMAIN pool : pool[i].id = handle[r].id => pool[i].qg > handle[r].qg

LEMMA SameIds ==
  ASSUME NEW s, NEW t, SameAccounts(s, t)
  PROVE  Ids(t) = Ids(s)
BY DEF Ids, SameAccounts

\* Generations of the pool only grow: what a recovering request has moved on
\* from stays behind.
LEMMA RecoveryKept ==
  ASSUME Inv, Inv', RecoveryInv, gone \subseteq gone',
         \A i \in DOMAIN pool, j \in DOMAIN pool' :
           pool[i].id = pool'[j].id => pool'[j].qg >= pool[i].qg,
         NEW r \in Request, phase[r] = "recovering", handle[r].id \notin gone',
         handle'[r] = handle[r]
  PROVE  /\ handle'[r].qg \in Nat
         /\ \A j \in DOMAIN pool' : pool'[j].id = handle'[r].id => pool'[j].qg > handle'[r].qg
<1>1. handle[r].qg \in Nat
  BY DEF RecoveryInv
<1>2. ASSUME NEW j \in DOMAIN pool', pool'[j].id = handle[r].id
      PROVE  pool'[j].qg > handle[r].qg
  <2>1. pool'[j] \in Profile
    BY LenProperties, ElementOfSeq DEF Inv, RotatorInv, Profiles
  <2>2. PICK i \in DOMAIN pool : pool[i].id = handle[r].id
    BY <1>2, <2>1 DEF RecoveryInv, Ids, Profile
  <2>3. pool[i] \in Profile
    BY LenProperties, ElementOfSeq DEF Inv, RotatorInv, Profiles
  <2>4. pool[i].qg > handle[r].qg /\ pool'[j].qg >= pool[i].qg
    BY <1>2, <2>2 DEF RecoveryInv
  <2>5. pool[i].qg \in Nat /\ pool'[j].qg \in Nat
    BY <2>1, <2>3 DEF Profile
  <2> QED  BY <1>1, <2>4, <2>5
<1> QED  BY <1>1, <1>2

LEMMA RecoveryMoves ==
  ASSUME Inv, Inv', RecoveryInv, RecoveryIsUnique, NEW q \in Request, Moves(q)
  PROVE  RecoveryInv' /\ RecoveryIsUnique'
<1>1. /\ \A r \in Request \ {q} : phase'[r] = phase[r] /\ handle'[r] = handle[r]
      /\ UNCHANGED <<store, revision, gone>>
      /\ SameAccounts(pool, pool')
      /\ \A i \in DOMAIN pool : pool'[i].qg >= pool[i].qg
  BY MovesFrame
<1>2. Ids(pool') = Ids(pool)
  BY <1>1, SameIds
<1>3. UNCHANGED refresh \/ (refresh = None /\ refresh' = [accounts |-> store, rev |-> revision])
  BY DEF Moves, Arrive, Select, Verify, Admit, Served, Healthy, Rejected, RejectedLate, Failover,
     RejectedForGood, MoveOn, JoinRefresh, source
<1>4. /\ Account \ gone' \subseteq Ids(store') /\ Account \ gone' \subseteq Ids(pool')
      /\ refresh' # None => Account \ gone' \subseteq Ids(refresh'.accounts)
  BY <1>1, <1>2, <1>3 DEF RecoveryInv
<1>5. \A i \in DOMAIN pool, j \in DOMAIN pool' : pool[i].id = pool'[j].id => pool'[j].qg >= pool[i].qg
  BY <1>1 DEF SameAccounts, Inv, RotatorInv, Profiles, Unique
<1> DEFINE Moved(r) == /\ handle'[r].qg \in Nat
                       /\ \A j \in DOMAIN pool' : pool'[j].id = handle'[r].id => pool'[j].qg > handle'[r].qg
<1>6. ASSUME NEW r \in Request \ {q}, phase'[r] = "recovering", handle'[r].id \notin gone'
      PROVE  Moved(r)
  BY <1>1, <1>5, <1>6, RecoveryKept
<1>7. CASE ~Rejected(q)
  <2>1. phase'[q] # "recovering"
    <3>1. CASE Select(q) \/ RejectedLate(q) \/ Failover(q) \/ RejectedForGood(q)
      <4>1. Ends(q) \/ \E offsets : \E p \in {"held", "resent"} : Take(q, offsets, p)
        BY <3>1 DEF Select, RejectedLate, Failover, RejectedForGood, MoveOn
      <4>2. Ends(q) \/ Goto(q, "held") \/ Goto(q, "resent")
        BY <4>1 DEF Take
      <4> QED  BY <4>2 DEF Ends, Goto, Inv, RequestInv
    <3>2. CASE ~(Select(q) \/ RejectedLate(q) \/ Failover(q) \/ RejectedForGood(q))
      BY <1>7, <3>2
      DEF Moves, Arrive, Verify, Admit, Served, Healthy, Ends, Goto, Inv, RequestInv
    <3> QED  BY <3>1, <3>2
  <2> QED  BY <1>1, <1>4, <1>6, <2>1 DEF RecoveryInv, RecoveryIsUnique
<1>8. CASE Rejected(q)
  <2>1. PICK i \in DOMAIN pool : SameHandle(pool[i], handle[q])
    BY <1>8 DEF Rejected
  <2>2. handle'[q] = handle[q] /\ MarkExhausted(handle[q])
    BY <1>8 DEF Rejected, context
  <2>3. pool[i] \in Profile /\ Profiles(pool)
    BY LenProperties, ElementOfSeq DEF Inv, RotatorInv, Profiles
  <2>4. handle[q].qg = pool[i].qg /\ handle[q].qg \in Nat /\ handle[q].id = pool[i].id
    BY <2>1, <2>3 DEF SameHandle, Profile
  <2>5. pool'[i].qg > pool[i].qg
    BY <2>1, <2>2, MarkedPool DEF Inv, RotatorInv, ClockInv
  <2>6. Moved(q)
    BY <1>1, <2>2, <2>3, <2>4, <2>5 DEF SameAccounts, Profiles, Unique
  <2>7. ASSUME NEW r \in Request \ {q}, phase[r] = "recovering", handle[r].id \notin gone
        PROVE  handle[r] # handle[q]
    <3>1. pool[i].id = handle[r].id => pool[i].qg > handle[r].qg /\ handle[r].qg \in Nat
      BY <2>7 DEF RecoveryInv
    <3>2. handle[r] = handle[q] => pool[i].qg > pool[i].qg
      BY <2>4, <3>1
    <3>3. pool[i].qg \in Nat
      BY <2>3 DEF Profile
    <3> QED  BY <3>2, <3>3
  <2>8. \A r \in Request : phase'[r] = "recovering" /\ handle'[r].id \notin gone' => Moved(r)
    BY <1>6, <2>6
  <2> HIDE DEF Moved
  <2>9. RecoveryIsUnique'
    BY <1>1, <2>2, <2>7 DEF RecoveryIsUnique
  <2> QED  BY <1>4, <2>8, <2>9 DEF RecoveryInv, Moved
<1> QED  BY <1>7, <1>8

LEMMA RecoveryStep ==
  Inv /\ RecoveryInv /\ RecoveryIsUnique /\ [Next]_vars => RecoveryInv' /\ RecoveryIsUnique'
<1> SUFFICES ASSUME Inv, RecoveryInv, RecoveryIsUnique, [Next]_vars
             PROVE  RecoveryInv' /\ RecoveryIsUnique'
  OBVIOUS
<1>0. Inv' /\ phase \in [Request -> Phase]
  BY StepInv DEF Inv, RequestInv
<1>1. CASE \E q \in Request : Moves(q)
  BY <1>0, <1>1, RecoveryMoves
\* No other step starts a recovery.
<1>2. ASSUME \A r \in Request : phase'[r] = "recovering" => phase[r] = "recovering",
             UNCHANGED handle, gone \subseteq gone',
             /\ Account \ gone' \subseteq Ids(store') /\ Account \ gone' \subseteq Ids(pool')
             /\ refresh' # None => Account \ gone' \subseteq Ids(refresh'.accounts),
             \A i \in DOMAIN pool, j \in DOMAIN pool' : pool[i].id = pool'[j].id => pool'[j].qg >= pool[i].qg
      PROVE  RecoveryInv' /\ RecoveryIsUnique'
  <2>1. ASSUME NEW r \in Request, phase'[r] = "recovering", handle'[r].id \notin gone'
        PROVE  /\ handle'[r].qg \in Nat
               /\ \A j \in DOMAIN pool' : pool'[j].id = handle'[r].id => pool'[j].qg > handle'[r].qg
    BY <1>0, <1>2, <2>1, RecoveryKept
  <2>2. RecoveryIsUnique'
    BY <1>2 DEF RecoveryIsUnique
  <2> QED  BY <1>2, <2>1, <2>2 DEF RecoveryInv
<1>3. UNCHANGED pool =>
        \A i \in DOMAIN pool, j \in DOMAIN pool' : pool[i].id = pool'[j].id => pool'[j].qg >= pool[i].qg
  <2>1. \A i \in DOMAIN pool : pool[i] \in Profile
    BY LenProperties, ElementOfSeq DEF Inv, RotatorInv, Profiles
  <2>2. \A i \in DOMAIN pool : pool[i].qg \in Nat
    BY <2>1 DEF Profile
  <2> QED  BY <2>2 DEF Inv, RotatorInv, Profiles, Unique
<1>4. CASE UNCHANGED vars \/ Tick \/ BeginPass \/ WriteFails \/ RetryFires \/ CliLocks
  <2>1. /\ UNCHANGED <<pool, store, gone, refresh, handle>>
        /\ EndPasses \/ UNCHANGED phase
    BY <1>4 DEF vars, Tick, BeginPass, WriteFails, RetryFires, CliLocks, PassFails, disk, rotator,
       source, request, context
  <2>2. \A r \in Request : phase'[r] = "recovering" => phase[r] = "recovering"
    BY <2>1, <1>0 DEF EndPasses
  <2> QED  BY <1>2, <1>3, <2>1, <2>2 DEF RecoveryInv
<1>5. CASE EndPass
  <2>1. /\ SameAccounts(store, store') /\ SameAccounts(store', pool')
        /\ \A i \in DOMAIN pool, j \in DOMAIN pool' : pool[i].id = pool'[j].id => pool'[j].qg >= pool[i].qg
    BY <1>5, EndPassInv
  <2>2. Ids(store') = Ids(store) /\ Ids(pool') = Ids(store)
    BY <2>1, SameIds
  <2>3. /\ UNCHANGED <<refresh, handle, gone>>
        /\ EndPasses \/ UNCHANGED phase
    BY <1>5 DEF EndPass, context
  <2>4. \A r \in Request : phase'[r] = "recovering" => phase[r] = "recovering"
    BY <2>3, <1>0 DEF EndPasses
  <2>5. /\ Account \ gone' \subseteq Ids(store') /\ Account \ gone' \subseteq Ids(pool')
        /\ refresh' # None => Account \ gone' \subseteq Ids(refresh'.accounts)
    BY <2>2, <2>3 DEF RecoveryInv
  <2>6. UNCHANGED handle /\ gone \subseteq gone'
    BY <2>3
  <2> QED  BY <1>2, <2>1, <2>4, <2>5, <2>6
<1>6. CASE RefreshEnds
  <2>1. /\ refresh # None /\ refresh' = None /\ UNCHANGED <<store, gone, handle>>
        /\ phase' = [r \in Request |-> CASE phase[r] = "refreshing" -> "select"
                                        [] phase[r] = "verifying" -> "admit"
                                        [] OTHER -> phase[r]]
    BY <1>6 DEF RefreshEnds, disk, context
  <2>2. \A r \in Request : phase'[r] = "recovering" => phase[r] = "recovering"
    BY <2>1
  <2>3. CASE refresh.rev # observed
    <3>1. /\ SameAccounts(refresh.accounts, pool')
          /\ \A i \in DOMAIN pool, j \in DOMAIN pool' : pool[i].id = pool'[j].id => pool'[j].qg >= pool[i].qg
      BY <1>6, <2>3, RefreshEndsInv
    <3>2. Ids(pool') = Ids(refresh.accounts)
      BY <3>1, SameIds
    <3> QED  BY <1>2, <2>1, <2>2, <3>1, <3>2 DEF RecoveryInv
  <2>4. CASE refresh.rev = observed
    <3>1. UNCHANGED pool
      BY <1>6, <2>4 DEF RefreshEnds, rotator
    <3> QED  BY <1>2, <1>3, <2>1, <2>2, <3>1 DEF RecoveryInv
  <2> QED  BY <2>3, <2>4
<1>7. CASE CliWritesSome
  <2>1. PICK next : CliWrites(next)
    BY <1>7 DEF CliWritesSome
  <2>2. /\ store' = next /\ UNCHANGED <<pool, refresh, phase, handle>>
        /\ gone' = gone \cup {store[i].id : i \in {k \in DOMAIN store :
                                \A j \in DOMAIN next : next[j].id # store[k].id}}
    BY <2>1 DEF CliWrites, rotator, source
  <2>3. Account \ gone' \subseteq Ids(store')
    BY <2>2 DEF RecoveryInv, Ids
  <2>4. gone \subseteq gone'
    BY <2>2
  <2> QED  BY <1>2, <1>3, <2>2, <2>3, <2>4 DEF RecoveryInv
<1> QED  BY <1>1, <1>4, <1>5, <1>6, <1>7, Steps

\* However many requests are rejected on the same handle, one of them recovers
\* and marks the account.
THEOREM OneRecovery == Spec => []RecoveryIsUnique
<1>1. Init => RecoveryInv /\ RecoveryIsUnique
  <2> SUFFICES ASSUME Init PROVE RecoveryInv /\ RecoveryIsUnique
    OBVIOUS
  <2>1. PICK order \in [1..Cardinality(Account) -> Account], creds \in [Account -> Cred], r \in {0, 1} :
          /\ \A i, j \in DOMAIN order : order[i] = order[j] => i = j
          /\ store = [i \in DOMAIN order |->
               [id |-> order[i], cred |-> creds[order[i]], rev |-> r, fg |-> 0,
                qg |-> 0, until |-> 0, failed |-> FALSE, paused |-> FALSE]]
    BY DEF Init
  <2>2. Ids(store) = {order[i] : i \in 1..Cardinality(Account)}
    BY <2>1 DEF Ids
  <2>3. Account \subseteq Ids(store)
    <3> DEFINE n == Cardinality(Account)
    <3>1. IsFiniteSet(Account) /\ n \in Nat
      BY PoolConstants, FS_CardinalityType DEF PoolConstants
    <3>2. IsFiniteSet(1..n) /\ Cardinality(1..n) = n
      BY <3>1, FS_Interval
    <3>3. order \in Injection(1..n, Account)
      BY <2>1 DEF Injection, IsInjective
    <3>4. order \in Surjection(1..n, Account)
      BY <3>1, <3>2, <3>3, FS_Injection
    <3>5. \A a \in Account : \E i \in 1..n : order[i] = a
      BY <3>4 DEF Surjection
    <3> QED  BY <2>2, <3>5
  <2>4. SameAccounts(store, pool)
    <3>1. Inv
      BY InitInv
    <3>2. \A i \in DOMAIN store : store[i] \in Profile
      BY <3>1, LenProperties, ElementOfSeq DEF Inv, DiskInv, Profiles
    <3>3. pool = [i \in DOMAIN store |-> [store[i] EXCEPT !.rev = 1]]
      BY DEF Init
    <3> QED  BY <3>2, <3>3 DEF SameAccounts, Profile
  <2>5. Ids(pool) = Ids(store)
    BY <2>4, SameIds
  <2> QED  BY <2>3, <2>5 DEF Init, RecoveryInv, RecoveryIsUnique
<1> QED  BY <1>1, SpecInv, RecoveryStep, PTL DEF Spec
=============================================================================
