------------------------------ MODULE CaptchaProofs ------------------------------
(***************************************************************************)
(* Proofs about the dispatcher of the captcha solver and the pool of its   *)
(* tokens, as MCCaptcha composes them: for every set of jobs, of takes and *)
(* of ids, and any limits on failures, solves and the size of the pool.    *)
(***************************************************************************)
EXTENDS MCCaptcha, SequenceTheorems, FiniteSetTheorems, TLAPS

\* A step of the composition is a step of each part or leaves it alone.
LEMMA EachPart ==
  [Next]_<<part, solverVars, poolVars>> => [Solver!Next]_Solver!vars /\ [Pool!Next]_Pool!vars
BY DEF Next, SolverNext, PoolNext, solverVars, poolVars, Solver!vars, Solver!worker, Pool!vars

(***************************************************************************)
(* The dispatcher implements SettledOnce: CaptchaSolver.                   *)
(***************************************************************************)
\* A job waits or runs once, from its submission until it is settled.
Waiting(q) == {q[i] : i \in 1..Len(q)}
Apart(q)   == \A i, j \in 1..Len(q) : q[i] = q[j] => i = j

SolverInv ==
  /\ queue \in Seq(Job) /\ inFlight \in Job \cup {None} /\ submitted \subseteq Job /\ settled \subseteq submitted
  /\ Apart(queue) /\ Waiting(queue) \subseteq submitted \ settled
  /\ inFlight # None => inFlight \in submitted \ settled /\ inFlight \notin Waiting(queue)

LEMMA SolverInit == Solver!Init => SolverInv
BY DEF Solver!Init, SolverInv, Waiting, Apart

\* What running the queue q does to the board when the jobs in done are over.
LEMMA PumpKeeps ==
  ASSUME NEW q \in Seq(Job), NEW kept, NEW s, NEW f, NEW done, Solver!Pump(q, kept, s, f, done),
         submitted' \subseteq Job, settled \subseteq submitted', done \subseteq submitted', Apart(q),
         Waiting(q) \subseteq submitted' \ (settled \cup done)
  PROVE  /\ SolverInv' /\ settled \cup done \subseteq settled'
<1>1. PICK n \in 0..Len(q), lost \in BOOLEAN :
        /\ settled' = settled \cup done \cup {q[i] : i \in 1..n}
        /\ \/ n = Len(q) /\ inFlight' = None /\ queue' = <<>>
           \/ n < Len(q) /\ inFlight' = q[n + 1] /\ queue' = SubSeq(q, n + 2, Len(q))
  BY DEF Solver!Pump, Solver!Dispatch
<1>2. \A i \in 1..Len(q) : q[i] \in Job
  OBVIOUS
<1>3. settled' \subseteq submitted'
  BY <1>1 DEF Waiting
<1>4. CASE n = Len(q) /\ inFlight' = None /\ queue' = <<>>
  BY <1>1, <1>3, <1>4 DEF SolverInv, Waiting, Apart
<1>5. CASE n < Len(q) /\ inFlight' = q[n + 1] /\ queue' = SubSeq(q, n + 2, Len(q))
  <2>1. queue' \in Seq(Job) /\ Len(queue') = Len(q) - n - 1 /\ \A i \in 1..Len(queue') : queue'[i] = q[n + 1 + i]
    BY SMTT(20), <1>5
  <2>2. \A i \in 1..Len(queue') : n + 1 + i \in 1..Len(q) /\ n + 1 + i > n + 1
    BY <1>5, <2>1
  <2>3. Apart(queue)'
    BY <1>5, <2>1, <2>2 DEF Apart
  <2>4. n + 1 \in 1..Len(q) /\ q[n + 1] \notin {q[i] : i \in 1..n}
    BY <1>5 DEF Apart
  <2>5. \A i \in 1..Len(queue') : queue'[i] # q[n + 1] /\ queue'[i] \notin {q[k] : k \in 1..n}
    BY <1>5, <2>1, <2>2, <2>4 DEF Apart
  <2>6. Waiting(queue)' \subseteq submitted' \ settled' /\ inFlight' \in submitted' \ settled' /\ inFlight' \notin Waiting(queue)'
    <3>1. \A k \in 1..Len(q) : q[k] \in submitted' /\ q[k] \notin settled \cup done
      BY DEF Waiting
    <3>2. inFlight' \in submitted' \ settled'
      BY <1>1, <1>5, <2>4, <3>1
    <3>3. \A i \in 1..Len(queue') : queue'[i] \in submitted' \ settled'
      <4>1. TAKE i \in 1..Len(queue')
      <4>2. queue'[i] = q[n + 1 + i] /\ n + 1 + i \in 1..Len(q)
        BY <2>1, <2>2
      <4>3. queue'[i] \in submitted' /\ queue'[i] \notin settled \cup done
        BY <3>1, <4>2
      <4> QED  BY <1>1, <2>5, <4>3
    <3>4. inFlight' \notin Waiting(queue')
      BY <1>5, <2>5 DEF Waiting
    <3> QED  BY <3>2, <3>3, <3>4 DEF Waiting
  <2>7. inFlight' \in Job
    BY <1>2, <1>5, <2>4
  <2>8. Apart(queue')
    BY <2>3 DEF Apart
  <2>9. Waiting(queue') \subseteq submitted' \ settled' /\ inFlight' \notin Waiting(queue')
    BY <2>6 DEF Waiting
  <2> QED  BY <1>1, <1>3, <2>1, <2>6, <2>7, <2>8, <2>9 DEF SolverInv, Apart, Waiting
<1> QED  BY <1>1, <1>4, <1>5

\* A step of the dispatcher is one of the board.
BoardStep ==
  /\ submitted \subseteq submitted' /\ settled \subseteq settled'
  /\ inFlight # None => inFlight' = inFlight \/ inFlight \in settled'

LEMMA SolverStep ==
  ASSUME SolverInv, [Solver!Next]_Solver!vars
  PROVE  SolverInv' /\ BoardStep
<1>1. CASE UNCHANGED Solver!vars
  BY <1>1 DEF Solver!vars, SolverInv, BoardStep, Waiting, Apart
<1>2. ASSUME NEW j \in Job, Solver!Submit(j)
      PROVE  SolverInv' /\ BoardStep
  <2> DEFINE q == Append(queue, j)
  <2>1. j \notin submitted /\ submitted' = submitted \cup {j}
    BY <1>2 DEF Solver!Submit
  <2>2. q \in Seq(Job) /\ Len(q) = Len(queue) + 1 /\ q[Len(queue) + 1] = j /\ \A i \in 1..Len(queue) : q[i] = queue[i]
    BY DEF SolverInv
  <2>3. Waiting(q) = Waiting(queue) \cup {j}
    BY <2>2 DEF Waiting
  <2>4. Apart(q)
    BY <2>1, <2>2 DEF Apart, SolverInv, Waiting
  <2> HIDE DEF q
  <2>5. CASE inFlight = None
    <3>1. Solver!Pump(q, alive, solves, failures, {})
      BY <1>2, <2>5 DEF Solver!Submit, q
    <3>2. submitted' \subseteq Job /\ settled \subseteq submitted' /\ Waiting(q) \subseteq submitted' \ (settled \cup {})
      BY <2>1, <2>3 DEF SolverInv
    <3>3. SolverInv' /\ settled \subseteq settled'
      BY <2>2, <2>4, <3>1, <3>2, PumpKeeps
    <3> QED  BY <2>1, <2>5, <3>3 DEF BoardStep
  <2>6. CASE inFlight # None
    <3>1. queue' = q /\ UNCHANGED <<inFlight, settled>>
      BY <1>2, <2>6 DEF Solver!Submit, q
    <3> QED  BY <2>1, <2>2, <2>3, <2>4, <3>1 DEF SolverInv, BoardStep
  <2> QED  BY <2>5, <2>6
<1>3. ASSUME NEW kept, NEW s, NEW f, inFlight # None, Solver!Pump(queue, kept, s, f, {inFlight}), UNCHANGED submitted
      PROVE  SolverInv' /\ BoardStep
  <2>1. Waiting(queue) \subseteq submitted' \ (settled \cup {inFlight})
    BY <1>3 DEF SolverInv
  <2>2. SolverInv' /\ settled \cup {inFlight} \subseteq settled'
    BY <1>3, <2>1, PumpKeeps DEF SolverInv
  <2> QED  BY <1>3, <2>2 DEF BoardStep
<1>4. CASE Solver!Lost \/ \E a \in Solver!Answers : Solver!Result(a)
  BY <1>3, <1>4 DEF Solver!Lost, Solver!Result
<1>5. CASE Solver!Exits \/ Solver!IdleEnds \/ Solver!RequestRecycle \/ Solver!Shutdown
  BY <1>5 DEF Solver!Exits, Solver!IdleEnds, Solver!RequestRecycle, Solver!Shutdown, SolverInv, BoardStep, Waiting, Apart
<1> QED
  BY <1>1, <1>2, <1>4, <1>5 DEF Solver!Next

(***************************************************************************)
(* The dispatcher runs one job at a time and settles every job at most     *)
(* once, whatever the worker does and whoever recycles it: it implements   *)
(* SettledOnce (runCaptchaSolve, onWorkerMessage, failInFlight).           *)
(***************************************************************************)
THEOREM BoardTheorem == Spec => SolvesOneAtATime
<1> DEFINE run == IF inFlight = None THEN {} ELSE {inFlight}
<1>1. Init => SolverInv
  BY SolverInit DEF Init
<1>2. SolverInv /\ [Next]_<<part, solverVars, poolVars>> => SolverInv' /\ BoardStep
  BY EachPart, SolverStep
<1>3. Init => Solver!Board!Init
  BY DEF Init, Solver!Init, Solver!Board!Init
<1>4. ASSUME SolverInv', BoardStep
      PROVE  Solver!Board!Next
  <2>1. run' \subseteq submitted' \ settled' /\ run \subseteq run' \cup settled'
    BY <1>4 DEF SolverInv, BoardStep
  <2>2. Solver!Board!Cardinality(run') = Cardinality(run')
    BY DEF Solver!Board!Cardinality, Cardinality
  <2>3. Cardinality(run') <= 1
    BY FS_EmptySet, FS_Singleton
  <2> QED  BY <1>4, <2>1, <2>2, <2>3 DEF Solver!Board!Next, SolverInv, BoardStep
<1> QED  BY <1>1, <1>2, <1>3, <1>4, PTL DEF Spec, SolvesOneAtATime, Solver!SolvesOneAtATime, Solver!Board!Spec

(***************************************************************************)
(* The pool: CaptchaPool.                                                  *)
(***************************************************************************)
Attempts == [tries : Int, left : Int, got : Id \cup {None}]
Has(ch, c) == ch[c] # None /\ ch[c].got # None

\* A chain in the solver's line is there once and has no token yet, and one chain at most
\* has one: what it does with it comes before the next solve.
Chains(ch, l) ==
  /\ ch \in [Pool!Chain -> Attempts \cup {None}] /\ l \in Seq(Pool!Chain) /\ Apart(l)
  /\ \A k \in 1..Len(l) : ch[l[k]] # None /\ ch[l[k]].got = None
  /\ \A c, d \in Pool!Chain : Has(ch, c) /\ Has(ch, d) => c = d

\* The probe runs while the storm is probed, and a take that has not come has no chain.
Begun(ch, s, t) ==
  /\ ch["probe"] # None => s = "probing"
  /\ \A c \in Take : t[c] = "new" => ch[c] = None

\* A solved token that waits to be handed out or banked was not issued before, and what a
\* take got was.
Unissued(ch) == \A c \in Pool!Chain : Has(ch, c) => ch[c].got \notin issued
Counted == \A i \in Id : uses[i] \in {0, 1} /\ (uses[i] = 1 => i \in issued)

PoolInv ==
  /\ tokens \in Seq(Id) /\ target \in Int /\ DOMAIN take = Take /\ DOMAIN uses = Id
  /\ Chains(chain, line) /\ Begun(chain, storm, take) /\ Unissued(chain) /\ Counted

LEMMA PoolInit == Pool!Init => PoolInv
<1> SUFFICES ASSUME Pool!Init
             PROVE  PoolInv
  OBVIOUS
<1> USE DEF Pool!Init
<1>1. Pool!WarmUp \in Attempts /\ Pool!WarmUp.got = None /\ Pool!WarmUp # None
  BY RetriesAssumption, NoneAssumption DEF Pool!WarmUp, Attempts
<1>2. chain \in [Pool!Chain -> Attempts \cup {None}] /\ \A c \in Pool!Chain : ~Has(chain, c)
  BY <1>1 DEF Has
<1>3. line \in Seq(Pool!Chain) /\ Len(line) = 1 /\ line[1] = "warm" /\ "warm" \in Pool!Chain
  BY DEF Pool!Chain
<1>4. Chains(chain, line)
  BY <1>1, <1>2, <1>3 DEF Chains, Apart
<1>5. Begun(chain, storm, take)
  BY TakeAssumption DEF Begun, Pool!Chain
<1> QED  BY <1>2, <1>4, <1>5 DEF PoolInv, Unissued, Counted

\* A chain that starts goes into the line, and leaves the others as they are.
LEMMA StartsOne ==
  ASSUME NEW ch, NEW l, Chains(ch, l), NEW c \in Pool!Chain, ch[c] = None, NEW left \in Int, Pool!Started(ch, l, c, left)
  PROVE  /\ Chains(chain, line)' /\ chain'[c] # None /\ ~Has(chain', c)
         /\ \A d \in Pool!Chain : d # c => chain'[d] = ch[d]
<1> DEFINE first == [tries |-> IF c = "probe" THEN 1 ELSE SolveRetries, left |-> left, got |-> None]
<1>1. first \in Attempts /\ first.got = None
  BY RetriesAssumption DEF Attempts
<1>2. first # None
  BY <1>1, NoneAssumption DEF Attempts
<1>3. chain' = [ch EXCEPT ![c] = first] /\ line' = Append(l, c)
  BY DEF Pool!Started
<1> HIDE DEF first
<1>4. /\ chain' \in [Pool!Chain -> Attempts \cup {None}] /\ chain'[c] = first
      /\ \A d \in Pool!Chain : d # c => chain'[d] = ch[d]
  BY <1>1, <1>3 DEF Chains
<1>5. line' \in Seq(Pool!Chain) /\ Len(line') = Len(l) + 1 /\ line'[Len(l) + 1] = c /\ \A k \in 1..Len(l) : line'[k] = l[k]
  BY <1>3 DEF Chains
<1>6. \A k \in 1..Len(l) : l[k] # c /\ l[k] \in Pool!Chain
  BY DEF Chains
<1>7. Apart(line')
  BY <1>5, <1>6 DEF Apart, Chains
<1>8. \A k \in 1..Len(line') : chain'[line'[k]] # None /\ chain'[line'[k]].got = None
  BY <1>1, <1>2, <1>4, <1>5, <1>6 DEF Chains
<1>9. \A d, e \in Pool!Chain : Has(chain', d) /\ Has(chain', e) => d = e
  BY <1>1, <1>4 DEF Chains, Has
<1>10. Chains(chain', line')
  BY <1>4, <1>5, <1>7, <1>8, <1>9 DEF Chains
<1> QED  BY <1>1, <1>2, <1>4, <1>10 DEF Has, Chains, Apart

\* How many tokens are missing is a number: chains are finitely many.
LEMMA DeficitIsInt ==
  ASSUME NEW s \in Seq(Id), NEW n \in Int, NEW ch
  PROVE  Pool!Deficit(s, n, ch) \in Int
<1>1. IsFiniteSet(Pool!Chain)
  <2>1. IsFiniteSet({"fill"}) /\ IsFiniteSet({"warm"}) /\ IsFiniteSet({"probe"})
    BY FS_Singleton
  <2>2. Pool!Chain = Take \cup ({"fill"} \cup ({"warm"} \cup {"probe"}))
    BY DEF Pool!Chain
  <2> QED  BY <2>1, <2>2, TakeAssumption, FS_Union
<1>2. IsFiniteSet(Pool!Running(ch))
  BY <1>1, FS_Subset DEF Pool!Running
<1>3. Pool!Cardinality(Pool!Running(ch)) \in Nat
  <2>1. Pool!Cardinality(Pool!Running(ch)) = Cardinality(Pool!Running(ch))
    BY DEF Pool!Cardinality, Cardinality
  <2> QED  BY <1>2, <2>1, FS_CardinalityType
<1> QED  BY <1>3 DEF Pool!Deficit

\* What is left of a pool when the expired are gone.
LEMMA PrunedIsOfIds ==
  ASSUME NEW s \in Seq(Id), NEW r \in Pool!Pruned(s)
  PROVE  r \in Seq(Id)
<1>1. PICK n \in 1..(Len(s) + 1) : r = SubSeq(s, n, Len(s))
  BY DEF Pool!Pruned
<1> QED  BY <1>1, SubSeqProperties

LEMMA ResizedKeeps ==
  ASSUME target \in Int, NEW s, NEW r, Pool!Resized(s, r)
  PROVE  target' \in Int
BY DEF Pool!Resized, Pool!Floor

\* What is left of the pool when a refill is through with it.
LEMMA RefillTokens ==
  ASSUME NEW s \in Seq(Id), target \in Int, NEW ch, NEW urgent, Pool!Refill(urgent, s, ch)
  PROVE  tokens' \in Seq(Id) /\ target' \in Int
<1>1. PICK r \in Pool!Pruned(s) : Pool!Resized(s, r) /\ (tokens' = r \/ tokens' \in Pool!Pruned(r))
  BY DEF Pool!Refill
<1>2. target' \in Int
  BY <1>1, ResizedKeeps
<1>3. r \in Seq(Id)
  BY PrunedIsOfIds
<1>4. tokens' \in Seq(Id)
  BY <1>1, <1>3, PrunedIsOfIds
<1> QED  BY <1>2, <1>4

\* A refill may start the fill or the probe, with no token yet.
LEMMA RefillKeeps ==
  ASSUME NEW s \in Seq(Id), target \in Int, NEW ch, Chains(ch, line), NEW t, Begun(ch, storm, t), NEW urgent, Pool!Refill(urgent, s, ch)
  PROVE  /\ tokens' \in Seq(Id) /\ target' \in Int
         /\ Chains(chain, line)' /\ Begun(chain', storm', t)
         /\ \A c \in Pool!Chain : Has(chain', c) => chain'[c] = ch[c]
<1>2. tokens' \in Seq(Id) /\ target' \in Int
  BY RefillTokens
<1>3. CASE chain' = ch /\ UNCHANGED <<line, storm>>
  BY <1>2, <1>3 DEF Chains, Begun, Has, Apart
<1>4. CASE storm = "due" /\ Pool!Started(ch, line, "probe", 1) /\ storm' = "probing"
  <2>1. ch["probe"] = None /\ "probe" \in Pool!Chain
    BY <1>4 DEF Begun, Pool!Chain
  <2>2. /\ Chains(chain, line)' /\ ~Has(chain', "probe") /\ \A d \in Pool!Chain : d # "probe" => chain'[d] = ch[d]
    BY <1>4, <2>1, StartsOne
  <2>3. \A c \in Take : c \in Pool!Chain /\ c # "probe"
    BY TakeAssumption DEF Pool!Chain
  <2> QED  BY <1>2, <1>4, <2>2, <2>3 DEF Begun
<1>5. CASE /\ UNCHANGED storm /\ ch["fill"] = None
           /\ Pool!Started(ch, line, "fill", Pool!Deficit(tokens', target', ch))
  <2>1. Pool!Deficit(tokens', target', ch) \in Int /\ "fill" \in Pool!Chain /\ "probe" \in Pool!Chain
    BY <1>2, DeficitIsInt DEF Pool!Chain
  <2>2. /\ Chains(chain, line)' /\ ~Has(chain', "fill") /\ \A d \in Pool!Chain : d # "fill" => chain'[d] = ch[d]
    BY <1>5, <2>1, StartsOne
  <2>3. \A c \in Take : c \in Pool!Chain /\ c # "fill"
    BY TakeAssumption DEF Pool!Chain
  <2> QED  BY <1>2, <1>5, <2>1, <2>2, <2>3 DEF Begun
<1> QED  BY <1>3, <1>4, <1>5 DEF Pool!Refill

\* A token that is not issued is handed out.
LEMMA HandKeeps ==
  ASSUME Counted, DOMAIN take = Take, DOMAIN uses = Id, NEW t \in Take, NEW i, i \notin issued, Pool!Hand(t, i)
  PROVE  /\ Counted' /\ DOMAIN take' = Take /\ DOMAIN uses' = Id /\ issued' = issued \cup {i}
         /\ \A c \in Take : take'[c] = "new" => take[c] = "new" /\ c # t
BY DEF Counted, Pool!Hand

\* A banked token is handed out while no chain has one.
LEMMA HandBankedKeeps ==
  ASSUME PoolInv, NEW t \in Take, \A c \in Pool!Chain : ~Has(chain, c), NEW s \in Pool!Pruned(tokens), Pool!HandBanked(t, s)
  PROVE  PoolInv'
<1>1. PICK n \in Pool!Fresh(s) : Pool!Hand(t, s[n]) /\ Pool!Refill(TRUE, SubSeq(s, 1, n - 1), chain)
  BY DEF Pool!HandBanked
<1>2. n \in 1..Len(s) /\ s[n] \notin issued
  BY DEF Pool!Fresh
<1>3. SubSeq(s, 1, n - 1) \in Seq(Id)
  <2>1. s \in Seq(Id)
    BY PrunedIsOfIds DEF PoolInv
  <2> QED  BY <1>2, <2>1, SubSeqProperties
<1>4. /\ Counted' /\ DOMAIN take' = Take /\ DOMAIN uses' = Id
      /\ \A c \in Take : take'[c] = "new" => take[c] = "new" /\ c # t
  BY <1>1, <1>2, HandKeeps DEF PoolInv
<1>5. Begun(chain, storm, take')
  BY <1>4 DEF PoolInv, Begun
<1>6. /\ tokens' \in Seq(Id) /\ target' \in Int /\ Chains(chain, line)' /\ Begun(chain', storm', take')
      /\ \A c \in Pool!Chain : Has(chain', c) => chain'[c] = chain[c]
  BY <1>1, <1>3, <1>5, RefillKeeps DEF PoolInv
<1>7. \A c \in Pool!Chain : ~Has(chain', c)
  BY <1>6 DEF Has
<1> QED  BY <1>4, <1>6, <1>7 DEF PoolInv, Unissued, Chains, Begun, Counted, Apart

\* Where no chain waits to go on, none has a token.
LEMMA QuietHasNone ==
  ASSUME PoolInv, Pool!Quiet
  PROVE  \A c \in Pool!Chain : ~Has(chain, c)
BY DEF Pool!Quiet, Pool!Done, Pool!Running, Pool!Members, PoolInv, Chains, Has

\* What leaves the chains, the line and the history as they are.
LEMMA AsideKeeps ==
  ASSUME PoolInv, UNCHANGED <<chain, line, issued, uses>>, tokens' \in Seq(Id), target' \in Int, DOMAIN take' = Take,
         Begun(chain', storm', take')
  PROVE  PoolInv'
BY DEF PoolInv, Chains, Begun, Unissued, Counted, Has, Apart

LEMMA TakeArrivesKeeps ==
  ASSUME PoolInv, NEW t \in Take, Pool!TakeArrives(t)
  PROVE  PoolInv'
<1>1. Pool!Quiet /\ take[t] = "new" /\ t \in Pool!Chain
  BY DEF Pool!TakeArrives, Pool!Chain
<1>2. \A c \in Pool!Chain : ~Has(chain, c)
  BY <1>1, QuietHasNone
<1>3. ASSUME NEW to \in {"refused", "racing"}, take' = [take EXCEPT ![t] = to]
      PROVE  DOMAIN take' = Take /\ \A c \in Take : take'[c] = "new" => take[c] = "new" /\ c # t
  BY <1>3 DEF PoolInv
<1>4. CASE take' = [take EXCEPT ![t] = "refused"] /\ UNCHANGED <<tokens, target, storm, chain, line, issued, uses>>
  BY <1>3, <1>4, AsideKeeps DEF PoolInv, Begun
<1>5. ASSUME NEW s \in Pool!Pruned(tokens), Pool!HandBanked(t, s)
      PROVE  PoolInv'
  BY <1>2, <1>5, HandBankedKeeps
<1>6. CASE take' = [take EXCEPT ![t] = "refused"] /\ Pool!Refill(TRUE, <<>>, chain) /\ UNCHANGED <<issued, uses>>
  <2>1. Begun(chain, storm, take') /\ DOMAIN take' = Take
    BY <1>3, <1>6 DEF PoolInv, Begun
  <2>2. /\ tokens' \in Seq(Id) /\ target' \in Int /\ Chains(chain, line)' /\ Begun(chain', storm', take')
        /\ \A c \in Pool!Chain : Has(chain', c) => chain'[c] = chain[c]
    <3>1. <<>> \in Seq(Id)
      OBVIOUS
    <3> QED  BY <1>6, <2>1, <3>1, RefillKeeps DEF PoolInv
  <2>3. \A c \in Pool!Chain : ~Has(chain', c)
    BY <1>2, <2>2 DEF Has
  <2> QED  BY <1>6, <2>1, <2>2, <2>3 DEF PoolInv, Unissued, Counted, Chains, Begun, Apart
<1>7. CASE /\ take' = [take EXCEPT ![t] = "racing"] /\ Pool!Started(chain, line, t, 1)
           /\ tokens' = <<>> /\ target' \in Pool!Greater(target, 1)..PoolMax /\ UNCHANGED <<storm, issued, uses>>
  <2>1. chain[t] = None
    BY <1>1 DEF PoolInv, Begun
  <2>2. /\ Chains(chain, line)' /\ ~Has(chain', t) /\ \A d \in Pool!Chain : d # t => chain'[d] = chain[d]
    BY <1>1, <1>7, <2>1, StartsOne DEF PoolInv
  <2>3. "probe" \in Pool!Chain /\ "probe" # t /\ \A c \in Take : c \in Pool!Chain
    BY TakeAssumption DEF Pool!Chain
  <2>4. Begun(chain', storm', take') /\ DOMAIN take' = Take
    BY <1>3, <1>7, <2>2, <2>3 DEF PoolInv, Begun
  <2>5. \A c \in Pool!Chain : ~Has(chain', c)
    BY <1>2, <2>2 DEF Has
  <2>6. target' \in Int /\ tokens' \in Seq(Id)
    BY <1>7
  <2> QED  BY <1>7, <2>2, <2>4, <2>5, <2>6 DEF PoolInv, Unissued, Counted, Chains, Begun, Apart
<1> QED  BY <1>4, <1>5, <1>6, <1>7 DEF Pool!TakeArrives

LEMMA SolveEndsKeeps ==
  ASSUME PoolInv, NEW out \in Pool!Outcomes, Pool!SolveEnds(out)
  PROVE  PoolInv'
<1> DEFINE c == Head(line)
           ok == out \in Id /\ ~Pool!Duplicate(out)
<1>1. Pool!Quiet /\ line # <<>> /\ UNCHANGED <<tokens, target, take, issued, uses>>
  BY DEF Pool!SolveEnds
<1>2. \A d \in Pool!Chain : ~Has(chain, d)
  BY <1>1, QuietHasNone
<1>3. Len(line) >= 1 /\ c = line[1] /\ c \in Pool!Chain /\ chain[c] \in Attempts /\ chain[c] # None
  BY <1>1, HeadTailProperties DEF PoolInv, Chains
<1>4. chain' = [chain EXCEPT ![c].tries = chain[c].tries - 1, ![c].got = IF ok THEN out ELSE None]
  BY DEF Pool!SolveEnds
<1>5. /\ chain' \in [Pool!Chain -> Attempts \cup {None}] /\ chain'[c] \in Attempts /\ chain'[c].got = IF ok THEN out ELSE None
      /\ \A d \in Pool!Chain : d # c => chain'[d] = chain[d]
  <2> DEFINE got == IF ok THEN out ELSE None
  <2>1. got \in Id \cup {None}
    OBVIOUS
  <2> HIDE DEF ok, got
  <2>2. DOMAIN chain = Pool!Chain /\ DOMAIN chain' = Pool!Chain /\ \A d \in Pool!Chain : d # c => chain'[d] = chain[d]
    BY <1>4 DEF PoolInv, Chains
  <2>3. chain'[c] = [chain[c] EXCEPT !.tries = chain[c].tries - 1, !.got = got]
    BY <1>3, <1>4, <2>2 DEF got
  <2>4. chain'[c] \in Attempts /\ chain'[c].got = got
    <3>1. chain[c].tries - 1 \in Int /\ DOMAIN chain[c] = {"tries", "left", "got"} /\ chain[c].left \in Int
      BY <1>3 DEF Attempts
    <3>2. chain'[c] = [tries |-> chain[c].tries - 1, left |-> chain[c].left, got |-> got]
      BY <1>3, <2>3 DEF Attempts
    <3> QED  BY <2>1, <3>1, <3>2 DEF Attempts
  <2>5. chain' = [d \in Pool!Chain |-> chain'[d]]
    BY <1>4, <2>2
  <2>6. \A d \in Pool!Chain : chain'[d] \in Attempts \cup {None}
    BY <2>2, <2>4 DEF PoolInv, Chains
  <2>7. chain' \in [Pool!Chain -> Attempts \cup {None}]
    BY <2>5, <2>6
  <2> QED  BY <2>2, <2>4, <2>7 DEF got
<1>6. \A d \in Pool!Chain : Has(chain', d) => d = c /\ ok
  BY <1>2, <1>5 DEF Has
<1>7. chain'[c] # None
  BY <1>5, NoneAssumption DEF Attempts
<1>8. PICK again \in BOOLEAN : /\ again => ~ok
                               /\ line' = Pool!Admitted(IF again THEN Append(Tail(line), c) ELSE Tail(line), paused', storm')
  BY DEF Pool!SolveEnds
<1> DEFINE q == IF again THEN Append(Tail(line), c) ELSE Tail(line)
           n == Len(line) - 1
<1>9. /\ Tail(line) \in Seq(Pool!Chain) /\ Len(Tail(line)) = n /\ n \in Nat
      /\ \A k \in 1..n : Tail(line)[k] = line[k + 1] /\ k + 1 \in 1..Len(line) /\ k + 1 # 1
  BY <1>1, <1>3, HeadTailProperties DEF PoolInv, Chains
<1>10. \A k \in 1..n : Tail(line)[k] \in Pool!Chain /\ Tail(line)[k] # c
  BY <1>3, <1>9 DEF PoolInv, Chains, Apart
<1>11. Apart(Tail(line))
  BY <1>9 DEF PoolInv, Chains, Apart
<1>12. q \in Seq(Pool!Chain) /\ Apart(q) /\ \A k \in 1..Len(q) : q[k] \in Pool!Chain /\ (q[k] = c => ~ok)
  <2>1. CASE ~again
    BY <1>9, <1>10, <1>11, <2>1
  <2>2. CASE again
    <3>1. /\ q \in Seq(Pool!Chain) /\ Len(q) = n + 1 /\ q[n + 1] = c /\ \A k \in 1..n : q[k] = Tail(line)[k]
      BY <1>3, <1>9, <2>2
    <3> HIDE DEF q
    <3>2. Apart(q)
      <4>0. n \in Nat
        BY <1>9
      <4> HIDE DEF n
      <4>1. ASSUME NEW i \in 1..n, NEW j \in 1..n, q[i] = q[j]
            PROVE  i = j
        BY <1>9, <1>11, <3>1, <4>1 DEF Apart
      <4>2. \A i \in 1..n : q[i] # c
        BY <1>10, <3>1
      <4>3. \A i \in 1..Len(q) : i \in 1..n \/ i = n + 1
        BY <3>1, <4>0
      <4> QED  BY <3>1, <4>0, <4>1, <4>2, <4>3 DEF Apart
    <3>3. \A k \in 1..Len(q) : q[k] \in Pool!Chain
      BY <1>3, <1>9, <1>10, <3>1
    <3>4. ~ok
      BY <1>8, <2>2
    <3> QED  BY <3>1, <3>2, <3>3, <3>4
  <2> QED  BY <2>1, <2>2
<1>13. line' \in Seq(Pool!Chain) /\ Apart(line') /\ \A k \in 1..Len(line') : \E j \in 1..Len(q) : line'[k] = q[j]
  <2>1. line' = q \/ line' = <<>> \/ (line' = <<"probe">> /\ "probe" \in Pool!Members(q))
    BY <1>8 DEF Pool!Admitted
  <2>2. CASE line' = <<"probe">> /\ "probe" \in Pool!Members(q)
    <3>1. PICK j \in 1..Len(q) : q[j] = "probe"
      BY <2>2 DEF Pool!Members
    <3>2. "probe" \in Pool!Chain
      BY DEF Pool!Chain
    <3> HIDE DEF q
    <3> QED  BY <2>2, <3>1, <3>2 DEF Apart
  <2>3. CASE line' = <<>>
    BY <2>3 DEF Apart
  <2> HIDE DEF q
  <2>4. CASE line' = q
    BY <1>12, <2>4
  <2> QED  BY <2>1, <2>2, <2>3, <2>4
<1>14. \A j \in 1..Len(q) : chain'[q[j]] # None /\ chain'[q[j]].got = None
  <2>1. \A k \in 1..n : chain[Tail(line)[k]] # None /\ chain[Tail(line)[k]].got = None
    BY <1>9 DEF PoolInv, Chains
  <2>2. CASE ~again
    BY <1>5, <1>9, <1>10, <2>1, <2>2
  <2>3. CASE again
    <3>1. Len(q) = n + 1 /\ q[n + 1] = c /\ \A k \in 1..n : q[k] = Tail(line)[k]
      BY <1>3, <1>9, <2>3
    <3> HIDE DEF q
    <3> QED  BY <1>5, <1>7, <1>8, <1>9, <1>10, <2>1, <2>3, <3>1
  <2> QED  BY <2>2, <2>3
<1> HIDE DEF q
<1>15. Chains(chain', line')
  BY <1>5, <1>6, <1>13, <1>14 DEF Chains
<1>16. Begun(chain', storm', take')
  <2>1. \A d \in Pool!Chain : chain'[d] # None => chain[d] # None
    BY <1>3, <1>5
  <2>2. "probe" \in Pool!Chain /\ \A d \in Take : d \in Pool!Chain
    BY DEF Pool!Chain
  <2>3. storm # "none" => storm' = storm
    BY DEF Pool!SolveEnds
  <2> QED  BY <1>1, <2>1, <2>2, <2>3 DEF PoolInv, Begun
<1>17. Unissued(chain)'
  BY <1>1, <1>5, <1>6 DEF Unissued, Pool!Duplicate, Has
<1> QED  BY <1>1, <1>15, <1>16, <1>17 DEF PoolInv, Chains, Begun, Unissued, Counted, Apart

LEMMA DeliverKeeps ==
  ASSUME PoolInv, NEW c \in Pool!Chain, Pool!Deliver(c)
  PROVE  PoolInv'
<1> DEFINE got  == chain[c].got
           rest == [chain EXCEPT ![c] = None]
<1>1. c \in Pool!Done /\ chain[c] \in Attempts /\ chain[c] # None
  BY DEF Pool!Deliver, Pool!Done, Pool!Running, PoolInv, Chains
<1>2. rest[c] = None /\ DOMAIN rest = Pool!Chain /\ \A d \in Pool!Chain : d # c => rest[d] = chain[d]
  BY DEF PoolInv, Chains
<1>3. rest \in [Pool!Chain -> Attempts \cup {None}]
  BY DEF PoolInv, Chains
<1> HIDE DEF rest
<1>4. \A k \in 1..Len(line) : line[k] # c /\ line[k] \in Pool!Chain
  BY <1>1 DEF Pool!Done, Pool!Members, PoolInv, Chains
<1>5. \A d \in Pool!Chain : Has(rest, d) => d # c /\ Has(chain, d) /\ rest[d] = chain[d]
  BY <1>2 DEF Has
<1>6. Chains(rest, line)
  BY <1>2, <1>3, <1>4, <1>5 DEF PoolInv, Chains
<1>7. Unissued(rest)
  BY <1>5 DEF PoolInv, Unissued, Has
<1>8. "probe" \in Pool!Chain /\ \A d \in Take : d \in Pool!Chain
  BY DEF Pool!Chain
<1>9. Begun(rest, storm, take)
  BY <1>2, <1>8 DEF PoolInv, Begun
<1>10. Has(chain, c) => \A d \in Pool!Chain : ~Has(rest, d)
  BY <1>5 DEF PoolInv, Chains
<1>11. tokens \in Seq(Id) /\ target \in Int /\ got \in Id \cup {None}
  BY <1>1 DEF PoolInv, Attempts
<1>12. Pool!Push(got) => tokens' \in Seq(Id)
  <2> HIDE DEF got
  <2>1. ASSUME NEW s \in Pool!Pruned(tokens), NEW i \in Id
        PROVE  s \in Seq(Id) /\ Append(s, i) \in Seq(Id)
    BY <1>11, PrunedIsOfIds
  <2>2. CASE got = None
    BY <1>11, <2>2 DEF Pool!Push
  <2>3. CASE got \in Id /\ got # None
    BY <2>1, <2>3 DEF Pool!Push
  <2> QED  BY <1>11, <2>2, <2>3
<1>13. CASE /\ c \in Take /\ take[c] = "racing" /\ got # None
            /\ Pool!Hand(c, got) /\ Pool!Refill(TRUE, tokens, rest)
  <2>1. got \notin issued /\ Has(chain, c)
    BY <1>1, <1>13 DEF PoolInv, Unissued, Has
  <2>2. /\ Counted' /\ DOMAIN take' = Take /\ DOMAIN uses' = Id
        /\ \A d \in Take : take'[d] = "new" => take[d] = "new"
    BY <1>13, <2>1, HandKeeps DEF PoolInv
  <2>3. Begun(rest, storm, take')
    BY <1>9, <2>2 DEF Begun
  <2>4. /\ tokens' \in Seq(Id) /\ target' \in Int /\ Chains(chain, line)' /\ Begun(chain', storm', take')
        /\ \A d \in Pool!Chain : Has(chain', d) => chain'[d] = rest[d]
    BY <1>6, <1>11, <1>13, <2>3, RefillKeeps
  <2>5. \A d \in Pool!Chain : ~Has(chain', d)
    BY <1>10, <2>1, <2>4 DEF Has
  <2> QED  BY <2>2, <2>4, <2>5 DEF PoolInv, Unissued, Chains, Begun, Counted, Apart
<1>14. ASSUME chain' = rest, UNCHANGED <<line, issued, uses>>, tokens' \in Seq(Id), target' \in Int, DOMAIN take' = Take,
              Begun(rest, storm', take')
       PROVE  PoolInv'
  BY <1>6, <1>7, <1>14 DEF PoolInv, Chains, Begun, Unissued, Counted, Has, Apart
<1>15. CASE /\ c \in Take /\ chain' = rest /\ (Pool!Lose(c) \/ UNCHANGED take)
            /\ UNCHANGED <<tokens, target, storm, line, issued, uses>>
  <2>1. DOMAIN take' = Take /\ \A d \in Take : take'[d] = "new" => take[d] = "new"
    BY <1>15 DEF Pool!Lose, PoolInv
  <2> QED  BY <1>9, <1>11, <1>14, <1>15, <2>1 DEF Begun
<1>16. CASE /\ c \in {"fill", "warm"} /\ Pool!Push(got) /\ UNCHANGED <<target, storm, take, issued, uses>>
            /\ \/ Pool!Started(rest, line, c, chain[c].left - 1)
               \/ chain' = rest /\ UNCHANGED line
  <2>1. CASE chain' = rest /\ UNCHANGED line
    BY <1>9, <1>11, <1>12, <1>14, <1>16, <2>1 DEF PoolInv
  <2>2. CASE Pool!Started(rest, line, c, chain[c].left - 1)
    <3>1. chain[c].left - 1 \in Int
      BY <1>1 DEF Attempts
    <3>2. /\ Chains(chain, line)' /\ ~Has(chain', c) /\ \A d \in Pool!Chain : d # c => chain'[d] = rest[d]
      BY <1>2, <1>6, <2>2, <3>1, StartsOne
    <3>3. c # "probe" /\ c \notin Take
      BY <1>16, TakeAssumption
    <3>4. Begun(chain', storm', take')
      BY <1>8, <1>9, <1>16, <3>2, <3>3 DEF Begun
    <3>5. \A d \in Pool!Chain : Has(chain', d) => Has(rest, d) /\ chain'[d] = rest[d]
      BY <3>2 DEF Has
    <3>6. Unissued(chain)'
      BY <1>7, <1>16, <3>5 DEF Unissued
    <3> QED  BY <1>11, <1>12, <1>16, <3>2, <3>4, <3>6 DEF PoolInv, Unissued, Chains, Begun, Counted, Apart
  <2> QED  BY <1>16, <2>1, <2>2
<1>17. CASE /\ c = "probe" /\ chain' = rest /\ Pool!Push(got) /\ UNCHANGED <<target, line, take, issued, uses>>
  BY <1>2, <1>9, <1>11, <1>12, <1>14, <1>17 DEF Begun, PoolInv
<1> QED
  BY <1>13, <1>15, <1>16, <1>17 DEF Pool!Deliver, rest

LEMMA PoolStep ==
  ASSUME PoolInv, [Pool!Next]_Pool!vars
  PROVE  PoolInv'
<1>1. CASE UNCHANGED Pool!vars
  BY <1>1, AsideKeeps DEF Pool!vars, PoolInv
<1>2. CASE Pool!Tick
  <2>1. \A c \in Pool!Chain : ~Has(chain, c)
    BY <1>2, QuietHasNone DEF Pool!Tick
  <2>2. /\ tokens' \in Seq(Id) /\ target' \in Int /\ Chains(chain, line)' /\ Begun(chain', storm', take)
        /\ \A c \in Pool!Chain : Has(chain', c) => chain'[c] = chain[c]
    BY <1>2, RefillKeeps DEF Pool!Tick, PoolInv
  <2>3. \A c \in Pool!Chain : ~Has(chain', c)
    BY <2>1, <2>2 DEF Has
  <2> QED  BY <1>2, <2>2, <2>3 DEF Pool!Tick, PoolInv, Unissued, Counted, Chains, Begun, Apart
<1>3. ASSUME NEW t \in Take, Pool!TakeDeadline(t) \/ Pool!GraceEnds(t)
      PROVE  PoolInv'
  <2>1. DOMAIN take' = Take /\ \A d \in Take : take'[d] = "new" => take[d] = "new"
    BY <1>3 DEF Pool!TakeDeadline, Pool!GraceEnds, Pool!Lose, PoolInv
  <2> QED  BY <1>3, <2>1, AsideKeeps DEF Pool!TakeDeadline, Pool!GraceEnds, Begun, PoolInv
<1>4. ASSUME NEW t \in Take, Pool!GracePoll(t)
      PROVE  PoolInv'
  <2>1. CASE \E s \in Pool!Pruned(tokens) : Pool!HandBanked(t, s)
    BY <1>4, <2>1, QuietHasNone, HandBankedKeeps DEF Pool!GracePoll
  <2>2. CASE tokens' = <<>> /\ UNCHANGED <<target, storm, chain, line, take, issued, uses>>
    <3>1. tokens' \in Seq(Id)
      BY <2>2
    <3> QED  BY <2>2, <3>1, AsideKeeps DEF Begun, PoolInv
  <2> QED  BY <1>4, <2>1, <2>2 DEF Pool!GracePoll
<1>5. CASE Pool!PauseEnds \/ Pool!StormCools \/ Pool!IdleGrows
  BY <1>5, AsideKeeps DEF Pool!PauseEnds, Pool!StormCools, Pool!IdleGrows, PoolInv, Begun
<1>6. CASE Pool!Looks
  <2>1. tokens' \in Seq(Id)
    BY <1>6, PrunedIsOfIds DEF Pool!Looks, PoolInv
  <2> QED  BY <1>6, <2>1, AsideKeeps DEF Pool!Looks, PoolInv
<1>7. ASSUME NEW i \in Id, Pool!Forgets(i)
      PROVE  PoolInv'
  BY <1>7 DEF Pool!Forgets, PoolInv, Chains, Begun, Unissued, Counted, Has, Apart
<1> QED
  BY <1>1, <1>2, <1>3, <1>4, <1>5, <1>6, <1>7, TakeArrivesKeeps, SolveEndsKeeps, DeliverKeeps DEF Pool!Next

(***************************************************************************)
(* No id is handed to two takes while the registry remembers it, whichever *)
(* of the ways to a token they came by: solved for a take, banked by the   *)
(* refill or by the probe, found in the grace window (takeToken,           *)
(* isDuplicateParam, CertifyIdRegistry).                                   *)
(***************************************************************************)
THEOREM IssuedTheorem == Spec => []IssuedOnce
<1>1. Init => PoolInv
  BY PoolInit DEF Init
<1>2. PoolInv /\ [Next]_<<part, solverVars, poolVars>> => PoolInv'
  BY EachPart, PoolStep
<1>3. PoolInv => IssuedOnce
  BY DEF PoolInv, Counted, IssuedOnce, Pool!IssuedOnce
<1> QED  BY <1>1, <1>2, <1>3, PTL DEF Spec

\* What a start adds to the line.
LEMMA StartedMembers ==
  ASSUME line \in Seq(Pool!Chain), NEW ch, NEW c \in Pool!Chain, NEW left, Pool!Started(ch, line, c, left)
  PROVE  Pool!Members(line') = Pool!Members(line) \cup {c}
<1>1. line' = Append(line, c)
  BY DEF Pool!Started
<1>2. Len(line') = Len(line) + 1 /\ line'[Len(line) + 1] = c /\ Len(line) \in Nat /\ \A k \in 1..Len(line) : line'[k] = line[k]
  BY <1>1
<1>3. \A k \in 1..Len(line') : k \in 1..Len(line) \/ k = Len(line) + 1
  BY <1>2
<1> QED  BY <1>2, <1>3 DEF Pool!Members

LEMMA RefillHeldBack ==
  ASSUME PoolInv, MintsHeldBack, NEW s, NEW ch, NEW urgent, Pool!Refill(urgent, s, ch), UNCHANGED paused
  PROVE  MintsHeldBack'
<1> USE DEF MintsHeldBack, Pool!MintsHeldBack
<1>1. CASE UNCHANGED <<line, storm>>
  BY <1>1 DEF Pool!Members
<1>2. CASE ~paused /\ storm # "none" /\ storm' # "none" /\ Pool!Started(ch, line, "probe", 1)
  <2>1. Pool!Members(line') = Pool!Members(line) \cup {"probe"}
    BY <1>2, StartedMembers DEF PoolInv, Chains, Pool!Chain
  <2> QED  BY <1>2, <2>1 DEF Pool!Members
<1>3. CASE ~paused /\ storm = "none" /\ UNCHANGED storm
  BY <1>3
<1> QED  BY <1>1, <1>2, <1>3 DEF Pool!Refill

LEMMA HeldBackStep ==
  ASSUME PoolInv, MintsHeldBack, [Pool!Next]_Pool!vars
  PROVE  MintsHeldBack'
<1> USE DEF MintsHeldBack, Pool!MintsHeldBack
<1>1. CASE UNCHANGED <<paused, storm, line>>
  BY <1>1 DEF Pool!Members
<1>2. CASE Pool!Tick
  BY <1>2, RefillHeldBack DEF Pool!Tick
<1>3. ASSUME NEW t \in Take, Pool!TakeArrives(t)
      PROVE  MintsHeldBack'
  <2>1. CASE \E s \in Pool!Pruned(tokens) : Pool!HandBanked(t, s)
    <3>1. PICK s : Pool!HandBanked(t, s)
      BY <2>1
    <3>2. PICK n \in Pool!Fresh(s) : Pool!Refill(TRUE, SubSeq(s, 1, n - 1), chain)
      BY <3>1 DEF Pool!HandBanked
    <3> QED  BY <1>3, <3>2, RefillHeldBack DEF Pool!TakeArrives
  <2>2. CASE Pool!Refill(TRUE, <<>>, chain)
    BY <1>3, <2>2, RefillHeldBack DEF Pool!TakeArrives
  <2>3. CASE ~paused /\ storm = "none" /\ UNCHANGED <<paused, storm>>
    BY <2>3
  <2> QED  BY <1>1, <1>3, <2>1, <2>2, <2>3 DEF Pool!TakeArrives
<1>4. ASSUME NEW t \in Take, Pool!GracePoll(t)
      PROVE  MintsHeldBack'
  <2>1. CASE UNCHANGED <<storm, line>>
    BY <1>1, <1>4, <2>1 DEF Pool!GracePoll
  <2>2. ASSUME NEW s, Pool!HandBanked(t, s)
        PROVE  MintsHeldBack'
    <3>1. PICK n \in Pool!Fresh(s) : Pool!Refill(TRUE, SubSeq(s, 1, n - 1), chain)
      BY <2>2 DEF Pool!HandBanked
    <3> QED  BY <1>4, <3>1, RefillHeldBack DEF Pool!GracePoll
  <2> QED  BY <1>4, <2>1, <2>2 DEF Pool!GracePoll
<1>5. ASSUME NEW out \in Pool!Outcomes, Pool!SolveEnds(out)
      PROVE  MintsHeldBack'
  <2>1. PICK q : line' = Pool!Admitted(q, paused', storm')
    BY <1>5 DEF Pool!SolveEnds
  <2>2. paused' \in BOOLEAN
    BY <1>5 DEF Pool!SolveEnds
  <2>3. CASE paused'
    BY <2>1, <2>3 DEF Pool!Admitted, Pool!Members
  <2>4. CASE ~paused' /\ storm' # "none"
    <3>1. line' = <<>> \/ line' = <<"probe">>
      BY <2>1, <2>4 DEF Pool!Admitted
    <3> QED  BY <2>4, <3>1 DEF Pool!Members
  <2>5. CASE ~paused' /\ storm' = "none"
    BY <2>5
  <2> QED  BY <2>2, <2>3, <2>4, <2>5
<1>6. ASSUME NEW c \in Pool!Chain, Pool!Deliver(c)
      PROVE  MintsHeldBack'
  <2>1. UNCHANGED paused
    BY <1>6 DEF Pool!Deliver
  <2>2. CASE \E rest : Pool!Refill(TRUE, tokens, rest)
    BY <2>1, <2>2, RefillHeldBack
  <2>3. CASE storm = "none" /\ ~paused /\ UNCHANGED storm
    BY <2>1, <2>3
  <2>4. CASE c = "probe" /\ UNCHANGED line /\ storm' \in {"cooling", "none"}
    <3>1. storm # "none"
      BY <1>6, <2>4 DEF Pool!Deliver, Pool!Done, Pool!Running, PoolInv, Begun
    <3> QED  BY <2>1, <2>4, <3>1 DEF Pool!Members
  <2> QED  BY <1>1, <1>6, <2>1, <2>2, <2>3, <2>4 DEF Pool!Deliver
<1>7. CASE Pool!PauseEnds \/ Pool!StormCools
  BY <1>7 DEF Pool!PauseEnds, Pool!StormCools, Pool!Members
<1>8. CASE UNCHANGED Pool!vars \/ Pool!IdleGrows \/ Pool!Looks \/ \E i \in Id : Pool!Forgets(i)
  BY <1>1, <1>8 DEF Pool!vars, Pool!IdleGrows, Pool!Looks, Pool!Forgets
<1>9. CASE \E t \in Take : Pool!TakeDeadline(t) \/ Pool!GraceEnds(t)
  BY <1>1, <1>9 DEF Pool!TakeDeadline, Pool!GraceEnds
<1> QED
  BY <1>2, <1>3, <1>4, <1>5, <1>6, <1>7, <1>8, <1>9 DEF Pool!Next

(***************************************************************************)
(* While the provider's pause lasts nothing is in the solver's line, and   *)
(* during a mint storm nothing but the probe, also of what was queued      *)
(* before they began (beforeSolve).                                        *)
(***************************************************************************)
THEOREM MintsTheorem == Spec => []MintsHeldBack
<1>1. Init => PoolInv /\ MintsHeldBack
  BY PoolInit DEF Init, Pool!Init, MintsHeldBack, Pool!MintsHeldBack
<1>2. PoolInv /\ MintsHeldBack /\ [Next]_<<part, solverVars, poolVars>> => PoolInv' /\ MintsHeldBack'
  BY EachPart, PoolStep, HeldBackStep
<1> QED  BY <1>1, <1>2, PTL DEF Spec
=============================================================================
