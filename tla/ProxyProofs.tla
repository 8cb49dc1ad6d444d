------------------------------- MODULE ProxyProofs -------------------------------
(***************************************************************************)
(* Proofs about the stream's gate, a turn through the two translators, the *)
(* conversation it belongs to, the login and its file, the login flows and *)
(* the claims, as MCProxy composes them: for streams of any length cut     *)
(* into any chunks, turns with any number of calls, conversations of any   *)
(* length, for every set of credentials, requests, flows and plans, and    *)
(* any times between polls.                                                *)
(***************************************************************************)
EXTENDS MCProxy, Integers, Sequences, FiniteSetTheorems, TLAPS

vars == <<part, gateVars, forwardVars, reverseVars, talkVars, loginVars, flowVars, claimVars>>

\* A step of the composition is a step of each part or leaves it alone.
LEMMA EachPart ==
  [Next]_vars => /\ [Gate!Next]_Gate!vars /\ [Forwards!Next]_Forwards!vars /\ [Login!Next]_Login!vars
                 /\ [Flows!Next]_Flows!vars /\ [Claiming!Next]_Claiming!vars /\ [Talk!Next]_Talk!vars
BY DEF Next, vars, gateVars, forwardVars, talkVars, loginVars, flowVars, claimVars, Forwards!vars, Gate!vars, Gate!gateVars, Talk!vars, Login!vars,
  Login!storeVars, Login!memVars, Flows!vars, Claiming!vars

\* Sequences that agree at every place are one sequence, and joining them is associative.
LEMMA SameSeq ==
  ASSUME NEW S, NEW s \in Seq(S), NEW T, NEW t \in Seq(T), Len(s) = Len(t), \A i \in 1..Len(s) : s[i] = t[i]
  PROVE  s = t
OBVIOUS

LEMMA JoinsJoin ==
  ASSUME NEW S, NEW s \in Seq(S), NEW t \in Seq(S), NEW u \in Seq(S)
  PROVE  (s \o t) \o u = s \o (t \o u)
OBVIOUS

(***************************************************************************)
(* A stream on its way to the client: StreamGate.                          *)
(***************************************************************************)
\* Units a + 1 to b of the stream.
Run(a, b) == [i \in 1..b - a |-> a + i]

GateTypeOK ==
  /\ frames \in Seq(Gate!Kinds) /\ pos \in Nat /\ Len(frames) = (pos + 1) \div 2
  /\ \A i \in 1..Len(frames) - 1 : frames[i] \notin Gate!Terminal
  /\ issued \in Nat /\ awaited = issued
  /\ answers \in Seq(Seq(Int)) /\ Len(answers) \in {issued - 1, issued}
  /\ {failure, inflight, terminalSeen, left} \subseteq BOOLEAN
  /\ stage \in {"gate", "verdict", "body", "again", "done"}

\* The units up to q were taken from the answers: what is beyond them, if anything, is
\* the chunk that answers the awaited read.
Came(q) ==
  IF Gate!Answered /\ (stage = "gate" \/ inflight) /\ Gate!Answer \notin {Gate!Eof, Gate!Failed}
  THEN q < pos /\ Gate!Answer = Run(q, pos) ELSE q = pos

\* A place where the monitor may stop, units none of which ends a frame, and a terminal
\* frame among the first units.
Cut(o)       == o = 0 \/ Gate!Ends(o) \/ Gate!Kind(o) = "big"
Within(o, q) == \A u \in o + 1..q : ~Gate!Ends(u)
Closing(o)   == \E u \in 1..o : Gate!Opens(u) /\ Gate!Kind(u) \in Gate!Terminal

\* Nothing reached the client, and all that was sent is held, then pending.
Unseen == out = <<>> /\ tail = <<>> /\ ~terminalSeen
AtGate ==
  /\ Unseen /\ ~inflight
  /\ \E h, q \in Nat : h <= q /\ held = Run(0, h) /\ pending = Run(h, q) /\ Came(q)
AtVerdict == Unseen /\ \E q \in Nat : prefix = Run(0, q) /\ Came(q)

\* What was sent is what went out, the frame that the monitor has the start of, and what
\* the gate left of its prelude.
Streams ==
  \E o, t, q \in Nat :
    /\ o <= t /\ t <= q /\ out = Run(0, o) /\ tail = Run(o, t) /\ prefix = Run(t, q) /\ Came(q)
    /\ Cut(o) /\ Within(o, t) /\ (terminalSeen <=> Closing(o))

\* A read that is not in flight was answered, and none is where the source failed.
Reads == (~inflight => Gate!Answered) /\ (failure => ~inflight)

GateInv ==
  /\ GateTypeOK
  /\ stage = "gate" => AtGate
  /\ stage = "verdict" => out = <<>>
  /\ stage = "verdict" /\ ~left => AtVerdict /\ Reads
  /\ stage = "body" => ~left /\ Streams /\ Reads
  /\ stage = "done" /\ ~left => Gate!Answered
  /\ StreamIsWhole

LEMMA RunIs ==
  ASSUME NEW a \in Nat, NEW b \in Nat, a <= b
  PROVE  /\ Run(a, b) \in Seq(Int) /\ Len(Run(a, b)) = b - a /\ \A i \in 1..b - a : Run(a, b)[i] = a + i
         /\ (Run(a, b) = <<>> <=> a = b)
<1> DEFINE n == b - a
<1>1. n \in Nat
  OBVIOUS
<1>2. Run(a, b) = [i \in 1..n |-> a + i]
  BY DEF Run
<1> HIDE DEF n
<1>3. Run(a, b) \in Seq(Int) /\ Len(Run(a, b)) = n /\ \A i \in 1..n : Run(a, b)[i] = a + i
  BY <1>1, <1>2
<1>4. Run(a, b) = <<>> <=> n = 0
  BY <1>1, <1>3
<1> QED  BY <1>3, <1>4 DEF n

LEMMA Joined ==
  ASSUME NEW s \in Seq(Int), NEW t \in Seq(Int)
  PROVE  /\ s \o t \in Seq(Int) /\ Len(s \o t) = Len(s) + Len(t)
         /\ \A i \in 1..Len(s) : (s \o t)[i] = s[i]
         /\ \A i \in 1..Len(t) : (s \o t)[Len(s) + i] = t[i]
BY SMTT(30)

LEMMA RunJoin ==
  ASSUME NEW a \in Nat, NEW b \in Nat, NEW c \in Nat, a <= b, b <= c
  PROVE  Run(a, b) \o Run(b, c) = Run(a, c)
<1> DEFINE s == Run(a, b)
           t == Run(b, c)
           r == Run(a, c)
<1>1. s \in Seq(Int) /\ Len(s) = b - a /\ \A i \in 1..b - a : s[i] = a + i
  BY RunIs
<1>2. t \in Seq(Int) /\ Len(t) = c - b /\ \A i \in 1..c - b : t[i] = b + i
  BY RunIs
<1>3. r \in Seq(Int) /\ Len(r) = c - a /\ \A i \in 1..c - a : r[i] = a + i
  BY RunIs
<1> HIDE DEF s, t, r
<1>j. /\ s \o t \in Seq(Int) /\ Len(s \o t) = Len(s) + Len(t)
      /\ \A i \in 1..Len(s) : (s \o t)[i] = s[i]
      /\ \A i \in 1..Len(t) : (s \o t)[Len(s) + i] = t[i]
  BY <1>1, <1>2, Joined
<1>4. Len(s \o t) = Len(r)
  BY <1>1, <1>2, <1>3, <1>j
<1>5. ASSUME NEW i \in 1..Len(r)
      PROVE  (s \o t)[i] = r[i]
  <2>1. CASE i <= b - a
    BY <2>1, <1>1, <1>3, <1>j
  <2>2. CASE i > b - a
    <3>1. i - (b - a) \in 1..c - b /\ i = (b - a) + (i - (b - a))
      BY <2>2, <1>3
    <3>2. (s \o t)[i] = t[i - (b - a)]
      BY <3>1, <1>1, <1>2, <1>j
    <3> QED  BY <3>1, <3>2, <1>2, <1>3
  <2>3. i <= b - a \/ i > b - a
    BY <1>3
  <2> QED  BY <2>1, <2>2, <2>3
<1>6. Len(s \o t) = Len(r) /\ \A i \in 1..Len(s \o t) : (s \o t)[i] = r[i]
  BY <1>4, <1>5
<1>7. s \o t = r
  BY <1>3, <1>6, <1>j, SameSeq
<1> QED  BY <1>7 DEF s, t, r

LEMMA RunCut ==
  ASSUME NEW a \in Nat, NEW b \in Nat, a <= b, NEW n \in 0..b - a
  PROVE  SubSeq(Run(a, b), 1, n) = Run(a, a + n) /\ SubSeq(Run(a, b), n + 1, Len(Run(a, b))) = Run(a + n, b)
<1> DEFINE s == Run(a, b)
           m == b - a
<1>1. s \in Seq(Int) /\ Len(s) = m /\ \A i \in 1..m : s[i] = a + i
  BY RunIs
<1>2. m \in Nat /\ n \in Nat /\ n <= m /\ b = a + m /\ a + n \in Nat
  OBVIOUS
<1>3. Run(a, a + n) = [i \in 1..n |-> a + i] /\ Run(a + n, b) = [i \in 1..m - n |-> (a + n) + i]
  <2>1. (a + n) - a = n /\ b - (a + n) = m - n
    BY <1>2
  <2> QED  BY <2>1 DEF Run
<1> HIDE DEF s, m
<1>4. SubSeq(s, 1, n) = [i \in 1..n |-> s[i]]
  <2>1. SubSeq(s, 1, n) \in Seq(Int) /\ Len(SubSeq(s, 1, n)) = n /\ \A i \in 1..n : SubSeq(s, 1, n)[i] = s[i]
    BY <1>1, <1>2
  <2> QED  BY <2>1
<1>5. SubSeq(s, n + 1, m) = [i \in 1..m - n |-> s[n + i]]
  <2>1. SubSeq(s, n + 1, m) \in Seq(Int) /\ Len(SubSeq(s, n + 1, m)) = m - n /\ \A i \in 1..m - n : SubSeq(s, n + 1, m)[i] = s[n + i]
    BY <1>1, <1>2
  <2> DEFINE x == SubSeq(s, n + 1, m)
             y == [i \in 1..m - n |-> s[n + i]]
  <2>2. m - n \in Nat /\ \A i \in 1..m - n : n + i \in 1..m
    BY <1>2
  <2>3. y \in Seq(Int) /\ Len(y) = m - n /\ \A i \in 1..m - n : y[i] = s[n + i]
    BY <2>2, <1>1, <1>2
  <2> HIDE DEF x, y
  <2>4. x \in Seq(Int) /\ Len(x) = Len(y) /\ \A i \in 1..Len(x) : x[i] = y[i]
    BY <2>1, <2>3 DEF x
  <2>5. x = y
    BY <2>3, <2>4, SameSeq
  <2> QED  BY <2>5 DEF x, y
<1>6. [i \in 1..n |-> s[i]] = [i \in 1..n |-> a + i]
  BY <1>1, <1>2
<1>7. [i \in 1..m - n |-> s[n + i]] = [i \in 1..m - n |-> (a + n) + i]
  <2>1. ASSUME NEW i \in 1..m - n
        PROVE  s[n + i] = (a + n) + i
    <3>1. n + i \in 1..m
      BY <1>2
    <3> QED  BY <3>1, <1>1, <1>2
  <2> QED  BY <2>1
<1> QED  BY <1>1, <1>3, <1>4, <1>5, <1>6, <1>7 DEF s

\* Of two units in a row one ends a frame.
LEMMA Pair == ASSUME NEW u \in Nat PROVE (Gate!Ends(u) \/ Gate!Ends(u + 1)) /\ (Gate!Opens(u) <=> ~Gate!Ends(u))
BY DEF Gate!Ends, Gate!Opens

\* The last complete frame of a run of units.
LEMMA RunEnd ==
  ASSUME NEW a \in Nat, NEW b \in Nat, a <= b
  PROVE  LET n == Gate!FrameEnd(Run(a, b))
         IN  n \in 0..b - a /\ (n > 0 => Gate!Ends(a + n)) /\ Within(a + n, b)
<1> DEFINE m == b - a
           e == {i \in 1..m : Gate!Ends(a + i)}
           k == IF Gate!Ends(b) THEN m ELSE m - 1
           n == Gate!FrameEnd(Run(a, b))
<1>1. m \in Nat /\ b = a + m
  OBVIOUS
<1>2. n = IF e = {} THEN 0 ELSE CHOOSE i \in e : \A j \in e : j <= i
  <2>1. {i \in 1..Len(Run(a, b)) : Gate!Ends(Run(a, b)[i])} = e
    <3>1. Len(Run(a, b)) = m /\ \A i \in 1..m : Run(a, b)[i] = a + i
      BY RunIs
    <3> QED  BY <3>1
  <2>2. n = LET f == {i \in 1..Len(Run(a, b)) : Gate!Ends(Run(a, b)[i])}
              IN  IF f = {} THEN 0 ELSE CHOOSE i \in f : \A j \in f : j <= i
    BY Zenon DEF Gate!FrameEnd
  <2> QED  BY <2>1, <2>2, Zenon
<1>3. CASE e = {}
  <2>1. n = 0
    BY <1>2, <1>3
  <2>2. ASSUME NEW u \in a + 1..b
        PROVE  ~Gate!Ends(u)
    <3>1. u - a \in 1..m /\ a + (u - a) = u
      BY <1>1
    <3> QED  BY <3>1, <1>3
  <2> QED  BY <2>1, <2>2 DEF Within
<1>4. CASE e # {}
  <2>1. PICK i \in 1..m : Gate!Ends(a + i)
    BY <1>4
  <2>2. k \in e /\ \A j \in e : j <= k
    <3>1. CASE Gate!Ends(b)
      <4>1. k = m /\ k \in 1..m /\ a + k = b
        BY <3>1, <2>1, <1>1
      <4> QED  BY <4>1, <3>1
    <3>2. CASE ~Gate!Ends(b)
      <4>1. a + i # b /\ i # m /\ m - 1 \in 1..m /\ k = m - 1
        BY <3>2, <2>1, <1>1
      <4>2. Gate!Ends(a + k)
        <5>1. b - 1 \in Nat /\ (b - 1) + 1 = b /\ a + k = b - 1
          BY <4>1, <1>1
        <5> QED  BY <5>1, <3>2, Pair
      <4>3. \A j \in e : j <= k
        <5>1. \A j \in e : j # m
          BY <3>2, <1>1
        <5> QED  BY <5>1, <4>1, <1>1
      <4> QED  BY <4>1, <4>2, <4>3
    <3> QED  BY <3>1, <3>2
  <2>3. n \in e /\ \A j \in e : j <= n
    <3>1. n = CHOOSE i1 \in e : \A j \in e : j <= i1
      BY <1>2, <1>4
    <3> HIDE DEF e, k, n
    <3> QED  BY <3>1, <2>2
  <2>4. ASSUME NEW u \in (a + n) + 1..b
        PROVE  ~Gate!Ends(u)
    <3> HIDE DEF n
    <3>1. n \in 1..m
      BY <2>3
    <3>2. u - a \in 1..m /\ a + (u - a) = u /\ u - a > n
      BY <3>1, <1>1
    <3>3. u - a \notin e
      BY <3>1, <3>2, <2>3
    <3> QED  BY <3>2, <3>3
  <2>5. n \in 1..m /\ Gate!Ends(a + n)
    BY <2>3
  <2>6. Within(a + n, b)
    BY <2>4 DEF Within
  <2> HIDE DEF n
  <2> QED  BY <2>5, <2>6 DEF n
<1> QED  BY <1>3, <1>4

LEMMA ForwardGoes ==
  ASSUME NEW o \in Nat, NEW t \in Nat, NEW q \in Nat, o <= t, t <= q,
         out = Run(0, o), tail = Run(o, t), Cut(o), Within(o, t), terminalSeen \in BOOLEAN, terminalSeen <=> Closing(o),
         NEW units, units = Run(t, q), Gate!Forward(units)
  PROVE  \E m \in o..q : /\ out' = Run(0, m) /\ tail' = Run(m, q) /\ Cut(m) /\ Within(m, q)
                         /\ terminalSeen' \in BOOLEAN /\ (terminalSeen' <=> Closing(m)) /\ UNCHANGED stage
<1> DEFINE all == tail \o units
           n   == Gate!FrameEnd(all)
           end == IF n > 0 THEN n ELSE IF \E i \in 1..Len(all) : Gate!Kind(all[i]) = "big" THEN Len(all) ELSE 0
<1>0. o <= q /\ q - o \in Nat
  OBVIOUS
<1>1. all = Run(o, q)
  BY RunJoin
<1>2. Len(all) = q - o /\ \A i \in 1..q - o : all[i] = o + i
  <2>1. Len(Run(o, q)) = q - o /\ \A i \in 1..q - o : Run(o, q)[i] = o + i
    BY <1>0, RunIs
  <2> HIDE DEF all
  <2> QED  BY <2>1, <1>1
<1>3. n \in 0..q - o /\ (n > 0 => Gate!Ends(o + n)) /\ Within(o + n, q)
  BY <1>0, <1>1, RunEnd
<1>4. /\ out' = out \o SubSeq(all, 1, end) /\ tail' = SubSeq(all, end + 1, Len(all))
      /\ terminalSeen' = Gate!Ended(SubSeq(all, 1, end)) /\ UNCHANGED stage
  BY Zenon DEF Gate!Forward
<1> HIDE DEF n
<1>5. end \in 0..q - o /\ Cut(o + end) /\ Within(o + end, q)
  <2>1. CASE n > 0
    BY <2>1, <1>3 DEF Cut
  <2>2. CASE n = 0 /\ \E i \in 1..Len(all) : Gate!Kind(all[i]) = "big"
    <3>1. PICK i \in 1..q - o : Gate!Kind(o + i) = "big"
      BY <2>2, <1>2
    <3>2. end = q - o /\ o + end = q
      BY <2>2, <1>2
    <3>3. i = q - o
      <4> SUFFICES ASSUME i # q - o
                   PROVE  FALSE
        OBVIOUS
      <4>1. o + i \in Nat /\ o + i \in o + 1..q /\ (o + i) + 1 \in o + 1..q
        BY <3>1
      <4>2. Within(o, q)
        BY <2>2, <1>3
      <4> QED  BY <4>1, <4>2, Pair DEF Within
    <3>4. Gate!Kind(q) = "big"
      BY <3>1, <3>3
    <3> HIDE DEF end
    <3>5. Cut(o + end)
      BY <3>2, <3>4 DEF Cut
    <3>6. Within(o + end, q)
      BY <3>2, <1>0 DEF Within
    <3> QED  BY <3>2, <3>5, <3>6, <1>0
  <2>3. CASE n = 0 /\ ~\E i \in 1..Len(all) : Gate!Kind(all[i]) = "big"
    BY <2>3, <1>3
  <2>4. n > 0 \/ n = 0
    BY <1>3
  <2> QED  BY <2>1, <2>2, <2>3, <2>4
<1> HIDE DEF end, all
<1>m. PICK m \in Nat : m = o + end
  BY <1>5, <1>0
<1>6. m \in o..q /\ o <= m /\ m <= q /\ m - o = end
  BY <1>5, <1>0, <1>m
<1>7. SubSeq(all, 1, end) = Run(o, m) /\ SubSeq(all, end + 1, Len(all)) = Run(m, q)
  BY <1>0, <1>1, <1>5, <1>m, RunCut
<1>8. out' = Run(0, m) /\ tail' = Run(m, q)
  <2>1. Run(0, o) \o Run(o, m) = Run(0, m)
    BY <1>6, RunJoin, 0 \in Nat, 0 <= o
  <2> QED  BY <2>1, <1>4, <1>7
<1>9. terminalSeen' \in BOOLEAN /\ (terminalSeen' <=> Closing(m))
  <2>1. Len(Run(o, m)) = end /\ \A i \in 1..end : Run(o, m)[i] = o + i
    BY <1>6, RunIs
  <2>2. terminalSeen' = (terminalSeen \/ \E i \in 1..end : Gate!Opens(o + i) /\ Gate!Kind(o + i) \in Gate!Terminal)
    BY <2>1, <1>4, <1>7, Zenon DEF Gate!Ended
  <2>3. ASSUME NEW i \in 1..end, Gate!Opens(o + i) /\ Gate!Kind(o + i) \in Gate!Terminal
        PROVE  Closing(m)
    <3>1. o + i \in 1..m
      BY <1>5, <1>m
    <3> QED  BY <3>1, <2>3, Zenon DEF Closing
  <2>4. ASSUME Closing(o)
        PROVE  Closing(m)
    <3>1. PICK u \in 1..o : Gate!Opens(u) /\ Gate!Kind(u) \in Gate!Terminal
      BY <2>4 DEF Closing
    <3>2. u \in 1..m
      BY <1>6
    <3> QED  BY <3>1, <3>2, Zenon DEF Closing
  <2>5. ASSUME Closing(m)
        PROVE  Closing(o) \/ \E i \in 1..end : Gate!Opens(o + i) /\ Gate!Kind(o + i) \in Gate!Terminal
    <3>1. PICK u \in 1..m : Gate!Opens(u) /\ Gate!Kind(u) \in Gate!Terminal
      BY <2>5 DEF Closing
    <3>2. CASE u \in 1..o
      BY <3>1, <3>2, Zenon DEF Closing
    <3>3. CASE u \notin 1..o
      <4>1. u - o \in 1..end /\ o + (u - o) = u
        BY <3>3, <1>6
      <4> QED  BY <3>1, <4>1
    <3> QED  BY <3>2, <3>3
  <2> QED  BY <2>2, <2>3, <2>4, <2>5
<1>10. Cut(m) /\ Within(m, q)
  BY <1>5, <1>m
<1> QED  BY <1>4, <1>6, <1>8, <1>9, <1>10

LEMMA NoUnits == Run(0, 0) = <<>> /\ \A q \in Nat : Run(q, q) = <<>>
BY RunIs

\* One read is answered, by the units that follow or by an end; what was sent before stands.
LEMMA ArrivesIs ==
  ASSUME GateTypeOK, Gate!Arrives
  PROVE  /\ GateTypeOK' /\ ~Gate!Answered /\ Gate!Answered' /\ pos <= pos'
         /\ \/ Gate!Answer' \in {Gate!Eof, Gate!Failed} /\ pos' = pos
            \/ Gate!Answer' \notin {Gate!Eof, Gate!Failed} /\ Gate!Answer' = Run(pos, pos') /\ pos < pos'
         /\ \A u \in 1..pos : Gate!Kind(u)' = Gate!Kind(u)
         /\ UNCHANGED <<stage, inflight, left, failure, held, pending, prefix, tail, terminalSeen, out>>
<1>1. UNCHANGED <<issued, awaited, stage, inflight, left, failure, held, pending, prefix, tail, terminalSeen, out>> /\ Len(answers) < issued
  BY DEF Gate!Arrives, Gate!gateVars
<1>2. ~Gate!Answered /\ Len(answers) = issued - 1
  BY <1>1 DEF GateTypeOK, Gate!Answered
<1>3. ASSUME NEW x \in Seq(Int), answers' = Append(answers, x)
      PROVE  answers' \in Seq(Seq(Int)) /\ Len(answers') = issued /\ Gate!Answered' /\ Gate!Answer' = x
  <2>1. answers' \in Seq(Seq(Int)) /\ Len(answers') = issued /\ answers'[issued] = x
    BY <1>2, <1>3 DEF GateTypeOK
  <2> QED  BY <2>1, <1>1 DEF GateTypeOK, Gate!Answered, Gate!Answer
<1>4. ASSUME NEW x \in {Gate!Eof, Gate!Failed}, answers' = Append(answers, x), UNCHANGED <<frames, pos>>
      PROVE  /\ GateTypeOK' /\ Gate!Answered' /\ Gate!Answer' \in {Gate!Eof, Gate!Failed} /\ pos' = pos /\ pos <= pos'
             /\ \A u \in 1..pos : Gate!Kind(u)' = Gate!Kind(u)
  <2>1. x \in Seq(Int)
    <3>1. Gate!Eof \in Seq(Int) /\ Gate!Failed \in Seq(Int)
      BY DEF Gate!Eof, Gate!Failed
    <3> QED  BY <3>1
  <2>2. answers' \in Seq(Seq(Int)) /\ Len(answers') = issued /\ Gate!Answered' /\ Gate!Answer' = x
    BY <2>1, <1>3, <1>4
  <2>3. GateTypeOK'
    BY <1>1, <1>4, <2>2 DEF GateTypeOK
  <2>4. \A u \in 1..pos : Gate!Kind(u)' = Gate!Kind(u)
    BY <1>4 DEF Gate!Kind
  <2>5. Gate!Answer' \in {Gate!Eof, Gate!Failed}
    BY <2>2 DEF Gate!Eof, Gate!Failed
  <2>6. pos \in Nat
    BY DEF GateTypeOK
  <2> QED  BY <1>4, <2>2, <2>3, <2>4, <2>5, <2>6
<1>5. ASSUME NEW n \in 1..MaxChunk, NEW k \in 0..2, NEW ks \in [1..k -> Gate!Kinds],
             Len(frames \o ks) = (pos + n + 1) \div 2, \A i \in 1..Len(frames \o ks) - 1 : (frames \o ks)[i] \notin Gate!Terminal,
             frames' = frames \o ks, pos' = pos + n, answers' = Append(answers, [i \in 1..n |-> pos + i])
      PROVE  /\ GateTypeOK' /\ Gate!Answered' /\ Gate!Answer' \notin {Gate!Eof, Gate!Failed}
             /\ Gate!Answer' = Run(pos, pos') /\ pos < pos' /\ pos <= pos'
             /\ \A u \in 1..pos : Gate!Kind(u)' = Gate!Kind(u)
  <2>1. n \in Nat /\ n >= 1 /\ pos \in Nat /\ pos' \in Nat /\ pos < pos' /\ pos' - pos = n
    <3>1. n \in Nat /\ n >= 1
      OBVIOUS
    <3>2. pos \in Nat
      BY DEF GateTypeOK
    <3> QED  BY <3>1, <3>2, <1>5
  <2>2. [i \in 1..n |-> pos + i] = Run(pos, pos')
    BY <2>1 DEF Run
  <2>3. Run(pos, pos') \in Seq(Int) /\ Run(pos, pos')[1] = pos + 1
    <3>1. pos <= pos'
      BY <2>1
    <3>2. Run(pos, pos') \in Seq(Int) /\ \A i \in 1..n : Run(pos, pos')[i] = pos + i
      BY <3>1, <2>1, RunIs
    <3>3. 1 \in 1..n
      BY <2>1
    <3> QED  BY <3>2, <3>3
  <2>4. answers' \in Seq(Seq(Int)) /\ Len(answers') = issued /\ Gate!Answered' /\ Gate!Answer' = Run(pos, pos')
    BY <2>2, <2>3, <1>3, <1>5
  <2>5. Gate!Answer' \notin {Gate!Eof, Gate!Failed}
    <3>1. Run(pos, pos') # <<-1>> /\ Run(pos, pos') # <<-2>>
      BY <2>1, <2>3
    <3> QED  BY <3>1, <2>4 DEF Gate!Eof, Gate!Failed
  <2>6. ks \in Seq(Gate!Kinds) /\ frames \in Seq(Gate!Kinds)
    BY DEF GateTypeOK
  <2>7. frames' \in Seq(Gate!Kinds) /\ Len(frames) <= Len(frames') /\ \A i \in 1..Len(frames) : frames'[i] = frames[i]
    BY <2>6, <1>5
  <2>8. Len(frames') = (pos' + 1) \div 2 /\ \A i \in 1..Len(frames') - 1 : frames'[i] \notin Gate!Terminal
    BY <1>5
  <2>9. GateTypeOK'
    BY <1>1, <2>1, <2>4, <2>7, <2>8 DEF GateTypeOK, Gate!Terminal, Gate!Kinds
  <2>10. ASSUME NEW u \in 1..pos
         PROVE  Gate!Kind(u)' = Gate!Kind(u)
    <3>1. (u + 1) \div 2 \in 1..Len(frames)
      BY <2>1 DEF GateTypeOK
    <3> QED  BY <3>1, <2>7 DEF Gate!Kind
  <2> QED  BY <2>1, <2>4, <2>5, <2>9, <2>10
<1>6. CASE Gate!Over /\ answers' = Append(answers, answers[Len(answers)]) /\ UNCHANGED <<frames, pos>>
  BY <1>1, <1>2, <1>4, <1>6 DEF Gate!Over
<1>7. CASE \E end \in {Gate!Eof, Gate!Failed} : answers' = Append(answers, end) /\ UNCHANGED <<frames, pos>>
  BY <1>1, <1>2, <1>4, <1>7
<1>8. CASE \E n \in 1..MaxChunk, ks \in UNION {[1..k -> Gate!Kinds] : k \in 0..2} :
             /\ Len(frames \o ks) = (pos + n + 1) \div 2
             /\ \A i \in 1..Len(frames \o ks) - 1 : (frames \o ks)[i] \notin Gate!Terminal
             /\ frames' = frames \o ks /\ pos' = pos + n /\ answers' = Append(answers, [i \in 1..n |-> pos + i])
  <2>1. PICK n \in 1..MaxChunk, ks \in UNION {[1..k -> Gate!Kinds] : k \in 0..2} :
             /\ Len(frames \o ks) = (pos + n + 1) \div 2
             /\ \A i \in 1..Len(frames \o ks) - 1 : (frames \o ks)[i] \notin Gate!Terminal
             /\ frames' = frames \o ks /\ pos' = pos + n /\ answers' = Append(answers, [i \in 1..n |-> pos + i])
    BY <1>8
  <2>2. PICK k \in 0..2 : ks \in [1..k -> Gate!Kinds]
    OBVIOUS
  <2> QED  BY <2>1, <2>2, <1>1, <1>2, <1>5
<1> QED  BY <1>6, <1>7, <1>8 DEF Gate!Arrives

LEMMA CameArrives ==
  ASSUME GateTypeOK, Gate!Arrives, NEW q \in Nat, Came(q), stage = "gate" \/ inflight
  PROVE  Came(q)' /\ q = pos
<1>1. q = pos
  BY ArrivesIs DEF Came
<1> QED  BY <1>1, ArrivesIs DEF Came

\* What the client got is in order, and nothing of it came before the verdict.
LEMMA InOrder ==
  ASSUME NEW o \in Nat, out' = Run(0, o), stage' \notin {"again", "done"}
  PROVE  StreamIsWhole'
<1>1. Len(out') = o /\ \A i \in 1..o : out'[i] = i
  <2>1. Len(Run(0, o)) = o - 0 /\ \A i \in 1..o - 0 : Run(0, o)[i] = 0 + i
    BY RunIs, 0 \in Nat, 0 <= o
  <2> QED  BY <2>1
<1> QED  BY <1>1 DEF StreamIsWhole, Gate!StreamIsWhole

LEMMA ArrivesKeeps == ASSUME GateInv, Gate!Arrives PROVE GateInv'
<1> USE DEF GateInv
<1>1. GateTypeOK' /\ ~Gate!Answered /\ Gate!Answered' /\ UNCHANGED <<stage, inflight, left, failure, held, pending, prefix, tail, terminalSeen, out>>
  BY ArrivesIs
<1>2. stage = "gate" => AtGate'
  <2> SUFFICES ASSUME stage = "gate"
               PROVE  AtGate'
    OBVIOUS
  <2>1. PICK h \in Nat, q \in Nat : h <= q /\ held = Run(0, h) /\ pending = Run(h, q) /\ Came(q)
    BY DEF AtGate
  <2>2. Came(q)'
    BY <2>1, CameArrives
  <2>3. Unseen' /\ ~inflight'
    BY <1>1 DEF AtGate, Unseen
  <2> QED  BY <1>1, <2>1, <2>2, <2>3 DEF AtGate
<1>3. stage = "verdict" /\ ~left => AtVerdict' /\ Reads'
  <2> SUFFICES ASSUME stage = "verdict", ~left
               PROVE  AtVerdict' /\ Reads'
    OBVIOUS
  <2>1. PICK q \in Nat : prefix = Run(0, q) /\ Came(q)
    BY DEF AtVerdict
  <2>2. Came(q)'
    BY <1>1, <2>1, CameArrives DEF Reads
  <2>3. Unseen' /\ Reads'
    BY <1>1 DEF AtVerdict, Unseen, Reads
  <2> QED  BY <1>1, <2>1, <2>2, <2>3 DEF AtVerdict
<1>4. stage = "body" => ~left /\ Streams' /\ Reads'
  <2> SUFFICES ASSUME stage = "body"
               PROVE  ~left /\ Streams' /\ Reads'
    OBVIOUS
  <2>1. PICK o \in Nat, t \in Nat, q \in Nat :
          /\ o <= t /\ t <= q /\ out = Run(0, o) /\ tail = Run(o, t) /\ prefix = Run(t, q) /\ Came(q)
          /\ Cut(o) /\ Within(o, t) /\ (terminalSeen <=> Closing(o))
    BY DEF Streams
  <2>2. Came(q)' /\ q = pos
    BY <1>1, <2>1, CameArrives DEF Reads
  <2>3. \A u \in 1..o : Gate!Kind(u)' = Gate!Kind(u)
    BY ArrivesIs, <2>1, <2>2
  <2>4. Cut(o)' /\ Within(o, t)' /\ (Closing(o)' <=> Closing(o))
    <3>1. Cut(o)'
      <4>1. o = 0 \/ o \in 1..o
        OBVIOUS
      <4> QED  BY <4>1, <2>1, <2>3 DEF Cut
    <3>2. Within(o, t)'
      BY <2>1 DEF Within
    <3>3. Closing(o)' <=> Closing(o)
      BY <2>3, Zenon DEF Closing
    <3> QED  BY <3>1, <3>2, <3>3
  <2>5. Streams'
    BY <1>1, <2>1, <2>2, <2>4 DEF Streams
  <2> QED  BY <1>1, <2>5 DEF Reads
<1>5. StreamIsWhole'
  <2>1. CASE stage \in {"again", "done"}
    <3>1. stage = "again" \/ left
      BY <1>1, <2>1
    <3> QED  BY <3>1, <1>1 DEF StreamIsWhole, Gate!StreamIsWhole
  <2>2. CASE stage \notin {"again", "done"}
    BY <2>2, <1>1 DEF StreamIsWhole, Gate!StreamIsWhole
  <2> QED  BY <2>1, <2>2
<1> QED  BY <1>1, <1>2, <1>3, <1>4, <1>5

\* The gate is over: the prefix is all it took.
LEMMA VerdictKeeps ==
  ASSUME GateInv, stage = "gate", NEW again, NEW fails \in BOOLEAN, NEW reading \in BOOLEAN, NEW h, NEW p,
         Gate!Verdict(again, fails, reading, h, p), UNCHANGED <<issued, awaited>>,
         UNCHANGED <<coded, frames, pos, answers, tail, terminalSeen, out, left>>,
         ~left => /\ (\E q \in Nat : h \o p = Run(0, q) /\ IF reading THEN Came(q) ELSE q = pos)
                  /\ (~reading => Gate!Answered) /\ (fails => ~reading)
  PROVE  GateInv'
<1>1. stage' = "verdict" /\ failure' = fails /\ inflight' = reading /\ prefix' = h \o p
  BY DEF Gate!Verdict
<1>2. Unseen /\ out = <<>>
  BY DEF GateInv, AtGate, Unseen
<1>3. GateTypeOK'
  BY <1>1 DEF GateInv, GateTypeOK
<1>4. Gate!Answered' = Gate!Answered /\ Gate!Answer' = Gate!Answer
  BY DEF Gate!Answered, Gate!Answer
<1>5. ~left => AtVerdict' /\ Reads'
  <2> SUFFICES ASSUME ~left
               PROVE  AtVerdict' /\ Reads'
    OBVIOUS
  <2>1. PICK q \in Nat : h \o p = Run(0, q) /\ IF reading THEN Came(q) ELSE q = pos
    OBVIOUS
  <2>2. Came(q)'
    BY <2>1, <1>1, <1>4 DEF Came
  <2>3. Unseen' /\ Reads'
    BY <1>1, <1>2, <1>4 DEF Unseen, Reads
  <2> QED  BY <1>1, <2>1, <2>2, <2>3 DEF AtVerdict
<1>6. StreamIsWhole'
  BY <1>1, <1>2 DEF StreamIsWhole, Gate!StreamIsWhole
<1> QED  BY <1>1, <1>2, <1>3, <1>5, <1>6 DEF GateInv

LEMMA GateKeeps == ASSUME GateInv, Gate!Gate PROVE GateInv'
<1>1. stage = "gate" /\ UNCHANGED <<coded, frames, pos, answers, tail, terminalSeen, out, left>>
  BY DEF Gate!Gate, Gate!GateEnds, Gate!GateReads, Gate!Timeout, Gate!Aborted
<1>2. PICK h \in Nat, q \in Nat : h <= q /\ held = Run(0, h) /\ pending = Run(h, q) /\ Came(q)
  BY <1>1 DEF GateInv, AtGate
<1>3. held \o pending = Run(0, q)
  BY <1>2, RunJoin, 0 \in Nat, 0 <= h
<1>4. CASE Gate!GateEnds
  <2>1. q = pos /\ Gate!Answered
    BY <1>2, <1>4 DEF Came, Gate!GateEnds
  <2>2. PICK again, fails \in BOOLEAN : Gate!Verdict(again, fails, FALSE, held, pending) /\ UNCHANGED <<issued, awaited>>
    BY <1>4, Zenon DEF Gate!GateEnds
  <2> HIDE DEF GateInv
  <2> QED  BY <1>1, <1>3, <2>1, <2>2, VerdictKeeps
<1>5. CASE Gate!Timeout /\ ~Gate!Answered /\ UNCHANGED <<issued, awaited>>
  <2>1. Gate!Verdict(FALSE, FALSE, TRUE, held, pending)
    BY <1>5 DEF Gate!Timeout
  <2> QED  BY <1>1, <1>2, <1>3, <1>5, <2>1, VerdictKeeps
<1>6. CASE Gate!Aborted
  <2>1. Gate!Verdict(FALSE, TRUE, FALSE, held, pending) /\ left /\ UNCHANGED <<issued, awaited>>
    BY <1>6 DEF Gate!Aborted
  <2> QED  BY <1>1, <2>1, VerdictKeeps
<1>7. CASE Gate!GateReads
  <2> DEFINE all == pending \o Gate!Answer
             end == Gate!FrameEnd(all)
             complete == SubSeq(all, 1, end)
             rest == SubSeq(all, end + 1, Len(all))
  <2>p. PICK p \in Nat : p = pos
    BY DEF GateInv, GateTypeOK
  <2>0. Gate!Answered /\ Gate!Answer \notin {Gate!Eof, Gate!Failed}
    BY <1>7, Zenon DEF Gate!GateReads
  <2>1. q <= p /\ Gate!Answer = Run(q, p)
    BY <1>1, <1>2, <2>0, <2>p DEF Came
  <2>2. all = Run(h, p) /\ h <= p
    <3>1. h <= p
      BY <1>2, <2>1
    <3>2. Run(h, q) \o Run(q, p) = Run(h, p)
      BY <1>2, <2>1, RunJoin
    <3> QED  BY <1>2, <2>1, <3>1, <3>2
  <2>3. end \in 0..p - h
    <3>1. Gate!FrameEnd(Run(h, p)) \in 0..p - h
      BY <2>2, RunEnd
    <3> QED  BY <2>2, <3>1, Zenon
  <2>4. PICK m \in Nat : m = h + end
    <3> HIDE DEF end
    <3> QED  BY <2>3, <2>2
  <2>5. h <= m /\ m <= p
    <3> HIDE DEF end
    <3> QED  BY <2>3, <2>4
  <2>6. complete = Run(h, m) /\ rest = Run(m, p)
    <3> HIDE DEF end
    <3>1. SubSeq(Run(h, p), 1, end) = Run(h, h + end) /\ SubSeq(Run(h, p), end + 1, Len(Run(h, p))) = Run(h + end, p)
      BY <2>2, <2>3, RunCut
    <3> HIDE DEF all
    <3> QED  BY <3>1, <2>2, <2>4
  <2>7. held \o complete = Run(0, m)
    <3>1. Run(0, h) \o Run(h, m) = Run(0, m)
      BY <2>5, RunJoin, 0 \in Nat, 0 <= h
    <3> HIDE DEF complete
    <3> QED  BY <3>1, <2>6, <1>2
  <2>8. (held \o complete) \o rest = Run(0, pos)
    <3>1. Run(0, m) \o Run(m, p) = Run(0, p)
      BY <2>5, RunJoin, 0 \in Nat, 0 <= m
    <3> HIDE DEF complete, rest
    <3> QED  BY <3>1, <2>6, <2>7, <2>p
  <2>9. held \o all = Run(0, pos)
    <3>1. Run(0, h) \o Run(h, p) = Run(0, p)
      BY <2>2, RunJoin, 0 \in Nat, 0 <= h
    <3> HIDE DEF all
    <3> QED  BY <3>1, <1>2, <2>2, <2>p
  <2>10. CASE Gate!Verdict(FALSE, FALSE, FALSE, held, all) /\ UNCHANGED <<issued, awaited>>
    <3> HIDE DEF all
    <3> QED  BY <1>1, <2>0, <2>9, <2>10, <2>p, VerdictKeeps
  <2>11. CASE /\ held' = held \o complete /\ pending' = rest /\ Gate!NextRead
              /\ UNCHANGED <<stage, retryable, failure, prefix, inflight>>
    <3> HIDE DEF complete, rest
    <3>1. issued' = issued + 1 /\ awaited' = issued + 1 /\ Len(answers) = issued
      BY <2>0, <2>11 DEF Gate!NextRead, GateInv, GateTypeOK, Gate!Answered
    <3>2. GateTypeOK' /\ ~Gate!Answered'
      BY <1>1, <2>11, <3>1 DEF GateInv, GateTypeOK, Gate!Answered
    <3>3. Came(p)'
      BY <1>1, <3>2, <2>p DEF Came
    <3>4. AtGate'
      <4>1. Unseen' /\ ~inflight'
        BY <1>1, <2>11 DEF GateInv, AtGate, Unseen
      <4>2. held' = Run(0, m) /\ pending' = Run(m, p)
        BY <2>6, <2>7, <2>11
      <4>3. \E h1, q1 \in Nat : h1 <= q1 /\ held' = Run(0, h1) /\ pending' = Run(h1, q1) /\ Came(q1)'
        BY <2>5, <3>3, <4>2
      <4> QED  BY <4>1, <4>3 DEF AtGate
    <3>5. StreamIsWhole'
      BY <1>1, <2>11 DEF GateInv, StreamIsWhole, Gate!StreamIsWhole
    <3> QED  BY <1>1, <2>11, <3>2, <3>4, <3>5 DEF GateInv
  <2>12. CASE \E again : Gate!Verdict(again, FALSE, FALSE, held \o complete, rest) /\ UNCHANGED <<issued, awaited>>
    <3> HIDE DEF complete, rest
    <3>1. PICK again : Gate!Verdict(again, FALSE, FALSE, held \o complete, rest) /\ UNCHANGED <<issued, awaited>>
      BY <2>12
    <3> QED  BY <1>1, <2>0, <2>8, <2>p, <3>1, VerdictKeeps
  <2> QED  BY <1>7, <2>10, <2>11, <2>12, Zenon DEF Gate!GateReads
<1> QED  BY <1>4, <1>5, <1>6, <1>7, Zenon DEF Gate!Gate

LEMMA DecideKeeps == ASSUME GateInv, Gate!Decide PROVE GateInv'
<1> USE DEF GateInv
<1>1. /\ stage = "verdict" /\ out = <<>> /\ stage' \in {"done", "again", "body"} /\ (stage' = "body" => ~left) /\ (stage' = "done" => left)
      /\ UNCHANGED <<coded, frames, pos, issued, answers, awaited, Gate!gateVars, prefix, inflight, tail, terminalSeen, out, left>>
  BY DEF Gate!Decide
<1>2. GateTypeOK'
  BY <1>1 DEF GateTypeOK, Gate!gateVars
<1>3. stage' = "body" => ~left' /\ Streams' /\ Reads'
  <2> SUFFICES ASSUME stage' = "body"
               PROVE  ~left' /\ Streams' /\ Reads'
    OBVIOUS
  <2>1. PICK q \in Nat : prefix = Run(0, q) /\ Came(q)
    BY <1>1 DEF AtVerdict
  <2>2. Came(q)'
    BY <1>1, <2>1 DEF Came, Gate!Answered, Gate!Answer
  <2>3. out' = Run(0, 0) /\ tail' = Run(0, 0) /\ ~terminalSeen'
    BY <1>1, NoUnits DEF AtVerdict, Unseen
  <2>4. Cut(0)' /\ Within(0, 0)' /\ ~Closing(0)'
    BY DEF Cut, Within, Closing
  <2>5. Streams'
    <3>1. 0 \in Nat /\ 0 <= 0 /\ 0 <= q /\ prefix' = Run(0, q)
      BY <1>1, <2>1
    <3> QED  BY <2>2, <2>3, <2>4, <3>1 DEF Streams
  <2> QED  BY <1>1, <2>5 DEF Reads, Gate!Answered, Gate!gateVars
<1>4. StreamIsWhole'
  BY <1>1 DEF StreamIsWhole, Gate!StreamIsWhole
<1> QED  BY <1>1, <1>2, <1>3, <1>4

LEMMA LeaveKeeps == ASSUME GateInv, Gate!Leave PROVE GateInv'
<1> USE DEF GateInv
<1>1. /\ ~left /\ left' = TRUE /\ stage \in {"gate", "verdict", "body"} /\ stage' = IF stage = "body" THEN "done" ELSE stage
      /\ UNCHANGED <<coded, frames, pos, issued, answers, awaited, Gate!gateVars, prefix, inflight, tail, terminalSeen, out>>
  BY DEF Gate!Leave
<1>2. GateTypeOK'
  BY <1>1 DEF GateTypeOK, Gate!gateVars
<1>3. stage' = "gate" => AtGate'
  <2> SUFFICES ASSUME stage' = "gate"
               PROVE  AtGate'
    OBVIOUS
  <2>1. PICK h \in Nat, q \in Nat : h <= q /\ held = Run(0, h) /\ pending = Run(h, q) /\ Came(q)
    BY <1>1 DEF AtGate
  <2>2. Came(q)'
    BY <1>1, <2>1 DEF Came, Gate!Answered, Gate!Answer
  <2>3. Unseen' /\ ~inflight'
    BY <1>1 DEF AtGate, Unseen
  <2> QED  BY <1>1, <2>1, <2>2, <2>3 DEF AtGate, Gate!gateVars
<1>4. StreamIsWhole'
  BY <1>1 DEF StreamIsWhole, Gate!StreamIsWhole
<1> QED  BY <1>1, <1>2, <1>3, <1>4

\* With no end of a frame among the units left, every complete frame went out.
LEMMA Reached == ASSUME NEW o \in Nat, NEW q \in Nat, o <= q, Within(o, q) PROVE 2 * (q \div 2) <= o
<1>1. 2 * (q \div 2) \in Nat /\ 2 * (q \div 2) <= q /\ Gate!Ends(2 * (q \div 2))
  BY DEF Gate!Ends
<1> QED  BY <1>1 DEF Within

\* Two units that open a terminal frame are one.
LEMMA OneTerminal ==
  ASSUME GateTypeOK, NEW u \in 1..pos, NEW v \in 1..pos, Gate!Opens(u), Gate!Opens(v),
         Gate!Kind(u) \in Gate!Terminal, Gate!Kind(v) \in Gate!Terminal
  PROVE  u = v
<1>1. u \in Int /\ v \in Int /\ pos \in Int /\ (u + 1) \div 2 \in 1..Len(frames) /\ (v + 1) \div 2 \in 1..Len(frames)
  BY DEF GateTypeOK
<1>2. (u + 1) \div 2 = Len(frames) /\ (v + 1) \div 2 = Len(frames)
  BY <1>1 DEF GateTypeOK, Gate!Kind
<1>3. u % 2 = 1 /\ v % 2 = 1
  BY DEF Gate!Opens
<1> QED  BY <1>1, <1>2, <1>3

\* The monitor ends the stream the client reads.
LEMMA ClosesWell ==
  ASSUME GateTypeOK, NEW o \in Nat, o <= pos, out = Run(0, o), Cut(o), Within(o, pos), terminalSeen <=> Closing(o),
         Gate!LastWords, UNCHANGED <<frames, pos>>, stage' = "done"
  PROVE  StreamIsWhole'
<1>0. pos \in Nat /\ pos' = pos /\ \A u : frames'[(u + 1) \div 2] = Gate!Kind(u)
  BY DEF GateTypeOK, Gate!Kind
<1>1. out \in Seq(Int) /\ Len(out) = o /\ \A i \in 1..o : out[i] = i
  <2>1. Run(0, o) \in Seq(Int) /\ Len(Run(0, o)) = o - 0 /\ \A i \in 1..o - 0 : Run(0, o)[i] = 0 + i
    BY RunIs, 0 \in Nat, 0 <= o
  <2> QED  BY <2>1
<1>2. 2 * (pos \div 2) <= o
  BY <1>0, Reached
<1> DEFINE ends == {i \in 1..Len(out') : out'[i] = 0 \/ (Gate!Opens(out'[i]) /\ frames'[(out'[i] + 1) \div 2] \in Gate!Terminal)}
           Last1(i) == out'[i] = 0 => i = Len(out') /\ (i > 1 => Gate!Ends(out'[i - 1]) \/ frames'[(out'[i - 1] + 1) \div 2] = "big")
<1>3. SUFFICES /\ \A i \in 1..Len(out') : out'[i] = i \/ (out'[i] = 0 /\ i = Len(out'))
               /\ \A u \in 1..o : \E i \in 1..Len(out') : out'[i] = u
               /\ \E i \in ends : ends = {i} /\ Last1(i)
  <2> HIDE DEF ends
  <2>1. ASSUME \A u \in 1..o : \E i \in 1..Len(out') : out'[i] = u
        PROVE  \A u \in 1..2 * (pos' \div 2) : \E i \in 1..Len(out') : out'[i] = u
    <3> SUFFICES ASSUME NEW u \in 1..2 * (pos' \div 2)
                 PROVE  \E i \in 1..Len(out') : out'[i] = u
      OBVIOUS
    <3>1. u \in 1..o
      BY <1>0, <1>2
    <3> QED  BY <3>1, <2>1
  <2> QED  BY <2>1, Zenon DEF ends, StreamIsWhole, Gate!StreamIsWhole, Gate!Opens, Gate!Ends, Gate!Terminal, Gate!Kind
<1>4. CASE terminalSeen
  <2>1. out' = out
    BY <1>4, <1>1 DEF Gate!LastWords
  <2>2. PICK u \in 1..o : Gate!Opens(u) /\ Gate!Kind(u) \in Gate!Terminal
    BY <1>4 DEF Closing
  <2>3. \A i \in 1..o : i \in ends <=> Gate!Opens(i) /\ Gate!Kind(i) \in Gate!Terminal
    BY <1>0, <1>1, <2>1
  <2>4. \A i \in 1..o : i \in ends => i = u
    <3> HIDE DEF ends
    <3> SUFFICES ASSUME NEW i \in 1..o, i \in ends
                 PROVE  i = u
      OBVIOUS
    <3>1. i \in 1..pos /\ u \in 1..pos
      BY <1>0
    <3> QED  BY <3>1, <2>2, <2>3, OneTerminal
  <2>5. ends \subseteq 1..o
    BY <1>1, <2>1
  <2>6. ends = {u}
    <3> HIDE DEF ends
    <3> QED  BY <2>2, <2>3, <2>4, <2>5
  <2>7. Last1(u)
    <3>1. out'[u] = u /\ u # 0
      BY <1>1, <2>1
    <3> QED  BY <3>1
  <2> HIDE DEF ends, Last1
  <2> QED  BY <1>1, <2>1, <2>6, <2>7
<1>5. CASE ~terminalSeen
  <2>1. out' = out \o <<0>>
    BY <1>5 DEF Gate!LastWords
  <2>2. Len(out') = o + 1 /\ out'[o + 1] = 0 /\ \A i \in 1..o : out'[i] = i
    BY <1>1, <2>1
  <2>3. \A i \in 1..o : i \notin ends
    <3> SUFFICES ASSUME NEW i \in 1..o, i \in ends
                 PROVE  FALSE
      OBVIOUS
    <3>1. Gate!Opens(i) /\ Gate!Kind(i) \in Gate!Terminal
      BY <1>0, <2>2
    <3> QED  BY <3>1, <1>5 DEF Closing
  <2>4. o + 1 \in ends /\ ends \subseteq 1..o + 1
    BY <2>2
  <2>5. ends = {o + 1}
    <3> HIDE DEF ends
    <3>1. \A i \in 1..o + 1 : i \in 1..o \/ i = o + 1
      OBVIOUS
    <3>2. \A i \in ends : i = o + 1
      BY <2>3, <2>4, <3>1
    <3> QED  BY <2>4, <3>2
  <2>6. Last1(o + 1)
    <3> SUFFICES ASSUME o + 1 > 1
                 PROVE  Gate!Ends(out'[(o + 1) - 1]) \/ frames'[(out'[(o + 1) - 1] + 1) \div 2] = "big"
      BY <2>2
    <3>1. out'[(o + 1) - 1] = o /\ o # 0
      BY <2>2
    <3> QED  BY <1>0, <3>1 DEF Cut
  <2>7. \A i \in 1..Len(out') : out'[i] = i \/ (out'[i] = 0 /\ i = Len(out'))
    BY <2>2
  <2>8. \A u \in 1..o : u \in 1..Len(out') /\ out'[u] = u
    BY <2>2
  <2> HIDE DEF ends, Last1
  <2> QED  BY <2>4, <2>5, <2>6, <2>7, <2>8
<1> QED  BY <1>4, <1>5

LEMMA PullKeeps == ASSUME GateInv, Gate!Pull PROVE GateInv'
<1>1. stage = "body" /\ ~left /\ UNCHANGED <<coded, frames, pos, answers, Gate!gateVars, left>> /\ pos \in Nat /\ Reads
  BY DEF Gate!Pull, GateInv, GateTypeOK
<1>2. PICK o \in Nat, t \in Nat, q \in Nat :
        /\ o <= t /\ t <= q /\ out = Run(0, o) /\ tail = Run(o, t) /\ prefix = Run(t, q) /\ Came(q)
        /\ Cut(o) /\ Within(o, t) /\ (terminalSeen <=> Closing(o))
  BY <1>1 DEF GateInv, Streams
<1>3. prefix = <<>> => t = q
  BY <1>2, RunIs
<1>4. failure' = failure /\ \A n \in Nat : (Cut(n)' <=> Cut(n)) /\ (Closing(n)' <=> Closing(n))
  BY <1>1 DEF Gate!gateVars, Cut, Closing, Gate!Kind
<1>s. ASSUME NEW m \in Nat, NEW n \in Nat, m <= n, out' = Run(0, m), tail' = Run(m, n), prefix' = <<>>, Came(n)',
             Cut(m), Within(m, n), terminalSeen' <=> Closing(m), stage' = "body", GateTypeOK', Reads'
      PROVE  GateInv'
  <2>1. prefix' = Run(n, n)
    BY <1>s, NoUnits
  <2>2. Within(m, n)'
    BY <1>s DEF Within
  <2>3. Streams'
    BY <1>4, <1>s, <2>1, <2>2 DEF Streams
  <2>4. StreamIsWhole'
    BY <1>s, InOrder
  <2> QED  BY <1>1, <1>s, <2>3, <2>4 DEF GateInv
<1>5. CASE prefix # <<>> /\ Gate!Forward(prefix) /\ prefix' = <<>> /\ UNCHANGED <<issued, awaited, inflight>>
  <2>1. PICK m \in o..q : /\ out' = Run(0, m) /\ tail' = Run(m, q) /\ Cut(m) /\ Within(m, q)
                          /\ terminalSeen' \in BOOLEAN /\ (terminalSeen' <=> Closing(m)) /\ UNCHANGED stage
    BY <1>1, <1>2, <1>5, ForwardGoes DEF GateInv, GateTypeOK
  <2>2. GateTypeOK'
    BY <1>1, <1>4, <1>5, <2>1 DEF GateInv, GateTypeOK
  <2>3. Came(q)' /\ Reads'
    BY <1>1, <1>2, <1>4, <1>5, <2>1 DEF Came, Reads, Gate!Answered, Gate!Answer
  <2> QED  BY <1>1, <1>5, <1>s, <2>1, <2>2, <2>3
<1>6. ASSUME prefix = <<>>, ~inflight \/ Gate!Answer \in {Gate!Eof, Gate!Failed}, Gate!Answered, Gate!Closes,
             UNCHANGED <<issued, awaited, prefix>>, inflight' \in BOOLEAN
      PROVE  GateInv'
  <2>1. q = pos /\ t = pos
    BY <1>1, <1>2, <1>3, <1>6 DEF Came
  <2>2. stage' = "done" /\ Gate!LastWords /\ UNCHANGED <<tail, terminalSeen>>
    BY <1>6 DEF Gate!Closes
  <2>3. GateTypeOK'
    BY <1>1, <1>4, <1>6, <2>2 DEF GateInv, GateTypeOK
  <2>4. StreamIsWhole'
    BY <1>1, <1>2, <2>1, <2>2, ClosesWell DEF GateInv
  <2>5. Gate!Answered'
    BY <1>1, <1>6 DEF Gate!Answered
  <2> QED  BY <2>2, <2>3, <2>4, <2>5 DEF GateInv
<1>7. CASE prefix = <<>> /\ failure /\ Gate!Closes /\ UNCHANGED <<prefix, issued, awaited, inflight>>
  <2>1. ~inflight /\ Gate!Answered /\ inflight' \in BOOLEAN
    BY <1>1, <1>7 DEF Reads, GateInv, GateTypeOK
  <2> QED  BY <1>6, <1>7, <2>1
<1>8. CASE /\ prefix = <<>> /\ ~failure /\ ~inflight
           /\ Gate!NextRead /\ inflight' = TRUE /\ UNCHANGED <<stage, prefix, tail, terminalSeen, out>>
  <2>1. Gate!Answered /\ q = pos /\ t = pos
    BY <1>1, <1>2, <1>3, <1>8 DEF Came, Reads
  <2>2. issued' = issued + 1 /\ awaited' = issued + 1 /\ Len(answers) = issued
    BY <1>8, <2>1 DEF Gate!NextRead, GateInv, GateTypeOK, Gate!Answered
  <2>3. GateTypeOK' /\ ~Gate!Answered'
    BY <1>1, <1>4, <1>8, <2>2 DEF GateInv, GateTypeOK, Gate!Answered
  <2>4. Came(q)' /\ Reads'
    BY <1>1, <1>4, <1>8, <2>1, <2>3 DEF Came, Reads
  <2> QED  BY <1>1, <1>2, <1>3, <1>8, <1>s, <2>3, <2>4
<1>9. CASE /\ prefix = <<>> /\ ~failure /\ inflight /\ Gate!Answered /\ inflight' = FALSE /\ UNCHANGED <<prefix, issued, awaited>>
           /\ IF Gate!Answer \in {Gate!Eof, Gate!Failed} THEN Gate!Closes ELSE Gate!Forward(Gate!Answer)
  <2>1. CASE Gate!Answer \in {Gate!Eof, Gate!Failed}
    <3>1. Gate!Closes /\ inflight' \in BOOLEAN
      BY <1>9, <2>1
    <3> QED  BY <1>6, <1>9, <2>1, <3>1
  <2>2. CASE Gate!Answer \notin {Gate!Eof, Gate!Failed}
    <3>1. PICK p \in Nat : p = pos
      BY <1>1
    <3>2. t = q /\ q <= p /\ Gate!Answer = Run(t, p) /\ Gate!Forward(Gate!Answer)
      BY <1>2, <1>3, <1>9, <2>2, <3>1 DEF Came
    <3>3. PICK m \in o..p : /\ out' = Run(0, m) /\ tail' = Run(m, p) /\ Cut(m) /\ Within(m, p)
                            /\ terminalSeen' \in BOOLEAN /\ (terminalSeen' <=> Closing(m)) /\ UNCHANGED stage
      <4>1. t <= p /\ terminalSeen \in BOOLEAN
        BY <1>2, <3>2 DEF GateInv, GateTypeOK
      <4> QED  BY <1>2, <3>2, <4>1, ForwardGoes
    <3>4. GateTypeOK'
      BY <1>1, <1>4, <1>9, <3>3 DEF GateInv, GateTypeOK
    <3>5. Came(p)' /\ Reads'
      BY <1>1, <1>4, <1>9, <3>1, <3>3 DEF Came, Reads, Gate!Answered
    <3> QED  BY <1>1, <1>9, <1>s, <3>3, <3>4, <3>5
  <2> QED  BY <2>1, <2>2
<1> QED  BY <1>5, <1>7, <1>8, <1>9 DEF Gate!Pull

LEMMA GateInit == Gate!Init => GateInv
<1> SUFFICES ASSUME Gate!Init
             PROVE  GateInv
  OBVIOUS
<1> USE DEF Gate!Init
<1>1. GateTypeOK /\ ~Gate!Answered
  <2>1. frames \in Seq(Gate!Kinds) /\ answers \in Seq(Seq(Int)) /\ Len(frames) = 0 /\ Len(answers) = 0
    OBVIOUS
  <2>2. (0 + 1) \div 2 = 0
    OBVIOUS
  <2>3. pos \in Nat /\ Len(frames) = (pos + 1) \div 2
    BY <2>1, <2>2
  <2>4. \A i \in 1..Len(frames) - 1 : frames[i] \notin Gate!Terminal
    BY <2>1
  <2>5. Len(answers) \in {issued - 1, issued} /\ ~Gate!Answered
    BY <2>1 DEF Gate!Answered
  <2>6. {failure, inflight, terminalSeen, left} \subseteq BOOLEAN
    OBVIOUS
  <2> QED  BY <2>1, <2>3, <2>4, <2>5, <2>6 DEF GateTypeOK
<1>2. Came(0)
  BY <1>1 DEF Came
<1>3. AtGate
  BY <1>2, NoUnits DEF AtGate, Unseen
<1>4. StreamIsWhole
  BY DEF StreamIsWhole, Gate!StreamIsWhole
<1> QED  BY <1>1, <1>3, <1>4 DEF GateInv

LEMMA GateStep == GateInv /\ [Gate!Next]_Gate!vars => GateInv'
<1>1. CASE UNCHANGED Gate!vars
  <2> USE DEF Gate!vars, Gate!gateVars
  <2>0. GateTypeOK => GateTypeOK'
    BY <1>1 DEF GateTypeOK
  <2>1. StreamIsWhole => StreamIsWhole'
    BY <1>1 DEF StreamIsWhole, Gate!StreamIsWhole, Gate!Kind
  <2>2. \A q : Came(q) => Came(q)'
    BY <1>1 DEF Came, Gate!Answered, Gate!Answer
  <2>3. (AtGate => AtGate') /\ (AtVerdict => AtVerdict') /\ (Reads => Reads')
    BY <1>1, <2>2 DEF AtGate, AtVerdict, Unseen, Reads, Gate!Answered
  <2>4. Streams => Streams'
    BY <1>1, <2>2 DEF Streams, Cut, Within, Closing, Gate!Kind
  <2> QED  BY <1>1, <2>0, <2>1, <2>3, <2>4 DEF GateInv, Gate!Answered
<1> QED  BY <1>1, ArrivesKeeps, GateKeeps, DecideKeeps, PullKeeps, LeaveKeeps DEF Gate!Next

(***************************************************************************)
(* The client gets, in order and each once, the bytes the upstream sent,   *)
(* whichever of gate, time limit and rebuilt stream read them, and at the  *)
(* end every complete frame and one terminal event (stream-prelude.ts,     *)
(* sse-terminal.ts).                                                       *)
(***************************************************************************)
THEOREM StreamTheorem == Spec => []StreamIsWhole
<1>1. Init => GateInv
  BY GateInit DEF Init
<1>2. GateInv /\ [Next]_vars => GateInv'
  BY EachPart, GateStep
<1>3. GateInv => StreamIsWhole
  BY DEF GateInv
<1> QED  BY <1>1, <1>2, <1>3, PTL DEF Spec, vars

(***************************************************************************)
(* A turn through the two translators: StreamTranslation.                  *)
(***************************************************************************)
Words    == {"created", "added", "part", "delta", "done", "completed", "failed"}
EventSet == [event : Words, item : Int]
ChunkSet == [type : {"role", "think", "text", "tool", "args", "finish", "DONE", "error"}, call : Nat]
RsType ==
  [created : BOOLEAN, reasoning : {"none", "open", "done"}, message : BOOLEAN, textPart : BOOLEAN,
   calls : SUBSET Int, next : Int, index : Seq(Int), events : Seq(EventSet)]

\* Where events E speak of an item.
Marks(E, e, i) == {n \in 1..Len(E) : E[n] = Forwards!Event(e, i)}

\* What events may say of an item: nothing, that it is open, that it is done and nothing
\* after, that it is done.
Untouched(E, i) == Marks(E, "added", i) = {} /\ Marks(E, "done", i) = {} /\ Marks(E, "delta", i) = {}
Opened(E, i) ==
  Marks(E, "done", i) = {} /\ \E a \in 1..Len(E) : Marks(E, "added", i) = {a} /\ \A d \in Marks(E, "delta", i) : a < d
Shut(E, i) ==
  \E a, z \in 1..Len(E) :
    Marks(E, "added", i) = {a} /\ Marks(E, "done", i) = {z} /\ \A d \in Marks(E, "delta", i) : a < d
Closed(E, i) ==
  \E a, z \in 1..Len(E) :
    Marks(E, "added", i) = {a} /\ Marks(E, "done", i) = {z} /\ \A d \in Marks(E, "delta", i) : a < d /\ d < z
Silent(E) == Marks(E, "completed", 0) = {} /\ Marks(E, "failed", 0) = {}

\* The events are those of a state in which r is said of the reasoning, m of the message,
\* and the calls C are open.
Items(E, r, m, C) ==
  /\ r = "none" => Untouched(E, -1)
  /\ r = "open" => Opened(E, -1)
  /\ r = "done" => Shut(E, -1)
  /\ IF m THEN Opened(E, -2) ELSE Untouched(E, -2)
  /\ \A i : IF i \in C THEN Opened(E, i) ELSE i \in {-1, -2} \/ Untouched(E, i)
  /\ Silent(E)
RsInv(s) == s \in RsType /\ Items(s.events, s.reasoning, s.message, s.calls) /\ \E k \in Nat : s.calls = 1..k

\* The chunks q that wait for a reader that knows k of the L calls: the others are
\* announced in their order, each before its arguments, and none is missing while the
\* translator goes on.
Waits(k, L, q, goes) ==
  /\ k \in Nat /\ L \in Nat /\ k <= L
  /\ \A j \in 1..Len(q) :
       /\ q[j].type = "tool" =>
            /\ q[j].call \in k + 1..L
            /\ \A m \in k + 1..q[j].call - 1 : \E i \in 1..j - 1 : q[i] = Forwards!Chunk("tool", m)
            /\ \A i \in 1..j - 1 : q[i].type = "tool" => q[i].call < q[j].call
       /\ q[j].type = "args" =>
            /\ q[j].call \in 1..L
            /\ q[j].call > k => \E i \in 1..j - 1 : q[i] = Forwards!Chunk("tool", q[j].call)
  /\ goes => \A m \in k + 1..L : \E i \in 1..Len(q) : q[i] = Forwards!Chunk("tool", m)

\* All that was opened is done, and all said of a message or a call comes before.
Whole(F) ==
  /\ Untouched(F, -1) \/ Shut(F, -1)
  /\ \A i : i = -1 \/ Untouched(F, i) \/ Closed(F, i)

TrType == [calls : Seq(Block), finished : BOOLEAN, stopped : BOOLEAN, failed : BOOLEAN]
FwdType ==
  /\ fed \in Seq(Forwards!Frame) /\ upstream \in {"open", "eof", "failed"} /\ tr \in TrType
  /\ queue \in Seq(ChunkSet) /\ source \in {"open", "closed", "errored"} /\ rs \in RsType
  /\ doneSeen \in BOOLEAN /\ outcome \in {"open", "completed", "failed", "left"} /\ stored \in BOOLEAN

\* The marker stands for a turn the upstream finished.
Marked ==
  /\ tr.stopped => fed # <<>> /\ fed[Len(fed)].type = "stop"
  /\ doneSeen \/ outcome = "completed" \/ stored \/ (\E i \in 1..Len(queue) : queue[i].type = "DONE") => tr.stopped

\* A response that goes on knows the first calls, and the others wait for it.
Reading == outcome = "open" => RsInv(rs) /\ \E k \in Nat : rs.calls = 1..k /\ Waits(k, Len(tr.calls), queue, source = "open")

\* A response that ended said so once, at its end.
Finished ==
  /\ outcome \in {"completed", "failed"} =>
       rs.events[Len(rs.events)].event = outcome /\ Cardinality(Marks(rs.events, "completed", 0) \cup Marks(rs.events, "failed", 0)) = 1
  /\ outcome = "completed" => Whole(rs.events)
FwdInv == FwdType /\ Marked /\ Reading /\ Finished

LEMMA SameEvent == \A e, f, i, j : Forwards!Event(e, i) = Forwards!Event(f, j) <=> e = f /\ i = j
BY DEF Forwards!Event

\* One more event is one more mark.
LEMMA MarksGrow ==
  ASSUME NEW E \in Seq(EventSet), NEW x \in EventSet, NEW e, NEW i
  PROVE  /\ Marks(Append(E, x), e, i) = IF x = Forwards!Event(e, i) THEN Marks(E, e, i) \cup {Len(E) + 1} ELSE Marks(E, e, i)
         /\ Marks(E, e, i) \subseteq 1..Len(E) /\ Len(E) \in Nat
<1> DEFINE F == Append(E, x)
<1>1. F \in Seq(EventSet) /\ Len(F) = Len(E) + 1 /\ Len(E) \in Nat /\ F[Len(E) + 1] = x /\ \A n \in 1..Len(E) : F[n] = E[n]
  OBVIOUS
<1> HIDE DEF F
<1>2. \A n \in 1..Len(F) : n \in 1..Len(E) \/ n = Len(E) + 1
  BY <1>1
<1>3. \A n : n \in Marks(F, e, i) <=> n \in Marks(E, e, i) \/ (n = Len(E) + 1 /\ x = Forwards!Event(e, i))
  BY <1>1, <1>2 DEF Marks
<1>4. Marks(E, e, i) \subseteq 1..Len(E)
  BY DEF Marks
<1> QED  BY <1>1, <1>3, <1>4 DEF F

\* What an event changes of what is said of an item.
LEMMA Sending ==
  ASSUME NEW E \in Seq(EventSet), NEW f \in Words, NEW j \in Int, NEW i
  PROVE  LET F == Append(E, Forwards!Event(f, j))
         IN  /\ F \in Seq(EventSet)
             /\ i # j \/ f \notin {"added", "done", "delta"} =>
                  (Untouched(E, i) => Untouched(F, i)) /\ (Opened(E, i) => Opened(F, i)) /\ (Shut(E, i) => Shut(F, i)) /\ (Closed(E, i) => Closed(F, i))
             /\ i = j /\ f = "added" /\ Untouched(E, i) => Opened(F, i)
             /\ i = j /\ f = "delta" => (Opened(E, i) => Opened(F, i)) /\ (Shut(E, i) => Shut(F, i))
             /\ i = j /\ f = "done" /\ Opened(E, i) => Closed(F, i) /\ Shut(F, i)
             /\ Silent(E) /\ f \notin {"completed", "failed"} => Silent(F)
<1> DEFINE x == Forwards!Event(f, j)
           F == Append(E, x)
           l == Len(E) + 1
<1>1. x \in EventSet /\ F \in Seq(EventSet) /\ Len(F) = l /\ l \in Nat /\ 1..Len(E) \subseteq 1..l /\ l \in 1..l
  BY DEF EventSet, Forwards!Event
<1>2. \A e, n : Marks(F, e, n) = IF e = f /\ n = j THEN Marks(E, e, n) \cup {l} ELSE Marks(E, e, n)
  <2> SUFFICES ASSUME NEW e, NEW n
               PROVE  Marks(F, e, n) = IF e = f /\ n = j THEN Marks(E, e, n) \cup {l} ELSE Marks(E, e, n)
    OBVIOUS
  <2>1. Marks(F, e, n) = IF x = Forwards!Event(e, n) THEN Marks(E, e, n) \cup {l} ELSE Marks(E, e, n)
    <3>1. x \in EventSet
      BY <1>1
    <3> HIDE DEF x
    <3> QED  BY <3>1, MarksGrow
  <2>2. x = Forwards!Event(e, n) <=> e = f /\ n = j
    <3>1. Forwards!Event(e, n) = Forwards!Event(f, j) <=> e = f /\ n = j
      BY DEF Forwards!Event
    <3> QED  BY <3>1, Zenon
  <2> QED  BY <2>1, <2>2
<1>3. \A e, n : \A d \in Marks(E, e, n) : d \in Int /\ d < l
  <2> SUFFICES ASSUME NEW e, NEW n, NEW d \in Marks(E, e, n)
               PROVE  d \in Int /\ d < l
    OBVIOUS
  <2>1. d \in 1..Len(E) /\ Len(E) \in Nat
    BY <1>1, MarksGrow, Zenon
  <2> QED  BY <2>1
<1> HIDE DEF x, F, l
<1>4. i # j \/ f \notin {"added", "done", "delta"} =>
        (Untouched(E, i) => Untouched(F, i)) /\ (Opened(E, i) => Opened(F, i)) /\ (Shut(E, i) => Shut(F, i)) /\ (Closed(E, i) => Closed(F, i))
  BY <1>1, <1>2 DEF Untouched, Opened, Shut, Closed
<1>5. i = j /\ f = "added" /\ Untouched(E, i) => Opened(F, i)
  BY <1>1, <1>2 DEF Untouched, Opened
<1>6. i = j /\ f = "delta" => (Opened(E, i) => Opened(F, i)) /\ (Shut(E, i) => Shut(F, i))
  <2> SUFFICES ASSUME i = j, f = "delta"
               PROVE  (Opened(E, i) => Opened(F, i)) /\ (Shut(E, i) => Shut(F, i))
    OBVIOUS
  <2>1. Marks(F, "added", i) = Marks(E, "added", i) /\ Marks(F, "done", i) = Marks(E, "done", i) /\ Marks(F, "delta", i) = Marks(E, "delta", i) \cup {l}
    BY <1>2
  <2>2. ASSUME Shut(E, i)
        PROVE  Shut(F, i)
    <3>1. PICK a, z \in 1..Len(E) : Marks(E, "added", i) = {a} /\ Marks(E, "done", i) = {z} /\ \A d \in Marks(E, "delta", i) : a < d
      BY <2>2 DEF Shut
    <3>2. a \in 1..l /\ z \in 1..l /\ a < l
      BY <1>1, <1>3, <3>1
    <3>3. \A d \in Marks(F, "delta", i) : a < d
      BY <2>1, <3>1, <3>2
    <3> QED  BY <1>1, <2>1, <3>1, <3>2, <3>3 DEF Shut
  <2>3. ASSUME Opened(E, i)
        PROVE  Opened(F, i)
    <3>1. PICK a \in 1..Len(E) : Marks(E, "added", i) = {a} /\ \A d \in Marks(E, "delta", i) : a < d
      BY <2>3 DEF Opened
    <3>2. a \in 1..l /\ a < l
      BY <1>1, <1>3, <3>1
    <3>3. \A d \in Marks(F, "delta", i) : a < d
      BY <2>1, <3>1, <3>2
    <3> QED  BY <1>1, <2>1, <2>3, <3>1, <3>2, <3>3 DEF Opened
  <2> QED  BY <2>2, <2>3
<1>7. i = j /\ f = "done" /\ Opened(E, i) => Closed(F, i) /\ Shut(F, i)
  BY <1>1, <1>2, <1>3 DEF Opened, Shut, Closed
<1>8. Silent(E) /\ f \notin {"completed", "failed"} => Silent(F)
  BY <1>2 DEF Silent
<1> QED  BY <1>1, <1>4, <1>5, <1>6, <1>7, <1>8 DEF F, x

LEMMA SendIs ==
  ASSUME NEW s \in RsType, NEW e \in Words, NEW i \in Int
  PROVE  LET t == Forwards!Send(s, e, i)
         IN  /\ t \in RsType /\ t.events = Append(s.events, Forwards!Event(e, i))
             /\ t.created = s.created /\ t.reasoning = s.reasoning /\ t.message = s.message /\ t.textPart = s.textPart /\ t.calls = s.calls
<1>1. s.events \in Seq(EventSet) /\ Forwards!Event(e, i) \in EventSet
  BY DEF RsType, EventSet, Forwards!Event
<1>2. Append(s.events, Forwards!Event(e, i)) \in Seq(EventSet)
  BY <1>1
<1> QED  BY <1>2 DEF RsType, Forwards!Send

LEMMA OpenIs ==
  ASSUME NEW s \in RsType, NEW i \in Int
  PROVE  LET t == Forwards!Open(s, i)
         IN  /\ t \in RsType /\ t.events = Append(s.events, Forwards!Event("added", i))
             /\ t.created = s.created /\ t.reasoning = s.reasoning /\ t.message = s.message /\ t.textPart = s.textPart /\ t.calls = s.calls
<1> DEFINE u == Forwards!Send(s, "added", i)
<1>1. /\ u \in RsType /\ u.events = Append(s.events, Forwards!Event("added", i))
      /\ u.created = s.created /\ u.reasoning = s.reasoning /\ u.message = s.message /\ u.textPart = s.textPart /\ u.calls = s.calls
  <2>1. "added" \in Words
    BY DEF Words
  <2> QED  BY <2>1, SendIs, Zenon
<1> HIDE DEF u
<1>2. Append(u.index, i) \in Seq(Int) /\ u.next + 1 \in Int
  BY <1>1 DEF RsType
<1>3. Forwards!Open(s, i) = [u EXCEPT !.next = @ + 1, !.index = Append(@, i)]
  BY DEF Forwards!Open, u
<1>4. PICK t : t = [u EXCEPT !.next = @ + 1, !.index = Append(@, i)]
  OBVIOUS
<1>5. t \in RsType
  BY <1>1, <1>2, <1>4 DEF RsType
<1>6. /\ t.events = u.events /\ t.created = u.created /\ t.reasoning = u.reasoning /\ t.message = u.message
      /\ t.textPart = u.textPart /\ t.calls = u.calls
  BY <1>1, <1>4 DEF RsType
<1> QED  BY <1>1, <1>3, <1>4, <1>5, <1>6, Zenon

\* A delta, or an event that says nothing of an item, to an item that is open.
LEMMA SayKeeps ==
  ASSUME NEW s, RsInv(s), NEW e \in {"created", "part", "delta"}, NEW i \in Int,
         e = "delta" => (i = -1 /\ s.reasoning # "none") \/ (i = -2 /\ s.message) \/ i \in s.calls
  PROVE  LET t == Forwards!Send(s, e, i)
         IN  /\ RsInv(t) /\ t.created = s.created /\ t.reasoning = s.reasoning /\ t.message = s.message
             /\ t.textPart = s.textPart /\ t.calls = s.calls
<1> DEFINE t == Forwards!Send(s, e, i)
           E == s.events
           F == t.events
<1>0. s \in RsType /\ Items(E, s.reasoning, s.message, s.calls) /\ e \in Words /\ E \in Seq(EventSet)
  BY DEF RsInv, Words, RsType
<1>1. /\ t \in RsType /\ F = Append(E, Forwards!Event(e, i))
      /\ t.created = s.created /\ t.reasoning = s.reasoning /\ t.message = s.message /\ t.textPart = s.textPart /\ t.calls = s.calls
  BY <1>0, SendIs, Zenon
<1>2. PICK k \in Nat : s.calls = 1..k
  BY DEF RsInv
<1>3. s.reasoning \in {"none", "open", "done"} /\ s.message \in BOOLEAN
  BY <1>0 DEF RsType
<1> HIDE DEF t, E, F
<1>4. ASSUME NEW n
      PROVE  /\ n # i \/ e # "delta" => (Untouched(E, n) => Untouched(F, n)) /\ (Opened(E, n) => Opened(F, n)) /\ (Shut(E, n) => Shut(F, n))
             /\ (Opened(E, n) => Opened(F, n)) /\ (Shut(E, n) => Shut(F, n))
  BY <1>0, <1>1, Sending
<1>5. Silent(F)
  BY <1>0, <1>1, Sending DEF Items
<1>6. Items(F, s.reasoning, s.message, s.calls)
  <2>1. (s.reasoning = "none" => Untouched(F, -1)) /\ (s.reasoning = "open" => Opened(F, -1)) /\ (s.reasoning = "done" => Shut(F, -1))
    <3>1. s.reasoning = "none" => -1 # i \/ e # "delta"
      BY <1>2
    <3> QED  BY <1>0, <1>4, <3>1 DEF Items
  <2>2. IF s.message THEN Opened(F, -2) ELSE Untouched(F, -2)
    <3>1. ~s.message => -2 # i \/ e # "delta"
      BY <1>2
    <3> QED  BY <1>0, <1>4, <3>1 DEF Items
  <2>3. ASSUME NEW n
        PROVE  IF n \in s.calls THEN Opened(F, n) ELSE n \in {-1, -2} \/ Untouched(F, n)
    <3>1. n \notin s.calls /\ n \notin {-1, -2} => n # i \/ e # "delta"
      OBVIOUS
    <3> QED  BY <1>0, <1>4, <3>1 DEF Items
  <2> QED  BY <1>5, <2>1, <2>2, <2>3 DEF Items
<1> QED  BY <1>1, <1>2, <1>6 DEF RsInv, t, F

\* An item is opened.
LEMMA OpenKeeps ==
  ASSUME NEW s, RsInv(s), NEW i \in Int,
         (i = -1 /\ s.reasoning = "none") \/ (i = -2 /\ ~s.message) \/ (\A k \in Nat : s.calls = 1..k => i = k + 1)
  PROVE  LET t == Forwards!Open(s, i)
         IN  /\ t \in RsType /\ t.created = s.created /\ t.reasoning = s.reasoning /\ t.message = s.message
             /\ t.textPart = s.textPart /\ t.calls = s.calls
             /\ Items(t.events, IF i = -1 THEN "open" ELSE s.reasoning, IF i = -2 THEN TRUE ELSE s.message,
                      IF i > 0 THEN s.calls \cup {i} ELSE s.calls)
<1> DEFINE t == Forwards!Open(s, i)
           E == s.events
           F == t.events
           r == IF i = -1 THEN "open" ELSE s.reasoning
           m == IF i = -2 THEN TRUE ELSE s.message
           C == IF i > 0 THEN s.calls \cup {i} ELSE s.calls
<1>0. s \in RsType /\ Items(E, s.reasoning, s.message, s.calls) /\ E \in Seq(EventSet) /\ "added" \in Words
  BY DEF RsInv, RsType, Words
<1>1. /\ t \in RsType /\ F = Append(E, Forwards!Event("added", i))
      /\ t.created = s.created /\ t.reasoning = s.reasoning /\ t.message = s.message /\ t.textPart = s.textPart /\ t.calls = s.calls
  BY <1>0, OpenIs, Zenon
<1>2. PICK k \in Nat : s.calls = 1..k
  BY DEF RsInv
<1>3. (i = -1 /\ s.reasoning = "none") \/ (i = -2 /\ ~s.message) \/ i = k + 1
  BY <1>2
<1> HIDE DEF t, E, F
<1>4. ASSUME NEW n
      PROVE  /\ n # i => (Untouched(E, n) => Untouched(F, n)) /\ (Opened(E, n) => Opened(F, n)) /\ (Shut(E, n) => Shut(F, n))
             /\ n = i /\ Untouched(E, n) => Opened(F, n)
  BY <1>0, <1>1, Sending
<1>5. Silent(F)
  BY <1>0, <1>1, Sending DEF Items
<1>6. Untouched(E, i)
  <2>1. i = k + 1 => i \notin s.calls /\ i \notin {-1, -2}
    BY <1>2
  <2> QED  BY <1>0, <1>3, <2>1 DEF Items
<1>7. Items(F, r, m, C)
  <2>1. (r = "none" => Untouched(F, -1)) /\ (r = "open" => Opened(F, -1)) /\ (r = "done" => Shut(F, -1))
    BY <1>0, <1>4, <1>6 DEF Items
  <2>2. IF m THEN Opened(F, -2) ELSE Untouched(F, -2)
    BY <1>0, <1>4, <1>6 DEF Items
  <2>3. ASSUME NEW n
        PROVE  IF n \in C THEN Opened(F, n) ELSE n \in {-1, -2} \/ Untouched(F, n)
    <3>1. CASE n = i
      <4>1. Opened(F, n)
        BY <3>1, <1>4, <1>6
      <4>2. n \in C \/ n \in {-1, -2}
        BY <3>1, <1>3
      <4> QED  BY <4>1, <4>2
    <3>2. CASE n # i
      <4>1. n \in C <=> n \in s.calls
        BY <3>2
      <4> HIDE DEF C
      <4> QED  BY <3>2, <4>1, <1>0, <1>4 DEF Items
    <3> QED  BY <3>1, <3>2
  <2> HIDE DEF r, m, C
  <2> QED  BY <1>5, <2>1, <2>2, <2>3 DEF Items
<1> HIDE DEF r, m, C
<1> QED  BY <1>1, <1>7 DEF t, F, r, m, C

\* A field that no event speaks of.
LEMMA FieldKeeps ==
  ASSUME NEW s, RsInv(s), NEW t \in RsType, t.events = s.events, t.reasoning = s.reasoning, t.message = s.message, t.calls = s.calls
  PROVE  RsInv(t)
BY DEF RsInv

LEMMA CreatedKeeps ==
  ASSUME NEW s, RsInv(s)
  PROVE  LET t == Forwards!Created(s)
         IN  RsInv(t) /\ t.reasoning = s.reasoning /\ t.message = s.message /\ t.calls = s.calls
<1>1. CASE s.created
  BY <1>1 DEF Forwards!Created
<1>2. CASE ~s.created
  <2> DEFINE u == Forwards!Send(s, "created", 0)
             t == [u EXCEPT !.created = TRUE]
  <2>1. RsInv(u) /\ u.reasoning = s.reasoning /\ u.message = s.message /\ u.calls = s.calls
    BY SayKeeps
  <2>2. Forwards!Created(s) = t
    BY <1>2 DEF Forwards!Created, Forwards!Response
  <2> HIDE DEF u
  <2>3. t \in RsType /\ t.events = u.events /\ t.reasoning = u.reasoning /\ t.message = u.message /\ t.calls = u.calls
    BY <2>1 DEF RsInv, RsType
  <2> HIDE DEF t
  <2>4. RsInv(t)
    BY <2>1, <2>3, FieldKeeps
  <2> QED  BY <2>1, <2>2, <2>3, <2>4
<1> QED  BY <1>1, <1>2

LEMMA EnsureReasoningKeeps ==
  ASSUME NEW s, RsInv(s)
  PROVE  LET t == Forwards!EnsureReasoning(s)
         IN  RsInv(t) /\ t.reasoning # "none" /\ t.message = s.message /\ t.calls = s.calls
<1>1. CASE s.reasoning # "none"
  BY <1>1 DEF Forwards!EnsureReasoning
<1>2. CASE s.reasoning = "none"
  <2> DEFINE u == Forwards!Open(s, -1)
             t == [u EXCEPT !.reasoning = "open"]
  <2>1. u \in RsType /\ u.message = s.message /\ u.calls = s.calls /\ Items(u.events, "open", s.message, s.calls)
    <3>i. PICK i \in Int : i = -1
      OBVIOUS
    <3>1. LET v == Forwards!Open(s, i)
          IN  v \in RsType /\ v.message = s.message /\ v.calls = s.calls
              /\ Items(v.events, IF i = -1 THEN "open" ELSE s.reasoning, IF i = -2 THEN TRUE ELSE s.message, IF i > 0 THEN s.calls \cup {i} ELSE s.calls)
      BY <1>2, <3>i, OpenKeeps
    <3>2. u = Forwards!Open(s, i) /\ i = -1 /\ i # -2 /\ ~(i > 0)
      BY <3>i
    <3> HIDE DEF u
    <3> QED  BY <3>1, <3>2
  <2>2. Forwards!EnsureReasoning(s) = t
    BY <1>2 DEF Forwards!EnsureReasoning, Forwards!Reasoning
  <2> HIDE DEF u
  <2>3. t \in RsType /\ t.events = u.events /\ t.reasoning = "open" /\ t.message = u.message /\ t.calls = u.calls
    BY <2>1 DEF RsType
  <2> HIDE DEF t
  <2>4. RsInv(t)
    BY <2>1, <2>3 DEF RsInv
  <2> QED  BY <2>1, <2>2, <2>3, <2>4
<1> QED  BY <1>1, <1>2

LEMMA EnsureMessageKeeps ==
  ASSUME NEW s, RsInv(s)
  PROVE  LET t == Forwards!EnsureMessage(s)
         IN  RsInv(t) /\ t.reasoning = s.reasoning /\ t.message /\ t.calls = s.calls
<1>1. CASE s.message
  BY <1>1 DEF Forwards!EnsureMessage
<1>2. CASE ~s.message
  <2> DEFINE u == Forwards!Open(s, -2)
             t == [u EXCEPT !.message = TRUE]
  <2>1. u \in RsType /\ u.reasoning = s.reasoning /\ u.calls = s.calls /\ Items(u.events, s.reasoning, TRUE, s.calls)
    <3>i. PICK i \in Int : i = -2
      OBVIOUS
    <3>1. LET v == Forwards!Open(s, i)
          IN  v \in RsType /\ v.reasoning = s.reasoning /\ v.calls = s.calls
              /\ Items(v.events, IF i = -1 THEN "open" ELSE s.reasoning, IF i = -2 THEN TRUE ELSE s.message, IF i > 0 THEN s.calls \cup {i} ELSE s.calls)
      BY <1>2, <3>i, OpenKeeps
    <3>2. u = Forwards!Open(s, i) /\ i # -1 /\ i = -2 /\ ~(i > 0)
      BY <3>i
    <3> HIDE DEF u
    <3> QED  BY <3>1, <3>2
  <2>2. Forwards!EnsureMessage(s) = t
    BY <1>2 DEF Forwards!EnsureMessage, Forwards!Message
  <2> HIDE DEF u
  <2>3. t \in RsType /\ t.events = u.events /\ t.reasoning = u.reasoning /\ t.message = TRUE /\ t.calls = u.calls
    BY <2>1 DEF RsType
  <2> HIDE DEF t
  <2>4. RsInv(t)
    BY <2>1, <2>3 DEF RsInv
  <2> QED  BY <2>1, <2>2, <2>3, <2>4
<1> QED  BY <1>1, <1>2

LEMMA EnsureTextPartKeeps ==
  ASSUME NEW s, RsInv(s)
  PROVE  LET t == Forwards!EnsureTextPart(s)
         IN  RsInv(t) /\ t.reasoning = s.reasoning /\ t.message = s.message /\ t.calls = s.calls
<1>1. CASE s.textPart
  BY <1>1 DEF Forwards!EnsureTextPart
<1>2. CASE ~s.textPart
  <2> DEFINE u == Forwards!Send(s, "part", -2)
             t == [u EXCEPT !.textPart = TRUE]
  <2>1. RsInv(u) /\ u.reasoning = s.reasoning /\ u.message = s.message /\ u.calls = s.calls
    BY SayKeeps
  <2>2. Forwards!EnsureTextPart(s) = t
    BY <1>2 DEF Forwards!EnsureTextPart, Forwards!Message
  <2> HIDE DEF u
  <2>3. t \in RsType /\ t.events = u.events /\ t.reasoning = u.reasoning /\ t.message = u.message /\ t.calls = u.calls
    BY <2>1 DEF RsInv, RsType
  <2> HIDE DEF t
  <2>4. RsInv(t)
    BY <2>1, <2>3, FieldKeeps
  <2> QED  BY <2>1, <2>2, <2>3, <2>4
<1> QED  BY <1>1, <1>2

\* The reasoning is done; what may still be said of it is not in order.
LEMMA CloseReasoningKeeps ==
  ASSUME NEW s, RsInv(s)
  PROVE  LET t == Forwards!CloseReasoning(s)
         IN  RsInv(t) /\ t.reasoning = (IF s.reasoning = "none" THEN "none" ELSE "done") /\ t.message = s.message /\ t.calls = s.calls
<1>0. s \in RsType /\ s.reasoning \in {"none", "open", "done"} /\ s.events \in Seq(EventSet)
  BY DEF RsInv, RsType
<1>1. CASE s.reasoning # "open"
  BY <1>0, <1>1 DEF Forwards!CloseReasoning
<1>2. CASE s.reasoning = "open"
  <2> DEFINE u == Forwards!Send(s, "done", -1)
             t == [u EXCEPT !.reasoning = "done"]
  <2>1. u \in RsType /\ u.events = Append(s.events, Forwards!Event("done", -1)) /\ u.message = s.message /\ u.calls = s.calls
    <3>1. "done" \in Words
      BY DEF Words
    <3>2. PICK i \in Int : i = -1
      OBVIOUS
    <3>3. LET v == Forwards!Send(s, "done", i)
          IN  v \in RsType /\ v.events = Append(s.events, Forwards!Event("done", i)) /\ v.message = s.message /\ v.calls = s.calls
      BY <1>0, <3>1, SendIs
    <3> QED  BY <3>2, <3>3
  <2>2. Forwards!CloseReasoning(s) = t
    BY <1>2 DEF Forwards!CloseReasoning, Forwards!Reasoning
  <2> HIDE DEF u
  <2>3. t \in RsType /\ t.events = u.events /\ t.reasoning = "done" /\ t.message = u.message /\ t.calls = u.calls
    BY <2>1 DEF RsType
  <2> HIDE DEF t
  <2>4. ASSUME NEW n
        PROVE  /\ n # -1 => (Untouched(s.events, n) => Untouched(u.events, n)) /\ (Opened(s.events, n) => Opened(u.events, n))
               /\ n = -1 /\ Opened(s.events, n) => Shut(u.events, n)
    <3>1. "done" \in Words
      BY DEF Words
    <3> QED  BY <1>0, <2>1, <3>1, Sending
  <2>5. Silent(u.events)
    <3>1. "done" \in Words
      BY DEF Words
    <3>2. PICK i \in Int : i = -1
      OBVIOUS
    <3>3. Silent(s.events) => Silent(Append(s.events, Forwards!Event("done", i)))
      BY <1>0, <3>1, Sending
    <3> QED  BY <2>1, <3>2, <3>3 DEF RsInv, Items
  <2>6. \A k \in Nat : s.calls = 1..k => -1 \notin s.calls
    OBVIOUS
  <2>7. Items(u.events, "done", s.message, s.calls)
    <3>1. Items(s.events, "open", s.message, s.calls) /\ -1 \notin s.calls
      BY <1>2, <2>6 DEF RsInv
    <3>2. Shut(u.events, -1)
      BY <2>4, <3>1 DEF Items
    <3>3. IF s.message THEN Opened(u.events, -2) ELSE Untouched(u.events, -2)
      BY <2>4, <3>1 DEF Items
    <3>4. ASSUME NEW n
          PROVE  IF n \in s.calls THEN Opened(u.events, n) ELSE n \in {-1, -2} \/ Untouched(u.events, n)
      BY <2>4, <3>1 DEF Items
    <3> QED  BY <2>5, <3>2, <3>3, <3>4 DEF Items
  <2>8. RsInv(t)
    BY <2>1, <2>3, <2>7 DEF RsInv
  <2> QED  BY <1>2, <2>1, <2>2, <2>3, <2>8
<1> QED  BY <1>1, <1>2

LEMMA FallbackKeeps ==
  ASSUME NEW s, RsInv(s)
  PROVE  RsInv(Forwards!Fallback(s)) /\ Forwards!Fallback(s).reasoning = s.reasoning
<1>1. CASE s.message \/ s.reasoning = "none" \/ s.calls # {}
  BY <1>1 DEF Forwards!Fallback
<1>2. CASE ~(s.message \/ s.reasoning = "none" \/ s.calls # {})
  <2> DEFINE u == Forwards!EnsureMessage(s)
             t == Forwards!EnsureTextPart(u)
  <2>1. RsInv(u) /\ u.reasoning = s.reasoning /\ u.message
    BY EnsureMessageKeeps
  <2> HIDE DEF u
  <2>2. RsInv(t) /\ t.reasoning = s.reasoning /\ t.message
    BY <2>1, EnsureTextPartKeeps
  <2> HIDE DEF t
  <2>3. RsInv(Forwards!Send(t, "delta", -2)) /\ Forwards!Send(t, "delta", -2).reasoning = s.reasoning
    BY <2>2, SayKeeps
  <2>4. Forwards!Fallback(s) = Forwards!Send(t, "delta", -2)
    BY <1>2 DEF Forwards!Fallback, Forwards!Message, t, u
  <2> QED  BY <2>3, <2>4
<1> QED  BY <1>1, <1>2

\* A chunk that finds its call keeps the items, and only one that announces a call
\* opens one.
LEMMA HandleKeeps ==
  ASSUME NEW s, RsInv(s), NEW c \in ChunkSet, NEW k \in Nat, s.calls = 1..k,
         c.type = "tool" => c.call = k + 1, c.type = "args" => c.call \in 1..k
  PROVE  LET t == Forwards!Handle(s, c)
         IN  RsInv(t) /\ t.calls = 1..(IF c.type = "tool" THEN k + 1 ELSE k)
<1>1. CASE c.type = "think"
  <2> DEFINE u == Forwards!EnsureReasoning(s)
  <2>1. RsInv(u) /\ u.reasoning # "none" /\ u.calls = s.calls
    BY EnsureReasoningKeeps
  <2> HIDE DEF u
  <2>2. RsInv(Forwards!Send(u, "delta", -1)) /\ Forwards!Send(u, "delta", -1).calls = s.calls
    <3>1. PICK i \in Int : i = -1
      OBVIOUS
    <3>2. RsInv(Forwards!Send(u, "delta", i)) /\ Forwards!Send(u, "delta", i).calls = u.calls
      BY <2>1, <3>1, SayKeeps
    <3> QED  BY <2>1, <3>1, <3>2
  <2>3. Forwards!Handle(s, c) = Forwards!Send(u, "delta", -1)
    BY <1>1 DEF Forwards!Handle, Forwards!Reasoning, u
  <2> QED  BY <1>1, <2>2, <2>3
<1>2. CASE c.type = "text"
  <2> DEFINE u == Forwards!CloseReasoning(s)
             v == Forwards!EnsureMessage(u)
             t == Forwards!EnsureTextPart(v)
  <2>1. RsInv(u) /\ u.calls = s.calls
    BY CloseReasoningKeeps
  <2> HIDE DEF u
  <2>2. RsInv(v) /\ v.calls = s.calls /\ v.message
    BY <2>1, EnsureMessageKeeps
  <2> HIDE DEF v
  <2>3. RsInv(t) /\ t.calls = s.calls /\ t.message
    BY <2>2, EnsureTextPartKeeps
  <2> HIDE DEF t
  <2>4. RsInv(Forwards!Send(t, "delta", -2)) /\ Forwards!Send(t, "delta", -2).calls = s.calls
    <3>1. PICK i \in Int : i = -2
      OBVIOUS
    <3>2. RsInv(Forwards!Send(t, "delta", i)) /\ Forwards!Send(t, "delta", i).calls = t.calls
      BY <2>3, <3>1, SayKeeps
    <3> QED  BY <2>3, <3>1, <3>2
  <2>5. Forwards!Handle(s, c) = Forwards!Send(t, "delta", -2)
    BY <1>2 DEF Forwards!Handle, Forwards!Message, t, u, v
  <2> QED  BY <1>2, <2>4, <2>5
<1>3. CASE c.type = "tool"
  <2> DEFINE u == Forwards!CloseReasoning(s)
             v == Forwards!Open(u, c.call)
             t == [v EXCEPT !.calls = @ \cup {c.call}]
  <2>1. RsInv(u) /\ u.calls = s.calls
    BY CloseReasoningKeeps
  <2> HIDE DEF u
  <2>2. c.call = k + 1 /\ c.call \in Int /\ c.call > 0 /\ c.call # -1 /\ c.call # -2 /\ s.calls \cup {c.call} = 1..k + 1
    BY <1>3
  <2>3. v \in RsType /\ v.reasoning = u.reasoning /\ v.message = u.message /\ v.calls = u.calls
        /\ Items(v.events, u.reasoning, u.message, u.calls \cup {c.call})
    <3>1. \A n \in Nat : u.calls = 1..n => c.call = n + 1
      <4> SUFFICES ASSUME NEW n \in Nat, 1..k = 1..n
                   PROVE  k = n
        BY <2>1, <2>2
      <4>1. n = 0 \/ n \in 1..k
        OBVIOUS
      <4>2. k = 0 \/ k \in 1..n
        OBVIOUS
      <4>3. (n = 0 => 1 \notin 1..k) /\ (k = 0 => 1 \notin 1..n)
        OBVIOUS
      <4> QED  BY <4>1, <4>2, <4>3
    <3>2. v \in RsType /\ v.reasoning = u.reasoning /\ v.message = u.message /\ v.calls = u.calls
          /\ Items(v.events, IF c.call = -1 THEN "open" ELSE u.reasoning, IF c.call = -2 THEN TRUE ELSE u.message,
                   IF c.call > 0 THEN u.calls \cup {c.call} ELSE u.calls)
      BY <2>1, <2>2, <3>1, OpenKeeps
    <3> HIDE DEF v
    <3> QED  BY <3>2, <2>2
  <2> HIDE DEF v
  <2>4. t \in RsType /\ t.events = v.events /\ t.reasoning = u.reasoning /\ t.message = u.message /\ t.calls = 1..k + 1
    BY <2>1, <2>2, <2>3 DEF RsType
  <2>5. Forwards!Handle(s, c) = t
    BY <1>3 DEF Forwards!Handle, u, v
  <2> HIDE DEF t
  <2>6. RsInv(t)
    <3>1. Items(t.events, t.reasoning, t.message, t.calls) /\ k + 1 \in Nat
      <4>1. u.calls \cup {c.call} = t.calls
        BY <2>1, <2>2, <2>4, Zenon
      <4>2. Items(t.events, t.reasoning, t.message, t.calls)
        BY <2>3, <2>4, <4>1, Zenon
      <4> QED  BY <4>2
    <3> QED  BY <2>4, <3>1 DEF RsInv
  <2> QED  BY <1>3, <2>4, <2>5, <2>6
<1>4. CASE c.type = "args"
  <2>1. c.call \in s.calls /\ c.call \in Int
    BY <1>4
  <2>2. RsInv(Forwards!Send(s, "delta", c.call)) /\ Forwards!Send(s, "delta", c.call).calls = s.calls
    BY <2>1, SayKeeps
  <2>3. Forwards!Handle(s, c) = Forwards!Send(s, "delta", c.call)
    BY <1>4 DEF Forwards!Handle
  <2> QED  BY <1>4, <2>2, <2>3
<1>5. CASE c.type \notin {"think", "text", "tool", "args"}
  <2>1. Forwards!Handle(s, c) = s
    BY <1>5 DEF Forwards!Handle
  <2> QED  BY <1>5, <2>1
<1> QED  BY <1>1, <1>2, <1>3, <1>4, <1>5

\* The last event, and the only one to say how the response ended.
LEMMA EndsOnce ==
  ASSUME NEW E \in Seq(EventSet), Silent(E), NEW w \in {"completed", "failed"}
  PROVE  LET F == Append(E, Forwards!Event(w, 0))
         IN  /\ F \in Seq(EventSet) /\ F[Len(F)].event = w
             /\ Cardinality(Marks(F, "completed", 0) \cup Marks(F, "failed", 0)) = 1
<1> DEFINE x == Forwards!Event(w, 0)
           F == Append(E, x)
<1>1. x \in EventSet /\ x.event = w
  BY DEF EventSet, Words, Forwards!Event
<1>2. F \in Seq(EventSet) /\ Len(F) = Len(E) + 1 /\ F[Len(F)] = x
  BY <1>1
<1>3. \A e : Marks(F, e, 0) = IF e = w THEN Marks(E, e, 0) \cup {Len(E) + 1} ELSE Marks(E, e, 0)
  <2> SUFFICES ASSUME NEW e
               PROVE  Marks(F, e, 0) = IF e = w THEN Marks(E, e, 0) \cup {Len(E) + 1} ELSE Marks(E, e, 0)
    OBVIOUS
  <2>1. x = Forwards!Event(e, 0) <=> e = w
    BY DEF Forwards!Event
  <2> HIDE DEF x
  <2> QED  BY <1>1, <2>1, MarksGrow
<1>4. Marks(F, "completed", 0) \cup Marks(F, "failed", 0) = {Len(E) + 1}
  <2> HIDE DEF F
  <2> QED  BY <1>3 DEF Silent
<1>5. Cardinality({Len(E) + 1}) = 1
  BY FS_Singleton
<1> QED  BY <1>1, <1>2, <1>4, <1>5

\* Events that close the calls 1 to k.
LEMMA MarksJoin ==
  ASSUME NEW E \in Seq(EventSet), NEW k \in Nat, NEW e, NEW i, NEW D \in Seq(EventSet), Len(D) = k,
         \A n \in 1..k : D[n] = Forwards!Event("done", n)
  PROVE  /\ E \o D \in Seq(EventSet) /\ Len(E \o D) = Len(E) + k
         /\ e = "done" /\ i \in 1..k => Marks(E \o D, e, i) = Marks(E, e, i) \cup {Len(E) + i}
         /\ ~(e = "done" /\ i \in 1..k) => Marks(E \o D, e, i) = Marks(E, e, i)
<1> DEFINE F == E \o D
           l == Len(E)
<1>1. D \in Seq(EventSet) /\ Len(D) = k /\ \A n \in 1..k : D[n] = Forwards!Event("done", n)
  OBVIOUS
<1>2. F \in Seq(EventSet) /\ Len(F) = l + k /\ l \in Nat /\ (\A n \in 1..l : F[n] = E[n]) /\ \A n \in 1..k : F[l + n] = D[n]
  <2>1. F \in Seq(EventSet) /\ Len(F) = l + k /\ l \in Nat
    BY <1>1
  <2>2. \A n \in 1..l : F[n] = E[n]
    BY <1>1
  <2>3. ASSUME NEW n \in 1..k
        PROVE  F[l + n] = D[n]
    BY <1>1
  <2> QED  BY <2>1, <2>2, <2>3
<1> HIDE DEF F, l
<1>3. \A n \in 1..k : F[l + n] = Forwards!Event(e, i) <=> e = "done" /\ n = i
  <2> SUFFICES ASSUME NEW n \in 1..k
               PROVE  F[l + n] = Forwards!Event(e, i) <=> e = "done" /\ n = i
    OBVIOUS
  <2>1. F[l + n] = Forwards!Event("done", n)
    BY <1>1, <1>2
  <2> QED  BY <2>1 DEF Forwards!Event
<1>4. \A n : n \in 1..Len(F) <=> n \in 1..l \/ \E m \in 1..k : n = l + m
  <2> SUFFICES ASSUME NEW n
               PROVE  n \in 1..l + k <=> n \in 1..l \/ \E m \in 1..k : n = l + m
    BY <1>2
  <2>1. n \in 1..l + k /\ n \notin 1..l => n - l \in 1..k /\ n = l + (n - l)
    BY <1>2
  <2>2. n \in 1..l => n \in 1..l + k
    BY <1>2
  <2>3. \A m \in 1..k : l + m \in 1..l + k
    BY <1>2
  <2> QED  BY <2>1, <2>2, <2>3
<1>5. \A n : n \in Marks(F, e, i) <=> n \in Marks(E, e, i) \/ (e = "done" /\ i \in 1..k /\ n = l + i)
  <2> SUFFICES ASSUME NEW n
               PROVE  n \in Marks(F, e, i) <=> n \in Marks(E, e, i) \/ (e = "done" /\ i \in 1..k /\ n = l + i)
    OBVIOUS
  <2>1. n \in Marks(F, e, i) <=> n \in 1..Len(F) /\ F[n] = Forwards!Event(e, i)
    BY DEF Marks
  <2>2. n \in Marks(E, e, i) <=> n \in 1..l /\ E[n] = Forwards!Event(e, i)
    BY DEF Marks, l
  <2>3. CASE n \in 1..l
    <3>1. \A m \in 1..k : n # l + m
      BY <2>3, <1>2
    <3> QED  BY <2>1, <2>2, <2>3, <3>1, <1>2, <1>4
  <2>4. CASE n \notin 1..l
    BY <2>1, <2>2, <2>4, <1>3, <1>4
  <2> QED  BY <2>3, <2>4
<1>6. Marks(F, e, i) = IF e = "done" /\ i \in 1..k THEN Marks(E, e, i) \cup {l + i} ELSE Marks(E, e, i)
  BY <1>5
<1> QED  BY <1>2, <1>6 DEF F, l

LEMMA SameCount == ASSUME NEW S PROVE Forwards!Cardinality(S) = Cardinality(S)
BY DEF Forwards!Cardinality, Cardinality

\* The calls are closed, all at once.
LEMMA CallsClose ==
  ASSUME NEW E \in Seq(EventSet), NEW k \in Nat, Silent(E),
         Untouched(E, -1) \/ Shut(E, -1), Untouched(E, -2) \/ Closed(E, -2),
         \A i : IF i \in 1..k THEN Opened(E, i) ELSE i \in {-1, -2} \/ Untouched(E, i),
         NEW D \in Seq(EventSet), Len(D) = k, \A n \in 1..k : D[n] = Forwards!Event("done", n), NEW F, F = E \o D
  PROVE  F \in Seq(EventSet) /\ Whole(F) /\ Silent(F)
<1>7. ASSUME NEW e, NEW i
      PROVE  /\ F \in Seq(EventSet) /\ Len(F) = Len(E) + k
             /\ e = "done" /\ i \in 1..k => Marks(F, e, i) = Marks(E, e, i) \cup {Len(E) + i}
             /\ ~(e = "done" /\ i \in 1..k) => Marks(F, e, i) = Marks(E, e, i)
             /\ \A n \in Marks(E, e, i) : n \in 1..Len(E)
  <2>1. \A n \in Marks(E, e, i) : n \in 1..Len(E)
    BY DEF Marks
  <2>2. /\ E \o D \in Seq(EventSet) /\ Len(E \o D) = Len(E) + k
        /\ e = "done" /\ i \in 1..k => Marks(E \o D, e, i) = Marks(E, e, i) \cup {Len(E) + i}
        /\ ~(e = "done" /\ i \in 1..k) => Marks(E \o D, e, i) = Marks(E, e, i)
    <3>1. E \in Seq(EventSet) /\ k \in Nat /\ D \in Seq(EventSet) /\ Len(D) = k /\ \A n \in 1..k : D[n] = Forwards!Event("done", n)
      OBVIOUS
    <3> QED  BY <3>1, MarksJoin
  <2>3. F = E \o D
    OBVIOUS
  <2> QED  BY <2>1, <2>2, <2>3, Zenon
<1>8. F \in Seq(EventSet) /\ Len(F) = Len(E) + k /\ Len(E) \in Nat /\ 1..Len(E) \subseteq 1..Len(F) /\ Silent(F)
  <2>1. F \in Seq(EventSet) /\ Len(F) = Len(E) + k
    BY <1>7
  <2>2. Len(E) \in Nat
    OBVIOUS
  <2>3. Silent(F)
    BY <1>7 DEF Silent
  <2>4. 1..Len(E) \subseteq 1..Len(E) + k
    BY <2>2
  <2> QED  BY <2>1, <2>2, <2>3, <2>4
<1>9. Whole(F)
  <2>1. Untouched(F, -1) \/ Shut(F, -1)
    <3>1. ASSUME NEW e
          PROVE  Marks(F, e, -1) = Marks(E, e, -1)
      <4>1. -1 \notin 1..k
        OBVIOUS
      <4> QED  BY <4>1, <1>7
    <3>2. Untouched(E, -1) \/ Shut(E, -1)
      OBVIOUS
    <3> QED  BY <1>8, <3>1, <3>2 DEF Untouched, Shut
  <2>2. ASSUME NEW i
        PROVE  i = -1 \/ Untouched(F, i) \/ Closed(F, i)
    <3>1. CASE i \in 1..k
      <4>1. Opened(E, i)
        BY <3>1
      <4>2. /\ Marks(F, "added", i) = Marks(E, "added", i) /\ Marks(F, "delta", i) = Marks(E, "delta", i)
            /\ Marks(F, "done", i) = {Len(E) + i}
        <5>1. Marks(E, "done", i) = {}
          BY <4>1 DEF Opened
        <5>2. Marks(F, "done", i) = Marks(E, "done", i) \cup {Len(E) + i}
          BY <3>1, <1>7
        <5> QED  BY <1>7, <5>1, <5>2
      <4>3. PICK n \in 1..Len(E) : Marks(E, "added", i) = {n} /\ \A m \in Marks(E, "delta", i) : n < m
        BY <4>1 DEF Opened
      <4>4. Len(E) + i \in 1..Len(F) /\ n \in 1..Len(F) /\ \A m \in Marks(E, "delta", i) : m < Len(E) + i
        <5>1. Len(E) + i \in 1..Len(F) /\ n \in 1..Len(F)
          BY <3>1, <1>8
        <5>2. ASSUME NEW m \in Marks(E, "delta", i)
              PROVE  m < Len(E) + i
          <6>1. m \in 1..Len(E)
            BY <1>7
          <6> QED  BY <6>1, <3>1, <1>8
        <5> QED  BY <5>1, <5>2
      <4>5. Closed(F, i)
        BY <4>2, <4>3, <4>4 DEF Closed
      <4> QED  BY <4>5
    <3>2. CASE i \notin 1..k
      <4>1. \A e : Marks(F, e, i) = Marks(E, e, i)
        BY <3>2, <1>7
      <4>2. i = -1 \/ Untouched(E, i) \/ Closed(E, i)
        BY <3>2
      <4> QED  BY <1>8, <4>1, <4>2 DEF Untouched, Closed
    <3> QED  BY <3>1, <3>2
  <2> QED  BY <2>1, <2>2 DEF Whole
<1> QED  BY <1>8, <1>9

\* The last event leaves the items as they are.
LEMMA Completes ==
  ASSUME NEW f \in RsType, Whole(f.events), Silent(f.events)
  PROVE  LET F == Forwards!Send(f, "completed", 0).events
         IN  /\ Forwards!Send(f, "completed", 0) \in RsType /\ Whole(F) /\ F[Len(F)].event = "completed"
             /\ Cardinality(Marks(F, "completed", 0) \cup Marks(F, "failed", 0)) = 1
<1>1. "completed" \in Words /\ "completed" \notin {"added", "done", "delta"} /\ 0 \in Int /\ f.events \in Seq(EventSet)
  BY DEF Words, RsType
<1>2. Forwards!Send(f, "completed", 0) \in RsType /\ Forwards!Send(f, "completed", 0).events = Append(f.events, Forwards!Event("completed", 0))
  BY <1>1, SendIs
<1> DEFINE E == f.events
           G == Append(E, Forwards!Event("completed", 0))
<1>3. ASSUME NEW n
      PROVE  /\ Untouched(E, n) => Untouched(G, n)
             /\ Shut(E, n) => Shut(G, n)
             /\ Closed(E, n) => Closed(G, n)
  BY <1>1, Sending
<1>4. G[Len(G)].event = "completed" /\ Cardinality(Marks(G, "completed", 0) \cup Marks(G, "failed", 0)) = 1
  BY <1>1, EndsOnce
<1> HIDE DEF G
<1>5. Whole(G)
  BY <1>3 DEF Whole
<1> QED  BY <1>2, <1>4, <1>5 DEF G

\* The response that completes leaves nothing open.
LEMMA FinalizeEnds ==
  ASSUME NEW s, RsInv(s)
  PROVE  LET F == Forwards!Finalize(s).events
         IN  /\ Forwards!Finalize(s) \in RsType /\ Whole(F) /\ F[Len(F)].event = "completed"
             /\ Cardinality(Marks(F, "completed", 0) \cup Marks(F, "failed", 0)) = 1
<1> DEFINE a == Forwards!Created(s)
           b == Forwards!CloseReasoning(a)
           c == Forwards!Fallback(b)
           d == Forwards!CloseMessage(c)
           f == Forwards!CloseCalls(d)
           g == Forwards!Send(f, "completed", 0)
<1>1. RsInv(c) /\ c.reasoning # "open"
  <2>1. RsInv(a)
    BY CreatedKeeps
  <2> HIDE DEF a
  <2>2. RsInv(b) /\ b.reasoning # "open"
    BY <2>1, CloseReasoningKeeps
  <2> HIDE DEF b
  <2> QED  BY <2>2, FallbackKeeps
<1>2. Forwards!Finalize(s) = g
  BY DEF Forwards!Finalize, Forwards!Response
<1> HIDE DEF c
<1>3. PICK k \in Nat : c.calls = 1..k
  BY <1>1 DEF RsInv
<1>4. /\ c \in RsType /\ c.events \in Seq(EventSet) /\ c.message \in BOOLEAN /\ c.reasoning \in {"none", "done"}
      /\ Items(c.events, c.reasoning, c.message, 1..k)
  BY <1>1, <1>3 DEF RsInv, RsType
<1>5. /\ d \in RsType /\ d.calls = 1..k /\ d.events \in Seq(EventSet) /\ Silent(d.events)
      /\ Untouched(d.events, -1) \/ Shut(d.events, -1)
      /\ Untouched(d.events, -2) \/ Closed(d.events, -2)
      /\ \A i : IF i \in 1..k THEN Opened(d.events, i) ELSE i \in {-1, -2} \/ Untouched(d.events, i)
  <2>1. CASE ~c.message
    <3>1. d = c
      BY <2>1 DEF Forwards!CloseMessage
    <3> QED  BY <2>1, <3>1, <1>3, <1>4 DEF Items
  <2>2. CASE c.message
    <3>1. PICK j \in Int : j = -2
      OBVIOUS
    <3>2. "done" \in Words
      BY DEF Words
    <3>3. d = Forwards!Send(c, "done", j)
      BY <2>2, <3>1 DEF Forwards!CloseMessage, Forwards!Message
    <3>4. d \in RsType /\ d.events = Append(c.events, Forwards!Event("done", j)) /\ d.calls = c.calls
      <4>1. LET t == Forwards!Send(c, "done", j)
            IN  t \in RsType /\ t.events = Append(c.events, Forwards!Event("done", j)) /\ t.calls = c.calls
        BY <1>4, <3>2, SendIs
      <4> HIDE DEF d
      <4> QED  BY <3>3, <4>1, Zenon
    <3> HIDE DEF d
    <3>5. ASSUME NEW n
          PROVE  /\ d.events \in Seq(EventSet)
                 /\ n # j => /\ Untouched(c.events, n) => Untouched(d.events, n)
                             /\ Opened(c.events, n) => Opened(d.events, n)
                             /\ Shut(c.events, n) => Shut(d.events, n)
                 /\ n = j /\ Opened(c.events, n) => Closed(d.events, n)
                 /\ Silent(c.events) => Silent(d.events)
      BY <1>4, <3>2, <3>4, Sending
    <3>6. d.events \in Seq(EventSet) /\ Silent(d.events)
      BY <3>5, <1>4 DEF Items
    <3>7. Untouched(d.events, -1) \/ Shut(d.events, -1)
      BY <3>1, <3>5, <1>4 DEF Items
    <3>8. Closed(d.events, -2)
      BY <2>2, <3>1, <3>5, <1>4 DEF Items
    <3>9. ASSUME NEW i
          PROVE  IF i \in 1..k THEN Opened(d.events, i) ELSE i \in {-1, -2} \/ Untouched(d.events, i)
      <4>1. i \in 1..k => i # j
        BY <3>1
      <4> QED  BY <4>1, <3>1, <3>5, <1>4 DEF Items
    <3> QED  BY <3>4, <3>6, <3>7, <3>8, <3>9, <1>3
  <2> QED  BY <1>4, <2>1, <2>2
<1> HIDE DEF d
<1>6. PICK D : D = [n \in 1..k |-> Forwards!Event("done", n)]
  OBVIOUS
<1> DEFINE F == d.events \o D
<1>7. F \in Seq(EventSet) /\ Whole(F) /\ Silent(F)
  <2>1. \A n \in 1..k : Forwards!Event("done", n) \in EventSet
    BY DEF EventSet, Words, Forwards!Event
  <2>2. D \in Seq(EventSet) /\ Len(D) = k /\ \A n \in 1..k : D[n] = Forwards!Event("done", n)
    BY <1>6, <2>1
  <2> QED  BY <1>5, <2>2, CallsClose
<1>8. f.events = F /\ f \in RsType
  <2>1. Forwards!Cardinality(d.calls) = k
    <3>1. Cardinality(1..k) = IF 1 > k THEN 0 ELSE k - 1 + 1
      BY FS_Interval
    <3> QED  BY <3>1, <1>5, SameCount
  <2>2. f = [d EXCEPT !.events = F]
    BY <2>1, <1>6, Zenon DEF Forwards!CloseCalls
  <2> HIDE DEF f, F
  <2> QED  BY <1>5, <1>7, <2>2 DEF RsType
<1> HIDE DEF f, F
<1>9. LET H == Forwards!Send(f, "completed", 0).events
      IN  /\ Forwards!Send(f, "completed", 0) \in RsType /\ Whole(H) /\ H[Len(H)].event = "completed"
          /\ Cardinality(Marks(H, "completed", 0) \cup Marks(H, "failed", 0)) = 1
  BY <1>7, <1>8, Completes
<1> QED  BY <1>2, <1>9

LEMMA WaitsLess ==
  ASSUME NEW k, NEW L, NEW q, NEW goes, Waits(k, L, q, goes)
  PROVE  Waits(k, L, q, FALSE) /\ Waits(k, L, <<>>, FALSE)
BY DEF Waits

\* The translator adds a chunk.
LEMMA WaitsMore ==
  ASSUME NEW k, NEW L, NEW q \in Seq(ChunkSet), NEW goes \in BOOLEAN, Waits(k, L, q, goes), NEW x \in ChunkSet
  PROVE  /\ x.type \notin {"tool", "args"} => Waits(k, L, Append(q, x), goes)
         /\ goes /\ x.type = "args" /\ x.call \in 1..L => Waits(k, L, Append(q, x), goes)
         /\ goes /\ x = Forwards!Chunk("tool", L + 1) => Waits(k, L + 1, Append(q, x), goes)
<1> DEFINE Q == Append(q, x)
           l == Len(q)
<1>1. Len(Q) = l + 1 /\ l \in Nat /\ Q[l + 1] = x /\ \A j \in 1..l : Q[j] = q[j] /\ q[j] \in ChunkSet
  OBVIOUS
<1> HIDE DEF Q, l
<1>2. \A j \in 1..Len(Q) : j \in 1..l \/ j = l + 1
  BY <1>1
<1>3. \A j \in 1..l : j \in 1..Len(Q) /\ (\A i \in 1..j - 1 : i \in 1..l)
  BY <1>1
<1>4. \A j \in 1..l : q[j].call \in Nat
  BY <1>1 DEF ChunkSet
<1>5. /\ k \in Nat /\ L \in Nat /\ k <= L
      /\ \A j \in 1..l :
           /\ Q[j].type = "tool" =>
                /\ Q[j].call \in k + 1..L
                /\ \A m \in k + 1..Q[j].call - 1 : \E i \in 1..j - 1 : Q[i] = Forwards!Chunk("tool", m)
                /\ \A i \in 1..j - 1 : Q[i].type = "tool" => Q[i].call < Q[j].call
           /\ Q[j].type = "args" =>
                /\ Q[j].call \in 1..L
                /\ Q[j].call > k => \E i \in 1..j - 1 : Q[i] = Forwards!Chunk("tool", Q[j].call)
      /\ goes => \A m \in k + 1..L : \E i \in 1..l : Q[i] = Forwards!Chunk("tool", m)
  <2>1. k \in Nat /\ L \in Nat /\ k <= L
    BY DEF Waits
  <2>2. goes => \A m \in k + 1..L : \E i \in 1..l : Q[i] = Forwards!Chunk("tool", m)
    BY <1>1 DEF Waits, l
  <2>3. ASSUME NEW j \in 1..l, Q[j].type = "tool"
        PROVE  /\ Q[j].call \in k + 1..L
               /\ \A m \in k + 1..Q[j].call - 1 : \E i \in 1..j - 1 : Q[i] = Forwards!Chunk("tool", m)
               /\ \A i \in 1..j - 1 : Q[i].type = "tool" => Q[i].call < Q[j].call
    <3>1. /\ q[j].call \in k + 1..L
          /\ \A m \in k + 1..q[j].call - 1 : \E i \in 1..j - 1 : q[i] = Forwards!Chunk("tool", m)
          /\ \A i \in 1..j - 1 : q[i].type = "tool" => q[i].call < q[j].call
      BY <2>3, <1>1 DEF Waits, l
    <3> QED  BY <3>1, <1>1, <1>3
  <2>4. ASSUME NEW j \in 1..l, Q[j].type = "args"
        PROVE  /\ Q[j].call \in 1..L
               /\ Q[j].call > k => \E i \in 1..j - 1 : Q[i] = Forwards!Chunk("tool", Q[j].call)
    <3>1. /\ q[j].call \in 1..L
          /\ q[j].call > k => \E i \in 1..j - 1 : q[i] = Forwards!Chunk("tool", q[j].call)
      BY <2>4, <1>1 DEF Waits, l
    <3> QED  BY <3>1, <1>1, <1>3
  <2> QED  BY <2>1, <2>2, <2>3, <2>4
<1>6. ASSUME x.type \notin {"tool", "args"}
      PROVE  Waits(k, L, Q, goes)
  <2>1. Q[l + 1].type # "tool" /\ Q[l + 1].type # "args"
    BY <1>1, <1>6
  <2>2. \A i \in 1..l : i \in 1..Len(Q)
    BY <1>3
  <2> QED  BY <1>2, <1>5, <2>1, <2>2 DEF Waits
<1>7. ASSUME goes, x.type = "args", x.call \in 1..L
      PROVE  Waits(k, L, Q, goes)
  <2>1. Q[l + 1].type # "tool" /\ Q[l + 1].call \in 1..L /\ l + 1 - 1 = l
    BY <1>1, <1>7
  <2>2. Q[l + 1].call > k => \E i \in 1..l : Q[i] = Forwards!Chunk("tool", Q[l + 1].call)
    BY <1>5, <1>7, <2>1
  <2>3. \A m \in k + 1..L : \E i \in 1..Len(Q) : Q[i] = Forwards!Chunk("tool", m)
    <3>1. \A i \in 1..l : i \in 1..Len(Q)
      BY <1>1
    <3> QED  BY <1>5, <1>7, <3>1
  <2>4. ASSUME NEW j \in 1..Len(Q)
        PROVE  /\ Q[j].type = "tool" =>
                    /\ Q[j].call \in k + 1..L
                    /\ \A m \in k + 1..Q[j].call - 1 : \E i \in 1..j - 1 : Q[i] = Forwards!Chunk("tool", m)
                    /\ \A i \in 1..j - 1 : Q[i].type = "tool" => Q[i].call < Q[j].call
               /\ Q[j].type = "args" =>
                    /\ Q[j].call \in 1..L
                    /\ Q[j].call > k => \E i \in 1..j - 1 : Q[i] = Forwards!Chunk("tool", Q[j].call)
    <3>1. CASE j \in 1..l
      BY <3>1, <1>5
    <3>2. CASE j = l + 1
      <4>1. j - 1 = l /\ Q[j] = Q[l + 1] /\ Q[j].type # "tool"
        BY <3>2, <2>1, <1>1
      <4> QED  BY <4>1, <2>1, <2>2
    <3> QED  BY <1>2, <3>1, <3>2
  <2> QED  BY <1>5, <2>3, <2>4 DEF Waits
<1>8. ASSUME goes, x = Forwards!Chunk("tool", L + 1)
      PROVE  Waits(k, L + 1, Q, goes)
  <2>1. x.type = "tool" /\ x.call = L + 1 /\ Q[l + 1] = x /\ l + 1 - 1 = l
    BY <1>1, <1>8 DEF Forwards!Chunk
  <2>2. \A m \in k + 1..L : \E i \in 1..l : Q[i] = Forwards!Chunk("tool", m)
    BY <1>5, <1>8
  <2>3. \A i \in 1..l : Q[i].type = "tool" => Q[i].call < L + 1
    BY <1>5
  <2>4. L + 1 \in k + 1..L + 1 /\ L + 1 - 1 = L /\ k <= L + 1 /\ L + 1 \in Nat /\ k \in Nat
    BY <1>5
  <2>5. \A j \in 1..l : (Q[j].type = "tool" => Q[j].call \in k + 1..L + 1) /\ (Q[j].type = "args" => Q[j].call \in 1..L + 1)
    BY <1>5
  <2>6. \A m \in k + 1..L + 1 : \E i \in 1..Len(Q) : Q[i] = Forwards!Chunk("tool", m)
    <3>1. \A m \in k + 1..L + 1 : m \in k + 1..L \/ m = L + 1
      BY <1>5
    <3>2. l + 1 \in 1..Len(Q) /\ \A i \in 1..l : i \in 1..Len(Q)
      BY <1>1
    <3> QED  BY <1>8, <2>1, <2>2, <3>1, <3>2
  <2>7. ASSUME NEW j \in 1..Len(Q)
        PROVE  /\ Q[j].type = "tool" =>
                    /\ Q[j].call \in k + 1..L + 1
                    /\ \A m \in k + 1..Q[j].call - 1 : \E i \in 1..j - 1 : Q[i] = Forwards!Chunk("tool", m)
                    /\ \A i \in 1..j - 1 : Q[i].type = "tool" => Q[i].call < Q[j].call
               /\ Q[j].type = "args" =>
                    /\ Q[j].call \in 1..L + 1
                    /\ Q[j].call > k => \E i \in 1..j - 1 : Q[i] = Forwards!Chunk("tool", Q[j].call)
    <3>1. CASE j \in 1..l
      BY <3>1, <1>5, <2>5
    <3>2. CASE j = l + 1
      <4>1. j - 1 = l /\ Q[j].call = L + 1 /\ Q[j].call - 1 = L /\ Q[j].type = "tool" /\ Q[j].type # "args"
        BY <3>2, <2>1, <2>4, <1>1, <1>5
      <4>2. \A m \in k + 1..Q[j].call - 1 : \E i \in 1..j - 1 : Q[i] = Forwards!Chunk("tool", m)
        BY <4>1, <2>2
      <4>3. \A i \in 1..j - 1 : Q[i].type = "tool" => Q[i].call < Q[j].call
        BY <4>1, <2>3
      <4> QED  BY <4>1, <4>2, <4>3, <2>4
    <3> QED  BY <1>2, <3>1, <3>2
  <2> QED  BY <2>4, <2>6, <2>7 DEF Waits
<1> QED  BY <1>6, <1>7, <1>8 DEF Q

\* The reader takes a chunk.
LEMMA WaitsRead ==
  ASSUME NEW k, NEW L, NEW q \in Seq(ChunkSet), q # <<>>, NEW goes, Waits(k, L, q, goes)
  PROVE  /\ Head(q).type = "tool" => Head(q).call = k + 1 /\ Waits(k + 1, L, Tail(q), goes)
         /\ Head(q).type # "tool" => Waits(k, L, Tail(q), goes)
         /\ Head(q).type = "args" => Head(q).call \in 1..k
<1> DEFINE Q == Tail(q)
           l == Len(q)
           x == Head(q)
<1>1. /\ x = q[1] /\ x \in ChunkSet /\ l \in Nat /\ l >= 1 /\ Len(Q) = l - 1
      /\ (\A j \in 1..l : q[j] \in ChunkSet) /\ \A j \in 1..l - 1 : Q[j] = q[j + 1]
  OBVIOUS
<1>2. k \in Nat /\ L \in Nat /\ k <= L /\ \A j \in 1..l : q[j].call \in Nat
  BY <1>1 DEF Waits, ChunkSet
<1>3. /\ \A j \in 1..l :
           /\ q[j].type = "tool" =>
                /\ q[j].call \in k + 1..L
                /\ \A m \in k + 1..q[j].call - 1 : \E i \in 1..j - 1 : q[i] = Forwards!Chunk("tool", m)
                /\ \A i \in 1..j - 1 : q[i].type = "tool" => q[i].call < q[j].call
           /\ q[j].type = "args" =>
                /\ q[j].call \in 1..L
                /\ q[j].call > k => \E i \in 1..j - 1 : q[i] = Forwards!Chunk("tool", q[j].call)
      /\ goes => \A m \in k + 1..L : \E i \in 1..l : q[i] = Forwards!Chunk("tool", m)
  BY DEF Waits
<1> HIDE DEF Q, l, x
<1>4. x.type = "tool" => x.call = k + 1
  <2> SUFFICES ASSUME x.type = "tool", x.call # k + 1  PROVE FALSE
    OBVIOUS
  <2>1. q[1].call \in k + 1..L /\ \A m \in k + 1..q[1].call - 1 : \E i \in 1..1 - 1 : q[i] = Forwards!Chunk("tool", m)
    BY <1>1, <1>3
  <2>2. k + 1 \in k + 1..q[1].call - 1
    BY <1>1, <1>2, <2>1
  <2> QED  BY <2>1, <2>2
<1>5. x.type = "args" => x.call \in 1..k
  <2> SUFFICES ASSUME x.type = "args", x.call \notin 1..k  PROVE FALSE
    OBVIOUS
  <2>1. q[1].call \in 1..L /\ (q[1].call > k => \E i \in 1..1 - 1 : q[i] = Forwards!Chunk("tool", q[1].call))
    BY <1>1, <1>3
  <2>2. q[1].call > k
    BY <1>1, <1>2, <2>1
  <2> QED  BY <2>1, <2>2
<1>6. \A j \in 1..Len(Q) : j + 1 \in 1..l /\ Q[j] = q[j + 1] /\ j + 1 - 1 = j
  BY <1>1
\* What stands before place n of q, if it is not the head, stands in the rest.
<1>7. ASSUME NEW c, c # x, NEW n \in 1..l + 1, \E i \in 1..n - 1 : q[i] = c
      PROVE  \E i \in 1..n - 2 : Q[i] = c
  <2>1. PICK i \in 1..n - 1 : q[i] = c
    BY <1>7
  <2>2. i # 1
    BY <1>1, <1>7, <2>1
  <2>3. i - 1 \in 1..n - 2 /\ i - 1 \in 1..l - 1 /\ (i - 1) + 1 = i
    BY <1>1, <2>2
  <2>4. Q[i - 1] = c
    BY <1>1, <2>1, <2>3
  <2> QED  BY <2>3, <2>4
<1>8. ASSUME NEW h \in {k, k + 1}, x.type = "tool" <=> h = k + 1
      PROVE  Waits(h, L, Q, goes)
  <2>1. \A m \in h + 1..L : m \in k + 1..L /\ Forwards!Chunk("tool", m) # x
    BY <1>2, <1>4, <1>8 DEF Forwards!Chunk
  <2>2. h \in Nat /\ h <= L
    <3>1. h = k + 1 => x.call \in k + 1..L
      BY <1>1, <1>3, <1>8
    <3> QED  BY <1>2, <3>1
  <2>3. goes => \A m \in h + 1..L : \E i \in 1..Len(Q) : Q[i] = Forwards!Chunk("tool", m)
    <3> SUFFICES ASSUME goes, NEW m \in h + 1..L
                 PROVE  \E i \in 1..Len(Q) : Q[i] = Forwards!Chunk("tool", m)
      OBVIOUS
    <3>1. \E i \in 1..l : q[i] = Forwards!Chunk("tool", m)
      BY <1>3, <2>1
    <3>2. l + 1 \in 1..l + 1 /\ (l + 1) - 1 = l /\ (l + 1) - 2 = Len(Q)
      BY <1>1
    <3> QED  BY <1>7, <2>1, <3>1, <3>2
  <2>4. ASSUME NEW j \in 1..Len(Q), Q[j].type = "tool"
        PROVE  /\ Q[j].call \in h + 1..L
               /\ \A m \in h + 1..Q[j].call - 1 : \E i \in 1..j - 1 : Q[i] = Forwards!Chunk("tool", m)
               /\ \A i \in 1..j - 1 : Q[i].type = "tool" => Q[i].call < Q[j].call
    <3> DEFINE n == j + 1
    <3>1. n \in 1..l /\ Q[j] = q[n] /\ n - 1 = j /\ n - 2 = j - 1 /\ n \in 1..l + 1 /\ 1 \in 1..n - 1
      BY <1>1, <1>6
    <3> HIDE DEF n
    <3>2. /\ q[n].call \in k + 1..L
          /\ \A m \in k + 1..q[n].call - 1 : \E i \in 1..n - 1 : q[i] = Forwards!Chunk("tool", m)
          /\ \A i \in 1..n - 1 : q[i].type = "tool" => q[i].call < q[n].call
      BY <1>3, <2>4, <3>1
    <3>3. Q[j].call \in h + 1..L
      <4>1. h = k + 1 => x.call = k + 1 /\ x.call < q[n].call
        BY <1>1, <1>4, <1>8, <3>1, <3>2
      <4> QED  BY <1>2, <3>1, <3>2, <4>1
    <3>4. ASSUME NEW m \in h + 1..Q[j].call - 1
          PROVE  \E i \in 1..j - 1 : Q[i] = Forwards!Chunk("tool", m)
      <4>1. m \in k + 1..q[n].call - 1 /\ m \in h + 1..L
        BY <1>2, <2>2, <3>1, <3>2
      <4>2. \E i \in 1..n - 1 : q[i] = Forwards!Chunk("tool", m)
        BY <3>2, <4>1
      <4> QED  BY <1>7, <2>1, <3>1, <4>1, <4>2
    <3>5. ASSUME NEW i \in 1..j - 1, Q[i].type = "tool"
          PROVE  Q[i].call < Q[j].call
      <4>1. i \in 1..Len(Q) /\ i + 1 \in 1..n - 1
        BY <1>1, <3>1
      <4> QED  BY <1>6, <3>1, <3>2, <3>5, <4>1
    <3> QED  BY <3>3, <3>4, <3>5
  <2>5. ASSUME NEW j \in 1..Len(Q), Q[j].type = "args"
        PROVE  /\ Q[j].call \in 1..L
               /\ Q[j].call > h => \E i \in 1..j - 1 : Q[i] = Forwards!Chunk("tool", Q[j].call)
    <3> DEFINE n == j + 1
    <3>1. n \in 1..l /\ Q[j] = q[n] /\ n - 1 = j /\ n - 2 = j - 1 /\ n \in 1..l + 1
      BY <1>1, <1>6
    <3> HIDE DEF n
    <3>2. /\ q[n].call \in 1..L
          /\ q[n].call > k => \E i \in 1..n - 1 : q[i] = Forwards!Chunk("tool", q[n].call)
      BY <1>3, <2>5, <3>1
    <3>3. ASSUME Q[j].call > h
          PROVE  \E i \in 1..j - 1 : Q[i] = Forwards!Chunk("tool", Q[j].call)
      <4>1. q[n].call \in h + 1..L /\ q[n].call > k
        BY <1>2, <2>2, <3>1, <3>2, <3>3
      <4>2. PICK c : c = Forwards!Chunk("tool", q[n].call)
        OBVIOUS
      <4>3. c # x /\ \E i \in 1..n - 1 : q[i] = c
        BY <2>1, <3>2, <4>1, <4>2
      <4>4. \E i \in 1..n - 2 : Q[i] = c
        BY <1>7, <3>1, <4>3
      <4> QED  BY <3>1, <4>2, <4>4, Zenon
    <3> QED  BY <3>1, <3>2, <3>3
  <2> QED  BY <1>2, <2>2, <2>3, <2>4, <2>5 DEF Waits
<1>9. k \in {k, k + 1} /\ k + 1 \in {k, k + 1} /\ k # k + 1
  BY <1>2
<1> QED  BY <1>4, <1>5, <1>8, <1>9 DEF Q, x

LEMMA JoinOne == ASSUME NEW S, NEW q \in Seq(S), NEW x \in S PROVE q \o <<x>> = Append(q, x)
OBVIOUS

\* A frame and its chunk.
LEMMA ChunkIs ==
  ASSUME NEW t \in TrType, ~t.failed, NEW f \in Forwards!Frame
  PROVE  LET c == Forwards!ChunksOf(t, f)
             u == Forwards!StateAfter(t, f)
         IN  /\ u \in TrType /\ u.stopped = (t.stopped \/ f.type = "stop")
             /\ f.type # "tool" => u.calls = t.calls
             /\ f.type = "tool" => Len(u.calls) = Len(t.calls) + 1 /\ c = <<Forwards!Chunk("tool", Len(t.calls) + 1)>>
             /\ f.type # "tool" => c = <<>> \/ \E x \in ChunkSet : c = <<x>> /\ x.type \notin {"DONE", "tool"} /\ (x.type = "args" => x.call \in 1..Len(t.calls))
<1> DEFINE c == Forwards!ChunksOf(t, f)
           u == Forwards!StateAfter(t, f)
<1>1. t.calls \in Seq(Block) /\ t.stopped \in BOOLEAN /\ t.finished \in BOOLEAN /\ Len(t.calls) \in Nat
  BY DEF TrType
<1>2. f.type \in {"start", "think", "text", "finish", "stop", "error", "tool", "args"} /\ (f.type = "tool" => f.block \in Block)
  BY DEF Forwards!Frame
<1>3. u = [t EXCEPT !.failed = f.type = "error",
                   !.calls = IF f.type = "tool" THEN Append(@, f.block) ELSE @,
                   !.finished = @ \/ f.type \in {"finish", "stop"},
                   !.stopped = @ \/ f.type = "stop"]
  BY DEF Forwards!StateAfter
<1> HIDE DEF u
<1>4. f.type = "tool" => Append(t.calls, f.block) \in Seq(Block) /\ Len(Append(t.calls, f.block)) = Len(t.calls) + 1
  BY <1>1, <1>2
<1>5. /\ u.calls = (IF f.type = "tool" THEN Append(t.calls, f.block) ELSE t.calls)
      /\ u.stopped = (t.stopped \/ f.type = "stop")
  BY <1>3 DEF TrType
<1>6. u \in TrType
  BY <1>1, <1>3, <1>4 DEF TrType
<1>7. f.type = "tool" => c = <<Forwards!Chunk("tool", Len(t.calls) + 1)>>
  BY DEF Forwards!ChunksOf
<1>8. ASSUME f.type # "tool"
      PROVE  c = <<>> \/ \E x \in ChunkSet : c = <<x>> /\ x.type \notin {"DONE", "tool"} /\ (x.type = "args" => x.call \in 1..Len(t.calls))
  <2>1. CASE f.type = "args"
    <3>1. CASE f.block \in Forwards!Range(t.calls)
      <4>1. PICK n \in 1..Len(t.calls) : t.calls[n] = f.block
        BY <1>1, <3>1 DEF Forwards!Range
      <4>2. Forwards!CallOf(t, f.block) \in 1..Len(t.calls)
        BY <4>1 DEF Forwards!CallOf
      <4> DEFINE x == Forwards!Chunk("args", Forwards!CallOf(t, f.block))
      <4>3. c = <<x>>
        BY <2>1, <3>1 DEF Forwards!ChunksOf
      <4>4. x \in ChunkSet /\ x.type \notin {"DONE", "tool"} /\ x.call \in 1..Len(t.calls)
        BY <4>2, <1>1 DEF ChunkSet, Forwards!Chunk
      <4> QED  BY <4>3, <4>4
    <3>2. CASE f.block \notin Forwards!Range(t.calls)
      BY <2>1, <3>2 DEF Forwards!ChunksOf
    <3> QED  BY <3>1, <3>2
  <2>2. CASE f.type = "start"
    <3>1. c = <<Forwards!Chunk("role", 0)>>
      BY <2>2 DEF Forwards!ChunksOf
    <3>2. Forwards!Chunk("role", 0) \in ChunkSet /\ Forwards!Chunk("role", 0).type = "role"
      BY DEF ChunkSet, Forwards!Chunk
    <3> QED  BY <3>1, <3>2
  <2>3. CASE f.type \in {"think", "text", "error"}
    <3>1. c = <<Forwards!Chunk(f.type, 0)>>
      BY <2>3 DEF Forwards!ChunksOf
    <3>2. Forwards!Chunk(f.type, 0) \in ChunkSet /\ Forwards!Chunk(f.type, 0).type = f.type
      BY <2>3 DEF ChunkSet, Forwards!Chunk
    <3> QED  BY <2>3, <3>1, <3>2
  <2>4. CASE f.type \in {"finish", "stop"}
    <3>1. c = IF t.finished THEN <<>> ELSE <<Forwards!Chunk("finish", 0)>>
      BY <2>4 DEF Forwards!ChunksOf
    <3>2. Forwards!Chunk("finish", 0) \in ChunkSet /\ Forwards!Chunk("finish", 0).type = "finish"
      BY DEF ChunkSet, Forwards!Chunk
    <3> QED  BY <3>1, <3>2
  <2> QED  BY <1>2, <1>8, <2>1, <2>2, <2>3, <2>4
<1> QED  BY <1>4, <1>5, <1>6, <1>7, <1>8 DEF u

LEMMA FwdStarts == ASSUME Forwards!Init PROVE FwdInv
<1>1. /\ fed = <<>> /\ upstream = "open" /\ queue = <<>> /\ source = "open" /\ doneSeen = FALSE /\ outcome = "open" /\ stored = FALSE
      /\ tr = [calls |-> <<>>, finished |-> FALSE, stopped |-> FALSE, failed |-> FALSE]
      /\ rs = [created |-> FALSE, reasoning |-> "none", message |-> FALSE, textPart |-> FALSE,
               calls |-> {}, next |-> 0, index |-> <<>>, events |-> <<>>]
  BY DEF Forwards!Init
<1>2. FwdType
  <2>1. tr \in TrType
    BY <1>1 DEF TrType
  <2>2. rs \in RsType
    <3>1. <<>> \in Seq(EventSet) /\ <<>> \in Seq(Int) /\ {} \in SUBSET Int /\ 0 \in Int
      OBVIOUS
    <3> QED  BY <1>1, <3>1 DEF RsType
  <2>3. fed \in Seq(Forwards!Frame) /\ queue \in Seq(ChunkSet)
    BY <1>1
  <2> QED  BY <1>1, <2>1, <2>2, <2>3 DEF FwdType
<1>3. Marked
  BY <1>1 DEF Marked
<1>4. RsInv(rs)
  <2>1. \A e, i : Marks(<<>>, e, i) = {}
    BY DEF Marks
  <2>2. Items(<<>>, "none", FALSE, {})
    <3> USE DEF Untouched
    <3>1. Silent(<<>>) /\ \A i : Untouched(<<>>, i)
      BY <2>1 DEF Silent
    <3> QED  BY <3>1 DEF Items
  <2>3. rs.calls = 1..0 /\ 0 \in Nat
    BY <1>1
  <2>4. rs.events = <<>> /\ rs.reasoning = "none" /\ rs.message = FALSE /\ rs.calls = {}
    BY <1>1
  <2> QED  BY <1>2, <2>2, <2>3, <2>4 DEF RsInv, FwdType
<1>5. Waits(0, Len(tr.calls), queue, source = "open") /\ rs.calls = 1..0
  <2>1. Len(tr.calls) = 0 /\ queue = <<>> /\ rs.calls = {}
    BY <1>1
  <2>2. Waits(0, 0, <<>>, TRUE) /\ {} = 1..0
    BY DEF Waits
  <2>3. (source = "open") = TRUE
    BY <1>1
  <2> QED  BY <2>1, <2>2, <2>3
<1>6. Reading
  BY <1>4, <1>5 DEF Reading
<1>7. Finished
  BY <1>1 DEF Finished
<1> QED  BY <1>2, <1>3, <1>6, <1>7 DEF FwdInv

LEMMA FwdTranslate == ASSUME FwdInv, Forwards!Translate PROVE FwdInv'
<1>1. PICK f \in Forwards!Frame :
        /\ upstream = "open" /\ source = "open" /\ ~tr.failed /\ Forwards!Grammatical(f)
        /\ fed' = Append(fed, f) /\ tr' = Forwards!StateAfter(tr, f) /\ queue' = queue \o Forwards!ChunksOf(tr, f)
        /\ UNCHANGED <<upstream, source, rs, doneSeen, outcome, stored>>
  BY DEF Forwards!Translate
<1>2. FwdType /\ Marked /\ Reading /\ Finished
  BY DEF FwdInv
<1>3. ~tr.stopped
  <2> SUFFICES ASSUME tr.stopped  PROVE FALSE
    OBVIOUS
  <2>1. fed # <<>> /\ fed[Len(fed)].type = "stop" /\ fed \in Seq(Forwards!Frame)
    BY <1>2 DEF Marked, FwdType
  <2>2. Len(fed) \in 1..Len(fed)
    BY <2>1
  <2> QED  BY <1>1, <2>1, <2>2 DEF Forwards!Grammatical
<1>4. PICK u, c, L : u = tr' /\ c = Forwards!ChunksOf(tr, f) /\ L = Len(tr.calls)
  OBVIOUS
<1>5. /\ u \in TrType /\ u.stopped = (f.type = "stop")
      /\ f.type # "tool" => u.calls = tr.calls
      /\ f.type = "tool" => Len(u.calls) = L + 1 /\ c = <<Forwards!Chunk("tool", L + 1)>>
      /\ f.type # "tool" => c = <<>> \/ \E x \in ChunkSet : c = <<x>> /\ x.type \notin {"DONE", "tool"} /\ (x.type = "args" => x.call \in 1..L)
  <2>1. tr \in TrType
    BY <1>2 DEF FwdType
  <2>2. LET d == Forwards!ChunksOf(tr, f)
            t == Forwards!StateAfter(tr, f)
        IN  /\ t \in TrType /\ t.stopped = (tr.stopped \/ f.type = "stop")
            /\ f.type # "tool" => t.calls = tr.calls
            /\ f.type = "tool" => Len(t.calls) = Len(tr.calls) + 1 /\ d = <<Forwards!Chunk("tool", Len(tr.calls) + 1)>>
            /\ f.type # "tool" => d = <<>> \/ \E x \in ChunkSet : d = <<x>> /\ x.type \notin {"DONE", "tool"} /\ (x.type = "args" => x.call \in 1..Len(tr.calls))
    BY <1>1, <2>1, ChunkIs
  <2> QED  BY <1>1, <1>3, <1>4, <2>2
<1>6. L \in Nat /\ queue \in Seq(ChunkSet)
  BY <1>2, <1>4 DEF FwdType, TrType
<1>7. \/ c = <<>> /\ f.type # "tool"
      \/ \E x \in ChunkSet : /\ c = <<x>> /\ x.type # "DONE"
                             /\ f.type = "tool" => x = Forwards!Chunk("tool", L + 1)
                             /\ f.type # "tool" => x.type # "tool" /\ (x.type = "args" => x.call \in 1..L)
  <2>1. Forwards!Chunk("tool", L + 1) \in ChunkSet /\ Forwards!Chunk("tool", L + 1).type # "DONE"
    BY <1>6 DEF ChunkSet, Forwards!Chunk
  <2> QED  BY <1>5, <2>1
<1>8. PICK Q : Q = queue'
  OBVIOUS
<1>9. \/ Q = queue /\ f.type # "tool"
      \/ \E x \in ChunkSet : /\ Q = Append(queue, x) /\ x.type # "DONE"
                             /\ f.type = "tool" => x = Forwards!Chunk("tool", L + 1)
                             /\ f.type # "tool" => x.type # "tool" /\ (x.type = "args" => x.call \in 1..L)
  <2>1. queue \o <<>> = queue
    BY <1>6
  <2>2. \A x \in ChunkSet : queue \o <<x>> = Append(queue, x)
    BY <1>6, JoinOne
  <2> QED  BY <1>1, <1>4, <1>7, <1>8, <2>1, <2>2
<1>10. Q \in Seq(ChunkSet) /\ ((\E i \in 1..Len(Q) : Q[i].type = "DONE") => \E i \in 1..Len(queue) : queue[i].type = "DONE")
  <2>1. ASSUME NEW x \in ChunkSet, Q = Append(queue, x), x.type # "DONE"
        PROVE  Q \in Seq(ChunkSet) /\ ((\E i \in 1..Len(Q) : Q[i].type = "DONE") => \E i \in 1..Len(queue) : queue[i].type = "DONE")
    <3>1. /\ Q \in Seq(ChunkSet) /\ Len(Q) = Len(queue) + 1 /\ Len(queue) \in Nat /\ Q[Len(queue) + 1] = x
          /\ \A i \in 1..Len(queue) : Q[i] = queue[i]
      BY <1>6, <2>1
    <3>2. \A i \in 1..Len(Q) : i \in 1..Len(queue) \/ i = Len(queue) + 1
      BY <3>1
    <3> QED  BY <2>1, <3>1, <3>2
  <2> QED  BY <1>6, <1>9, <2>1
<1>11. FwdType'
  <2>1. fed' \in Seq(Forwards!Frame)
    BY <1>1, <1>2 DEF FwdType
  <2>2. tr' \in TrType /\ queue' \in Seq(ChunkSet)
    BY <1>4, <1>5, <1>8, <1>10
  <2> QED  BY <1>1, <1>2, <2>1, <2>2 DEF FwdType
<1>12. Marked'
  <2>1. ~(doneSeen \/ outcome = "completed" \/ stored \/ (\E i \in 1..Len(queue) : queue[i].type = "DONE"))
    BY <1>2, <1>3 DEF Marked
  <2>2. ~(doneSeen' \/ outcome' = "completed" \/ stored' \/ (\E i \in 1..Len(queue') : queue'[i].type = "DONE"))
    BY <1>1, <1>8, <1>10, <2>1
  <2>3. tr'.stopped => f.type = "stop"
    BY <1>4, <1>5
  <2>4. fed' # <<>> /\ fed'[Len(fed')] = f
    BY <1>1, <1>2 DEF FwdType
  <2> QED  BY <2>2, <2>3, <2>4 DEF Marked
<1>13. Reading'
  <2> SUFFICES ASSUME outcome = "open"
               PROVE  RsInv(rs)' /\ \E k \in Nat : rs'.calls = 1..k /\ Waits(k, Len(tr'.calls), queue', source' = "open")
    BY <1>1 DEF Reading
  <2>1. RsInv(rs) /\ \E k \in Nat : rs.calls = 1..k /\ Waits(k, L, queue, TRUE)
    <3>1. (source = "open") = TRUE
      BY <1>1
    <3> QED  BY <3>1, <1>2, <1>4 DEF Reading
  <2>2. PICK k \in Nat : rs.calls = 1..k /\ Waits(k, L, queue, TRUE)
    BY <2>1
  <2>3. Waits(k, Len(u.calls), Q, TRUE)
    <3>1. CASE Q = queue /\ f.type # "tool"
      BY <3>1, <2>2, <1>4, <1>5
    <3>2. ASSUME NEW x \in ChunkSet, Q = Append(queue, x),
                 f.type = "tool" => x = Forwards!Chunk("tool", L + 1),
                 f.type # "tool" => x.type # "tool" /\ (x.type = "args" => x.call \in 1..L)
          PROVE  Waits(k, Len(u.calls), Q, TRUE)
      <4>1. /\ x.type \notin {"tool", "args"} => Waits(k, L, Q, TRUE)
            /\ x.type = "args" /\ x.call \in 1..L => Waits(k, L, Q, TRUE)
            /\ x = Forwards!Chunk("tool", L + 1) => Waits(k, L + 1, Q, TRUE)
        BY <1>6, <2>2, <3>2, WaitsMore
      <4> QED  BY <4>1, <3>2, <1>4, <1>5
    <3> QED  BY <1>9, <3>1, <3>2
  <2>4. rs' = rs /\ source' = "open"
    BY <1>1
  <2>5. (source' = "open") = TRUE
    BY <2>4
  <2> QED  BY <1>4, <1>8, <2>1, <2>2, <2>3, <2>4, <2>5 DEF RsInv
<1>14. Finished'
  BY <1>1, <1>2 DEF Finished
<1> QED  BY <1>11, <1>12, <1>13, <1>14 DEF FwdInv

LEMMA FwdUpstreamEnds == ASSUME FwdInv, Forwards!UpstreamEnds PROVE FwdInv'
<1>1. upstream' \in {"eof", "failed"} /\ UNCHANGED <<fed, tr, queue, source, rs, doneSeen, outcome, stored>>
  BY DEF Forwards!UpstreamEnds
<1>2. FwdType' /\ Marked' /\ Finished'
  BY <1>1 DEF FwdInv, FwdType, Marked, Finished
<1>3. Reading'
  BY <1>1 DEF FwdInv, Reading, RsInv
<1> QED  BY <1>2, <1>3 DEF FwdInv

LEMMA FwdTranslatorEnds == ASSUME FwdInv, Forwards!TranslatorEnds PROVE FwdInv'
<1>1. /\ source = "open" /\ source' \in {"closed", "errored"} /\ UNCHANGED <<fed, upstream, tr, rs, doneSeen, outcome, stored>>
      /\ queue' = queue \/ queue' = <<>> \/ queue' = queue \o Forwards!Marker
  BY DEF Forwards!TranslatorEnds
<1>2. FwdType /\ Marked /\ Reading /\ Finished
  BY DEF FwdInv
<1>3. queue \in Seq(ChunkSet)
  BY <1>2 DEF FwdType
<1>4. PICK x \in ChunkSet : x.type \in {"DONE", "error"} /\ (x.type = "DONE" => tr.stopped) /\ Forwards!Marker = <<x>>
  <2>1. Forwards!Chunk("DONE", 0) \in ChunkSet /\ Forwards!Chunk("DONE", 0).type = "DONE"
    BY DEF ChunkSet, Forwards!Chunk
  <2>2. Forwards!Chunk("error", 0) \in ChunkSet /\ Forwards!Chunk("error", 0).type = "error"
    BY DEF ChunkSet, Forwards!Chunk
  <2> QED  BY <2>1, <2>2 DEF Forwards!Marker
<1>5. PICK Q : Q = queue'
  OBVIOUS
<1>6. Q = queue \/ Q = <<>> \/ Q = Append(queue, x)
  BY <1>1, <1>3, <1>4, <1>5, JoinOne
<1>7. Q \in Seq(ChunkSet) /\ ((\E i \in 1..Len(Q) : Q[i].type = "DONE") => tr.stopped)
  <2>1. (\E i \in 1..Len(queue) : queue[i].type = "DONE") => tr.stopped
    BY <1>2 DEF Marked
  <2>2. CASE Q = Append(queue, x)
    <3>1. /\ Q \in Seq(ChunkSet) /\ Len(Q) = Len(queue) + 1 /\ Len(queue) \in Nat /\ Q[Len(queue) + 1] = x
          /\ \A i \in 1..Len(queue) : Q[i] = queue[i]
      BY <1>3, <2>2
    <3>2. \A i \in 1..Len(Q) : i \in 1..Len(queue) \/ i = Len(queue) + 1
      BY <3>1
    <3> QED  BY <1>4, <2>1, <3>1, <3>2
  <2>3. CASE Q = <<>>
    BY <2>3
  <2>4. CASE Q = queue
    BY <1>3, <2>1, <2>4
  <2> QED  BY <1>6, <2>2, <2>3, <2>4
<1>8. FwdType'
  BY <1>1, <1>2, <1>5, <1>7 DEF FwdType
<1>9. Marked'
  BY <1>1, <1>2, <1>5, <1>7 DEF Marked
<1>10. Reading'
  <2> SUFFICES ASSUME outcome = "open"
               PROVE  RsInv(rs)' /\ \E k \in Nat : rs'.calls = 1..k /\ Waits(k, Len(tr'.calls), queue', source' = "open")
    BY <1>1 DEF Reading
  <2>1. PICK L, goes : L = Len(tr.calls) /\ goes = (source = "open")
    OBVIOUS
  <2>2. RsInv(rs) /\ \E k \in Nat : rs.calls = 1..k /\ Waits(k, L, queue, goes)
    BY <1>2, <2>1 DEF Reading
  <2>3. PICK k \in Nat : rs.calls = 1..k /\ Waits(k, L, queue, goes)
    BY <2>2
  <2>4. Waits(k, L, queue, FALSE) /\ Waits(k, L, <<>>, FALSE)
    BY <2>3, WaitsLess
  <2>5. Waits(k, L, Q, FALSE)
    <3>1. x.type \notin {"tool", "args"} => Waits(k, L, Append(queue, x), FALSE)
      BY <1>3, <2>4, WaitsMore
    <3> QED  BY <1>4, <1>6, <2>4, <3>1
  <2>6. tr' = tr /\ rs' = rs /\ (source' = "open") = FALSE
    BY <1>1
  <2> QED  BY <1>5, <2>1, <2>2, <2>3, <2>5, <2>6 DEF RsInv
<1>11. Finished'
  BY <1>1, <1>2 DEF Finished
<1> QED  BY <1>8, <1>9, <1>10, <1>11 DEF FwdInv

\* A response that fails says so last.
LEMMA Fails ==
  ASSUME NEW s, RsInv(s)
  PROVE  LET F == Forwards!Send(s, "failed", 0).events
         IN  /\ Forwards!Send(s, "failed", 0) \in RsType /\ F[Len(F)].event = "failed"
             /\ Cardinality(Marks(F, "completed", 0) \cup Marks(F, "failed", 0)) = 1
<1>1. s \in RsType /\ Silent(s.events) /\ s.events \in Seq(EventSet) /\ "failed" \in Words /\ 0 \in Int
  BY DEF RsInv, Items, RsType, Words
<1>2. Forwards!Send(s, "failed", 0) \in RsType /\ Forwards!Send(s, "failed", 0).events = Append(s.events, Forwards!Event("failed", 0))
  BY <1>1, SendIs
<1> DEFINE G == Append(s.events, Forwards!Event("failed", 0))
<1>3. G[Len(G)].event = "failed" /\ Cardinality(Marks(G, "completed", 0) \cup Marks(G, "failed", 0)) = 1
  BY <1>1, EndsOnce
<1> QED  BY <1>2, <1>3

LEMMA FwdRead == ASSUME FwdInv, Forwards!Read PROVE FwdInv'
<1>1. /\ outcome = "open" /\ queue # <<>> /\ queue' = Tail(queue) /\ UNCHANGED <<stored, fed, upstream, tr, source>>
      /\ CASE Head(queue).type = "DONE"  -> doneSeen' = TRUE /\ UNCHANGED <<rs, outcome>>
           [] Head(queue).type = "error" -> rs' = Forwards!Send(rs, "failed", 0) /\ outcome' = "failed" /\ UNCHANGED doneSeen
           [] OTHER -> rs' = Forwards!Handle(Forwards!Created(rs), Head(queue)) /\ UNCHANGED <<doneSeen, outcome>>
  BY DEF Forwards!Read, Forwards!Fail, Forwards!Response
<1>2. FwdType /\ Marked /\ RsInv(rs) /\ Finished
  BY <1>1 DEF FwdInv, Reading
<1>3. PICK L, c, Q, goes : L = Len(tr.calls) /\ c = Head(queue) /\ Q = Tail(queue) /\ goes = (source = "open")
  OBVIOUS
<1>4. /\ queue \in Seq(ChunkSet) /\ c \in ChunkSet /\ Q \in Seq(ChunkSet)
      /\ c.type = "DONE" \/ (\E i \in 1..Len(Q) : Q[i].type = "DONE") => tr.stopped
  <2>1. queue \in Seq(ChunkSet)
    BY <1>2 DEF FwdType
  <2>2. /\ c \in ChunkSet /\ Q \in Seq(ChunkSet) /\ Len(queue) \in Nat /\ Len(queue) >= 1 /\ Len(Q) = Len(queue) - 1 /\ c = queue[1]
        /\ \A i \in 1..Len(Q) : Q[i] = queue[i + 1]
    BY <1>1, <1>3, <2>1
  <2>3. 1 \in 1..Len(queue) /\ \A i \in 1..Len(Q) : i + 1 \in 1..Len(queue)
    BY <2>2
  <2> QED  BY <1>2, <2>1, <2>2, <2>3 DEF Marked
<1>5. PICK k \in Nat : rs.calls = 1..k /\ Waits(k, L, queue, goes)
  BY <1>1, <1>3 DEF FwdInv, Reading
<1>6. /\ c.type = "tool" => c.call = k + 1 /\ Waits(k + 1, L, Q, goes)
      /\ c.type # "tool" => Waits(k, L, Q, goes)
      /\ c.type = "args" => c.call \in 1..k
  BY <1>1, <1>3, <1>4, <1>5, WaitsRead
<1>7. PICK r : r = rs'
  OBVIOUS
<1>8. CASE c.type = "DONE"
  <2>1. doneSeen' = TRUE /\ rs' = rs /\ outcome' = outcome
    BY <1>1, <1>3, <1>8
  <2>2. FwdType' /\ Marked' /\ Finished'
    BY <1>1, <1>2, <1>3, <1>4, <1>8, <2>1 DEF FwdType, Marked, Finished
  <2>3. Reading'
    <3>1. RsInv(rs)'
      BY <1>2, <2>1 DEF RsInv
    <3>2. rs'.calls = 1..k /\ Waits(k, L, Q, goes) /\ L = Len(tr'.calls) /\ Q = queue' /\ goes = (source' = "open")
      BY <1>1, <1>3, <1>5, <1>6, <1>8, <2>1
    <3> QED  BY <3>1, <3>2 DEF Reading
  <2> QED  BY <2>2, <2>3 DEF FwdInv
<1>9. CASE c.type = "error"
  <2>1. rs' = Forwards!Send(rs, "failed", 0) /\ outcome' = "failed" /\ doneSeen' = doneSeen
    BY <1>1, <1>3, <1>9
  <2>2. /\ r \in RsType /\ r.events[Len(r.events)].event = "failed"
        /\ Cardinality(Marks(r.events, "completed", 0) \cup Marks(r.events, "failed", 0)) = 1
    BY <1>2, <1>7, <2>1, Fails
  <2>3. FwdType'
    BY <1>1, <1>2, <1>3, <1>4, <1>7, <2>1, <2>2 DEF FwdType
  <2>4. Marked'
    BY <1>1, <1>2, <1>3, <1>4, <2>1 DEF Marked
  <2>5. Reading' /\ Finished'
    BY <1>7, <2>1, <2>2 DEF Reading, Finished
  <2> QED  BY <2>3, <2>4, <2>5 DEF FwdInv
<1>10. CASE c.type \notin {"DONE", "error"}
  <2>1. rs' = Forwards!Handle(Forwards!Created(rs), c) /\ doneSeen' = doneSeen /\ outcome' = outcome
    BY <1>1, <1>3, <1>10
  <2>2. PICK s : s = Forwards!Created(rs)
    OBVIOUS
  <2>3. RsInv(s) /\ s.calls = 1..k
    BY <1>2, <1>5, <2>2, CreatedKeeps
  <2>4. RsInv(r) /\ r.calls = 1..(IF c.type = "tool" THEN k + 1 ELSE k)
    BY <1>4, <1>6, <1>7, <2>1, <2>2, <2>3, HandleKeeps
  <2>5. PICK h \in Nat : r.calls = 1..h /\ Waits(h, L, Q, goes)
    BY <1>6, <2>4
  <2>6. FwdType'
    BY <1>1, <1>2, <1>3, <1>4, <1>7, <2>1, <2>4 DEF FwdType, RsInv
  <2>7. Marked' /\ Finished'
    BY <1>1, <1>2, <1>3, <1>4, <2>1 DEF Marked, Finished
  <2>8. Reading'
    <3>1. RsInv(rs)'
      BY <1>7, <2>4 DEF RsInv
    <3>2. rs'.calls = 1..h /\ Waits(h, L, Q, goes) /\ L = Len(tr'.calls) /\ Q = queue' /\ goes = (source' = "open")
      BY <1>1, <1>3, <1>7, <2>5
    <3> QED  BY <3>1, <3>2 DEF Reading
  <2> QED  BY <2>6, <2>7, <2>8 DEF FwdInv
<1> QED  BY <1>8, <1>9, <1>10

LEMMA FwdEnd == ASSUME FwdInv, Forwards!End PROVE FwdInv'
<1>1. /\ outcome = "open" /\ UNCHANGED <<fed, upstream, tr, queue, source, doneSeen>>
      /\ \/ doneSeen /\ rs' = Forwards!Finalize(rs) /\ outcome' = "completed" /\ stored' \in BOOLEAN
         \/ rs' = Forwards!Send(rs, "failed", 0) /\ outcome' = "failed" /\ stored' = stored
  BY DEF Forwards!End, Forwards!Fail, Forwards!Response
<1>2. FwdType /\ Marked /\ RsInv(rs) /\ Finished
  BY <1>1 DEF FwdInv, Reading
<1>3. PICK r : r = rs'
  OBVIOUS
<1>4. CASE doneSeen /\ rs' = Forwards!Finalize(rs) /\ outcome' = "completed" /\ stored' \in BOOLEAN
  <2>1. /\ r \in RsType /\ Whole(r.events) /\ r.events[Len(r.events)].event = "completed"
        /\ Cardinality(Marks(r.events, "completed", 0) \cup Marks(r.events, "failed", 0)) = 1
    BY <1>2, <1>3, <1>4, FinalizeEnds
  <2>2. FwdType'
    BY <1>1, <1>2, <1>3, <1>4, <2>1 DEF FwdType
  <2>3. Marked'
    BY <1>1, <1>2, <1>4 DEF Marked
  <2>4. Reading' /\ Finished'
    BY <1>3, <1>4, <2>1 DEF Reading, Finished
  <2> QED  BY <2>2, <2>3, <2>4 DEF FwdInv
<1>5. CASE rs' = Forwards!Send(rs, "failed", 0) /\ outcome' = "failed" /\ stored' = stored
  <2>1. /\ r \in RsType /\ r.events[Len(r.events)].event = "failed"
        /\ Cardinality(Marks(r.events, "completed", 0) \cup Marks(r.events, "failed", 0)) = 1
    BY <1>2, <1>3, <1>5, Fails
  <2>2. FwdType'
    BY <1>1, <1>2, <1>3, <1>5, <2>1 DEF FwdType
  <2>3. Marked'
    BY <1>1, <1>2, <1>5 DEF Marked
  <2>4. Reading' /\ Finished'
    BY <1>3, <1>5, <2>1 DEF Reading, Finished
  <2> QED  BY <2>2, <2>3, <2>4 DEF FwdInv
<1> QED  BY <1>1, <1>4, <1>5

LEMMA FwdCancel == ASSUME FwdInv, Forwards!Cancel PROVE FwdInv'
<1>1. /\ outcome' = "left" /\ source' = "closed" /\ upstream' = "eof" /\ queue' = <<>>
      /\ UNCHANGED <<fed, tr, rs, doneSeen, stored>>
  BY DEF Forwards!Cancel
<1>2. FwdType /\ Marked
  BY DEF FwdInv
<1>3. FwdType'
  BY <1>1, <1>2 DEF FwdType
<1>4. Marked'
  BY <1>1, <1>2 DEF Marked
<1>5. Reading' /\ Finished'
  BY <1>1 DEF Reading, Finished
<1> QED  BY <1>3, <1>4, <1>5 DEF FwdInv

LEMMA FwdStep == ASSUME FwdInv, [Forwards!Next]_Forwards!vars PROVE FwdInv'
<1>1. CASE Forwards!Next
  BY <1>1, FwdTranslate, FwdUpstreamEnds, FwdTranslatorEnds, FwdRead, FwdEnd, FwdCancel DEF Forwards!Next
<1>2. CASE UNCHANGED Forwards!vars
  <2>1. UNCHANGED <<fed, upstream, tr, queue, source, rs, doneSeen, outcome, stored>>
    BY <1>2 DEF Forwards!vars
  <2>2. FwdType' /\ Marked' /\ Finished'
    BY <2>1 DEF FwdInv, FwdType, Marked, Finished
  <2>3. Reading'
    BY <2>1 DEF FwdInv, Reading, RsInv
  <2> QED  BY <2>2, <2>3 DEF FwdInv
<1> QED  BY <1>1, <1>2

LEMMA FwdShows == ASSUME FwdInv PROVE TurnIsWhole
<1>1. FwdType /\ Marked /\ Finished
  BY DEF FwdInv
<1>2. \A e, i : Forwards!At(e, i) = Marks(rs.events, e, i)
  BY DEF Forwards!At, Forwards!Events, Marks
<1>3. outcome = "completed" \/ stored => fed # <<>> /\ fed[Len(fed)].type = "stop"
  BY <1>1 DEF Marked
<1>4. outcome \in {"completed", "failed"} =>
        Forwards!Events[Len(Forwards!Events)].event = outcome
        /\ Forwards!Cardinality(Forwards!At("completed", Forwards!Response) \cup Forwards!At("failed", Forwards!Response)) = 1
  <2>1. Forwards!At("completed", Forwards!Response) \cup Forwards!At("failed", Forwards!Response) = Marks(rs.events, "completed", 0) \cup Marks(rs.events, "failed", 0)
    BY <1>2 DEF Forwards!Response
  <2>2. Forwards!Events[Len(Forwards!Events)].event = rs.events[Len(rs.events)].event
    BY DEF Forwards!Events
  <2> QED  BY <1>1, <2>1, <2>2, SameCount DEF Finished
<1>5. ASSUME outcome = "completed", NEW i \in {Forwards!Reasoning, Forwards!Message} \cup Block
      PROVE  /\ Forwards!Cardinality(Forwards!At("added", i)) = Forwards!Cardinality(Forwards!At("done", i))
             /\ Forwards!Cardinality(Forwards!At("done", i)) <= 1
             /\ \A d \in Forwards!At("delta", i) :
                  \E a \in Forwards!At("added", i), z \in Forwards!At("done", i) : a < d /\ (i # Forwards!Reasoning => d < z)
  <2> DEFINE E == rs.events
  <2>1. Whole(E)
    BY <1>1, <1>5 DEF Finished
  <2>2. Forwards!At("added", i) = Marks(E, "added", i) /\ Forwards!At("done", i) = Marks(E, "done", i) /\ Forwards!At("delta", i) = Marks(E, "delta", i)
    BY <1>2
  <2> HIDE DEF E
  <2>3. Untouched(E, i) \/ Shut(E, i)
    BY <2>1 DEF Whole, Shut, Closed
  <2>4. /\ Cardinality(Marks(E, "added", i)) = Cardinality(Marks(E, "done", i))
        /\ Cardinality(Marks(E, "done", i)) <= 1
    <3>1. CASE Untouched(E, i)
      BY <3>1, FS_EmptySet DEF Untouched
    <3>2. CASE Shut(E, i)
      <4>1. PICK a, z : Marks(E, "added", i) = {a} /\ Marks(E, "done", i) = {z}
        BY <3>2 DEF Shut
      <4>2. Cardinality({a}) = 1 /\ Cardinality({z}) = 1
        BY FS_Singleton
      <4> QED  BY <4>1, <4>2
    <3> QED  BY <2>3, <3>1, <3>2
  <2>5. \A d \in Marks(E, "delta", i) : \E a \in Marks(E, "added", i), z \in Marks(E, "done", i) : a < d /\ (i # -1 => d < z)
    <3>1. CASE i = -1
      BY <2>1, <3>1 DEF Whole, Untouched, Shut
    <3>2. CASE i # -1
      BY <2>1, <3>2 DEF Whole, Untouched, Closed
    <3> QED  BY <3>1, <3>2
  <2> QED  BY <2>2, <2>4, <2>5, SameCount DEF Forwards!Reasoning
<1> QED  BY <1>3, <1>4, <1>5 DEF TurnIsWhole, Forwards!TurnIsWhole

\* A response is reported complete, or stored, only if the upstream finished the turn, and
\* then all that was opened is done, once, and every delta came after its item was opened: of
\* a message or a call also before it was done.  A delta of the reasoning may come after that:
\* ensureReasoningItem opens no second item and lets it pass.  For streams of any length with
\* any number of calls.  (sse-translator.ts, chat-to-responses.ts, streamResponse)
THEOREM TurnTheorem == Spec => []TurnIsWhole
<1>1. Init => FwdInv
  BY FwdStarts DEF Init
<1>2. FwdInv /\ [Next]_vars => FwdInv'
  BY EachPart, FwdStep
<1>3. FwdInv => TurnIsWhole
  BY FwdShows
<1> QED  BY <1>1, <1>2, <1>3, PTL DEF Spec, vars

(***************************************************************************)
(* The login and its file: LoginStore.                                     *)
(***************************************************************************)
Sealed == [id : Nat, cred : Cred \cup {NoCred}, old : BOOLEAN, from : Nat]
LoginTypeOK ==
  /\ writes \in Nat /\ writes >= 1 /\ login \in Nat
  /\ {file, snap, load.seen, rescue.against} \subseteq Sealed \cup {NoFile}
  /\ {desk.cred, rescue.cred} \subseteq Cred \cup {NoCred}
  /\ DOMAIN load = {"at", "seen", "moved"} /\ DOMAIN rescue = {"at", "cred", "against", "moved", "key"}

\* A load works on a file that was there, and nothing comes between a comparison of the
\* file and the write after it.
NoWindow ==
  /\ load.at \in {"idle", "sealing", "open"} /\ (load.at = "sealing" => load.seen # NoFile)
  /\ rescue.at \in {"idle", "sealing"}

LoginInv == LoginTypeOK /\ NoWindow /\ LoginStands

LEMMA LoginInit == Login!Init => LoginInv
<1> SUFFICES ASSUME Login!Init
             PROVE  LoginInv
  OBVIOUS
<1>1. PICK c \in Cred : file = [id |-> 1, cred |-> c, old |-> FALSE, from |-> 1]
  BY DEF Login!Init
<1>2. file \in Sealed /\ file.from = 1
  BY <1>1 DEF Sealed
<1>3. file # NoFile
  BY <1>2, FileAssumption DEF Sealed
<1>4. writes = 1 /\ login = 1 /\ snap = NoFile /\ desk.cred = NoCred
  BY DEF Login!Init
<1>5. load.at = "idle" /\ load.seen = NoFile /\ DOMAIN load = {"at", "seen", "moved"}
  BY DEF Login!Init, Login!Idle
<1>6. rescue.at = "idle" /\ rescue.cred = NoCred /\ rescue.against = NoFile /\ DOMAIN rescue = {"at", "cred", "against", "moved", "key"}
  BY DEF Login!Init, Login!Resting
<1> QED  BY <1>2, <1>3, <1>4, <1>5, <1>6 DEF LoginInv, LoginTypeOK, NoWindow, LoginStands, Login!LoginStands

\* A write that descends from a file that is still there keeps its login.
LEMMA RewriteKeeps ==
  ASSUME LoginInv, NEW f, f = file, f # NoFile, NEW c \in Cred \cup {NoCred}, Login!Rewrite(f, c)
  PROVE  /\ writes' \in Nat /\ writes' >= 1 /\ login' \in Nat /\ file' \in Sealed /\ LoginStands' /\ UNCHANGED <<desk, expired>>
<1>1. writes' = writes + 1 /\ file' = [id |-> writes', cred |-> c, old |-> FALSE, from |-> f.from] /\ UNCHANGED <<login, desk, expired>>
  BY DEF Login!Rewrite
<1>2. f \in Sealed /\ f.from = login /\ login # 0
  BY DEF LoginInv, LoginTypeOK, LoginStands, Login!LoginStands
<1>3. file' \in Sealed /\ file'.from = login
  BY <1>1, <1>2 DEF LoginInv, LoginTypeOK, Sealed
<1>4. file' # NoFile
  BY <1>3, FileAssumption DEF Sealed
<1> QED  BY <1>1, <1>2, <1>3, <1>4 DEF LoginInv, LoginTypeOK, LoginStands, Login!LoginStands

\* What setting the credential does to a load and a rescue.
LEMMA SetKeeps ==
  ASSUME NEW c, NEW l, NEW r, Login!Set(c, l, r), DOMAIN l = {"at", "seen", "moved"},
         DOMAIN r = {"at", "cred", "against", "moved", "key"}
  PROVE  /\ load'.at = l.at /\ load'.seen = l.seen /\ DOMAIN load' = DOMAIN l
         /\ rescue'.at = r.at /\ rescue'.cred = r.cred /\ rescue'.against = r.against /\ DOMAIN rescue' = DOMAIN r
BY DEF Login!Set

\* The file, its history and the desktop stay; a load or a rescue may begin or end.
LEMMA FileStays ==
  ASSUME LoginInv, UNCHANGED <<file, writes, login>>, snap' \in Sealed \cup {NoFile}, desk'.cred \in Cred \cup {NoCred},
         load'.seen \in Sealed \cup {NoFile}, rescue'.against \in Sealed \cup {NoFile}, rescue'.cred \in Cred \cup {NoCred},
         DOMAIN load' = {"at", "seen", "moved"}, DOMAIN rescue' = {"at", "cred", "against", "moved", "key"}, NoWindow'
  PROVE  LoginInv'
BY DEF LoginInv, LoginTypeOK, LoginStands, Login!LoginStands

LEMMA ReloadKeeps ==
  ASSUME LoginInv, Login!Reload, UNCHANGED <<file, writes, login, desk>>
  PROVE  LoginInv'
<1> USE DEF LoginInv, LoginTypeOK, NoWindow
<1>1. CASE UNCHANGED <<snap, load, rescue>>
  BY <1>1, FileStays
<1>2. CASE /\ file # NoFile /\ UNCHANGED <<snap, rescue>>
           /\ load' = [at |-> IF file.old THEN "sealing" ELSE "open", seen |-> file, moved |-> FALSE]
  <2>1. load'.seen = file /\ load'.at \in {"sealing", "open"} /\ DOMAIN load' = {"at", "seen", "moved"}
    BY <1>2
  <2> QED  BY <1>2, <2>1, FileStays
<1>3. CASE snap' = NoFile /\ Login!Set(NoCred, Login!Idle, rescue)
  <2>1. Login!Idle.at = "idle" /\ Login!Idle.seen = NoFile /\ DOMAIN Login!Idle = {"at", "seen", "moved"}
    BY DEF Login!Idle
  <2>2. /\ load'.at = "idle" /\ load'.seen = NoFile /\ DOMAIN load' = {"at", "seen", "moved"}
        /\ rescue'.at = rescue.at /\ rescue'.cred = rescue.cred /\ rescue'.against = rescue.against /\ DOMAIN rescue' = DOMAIN rescue
    BY <1>3, <2>1, SetKeeps
  <2> QED  BY <1>3, <2>2, FileStays
<1> QED  BY <1>1, <1>2, <1>3 DEF Login!Reload

LEMMA LoadsKeep ==
  ASSUME ~Window, LoginInv, Login!Migrates \/ Login!MigrationLands \/ Login!LoadEnds
  PROVE  LoginInv'
<1> USE DEF LoginInv, LoginTypeOK, NoWindow
<1>1. CASE Login!Migrates
  <2>1. load.at = "sealing" /\ load' = [load EXCEPT !.at = "open"] /\ UNCHANGED <<snap, rescue>>
    BY <1>1 DEF Login!Migrates
  <2>2. load'.at = "open" /\ load'.seen = load.seen /\ DOMAIN load' = DOMAIN load
    BY <2>1
  <2>3. CASE UNCHANGED Login!storeVars
    BY <2>1, <2>2, <2>3, FileStays DEF Login!storeVars
  <2>4. CASE Login!Unchanged(load.seen) /\ Login!Rewrite(load.seen, load.seen.cred)
    <3>1. load.seen = file /\ load.seen # NoFile /\ load.seen.cred \in Cred \cup {NoCred}
      BY <2>1, <2>4 DEF Login!Unchanged, Sealed
    <3>2. /\ writes' \in Nat /\ writes' >= 1 /\ login' \in Nat /\ file' \in Sealed /\ LoginStands' /\ UNCHANGED <<desk, expired>>
      BY <2>4, <3>1, RewriteKeeps
    <3> QED  BY <2>1, <2>2, <3>2
  <2> QED  BY <1>1, <2>3, <2>4 DEF Login!Migrates
<1>2. CASE Login!MigrationLands
  BY <1>2 DEF Login!MigrationLands
<1>3. CASE Login!LoadEnds
  <2>1. UNCHANGED Login!storeVars /\ snap' \in {load.seen, snap}
    BY <1>3 DEF Login!LoadEnds
  <2>2. Login!Idle.at = "idle" /\ Login!Idle.seen = NoFile /\ DOMAIN Login!Idle = {"at", "seen", "moved"}
    BY DEF Login!Idle
  <2>3. CASE Login!Set(load.seen.cred, Login!Idle, rescue)
    <3>1. /\ load'.at = "idle" /\ load'.seen = NoFile /\ DOMAIN load' = {"at", "seen", "moved"}
          /\ rescue'.at = rescue.at /\ rescue'.cred = rescue.cred /\ rescue'.against = rescue.against /\ DOMAIN rescue' = DOMAIN rescue
      BY <2>2, <2>3, SetKeeps
    <3> QED  BY <2>1, <3>1, FileStays DEF Login!storeVars
  <2>4. CASE load' = Login!Idle /\ UNCHANGED rescue
    BY <2>1, <2>2, <2>4, FileStays DEF Login!storeVars
  <2> QED  BY <1>3, <2>3, <2>4 DEF Login!LoadEnds
<1> QED  BY <1>1, <1>2, <1>3

LEMMA RescueKeeps ==
  ASSUME ~Window, LoginInv,
         Login!NotSaved \/ Login!Saved \/ Login!SaveLands \/ \E r \in Request : Login!BeginsRescue(r)
  PROVE  LoginInv'
<1> USE DEF LoginInv, LoginTypeOK, NoWindow
<1>1. /\ Login!Resting.at = "idle" /\ Login!Resting.cred = NoCred /\ Login!Resting.against = NoFile
      /\ DOMAIN Login!Resting = {"at", "cred", "against", "moved", "key"}
  BY DEF Login!Resting
<1>2. CASE Login!NotSaved
  BY <1>1, <1>2, FileStays DEF Login!NotSaved, Login!storeVars
<1>3. CASE Login!Saved
  <2>1. Login!Known /\ Login!Lands
    BY <1>3 DEF Login!Saved
  <2>2. /\ writes' \in Nat /\ writes' >= 1 /\ login' \in Nat /\ file' \in Sealed /\ LoginStands' /\ UNCHANGED <<desk, expired>>
    BY <2>1, RewriteKeeps DEF Login!Known, Login!Unchanged, Login!Lands
  <2>3. UNCHANGED snap
    BY <2>1 DEF Login!Lands
  <2>4. CASE rescue' = Login!Resting /\ UNCHANGED load
    BY <1>1, <2>2, <2>3, <2>4
  <2>5. CASE Login!Set(rescue.cred, load, Login!Resting)
    <3>1. /\ load'.at = load.at /\ load'.seen = load.seen /\ DOMAIN load' = DOMAIN load
          /\ rescue'.at = "idle" /\ rescue'.cred = NoCred /\ rescue'.against = NoFile /\ DOMAIN rescue' = DOMAIN Login!Resting
      BY <1>1, <2>5, SetKeeps
    <3> QED  BY <1>1, <2>2, <2>3, <3>1
  <2> QED  BY <2>1, <2>4, <2>5 DEF Login!Lands
<1>4. CASE Login!SaveLands
  BY <1>4 DEF Login!SaveLands
<1>5. ASSUME NEW r \in Request, Login!BeginsRescue(r)
      PROVE  LoginInv'
  <2>1. UNCHANGED <<file, writes, login, desk, snap, load>>
    BY <1>5 DEF Login!BeginsRescue, Login!storeVars
  <2>2. CASE UNCHANGED rescue
    BY <2>1, <2>2, FileStays
  <2>3. CASE rescue' = [at |-> "sealing", cred |-> desk.cred, against |-> snap, moved |-> FALSE, key |-> <<given[r], desk.rev>>]
    BY <2>1, <2>3, FileStays
  <2> QED  BY <1>5, <2>2, <2>3 DEF Login!BeginsRescue
<1> QED  BY <1>2, <1>3, <1>4, <1>5

LEMMA LoginStep ==
  ASSUME ~Window, LoginInv, [Login!Next]_Login!vars
  PROVE  LoginInv'
<1> USE DEF LoginInv, LoginTypeOK, NoWindow
<1>1. CASE UNCHANGED Login!vars
  BY <1>1, FileStays DEF Login!vars, Login!storeVars, Login!memVars
<1>2. ASSUME NEW c \in Cred, NEW old \in BOOLEAN, Login!LogsIn(c, old)
      PROVE  LoginInv'
  <2>1. writes' = writes + 1 /\ login' = writes' /\ file' = [id |-> writes', cred |-> c, old |-> old, from |-> writes']
    BY <1>2 DEF Login!LogsIn
  <2>2. file' \in Sealed /\ file'.from = login' /\ login' # 0
    BY <2>1 DEF Sealed
  <2>3. file' # NoFile
    BY <2>2, FileAssumption DEF Sealed
  <2> QED  BY <1>2, <2>1, <2>2, <2>3 DEF Login!LogsIn, Login!memVars, LoginStands, Login!LoginStands
<1>3. CASE Login!LogsOut
  BY <1>3 DEF Login!LogsOut, Login!memVars, LoginStands, Login!LoginStands
<1>4. ASSUME NEW c \in Cred \cup {NoCred}, Login!DesktopChanges(c)
      PROVE  LoginInv'
  BY <1>4, FileStays DEF Login!DesktopChanges, Login!memVars
<1>5. ASSUME NEW c \in Short, Login!Expires(c)
      PROVE  LoginInv'
  BY <1>5, FileStays DEF Login!Expires, Login!memVars
<1>6. ASSUME NEW r \in Request, Login!Asks(r) \/ Login!Refused(r)
      PROVE  LoginInv'
  BY <1>6, ReloadKeeps DEF Login!Asks, Login!Refused, Login!Begins, Login!storeVars
<1>7. ASSUME NEW r \in Request,
             Login!Answered(r) \/ Login!Served(r) \/ Login!Overtaken(r) \/ Login!JoinsRescue(r) \/ Login!GivesUp(r) \/ Login!Resumed(r)
      PROVE  LoginInv'
  <2>1. UNCHANGED <<Login!storeVars, Login!memVars>>
    BY <1>7 DEF Login!Answered, Login!Served, Login!Overtaken, Login!JoinsRescue, Login!GivesUp, Login!Resumed
  <2> QED  BY <2>1, FileStays DEF Login!storeVars, Login!memVars
<1> QED
  BY <1>1, <1>2, <1>3, <1>4, <1>5, <1>6, <1>7, LoadsKeep, RescueKeeps DEF Login!Next

(***************************************************************************)
(* What the user did last stands: no migration and no rescue that began    *)
(* before brings a login back or writes over one - as long as no other     *)
(* process acts between a comparison of the file and the rename after it   *)
(* (loadCredential, saveCredentialIfUnchanged).                            *)
(***************************************************************************)
THEOREM LoginTheorem == ~Window => (Spec => []LoginStands)
<1> SUFFICES ASSUME ~Window
             PROVE  Spec => []LoginStands
  OBVIOUS
<1>1. Init => LoginInv
  BY LoginInit DEF Init
<1>2. LoginInv /\ [Next]_vars => LoginInv'
  BY EachPart, LoginStep
<1>3. LoginInv => LoginStands
  BY DEF LoginInv
<1> QED  BY <1>1, <1>2, <1>3, PTL DEF Spec, vars

(***************************************************************************)
(* The attempts to write the desktop's login down.                         *)
(***************************************************************************)
\* An attempt that was not made has not failed; every attempt but the one under way has
\* failed or was the last.
Attempted(k) ==
  /\ failures[k] \in 0..3 /\ tries[k] \in 0..3
  /\ k \notin attempted => failures[k] = 0 /\ tries[k] = 0
  /\ IF rescue.at # "idle" /\ rescue.key = k THEN k \in attempted /\ failures[k] <= 2 /\ tries[k] <= failures[k] + 1
     ELSE tries[k] <= failures[k] \/ (k \in attempted /\ failures[k] = 0)

RescueInv ==
  /\ DOMAIN failures = DOMAIN tries /\ (\A k \in DOMAIN tries : Attempted(k))
  /\ DOMAIN rescue = {"at", "cred", "against", "moved", "key"}

LEMMA RescueInit == Login!Init => RescueInv
<1> SUFFICES ASSUME Login!Init
             PROVE  RescueInv
  OBVIOUS
<1>1. rescue.at = "idle" /\ DOMAIN rescue = {"at", "cred", "against", "moved", "key"}
  BY DEF Login!Init, Login!Resting
<1>2. failures = [k \in Cred \X (0 .. MaxDesk) |-> 0] /\ tries = failures /\ attempted = {}
  BY DEF Login!Init
<1> QED  BY <1>1, <1>2 DEF RescueInv, Attempted

\* What leaves the rescue at its place.
LEMMA RescueStays ==
  ASSUME RescueInv, UNCHANGED <<failures, tries, attempted>>, rescue'.at = rescue.at, rescue'.key = rescue.key,
         DOMAIN rescue' = DOMAIN rescue
  PROVE  RescueInv'
BY DEF RescueInv, Attempted

LEMMA SetStays ==
  ASSUME RescueInv, NEW c, NEW l, Login!Set(c, l, rescue), UNCHANGED <<failures, tries, attempted>>
  PROVE  RescueInv'
<1>1. rescue'.at = rescue.at /\ rescue'.key = rescue.key /\ DOMAIN rescue' = DOMAIN rescue
  BY DEF Login!Set, RescueInv
<1> QED  BY <1>1, RescueStays

LEMMA RescueStep ==
  ASSUME RescueInv, [Login!Next]_Login!vars
  PROVE  RescueInv'
<1>1. CASE UNCHANGED Login!memVars
  BY <1>1, RescueStays DEF Login!memVars
<1>2. ASSUME Login!Reload, UNCHANGED <<failures, tries, attempted>>
      PROVE  RescueInv'
  BY <1>2, RescueStays, SetStays DEF Login!Reload
<1>3. CASE \E r \in Request : Login!Asks(r) \/ Login!Refused(r)
  BY <1>2, <1>3 DEF Login!Asks, Login!Refused, Login!Begins
<1>4. CASE Login!Migrates \/ Login!MigrationLands
  BY <1>4, RescueStays DEF Login!Migrates, Login!MigrationLands
<1>5. CASE Login!LoadEnds
  BY <1>5, RescueStays, SetStays DEF Login!LoadEnds
<1>6. ASSUME NEW r \in Request, Login!BeginsRescue(r)
      PROVE  RescueInv'
  <2> DEFINE key == <<given[r], desk.rev>>
  <2>1. rescue.at = "idle" /\ Login!MayImport(key) /\ attempted' = attempted \cup {key} /\ UNCHANGED failures
    BY <1>6 DEF Login!BeginsRescue
  <2>2. CASE UNCHANGED <<rescue, tries>>
    BY <2>1, <2>2 DEF RescueInv, Attempted
  <2>3. CASE /\ tries' = [tries EXCEPT ![key] = @ + 1]
             /\ rescue' = [at |-> "sealing", cred |-> desk.cred, against |-> snap, moved |-> FALSE, key |-> key]
    <3>1. rescue'.at = "sealing" /\ rescue'.key = key /\ DOMAIN rescue' = {"at", "cred", "against", "moved", "key"}
      BY <2>3
    <3>2. key \in DOMAIN tries => failures[key] <= 2 /\ tries[key] <= failures[key]
      BY <2>1 DEF Login!MayImport, RescueInv, Attempted
    <3> HIDE DEF key
    <3>3. DOMAIN tries' = DOMAIN tries /\ \A k \in DOMAIN tries : tries'[k] = IF k = key THEN tries[k] + 1 ELSE tries[k]
      BY <2>3
    <3> QED  BY <2>1, <3>1, <3>2, <3>3 DEF RescueInv, Attempted
  <2> QED  BY <1>6, <2>2, <2>3 DEF Login!BeginsRescue
<1>7. ASSUME rescue.at # "idle", NEW n, failures' = [failures EXCEPT ![rescue.key] = n], UNCHANGED <<tries, attempted>>,
             rescue'.at = "idle", DOMAIN rescue' = DOMAIN rescue,
             rescue.key \in DOMAIN tries => n = 0 \/ n = failures[rescue.key] + 1
      PROVE  RescueInv'
  <2>1. DOMAIN failures' = DOMAIN failures /\ \A k \in DOMAIN tries : failures'[k] = IF k = rescue.key THEN n ELSE failures[k]
    BY <1>7 DEF RescueInv
  <2>2. rescue.key \in DOMAIN tries => rescue.key \in attempted
    BY <1>7 DEF RescueInv, Attempted
  <2> QED  BY <1>7, <2>1, <2>2 DEF RescueInv, Attempted
<1>8. Login!Resting.at = "idle" /\ DOMAIN Login!Resting = {"at", "cred", "against", "moved", "key"}
  BY DEF Login!Resting
<1>9. CASE Login!NotSaved
  <2>1. /\ rescue.at = "sealing" /\ rescue' = Login!Resting /\ UNCHANGED <<tries, attempted>>
        /\ failures' = [failures EXCEPT ![rescue.key] = IF failures[rescue.key] < 3 THEN failures[rescue.key] + 1 ELSE failures[rescue.key]]
    BY <1>9 DEF Login!NotSaved
  <2>2. rescue.key \in DOMAIN tries => failures[rescue.key] < 3
    BY <2>1 DEF RescueInv, Attempted
  <2> QED  BY <1>7, <1>8, <2>1, <2>2 DEF RescueInv
<1>10. ASSUME rescue.at # "idle", Login!Lands
       PROVE  RescueInv'
  <2>1. failures' = [failures EXCEPT ![rescue.key] = 0] /\ UNCHANGED <<tries, attempted>>
    BY <1>10 DEF Login!Lands
  <2>2. rescue'.at = "idle" /\ DOMAIN rescue' = DOMAIN Login!Resting
    <3>1. CASE rescue' = Login!Resting
      BY <1>8, <3>1
    <3>2. CASE Login!Set(rescue.cred, load, Login!Resting)
      BY <1>8, <3>2 DEF Login!Set
    <3> QED  BY <1>10, <3>1, <3>2 DEF Login!Lands
  <2> QED  BY <1>7, <1>8, <1>10, <2>1, <2>2 DEF RescueInv
<1>11. CASE Login!Saved
  <2>1. CASE rescue' = [rescue EXCEPT !.at = "renaming"] /\ UNCHANGED <<failures, tries, attempted>>
    <3>1. rescue.at = "sealing"
      BY <1>11 DEF Login!Saved
    <3>2. rescue'.at = "renaming" /\ rescue'.key = rescue.key /\ DOMAIN rescue' = DOMAIN rescue
      BY <2>1 DEF RescueInv
    <3> QED  BY <2>1, <3>1, <3>2 DEF RescueInv, Attempted
  <2> QED  BY <1>10, <1>11, <2>1 DEF Login!Saved
<1>12. CASE Login!SaveLands
  BY <1>10, <1>12 DEF Login!SaveLands
<1>13. CASE \/ UNCHANGED Login!vars \/ Login!LogsOut \/ (\E c \in Cred, old \in BOOLEAN : Login!LogsIn(c, old))
            \/ (\E c \in Cred \cup {NoCred} : Login!DesktopChanges(c)) \/ (\E c \in Short : Login!Expires(c))
            \/ \E r \in Request : \/ Login!Answered(r) \/ Login!Served(r) \/ Login!Overtaken(r) \/ Login!JoinsRescue(r)
                                  \/ Login!GivesUp(r) \/ Login!Resumed(r)
  BY <1>1, <1>13 DEF Login!vars, Login!LogsOut, Login!LogsIn, Login!DesktopChanges, Login!Expires, Login!Answered, Login!Served,
                     Login!Overtaken, Login!JoinsRescue, Login!GivesUp, Login!Resumed
<1> QED
  BY <1>3, <1>4, <1>5, <1>6, <1>9, <1>11, <1>12, <1>13 DEF Login!Next

(***************************************************************************)
(* However many requests are refused, the desktop client's login is        *)
(* written down at most three times for one refused credential and one     *)
(* state of that client (attempted, persistenceFailures).                  *)
(***************************************************************************)
THEOREM RescueTheorem == Spec => []RescuesBounded
<1>1. Init => RescueInv
  BY RescueInit DEF Init
<1>2. RescueInv /\ [Next]_vars => RescueInv'
  BY EachPart, RescueStep
<1>3. RescueInv => RescuesBounded
  BY DEF RescueInv, Attempted, RescuesBounded, Login!RescuesBounded
<1> QED  BY <1>1, <1>2, <1>3, PTL DEF Spec, vars

(***************************************************************************)
(* The login flows: LoginFlow.                                             *)
(***************************************************************************)
\* What comes back to a flow is its own code or bad, an attempt works with its own flow's
\* code once it has one, and a flow whose own attempt has not begun or is over listens no more.
FlowInv ==
  /\ DOMAIN at = Flows!Attempt /\ DOMAIN code = Flows!Attempt /\ DOMAIN result = Flow /\ DOMAIN open = Flow
  /\ \A f \in Flow : result[f] \in {f, "bad", None}
  /\ \A f \in Flow, v \in Flows!Via : at[<<f, v>>] \in {"exchange", "biz", "info", "list", "create", "save"} => code[<<f, v>>] = f
  /\ \A f \in Flow : at[<<f, "own">>] \in Flows!Ended => ~open[f]
  /\ SavedIsOwn

LEMMA FlowInit == Flows!Init => FlowInv
BY DEF Flows!Init, Flows!Attempt, Flows!Via, Flows!Ended, FlowInv, SavedIsOwn, Flows!SavedIsOwn

\* An attempt goes on, or it ends.
LEMMA FlowGoes ==
  ASSUME FlowInv, NEW f \in Flow, NEW v \in Flows!Via, NEW to, Flows!Goes(f, v, to), UNCHANGED <<result, saved>>,
         DOMAIN code' = Flows!Attempt, \A a \in Flows!Attempt : a # <<f, v>> => code'[a] = code[a],
         code'[<<f, v>>] = f, to \notin Flows!Ended
  PROVE  FlowInv'
<1>1. <<f, v>> \in Flows!Attempt
  BY DEF Flows!Attempt
<1>2. DOMAIN at' = Flows!Attempt /\ at'[<<f, v>>] = to /\ \A a \in Flows!Attempt : a # <<f, v>> => at'[a] = at[a]
  BY <1>1 DEF Flows!Goes, FlowInv
<1>3. \A g \in Flow, w \in Flows!Via : <<g, w>> \in Flows!Attempt /\ (<<g, w>> = <<f, v>> => g = f)
  BY DEF Flows!Attempt
<1>4. "own" \in Flows!Via
  BY DEF Flows!Via
<1> QED  BY <1>2, <1>3, <1>4 DEF Flows!Goes, FlowInv, SavedIsOwn, Flows!SavedIsOwn

LEMMA FlowEnds ==
  ASSUME FlowInv, NEW f \in Flow, NEW v \in Flows!Via, NEW how \in Flows!Ended, Flows!Ends(f, v, how), UNCHANGED <<result, code>>, SavedIsOwn'
  PROVE  FlowInv'
<1>1. <<f, v>> \in Flows!Attempt
  BY DEF Flows!Attempt
<1>2. DOMAIN at' = Flows!Attempt /\ at'[<<f, v>>] = how /\ \A a \in Flows!Attempt : a # <<f, v>> => at'[a] = at[a]
  BY <1>1 DEF Flows!Ends, FlowInv
<1>3. \A g \in Flow, w \in Flows!Via : <<g, w>> \in Flows!Attempt
  BY DEF Flows!Attempt
<1>4. DOMAIN open' = Flow /\ ~open'[f] /\ \A g \in Flow : g # f => open'[g] = open[g]
  BY DEF Flows!Ends, FlowInv
<1>5. "own" \in Flows!Via
  BY DEF Flows!Via
<1>6. \A g \in Flow : at'[<<g, "own">>] \in Flows!Ended => ~open'[g]
  <2>1. \A g \in Flow : g # f => <<g, "own">> # <<f, v>>
    OBVIOUS
  <2> QED  BY <1>2, <1>3, <1>4, <1>5, <2>1 DEF FlowInv
<1>7. \A g \in Flow, w \in Flows!Via : at'[<<g, w>>] \in {"exchange", "biz", "info", "list", "create", "save"} => code'[<<g, w>>] = g
  BY <1>2, <1>3 DEF FlowInv, Flows!Ended
<1> QED  BY <1>2, <1>4, <1>6, <1>7 DEF FlowInv

LEMMA FlowStep ==
  ASSUME FlowInv, [Flows!Next]_Flows!vars
  PROVE  FlowInv'
<1>1. CASE UNCHANGED Flows!vars
  BY <1>1 DEF Flows!vars, FlowInv, SavedIsOwn, Flows!SavedIsOwn
<1>2. ASSUME NEW f \in Flow, Flows!Begins(f)
      PROVE  FlowInv'
  <2>1. <<f, "own">> \in Flows!Attempt
    BY DEF Flows!Attempt, Flows!Via
  <2>2. /\ DOMAIN at' = Flows!Attempt /\ at'[<<f, "own">>] = "waiting" /\ \A a \in Flows!Attempt : a # <<f, "own">> => at'[a] = at[a]
    BY <1>2, <2>1 DEF Flows!Begins, FlowInv
  <2>3. \A g \in Flow, w \in Flows!Via : <<g, w>> \in Flows!Attempt
    BY DEF Flows!Attempt
  <2>4. \A g \in Flow : g # f => <<g, "own">> # <<f, "own">>
    OBVIOUS
  <2>5. DOMAIN open' = Flow /\ (\A g \in Flow : g # f => open'[g] = open[g]) /\ UNCHANGED <<result, code, saved>>
    BY <1>2 DEF Flows!Begins, FlowInv
  <2>6. "own" \in Flows!Via
    BY DEF Flows!Via
  <2> QED  BY <2>2, <2>3, <2>4, <2>5, <2>6 DEF FlowInv, SavedIsOwn, Flows!SavedIsOwn, Flows!Ended
<1>3. ASSUME NEW f \in Flow, NEW k, Flows!Starts(f, k)
      PROVE  FlowInv'
  BY <1>3 DEF Flows!Starts, FlowInv, SavedIsOwn, Flows!SavedIsOwn
<1>4. ASSUME NEW f \in Flow, Flows!TornDown(f) \/ Flows!StartFails(f) \/ Flows!Consents(f)
      PROVE  FlowInv'
  BY <1>4 DEF Flows!TornDown, Flows!StartFails, Flows!Consents, FlowInv, SavedIsOwn, Flows!SavedIsOwn
<1>5. ASSUME NEW f \in Flow, NEW g \in Flow, Flows!ComesBack(f, g) \/ Flows!ComesBackBad(f)
      PROVE  FlowInv'
  <2>1. UNCHANGED <<at, code, open, saved>>
    BY <1>5 DEF Flows!ComesBack, Flows!ComesBackBad
  <2>2. \E r \in {f, "bad"} : result' = [result EXCEPT ![f] = r]
    BY <1>5 DEF Flows!ComesBack, Flows!ComesBackBad, Flows!Accepted
  <2>3. DOMAIN result' = Flow /\ \A h \in Flow : result'[h] \in {h, "bad", None}
    BY <2>2 DEF FlowInv
  <2> QED  BY <2>1, <2>3 DEF FlowInv, SavedIsOwn, Flows!SavedIsOwn
<1>6. ASSUME NEW f \in Flow, NEW g \in Flow, Flows!Arrives(f) \/ Flows!Delivers(f, g)
      PROVE  FlowInv'
  <2>1. PICK v \in Flows!Via, to \in {"biz", "exchange"} : code' = [code EXCEPT ![<<f, v>>] = f] /\ Flows!Goes(f, v, to)
    <3>1. CASE Flows!Arrives(f)
      <4>1. result[f] = f
        BY <3>1, FlowAssumption DEF Flows!Arrives, FlowInv
      <4> QED  BY <3>1, <4>1 DEF Flows!Arrives, Flows!Via
    <3>2. CASE Flows!Delivers(f, g)
      <4>1. g = f
        BY <3>2 DEF Flows!Delivers, Flows!Accepted
      <4> QED  BY <3>2, <4>1 DEF Flows!Delivers, Flows!Via
    <3> QED  BY <1>6, <3>1, <3>2
  <2>2. <<f, v>> \in Flows!Attempt
    BY DEF Flows!Attempt
  <2>3. DOMAIN code' = Flows!Attempt /\ code'[<<f, v>>] = f /\ \A a \in Flows!Attempt : a # <<f, v>> => code'[a] = code[a]
    BY <2>1, <2>2 DEF FlowInv
  <2>4. UNCHANGED <<result, saved>>
    BY <1>6 DEF Flows!Arrives, Flows!Delivers
  <2> QED  BY <2>1, <2>3, <2>4, FlowGoes DEF Flows!Ended
<1>7. ASSUME NEW f \in Flow, Flows!WaitFails(f)
      PROVE  FlowInv'
  BY <1>7, FlowEnds DEF Flows!WaitFails, Flows!Via, Flows!Ended, FlowInv, SavedIsOwn, Flows!SavedIsOwn
<1>8. ASSUME NEW f \in Flow, NEW v \in Flows!Via, Flows!Fails(f, v)
      PROVE  FlowInv'
  BY <1>8, FlowEnds DEF Flows!Fails, Flows!Ended, FlowInv, SavedIsOwn, Flows!SavedIsOwn
<1>9. ASSUME NEW f \in Flow, NEW v \in Flows!Via, Flows!Saves(f, v)
      PROVE  FlowInv'
  <2>1. code[<<f, v>>] = f /\ saved' = [flow |-> f, code |-> code[<<f, v>>]]
    BY <1>9 DEF Flows!Saves, FlowInv
  <2>2. SavedIsOwn'
    BY <2>1 DEF SavedIsOwn, Flows!SavedIsOwn
  <2> QED  BY <1>9, <2>2, FlowEnds DEF Flows!Saves, Flows!Ended
<1>10. ASSUME NEW f \in Flow, NEW v \in Flows!Via, Flows!Resolves(f, v)
       PROVE  FlowInv'
  <2>1. code[<<f, v>>] = f /\ UNCHANGED <<code, result, saved>>
    BY <1>10 DEF Flows!Resolves, FlowInv
  <2>2. \E to \in {"info", "list", "save", "create"} : Flows!Goes(f, v, to)
    BY <1>10 DEF Flows!Resolves
  <2> QED  BY <2>1, <2>2, FlowGoes DEF Flows!Ended, FlowInv
<1>11. ASSUME NEW f \in Flow, NEW v \in Flows!Via, Flows!Exchanges(f, v)
       PROVE  FlowInv'
  <2>1. <<f, v>> \in Flows!Attempt /\ code[<<f, v>>] = f /\ UNCHANGED <<code, result, saved>>
    BY <1>11 DEF Flows!Exchanges, FlowInv, Flows!Attempt
  <2>2. /\ DOMAIN at' = Flows!Attempt /\ at'[<<f, v>>] = "info" /\ \A a \in Flows!Attempt : a # <<f, v>> => at'[a] = at[a]
    BY <1>11, <2>1 DEF Flows!Exchanges, FlowInv
  <2>3. \A g \in Flow, w \in Flows!Via : <<g, w>> \in Flows!Attempt /\ (<<g, w>> = <<f, v>> => g = f)
    BY DEF Flows!Attempt
  <2>4. DOMAIN open' = Flow /\ \A g \in Flow : ~open[g] => ~open'[g]
    BY <1>11 DEF Flows!Exchanges, FlowInv
  <2>5. "own" \in Flows!Via
    BY DEF Flows!Via
  <2> QED  BY <2>1, <2>2, <2>3, <2>4, <2>5 DEF FlowInv, SavedIsOwn, Flows!SavedIsOwn, Flows!Ended
<1>12. CASE Flows!LogsOut
  BY <1>12 DEF Flows!LogsOut, FlowInv, SavedIsOwn, Flows!SavedIsOwn
<1> QED
  BY <1>1, <1>2, <1>3, <1>4, <1>5, <1>6, <1>7, <1>8, <1>9, <1>10, <1>11, <1>12 DEF Flows!Next

LEMMA FlowInvariant == Spec => []FlowInv
<1>1. Init => FlowInv
  BY FlowInit DEF Init
<1>2. FlowInv /\ [Next]_vars => FlowInv'
  BY EachPart, FlowStep
<1> QED  BY <1>1, <1>2, PTL DEF Spec, vars

(***************************************************************************)
(* The login that is stored is the one of the flow that stored it: a code  *)
(* of an older flow that comes back on the shared port, or is delivered    *)
(* late, is never redeemed for another (handleCallback,                    *)
(* parsePastedCallbackUrl, deliverOAuthCode).                              *)
(***************************************************************************)
THEOREM SavedTheorem == Spec => []SavedIsOwn
<1>1. FlowInv => SavedIsOwn
  BY DEF FlowInv
<1> QED  BY <1>1, FlowInvariant, PTL

(***************************************************************************)
(* Whichever way a flow ends it leaves no callback server behind           *)
(* (authorize, deliverOAuthCode, runPasteLogin).                           *)
(***************************************************************************)
THEOREM PortsTheorem == Spec => []PortsReleased
<1>1. FlowInv => PortsReleased
  BY DEF FlowInv, PortsReleased, Flows!PortsReleased
<1> QED  BY <1>1, FlowInvariant, PTL

(***************************************************************************)
(* The claims: Claims.                                                     *)
(***************************************************************************)
Longest == IF Poll > Cooldown THEN Poll ELSE Cooldown

ClaimTypeOK ==
  /\ timer \in 0..Claiming!Off /\ hold \in 0..Longest /\ age \in 0..MaxCall /\ waited \in [Plan -> Nat]
  /\ offered \subseteq Plan /\ DOMAIN holds = Plan /\ stopped \in BOOLEAN

\* Only the first in line waits.  Of the plans a cycle has seen none is held back before it
\* ends; one that waits longer than the cycle lasts is one it has seen, and is picked.
FirstWaits ==
  /\ \A p \in Plan : waited[p] > 0 => Claiming!First(p)
  /\ cycle # "idle" => ready \subseteq Plan /\ \A p \in ready : holds[p] = 0
  /\ \A p \in Plan : cycle \in {"jwt", "preview"} /\ waited[p] > age => p \in ready
  /\ \A p \in Plan : cycle \in {"captcha", "claim"} /\ waited[p] > age => p = target

\* The timer fires before a wait gets longer than a poll or a pause, and the pause is over by
\* then; a cycle adds no more than its calls take.
TimerIsSet ==
  /\ cycle = "idle" => age = 0 /\ (~stopped => hold <= timer)
  /\ cycle = "idle" => \A p \in Plan : waited[p] <= Longest /\ (~stopped => waited[p] + timer <= Longest)
  /\ cycle # "idle" => \A p \in Plan : waited[p] <= Longest + age

ClaimInv == ClaimTypeOK /\ FirstWaits /\ TimerIsSet

LEMMA LongestIsShort ==
  /\ Longest \in Nat /\ Poll \in Nat /\ Cooldown \in Nat /\ MaxCall \in Nat /\ MaxCall < Poll
  /\ Poll <= Longest /\ Cooldown <= Longest /\ Claiming!Off \in Nat /\ Longest < Claiming!Off
BY ClaimAssumption DEF Longest, Claiming!Off

LEMMA ClaimInit == Claiming!Init => ClaimInv
<1> SUFFICES ASSUME Claiming!Init PROVE ClaimInv
  OBVIOUS
<1>1. cycle = "idle" /\ stopped = FALSE /\ timer = 0 /\ hold = 0 /\ age = 0 /\ waited = [p \in Plan |-> 0]
  BY DEF Claiming!Init
<1>2. DOMAIN holds = Plan /\ offered \subseteq Plan
  BY DEF Claiming!Init
<1>3. stopped \in BOOLEAN
  BY <1>1, Zenon
<1>4. 0 \in 0..Claiming!Off /\ 0 \in 0..Longest /\ 0 \in 0..MaxCall
  BY LongestIsShort
<1>5. waited \in [Plan -> Nat] /\ \A p \in Plan : waited[p] = 0
  BY <1>1
<1>6. ClaimTypeOK
  BY <1>1, <1>2, <1>3, <1>4, <1>5 DEF ClaimTypeOK
<1>7. FirstWaits /\ TimerIsSet
  BY <1>1, <1>5, LongestIsShort DEF FirstWaits, TimerIsSet
<1> QED  BY <1>6, <1>7 DEF ClaimInv

\* Of the waits, at most that of the first in line goes on.
LEMMA WaitsKeep ==
  ASSUME NEW w \in [Plan -> Nat], Claiming!WaitsFrom(w)
  PROVE  /\ waited' \in [Plan -> Nat]
         /\ \A p \in Plan : waited'[p] <= w[p] /\ (waited'[p] > 0 => Claiming!First(p)')
<1>1. \A p \in Plan : waited'[p] = IF Claiming!First(p)' THEN w[p] ELSE 0
  BY DEF Claiming!WaitsFrom
<1>2. waited' \in [Plan -> Nat]
  BY DEF Claiming!WaitsFrom
<1>3. ASSUME NEW p \in Plan
      PROVE  waited'[p] <= w[p] /\ (waited'[p] > 0 => Claiming!First(p)')
  <2>1. CASE Claiming!First(p)'
    BY <1>1, <2>1
  <2>2. CASE ~Claiming!First(p)'
    BY <1>1, <2>2
  <2> QED  BY <2>1, <2>2
<1> QED  BY <1>2, <1>3

\* A cycle ends, and the timer is set by its pause.
LEMMA CycleEnds ==
  ASSUME ClaimInv, NEW h \in 0..Longest, NEW off \in BOOLEAN, Claiming!EndsCycle(h, off), stopped => off,
         waited' \in [Plan -> Nat], \A p \in Plan : waited'[p] > 0 => Claiming!First(p)',
         \A p \in Plan : waited'[p] <= Longest /\ (off \/ waited'[p] + (IF h > 0 THEN h ELSE Poll) <= Longest),
         offered' \subseteq Plan, DOMAIN holds' = Plan
  PROVE  ClaimInv'
<1>1. /\ cycle' = "idle" /\ hold' = h /\ stopped' = off /\ age' = 0
      /\ timer' = IF off THEN Claiming!Off ELSE IF h > 0 THEN h ELSE Poll
  BY DEF Claiming!EndsCycle, Claiming!Scheduled
<1>2. h \in Nat /\ h <= Longest
  BY LongestIsShort
<1>3. ClaimTypeOK'
  BY <1>1, <1>2, LongestIsShort DEF ClaimTypeOK
<1>4. TimerIsSet'
  <2>1. cycle' = "idle" /\ age' = 0
    BY <1>1
  <2>2. CASE off
    BY <2>1, <2>2, <1>1 DEF TimerIsSet
  <2>3. CASE ~off
    <3>1. stopped' = FALSE /\ hold' = h /\ timer' = IF h > 0 THEN h ELSE Poll
      BY <2>3, <1>1
    <3>2. \A p \in Plan : waited'[p] + timer' <= Longest
      BY <2>3, <3>1
    <3>3. h <= IF h > 0 THEN h ELSE Poll
      BY <1>2, LongestIsShort
    <3> QED  BY <2>1, <3>1, <3>2, <3>3 DEF TimerIsSet
  <2> QED  BY <2>2, <2>3
<1>5. FirstWaits'
  BY <1>1 DEF FirstWaits
<1> QED  BY <1>3, <1>4, <1>5 DEF ClaimInv

LEMMA LeftKeeps ==
  ASSUME ClaimInv, NEW n \in Nat
  PROVE  Claiming!Left(n) \in 0..n /\ (n > age => Claiming!Left(n) = n - age /\ n - age > 0)
BY DEF Claiming!Left, ClaimInv, ClaimTypeOK

\* The poll goes on: no plan has waited longer than the cycle took.
LEMMA PollGoesOn ==
  ASSUME ClaimInv, NEW off \in BOOLEAN, Claiming!EndsCycle(Claiming!Left(Poll), off), stopped => off,
         waited' \in [Plan -> Nat], \A p \in Plan : waited'[p] <= age /\ (waited'[p] > 0 => Claiming!First(p)'),
         offered' \subseteq Plan, DOMAIN holds' = Plan
  PROVE  ClaimInv'
<1>1. age \in Nat /\ age <= MaxCall
  BY LongestIsShort DEF ClaimInv, ClaimTypeOK
<1>2. PICK h : h = Claiming!Left(Poll)
  OBVIOUS
<1>3. h = Poll - age /\ h > 0 /\ h <= Poll /\ h \in 0..Longest
  BY <1>1, <1>2, LeftKeeps, LongestIsShort
<1>4. Claiming!EndsCycle(h, off)
  BY <1>2, Zenon
<1>5. \A p \in Plan : waited'[p] <= Longest /\ waited'[p] + (IF h > 0 THEN h ELSE Poll) <= Longest
  BY <1>1, <1>3, LongestIsShort
<1> QED  BY <1>3, <1>4, <1>5, CycleEnds

LEMMA AnswersKeep ==
  ASSUME ClaimInv, NEW n, NEW off \in BOOLEAN, Claiming!Answered(n, off), stopped => off
  PROVE  ClaimInv'
<1>1. /\ cycle = "claim" /\ Claiming!EndsCycle(Claiming!Left(Poll), off)
      /\ offered' = offered /\ DOMAIN holds' = Plan
  BY DEF Claiming!Answered, Claiming!Pause, Claiming!HeldFor, ClaimInv, ClaimTypeOK
<1>2. PICK w : w = [waited EXCEPT ![target] = 0]
  OBVIOUS
<1>3. Claiming!WaitsFrom(w)
  BY <1>2 DEF Claiming!Answered
<1>4. w \in [Plan -> Nat] /\ \A p \in Plan : w[p] <= age
  <2>1. waited \in [Plan -> Nat] /\ age \in Nat
    BY LongestIsShort DEF ClaimInv, ClaimTypeOK
  <2>2. \A p \in Plan : waited[p] > age => p = target
    BY <1>1 DEF ClaimInv, FirstWaits
  <2>3. w \in [Plan -> Nat] /\ \A p \in Plan : p # target => w[p] = waited[p]
    BY <1>2, <2>1
  <2>4. target \in Plan => w[target] = 0
    BY <1>2, <2>1
  <2>5. ASSUME NEW p \in Plan
        PROVE  w[p] <= age
    BY <2>1, <2>2, <2>3, <2>4
  <2> QED  BY <2>3, <2>5
<1>5. waited' \in [Plan -> Nat] /\ \A p \in Plan : waited'[p] <= w[p] /\ (waited'[p] > 0 => Claiming!First(p)')
  BY <1>3, <1>4, WaitsKeep
<1>6. \A p \in Plan : waited'[p] <= age
  BY <1>4, <1>5, LongestIsShort DEF ClaimInv, ClaimTypeOK
<1>7. offered' \subseteq Plan
  BY <1>1 DEF ClaimInv, ClaimTypeOK
<1> QED  BY <1>1, <1>5, <1>6, <1>7, PollGoesOn

\* A plan that waits longer than the cycle lasts is on offer, allowed and not held back, and no
\* other the preview shows goes before it: it is the one picked.
LEMMA FirstIsPicked ==
  ASSUME ClaimInv, cycle = "preview", NEW p \in Plan, waited[p] > age
  PROVE  p \in Claiming!Available /\ p = Claiming!Picked
<1>1. p \in ready /\ Claiming!First(p)
  <2>1. waited[p] \in Nat /\ age \in Nat
    BY LongestIsShort DEF ClaimInv, ClaimTypeOK
  <2> QED  BY <2>1 DEF ClaimInv, FirstWaits
<1>2. p \in Claiming!Available
  BY <1>1 DEF Claiming!Available, Claiming!First, Claiming!InLine
<1>3. \A q \in Claiming!Available : q \in Plan /\ q <= p
  BY <1>1 DEF Claiming!Available, Claiming!First, Claiming!InLine, ClaimInv, FirstWaits
<1>4. Plan \subseteq Nat
  BY ClaimAssumption
<1>5. \A q \in Claiming!Available : (\A r \in Claiming!Available : r <= q) => q = p
  BY <1>2, <1>3, <1>4
<1>6. Claiming!Picked \in Claiming!Available /\ \A r \in Claiming!Available : r <= Claiming!Picked
  BY <1>2, <1>3 DEF Claiming!Picked
<1> QED  BY <1>2, <1>5, <1>6

\* First in line, as long as the offer and the holds stand.
LEMMA FirstStands ==
  ASSUME UNCHANGED <<holds, offered, eligible>>
  PROVE  \A p \in Plan : Claiming!First(p)' = Claiming!First(p)
BY DEF Claiming!First, Claiming!InLine

LEMMA ClaimStep ==
  ASSUME ClaimInv, [Claiming!Next]_Claiming!vars
  PROVE  ClaimInv'
<1>0. waited \in [Plan -> Nat] /\ age \in Nat /\ age <= MaxCall
  BY LongestIsShort DEF ClaimInv, ClaimTypeOK
<1>1. CASE UNCHANGED Claiming!vars
  <2>1. UNCHANGED <<cycle, stopped, timer, hold, holds, age, ready, target, offered, eligible, waited>>
    BY <1>1 DEF Claiming!vars
  <2>2. ClaimTypeOK' /\ TimerIsSet'
    BY <2>1 DEF ClaimInv, ClaimTypeOK, TimerIsSet
  <2>3. FirstWaits'
    BY <2>1, FirstStands DEF ClaimInv, FirstWaits
  <2> QED  BY <2>2, <2>3 DEF ClaimInv
<1>2. CASE Claiming!Fires
  <2>1. cycle = "idle" /\ timer = 0 /\ UNCHANGED <<stopped, hold, holds, age, offered, eligible, waited>>
    BY <1>2 DEF Claiming!Fires
  <2>2. \A p \in Plan : waited'[p] > 0 => Claiming!First(p)'
    BY <2>1, FirstStands DEF ClaimInv, FirstWaits
  <2>3. CASE hold > 0 /\ timer' = hold /\ UNCHANGED <<cycle, ready>>
    <3>1. stopped /\ hold \in 0..Claiming!Off
      BY <2>1, <2>3, ClaimAssumption DEF ClaimInv, TimerIsSet, ClaimTypeOK, Longest, Claiming!Off
    <3>2. ClaimTypeOK' /\ TimerIsSet'
      BY <2>1, <2>3, <3>1 DEF ClaimInv, ClaimTypeOK, TimerIsSet
    <3>3. FirstWaits'
      BY <2>1, <2>2, <2>3 DEF FirstWaits
    <3> QED  BY <3>2, <3>3 DEF ClaimInv
  <2>4. CASE cycle' = "jwt" /\ timer' = Claiming!Off /\ ready' = {p \in Plan : holds[p] = 0}
    <3>1. Claiming!Off \in 0..Claiming!Off
      BY LongestIsShort
    <3>2. age = 0 /\ age' = 0 /\ waited' = waited /\ \A p \in Plan : waited[p] <= Longest
      BY <2>1 DEF ClaimInv, TimerIsSet
    <3>3. ClaimTypeOK'
      BY <2>1, <2>4, <3>1, LongestIsShort DEF ClaimInv, ClaimTypeOK
    <3>4. \A p \in Plan : waited'[p] > age' => p \in ready'
      <4>1. \A p \in Plan : Claiming!First(p) => p \in ready'
        BY <2>4 DEF Claiming!First, Claiming!InLine
      <4> QED  BY <3>2, <4>1 DEF ClaimInv, FirstWaits
    <3>5. FirstWaits'
      BY <2>1, <2>2, <2>4, <3>4 DEF FirstWaits
    <3>6. TimerIsSet'
      BY <1>0, <2>4, <3>2, LongestIsShort DEF TimerIsSet
    <3> QED  BY <3>3, <3>5, <3>6 DEF ClaimInv
  <2> QED  BY <1>2, <2>3, <2>4 DEF Claiming!Fires
<1>3. CASE Claiming!Backoff
  <2>1. Claiming!EndsCycle(Cooldown, stopped) /\ waited' = [p \in Plan |-> 0] /\ UNCHANGED <<holds, offered>>
    BY <1>3 DEF Claiming!Backoff
  <2>2. Cooldown \in 0..Longest /\ Poll <= Longest /\ Longest \in Nat
    BY LongestIsShort
  <2>3. waited' \in [Plan -> Nat] /\ \A p \in Plan : waited'[p] = 0
    BY <2>1
  <2>4. \A p \in Plan : waited'[p] <= Longest /\ waited'[p] + (IF Cooldown > 0 THEN Cooldown ELSE Poll) <= Longest
    BY <2>3, LongestIsShort
  <2>5. stopped \in BOOLEAN /\ offered' \subseteq Plan /\ DOMAIN holds' = Plan
    BY <2>1 DEF ClaimInv, ClaimTypeOK
  <2>6. \A p \in Plan : waited'[p] > 0 => Claiming!First(p)'
    BY <2>3
  <2> QED  BY <2>1, <2>2, <2>3, <2>4, <2>5, <2>6, CycleEnds
<1>4. CASE Claiming!LoggedIn \/ Claiming!PicksPlan \/ Claiming!HasToken
  <2>1. UNCHANGED <<stopped, timer, hold, holds, age, ready, offered, eligible, waited>> /\ cycle # "idle" /\ cycle' # "idle"
    BY <1>4 DEF Claiming!LoggedIn, Claiming!PicksPlan, Claiming!HasToken
  <2>2. ClaimTypeOK' /\ TimerIsSet'
    BY <2>1 DEF ClaimInv, ClaimTypeOK, TimerIsSet
  <2>3. \A p \in Plan : waited'[p] > 0 => Claiming!First(p)'
    BY <2>1, FirstStands DEF ClaimInv, FirstWaits
  <2>4. CASE Claiming!LoggedIn
    <3>1. cycle = "jwt" /\ cycle' = "preview"
      BY <2>4 DEF Claiming!LoggedIn
    <3> QED  BY <2>1, <2>2, <2>3, <3>1 DEF ClaimInv, FirstWaits
  <2>5. CASE Claiming!PicksPlan
    <3>1. cycle = "preview" /\ cycle' = "captcha" /\ target' = Claiming!Picked
      BY <2>5 DEF Claiming!PicksPlan
    <3>2. \A p \in Plan : waited'[p] > age' => p = target'
      BY <2>1, <3>1, FirstIsPicked
    <3> QED  BY <2>1, <2>2, <2>3, <3>1, <3>2 DEF ClaimInv, FirstWaits
  <2>6. CASE Claiming!HasToken
    <3>1. cycle = "captcha" /\ cycle' = "claim" /\ target' = target
      BY <2>6 DEF Claiming!HasToken
    <3> QED  BY <2>1, <2>2, <2>3, <3>1 DEF ClaimInv, FirstWaits
  <2> QED  BY <1>4, <2>4, <2>5, <2>6
<1>5. CASE Claiming!NothingToDo
  <2>1. /\ cycle = "preview" /\ Claiming!Available = {} /\ Claiming!EndsCycle(Claiming!Left(Poll), stopped)
        /\ UNCHANGED <<holds, offered, eligible, waited>>
    BY <1>5 DEF Claiming!NothingToDo
  <2>2. \A p \in Plan : waited'[p] <= age
    BY <1>0, <2>1, FirstIsPicked
  <2>3. \A p \in Plan : waited'[p] > 0 => Claiming!First(p)'
    BY <2>1, FirstStands DEF ClaimInv, FirstWaits
  <2>4. stopped \in BOOLEAN /\ offered' \subseteq Plan /\ DOMAIN holds' = Plan /\ waited' \in [Plan -> Nat]
    BY <1>0, <2>1 DEF ClaimInv, ClaimTypeOK
  <2> QED  BY <2>1, <2>2, <2>3, <2>4, PollGoesOn
<1>6. CASE Claiming!Granted \/ Claiming!Exhausted \/ Claiming!Refused \/ Claiming!LoginRequired
  <2>1. \E n : \E off \in BOOLEAN : Claiming!Answered(n, off) /\ (stopped => off)
    BY <1>6 DEF Claiming!Granted, Claiming!Exhausted, Claiming!Refused, Claiming!LoginRequired, ClaimInv, ClaimTypeOK
  <2> QED  BY <2>1, AnswersKeep
<1>7. CASE Claiming!Stops
  <2>1. /\ stopped' = TRUE /\ timer' = Claiming!Off
        /\ UNCHANGED <<cycle, hold, holds, age, ready, target, offered, eligible, waited>>
    BY <1>7 DEF Claiming!Stops
  <2>2. Claiming!Off \in 0..Claiming!Off
    BY LongestIsShort
  <2>3. ClaimTypeOK' /\ TimerIsSet'
    BY <2>1, <2>2 DEF ClaimInv, ClaimTypeOK, TimerIsSet
  <2>4. FirstWaits'
    BY <2>1, FirstStands DEF ClaimInv, FirstWaits
  <2> QED  BY <2>3, <2>4 DEF ClaimInv
<1>8. ASSUME NEW p \in Plan, Claiming!Publishes(p) \/ Claiming!Withdraws(p)
      PROVE  ClaimInv'
  <2>1. /\ UNCHANGED <<stopped, timer, hold, holds, age, ready, target, cycle>>
        /\ offered' \subseteq Plan /\ Claiming!WaitsFrom(waited)
    BY <1>8 DEF Claiming!Publishes, Claiming!Withdraws, ClaimInv, ClaimTypeOK
  <2>2. PICK w : w = waited
    OBVIOUS
  <2>3. w \in [Plan -> Nat] /\ Claiming!WaitsFrom(w)
    BY <1>0, <2>1, <2>2
  <2>4. /\ waited' \in [Plan -> Nat]
        /\ \A q \in Plan : waited'[q] <= waited[q] /\ (waited'[q] > 0 => Claiming!First(q)')
    BY <2>2, <2>3, WaitsKeep
  <2>5. ClaimTypeOK'
    BY <2>1, <2>4 DEF ClaimInv, ClaimTypeOK
  <2>6. \A q \in Plan : waited'[q] > age => waited[q] > age
    BY <1>0, <2>4
  <2>7. FirstWaits'
    BY <2>1, <2>4, <2>6 DEF ClaimInv, FirstWaits
  <2>8. TimerIsSet'
    BY <1>0, <2>1, <2>4, LongestIsShort DEF ClaimInv, ClaimTypeOK, TimerIsSet
  <2> QED  BY <2>5, <2>7, <2>8 DEF ClaimInv
<1>9. CASE Claiming!Time
  <2>1. /\ timer # 0 /\ UNCHANGED <<cycle, stopped, ready, target, offered, eligible>> /\ (cycle # "idle" => age < MaxCall)
        /\ timer' = IF timer = Claiming!Off THEN timer ELSE timer - 1
        /\ hold' = IF hold = 0 THEN 0 ELSE hold - 1
        /\ age' = IF cycle = "idle" THEN 0 ELSE age + 1
    BY <1>9 DEF Claiming!Time, Claiming!Less
  <2>2. PICK w : w = [p \in Plan |-> IF stopped \/ ~Claiming!First(p) THEN 0 ELSE waited[p] + 1]
    OBVIOUS
  <2>3. Claiming!WaitsFrom(w)
    BY <1>9, <2>2 DEF Claiming!Time
  <2>4. w \in [Plan -> Nat] /\ \A p \in Plan : w[p] <= (IF stopped THEN 0 ELSE waited[p] + 1)
    BY <1>0, <2>2
  <2>5. waited' \in [Plan -> Nat] /\ \A p \in Plan : waited'[p] <= w[p] /\ (waited'[p] > 0 => Claiming!First(p)')
    BY <2>3, <2>4, WaitsKeep
  <2>6. \A p \in Plan : waited'[p] <= (IF stopped THEN 0 ELSE waited[p] + 1)
    BY <1>0, <2>4, <2>5
  <2>7. DOMAIN holds' = Plan /\ \A p \in Plan : holds[p] = 0 => holds'[p] = 0
    BY <1>9 DEF Claiming!Time
  <2>8. ClaimTypeOK'
    <3>1. timer \in Nat /\ timer <= Claiming!Off /\ hold \in Nat /\ hold <= Longest
      BY LongestIsShort DEF ClaimInv, ClaimTypeOK
    <3>2. timer' \in 0..Claiming!Off /\ hold' \in 0..Longest /\ age' \in 0..MaxCall
      BY <1>0, <2>1, <3>1, LongestIsShort
    <3> QED  BY <2>1, <2>5, <2>7, <3>2 DEF ClaimInv, ClaimTypeOK
  <2>9. FirstWaits'
    <3>1. cycle # "idle" => ready' \subseteq Plan /\ \A p \in ready' : holds'[p] = 0
      BY <2>1, <2>7 DEF ClaimInv, FirstWaits
    <3>2. \A p \in Plan : cycle # "idle" /\ waited'[p] > age' => waited[p] > age
      BY <1>0, <2>1, <2>5, <2>6
    <3> QED  BY <2>1, <2>5, <3>1, <3>2 DEF ClaimInv, FirstWaits
  <2>10. TimerIsSet'
    <3>1. CASE cycle = "idle"
      <4>1. timer \in Nat /\ hold \in Nat /\ Longest < Claiming!Off /\ Longest \in Nat
        BY LongestIsShort DEF ClaimInv, ClaimTypeOK
      <4>2. (~stopped => hold <= timer) /\ \A p \in Plan : waited[p] <= Longest /\ (~stopped => waited[p] + timer <= Longest)
        BY <3>1 DEF ClaimInv, TimerIsSet
      <4>3. \A p \in Plan : waited'[p] <= Longest /\ (~stopped => waited'[p] + timer' <= Longest)
        BY <1>0, <2>1, <2>5, <2>6, <4>1, <4>2
      <4>4. ~stopped => hold' <= timer'
        BY <2>1, <4>1, <4>2
      <4> QED  BY <2>1, <3>1, <4>3, <4>4 DEF TimerIsSet
    <3>2. CASE cycle # "idle"
      BY <1>0, <2>1, <2>5, <2>6, <3>2, LongestIsShort DEF ClaimInv, TimerIsSet
    <3> QED  BY <3>1, <3>2
  <2> QED  BY <2>8, <2>9, <2>10 DEF ClaimInv
<1> QED
  BY <1>1, <1>2, <1>3, <1>4, <1>5, <1>6, <1>7, <1>8, <1>9 DEF Claiming!Next

(***************************************************************************)
(* The plan that is first in line - the greatest that is on offer, allowed *)
(* by the configuration and not held back - is claimed within a poll, or   *)
(* the pause after a cycle that failed, and the calls of one cycle: what   *)
(* an answer says of another plan does not keep it waiting (tick,          *)
(* pickPlan, holdForFailure).                                              *)
(***************************************************************************)
THEOREM ClaimTheorem == Spec => []ReadyPlanIsClaimed
<1>1. Init => ClaimInv
  BY ClaimInit DEF Init
<1>2. ClaimInv /\ [Next]_vars => ClaimInv'
  BY EachPart, ClaimStep
<1>3. ClaimInv => ReadyPlanIsClaimed
  BY ClaimAssumption DEF ClaimInv, ClaimTypeOK, TimerIsSet, Longest, ReadyPlanIsClaimed, Claiming!ReadyPlanIsClaimed
<1> QED  BY <1>1, <1>2, <1>3, PTL DEF Spec, vars

(***************************************************************************)
(* Conversations that go on: Conversation.                                 *)
(***************************************************************************)

\* Numbers, ordered.
LessSet == {p \in Nat \X Nat : p[1] < p[2]}

\* A set of numbers that is not empty has a least one.
LEMMA LeastOf ==
  ASSUME NEW S \in SUBSET Nat, S # {}
  PROVE  \E x \in S : \A y \in S : x <= y
<1>1. LessSet = OpToRel(<, Nat)
  BY DEF LessSet, OpToRel
<1>2. IsWellFoundedOn(LessSet, Nat)
  BY <1>1, NatLessThanWellFounded, Zenon
<1>3. PICK x \in S : \A y \in S : <<y, x>> \notin LessSet
  BY <1>2, WFMin
<1>4. \A y \in S : ~(y < x)
  BY <1>3 DEF LessSet
<1> QED  BY <1>4

\* A set of numbers with 0 and with the successor of each of its members has all of them.
LEMMA SetInduction ==
  ASSUME NEW S, 0 \in S, \A n \in Nat : n \in S => n + 1 \in S
  PROVE  Nat \subseteq S
<1> SUFFICES ASSUME Nat \ S # {} PROVE FALSE
  OBVIOUS
<1>1. PICK x \in Nat \ S : \A y \in Nat \ S : x <= y
  BY LeastOf
<1>2. x # 0 /\ x - 1 \in Nat /\ x - 1 \notin Nat \ S
  BY <1>1
<1> QED  BY <1>1, <1>2

\* What is computed along a sequence, one element after the other.
Foldable(S, I, b, step, s) == b \in S /\ step \in [S \X I -> S] /\ s \in Seq(I)
Folded(b, step, s, f)      == f[0] = b /\ \A n \in 1..Len(s) : f[n] = step[<<f[n - 1], s[n]>>]
LEMMA FoldExists ==
  ASSUME NEW S, NEW I, NEW b, NEW step, NEW s, Foldable(S, I, b, step, s)
  PROVE  \E f \in [0..Len(s) -> S] : Folded(b, step, s, f)
<1> USE DEF Foldable, Folded
<1> DEFINE Upto(f, m) == f \in [0..m -> S] /\ f[0] = b /\ \A n \in 1..m : f[n] = step[<<f[n - 1], s[n]>>]
           T == {m \in Nat : m <= Len(s) => \E f : Upto(f, m)}
<1>1. 0 \in T
  <2>1. Upto([n \in 0..0 |-> b], 0)
    OBVIOUS
  <2> QED  BY <2>1
<1>2. ASSUME NEW m \in Nat, m \in T
      PROVE  m + 1 \in T
  <2> SUFFICES ASSUME m + 1 <= Len(s)
               PROVE  \E f : Upto(f, m + 1)
    OBVIOUS
  <2>1. PICK f : Upto(f, m)
    BY <1>2
  <2> DEFINE x == step[<<f[m], s[m + 1]>>]
             g == [n \in 0..m + 1 |-> IF n = m + 1 THEN x ELSE f[n]]
  <2>2. x \in S
    <3>1. f[m] \in S /\ s[m + 1] \in I
      BY <2>1
    <3> QED  BY <3>1
  <2> HIDE DEF x
  <2>3. g \in [0..m + 1 -> S] /\ g[0] = b
    BY <2>1, <2>2
  <2>4. ASSUME NEW n \in 1..m + 1
        PROVE  g[n] = step[<<g[n - 1], s[n]>>]
    <3>1. CASE n = m + 1
      <4>1. g[n] = x /\ g[n - 1] = f[m]
        BY <3>1
      <4> QED  BY <3>1, <4>1 DEF x
    <3>2. CASE n # m + 1
      <4>1. n \in 1..m /\ g[n] = f[n] /\ g[n - 1] = f[n - 1]
        BY <3>2
      <4> QED  BY <2>1, <4>1
    <3> QED  BY <3>1, <3>2
  <2> QED  BY <2>3, <2>4
<1>3. Nat \subseteq T
  <2> HIDE DEF T
  <2> QED  BY <1>1, <1>2, SetInduction
<1>4. Len(s) \in Nat
  OBVIOUS
<1> QED  BY <1>3, <1>4

\* Two that start alike and go on alike are the same.
Alike(m, f, g) == m \in Nat /\ f[0] = g[0] /\ \A n \in 1..m : f[n - 1] = g[n - 1] => f[n] = g[n]
LEMMA AlikeSame ==
  ASSUME NEW m, NEW f, NEW g, Alike(m, f, g)
  PROVE  \A n \in 0..m : f[n] = g[n]
<1> USE DEF Alike
<1> DEFINE T == {n \in Nat : n <= m => f[n] = g[n]}
<1>1. 0 \in T
  OBVIOUS
<1>2. ASSUME NEW n \in Nat, n \in T
      PROVE  n + 1 \in T
  <2> SUFFICES ASSUME n + 1 <= m  PROVE f[n + 1] = g[n + 1]
    OBVIOUS
  <2>1. n + 1 \in 1..m /\ (n + 1) - 1 = n /\ f[n] = g[n]
    BY <1>2
  <2> QED  BY <2>1
<1>3. Nat \subseteq T
  <2> HIDE DEF T
  <2> QED  BY <1>1, <1>2, SetInduction
<1> QED  BY <1>3

\* The data of a conversation.
TalkItems == [type : {"user", "system", "assistant", "reasoning", "call", "output"}, call : Int]
TalkMsgs  == [role : {"user", "system", "assistant", "tool", "results"}, calls : Seq(Int)]
Entries   == [id : Nat, input : Seq(TalkItems), output : Seq(TalkItems)]

\* What the entries of a store count together.
LEMMA TotalIs ==
  ASSUME NEW s \in Seq(Entries)
  PROVE  \E f : (\A n \in 0..Len(s) : f[n] \in Nat) /\
           f[0] = 0 /\ (\A n \in 1..Len(s) : f[n] = f[n - 1] + Talk!Bytes(s[n])) /\ Talk!Total(s) = f[Len(s)]
<1> DEFINE step == [x \in Nat \X Entries |-> x[1] + Talk!Bytes(x[2])]
           Is(g) == g = [n \in 0..Len(s) |-> IF n = 0 THEN 0 ELSE g[n - 1] + Talk!Bytes(s[n])]
           sum == CHOOSE g : Is(g)
<1>1. step \in [Nat \X Entries -> Nat] /\ \A n \in Nat, e \in Entries : step[<<n, e>>] = n + Talk!Bytes(e)
  <2>1. \A e \in Entries : Talk!Bytes(e) \in Nat
    BY DEF Talk!Bytes, Entries
  <2> QED  BY <2>1
<1> HIDE DEF step
<1>2. PICK f \in [0..Len(s) -> Nat] : f[0] = 0 /\ \A n \in 1..Len(s) : f[n] = step[<<f[n - 1], s[n]>>]
  <2>1. Foldable(Nat, Entries, 0, step, s)
    BY <1>1 DEF Foldable
  <2>2. \E f \in [0..Len(s) -> Nat] : Folded(0, step, s, f)
    BY <2>1, FoldExists
  <2> QED  BY <2>2 DEF Folded
<1>3. \A n \in 1..Len(s) : n - 1 \in 0..Len(s) /\ f[n - 1] \in Nat /\ s[n] \in Entries /\ f[n] = f[n - 1] + Talk!Bytes(s[n])
  <2> SUFFICES ASSUME NEW n \in 1..Len(s)
               PROVE  n - 1 \in 0..Len(s) /\ f[n - 1] \in Nat /\ s[n] \in Entries /\ f[n] = f[n - 1] + Talk!Bytes(s[n])
    OBVIOUS
  <2>1. n - 1 \in 0..Len(s) /\ s[n] \in Entries
    OBVIOUS
  <2>2. f[n - 1] \in Nat
    BY <2>1
  <2> QED  BY <1>1, <1>2, <2>1, <2>2
<1>4. Is(f)
  <2>1. f = [n \in 0..Len(s) |-> f[n]]
    OBVIOUS
  <2>2. \A n \in 0..Len(s) : f[n] = IF n = 0 THEN 0 ELSE f[n - 1] + Talk!Bytes(s[n])
    <3>1. \A n \in 0..Len(s) : n # 0 => n \in 1..Len(s)
      OBVIOUS
    <3> QED  BY <1>2, <1>3, <3>1
  <2> QED  BY <2>1, <2>2
<1>5. Is(sum)
  <2> HIDE DEF Is
  <2> QED  BY <1>4
<1>6. Talk!Total(s) = sum[Len(s)]
  BY DEF Talk!Total
<1> HIDE DEF sum
<1>7. sum[0] = 0 /\ \A n \in 1..Len(s) : sum[n] = sum[n - 1] + Talk!Bytes(s[n])
  <2>1. 0 \in 0..Len(s) /\ \A n \in 1..Len(s) : n \in 0..Len(s) /\ n # 0
    OBVIOUS
  <2> QED  BY <1>5, <2>1
<1>8. \A n \in 0..Len(s) : f[n] = sum[n]
  <2>1. f[0] = sum[0] /\ \A n \in 1..Len(s) : f[n - 1] = sum[n - 1] => f[n] = sum[n]
    BY <1>2, <1>3, <1>7
  <2>2. Alike(Len(s), f, sum)
    BY <2>1 DEF Alike
  <2> QED  BY <2>2, AlikeSame
<1>9. Talk!Total(s) = f[Len(s)]
  BY <1>6, <1>8
<1> QED  BY <1>2, <1>3, <1>9

LEMMA TotalNone == Talk!Total(<<>>) = 0
<1>1. <<>> \in Seq(Entries) /\ Len(<<>>) = 0
  OBVIOUS
<1> QED  BY <1>1, TotalIs

\* One entry more.
LEMMA TotalAppend ==
  ASSUME NEW s \in Seq(Entries), NEW e \in Entries
  PROVE  Talk!Total(Append(s, e)) = Talk!Total(s) + Talk!Bytes(e) /\ Talk!Total(s) \in Nat /\ Talk!Bytes(e) \in Nat
<1> DEFINE t == Append(s, e)
<1>0. PICK l : l = Len(s)
  OBVIOUS
<1>1. t \in Seq(Entries) /\ Len(t) = l + 1 /\ l \in Nat /\ t[l + 1] = e /\ \A n \in 1..l : t[n] = s[n]
  BY <1>0
<1>2. PICK f : (\A n \in 0..l : f[n] \in Nat) /\ f[0] = 0 /\ (\A n \in 1..l : f[n] = f[n - 1] + Talk!Bytes(s[n])) /\ Talk!Total(s) = f[l]
  BY <1>0, TotalIs
<1> HIDE DEF t
<1>3. PICK g : (\A n \in 0..Len(t) : g[n] \in Nat) /\ g[0] = 0 /\ (\A n \in 1..Len(t) : g[n] = g[n - 1] + Talk!Bytes(t[n])) /\ Talk!Total(t) = g[Len(t)]
  BY <1>1, TotalIs
<1>4. \A n \in 0..l : f[n] = g[n]
  <2>1. \A n \in 1..l : f[n - 1] = g[n - 1] => f[n] = g[n]
    <3>1. \A n \in 1..l : n \in 1..Len(t)
      BY <1>1
    <3> QED  BY <1>1, <1>2, <1>3, <3>1
  <2>2. Alike(l, f, g)
    BY <1>1, <1>2, <1>3, <2>1 DEF Alike
  <2> QED  BY <2>2, AlikeSame
<1>5. g[l + 1] = g[l] + Talk!Bytes(e) /\ g[l] = f[l] /\ f[l] \in Nat
  <2>1. l + 1 \in 1..Len(t) /\ (l + 1) - 1 = l /\ l \in 0..l
    BY <1>1
  <2> QED  BY <1>1, <1>2, <1>3, <1>4, <2>1
<1>6. Talk!Bytes(e) \in Nat
  BY DEF Talk!Bytes, Entries
<1> QED  BY <1>1, <1>2, <1>3, <1>5, <1>6 DEF t

\* The bytes of two stores, one after the other.
LEMMA TotalSplit ==
  ASSUME NEW a \in Seq(Entries), NEW b \in Seq(Entries)
  PROVE  Talk!Total(a \o b) = Talk!Total(a) + Talk!Total(b) /\ Talk!Total(a) \in Nat /\ Talk!Total(b) \in Nat
<1> DEFINE up(k) == SubSeq(b, 1, k)
           T == {k \in Nat : k <= Len(b) => Talk!Total(a \o up(k)) = Talk!Total(a) + Talk!Total(up(k)) /\ Talk!Total(up(k)) \in Nat}
<1>0. Talk!Total(a) \in Nat
  <2>1. PICK f : (\A n \in 0..Len(a) : f[n] \in Nat) /\ Talk!Total(a) = f[Len(a)]
    BY TotalIs
  <2> QED  BY <2>1
<1>1. /\ up(0) = <<>> /\ up(Len(b)) = b /\ a \o <<>> = a /\ Len(b) \in Nat
      /\ \A k \in Nat : k + 1 <= Len(b) => b[k + 1] \in Entries /\ up(k) \in Seq(Entries) /\ up(k + 1) = Append(up(k), b[k + 1])
  OBVIOUS
<1> HIDE DEF up
<1>2. 0 \in T
  <2>1. Talk!Total(up(0)) = 0 /\ Talk!Total(a \o up(0)) = Talk!Total(a)
    BY <1>1, TotalNone
  <2> QED  BY <1>0, <2>1
<1>3. ASSUME NEW k \in Nat, k \in T
      PROVE  k + 1 \in T
  <2> SUFFICES ASSUME k + 1 <= Len(b)
               PROVE  Talk!Total(a \o up(k + 1)) = Talk!Total(a) + Talk!Total(up(k + 1)) /\ Talk!Total(up(k + 1)) \in Nat
    OBVIOUS
  <2>1. PICK e : e = b[k + 1]
    OBVIOUS
  <2>2. PICK u : u = up(k)
    OBVIOUS
  <2>3. PICK v : v = a \o u
    OBVIOUS
  <2>4. e \in Entries /\ u \in Seq(Entries) /\ v \in Seq(Entries) /\ up(k + 1) = Append(u, e)
    BY <1>1, <2>1, <2>2, <2>3
  <2>5. a \o Append(u, e) = Append(v, e)
    BY <2>3, <2>4
  <2>6. Talk!Total(v) = Talk!Total(a) + Talk!Total(u) /\ Talk!Total(u) \in Nat
    <3>1. k <= Len(b)
      BY <1>1
    <3> QED  BY <1>3, <2>2, <2>3, <3>1
  <2>7. Talk!Total(Append(v, e)) = Talk!Total(v) + Talk!Bytes(e)
    BY <2>4, TotalAppend
  <2>8. Talk!Total(Append(u, e)) = Talk!Total(u) + Talk!Bytes(e) /\ Talk!Bytes(e) \in Nat
    BY <2>4, TotalAppend
  <2>9. PICK x, y, z, w : x = Talk!Total(a) /\ y = Talk!Total(u) /\ z = Talk!Bytes(e) /\ w = Talk!Total(Append(v, e))
    OBVIOUS
  <2>10. w = x + Talk!Total(Append(u, e)) /\ Talk!Total(Append(u, e)) \in Nat
    <3>1. PICK q : q = Talk!Total(Append(u, e))
      OBVIOUS
    <3>2. w = (x + y) + z /\ q = y + z
      BY <2>6, <2>7, <2>8, <2>9, <3>1, Zenon
    <3>3. x \in Nat /\ y \in Nat /\ z \in Nat
      BY <1>0, <2>6, <2>8, <2>9, Zenon
    <3>4. w = x + q /\ q \in Nat
      BY <3>2, <3>3
    <3> QED  BY <3>1, <3>4, Zenon
  <2> QED  BY <2>4, <2>5, <2>9, <2>10, Zenon
<1>4. Nat \subseteq T
  <2> HIDE DEF T
  <2> QED  BY <1>2, <1>3, SetInduction
<1>5. Len(b) \in Nat /\ Len(b) <= Len(b)
  OBVIOUS
<1>6. Len(b) \in T
  BY <1>4, <1>5, Zenon
<1>7. Talk!Total(a \o up(Len(b))) = Talk!Total(a) + Talk!Total(up(Len(b))) /\ Talk!Total(up(Len(b))) \in Nat
  BY <1>5, <1>6
<1>8. up(Len(b)) = b
  BY <1>1
<1> QED  BY <1>0, <1>7, <1>8

\* A store cut after its k-th entry.
LEMMA EntriesSplit ==
  ASSUME NEW s \in Seq(Entries), NEW k \in 0..Len(s)
  PROVE  /\ s = SubSeq(s, 1, k) \o SubSeq(s, k + 1, Len(s))
         /\ SubSeq(s, 1, k) \in Seq(Entries) /\ SubSeq(s, k + 1, Len(s)) \in Seq(Entries)
         /\ Len(SubSeq(s, 1, k)) = k /\ Len(SubSeq(s, k + 1, Len(s))) = Len(s) - k
         /\ \A n \in 1..Len(s) - k : SubSeq(s, k + 1, Len(s))[n] = s[k + n]
<1> DEFINE a == SubSeq(s, 1, k)
           b == SubSeq(s, k + 1, Len(s))
<1>1. a \in Seq(Entries) /\ b \in Seq(Entries)
  OBVIOUS
<1>2. Len(a) = k /\ Len(b) = Len(s) - k /\ k \in Nat /\ Len(s) \in Nat
  OBVIOUS
<1>3. /\ \A n \in 1..k : a[n] = s[n]
      /\ \A n \in 1..Len(s) - k : b[n] = s[k + n]
  OBVIOUS
<1> HIDE DEF a, b
<1>4. a \o b \in Seq(Entries) /\ Len(a \o b) = Len(s)
  <2>1. Len(a \o b) = k + (Len(s) - k)
    BY <1>1, <1>2
  <2>2. a \o b \in Seq(Entries)
    BY <1>1
  <2> QED  BY <1>2, <2>1, <2>2
<1>5. ASSUME NEW n \in 1..Len(s)
      PROVE  s[n] = (a \o b)[n]
  <2>1. CASE n <= k
    <3>1. n \in 1..Len(a) /\ a[n] = s[n]
      BY <1>2, <1>3, <2>1
    <3>2. (a \o b)[n] = a[n]
      BY <1>1, <1>2, <3>1
    <3> QED  BY <3>1, <3>2
  <2>2. CASE n > k
    <3>1. n - k \in 1..Len(b) /\ k + (n - k) = n /\ n \in k + 1..k + Len(b)
      BY <1>2, <1>3, <2>2
    <3>2. (a \o b)[n] = b[n - k]
      BY <1>1, <1>2, <3>1
    <3>3. b[n - k] = s[k + (n - k)]
      BY <1>2, <1>3, <3>1
    <3> QED  BY <3>1, <3>2, <3>3
  <2> QED  BY <1>2, <2>1, <2>2
<1>6. s = a \o b
  BY <1>4, <1>5, SameSeq
<1> QED  BY <1>1, <1>2, <1>3, <1>6, Zenon DEF a, b

\* The bytes that are left where the first k entries are evicted.
LEMMA TotalRest ==
  ASSUME NEW s \in Seq(Entries), NEW k \in 0..Len(s)
  PROVE  Talk!Total(SubSeq(s, k + 1, Len(s))) = Talk!Total(s) - Talk!Total(SubSeq(s, 1, k)) /\ Talk!Total(s) \in Nat
         /\ Talk!Total(SubSeq(s, 1, k)) \in Nat
<1> DEFINE a == SubSeq(s, 1, k)
           b == SubSeq(s, k + 1, Len(s))
<1>1. s = a \o b /\ a \in Seq(Entries) /\ b \in Seq(Entries)
  BY EntriesSplit
<1> HIDE DEF a, b
<1>2. Talk!Total(a \o b) = Talk!Total(a) + Talk!Total(b) /\ Talk!Total(a) \in Nat /\ Talk!Total(b) \in Nat
  BY <1>1, TotalSplit
<1>3. Talk!Total(b) = Talk!Total(s) - Talk!Total(a) /\ Talk!Total(s) \in Nat /\ Talk!Total(a) \in Nat
  BY <1>1, <1>2
<1> QED  BY <1>3 DEF a, b

\* An entry taken out of a store leaves the others, and their bytes.
LEMMA TotalRemoved ==
  ASSUME NEW s \in Seq(Entries), NEW k \in 1..Len(s)
  PROVE  LET t == Talk!RemoveAt(s, k)
         IN  /\ t \in Seq(Entries) /\ Len(t) = Len(s) - 1
             /\ Talk!Total(t) = Talk!Total(s) - Talk!Bytes(s[k]) /\ Talk!Bytes(s[k]) \in Nat
             /\ \A n \in 1..Len(t) : \E m \in 1..Len(s) : t[n] = s[m]
<1> DEFINE a == SubSeq(s, 1, k - 1)
           b == SubSeq(s, k + 1, Len(s))
           c == SubSeq(s, 1, k)
<1>1. Talk!RemoveAt(s, k) = a \o b
  BY DEF Talk!RemoveAt
<1>2. a \in Seq(Entries) /\ b \in Seq(Entries) /\ Len(a) = k - 1 /\ Len(b) = Len(s) - k /\ c = Append(a, s[k]) /\ s[k] \in Entries
  OBVIOUS
<1>3. (\A n \in 1..k - 1 : a[n] = s[n]) /\ \A n \in 1..Len(s) - k : b[n] = s[k + n]
  OBVIOUS
<1>4. Talk!Total(b) = Talk!Total(s) - Talk!Total(c) /\ Talk!Total(s) \in Nat
  BY TotalRest
<1> HIDE DEF a, b, c
<1>5. Talk!Total(c) = Talk!Total(a) + Talk!Bytes(s[k]) /\ Talk!Bytes(s[k]) \in Nat
  BY <1>2, TotalAppend
<1>6. Talk!Total(a \o b) = Talk!Total(a) + Talk!Total(b) /\ Talk!Total(a) \in Nat
  BY <1>2, TotalSplit
<1>7. a \o b \in Seq(Entries) /\ Len(a \o b) = Len(s) - 1
  BY <1>2
<1>8. ASSUME NEW n \in 1..Len(s) - 1
      PROVE  \E m \in 1..Len(s) : (a \o b)[n] = s[m]
  <2>1. CASE n \in 1..k - 1
    <3>1. (a \o b)[n] = a[n] /\ n \in 1..Len(s)
      BY <1>2, <2>1
    <3> QED  BY <1>3, <2>1, <3>1
  <2>2. CASE n \notin 1..k - 1
    <3>1. n - (k - 1) \in 1..Len(s) - k /\ (a \o b)[n] = b[n - (k - 1)] /\ k + (n - (k - 1)) = n + 1 /\ n + 1 \in 1..Len(s)
      BY <1>2, <2>2
    <3> QED  BY <1>3, <3>1
  <2> QED  BY <2>1, <2>2
<1>9. PICK t : t = a \o b
  OBVIOUS
<1>10. t \in Seq(Entries) /\ Len(t) = Len(s) - 1 /\ \A n \in 1..Len(t) : \E m \in 1..Len(s) : t[n] = s[m]
  BY <1>7, <1>8, <1>9
<1>11. Talk!Total(t) = Talk!Total(s) - Talk!Bytes(s[k])
  BY <1>4, <1>5, <1>6, <1>9
<1> QED  BY <1>1, <1>5, <1>9, <1>10, <1>11, Zenon

\* Messages of items, and of messages, are messages.
LEMMA ToldType == \A m \in Seq(TalkMsgs), i \in TalkItems : Talk!Told(m, i) \in Seq(TalkMsgs)
<1> SUFFICES ASSUME NEW m \in Seq(TalkMsgs), NEW i \in TalkItems
             PROVE  Talk!Told(m, i) \in Seq(TalkMsgs)
  OBVIOUS
<1>0. i.call \in Int /\ i.type \in {"user", "system", "assistant", "reasoning", "call", "output"} /\ <<>> \in Seq(Int) /\ <<i.call>> \in Seq(Int)
  BY DEF TalkItems
<1>1. \A r \in {"user", "system", "assistant", "tool", "results"}, c \in Seq(Int) : Talk!Msg(r, c) \in TalkMsgs
  BY DEF Talk!Msg, TalkMsgs
<1>2. \A x \in TalkMsgs : Append(m, x) \in Seq(TalkMsgs) /\ <<x>> \in Seq(TalkMsgs)
  OBVIOUS
<1>3. Talk!MergeCall(m, i.call) \in Seq(TalkMsgs)
  <2>1. CASE m # <<>> /\ Talk!Last(m).role = "assistant" /\ Talk!Last(m).calls # <<>>
    <3>1. Talk!Front(m) \in Seq(TalkMsgs)
      BY <2>1 DEF Talk!Front
    <3>2. Talk!Last(m) \in TalkMsgs
      BY <2>1 DEF Talk!Last
    <3>3. Append(Talk!Last(m).calls, i.call) \in Seq(Int)
      BY <1>0, <3>2 DEF TalkMsgs
    <3>4. Talk!MergeCall(m, i.call) = Talk!Front(m) \o <<Talk!Msg("assistant", Append(Talk!Last(m).calls, i.call))>>
      BY <2>1 DEF Talk!MergeCall
    <3>5. <<Talk!Msg("assistant", Append(Talk!Last(m).calls, i.call))>> \in Seq(TalkMsgs)
      BY <1>1, <1>2, <3>3
    <3> QED  BY <3>1, <3>4, <3>5
  <2>2. CASE ~(m # <<>> /\ Talk!Last(m).role = "assistant" /\ Talk!Last(m).calls # <<>>)
    <3>1. Talk!MergeCall(m, i.call) = Append(m, Talk!Msg("assistant", <<i.call>>))
      BY <2>2 DEF Talk!MergeCall
    <3> QED  BY <1>0, <1>1, <1>2, <3>1
  <2> QED  BY <2>1, <2>2
<1>4. CASE i.type = "call"
  BY <1>3, <1>4 DEF Talk!Told
<1>5. CASE i.type = "output"
  <2>1. Talk!Told(m, i) = Append(m, Talk!Msg("tool", <<i.call>>))
    BY <1>5 DEF Talk!Told
  <2> QED  BY <1>0, <1>1, <1>2, <2>1
<1>6. CASE i.type = "reasoning"
  BY <1>6 DEF Talk!Told
<1>7. CASE i.type \in {"user", "system", "assistant"}
  <2>1. Talk!Told(m, i) = Append(m, Talk!Msg(i.type, <<>>))
    BY <1>7 DEF Talk!Told
  <2> QED  BY <1>0, <1>1, <1>2, <1>7, <2>1
<1> QED  BY <1>0, <1>4, <1>5, <1>6, <1>7

LEMMA PassedType == \A m \in Seq(TalkMsgs), i \in TalkMsgs : Talk!Passed(m, i) \in Seq(TalkMsgs)
<1> SUFFICES ASSUME NEW m \in Seq(TalkMsgs), NEW i \in TalkMsgs
             PROVE  Talk!Passed(m, i) \in Seq(TalkMsgs)
  OBVIOUS
<1>0. i.calls \in Seq(Int)
  BY DEF TalkMsgs
<1>1. \A c \in Seq(Int) : Talk!Msg("results", c) \in TalkMsgs
  BY DEF Talk!Msg, TalkMsgs
<1>2. \A x \in TalkMsgs : Append(m, x) \in Seq(TalkMsgs) /\ <<x>> \in Seq(TalkMsgs)
  OBVIOUS
<1>3. CASE i.role = "system"
  BY <1>3 DEF Talk!Passed
<1>4. CASE i.role = "tool" /\ Talk!Joins(m)
  <2>1. m # <<>> /\ Talk!Passed(m, i) = Talk!Front(m) \o <<Talk!Msg("results", Talk!Last(m).calls \o i.calls)>>
    BY <1>4 DEF Talk!Passed, Talk!Joins
  <2>2. Talk!Front(m) \in Seq(TalkMsgs)
    BY <2>1 DEF Talk!Front
  <2>3. Talk!Last(m) \in TalkMsgs
    BY <2>1 DEF Talk!Last
  <2>4. Talk!Last(m).calls \o i.calls \in Seq(Int)
    BY <1>0, <2>3 DEF TalkMsgs
  <2>5. <<Talk!Msg("results", Talk!Last(m).calls \o i.calls)>> \in Seq(TalkMsgs)
    BY <1>1, <1>2, <2>4
  <2> QED  BY <2>1, <2>2, <2>5
<1>5. CASE i.role = "tool" /\ ~Talk!Joins(m)
  <2>1. Talk!Passed(m, i) = Append(m, Talk!Msg("results", i.calls))
    BY <1>5 DEF Talk!Passed
  <2> QED  BY <1>0, <1>1, <1>2, <2>1
<1>6. CASE i.role # "tool" /\ i.role # "system"
  <2>1. Talk!Passed(m, i) = Append(m, i)
    BY <1>6 DEF Talk!Passed
  <2> QED  BY <1>2, <2>1
<1> QED  BY <1>3, <1>4, <1>5, <1>6

\* The messages of items, one after the other.
LEMMA BuildIs ==
  ASSUME NEW s \in Seq(TalkItems)
  PROVE  \E f : (\A n \in 0..Len(s) : f[n] \in Seq(TalkMsgs)) /\
           f[0] = <<>> /\ (\A n \in 1..Len(s) : f[n] = Talk!Told(f[n - 1], s[n])) /\ Talk!Build(s) = f[Len(s)]
<1> DEFINE step == [x \in Seq(TalkMsgs) \X TalkItems |-> Talk!Told(x[1], x[2])]
           Is(g) == g = [n \in 0..Len(s) |-> IF n = 0 THEN <<>> ELSE Talk!Told(g[n - 1], s[n])]
           built == CHOOSE g : Is(g)
<1>1. step \in [Seq(TalkMsgs) \X TalkItems -> Seq(TalkMsgs)] /\ \A m \in Seq(TalkMsgs), i \in TalkItems : step[<<m, i>>] = Talk!Told(m, i)
  BY ToldType
<1> HIDE DEF step
<1>2. PICK f \in [0..Len(s) -> Seq(TalkMsgs)] : f[0] = <<>> /\ \A n \in 1..Len(s) : f[n] = step[<<f[n - 1], s[n]>>]
  <2>1. Foldable(Seq(TalkMsgs), TalkItems, <<>>, step, s)
    BY <1>1 DEF Foldable
  <2>2. \E f \in [0..Len(s) -> Seq(TalkMsgs)] : Folded(<<>>, step, s, f)
    BY <2>1, FoldExists
  <2> QED  BY <2>2 DEF Folded
<1>3. \A n \in 1..Len(s) : n - 1 \in 0..Len(s) /\ f[n - 1] \in Seq(TalkMsgs) /\ s[n] \in TalkItems /\ f[n] = Talk!Told(f[n - 1], s[n])
  <2> SUFFICES ASSUME NEW n \in 1..Len(s)
               PROVE  n - 1 \in 0..Len(s) /\ f[n - 1] \in Seq(TalkMsgs) /\ s[n] \in TalkItems /\ f[n] = Talk!Told(f[n - 1], s[n])
    OBVIOUS
  <2>1. n - 1 \in 0..Len(s) /\ s[n] \in TalkItems
    OBVIOUS
  <2>2. f[n - 1] \in Seq(TalkMsgs)
    BY <2>1
  <2>3. f[n] = step[<<f[n - 1], s[n]>>]
    BY <1>2
  <2> QED  BY <1>1, <2>1, <2>2, <2>3, Zenon
<1>4. Is(f)
  <2>1. f = [n \in 0..Len(s) |-> f[n]]
    OBVIOUS
  <2>2. \A n \in 0..Len(s) : f[n] = IF n = 0 THEN <<>> ELSE Talk!Told(f[n - 1], s[n])
    <3>1. \A n \in 0..Len(s) : n # 0 => n \in 1..Len(s)
      OBVIOUS
    <3> QED  BY <1>2, <1>3, <3>1
  <2> QED  BY <2>1, <2>2
<1>5. Is(built)
  <2> HIDE DEF Is
  <2> QED  BY <1>4
<1>6. Talk!Build(s) = built[Len(s)]
  BY DEF Talk!Build
<1> HIDE DEF built
<1>7. built[0] = <<>> /\ \A n \in 1..Len(s) : built[n] = Talk!Told(built[n - 1], s[n])
  <2>1. 0 \in 0..Len(s) /\ \A n \in 1..Len(s) : n \in 0..Len(s) /\ n # 0
    OBVIOUS
  <2> QED  BY <1>5, <2>1
<1>8. \A n \in 0..Len(s) : f[n] = built[n]
  <2>1. f[0] = built[0] /\ \A n \in 1..Len(s) : f[n - 1] = built[n - 1] => f[n] = built[n]
    BY <1>2, <1>3, <1>7
  <2>2. Alike(Len(s), f, built)
    BY <2>1 DEF Alike
  <2> QED  BY <2>2, AlikeSame
<1>9. Talk!Build(s) = f[Len(s)]
  BY <1>6, <1>8
<1>10. \A n \in 0..Len(s) : f[n] \in Seq(TalkMsgs)
  OBVIOUS
<1> QED  BY <1>2, <1>3, <1>9, <1>10

LEMMA BuildAppend ==
  ASSUME NEW s \in Seq(TalkItems), NEW i \in TalkItems
  PROVE  Talk!Build(Append(s, i)) = Talk!Told(Talk!Build(s), i) /\ Talk!Build(s) \in Seq(TalkMsgs)
<1> DEFINE t == Append(s, i)
<1>0. PICK l : l = Len(s)
  OBVIOUS
<1>1. t \in Seq(TalkItems) /\ Len(t) = l + 1 /\ l \in Nat /\ t[l + 1] = i /\ \A n \in 1..l : t[n] = s[n]
  BY <1>0
<1>2. PICK f : (\A n \in 0..l : f[n] \in Seq(TalkMsgs)) /\ f[0] = <<>> /\ (\A n \in 1..l : f[n] = Talk!Told(f[n - 1], s[n])) /\ Talk!Build(s) = f[l]
  BY <1>0, BuildIs
<1> HIDE DEF t
<1>3. PICK g : (\A n \in 0..Len(t) : g[n] \in Seq(TalkMsgs)) /\ g[0] = <<>> /\ (\A n \in 1..Len(t) : g[n] = Talk!Told(g[n - 1], t[n])) /\ Talk!Build(t) = g[Len(t)]
  BY <1>1, BuildIs
<1>4. \A n \in 0..l : f[n] = g[n]
  <2>1. \A n \in 1..l : f[n - 1] = g[n - 1] => f[n] = g[n]
    <3>1. \A n \in 1..l : n \in 1..Len(t)
      BY <1>1
    <3> QED  BY <1>1, <1>2, <1>3, <3>1
  <2>2. Alike(l, f, g)
    BY <1>1, <1>2, <1>3, <2>1 DEF Alike
  <2> QED  BY <2>2, AlikeSame
<1>5. g[l + 1] = Talk!Told(g[l], i) /\ g[l] = f[l] /\ f[l] \in Seq(TalkMsgs)
  <2>1. l + 1 \in 1..Len(t) /\ (l + 1) - 1 = l /\ l \in 0..l
    BY <1>1
  <2> QED  BY <1>1, <1>2, <1>3, <1>4, <2>1
<1> QED  BY <1>1, <1>2, <1>3, <1>5 DEF t

LEMMA BuildNone == Talk!Build(<<>>) = <<>>
<1>1. <<>> \in Seq(TalkItems) /\ Len(<<>>) = 0
  OBVIOUS
<1> QED  BY <1>1, BuildIs

\* What goes upstream of them.
LEMMA AnthropicIs ==
  ASSUME NEW s \in Seq(TalkMsgs)
  PROVE  \E f : (\A n \in 0..Len(s) : f[n] \in Seq(TalkMsgs)) /\
           f[0] = <<>> /\ (\A n \in 1..Len(s) : f[n] = Talk!Passed(f[n - 1], s[n])) /\ Talk!Anthropic(s) = f[Len(s)]
<1> DEFINE step == [x \in Seq(TalkMsgs) \X TalkMsgs |-> Talk!Passed(x[1], x[2])]
           Is(g) == g = [n \in 0..Len(s) |-> IF n = 0 THEN <<>> ELSE Talk!Passed(g[n - 1], s[n])]
           passed == CHOOSE g : Is(g)
<1>1. step \in [Seq(TalkMsgs) \X TalkMsgs -> Seq(TalkMsgs)] /\ \A m \in Seq(TalkMsgs), i \in TalkMsgs : step[<<m, i>>] = Talk!Passed(m, i)
  BY PassedType
<1> HIDE DEF step
<1>2. PICK f \in [0..Len(s) -> Seq(TalkMsgs)] : f[0] = <<>> /\ \A n \in 1..Len(s) : f[n] = step[<<f[n - 1], s[n]>>]
  <2>1. Foldable(Seq(TalkMsgs), TalkMsgs, <<>>, step, s)
    BY <1>1 DEF Foldable
  <2>2. \E f \in [0..Len(s) -> Seq(TalkMsgs)] : Folded(<<>>, step, s, f)
    BY <2>1, FoldExists
  <2> QED  BY <2>2 DEF Folded
<1>3. \A n \in 1..Len(s) : n - 1 \in 0..Len(s) /\ f[n - 1] \in Seq(TalkMsgs) /\ s[n] \in TalkMsgs /\ f[n] = Talk!Passed(f[n - 1], s[n])
  <2> SUFFICES ASSUME NEW n \in 1..Len(s)
               PROVE  n - 1 \in 0..Len(s) /\ f[n - 1] \in Seq(TalkMsgs) /\ s[n] \in TalkMsgs /\ f[n] = Talk!Passed(f[n - 1], s[n])
    OBVIOUS
  <2>1. n - 1 \in 0..Len(s) /\ s[n] \in TalkMsgs
    OBVIOUS
  <2>2. f[n - 1] \in Seq(TalkMsgs)
    BY <2>1
  <2>3. f[n] = step[<<f[n - 1], s[n]>>]
    BY <1>2
  <2> QED  BY <1>1, <2>1, <2>2, <2>3, Zenon
<1>4. Is(f)
  <2>1. f = [n \in 0..Len(s) |-> f[n]]
    OBVIOUS
  <2>2. \A n \in 0..Len(s) : f[n] = IF n = 0 THEN <<>> ELSE Talk!Passed(f[n - 1], s[n])
    <3>1. \A n \in 0..Len(s) : n # 0 => n \in 1..Len(s)
      OBVIOUS
    <3> QED  BY <1>2, <1>3, <3>1
  <2> QED  BY <2>1, <2>2
<1>5. Is(passed)
  <2> HIDE DEF Is
  <2> QED  BY <1>4
<1>6. Talk!Anthropic(s) = passed[Len(s)]
  BY DEF Talk!Anthropic
<1> HIDE DEF passed
<1>7. passed[0] = <<>> /\ \A n \in 1..Len(s) : passed[n] = Talk!Passed(passed[n - 1], s[n])
  <2>1. 0 \in 0..Len(s) /\ \A n \in 1..Len(s) : n \in 0..Len(s) /\ n # 0
    OBVIOUS
  <2> QED  BY <1>5, <2>1
<1>8. \A n \in 0..Len(s) : f[n] = passed[n]
  <2>1. f[0] = passed[0] /\ \A n \in 1..Len(s) : f[n - 1] = passed[n - 1] => f[n] = passed[n]
    BY <1>2, <1>3, <1>7
  <2>2. Alike(Len(s), f, passed)
    BY <2>1 DEF Alike
  <2> QED  BY <2>2, AlikeSame
<1>9. Talk!Anthropic(s) = f[Len(s)]
  BY <1>6, <1>8
<1>10. \A n \in 0..Len(s) : f[n] \in Seq(TalkMsgs)
  OBVIOUS
<1> QED  BY <1>2, <1>3, <1>9, <1>10

LEMMA AnthropicAppend ==
  ASSUME NEW s \in Seq(TalkMsgs), NEW i \in TalkMsgs
  PROVE  Talk!Anthropic(Append(s, i)) = Talk!Passed(Talk!Anthropic(s), i) /\ Talk!Anthropic(s) \in Seq(TalkMsgs)
<1> DEFINE t == Append(s, i)
<1>0. PICK l : l = Len(s)
  OBVIOUS
<1>1. t \in Seq(TalkMsgs) /\ Len(t) = l + 1 /\ l \in Nat /\ t[l + 1] = i /\ \A n \in 1..l : t[n] = s[n]
  BY <1>0
<1>2. PICK f : (\A n \in 0..l : f[n] \in Seq(TalkMsgs)) /\ f[0] = <<>> /\ (\A n \in 1..l : f[n] = Talk!Passed(f[n - 1], s[n])) /\ Talk!Anthropic(s) = f[l]
  BY <1>0, AnthropicIs
<1> HIDE DEF t
<1>3. PICK g : (\A n \in 0..Len(t) : g[n] \in Seq(TalkMsgs)) /\ g[0] = <<>> /\ (\A n \in 1..Len(t) : g[n] = Talk!Passed(g[n - 1], t[n])) /\ Talk!Anthropic(t) = g[Len(t)]
  BY <1>1, AnthropicIs
<1>4. \A n \in 0..l : f[n] = g[n]
  <2>1. \A n \in 1..l : f[n - 1] = g[n - 1] => f[n] = g[n]
    <3>1. \A n \in 1..l : n \in 1..Len(t)
      BY <1>1
    <3> QED  BY <1>1, <1>2, <1>3, <3>1
  <2>2. Alike(l, f, g)
    BY <1>1, <1>2, <1>3, <2>1 DEF Alike
  <2> QED  BY <2>2, AlikeSame
<1>5. g[l + 1] = Talk!Passed(g[l], i) /\ g[l] = f[l] /\ f[l] \in Seq(TalkMsgs)
  <2>1. l + 1 \in 1..Len(t) /\ (l + 1) - 1 = l /\ l \in 0..l
    BY <1>1
  <2> QED  BY <1>1, <1>2, <1>3, <1>4, <2>1
<1> QED  BY <1>1, <1>2, <1>3, <1>5 DEF t

LEMMA AnthropicNone == Talk!Anthropic(<<>>) = <<>>
<1>1. <<>> \in Seq(TalkMsgs) /\ Len(<<>>) = 0
  OBVIOUS
<1> QED  BY <1>1, AnthropicIs

\* A message with calls A, messages where every call is answered, messages whose last one
\* a call would not join; and three states of a history h: nothing is asked, the calls A
\* are asked, and R of them are answered.
Calling(m, A)      == m \in TalkMsgs /\ m.role = "assistant" /\ m.calls # <<>> /\ Talk!Range(m.calls) = A
Sound(M)           == M \in Seq(TalkMsgs) /\ Talk!Paired(M)
Loose(B)           == B # <<>> => ~(Talk!Last(B).role = "assistant" /\ Talk!Last(B).calls # <<>>)
Resting(h)         == Sound(Talk!Anthropic(Talk!Build(h))) /\ Loose(Talk!Build(h))
Asking(h, A)       == \E B \in Seq(TalkMsgs) : \E m : Calling(m, A) /\ Talk!Build(h) = Append(B, m) /\ Sound(Talk!Anthropic(B))
Replying(h, A, R)  == \E N, m, r : /\ Sound(N) /\ Calling(m, A) /\ r \in TalkMsgs /\ r.role = "results" /\ Talk!Range(r.calls) = R
                                   /\ Talk!Anthropic(Talk!Build(h)) = Append(Append(N, m), r) /\ Loose(Talk!Build(h))

\* The last of the messages, and another put in its place.
LEMMA LastOne ==
  ASSUME NEW M \in Seq(TalkMsgs), NEW m \in TalkMsgs, NEW x
  PROVE  LET t == Append(M, m)
         IN  t # <<>> /\ Talk!Last(t) = m /\ Talk!Front(t) \o <<x>> = Append(M, x) /\ t \in Seq(TalkMsgs)
<1> DEFINE t == Append(M, m)
<1>1. t # <<>> /\ t \in Seq(TalkMsgs) /\ Len(t) = Len(M) + 1 /\ t[Len(M) + 1] = m /\ \A n \in 1..Len(M) : t[n] = M[n]
  OBVIOUS
<1> HIDE DEF t
<1>2. Talk!Last(t) = m
  BY <1>1 DEF Talk!Last
<1>3. Talk!Front(t) = M
  <2>1. Talk!Front(t) = SubSeq(t, 1, Len(M))
    BY <1>1 DEF Talk!Front
  <2> QED  BY <1>1, <2>1
<1>4. M \o <<x>> = Append(M, x)
  OBVIOUS
<1> QED  BY <1>1, <1>2, <1>3, <1>4 DEF t

\* A message that asks for nothing and answers nothing.
LEMMA WholeOn ==
  ASSUME NEW M, Sound(M), NEW m \in TalkMsgs, m.role # "results", ~(m.role = "assistant" /\ m.calls # <<>>)
  PROVE  Sound(Append(M, m))
<1>0. PICK t : t = Append(M, m)
  OBVIOUS
<1>1. t \in Seq(TalkMsgs) /\ Len(t) = Len(M) + 1 /\ t[Len(M) + 1] = m /\ (\A n \in 1..Len(M) : t[n] = M[n]) /\ Len(M) \in Nat
  BY <1>0 DEF Sound
<1>2. ASSUME NEW n \in 1..Len(t), t[n].role = "assistant", t[n].calls # <<>>
      PROVE  n < Len(t) /\ t[n + 1].role = "results" /\ Talk!Range(t[n + 1].calls) = Talk!Range(t[n].calls)
  <2>1. n \in 1..Len(M) /\ t[n] = M[n]
    BY <1>1, <1>2
  <2>2. n < Len(M) /\ M[n + 1].role = "results" /\ Talk!Range(M[n + 1].calls) = Talk!Range(M[n].calls)
    BY <1>2, <2>1 DEF Sound, Talk!Paired
  <2>3. n + 1 \in 1..Len(M)
    BY <1>1, <2>1, <2>2
  <2> QED  BY <1>1, <2>1, <2>2, <2>3
<1>3. ASSUME NEW n \in 1..Len(t), t[n].role = "results"
      PROVE  n > 1 /\ t[n - 1].role = "assistant"
  <2>1. n \in 1..Len(M) /\ t[n] = M[n]
    BY <1>1, <1>3
  <2>2. n > 1 /\ M[n - 1].role = "assistant"
    BY <1>3, <2>1 DEF Sound, Talk!Paired
  <2>3. n - 1 \in 1..Len(M)
    BY <1>1, <2>1, <2>2
  <2> QED  BY <1>1, <2>2, <2>3
<1>4. Talk!Paired(t)
  BY <1>2, <1>3 DEF Talk!Paired
<1> QED  BY <1>0, <1>1, <1>4 DEF Sound

\* Calls with the results of all of them.
LEMMA WholeAgain ==
  ASSUME NEW M, Sound(M), NEW A, NEW m, Calling(m, A), NEW r \in TalkMsgs, r.role = "results", Talk!Range(r.calls) = A
  PROVE  Sound(Append(Append(M, m), r))
<1>0. PICK t : t = Append(Append(M, m), r)
  OBVIOUS
<1>1. t \in Seq(TalkMsgs) /\ Len(t) = Len(M) + 2 /\ t[Len(M) + 1] = m /\ t[Len(M) + 2] = r /\ (\A n \in 1..Len(M) : t[n] = M[n]) /\ Len(M) \in Nat
  BY <1>0 DEF Sound, Calling
<1>2. ASSUME NEW n \in 1..Len(t), t[n].role = "assistant", t[n].calls # <<>>
      PROVE  n < Len(t) /\ t[n + 1].role = "results" /\ Talk!Range(t[n + 1].calls) = Talk!Range(t[n].calls)
  <2>1. CASE n \in 1..Len(M)
    <3>1. n < Len(M) /\ M[n + 1].role = "results" /\ Talk!Range(M[n + 1].calls) = Talk!Range(M[n].calls)
      BY <1>1, <1>2, <2>1 DEF Sound, Talk!Paired
    <3>2. n + 1 \in 1..Len(M)
      BY <1>1, <2>1, <3>1
    <3> QED  BY <1>1, <2>1, <3>1, <3>2
  <2>2. CASE n = Len(M) + 1
    <3>1. n + 1 = Len(M) + 2 /\ n < Len(t)
      BY <1>1, <2>2
    <3> QED  BY <1>1, <2>2, <3>1 DEF Calling
  <2>3. CASE n = Len(M) + 2
    BY <1>1, <1>2, <2>3
  <2> QED  BY <1>1, <2>1, <2>2, <2>3
<1>3. ASSUME NEW n \in 1..Len(t), t[n].role = "results"
      PROVE  n > 1 /\ t[n - 1].role = "assistant"
  <2>1. CASE n \in 1..Len(M)
    <3>1. n > 1 /\ M[n - 1].role = "assistant"
      BY <1>1, <1>3, <2>1 DEF Sound, Talk!Paired
    <3>2. n - 1 \in 1..Len(M)
      BY <1>1, <2>1, <3>1
    <3> QED  BY <1>1, <2>1, <3>1, <3>2
  <2>2. CASE n = Len(M) + 1
    BY <1>1, <1>3, <2>2 DEF Calling
  <2>3. CASE n = Len(M) + 2
    <3>1. n - 1 = Len(M) + 1 /\ n > 1
      BY <1>1, <2>3
    <3> QED  BY <1>1, <3>1 DEF Calling
  <2> QED  BY <1>1, <2>1, <2>2, <2>3
<1>4. Talk!Paired(t)
  BY <1>2, <1>3 DEF Talk!Paired
<1> QED  BY <1>0, <1>1, <1>4 DEF Sound

\* An item that neither calls nor answers.
LEMMA WordsRest ==
  ASSUME NEW h \in Seq(TalkItems), Resting(h), NEW i \in TalkItems, i.type \in {"user", "system", "assistant", "reasoning"}
  PROVE  Resting(Append(h, i))
<1>1. PICK B : B = Talk!Build(h)
  OBVIOUS
<1>2. B \in Seq(TalkMsgs) /\ Talk!Build(Append(h, i)) = Talk!Told(B, i) /\ Sound(Talk!Anthropic(B)) /\ Loose(B)
  BY <1>1, BuildAppend DEF Resting
<1>3. CASE i.type = "reasoning"
  <2>1. Talk!Told(B, i) = B
    BY <1>3 DEF Talk!Told
  <2> QED  BY <1>2, <2>1 DEF Resting
<1>4. CASE i.type # "reasoning"
  <2>1. PICK m : m = Talk!Msg(i.type, <<>>)
    OBVIOUS
  <2>2. m \in TalkMsgs /\ m.role = i.type /\ m.calls = <<>>
    <3>1. <<>> \in Seq(Int)
      OBVIOUS
    <3> QED  BY <2>1, <3>1, <1>4 DEF Talk!Msg, TalkMsgs
  <2>3. Talk!Told(B, i) = Append(B, m)
    BY <1>4, <2>1 DEF Talk!Told
  <2>4. Talk!Last(Append(B, m)) = m /\ Talk!Anthropic(Append(B, m)) = Talk!Passed(Talk!Anthropic(B), m)
    BY <1>2, <2>2, LastOne, AnthropicAppend
  <2>5. Loose(Append(B, m))
    BY <2>2, <2>4 DEF Loose
  <2>6. CASE i.type = "system"
    <3>1. Talk!Passed(Talk!Anthropic(B), m) = Talk!Anthropic(B)
      BY <2>2, <2>6 DEF Talk!Passed
    <3> QED  BY <1>2, <2>3, <2>4, <2>5, <3>1 DEF Resting
  <2>7. CASE i.type # "system"
    <3>1. Talk!Passed(Talk!Anthropic(B), m) = Append(Talk!Anthropic(B), m)
      BY <1>4, <2>2, <2>7 DEF Talk!Passed
    <3>2. Sound(Append(Talk!Anthropic(B), m))
      <4>1. m.role # "results" /\ ~(m.role = "assistant" /\ m.calls # <<>>)
        BY <2>2
      <4> QED  BY <1>2, <2>2, <4>1, WholeOn
    <3> QED  BY <1>2, <2>3, <2>4, <2>5, <3>1, <3>2 DEF Resting
  <2> QED  BY <2>6, <2>7
<1> QED  BY <1>3, <1>4

\* A call that opens a message of its own.
LEMMA FirstCall ==
  ASSUME NEW h \in Seq(TalkItems), Resting(h), NEW i \in TalkItems, i.type = "call"
  PROVE  Asking(Append(h, i), {i.call})
<1>1. PICK B : B = Talk!Build(h)
  OBVIOUS
<1>2. B \in Seq(TalkMsgs) /\ Talk!Build(Append(h, i)) = Talk!Told(B, i) /\ Sound(Talk!Anthropic(B)) /\ Loose(B)
  BY <1>1, BuildAppend DEF Resting
<1>3. PICK m : m = Talk!Msg("assistant", <<i.call>>)
  OBVIOUS
<1>4. Calling(m, {i.call})
  <2>1. PICK c : c = <<i.call>>
    OBVIOUS
  <2>2. c \in Seq(Int) /\ c # <<>> /\ Talk!Range(c) = {i.call}
    BY <2>1 DEF TalkItems, Talk!Range
  <2>3. m \in TalkMsgs /\ m.role = "assistant" /\ m.calls = c
    BY <1>3, <2>1, <2>2 DEF Talk!Msg, TalkMsgs
  <2> QED  BY <2>2, <2>3 DEF Calling
<1>5. Talk!Told(B, i) = Append(B, m)
  <2>1. Talk!Told(B, i) = Talk!MergeCall(B, i.call)
    BY DEF Talk!Told
  <2>2. Talk!MergeCall(B, i.call) = Append(B, m)
    BY <1>2, <1>3 DEF Talk!MergeCall, Loose
  <2> QED  BY <2>1, <2>2
<1> QED  BY <1>2, <1>4, <1>5 DEF Asking

\* One call more in a message.
LEMMA RangeAppend ==
  ASSUME NEW d \in Seq(Int), NEW x \in Int
  PROVE  Talk!Range(Append(d, x)) = Talk!Range(d) \cup {x}
<1>1. PICK c : c = Append(d, x)
  OBVIOUS
<1>2. PICK n : n = Len(d) + 1
  OBVIOUS
<1>3. /\ \A k : k \in DOMAIN c <=> k \in DOMAIN d \/ k = n
      /\ \A k \in DOMAIN d : c[k] = d[k]
      /\ c[n] = x
  BY <1>1, <1>2
<1>4. Talk!Range(c) = Talk!Range(d) \cup {x}
  BY <1>3, ZenonT(30) DEF Talk!Range
<1> QED  BY <1>1, <1>4

\* A call that joins the message before it (mergeToolCallIntoAssistant).
LEMMA NextCall ==
  ASSUME NEW h \in Seq(TalkItems), NEW A, Asking(h, A), NEW i \in TalkItems, i.type = "call"
  PROVE  Asking(Append(h, i), A \cup {i.call})
<1>1. PICK B, m : B \in Seq(TalkMsgs) /\ Calling(m, A) /\ Talk!Build(h) = Append(B, m) /\ Sound(Talk!Anthropic(B))
  BY DEF Asking
<1>2. Talk!Build(Append(h, i)) = Talk!Told(Append(B, m), i)
  BY <1>1, BuildAppend
<1>3. PICK x : x = Talk!Msg("assistant", Append(m.calls, i.call))
  OBVIOUS
<1>4. Calling(x, A \cup {i.call})
  <2>1. PICK d, c : d = m.calls /\ c = Append(d, i.call)
    OBVIOUS
  <2>2. d \in Seq(Int) /\ i.call \in Int /\ Talk!Range(d) = A
    BY <1>1, <2>1 DEF Calling, TalkMsgs, TalkItems
  <2>3. c \in Seq(Int) /\ c # <<>>
    BY <2>1, <2>2
  <2>5. Talk!Range(c) = A \cup {i.call}
    BY <2>1, <2>2, RangeAppend
  <2>6. x \in TalkMsgs /\ x.role = "assistant" /\ x.calls = c
    BY <1>3, <2>1, <2>3 DEF Talk!Msg, TalkMsgs
  <2> QED  BY <2>3, <2>5, <2>6 DEF Calling
<1>5. Talk!Told(Append(B, m), i) = Append(B, x)
  <2>1. Append(B, m) # <<>> /\ Talk!Last(Append(B, m)) = m /\ Talk!Front(Append(B, m)) \o <<x>> = Append(B, x)
    BY <1>1, LastOne DEF Calling
  <2>2. Talk!Told(Append(B, m), i) = Talk!MergeCall(Append(B, m), i.call)
    BY DEF Talk!Told
  <2>3. m.role = "assistant" /\ m.calls # <<>>
    BY <1>1 DEF Calling
  <2>4. Talk!MergeCall(Append(B, m), i.call) = Talk!Front(Append(B, m)) \o <<x>>
    BY <1>3, <2>1, <2>3 DEF Talk!MergeCall
  <2> QED  BY <2>1, <2>2, <2>4
<1> QED  BY <1>1, <1>2, <1>4, <1>5 DEF Asking

\* The first result opens a message of results.
LEMMA FirstResult ==
  ASSUME NEW h \in Seq(TalkItems), NEW A, Asking(h, A), NEW i \in TalkItems, i.type = "output"
  PROVE  Replying(Append(h, i), A, {i.call})
<1>1. PICK B, m : B \in Seq(TalkMsgs) /\ Calling(m, A) /\ Talk!Build(h) = Append(B, m) /\ Sound(Talk!Anthropic(B))
  BY DEF Asking
<1>2. PICK C : C = Append(B, m)
  OBVIOUS
<1>3. PICK c : c = <<i.call>>
  OBVIOUS
<1>4. PICK x, r : x = Talk!Msg("tool", c) /\ r = Talk!Msg("results", c)
  OBVIOUS
<1>5. /\ x \in TalkMsgs /\ x.role = "tool" /\ x.calls = c
      /\ r \in TalkMsgs /\ r.role = "results" /\ r.calls = c /\ Talk!Range(c) = {i.call}
  <2>1. c \in Seq(Int) /\ Talk!Range(c) = {i.call}
    BY <1>3 DEF TalkItems, Talk!Range
  <2> QED  BY <1>4, <2>1 DEF Talk!Msg, TalkMsgs
<1>6. C \in Seq(TalkMsgs) /\ Talk!Build(Append(h, i)) = Append(C, x)
  <2>1. Talk!Build(Append(h, i)) = Talk!Told(C, i)
    BY <1>1, <1>2, BuildAppend
  <2>2. Talk!Told(C, i) = Append(C, x)
    BY <1>3, <1>4 DEF Talk!Told
  <2> QED  BY <1>1, <1>2, <2>1, <2>2 DEF Calling
<1>7. PICK N : N = Talk!Anthropic(B)
  OBVIOUS
<1>8. Talk!Anthropic(C) = Append(N, m)
  <2>1. Talk!Anthropic(C) = Talk!Passed(N, m)
    BY <1>1, <1>2, <1>7, AnthropicAppend DEF Calling
  <2>2. m.role = "assistant"
    BY <1>1 DEF Calling
  <2> QED  BY <2>1, <2>2 DEF Talk!Passed
<1>9. Talk!Anthropic(Append(C, x)) = Append(Append(N, m), r)
  <2>1. Talk!Anthropic(Append(C, x)) = Talk!Passed(Append(N, m), x)
    BY <1>5, <1>6, <1>8, AnthropicAppend
  <2>2. Talk!Last(Append(N, m)) = m /\ m.role = "assistant"
    BY <1>1, <1>7, LastOne DEF Calling, Sound
  <2>3. ~Talk!Joins(Append(N, m))
    BY <2>2 DEF Talk!Joins
  <2>4. Talk!Passed(Append(N, m), x) = Append(Append(N, m), r)
    BY <1>4, <1>5, <2>3 DEF Talk!Passed
  <2> QED  BY <2>1, <2>4
<1>10. Loose(Append(C, x))
  <2>1. Talk!Last(Append(C, x)) = x
    BY <1>5, <1>6, LastOne
  <2> QED  BY <1>5, <2>1 DEF Loose
<1>11. Sound(N)
  BY <1>1, <1>7
<1> QED  BY <1>1, <1>5, <1>6, <1>9, <1>10, <1>11 DEF Replying

\* A further one joins it.
LEMMA NextResult ==
  ASSUME NEW h \in Seq(TalkItems), NEW A, NEW R, Replying(h, A, R), NEW i \in TalkItems, i.type = "output"
  PROVE  Replying(Append(h, i), A, R \cup {i.call})
<1>1. PICK N, m, r : /\ Sound(N) /\ Calling(m, A) /\ r \in TalkMsgs /\ r.role = "results" /\ Talk!Range(r.calls) = R
                     /\ Talk!Anthropic(Talk!Build(h)) = Append(Append(N, m), r) /\ Loose(Talk!Build(h))
  BY DEF Replying
<1>2. PICK c, d, e : c = <<i.call>> /\ d = r.calls /\ e = d \o c
  OBVIOUS
<1>3. PICK x, y : x = Talk!Msg("tool", c) /\ y = Talk!Msg("results", e)
  OBVIOUS
<1>4. c \in Seq(Int) /\ d \in Seq(Int) /\ e \in Seq(Int) /\ Talk!Range(e) = R \cup {i.call}
  <2>1. c \in Seq(Int) /\ d \in Seq(Int) /\ i.call \in Int /\ Talk!Range(d) = R
    BY <1>1, <1>2 DEF TalkMsgs, TalkItems
  <2>2. e \in Seq(Int)
    BY <1>2, <2>1
  <2>3. e = Append(d, i.call)
    BY <1>2, <2>1, JoinOne
  <2>4. Talk!Range(e) = R \cup {i.call}
    BY <2>1, <2>3, RangeAppend
  <2> QED  BY <2>1, <2>2, <2>4
<1>5. /\ x \in TalkMsgs /\ x.role = "tool" /\ x.calls = c
      /\ y \in TalkMsgs /\ y.role = "results" /\ y.calls = e
  BY <1>3, <1>4 DEF Talk!Msg, TalkMsgs
<1>6. PICK B : B = Talk!Build(h)
  OBVIOUS
<1>7. B \in Seq(TalkMsgs) /\ Talk!Build(Append(h, i)) = Append(B, x)
  <2>1. B \in Seq(TalkMsgs) /\ Talk!Build(Append(h, i)) = Talk!Told(B, i)
    BY <1>6, BuildAppend
  <2>2. Talk!Told(B, i) = Append(B, x)
    BY <1>2, <1>3 DEF Talk!Told
  <2> QED  BY <2>1, <2>2
<1>8. PICK t : t = Append(N, m)
  OBVIOUS
<1>9. Talk!Anthropic(Append(B, x)) = Append(t, y)
  <2>1. Talk!Anthropic(Append(B, x)) = Talk!Passed(Append(t, r), x)
    BY <1>1, <1>5, <1>6, <1>7, <1>8, AnthropicAppend
  <2>2. t \in Seq(TalkMsgs)
    BY <1>1, <1>8 DEF Sound, Calling
  <2>3. Append(t, r) # <<>> /\ Talk!Last(Append(t, r)) = r /\ Talk!Front(Append(t, r)) \o <<y>> = Append(t, y)
    BY <1>1, <2>2, LastOne
  <2>4. Talk!Joins(Append(t, r))
    BY <1>1, <2>3 DEF Talk!Joins
  <2>5. Talk!Passed(Append(t, r), x) = Talk!Front(Append(t, r)) \o <<Talk!Msg("results", Talk!Last(Append(t, r)).calls \o x.calls)>>
    BY <1>5, <2>4 DEF Talk!Passed
  <2>6. Talk!Msg("results", Talk!Last(Append(t, r)).calls \o x.calls) = y
    BY <1>2, <1>3, <1>5, <2>3
  <2> QED  BY <2>1, <2>3, <2>5, <2>6
<1>10. Loose(Append(B, x))
  <2>1. Talk!Last(Append(B, x)) = x
    BY <1>5, <1>7, LastOne
  <2> QED  BY <1>5, <2>1 DEF Loose
<1> QED  BY <1>1, <1>4, <1>5, <1>7, <1>8, <1>9, <1>10 DEF Replying

\* A system message goes to the top: results join across it.
LEMMA SystemBetween ==
  ASSUME NEW h \in Seq(TalkItems), NEW A, NEW R, Replying(h, A, R), NEW i \in TalkItems, i.type = "system"
  PROVE  Replying(Append(h, i), A, R)
<1>1. PICK B, x : B = Talk!Build(h) /\ x = Talk!Msg("system", <<>>)
  OBVIOUS
<1>2. x \in TalkMsgs /\ x.role = "system"
  <2>1. <<>> \in Seq(Int)
    OBVIOUS
  <2> QED  BY <1>1, <2>1 DEF Talk!Msg, TalkMsgs
<1>3. B \in Seq(TalkMsgs) /\ Talk!Build(Append(h, i)) = Append(B, x)
  <2>1. B \in Seq(TalkMsgs) /\ Talk!Build(Append(h, i)) = Talk!Told(B, i)
    BY <1>1, BuildAppend
  <2>2. Talk!Told(B, i) = Append(B, x)
    BY <1>1 DEF Talk!Told
  <2> QED  BY <2>1, <2>2
<1>4. Talk!Anthropic(Append(B, x)) = Talk!Anthropic(B)
  <2>1. Talk!Anthropic(Append(B, x)) = Talk!Passed(Talk!Anthropic(B), x)
    BY <1>2, <1>3, AnthropicAppend
  <2> QED  BY <1>2, <2>1 DEF Talk!Passed
<1>5. Loose(Append(B, x))
  <2>1. Talk!Last(Append(B, x)) = x
    BY <1>2, <1>3, LastOne
  <2> QED  BY <1>2, <2>1 DEF Loose
<1> QED  BY <1>1, <1>3, <1>4, <1>5 DEF Replying

\* With the last result the conversation may go on.
LEMMA AllReplied ==
  ASSUME NEW h, NEW A, Replying(h, A, A)
  PROVE  Resting(h)
<1>1. PICK N, m, r : /\ Sound(N) /\ Calling(m, A) /\ r \in TalkMsgs /\ r.role = "results" /\ Talk!Range(r.calls) = A
                     /\ Talk!Anthropic(Talk!Build(h)) = Append(Append(N, m), r) /\ Loose(Talk!Build(h))
  BY DEF Replying
<1>2. Sound(Append(Append(N, m), r))
  BY <1>1, WholeAgain
<1> QED  BY <1>1, <1>2 DEF Resting

\* The state of history h after an answer o to it.
After(h, o) ==
  /\ o \in Seq(TalkItems) /\ IsFiniteSet(Talk!Asked(o)) /\ Talk!Asked(o) \subseteq Int
  /\ Talk!Asked(o) = {} => Resting(h \o o)
  /\ Talk!Asked(o) # {} => Asking(h \o o, Talk!Asked(o))

\* The calls of an answer, one item more.
LEMMA AskedOn ==
  ASSUME NEW s \in Seq(TalkItems), NEW i \in TalkItems
  PROVE  /\ i.type = "call" => Talk!Asked(Append(s, i)) = Talk!Asked(s) \cup {i.call}
         /\ i.type # "call" => Talk!Asked(Append(s, i)) = Talk!Asked(s)
<1>0. PICK t : t = Append(s, i)
  OBVIOUS
<1>1. Len(t) = Len(s) + 1 /\ t[Len(s) + 1] = i /\ (\A n \in 1..Len(s) : t[n] = s[n]) /\ Len(s) \in Nat
  BY <1>0
<1>2. /\ \A n \in 1..Len(t) : n \in 1..Len(s) \/ n = Len(s) + 1
      /\ 1..Len(s) \subseteq 1..Len(t) /\ Len(s) + 1 \in 1..Len(t)
  BY <1>1
<1>3. \A c : c \in Talk!Asked(t) <=> \E n \in 1..Len(t) : t[n].type = "call" /\ c = t[n].call
  BY DEF Talk!Asked
<1>4. \A c : c \in Talk!Asked(s) <=> \E n \in 1..Len(s) : s[n].type = "call" /\ c = s[n].call
  BY DEF Talk!Asked
<1>5. \A c : c \in Talk!Asked(t) <=> c \in Talk!Asked(s) \/ (i.type = "call" /\ c = i.call)
  <2>1. ASSUME NEW c, c \in Talk!Asked(t)
        PROVE  c \in Talk!Asked(s) \/ (i.type = "call" /\ c = i.call)
    <3>1. PICK n \in 1..Len(t) : t[n].type = "call" /\ c = t[n].call
      BY <1>3, <2>1
    <3> QED  BY <1>1, <1>2, <1>4, <3>1
  <2>2. ASSUME NEW c, c \in Talk!Asked(s)
        PROVE  c \in Talk!Asked(t)
    <3>1. PICK n \in 1..Len(s) : s[n].type = "call" /\ c = s[n].call
      BY <1>4, <2>2
    <3> QED  BY <1>1, <1>2, <1>3, <3>1
  <2>3. i.type = "call" => i.call \in Talk!Asked(t)
    BY <1>1, <1>2, <1>3
  <2> QED  BY <2>1, <2>2, <2>3
<1> HIDE DEF Talk!Asked
<1>6. i.type = "call" => Talk!Asked(t) = Talk!Asked(s) \cup {i.call}
  BY <1>5
<1>7. i.type # "call" => Talk!Asked(t) = Talk!Asked(s)
  BY <1>5
<1> QED  BY <1>0, <1>6, <1>7

LEMMA AfterNone ==
  ASSUME NEW h \in Seq(TalkItems), Resting(h)
  PROVE  After(h, <<>>) /\ Talk!Asked(<<>>) = {}
<1>1. Talk!Asked(<<>>) = {}
  <2>1. \A n : n \notin 1..Len(<<>>)
    OBVIOUS
  <2> QED  BY <2>1 DEF Talk!Asked
<1>2. h \o <<>> = h /\ <<>> \in Seq(TalkItems)
  OBVIOUS
<1> QED  BY <1>1, <1>2, FS_EmptySet DEF After

LEMMA AfterWord ==
  ASSUME NEW h \in Seq(TalkItems), NEW o, After(h, o), Talk!Asked(o) = {}, NEW i \in TalkItems, i.type \in {"reasoning", "assistant"}
  PROVE  After(h, Append(o, i)) /\ Talk!Asked(Append(o, i)) = {}
<1>1. o \in Seq(TalkItems) /\ Resting(h \o o)
  BY DEF After
<1>2. h \o o \in Seq(TalkItems) /\ h \o Append(o, i) = Append(h \o o, i) /\ Append(o, i) \in Seq(TalkItems)
  BY <1>1
<1>3. Talk!Asked(Append(o, i)) = {}
  <2>1. i.type # "call"
    OBVIOUS
  <2> QED  BY <1>1, <2>1, AskedOn
<1>4. Resting(Append(h \o o, i))
  BY <1>1, <1>2, WordsRest
<1> QED  BY <1>2, <1>3, <1>4, FS_EmptySet DEF After

LEMMA AfterCall ==
  ASSUME NEW h \in Seq(TalkItems), NEW o, After(h, o), NEW i \in TalkItems, i.type = "call"
  PROVE  After(h, Append(o, i))
<1>1. o \in Seq(TalkItems) /\ IsFiniteSet(Talk!Asked(o)) /\ Talk!Asked(o) \subseteq Int
  BY DEF After
<1>2. h \o o \in Seq(TalkItems) /\ h \o Append(o, i) = Append(h \o o, i) /\ Append(o, i) \in Seq(TalkItems)
  BY <1>1
<1>3. Talk!Asked(Append(o, i)) = Talk!Asked(o) \cup {i.call}
  BY <1>1, AskedOn
<1>4. i.call \in Int
  BY DEF TalkItems
<1>5. Asking(Append(h \o o, i), Talk!Asked(o) \cup {i.call})
  <2>1. CASE Talk!Asked(o) = {}
    <3>1. Asking(Append(h \o o, i), {i.call})
      BY <1>2, <2>1, FirstCall DEF After
    <3>2. Talk!Asked(o) \cup {i.call} = {i.call}
      BY <2>1
    <3> QED  BY <3>1, <3>2
  <2>2. CASE Talk!Asked(o) # {}
    <3>1. Asking(h \o o, Talk!Asked(o))
      BY <2>2 DEF After
    <3> QED  BY <1>2, <3>1, NextCall
  <2> QED  BY <2>1, <2>2
<1>6. IsFiniteSet(Talk!Asked(o) \cup {i.call})
  BY <1>1, FS_AddElement
<1> QED  BY <1>1, <1>2, <1>3, <1>4, <1>5, <1>6 DEF After

\* Whatever the answer is, its calls are what is asked.
LEMMA OutputsAfter ==
  ASSUME NEW h \in Seq(TalkItems), Resting(h), NEW id \in Nat, NEW o \in Talk!Outputs(id)
  PROVE  After(h, o)
<1>1. PICK r \in {<<>>, <<Talk!Item("reasoning", 0)>>}, m \in {<<>>, <<Talk!Item("assistant", 0)>>}, k \in 0..MaxCalls :
         o = r \o m \o Talk!Calls(id, k)
  <2>1. PICK X, Y, Z : X = {<<>>, <<Talk!Item("reasoning", 0)>>} /\ Y = {<<>>, <<Talk!Item("assistant", 0)>>} /\ Z = 0..MaxCalls
    OBVIOUS
  <2>2. Talk!Outputs(id) = {r \o m \o Talk!Calls(id, k) : r \in X, m \in Y, k \in Z} \ X
    BY <2>1 DEF Talk!Outputs
  <2>3. \E r \in X, m \in Y, k \in Z : o = r \o m \o Talk!Calls(id, k)
    BY <2>2
  <2> QED  BY <2>1, <2>3
<1>0. k \in Nat
  OBVIOUS
<1>2. \A i \in Int : \A t \in {"reasoning", "assistant", "call"} : Talk!Item(t, i) \in TalkItems /\ Talk!Item(t, i).type = t
  BY DEF Talk!Item, TalkItems
<1>3. PICK x, y : x = Talk!Item("reasoning", 0) /\ y = Talk!Item("assistant", 0)
  OBVIOUS
<1>4. x \in TalkItems /\ x.type = "reasoning" /\ y \in TalkItems /\ y.type = "assistant"
  BY <1>2, <1>3
<1>5. r \in Seq(TalkItems) /\ After(h, r) /\ Talk!Asked(r) = {}
  <2>1. CASE r = <<>>
    <3>1. <<>> \in Seq(TalkItems)
      OBVIOUS
    <3> QED  BY <2>1, <3>1, AfterNone
  <2>2. CASE r = <<x>>
    <3>1. r = Append(<<>>, x) /\ r \in Seq(TalkItems)
      BY <1>4, <2>2
    <3> QED  BY <1>4, <3>1, AfterNone, AfterWord
  <2> QED  BY <1>3, <2>1, <2>2
<1>6. PICK u : u = r \o m
  OBVIOUS
<1>7. u \in Seq(TalkItems) /\ After(h, u)
  <2>1. CASE m = <<>>
    <3>1. u = r
      BY <1>5, <1>6, <2>1
    <3> QED  BY <1>5, <3>1
  <2>2. CASE m = <<y>>
    <3>1. u = Append(r, y) /\ u \in Seq(TalkItems)
      BY <1>4, <1>5, <1>6, <2>2
    <3> QED  BY <1>4, <1>5, <3>1, AfterWord
  <2> QED  BY <1>3, <2>1, <2>2
<1> DEFINE T == {j \in Nat : After(h, u \o Talk!Calls(id, j))}
<1>8. 0 \in T
  <2>1. Talk!Calls(id, 0) = <<>>
    BY DEF Talk!Calls
  <2>2. u \o <<>> = u
    BY <1>7
  <2> QED  BY <1>7, <2>1, <2>2, Zenon
<1>9. ASSUME NEW j \in Nat, j \in T
      PROVE  j + 1 \in T
  <2>0. PICK v : v = Talk!Calls(id, j)
    OBVIOUS
  <2>1. PICK i, w : i = Talk!Item("call", 10 * id + (j + 1)) /\ w = u \o v
    OBVIOUS
  <2>2. i \in TalkItems /\ i.type = "call"
    <3>1. 10 * id + (j + 1) \in Int
      OBVIOUS
    <3> QED  BY <1>2, <2>1, <3>1
  <2>3. \A n \in 1..j + 1 : Talk!Item("call", 10 * id + n) \in TalkItems
    <3>1. \A n \in 1..j + 1 : 10 * id + n \in Int
      OBVIOUS
    <3> QED  BY <1>2, <3>1
  <2>4. PICK z : z = Talk!Calls(id, j + 1)
    OBVIOUS
  <2>5. v \in Seq(TalkItems) /\ Len(v) = j /\ \A n \in 1..j : v[n] = Talk!Item("call", 10 * id + n)
    BY <2>0, <2>3 DEF Talk!Calls
  <2>6. z \in Seq(TalkItems) /\ Len(z) = j + 1 /\ \A n \in 1..j + 1 : z[n] = Talk!Item("call", 10 * id + n)
    BY <2>3, <2>4 DEF Talk!Calls
  <2>7. z = Append(v, i)
    <3>1. Append(v, i) \in Seq(TalkItems) /\ Len(Append(v, i)) = j + 1 /\ Append(v, i)[j + 1] = i /\ \A n \in 1..j : Append(v, i)[n] = v[n]
      BY <2>2, <2>5
    <3>2. \A n \in 1..j + 1 : Append(v, i)[n] = z[n]
      <4>1. \A n \in 1..j + 1 : n \in 1..j \/ n = j + 1
        OBVIOUS
      <4>2. z[j + 1] = i
        BY <2>1, <2>6
      <4>3. \A n \in 1..j : z[n] = v[n]
        BY <2>5, <2>6
      <4> QED  BY <3>1, <4>1, <4>2, <4>3
    <3> QED  BY <2>6, <3>1, <3>2, SameSeq
  <2>8. u \o z = Append(w, i)
    BY <1>7, <2>1, <2>2, <2>5, <2>7
  <2>9. After(h, w)
    BY <1>9, <2>0, <2>1
  <2>10. After(h, Append(w, i))
    BY <2>2, <2>9, AfterCall
  <2>11. After(h, u \o Talk!Calls(id, j + 1))
    BY <2>4, <2>8, <2>10, Zenon
  <2> QED  BY <2>11
<1>10. Nat \subseteq T
  <2> HIDE DEF T
  <2> QED  BY <1>8, <1>9, SetInduction
<1>11. o = u \o Talk!Calls(id, k)
  BY <1>1, <1>6
<1> QED  BY <1>0, <1>10, <1>11

\* The calls that results d answer.
Given(d)    == {d[n].call : n \in 1..Len(d)}
Outcomes(d) == d \in Seq(TalkItems) /\ d # <<>> /\ \A n \in 1..Len(d) : d[n].type = "output"

\* The results that follow the first, one after the other.
LEMMA ResultsGo ==
  ASSUME NEW g \in Seq(TalkItems), NEW A, NEW d, Outcomes(d), Replying(g, A, {d[1].call})
  PROVE  Replying(g \o Tail(d), A, Given(d))
<1> USE DEF Outcomes
<1> DEFINE from(j) == SubSeq(d, 2, j + 1)
           calls(j) == {d[n].call : n \in 1..j}
           T == {j \in Nat : j + 1 <= Len(d) => Replying(g \o from(j), A, calls(j + 1))}
<1>1. /\ from(0) = <<>> /\ g \o <<>> = g /\ from(Len(d) - 1) = Tail(d) /\ Len(d) \in Nat /\ Len(d) - 1 \in Nat /\ Len(d) - 1 + 1 = Len(d)
      /\ \A j \in Nat : j + 2 <= Len(d) => d[j + 2] \in TalkItems /\ from(j) \in Seq(TalkItems) /\ from(j + 1) = Append(from(j), d[j + 2])
  OBVIOUS
<1>2. calls(1) = {d[1].call} /\ \A j \in Nat : calls(j + 2) = calls(j + 1) \cup {d[j + 2].call}
  <2>1. 1..1 = {1} /\ \A j \in Nat : 1..j + 2 = (1..j + 1) \cup {j + 2}
    OBVIOUS
  <2> QED  BY <2>1
<1> HIDE DEF from, calls
<1>3. 0 \in T
  <2>1. Replying(g \o from(0), A, calls(1))
    BY <1>1, <1>2
  <2>2. 0 + 1 = 1
    OBVIOUS
  <2> QED  BY <2>1, <2>2
<1>4. ASSUME NEW j \in Nat, j \in T
      PROVE  j + 1 \in T
  <2> SUFFICES ASSUME j + 1 + 1 <= Len(d)
               PROVE  Replying(g \o from(j + 1), A, calls(j + 1 + 1))
    OBVIOUS
  <2>1. PICK i, v : i = d[j + 2] /\ v = from(j)
    OBVIOUS
  <2>2. PICK w : w = g \o v
    OBVIOUS
  <2>3. i \in TalkItems /\ i.type = "output" /\ v \in Seq(TalkItems) /\ w \in Seq(TalkItems) /\ from(j + 1) = Append(v, i)
    <3>1. j + 2 \in 1..Len(d) /\ j + 2 <= Len(d)
      BY <1>1
    <3> QED  BY <1>1, <2>1, <2>2, <3>1
  <2>4. g \o Append(v, i) = Append(w, i)
    BY <2>2, <2>3
  <2>5. Replying(w, A, calls(j + 1))
    <3>1. j + 1 <= Len(d)
      BY <1>1
    <3> QED  BY <1>4, <2>1, <2>2, <3>1
  <2>6. Replying(Append(w, i), A, calls(j + 1) \cup {i.call})
    BY <2>3, <2>5, NextResult
  <2>7. calls(j + 1 + 1) = calls(j + 1) \cup {i.call}
    <3>1. j + 1 + 1 = j + 2
      OBVIOUS
    <3> QED  BY <1>2, <2>1, <3>1
  <2> QED  BY <2>3, <2>4, <2>6, <2>7, Zenon
<1>5. Nat \subseteq T
  <2> HIDE DEF T
  <2> QED  BY <1>3, <1>4, SetInduction
<1>6. Replying(g \o from(Len(d) - 1), A, calls(Len(d) - 1 + 1))
  <2>1. Len(d) - 1 \in T /\ Len(d) - 1 + 1 <= Len(d)
    BY <1>1, <1>5
  <2> QED  BY <2>1
<1>7. Replying(g \o Tail(d), A, calls(Len(d)))
  BY <1>1, <1>6
<1> QED  BY <1>7 DEF calls, Given

\* What a client says next ends what was asked of it.
LEMMA RepliesRest ==
  ASSUME NEW h \in Seq(TalkItems), NEW o, After(h, o), NEW new \in Talk!Replies(o)
  PROVE  new \in Seq(TalkItems) /\ Resting((h \o o) \o new)
<1>1. PICK g : g = h \o o
  OBVIOUS
<1>2. PICK u, s : u = Talk!Item("user", 0) /\ s = Talk!Item("system", 0)
  OBVIOUS
<1>3. u \in TalkItems /\ s \in TalkItems /\ u.type = "user" /\ s.type = "system"
  BY <1>2 DEF Talk!Item, TalkItems
<1>4. g \in Seq(TalkItems) /\ o \in Seq(TalkItems)
  BY <1>1 DEF After
<1>5. PICK asked : asked = Talk!Asked(o)
  OBVIOUS
<1>6. ASSUME asked = {}
      PROVE  new \in Seq(TalkItems) /\ Resting(g \o new)
  <2>1. Resting(g)
    BY <1>1, <1>5, <1>6 DEF After
  <2>2. new \in {<<u>>, <<s, u>>}
    BY <1>2, <1>5, <1>6 DEF Talk!Replies
  <2>3. CASE new = <<u>>
    <3>1. new \in Seq(TalkItems) /\ g \o new = Append(g, u)
      BY <1>3, <1>4, <2>3
    <3>2. Resting(Append(g, u))
      BY <1>3, <1>4, <2>1, WordsRest
    <3> QED  BY <3>1, <3>2
  <2>4. CASE new = <<s, u>>
    <3>1. new \in Seq(TalkItems) /\ g \o new = Append(Append(g, s), u) /\ Append(g, s) \in Seq(TalkItems)
      BY <1>3, <1>4, <2>4
    <3>2. Resting(Append(g, s))
      BY <1>3, <1>4, <2>1, WordsRest
    <3>3. Resting(Append(Append(g, s), u))
      BY <1>3, <3>1, <3>2, WordsRest
    <3> QED  BY <3>1, <3>3
  <2> QED  BY <2>2, <2>3, <2>4
<1>7. ASSUME asked # {}
      PROVE  new \in Seq(TalkItems) /\ Resting(g \o new)
  <2>1. Asking(g, asked) /\ IsFiniteSet(asked) /\ asked \subseteq Int
    BY <1>1, <1>5, <1>7 DEF After
  <2>2. PICK c : c = Cardinality(asked)
    OBVIOUS
  <2>3. c \in Nat /\ c >= 1
    <3>1. c \in Nat /\ c # 0
      BY <1>7, <2>1, <2>2, FS_CardinalityType, FS_EmptySet
    <3> QED  BY <3>1
  <2>d. PICK done : done = Talk!Results(asked)
    OBVIOUS
  <2>4. new \in done \cup {Append(d, u) : d \in done} \cup {<<d[1], s>> \o Tail(d) : d \in done}
    BY <1>2, <1>5, <1>7, <2>d DEF Talk!Replies
  <2>5. ASSUME NEW d \in done
        PROVE  Outcomes(d) /\ Given(d) = asked
    <3>1. PICK p \in [1..c -> asked] : Talk!Range(p) = asked /\ d = Talk!Returned(p)
      <4>1. Talk!Cardinality(asked) = c
        BY <2>2 DEF Talk!Cardinality, Cardinality
      <4> QED  BY <2>d, <4>1 DEF Talk!Results
    <3>2. \A n \in 1..c : p[n] \in asked /\ p[n] \in Int
      BY <2>1
    <3>3. \A n \in 1..c : d[n] = Talk!Item("output", p[n]) /\ d[n] \in TalkItems /\ d[n].type = "output" /\ d[n].call = p[n]
      <4>1. \A i \in Int : Talk!Item("output", i) \in TalkItems /\ Talk!Item("output", i).type = "output" /\ Talk!Item("output", i).call = i
        BY DEF Talk!Item, TalkItems
      <4> QED  BY <3>1, <3>2, <4>1 DEF Talk!Returned
    <3>4. d \in Seq(TalkItems) /\ Len(d) = c
      BY <2>3, <3>1, <3>3 DEF Talk!Returned
    <3>5. \A x : x \in asked <=> \E n \in 1..c : x = p[n]
      BY <3>1 DEF Talk!Range
    <3>6. Given(d) = asked
      BY <3>3, <3>4, <3>5 DEF Given
    <3>7. d # <<>>
      BY <2>3, <3>4
    <3> QED  BY <3>3, <3>4, <3>6, <3>7 DEF Outcomes
  <2>6. ASSUME NEW d \in done
        PROVE  /\ Resting(g \o d) /\ g \o d \in Seq(TalkItems)
               /\ <<d[1], s>> \o Tail(d) \in Seq(TalkItems) /\ Resting(g \o (<<d[1], s>> \o Tail(d)))
    <3>1. PICK x, t : x = d[1] /\ t = Tail(d)
      OBVIOUS
    <3>2. x \in TalkItems /\ x.type = "output" /\ t \in Seq(TalkItems)
      <4>1. 1 \in 1..Len(d)
        BY <2>5 DEF Outcomes
      <4> QED  BY <2>5, <3>1, <4>1 DEF Outcomes
    <3>3. Append(g, x) \in Seq(TalkItems) /\ Append(Append(g, x), s) \in Seq(TalkItems)
      BY <1>3, <1>4, <3>2
    <3>4. Replying(Append(g, x), asked, {x.call})
      BY <1>4, <2>1, <3>2, FirstResult
    <3>5. Replying(Append(Append(g, x), s), asked, {x.call})
      BY <1>3, <3>3, <3>4, SystemBetween
    <3>6. Replying(Append(g, x) \o t, asked, asked)
      BY <2>5, <3>1, <3>3, <3>4, ResultsGo
    <3>7. Replying(Append(Append(g, x), s) \o t, asked, asked)
      BY <2>5, <3>1, <3>3, <3>5, ResultsGo
    <3>8. Append(g, x) \o t = g \o d /\ g \o d \in Seq(TalkItems)
      <4>1. d = <<x>> \o t /\ <<x>> \in Seq(TalkItems)
        BY <2>5, <3>1, <3>2 DEF Outcomes
      <4>2. Append(g, x) = g \o <<x>>
        BY <1>4, <3>2
      <4>3. (g \o <<x>>) \o t = g \o (<<x>> \o t)
        <5>1. g \in Seq(TalkItems) /\ <<x>> \in Seq(TalkItems) /\ t \in Seq(TalkItems)
          BY <1>4, <3>2, <4>1
        <5> QED  BY <5>1, JoinsJoin
      <4>4. g \o d \in Seq(TalkItems)
        BY <1>4, <2>5 DEF Outcomes
      <4> QED  BY <4>1, <4>2, <4>3, <4>4, Zenon
    <3>9. Append(Append(g, x), s) \o t = g \o (<<x, s>> \o t) /\ <<x, s>> \o t \in Seq(TalkItems)
      <4>1. PICK y : y = <<x, s>>
        OBVIOUS
      <4>2. y \in Seq(TalkItems) /\ Append(Append(g, x), s) = g \o y
        BY <1>3, <1>4, <3>2, <4>1
      <4>3. (g \o y) \o t = g \o (y \o t)
        <5>1. g \in Seq(TalkItems) /\ y \in Seq(TalkItems) /\ t \in Seq(TalkItems)
          BY <1>4, <3>2, <4>2
        <5> QED  BY <5>1, JoinsJoin
      <4>4. y \o t \in Seq(TalkItems)
        BY <3>2, <4>2
      <4> QED  BY <4>1, <4>2, <4>3, <4>4
    <3> QED  BY <3>1, <3>6, <3>7, <3>8, <3>9, AllReplied
  <2>7. CASE new \in done
    BY <2>5, <2>6, <2>7 DEF Outcomes
  <2>8. CASE new \in {Append(d, u) : d \in done}
    <3>1. PICK d \in done : new = Append(d, u)
      BY <2>8
    <3>2. d \in Seq(TalkItems) /\ Resting(g \o d) /\ g \o d \in Seq(TalkItems)
      BY <2>5, <2>6 DEF Outcomes
    <3>3. new \in Seq(TalkItems) /\ g \o new = Append(g \o d, u)
      BY <1>3, <1>4, <3>1, <3>2
    <3> QED  BY <1>3, <3>2, <3>3, WordsRest
  <2>9. CASE new \in {<<d[1], s>> \o Tail(d) : d \in done}
    <3>1. PICK d \in done : new = <<d[1], s>> \o Tail(d)
      BY <2>9
    <3> QED  BY <2>6, <3>1
  <2> QED  BY <2>4, <2>7, <2>8, <2>9
<1> QED  BY <1>1, <1>6, <1>7

\* An entry of the store holds its whole conversation and no request waits for it; a
\* request that waits has all that was said before it, and no call of that is open.
Kept(e, ch, fl) ==
  /\ e \in Entries /\ e.id \in 1..Len(ch) /\ ch[e.id] = e.input \o e.output /\ After(e.input, e.output)
  /\ \A r \in fl : r.id # e.id
Waiting(r, ch) ==
  r \in [id : Nat, input : Seq(TalkItems)] /\ r.id \in 1..Len(ch) /\ r.input = ch[r.id] /\ Resting(r.input)
InBounds(s, b) == b = Talk!Total(s) /\ b <= MaxBytes /\ Len(s) <= MaxEntries

TalkInv ==
  /\ chain \in Seq(Seq(TalkItems)) /\ turns = Len(chain)
  /\ store \in Seq(Entries) /\ \A n \in 1..Len(store) : Kept(store[n], chain, flight)
  /\ \A r \in flight : Waiting(r, chain)
  /\ \A r, q \in flight : r.id = q.id => r = q
  /\ Talk!Paired(sent)
  /\ InBounds(store, bytes)

\* The oldest entries that go are enough for both bounds to hold.
LEMMA EvictedIs ==
  ASSUME NEW s \in Seq(Entries), NEW b, b = Talk!Total(s)
  PROVE  /\ Talk!Evicted(s, b) \in 0..Len(s)
         /\ Len(s) - Talk!Evicted(s, b) <= MaxEntries
         /\ b - Talk!Total(SubSeq(s, 1, Talk!Evicted(s, b))) <= MaxBytes
<1> DEFINE over(k) == Len(s) - k > MaxEntries \/ b - Talk!Total(SubSeq(s, 1, k)) > MaxBytes
           Ends(k) == (k = Len(s) \/ ~over(k)) /\ \A j \in 0..k - 1 : over(j)
           S == {k \in 0..Len(s) : k = Len(s) \/ ~over(k)}
<1>1. S \in SUBSET Nat /\ S # {}
  OBVIOUS
<1>2. PICK k \in S : \A y \in S : k <= y
  <2> HIDE DEF S
  <2> QED  BY <1>1, LeastOf
<1>3. k \in 0..Len(s) /\ Ends(k)
  <2>1. ASSUME NEW j \in 0..k - 1
        PROVE  over(j)
    <3>1. j \in 0..Len(s) /\ j # Len(s) /\ j \notin S
      BY <1>2
    <3> HIDE DEF over
    <3> QED  BY <3>1
  <2> QED  BY <1>2, <2>1
<1>4. PICK x : x = Talk!Evicted(s, b)
  OBVIOUS
<1>5. x \in 0..Len(s) /\ Ends(x)
  <2>1. x = CHOOSE j \in 0..Len(s) : Ends(j)
    BY <1>4 DEF Talk!Evicted
  <2> HIDE DEF Ends
  <2> QED  BY <1>3, <2>1
<1>6. PICK y, l : y = Talk!Total(SubSeq(s, 1, x)) /\ l = Len(s)
  OBVIOUS
<1>7. x = l \/ ~(l - x > MaxEntries \/ b - y > MaxBytes)
  BY <1>5, <1>6
<1>8. b \in Nat /\ y \in Nat /\ l \in Nat /\ x \in Nat /\ MaxEntries \in Nat /\ MaxBytes \in Nat
  BY <1>5, <1>6, TotalRest, TalkAssumption
<1>9. x = l => y = b
  <2> SUFFICES ASSUME x = Len(s)  PROVE y = b
    BY <1>6
  <2>1. SubSeq(s, 1, x) = s
    OBVIOUS
  <2> QED  BY <1>6, <2>1
<1>10. l - x <= MaxEntries /\ b - y <= MaxBytes
  BY <1>7, <1>8, <1>9
<1> QED  BY <1>4, <1>5, <1>6, <1>10

\* The entry of a response, and the store without it.
LEMMA FindIs ==
  ASSUME TalkInv, NEW id, Talk!Has(id)
  PROVE  LET e == store[Talk!Find(id)]
         IN  /\ e.id = id /\ Kept(e, chain, flight) /\ Talk!Bytes(e) \in Nat
             /\ Talk!Rest(id) \in Seq(Entries) /\ Len(Talk!Rest(id)) = Len(store) - 1
             /\ Talk!Total(Talk!Rest(id)) = bytes - Talk!Bytes(e)
             /\ \A n \in 1..Len(Talk!Rest(id)) : Kept(Talk!Rest(id)[n], chain, flight)
<1>1. PICK k : k = Talk!Find(id)
  OBVIOUS
<1>2. k \in 1..Len(store) /\ store[k].id = id
  BY <1>1 DEF Talk!Has, Talk!Find
<1>3. PICK t : t = Talk!RemoveAt(store, k)
  OBVIOUS
<1>4. Talk!Rest(id) = t
  BY <1>1, <1>3 DEF Talk!Rest
<1>5. store \in Seq(Entries) /\ bytes = Talk!Total(store) /\ \A n \in 1..Len(store) : Kept(store[n], chain, flight)
  BY DEF TalkInv, InBounds
<1>6. /\ t \in Seq(Entries) /\ Len(t) = Len(store) - 1
      /\ Talk!Total(t) = Talk!Total(store) - Talk!Bytes(store[k]) /\ Talk!Bytes(store[k]) \in Nat
      /\ \A n \in 1..Len(t) : \E m \in 1..Len(store) : t[n] = store[m]
  BY <1>2, <1>3, <1>5, TotalRemoved
<1>7. \A n \in 1..Len(t) : Kept(t[n], chain, flight)
  BY <1>5, <1>6
<1> QED  BY <1>1, <1>2, <1>4, <1>5, <1>6, <1>7

\* A request whose history asks for nothing more.
LEMMA AskKeeps ==
  ASSUME TalkInv, NEW h \in Seq(TalkItems), Resting(h), Talk!Ask(turns + 1, h, h),
         store' \in Seq(Entries), \A n \in 1..Len(store') : Kept(store'[n], chain, flight), InBounds(store', bytes')
  PROVE  TalkInv'
<1>1. PICK r, c, f : r = [id |-> turns + 1, input |-> h] /\ c = chain /\ f = flight
  OBVIOUS
<1>2. /\ c \in Seq(Seq(TalkItems)) /\ turns = Len(c) /\ Len(c) \in Nat
      /\ (\A q \in f : Waiting(q, c)) /\ \A p, q \in f : p.id = q.id => p = q
  BY <1>1 DEF TalkInv
<1>3. turns' = turns + 1 /\ flight' = f \cup {r} /\ sent' = Talk!Anthropic(Talk!Build(h)) /\ chain' = Append(c, h)
  BY <1>1 DEF Talk!Ask
<1>4. PICK d : d = Append(c, h)
  OBVIOUS
<1>5. d \in Seq(Seq(TalkItems)) /\ Len(d) = Len(c) + 1 /\ d[Len(c) + 1] = h /\ \A n \in 1..Len(c) : d[n] = c[n]
  BY <1>2, <1>4
<1>6. Waiting(r, d) /\ r.id = Len(c) + 1
  BY <1>1, <1>2, <1>5 DEF Waiting
<1>7. \A q \in f : Waiting(q, d) /\ q.id # Len(c) + 1
  <2> SUFFICES ASSUME NEW q \in f  PROVE Waiting(q, d) /\ q.id # Len(c) + 1
    OBVIOUS
  <2>1. Waiting(q, c)
    BY <1>2
  <2> QED  BY <1>2, <1>5, <2>1 DEF Waiting
<1>8. ASSUME NEW n \in 1..Len(store')
      PROVE  Kept(store'[n], d, f \cup {r})
  <2>1. PICK e : e = store'[n]
    OBVIOUS
  <2>2. Kept(e, c, f)
    BY <1>1, <2>1
  <2>3. e.id \in 1..Len(c) /\ e.id \in 1..Len(d) /\ d[e.id] = c[e.id] /\ r.id # e.id
    <3>1. PICK i : i = e.id
      OBVIOUS
    <3>2. i \in 1..Len(c)
      BY <2>2, <3>1 DEF Kept
    <3> QED  BY <1>2, <1>5, <1>6, <3>1, <3>2
  <2> QED  BY <2>1, <2>2, <2>3 DEF Kept
<1>9. Talk!Paired(Talk!Anthropic(Talk!Build(h)))
  BY DEF Resting, Sound
<1>10. \A p, q \in f \cup {r} : p.id = q.id => p = q
  BY <1>2, <1>6, <1>7
<1>11. turns' = Len(d) /\ chain' = d /\ flight' = f \cup {r}
  BY <1>2, <1>3, <1>4, <1>5
<1>12. chain' \in Seq(Seq(TalkItems)) /\ turns' = Len(chain') /\ Talk!Paired(sent)'
  BY <1>3, <1>5, <1>9, <1>11 DEF Talk!Paired
<1>13. \A n \in 1..Len(store') : Kept(store'[n], chain', flight')
  BY <1>8, <1>11
<1>14. (\A q \in flight' : Waiting(q, chain')) /\ \A p, q \in flight' : p.id = q.id => p = q
  BY <1>6, <1>7, <1>10, <1>11
<1> QED  BY <1>12, <1>13, <1>14 DEF TalkInv

LEMMA NothingRests == Resting(<<>>)
<1>1. <<>> \in Seq(TalkMsgs) /\ \A n : n \notin 1..Len(<<>>)
  OBVIOUS
<1>2. Talk!Paired(<<>>)
  BY <1>1 DEF Talk!Paired
<1> QED  BY <1>1, <1>2, BuildNone, AnthropicNone DEF Resting, Sound, Loose

LEMMA TalkInit == Talk!Init => TalkInv
<1> SUFFICES ASSUME Talk!Init  PROVE TalkInv
  OBVIOUS
<1>1. store = <<>> /\ bytes = 0 /\ turns = 0 /\ flight = {} /\ sent = <<>> /\ chain = <<>>
  BY DEF Talk!Init
<1>2. <<>> \in Seq(Entries) /\ <<>> \in Seq(Seq(TalkItems)) /\ Len(<<>>) = 0 /\ \A n : n \notin 1..Len(<<>>)
  OBVIOUS
<1>3. Talk!Paired(<<>>)
  BY <1>2 DEF Talk!Paired
<1>4. InBounds(<<>>, 0)
  BY <1>2, TotalNone, TalkAssumption DEF InBounds
<1> QED  BY <1>1, <1>2, <1>3, <1>4 DEF TalkInv

LEMMA BeginKeeps == ASSUME TalkInv, Talk!Begin PROVE TalkInv'
<1>1. PICK u, h : u = Talk!Item("user", 0) /\ h = <<u>>
  OBVIOUS
<1>2. u \in TalkItems /\ u.type = "user" /\ <<>> \in Seq(TalkItems)
  BY <1>1 DEF Talk!Item, TalkItems
<1>3. h \in Seq(TalkItems) /\ h = Append(<<>>, u)
  BY <1>1, <1>2
<1>4. Resting(Append(<<>>, u))
  BY <1>2, NothingRests, WordsRest
<1>5. Talk!Ask(turns + 1, h, h) /\ store' = store /\ bytes' = bytes
  BY <1>1 DEF Talk!Begin
<1>6. store' \in Seq(Entries) /\ (\A n \in 1..Len(store') : Kept(store'[n], chain, flight)) /\ InBounds(store', bytes')
  BY <1>5 DEF TalkInv
<1> QED  BY <1>3, <1>4, <1>5, <1>6, AskKeeps

LEMMA ContinueKeeps == ASSUME TalkInv, NEW prev, Talk!Continue(prev) PROVE TalkInv'
<1>1. Talk!Has(prev)
  BY DEF Talk!Continue
<1>2. PICK e, t : e = store[Talk!Find(prev)] /\ t = Talk!Rest(prev)
  OBVIOUS
<1>3. /\ e.id = prev /\ Kept(e, chain, flight) /\ Talk!Bytes(e) \in Nat
      /\ t \in Seq(Entries) /\ Len(t) = Len(store) - 1 /\ Talk!Total(t) = bytes - Talk!Bytes(e)
      /\ \A n \in 1..Len(t) : Kept(t[n], chain, flight)
  BY <1>1, <1>2, FindIs
<1>4. PICK new \in Talk!Replies(e.output) : Talk!Ask(turns + 1, e.input \o e.output \o new, chain[prev] \o new)
  BY <1>2 DEF Talk!Continue
<1>5. store' = Append(t, e) /\ bytes' = bytes
  BY <1>2 DEF Talk!Continue
<1>6. PICK h : h = e.input \o e.output \o new
  OBVIOUS
<1>7. e \in Entries /\ chain[prev] = e.input \o e.output /\ After(e.input, e.output)
  BY <1>3 DEF Kept
<1>8. h \in Seq(TalkItems) /\ Resting(h) /\ Talk!Ask(turns + 1, h, h)
  <2>1. e.input \in Seq(TalkItems) /\ e.output \in Seq(TalkItems)
    BY <1>7 DEF Entries
  <2>2. new \in Seq(TalkItems) /\ Resting((e.input \o e.output) \o new)
    BY <1>4, <1>7, <2>1, RepliesRest
  <2>3. h \in Seq(TalkItems)
    BY <1>6, <2>1, <2>2
  <2> QED  BY <1>4, <1>6, <1>7, <2>2, <2>3
<1>9. store' \in Seq(Entries) /\ \A n \in 1..Len(store') : Kept(store'[n], chain, flight)
  <2>1. PICK s : s = Append(t, e)
    OBVIOUS
  <2>2. s \in Seq(Entries) /\ Len(s) = Len(t) + 1 /\ s[Len(t) + 1] = e /\ (\A n \in 1..Len(t) : s[n] = t[n]) /\ Len(t) \in Nat
    BY <1>3, <1>7, <2>1
  <2>3. \A n \in 1..Len(s) : n \in 1..Len(t) \/ n = Len(t) + 1
    BY <2>2
  <2> QED  BY <1>3, <1>5, <2>1, <2>2, <2>3
<1>10. InBounds(store', bytes')
  <2>1. Talk!Total(Append(t, e)) = Talk!Total(t) + Talk!Bytes(e) /\ Talk!Total(t) \in Nat
    BY <1>3, <1>7, TotalAppend
  <2>2. Len(Append(t, e)) = Len(t) + 1 /\ store \in Seq(Entries)
    BY <1>3 DEF TalkInv
  <2>3. Talk!Total(store) \in Nat
    BY <2>2, TotalNone, TotalIs
  <2> QED  BY <1>3, <1>5, <2>1, <2>2, <2>3 DEF TalkInv, InBounds
<1> QED  BY <1>8, <1>9, <1>10, AskKeeps

LEMMA ExpiresKeeps == ASSUME TalkInv, NEW prev, Talk!Expires(prev) PROVE TalkInv'
<1>1. Talk!Has(prev)
  BY DEF Talk!Expires
<1>2. PICK e, t : e = store[Talk!Find(prev)] /\ t = Talk!Rest(prev)
  OBVIOUS
<1>3. /\ Talk!Bytes(e) \in Nat
      /\ t \in Seq(Entries) /\ Len(t) = Len(store) - 1 /\ Talk!Total(t) = bytes - Talk!Bytes(e)
      /\ \A n \in 1..Len(t) : Kept(t[n], chain, flight)
  BY <1>1, <1>2, FindIs
<1>4. store' = t /\ bytes' = bytes - Talk!Bytes(e) /\ UNCHANGED <<turns, flight, sent, chain>>
  BY <1>2 DEF Talk!Expires
<1>5. InBounds(t, bytes')
  <2>1. store \in Seq(Entries) /\ bytes = Talk!Total(store) /\ bytes <= MaxBytes /\ Len(store) <= MaxEntries
    BY DEF TalkInv, InBounds
  <2>2. bytes \in Nat /\ Len(store) \in Nat /\ MaxBytes \in Nat /\ MaxEntries \in Nat
    BY <2>1, TotalIs, TalkAssumption
  <2> QED  BY <1>3, <1>4, <2>1, <2>2 DEF InBounds
<1>6. Talk!Paired(sent)'
  BY <1>4 DEF TalkInv, Talk!Paired
<1> QED  BY <1>3, <1>4, <1>5, <1>6 DEF TalkInv

\* An entry of an id that the store does not have.
LEMMA PutKeeps ==
  ASSUME TalkInv, NEW e, Talk!Put(e), NEW ch, NEW fl, Kept(e, ch, fl), ~Talk!Has(e.id),
         \A n \in 1..Len(store) : Kept(store[n], ch, fl)
  PROVE  store' \in Seq(Entries) /\ (\A n \in 1..Len(store') : Kept(store'[n], ch, fl)) /\ InBounds(store', bytes')
<1>0. store \in Seq(Entries) /\ InBounds(store, bytes) /\ e \in Entries
  BY DEF TalkInv, Kept
<1>1. CASE Talk!Bytes(e) > MaxBytes
  BY <1>0, <1>1 DEF Talk!Put
<1>2. CASE ~(Talk!Bytes(e) > MaxBytes)
  <2>1. PICK s : s = Append(store, e)
    OBVIOUS
  <2>2. PICK b : b = bytes + Talk!Bytes(e)
    OBVIOUS
  <2>3. PICK k : k = Talk!Evicted(s, b)
    OBVIOUS
  <2>4. bytes = Talk!Total(store) /\ Talk!Total(store) \in Nat /\ Talk!Bytes(e) \in Nat /\ b = Talk!Total(s)
    BY <1>0, <2>1, <2>2, TotalAppend DEF InBounds
  <2>5. store' = SubSeq(s, k + 1, Len(s)) /\ bytes' = b - Talk!Total(SubSeq(s, 1, k))
    <3>1. Talk!Rest(e.id) = store
      BY DEF Talk!Rest
    <3>2. bytes - 0 + Talk!Bytes(e) = b
      BY <2>2, <2>4
    <3>3. LET n == bytes - 0 + Talk!Bytes(e)
              i == Talk!Evicted(s, n)
          IN  store' = SubSeq(s, i + 1, Len(s)) /\ bytes' = n - Talk!Total(SubSeq(s, 1, i))
      BY <1>2, <2>1, <3>1 DEF Talk!Put
    <3> QED  BY <2>3, <3>2, <3>3
  <2>6. s \in Seq(Entries) /\ Len(s) = Len(store) + 1 /\ s[Len(store) + 1] = e /\ (\A n \in 1..Len(store) : s[n] = store[n]) /\ Len(store) \in Nat
    BY <1>0, <2>1
  <2>7. \A n \in 1..Len(s) : Kept(s[n], ch, fl)
    <3>1. \A n \in 1..Len(s) : n \in 1..Len(store) \/ n = Len(store) + 1
      BY <2>6
    <3> QED  BY <2>6, <3>1
  <2>8. k \in 0..Len(s) /\ Len(s) - k <= MaxEntries /\ b - Talk!Total(SubSeq(s, 1, k)) <= MaxBytes
    BY <2>3, <2>4, <2>6, EvictedIs
  <2>9. PICK t : t = SubSeq(s, k + 1, Len(s))
    OBVIOUS
  <2>10. t \in Seq(Entries) /\ Len(t) = Len(s) - k /\ \A n \in 1..Len(s) - k : t[n] = s[k + n]
    BY <2>6, <2>8, <2>9, EntriesSplit
  <2>11. Talk!Total(t) = b - Talk!Total(SubSeq(s, 1, k))
    BY <2>4, <2>6, <2>8, <2>9, TotalRest
  <2>12. \A n \in 1..Len(t) : Kept(t[n], ch, fl)
    <3>1. \A n \in 1..Len(s) - k : k + n \in 1..Len(s)
      BY <2>6, <2>8
    <3> QED  BY <2>7, <2>10, <3>1
  <2> QED  BY <2>5, <2>8, <2>9, <2>10, <2>11, <2>12 DEF InBounds
<1> QED  BY <1>1, <1>2

LEMMA AnswerKeeps == ASSUME TalkInv, NEW r, Talk!Answer(r) PROVE TalkInv'
<1>1. r \in flight /\ flight' = flight \ {r} /\ UNCHANGED <<turns, sent>>
  BY DEF Talk!Answer
<1>2. Waiting(r, chain) /\ \A q \in flight \ {r} : q.id # r.id
  BY <1>1 DEF TalkInv
<1>3. Talk!Paired(sent)'
  BY <1>1 DEF TalkInv, Talk!Paired
<1>4. CASE UNCHANGED <<store, bytes, chain>>
  <2>1. \A n \in 1..Len(store) : Kept(store[n], chain, flight \ {r})
    <3> SUFFICES ASSUME NEW n \in 1..Len(store)  PROVE Kept(store[n], chain, flight \ {r})
      OBVIOUS
    <3>1. Kept(store[n], chain, flight)
      BY DEF TalkInv
    <3> QED  BY <3>1 DEF Kept
  <2> QED  BY <1>1, <1>3, <1>4, <2>1 DEF TalkInv
<1>5. ASSUME NEW o \in Talk!Outputs(r.id), Talk!Put(Talk!Stored(r, o)), chain' = [chain EXCEPT ![r.id] = @ \o o]
      PROVE  TalkInv'
  <2>1. PICK c, f : c = chain /\ f = flight \ {r}
    OBVIOUS
  <2>2. c \in Seq(Seq(TalkItems)) /\ turns = Len(c) /\ Len(c) \in Nat
    BY <2>1 DEF TalkInv
  <2>3. PICK id, h : id = r.id /\ h = r.input
    OBVIOUS
  <2>4. id \in Nat /\ id \in 1..Len(c) /\ h \in Seq(TalkItems) /\ h = c[id] /\ Resting(h)
    BY <1>2, <2>1, <2>3 DEF Waiting
  <2>5. After(h, o) /\ o \in Seq(TalkItems)
    BY <1>5, <2>3, <2>4, OutputsAfter DEF After
  <2>6. PICK d : d = [c EXCEPT ![id] = h \o o]
    OBVIOUS
  <2>7. d \in Seq(Seq(TalkItems)) /\ Len(d) = Len(c) /\ d[id] = h \o o /\ \A n \in 1..Len(c) : n # id => d[n] = c[n]
    <3>1. h \o o \in Seq(TalkItems)
      BY <2>4, <2>5
    <3> QED  BY <2>2, <2>4, <2>6, <3>1
  <2>8. chain' = d
    BY <1>5, <2>1, <2>3, <2>4, <2>6
  <2>9. PICK e : e = Talk!Stored(r, o)
    OBVIOUS
  <2>10. e \in Entries /\ e.id = id /\ e.input = h /\ e.output = o
    BY <2>3, <2>4, <2>5, <2>9 DEF Talk!Stored, Entries
  <2>11. Kept(e, d, f)
    <3>1. \A q \in f : q.id # id
      BY <1>2, <2>1, <2>3
    <3> QED  BY <2>4, <2>5, <2>7, <2>10, <3>1 DEF Kept
  <2>12. \A n \in 1..Len(store) : Kept(store[n], d, f) /\ store[n].id # id
    <3> SUFFICES ASSUME NEW n \in 1..Len(store)  PROVE Kept(store[n], d, f) /\ store[n].id # id
      OBVIOUS
    <3>1. PICK x : x = store[n]
      OBVIOUS
    <3>2. Kept(x, c, flight)
      BY <2>1, <3>1 DEF TalkInv
    <3>3. x.id # id /\ x.id \in 1..Len(d) /\ d[x.id] = c[x.id]
      BY <1>1, <2>3, <2>7, <3>2 DEF Kept
    <3> QED  BY <2>1, <3>1, <3>2, <3>3 DEF Kept
  <2>13. ~Talk!Has(e.id)
    BY <2>10, <2>12 DEF Talk!Has
  <2>14. store' \in Seq(Entries) /\ (\A n \in 1..Len(store') : Kept(store'[n], d, f)) /\ InBounds(store', bytes')
    BY <1>5, <2>9, <2>11, <2>12, <2>13, PutKeeps
  <2>15. \A q \in f : Waiting(q, d)
    <3> SUFFICES ASSUME NEW q \in f  PROVE Waiting(q, d)
      OBVIOUS
    <3>1. Waiting(q, c) /\ q.id # id
      BY <1>2, <2>1, <2>3 DEF TalkInv
    <3> QED  BY <2>7, <3>1 DEF Waiting
  <2>16. \A p, q \in f : p.id = q.id => p = q
    BY <2>1 DEF TalkInv
  <2> QED  BY <1>1, <1>3, <2>1, <2>2, <2>7, <2>8, <2>14, <2>15, <2>16 DEF TalkInv
<1> QED  BY <1>4, <1>5 DEF Talk!Answer

LEMMA TalkStep == TalkInv /\ [Talk!Next]_Talk!vars => TalkInv'
<1> SUFFICES ASSUME TalkInv, [Talk!Next]_Talk!vars  PROVE TalkInv'
  OBVIOUS
<1>1. CASE UNCHANGED Talk!vars
  BY <1>1 DEF Talk!vars, TalkInv, Talk!Paired
<1>2. CASE Talk!Begin
  BY <1>2, BeginKeeps
<1>3. ASSUME NEW p \in 1..turns, Talk!Continue(p) \/ Talk!Expires(p)
      PROVE  TalkInv'
  BY <1>3, ContinueKeeps, ExpiresKeeps
<1>4. ASSUME NEW r \in flight, Talk!Answer(r)
      PROVE  TalkInv'
  BY <1>4, AnswerKeeps
<1> QED  BY <1>1, <1>2, <1>3, <1>4 DEF Talk!Next

(***************************************************************************)
(* A request that continues a conversation carries all of it, with every   *)
(* call answered in the message that follows it, and the store of          *)
(* responses stays in its bounds: whatever entries were evicted, refreshed *)
(* or expired meanwhile, however many turns there were, and in whatever    *)
(* order a client answers the calls (responses/store.ts, handleResponses,  *)
(* buildMessagesFromItems, translateMessagesWithToolCoalescing).           *)
(***************************************************************************)
THEOREM ConversationTheorem == Spec => []ConversationIsWhole
<1>1. Init => TalkInv
  BY TalkInit DEF Init
<1>2. TalkInv /\ [Next]_vars => TalkInv'
  BY EachPart, TalkStep
<1>3. TalkInv => ConversationIsWhole
  <2>1. TalkInv => \A r \in flight : r.input = chain[r.id]
    BY DEF TalkInv, Waiting
  <2> QED  BY <2>1 DEF TalkInv, InBounds, ConversationIsWhole, Talk!ConversationIsWhole
<1> QED  BY <1>1, <1>2, <1>3, PTL DEF Spec, vars
=============================================================================
