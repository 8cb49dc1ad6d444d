------------------------------ MODULE BridgeProofs ------------------------------
(***************************************************************************)
(* Proofs about the bridge's link to the harness and the tools that change *)
(* settings, as MCBridge composes them: for every set of calls, questions, *)
(* clients and preferences, and any number of harness processes.           *)
(***************************************************************************)
EXTENDS MCBridge, TLAPS

vars == <<part, linkVars, toolVars, launchVars>>

\* A step of the composition is a step of each part or leaves it alone.
LEMMA EachPart ==
  [Next]_vars => [Link!Next]_Link!vars /\ [Tools!Next]_Tools!vars
BY DEF Next, vars, linkVars, toolVars, Link!vars, Tools!vars

(***************************************************************************)
(* The link: HarnessLink.                                                  *)
(***************************************************************************)
ConnOrNone == 0..MaxConns
Connection == [child : {"none", "up", "closing", "gone"}, exited : BOOLEAN]

\* What is known of connections, and which of them a call and the manager may name.
LinkInv ==
  /\ conn \in [Link!Conn -> Connection]
  /\ made \in ConnOrNone /\ current \in ConnOrNone
  /\ DOMAIN task = Link!Conn

LEMMA LinkInit == Link!Init => LinkInv
BY ConnsAssumption DEF Link!Init, LinkInv, ConnOrNone, Connection

\* Whatever becomes of a connection, it stays one.
LEMMA ConnChanges ==
  ASSUME LinkInv, NEW i \in Link!Conn
  PROVE  /\ [conn EXCEPT ![i] = [child |-> "closing", exited |-> TRUE]] \in [Link!Conn -> Connection]
         /\ [conn EXCEPT ![i] = [child |-> "gone", exited |-> TRUE]] \in [Link!Conn -> Connection]
         /\ [conn EXCEPT ![i].child = "up"] \in [Link!Conn -> Connection]
<1>1. \A child \in {"closing", "gone"} : [child |-> child, exited |-> TRUE] \in Connection
  BY DEF Connection
<1>2. [conn[i] EXCEPT !.child = "up"] \in Connection
  BY DEF LinkInv, Connection
<1> QED  BY <1>1, <1>2 DEF LinkInv

LEMMA StopsConn ==
  ASSUME LinkInv, NEW extra, Link!Stops(current, extra)
  PROVE  conn' \in [Link!Conn -> Connection]
<1>1. CASE current \in Link!Conn
  <2>1. conn' = [conn EXCEPT ![current] = [child |-> "closing", exited |-> TRUE]] \/ conn' = conn
    BY DEF Link!Stops
  <2>2. [conn EXCEPT ![current] = [child |-> "closing", exited |-> TRUE]] \in [Link!Conn -> Connection]
    BY <1>1, ConnChanges
  <2> QED  BY <2>1, <2>2 DEF LinkInv
<1>2. CASE current \notin Link!Conn
  BY <1>2 DEF Link!Stops, LinkInv
<1> QED  BY <1>1, <1>2

\* A step keeps what is known.
LEMMA LinkStep ==
  ASSUME LinkInv, [Link!Next]_Link!vars
  PROVE  LinkInv'
<1> USE DEF LinkInv, ConnOrNone
<1>1. CASE UNCHANGED Link!vars
  BY <1>1 DEF Link!vars
<1>2. ASSUME NEW c \in Call, Link!Begins(c)
      PROVE  LinkInv'
  <2>1. CASE UNCHANGED <<conn, made, current, task>>
    BY <2>1
  <2>2. CASE made < MaxConns /\ made' = made + 1 /\ current' = made' /\ UNCHANGED task
    <3>1. made' \in Link!Conn
      BY <2>2, ConnsAssumption DEF Link!Conn
    <3>2. \/ conn' = conn
          \/ conn' = [conn EXCEPT ![made'].child = "up"]
          \/ conn' = [conn EXCEPT ![made'] = [child |-> "gone", exited |-> TRUE]]
      BY <1>2 DEF Link!Begins
    <3>3. /\ [conn EXCEPT ![made'].child = "up"] \in [Link!Conn -> Connection]
          /\ [conn EXCEPT ![made'] = [child |-> "gone", exited |-> TRUE]] \in [Link!Conn -> Connection]
      BY <3>1, ConnChanges
    <3>4. conn' \in [Link!Conn -> Connection]
      BY <3>2, <3>3
    <3> QED  BY <2>2, <3>1, <3>4 DEF Link!Conn
  <2> QED  BY <1>2, <2>1, <2>2 DEF Link!Begins
<1>3. ASSUME NEW c \in Call, Link!GraceEnds(c) \/ Link!Answered(c)
      PROVE  LinkInv'
  BY <1>3 DEF Link!GraceEnds, Link!Answered
<1>4. ASSUME NEW c \in Call, Link!TimesOut(c)
      PROVE  LinkInv'
  <2>1. CASE call[c].conn = current
    BY <1>4, <2>1, StopsConn, ConnsAssumption DEF Link!TimesOut, Link!Interrupted
  <2>2. CASE call[c].conn # current
    BY <1>4, <2>2 DEF Link!TimesOut
  <2> QED  BY <2>1, <2>2
<1>5. ASSUME NEW i \in Link!Conn, Link!TaskEnds(i) \/ Link!Exits(i)
      PROVE  LinkInv'
  <2>1. CASE Link!TaskEnds(i)
    BY <2>1 DEF Link!TaskEnds
  <2>2. CASE Link!Exits(i)
    <3>1. conn' \in [Link!Conn -> Connection]
      BY <2>2, ConnChanges DEF Link!Exits
    <3> QED  BY <2>2, <3>1, ConnsAssumption DEF Link!Exits, Link!Interrupted
  <2> QED  BY <1>5, <2>1, <2>2
<1>6. ASSUME NEW i \in Link!Conn, NEW x \in Question, Link!Asks(x, i)
      PROVE  LinkInv'
  BY <1>6 DEF Link!Asks, Link!Replies, Link!Unattributed, Link!Relayed
<1>7. ASSUME NEW x \in Question, NEW choice \in {"allow", "deny", "expired"}, Link!Decided(x, choice)
      PROVE  LinkInv'
  BY <1>7 DEF Link!Decided
<1>8. CASE Link!Shutdown
  <2>1. conn' \in [Link!Conn -> Connection]
    BY <1>8, StopsConn DEF Link!Shutdown
  <2> QED  BY <1>8, <2>1, ConnsAssumption DEF Link!Shutdown, Link!Interrupted
<1> QED
  BY <1>1, <1>2, <1>3, <1>4, <1>5, <1>6, <1>7, <1>8 DEF Link!Next

\* The work of the current harness is interrupted only as its connection is given up.
LEMMA LinkUndisturbed ==
  ASSUME LinkInv, [Link!Next]_Link!vars, NEW i \in Link!Conn, Link!Running(i), i = current,
         task[i] \in Link!Active, task'[i] = "interrupted"
  PROVE  current' = 0 /\ ~Link!Running(i)'
<1> USE DEF LinkInv, Link!Active
<1>0. i # 0
  BY DEF Link!Conn
<1>1. CASE UNCHANGED task
  BY <1>1
<1>2. ASSUME NEW c \in Call, Link!Answered(c)
      PROVE  FALSE
  BY <1>2 DEF Link!Answered
<1>3. ASSUME NEW c \in Call, Link!TimesOut(c)
      PROVE  current' = 0 /\ ~Link!Running(i)'
  BY <1>0, <1>1, <1>3 DEF Link!TimesOut, Link!Stops, Link!Running
<1>4. ASSUME NEW j \in Link!Conn, Link!TaskEnds(j)
      PROVE  FALSE
  BY <1>4 DEF Link!TaskEnds
<1>5. ASSUME NEW j \in Link!Conn, Link!Exits(j)
      PROVE  current' = 0 /\ ~Link!Running(i)'
  BY <1>0, <1>1, <1>5 DEF Link!Exits, Link!Loses, Link!Running
<1>6. ASSUME NEW j \in Link!Conn, NEW x \in Question, Link!Asks(x, j)
      PROVE  FALSE
  BY <1>6 DEF Link!Asks, Link!Replies, Link!Unattributed, Link!Relayed
<1>7. ASSUME NEW x \in Question, NEW choice \in {"allow", "deny", "expired"}, Link!Decided(x, choice)
      PROVE  FALSE
  BY <1>7 DEF Link!Decided
<1>8. CASE Link!Shutdown
  BY <1>0, <1>8 DEF Link!Shutdown, Link!Stops, Link!Running
<1>9. ASSUME NEW c \in Call, Link!Begins(c) \/ Link!GraceEnds(c)
      PROVE  UNCHANGED task
  BY <1>9 DEF Link!Begins, Link!GraceEnds
<1> QED
  BY <1>1, <1>2, <1>3, <1>4, <1>5, <1>6, <1>7, <1>8, <1>9 DEF Link!Next, Link!vars

(***************************************************************************)
(* The end of a harness that was already given up never interrupts the     *)
(* work of its successor, nor makes the bridge lose it (onExit's           *)
(* comparison, the timer of a call, shutdown).                             *)
(***************************************************************************)
THEOREM SuccessorTheorem == Spec => SuccessorUndisturbed
<1>1. Init => LinkInv
  BY LinkInit DEF Init
<1>2. LinkInv /\ [Next]_vars => LinkInv'
  BY EachPart, LinkStep
<1>3. LinkInv /\ [Next]_vars
      => [\A i \in Link!Conn : Link!Running(i) /\ i = current /\ task[i] \in Link!Active /\ task'[i] = "interrupted"
            => current' = 0 /\ ~Link!Running(i)']_Link!vars
  BY EachPart, LinkUndisturbed
<1> QED  BY <1>1, <1>2, <1>3, PTL DEF Spec, vars, SuccessorUndisturbed, Link!SuccessorUndisturbed

(***************************************************************************)
(* The tools: SessionSettings.                                             *)
(***************************************************************************)
Setting == Pref \cup {"model", "mode"}
Operation ==
  [at : {"idle", "set", "update", "catalog", "close"}, todo : Seq(Setting), rev : Nat \cup {None}, guarded : BOOLEAN,
   base : Nat, done : Nat]

\* The revision that guards the next setter is the one the caller read, plus its own
\* setters since.
Guards(o) == o.guarded => o.rev = o.base + o.done
ToolsInv == session \in Nat /\ op \in [Client -> Operation] /\ \A c \in Client : Guards(op[c])

\* The operation of one client is replaced by one that is guarded as it should be.
LEMMA Replaced ==
  ASSUME ToolsInv, NEW c \in Client, NEW o \in Operation, Guards(o), op' = [op EXCEPT ![c] = o], session' \in Nat
  PROVE  ToolsInv'
BY DEF ToolsInv

LEMMA IdleIsGuarded == Tools!Idle \in Operation /\ Guards(Tools!Idle)
BY DEF Tools!Idle, Operation, Guards

LEMMA ShortSeq ==
  ASSUME NEW S, NEW a \in S, NEW b \in S
  PROVE  <<a>> \in Seq(S) /\ <<a, b>> \in Seq(S)
OBVIOUS

LEMMA ToolsInit == Tools!Init => ToolsInv
BY IdleIsGuarded DEF Tools!Init, ToolsInv

\* A step keeps operations guarded.
LEMMA ToolsStep ==
  ASSUME ToolsInv, [Tools!Next]_Tools!vars
  PROVE  ToolsInv'
<1>1. CASE UNCHANGED Tools!vars
  BY <1>1 DEF Tools!vars, ToolsInv, Guards
<1>2. ASSUME NEW c \in Client, Tools!Ends(c), session' \in Nat
      PROVE  ToolsInv'
  BY <1>2, IdleIsGuarded, Replaced DEF Tools!Ends
<1>3. ASSUME NEW c \in Client, NEW todo \in {<<"model">>, <<"mode">>, <<"model", "mode">>}, NEW guarded \in BOOLEAN,
             Tools!ModelSet(c, todo, guarded)
      PROVE  ToolsInv'
  <2>1. PICK r \in 0..session :
          op' = [op EXCEPT ![c] = [at |-> "set", todo |-> todo, rev |-> IF guarded THEN r ELSE None,
                                   guarded |-> guarded, base |-> r, done |-> 0]]
    BY <1>3 DEF Tools!ModelSet
  <2> DEFINE o == [at |-> "set", todo |-> todo, rev |-> IF guarded THEN r ELSE None, guarded |-> guarded, base |-> r, done |-> 0]
  <2>2. "model" \in Setting /\ "mode" \in Setting /\ r \in Nat
    BY DEF Setting, ToolsInv
  <2>4. todo \in Seq(Setting)
    BY <2>2, ShortSeq
  <2>3. o \in Operation /\ Guards(o)
    BY <2>2, <2>4 DEF Operation, Guards
  <2> QED  BY <1>3, <2>1, <2>3, Replaced DEF Tools!ModelSet, ToolsInv
<1>4. ASSUME NEW c \in Client, Tools!Sets(c)
      PROVE  ToolsInv'
  <2>1. CASE op[c].rev \notin {None, session}
    BY <1>2, <1>4, <2>1 DEF Tools!Sets, ToolsInv
  <2>2. CASE op[c].rev \in {None, session}
    <3> DEFINE o == [op[c] EXCEPT !.todo = Tail(@), !.rev = Tools!NextRev(c), !.done = @ + 1]
    <3>1. op' = [op EXCEPT ![c] = o] /\ session' = session + 1 /\ op[c].todo # <<>> /\ op[c] \in Operation /\ Guards(op[c])
      BY <1>4, <2>2 DEF Tools!Sets, ToolsInv, Operation
    <3>2. Tail(op[c].todo) \in Seq(Setting)
      BY <3>1 DEF Operation
    <3>5. Tools!NextRev(c) \in Nat \cup {None}
      BY DEF Tools!NextRev, ToolsInv
    <3>3. o \in Operation
      <4> DEFINE o1 == [op[c] EXCEPT !.todo = Tail(@)]
                 o2 == [o1 EXCEPT !.rev = Tools!NextRev(c)]
                 o3 == [o2 EXCEPT !.done = @ + 1]
      <4>1. o1 \in Operation
        BY <3>1, <3>2 DEF Operation
      <4> HIDE DEF o1
      <4>2. o2 \in Operation
        BY <3>5, <4>1 DEF Operation
      <4> HIDE DEF o2
      <4>3. o3 \in Operation
        BY <4>2 DEF Operation
      <4> QED  BY <4>3 DEF o1, o2, o3
    <3>4. Guards(o)
      BY <2>2, <3>1, NoneAssumption DEF Guards, Operation, Tools!NextRev, ToolsInv
    <3> QED  BY <3>1, <3>3, <3>4, Replaced DEF ToolsInv
  <2> QED  BY <2>1, <2>2
<1>5. ASSUME NEW c \in Client, Tools!SetFails(c) \/ Tools!ReadsBack(c)
      PROVE  ToolsInv'
  BY <1>2, <1>5 DEF Tools!SetFails, Tools!ReadsBack, ToolsInv
<1>6. ASSUME NEW c \in Client, NEW batch \in Tools!Batches, Tools!Update(c, batch)
      PROVE  ToolsInv'
  <2> DEFINE o == [Tools!Idle EXCEPT !.at = "update", !.todo = batch]
  <2>1. batch \in Seq(Setting)
    <3>1. PICK p \in Pref, q \in Pref : batch = <<p>> \/ batch = <<p, q>>
      BY DEF Tools!Batches
    <3>2. p \in Setting /\ q \in Setting
      BY DEF Setting
    <3> QED  BY <3>1, <3>2, ShortSeq
  <2>2. o \in Operation /\ Guards(o)
    BY <2>1 DEF Tools!Idle, Operation, Guards
  <2> QED  BY <1>6, <2>2, Replaced DEF Tools!Update, ToolsInv
<1>7. ASSUME NEW c \in Client, Tools!SetsPref(c)
      PROVE  ToolsInv'
  <2>1. CASE op' = [op EXCEPT ![c].todo = Tail(@)] /\ op[c].todo # <<>>
    <3> DEFINE o == [op[c] EXCEPT !.todo = Tail(@)]
    <3>1. op' = [op EXCEPT ![c] = o] /\ op[c] \in Operation /\ Guards(op[c])
      BY <2>1 DEF ToolsInv
    <3>2. Tail(op[c].todo) \in Seq(Setting)
      BY <2>1, <3>1 DEF Operation
    <3>3. o \in Operation /\ Guards(o)
      BY <3>1, <3>2 DEF Operation, Guards
    <3> QED  BY <1>7, <3>1, <3>3, Replaced DEF Tools!SetsPref, ToolsInv
  <2> QED  BY <1>2, <1>7, <2>1 DEF Tools!SetsPref, ToolsInv
<1>8. ASSUME NEW c \in Client, Tools!Catalog(c)
      PROVE  ToolsInv'
  <2> DEFINE o == [Tools!Idle EXCEPT !.at = "catalog"]
  <2>1. CASE op' = [op EXCEPT ![c] = o]
    <3>1. o \in Operation /\ Guards(o)
      BY IdleIsGuarded DEF Tools!Idle, Operation, Guards
    <3> QED  BY <1>8, <2>1, <3>1, Replaced DEF Tools!Catalog, ToolsInv
  <2> QED  BY <1>2, <1>8, <2>1 DEF Tools!Catalog, ToolsInv
<1>9. ASSUME NEW c \in Client, Tools!ReadsCatalog(c)
      PROVE  ToolsInv'
  <2> DEFINE o == [op[c] EXCEPT !.at = "close"]
  <2>1. op' = [op EXCEPT ![c] = o] /\ op[c] \in Operation /\ Guards(op[c])
    BY <1>9 DEF Tools!ReadsCatalog, ToolsInv
  <2>2. o \in Operation /\ Guards(o)
    BY <2>1 DEF Operation, Guards
  <2> QED  BY <1>9, <2>1, <2>2, Replaced DEF Tools!ReadsCatalog, ToolsInv
<1>10. ASSUME NEW c \in Client, Tools!Closes(c)
       PROVE  ToolsInv'
  BY <1>2, <1>10 DEF Tools!Closes, ToolsInv
<1>11. CASE Tools!HarnessLost
  BY <1>11, IdleIsGuarded DEF Tools!HarnessLost, ToolsInv
<1> QED
  BY <1>1, <1>3, <1>4, <1>5, <1>6, <1>7, <1>8, <1>9, <1>10, <1>11 DEF Tools!Next

\* Only a setter that the harness performed adds to what a client has done.
LEMMA OnlySets ==
  ASSUME ToolsInv, [Tools!Next]_Tools!vars, NEW c \in Client, op'[c].done > op[c].done
  PROVE  Tools!Sets(c) /\ op[c].rev \in {None, session}
<1>1. op[c] \in Operation /\ op[c].done \in Nat
  BY DEF ToolsInv, Operation
<1>2. op'[c] # op[c] /\ op'[c].done # 0 /\ op'[c].done # op[c].done
  BY <1>1
<1>3. ASSUME NEW d \in Client, Tools!Ends(d)
      PROVE  FALSE
  <2>1. op'[c] = op[c] \/ op'[c].done = 0
    BY <1>3 DEF Tools!Ends, Tools!Idle, ToolsInv
  <2> QED  BY <1>2, <2>1
<1>4. ASSUME NEW d \in Client, NEW todo, NEW guarded, Tools!ModelSet(d, todo, guarded)
      PROVE  FALSE
  BY <1>2, <1>4 DEF Tools!ModelSet, ToolsInv
<1>5. ASSUME NEW d \in Client, NEW batch, Tools!Update(d, batch) \/ Tools!Catalog(d)
      PROVE  FALSE
  BY <1>2, <1>3, <1>5 DEF Tools!Update, Tools!Catalog, Tools!Idle, ToolsInv
<1>6. ASSUME NEW d \in Client, Tools!SetsPref(d) \/ Tools!ReadsCatalog(d)
      PROVE  FALSE
  <2>1. op' = [op EXCEPT ![d].todo = Tail(@)] \/ op' = [op EXCEPT ![d].at = "close"]
    BY <1>3, <1>6 DEF Tools!SetsPref, Tools!ReadsCatalog
  <2>2. op'[c].done = op[c].done
    <3>1. CASE c = d
      <4>1. op'[c] = [op[c] EXCEPT !.todo = Tail(@)] \/ op'[c] = [op[c] EXCEPT !.at = "close"]
        BY <2>1, <3>1 DEF ToolsInv
      <4> QED  BY <4>1 DEF ToolsInv, Operation
    <3>2. CASE c # d
      BY <2>1, <3>2 DEF ToolsInv
    <3> QED  BY <3>1, <3>2
  <2> QED  BY <1>2, <2>2
<1>7. ASSUME NEW d \in Client, Tools!SetFails(d) \/ Tools!ReadsBack(d) \/ Tools!Closes(d)
      PROVE  FALSE
  BY <1>3, <1>7 DEF Tools!SetFails, Tools!ReadsBack, Tools!Closes
<1>8. ~Tools!HarnessLost
  BY <1>2 DEF Tools!HarnessLost, Tools!Idle
<1>9. ASSUME NEW d \in Client, Tools!Sets(d)
      PROVE  d = c /\ op[c].rev \in {None, session}
  BY <1>2, <1>3, <1>9 DEF Tools!Sets, ToolsInv
<1>10. op' # op
  BY <1>2
<1> QED
  BY <1>4, <1>5, <1>6, <1>7, <1>8, <1>9, <1>10 DEF Tools!Next, Tools!vars

(***************************************************************************)
(* A selection made under a revision changes only states its caller knows: *)
(* the one it read and those of its own setters (zcode_model_set,          *)
(* withRevision and the state numbers of the setters' answers).            *)
(***************************************************************************)
THEOREM SettingsTheorem == Spec => NoForeignChange
<1>1. Init => ToolsInv
  BY ToolsInit DEF Init
<1>2. ToolsInv /\ [Next]_vars => ToolsInv'
  BY EachPart, ToolsStep
<1>3. ToolsInv /\ [Next]_vars
      => [\A c \in Client : op[c].guarded /\ op'[c].done > op[c].done => session = op[c].base + op[c].done]_Tools!vars
  <2> SUFFICES ASSUME ToolsInv, [Next]_vars, NEW c \in Client, op[c].guarded, op'[c].done > op[c].done
               PROVE  session = op[c].base + op[c].done
    OBVIOUS
  <2>1. op[c].rev \in {None, session} /\ op[c].rev = op[c].base + op[c].done /\ op[c] \in Operation
    BY EachPart, OnlySets DEF ToolsInv, Guards
  <2>2. op[c].rev \in Nat
    BY <2>1 DEF Operation
  <2> QED  BY <2>1, <2>2, NoneAssumption
<1> QED  BY <1>1, <1>2, <1>3, PTL DEF Spec, vars, NoForeignChange, Tools!NoForeignChange
=============================================================================
