---------------------------- MODULE SessionSettings ----------------------------
(***************************************************************************)
(* The bridge's tools that change settings in several calls to the harness *)
(* (mcp/tools.ts, settings/manager.ts): the selection of model and mode,   *)
(* the batch of process preferences, and the model catalogue, which needs  *)
(* a session of its own.  Clients run concurrently; the harness numbers    *)
(* the states of the session.                                              *)
(***************************************************************************)
EXTENDS Naturals, Sequences

CONSTANTS
  Client, None,
  Pref,       \* PREFERENCES
  MaxRev      \* bound: changes of the session

VARIABLES
  session,    \* stateRevision of the harness's session
  prefs,      \* preferences set so far
  open,       \* clients with a deferred catalogue session open
  op,         \* per client [at, todo, rev, guarded, base, done]
  refused     \* clients whose session the harness refused to close

vars == <<session, prefs, open, op, refused>>

\* A call refused at once (read-only mode, the argument schema, a session outside the
\* workspaces) changes nothing and is no step.  rev is what the next setter is sent;
\* base and done remember what the caller expected and how often it changed the
\* session since.
Idle == [at |-> "idle", todo |-> <<>>, rev |-> None, guarded |-> FALSE, base |-> 0, done |-> 0]
Init ==
  /\ session = 0 /\ prefs = {} /\ open = {}
  /\ op = [c \in Client |-> Idle] /\ refused = {}

Is(c, at) == op[c].at = at
\* with a result or an error
Ends(c) == op' = [op EXCEPT ![c] = Idle]

\* zcode_model_set; the revision, if any, is one the caller has read at some time.
ModelSet(c, todo, guarded) ==
  /\ Is(c, "idle")
  /\ \E r \in 0..session :
       op' = [op EXCEPT ![c] = [at |-> "set", todo |-> todo, rev |-> IF guarded THEN r ELSE None,
                                guarded |-> guarded, base |-> r, done |-> 0]]
  /\ UNCHANGED <<session, prefs, open, refused>>

\* Mutant: the revision guards the first setter only.
NextRevMutant(c) == None
\* The revision the setter's answer carries guards the next one.
NextRev(c) == IF op[c].rev = None THEN None ELSE session + 1

\* The harness performs a setter, unless the revision is not its own.
Sets(c) ==
  /\ Is(c, "set") /\ op[c].todo # <<>> /\ UNCHANGED <<prefs, open, refused>>
  /\ IF op[c].rev \notin {None, session} THEN Ends(c) /\ UNCHANGED session
     ELSE /\ session < MaxRev
          /\ session' = session + 1
          /\ op' = [op EXCEPT ![c].todo = Tail(@), ![c].rev = NextRev(c), ![c].done = @ + 1]
\* The setter is lost, or worked although its answer is: earlier ones stay.
SetFails(c) ==
  /\ Is(c, "set") /\ op[c].todo # <<>> /\ Ends(c) /\ UNCHANGED <<prefs, open, refused>>
  /\ \/ UNCHANGED session
     \/ /\ session < MaxRev /\ op[c].rev \in {None, session}
        /\ session' = session + 1
\* The read-back, which tells the caller whether what it asked for is effective
ReadsBack(c) ==
  /\ Is(c, "set") /\ op[c].todo = <<>> /\ Ends(c) /\ UNCHANGED <<session, prefs, open, refused>>

\* settings.update: the whole batch is validated, then set one by one.
Update(c, batch) ==
  /\ Is(c, "idle") /\ op' = [op EXCEPT ![c] = [Idle EXCEPT !.at = "update", !.todo = batch]]
  /\ UNCHANGED <<session, prefs, open, refused>>
SetsPref(c) ==
  /\ Is(c, "update") /\ UNCHANGED <<session, open, refused>>
  /\ IF op[c].todo = <<>> THEN Ends(c) /\ UNCHANGED prefs
     ELSE \/ prefs' = prefs \cup {Head(op[c].todo)} /\ op' = [op EXCEPT ![c].todo = Tail(@)]
          \/ prefs' \in {prefs, prefs \cup {Head(op[c].todo)}} /\ Ends(c)  \* not confirmed

\* readWorkspaceCatalog: zcode_models_list, and zcode_task_start before a task with a model
Catalog(c) ==
  /\ Is(c, "idle") /\ UNCHANGED <<session, prefs, refused>>
  /\ \/ open' = open \cup {c} /\ op' = [op EXCEPT ![c] = [Idle EXCEPT !.at = "catalog"]]
     \/ Ends(c) /\ UNCHANGED open
\* Whatever the catalogue looks like, the session is closed (finally).
ReadsCatalog(c) ==
  /\ Is(c, "catalog") /\ UNCHANGED <<session, prefs, open, refused>>
  /\ op' = [op EXCEPT ![c].at = "close"]
Closes(c) ==
  /\ Is(c, "close") /\ UNCHANGED <<session, prefs>>
  /\ \/ open' = open \ {c} /\ Ends(c) /\ UNCHANGED refused
     \/ refused' = refused \cup {c} /\ Ends(c) /\ UNCHANGED open
\* The harness ends (also after a call that timed out): its sessions and process
\* preferences go, every call fails, and stored sessions keep their settings.
HarnessLost ==
  /\ open' = {} /\ prefs' = {} /\ UNCHANGED <<session, refused>>
  /\ op' = [c \in Client |-> Idle]

Batches == {<<p>> : p \in Pref} \cup {<<p, q>> : p, q \in Pref}
Next ==
  \/ \E c \in Client :
       \/ Sets(c) \/ SetFails(c) \/ ReadsBack(c) \/ SetsPref(c) \/ Catalog(c) \/ Closes(c)
       \/ \E todo \in {<<"model">>, <<"mode">>, <<"model", "mode">>}, guarded \in BOOLEAN : ModelSet(c, todo, guarded)
       \/ \E batch \in Batches : Update(c, batch)
       \/ ReadsCatalog(c)
  \/ HarnessLost
-----------------------------------------------------------------------------
\* A selection made under a revision changes only states its caller knows: the
\* one it read and those of its own setters.  Nobody's change in between is lost.
NoForeignChange ==
  [][\A c \in Client : op[c].guarded /\ op'[c].done > op[c].done => session = op[c].base + op[c].done]_vars

\* No catalogue session outlives the call that made it, except one the harness refused to close.
CatalogIsClosed == open \subseteq {c \in Client : op[c].at \in {"catalog", "close"}} \cup refused
=============================================================================
