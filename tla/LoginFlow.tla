-------------------------------- MODULE LoginFlow --------------------------------
(***************************************************************************)
(* Logging in.  A flow asks the user's browser for consent: Z.AI's service *)
(* is polled for the outcome, Bigmodel sends the browser back to a server  *)
(* on this machine with a code, which the embedding app may also deliver   *)
(* and a terminal user may paste.  The tokens are then exchanged for an    *)
(* API key and stored.  The app's control listener runs each command to    *)
(* its end, but not one after another; all its callback servers use one    *)
(* port.  A terminal login is a process of its own with a port of its own. *)
(***************************************************************************)
EXTENDS Naturals

CONSTANTS
  Flow,     \* login flows
  None,     \* no flow
  Overlap,  \* BOOLEAN: a login may be started before the start of another has been answered
  MaxKeys   \* bound: API keys made at the provider

VARIABLES
  kind,     \* flow -> its provider and host: "zai", "bigmodel", "terminal", "paste"
  begun,    \* flow -> its start: "no", "tearing", "binding", "on", "refused"
  open,     \* flow -> its callback server listens
  granted,  \* flow -> the user consented to it in the browser
  used,     \* flow -> its code has been redeemed
  result,   \* flow -> what came back: None, the flow whose code it is, or "bad"
  active,   \* ControlState.activeOauth
  at,       \* <<flow, "own">> and <<flow, "delivery">> -> how far that attempt is
  code,     \* the same -> the flow whose code or tokens it uses
  saved,    \* the stored login: [flow, code], or None
  keys      \* keys of our name at the provider

vars == <<kind, begun, open, granted, used, result, active, at, code, saved, keys>>

Via     == {"own", "delivery"}
Attempt == Flow \X Via
Ended   == {"done", "failed"}
App(f)  == kind[f] \in {"zai", "bigmodel"}

Init ==
  /\ kind = [f \in Flow |-> "zai"] /\ begun = [f \in Flow |-> "no"]
  /\ open = [f \in Flow |-> FALSE] /\ granted = open /\ used = open
  /\ result = [f \in Flow |-> None] /\ active = None
  /\ at = [a \in Attempt |-> "no"] /\ code = [a \in Attempt |-> None]
  /\ saved = None /\ keys = 0

(***************************************************************************)
(* Starting a flow.                                                        *)
(***************************************************************************)
\* startOAuth closes the server of the flow it finds; terminal logins start at once.
Starts(f, k) ==
  /\ Overlap \/ \A g \in Flow : begun[g] \notin {"tearing", "binding"}
  /\ begun[f] = "no" /\ kind' = [kind EXCEPT ![f] = k]
  /\ IF k \in {"zai", "bigmodel"} /\ active # None
     THEN begun' = [begun EXCEPT ![f] = "tearing"] /\ open' = [open EXCEPT ![active] = FALSE]
     ELSE begun' = [begun EXCEPT ![f] = "binding"] /\ UNCHANGED open
  /\ UNCHANGED <<granted, used, result, active, at, code, saved, keys>>
\* ... waits for it to be closed and forgets it.
TornDown(f) ==
  /\ begun[f] = "tearing" /\ begun' = [begun EXCEPT ![f] = "binding"] /\ active' = None
  /\ UNCHANGED <<kind, open, granted, used, result, at, code, saved, keys>>

\* The app's callback servers share one port.
PortTaken(f) == kind[f] = "bigmodel" /\ \E g \in Flow \ {f} : kind[g] = "bigmodel" /\ open[g]

Begins(f) ==
  /\ begun[f] = "binding" /\ ~PortTaken(f)
  /\ begun' = [begun EXCEPT ![f] = "on"] /\ open' = [open EXCEPT ![f] = kind[f] # "zai"]
  /\ active' = IF App(f) THEN f ELSE active
  /\ at' = [at EXCEPT ![<<f, "own">>] = "waiting"]
  /\ UNCHANGED <<kind, granted, used, result, code, saved, keys>>
\* The port is taken, or Z.AI's init does not answer as it should.
StartFails(f) ==
  /\ begun[f] = "binding" /\ (PortTaken(f) \/ kind[f] = "zai")
  /\ begun' = [begun EXCEPT ![f] = "refused"]
  /\ UNCHANGED <<kind, open, granted, used, result, active, at, code, saved, keys>>

(***************************************************************************)
(* The browser.                                                            *)
(***************************************************************************)
Consents(f) ==
  /\ begun[f] = "on" /\ ~granted[f] /\ granted' = [granted EXCEPT ![f] = TRUE]
  /\ UNCHANGED <<kind, begun, open, used, result, active, at, code, saved, keys>>

\* What a redirect with g's code and state gives flow f: the state must be f's own.
AcceptedMutant(f, g) == g
Accepted(f, g) == IF g = f THEN g ELSE "bad"

\* handleCallback, parsePastedCallbackUrl, and Z.AI's poll, which knows its flow: the first
\* outcome counts.  A redirect may come from the page of an older flow on the same port.
ComesBack(f, g) ==
  /\ result[f] = None /\ granted[g]
  /\ CASE kind[f] = "zai" -> g = f /\ begun[f] = "on"
       [] kind[f] = "bigmodel" -> open[f] /\ kind[g] = "bigmodel"
       [] OTHER -> open[f] /\ (g = f \/ kind[f] = "paste")
  /\ result' = [result EXCEPT ![f] = Accepted(f, g)]
  /\ UNCHANGED <<kind, begun, open, granted, used, active, at, code, saved, keys>>
\* A request without a code, a refused consent, an answer that makes no sense.
ComesBackBad(f) ==
  /\ result[f] = None /\ (open[f] \/ (kind[f] = "zai" /\ begun[f] = "on"))
  /\ result' = [result EXCEPT ![f] = "bad"]
  /\ UNCHANGED <<kind, begun, open, granted, used, active, at, code, saved, keys>>

(***************************************************************************)
(* An attempt: exchange the code, find the key, store.                     *)
(***************************************************************************)
\* A flow's own attempt closes its server when it ends, and is no longer the active flow; a
\* delivery makes no flow active.  A terminal login closes its server before it resolves.
Ends(f, v, how) ==
  /\ at' = [at EXCEPT ![<<f, v>>] = how]
  /\ open' = [open EXCEPT ![f] = FALSE]
  /\ active' = IF v = "delivery" \/ active = f THEN None ELSE active
Goes(f, v, to) == at' = [at EXCEPT ![<<f, v>>] = to] /\ UNCHANGED <<open, active>>
Fails(f, v) ==
  /\ at[<<f, v>>] \in {"exchange", "biz", "info", "create", "save"} /\ Ends(f, v, "failed")
  /\ UNCHANGED <<kind, begun, granted, used, result, code, saved, keys>>

\* complete: the outcome arrives, or the five minutes pass.
Arrives(f) ==
  /\ at[<<f, "own">>] = "waiting" /\ result[f] \in Flow
  /\ code' = [code EXCEPT ![<<f, "own">>] = result[f]]
  /\ Goes(f, "own", IF kind[f] = "zai" THEN "biz" ELSE "exchange")
  /\ UNCHANGED <<kind, begun, granted, used, result, saved, keys>>
WaitFails(f) ==
  /\ at[<<f, "own">>] = "waiting" /\ result[f] \notin Flow /\ Ends(f, "own", "failed")
  /\ UNCHANGED <<kind, begun, granted, used, result, code, saved, keys>>
\* deliverOAuthCode: only for the active flow, and only with its state.
Delivers(f, g) ==
  /\ active = f /\ kind[f] = "bigmodel" /\ granted[g] /\ kind[g] = "bigmodel"
  /\ Accepted(f, g) # "bad" /\ at[<<f, "delivery">>] = "no"
  /\ code' = [code EXCEPT ![<<f, "delivery">>] = g] /\ Goes(f, "delivery", "exchange")
  /\ UNCHANGED <<kind, begun, granted, used, result, saved, keys>>

\* exchangeCode: the service redeems a code once.  A terminal login closes its server now.
Exchanges(f, v) ==
  LET c == code[<<f, v>>] IN
  /\ at[<<f, v>>] = "exchange" /\ ~used[c] /\ used' = [used EXCEPT ![c] = TRUE]
  /\ at' = [at EXCEPT ![<<f, v>>] = "info"] /\ open' = [open EXCEPT ![f] = @ /\ App(f)]
  /\ UNCHANGED <<kind, begun, granted, result, active, code, saved, keys>>
\* resolveCodingPlanCredential: Z.AI's business token; the customer's project; the key of our
\* name, made when it is not there or the list cannot be read; its secret, if it can be had.
Resolves(f, v) ==
  /\ \/ at[<<f, v>>] = "biz" /\ Goes(f, v, "info") /\ UNCHANGED keys
     \/ at[<<f, v>>] = "info" /\ Goes(f, v, "list") /\ UNCHANGED keys
     \/ at[<<f, v>>] = "list" /\ keys > 0 /\ Goes(f, v, "save") /\ UNCHANGED keys
     \/ at[<<f, v>>] = "list" /\ Goes(f, v, "create") /\ UNCHANGED keys
     \/ at[<<f, v>>] = "create" /\ keys < MaxKeys /\ keys' = keys + 1 /\ Goes(f, v, "save")
  /\ UNCHANGED <<kind, begun, granted, used, result, code, saved>>
\* saveLoginCredential
Saves(f, v) ==
  /\ at[<<f, v>>] = "save" /\ saved' = [flow |-> f, code |-> code[<<f, v>>]] /\ Ends(f, v, "done")
  /\ UNCHANGED <<kind, begun, granted, used, result, code, keys>>
LogsOut ==
  /\ saved # None /\ saved' = None
  /\ UNCHANGED <<kind, begun, open, granted, used, result, active, at, code, keys>>

Next ==
  \/ \E f \in Flow, k \in {"zai", "bigmodel", "terminal", "paste"} : Starts(f, k)
  \/ \E f \in Flow : TornDown(f) \/ Begins(f) \/ StartFails(f) \/ Consents(f) \/ ComesBackBad(f)
                     \/ Arrives(f) \/ WaitFails(f)
  \/ \E f, g \in Flow : ComesBack(f, g) \/ Delivers(f, g)
  \/ \E f \in Flow, v \in Via : Exchanges(f, v) \/ Resolves(f, v) \/ Saves(f, v) \/ Fails(f, v)
  \/ LogsOut

Spec == Init /\ [][Next]_vars

\* The login that is stored is the one of the flow that stored it: a page of an older flow that
\* comes back on the shared port, or a code delivered late, is never redeemed for another flow
\* (handleCallback, parsePastedCallbackUrl, deliverOAuthCode).
SavedIsOwn == saved # None => saved.code = saved.flow

\* Whichever way a flow ends - success, refusal, timeout, a failed key lookup - it leaves no
\* callback server behind (authorize, startOAuth, deliverOAuthCode, runPasteLogin).
PortsReleased == \A f \in Flow : at[<<f, "own">>] \in Ended => ~open[f]

\* A new login takes the port over from the flow before it.
PortTakenOver == \A f \in Flow : kind[f] = "bigmodel" => begun[f] # "refused"
=============================================================================
