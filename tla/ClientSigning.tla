----------------------------- MODULE ClientSigning -----------------------------
(***************************************************************************)
(* What requests share on their way out: the table of the endpoint routing *)
(* service (proxy/endpoint-routing.ts) and the signing state of one origin *)
(* and credential (proxy/client-signing.ts).  Each request goes through    *)
(* dispatch: it resolves its URL, then through sendWithClientSigning: it   *)
(* is signed and sent, and again after a rejection.                        *)
(*                                                                         *)
(* A signing key is the number of the handshake it comes from.  The server *)
(* may drop the keys it gave out, and then rejects what they signed.       *)
(* Clocks are left out: what is cached expires at any time.                *)
(***************************************************************************)
EXTENDS Naturals

CONSTANTS Request, None, Rotations  \* bound on the times the server drops its keys

VARIABLES
  snapshot,  \* the routing table: "none", "fresh", "stale"
  cooling,   \* now < retryAfter
  refresh,   \* refreshPromise is set
  gate,      \* "unknown", "on", "off" or "negative"
  probe,     \* gatePromise is set
  privKey,   \* the cached key
  handshake, \* the promise of a handshake: its number
  shakes,    \* handshakes that run: their number and the epoch they began in
  epoch,
  bypass,
  count,     \* handshakes begun so far
  valid,     \* the server takes keys of handshakes begun after this many
  rotations,
  at,        \* "new", "route", "sign", "gate", "key", "shake", "send", "done"
  round,     \* 1 and 2 are signed, 3 is not
  awaits,    \* the handshake a request waits for
  key,       \* the key a request is signed with
  rejected   \* history: handshakes begun when the first rejection came

routeVars == <<snapshot, cooling, refresh>>
gateVars  == <<gate, probe>>
keyVars   == <<privKey, handshake, shakes, epoch, bypass, count>>
reqVars   == <<at, round, awaits, key, rejected>>
vars == <<routeVars, gateVars, keyVars, valid, rotations, reqVars>>

Init ==
  /\ snapshot = "none" /\ cooling = FALSE /\ refresh = FALSE
  /\ gate = "unknown" /\ probe = FALSE
  /\ privKey = None /\ handshake = None /\ shakes = {} /\ epoch = 0 /\ bypass = FALSE /\ count = 0
  /\ valid = 0 /\ rotations = 0
  /\ at = [r \in Request |-> "new"] /\ round = [r \in Request |-> 1]
  /\ awaits = [r \in Request |-> None] /\ key = [r \in Request |-> None]
  /\ rejected = [r \in Request |-> None]

Goes(r, pc) == at' = [at EXCEPT ![r] = pc]
-----------------------------------------------------------------------------
(* Routing *)

\* ensureFresh: whoever finds the table stale waits for the one refresh.
Fresh == snapshot = "fresh" \/ cooling

\* resolve: a built-in route that no table overrides is taken at once, and the
\* table refreshed in the background.
Resolve(r) ==
  /\ at[r] = "new" /\ UNCHANGED <<snapshot, cooling, gateVars, keyVars, valid, rotations, round, awaits, key, rejected>>
  /\ \/ refresh' = (refresh \/ ~Fresh) /\ Goes(r, "sign")
     \/ IF Fresh THEN Goes(r, "sign") /\ UNCHANGED refresh
        ELSE Goes(r, "route") /\ refresh' = TRUE

\* refresh ends with a table, or fails and keeps the old one for a while.
RefreshEnds ==
  /\ refresh /\ refresh' = FALSE
  /\ \/ snapshot' = "fresh" /\ cooling' = FALSE
     \/ cooling' = TRUE /\ UNCHANGED snapshot
  /\ at' = [r \in Request |-> IF at[r] = "route" THEN "sign" ELSE at[r]]
  /\ UNCHANGED <<gateVars, keyVars, valid, rotations, round, awaits, key, rejected>>
-----------------------------------------------------------------------------
(* Signing *)

Sent(r, k) == Goes(r, "send") /\ key' = [key EXCEPT ![r] = k]

\* invalidateState
Invalidated ==
  /\ epoch' = epoch + 1 /\ privKey' = None /\ handshake' = None

\* ensurePrivateKey
EnsureKey(r) ==
  IF privKey # None
  THEN Sent(r, privKey) /\ UNCHANGED <<keyVars, awaits>>
  ELSE /\ Goes(r, "shake") /\ UNCHANGED <<privKey, epoch, bypass, key>>
       /\ IF handshake # None
          THEN awaits' = [awaits EXCEPT ![r] = handshake] /\ UNCHANGED <<handshake, shakes, count>>
          ELSE /\ count' = count + 1 /\ handshake' = count'
               /\ shakes' = shakes \cup {[n |-> count', epoch |-> epoch]}
               /\ awaits' = [awaits EXCEPT ![r] = count']

\* signWithStatus: what is exempt, bypassed or has no key of two parts goes out
\* unsigned, then the gate is asked.
Sign(r) ==
  /\ at[r] = "sign" /\ UNCHANGED <<routeVars, valid, rotations, round, rejected>>
  /\ \/ Sent(r, None) /\ UNCHANGED <<gateVars, keyVars, awaits>>
     \/ /\ ~bypass /\ UNCHANGED gate
        /\ CASE gate = "on" -> EnsureKey(r) /\ UNCHANGED probe
             [] gate \in {"off", "negative"} -> Sent(r, None) /\ UNCHANGED <<probe, keyVars, awaits>>
             [] OTHER -> Goes(r, "gate") /\ probe' = TRUE /\ UNCHANGED <<keyVars, awaits, key>>

\* probeGate: the answer is for all who wait, each goes on from its await
\* (GateOn); a failure is remembered for a while.
ProbeEnds ==
  /\ probe /\ probe' = FALSE /\ gate' \in {"on", "off", "negative"}
  /\ at' = [r \in Request |-> IF at[r] # "gate" THEN at[r] ELSE IF gate' = "on" THEN "key" ELSE "send"]
  /\ key' = [r \in Request |-> IF at[r] = "gate" /\ gate' # "on" THEN None ELSE key[r]]
  /\ UNCHANGED <<routeVars, keyVars, valid, rotations, round, awaits, rejected>>
GateOn(r) ==
  /\ at[r] = "key" /\ EnsureKey(r)
  /\ UNCHANGED <<routeVars, gateVars, valid, rotations, round, rejected>>

\* Mutant: the key of an invalidated handshake is kept.
StaleMutant(h) == FALSE
\* The state was invalidated while the handshake ran.
Stale(h) == h.epoch # epoch

\* performHandshake succeeds, and stores the key unless its epoch is over.
HandshakeSucceeds(h) ==
  /\ h \in shakes /\ ~Stale(h) /\ shakes' = shakes \ {h}
  /\ privKey' = h.n /\ handshake' = IF handshake = h.n THEN None ELSE handshake
  /\ at' = [r \in Request |-> IF at[r] = "shake" /\ awaits[r] = h.n THEN "send" ELSE at[r]]
  /\ key' = [r \in Request |-> IF at[r] = "shake" /\ awaits[r] = h.n THEN h.n ELSE key[r]]
  /\ UNCHANGED <<routeVars, gateVars, epoch, bypass, count, valid, rotations, round, awaits, rejected>>

\* It fails, or its epoch is over: each request that waits for it invalidates the
\* state, also a newer one, and goes out unsigned.
HandshakeFails(h) ==
  LET waiting == {r \in Request : at[r] = "shake" /\ awaits[r] = h.n}
  IN  /\ h \in shakes /\ shakes' = shakes \ {h}
      /\ IF waiting # {} THEN Invalidated
         ELSE handshake' = (IF handshake = h.n THEN None ELSE handshake) /\ UNCHANGED <<epoch, privKey>>
      /\ at' = [r \in Request |-> IF r \in waiting THEN "send" ELSE at[r]]
      /\ key' = [r \in Request |-> IF r \in waiting THEN None ELSE key[r]]
      /\ UNCHANGED <<routeVars, gateVars, bypass, count, valid, rotations, round, awaits, rejected>>

\* The answer to a request: isVerifyFailure of one that was signed.
Refused(r) == key[r] # None /\ key[r] <= valid

Answered(r) ==
  /\ at[r] = "send" /\ ~Refused(r) /\ Goes(r, "done")
  /\ UNCHANGED <<routeVars, gateVars, keyVars, valid, rotations, round, awaits, key, rejected>>

\* sendWithClientSigning: invalidate and sign again, with the second rejection
\* stop signing for good.
Rejected(r) ==
  /\ at[r] = "send" /\ Refused(r) /\ Invalidated
  /\ round' = [round EXCEPT ![r] = @ + 1]
  /\ IF round[r] = 1
     THEN Goes(r, "sign") /\ rejected' = [rejected EXCEPT ![r] = count] /\ UNCHANGED <<bypass, key>>
     ELSE bypass' = TRUE /\ Sent(r, None) /\ UNCHANGED rejected
  /\ UNCHANGED <<routeVars, gateVars, shakes, count, valid, rotations, awaits>>

\* The server drops the keys it gave out.
Rotates ==
  /\ rotations < Rotations /\ rotations' = rotations + 1 /\ valid' = count
  /\ UNCHANGED <<routeVars, gateVars, keyVars, reqVars>>

\* What is cached expires.
Expires ==
  /\ \/ snapshot = "fresh" /\ snapshot' = "stale" /\ UNCHANGED <<cooling, gate>>
     \/ cooling /\ cooling' = FALSE /\ UNCHANGED <<snapshot, gate>>
     \/ gate # "unknown" /\ gate' = "unknown" /\ UNCHANGED <<snapshot, cooling>>
  /\ UNCHANGED <<refresh, probe, keyVars, valid, rotations, reqVars>>

Next ==
  \/ \E r \in Request : Resolve(r) \/ Sign(r) \/ GateOn(r) \/ Answered(r) \/ Rejected(r)
  \/ RefreshEnds \/ ProbeEnds \/ Rotates \/ Expires
  \/ \E h \in shakes : HandshakeSucceeds(h) \/ HandshakeFails(h)

Spec == Init /\ [][Next]_vars
-----------------------------------------------------------------------------
\* Signing is given up for good, a decision that nothing undoes, only on the word
\* of a key that was asked for after the first rejection: no handshake begun
\* before it, by whichever request, can supply the second one.
BypassIsEarned ==
  [][~bypass /\ bypass' => \E r \in Request : round[r] = 2 /\ round'[r] = 3 /\ key[r] > rejected[r]]_vars
=============================================================================
