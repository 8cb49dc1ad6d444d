------------------------------ MODULE RequestPath ------------------------------
(***************************************************************************)
(* One request through the proxy, from its body to the answer: proxyRequest*)
(* (proxy/handler.ts) and handleResponses (proxy/responses-handler.ts),    *)
(* which are the same four layers around dispatch:                         *)
(*   ladder    dispatchWithConnectRetry, transient failures, same account  *)
(*   captcha   retryOnCaptchaChallenge, once                               *)
(*   quota     recoverAndMapUpstream, the schedule of same-account resends *)
(*   failover  recoverAndMapUpstream, once to another account              *)
(*                                                                         *)
(* A step is the code between two awaits.  What other requests and the CLI *)
(* do to the accounts (AccountPool) shows here as the answer of each check *)
(* that the account may be used.  The client may leave at any time.        *)
(***************************************************************************)
EXTENDS Naturals

CONSTANTS
  Account, None,
  MaxAttempts,  \* MAX_TRANSIENT_ATTEMPTS
  Delays        \* length of the quota retry schedule

VARIABLES
  opts,      \* [startPlan, ordered, extended]: plan, transport, retry policy
  pc,
  layer,
  attempt,   \* of the ladder
  held,      \* the response to go on with, or the error of the last attempt
  account,
  tried,     \* attemptedIdentities
  delays,    \* what is left of the schedule
  confirmed, completed, \* confirmedExhausted, scheduleCompleted
  memo,      \* blockSameCredentialRetry was called
  aborted,   \* clientReq.signal
  answer,    \* what the client gets: "refused", "error", "json" or "stream"
  token,     \* history: the captcha token is "none", "fresh", "spent", or
             \* "forced": spent, and no other one could be minted
  proofs,    \* history: resends of the schedule answered by a quota envelope
  written    \* history: accounts on which an attempt failed after it was written

ladderVars  == <<attempt, held>>
recoverVars == <<account, tried, delays, confirmed, completed, memo, proofs>>
vars == <<opts, pc, layer, ladderVars, recoverVars, aborted, answer, token, written>>

\* What a send may come to.  An error before the connection stands, one that may
\* be transient, one flagged postWrite (ordered transport), one that is not.
Failures == {"connect", "drop", "written", "fatal"}
\* "late" has a Retry-After over the cap; "quota" is an envelope 1005 or 1113,
\* "auth" a 401 or an envelope 401, 3001 or 3012, "error" any other failure.
Answers  == {"json", "stream", "transient", "late", "challenge", "quota", "auth", "error"}

Init ==
  /\ opts \in [startPlan : BOOLEAN, ordered : BOOLEAN, extended : BOOLEAN]
  /\ pc = "read" /\ layer = "ladder" /\ attempt = 1 /\ held = None
  /\ account = None /\ tried = {} /\ delays = Delays /\ confirmed = FALSE /\ completed = TRUE /\ memo = FALSE
  /\ aborted = FALSE /\ answer = None /\ token = "none" /\ proofs = 0 /\ written = {}

Reply(a) == pc' = "done" /\ answer' = a
Go(p)    == pc' = p /\ UNCHANGED answer
-----------------------------------------------------------------------------
(* Before the first dispatch *)

\* readBody, and the translation of the body: a request that cannot be read,
\* parsed or translated is answered at once.
Read ==
  /\ pc = "read" /\ (Reply("refused") \/ Go("select"))
  /\ UNCHANGED <<opts, layer, ladderVars, recoverVars, aborted, token, written>>

\* getCredentialHandle; a handle for another provider or plan is refused.
Select ==
  /\ pc = "select"
  /\ \/ Reply("refused") /\ UNCHANGED <<account, tried>>
     \/ /\ Go(IF opts.startPlan THEN "mint" ELSE "validate")
        /\ \E a \in Account : account' = a /\ tried' = {a}
  /\ UNCHANGED <<opts, layer, ladderVars, delays, confirmed, completed, memo, proofs, aborted, token, written>>

\* validateAccountHandle
Validate ==
  /\ pc = "validate" /\ (Reply("refused") \/ Go("send"))
  /\ UNCHANGED <<opts, layer, ladderVars, recoverVars, aborted, token, written>>

\* getCaptchaToken.  In the ladder a send goes on without a new token; the captcha
\* layer answers 503, and looks at the client once more; a failover fails.
MintFails ==
  /\ token' = IF token = "spent" THEN "forced" ELSE token
  /\ CASE layer = "ladder"   -> Go(IF attempt = 1 THEN "validate" ELSE "send") /\ UNCHANGED completed
       [] layer = "quota"    -> Go("rotate") /\ completed' = FALSE
       [] OTHER              -> Reply("error") /\ UNCHANGED completed
MintSucceeds ==
  /\ token' = "fresh" /\ UNCHANGED completed
  /\ CASE layer = "ladder" /\ attempt = 1 -> Go("validate")
       [] layer = "captcha" /\ aborted    -> Reply("error")
       [] OTHER                           -> Go("send")
Mint ==
  /\ pc = "mint" /\ (MintFails \/ MintSucceeds)
  /\ UNCHANGED <<opts, layer, ladderVars, account, tried, delays, confirmed, memo, proofs, aborted, written>>
-----------------------------------------------------------------------------
(* The transient ladder *)

\* A retry takes a fresh token unless the attempt before was never connected.
NeedsToken(why) == opts.startPlan /\ why # "connect"

\* transientErrorKind, transientResponseReason, and the cap of Retry-After
Retried(got) ==
  IF got \in Failures THEN got # "fatal" /\ (opts.extended \/ got = "connect")
  ELSE opts.extended /\ got = "transient"

\* The end of the ladder: an error is answered, a response goes to the next layer.
Leave(got) ==
  IF got \in Failures THEN Reply("error")
  ELSE Go(IF opts.startPlan /\ got = "challenge" THEN "challenge" ELSE "recover")

\* dispatchWithConnectRetry, when an attempt is over.  A flagged failure need not
\* look like a dropped connection, and then is not retried.
LadderGets(got) ==
  /\ layer = "ladder" /\ held' = got /\ UNCHANGED completed
  /\ \/ got \in {"written", "fatal"} /\ Leave(got)
     \/ CASE aborted \/ attempt = MaxAttempts    -> Leave(got)
          [] got = "stream" /\ opts.extended     -> Go("prelude")
          [] Retried(got)                        -> Go("backoff")
          [] OTHER                               -> Leave(got)

\* gateStreamPrelude: the stream goes to the client, or it failed before any
\* output; a client that left meanwhile ends the request.
Prelude ==
  /\ pc = "prelude"
  /\ IF aborted THEN Reply("error") ELSE Go("recover") \/ Go("backoff")
  /\ UNCHANGED <<opts, layer, ladderVars, recoverVars, aborted, token, written>>

\* After the wait: the client is still there, the account still current
\* (accountHandleStillCurrent), or else the last outcome stands.
Backoff ==
  /\ pc = "backoff"
  /\ IF aborted THEN Reply("error") ELSE Go("admit")
  /\ UNCHANGED <<opts, layer, ladderVars, recoverVars, aborted, token, written>>
Admit ==
  /\ pc = "admit"
  /\ \/ Leave(held) /\ UNCHANGED attempt
     \/ IF aborted THEN Reply("error") /\ UNCHANGED attempt
        ELSE attempt' = attempt + 1 /\ Go(IF NeedsToken(held) THEN "mint" ELSE "send")
  /\ UNCHANGED <<opts, layer, held, recoverVars, aborted, token, written>>

\* retryOnCaptchaChallenge up to its solve
Challenge ==
  /\ pc = "challenge" /\ layer' = "captcha"
  /\ IF aborted THEN Reply("error") ELSE Go("mint")
  /\ UNCHANGED <<opts, ladderVars, recoverVars, aborted, token, written>>
CaptchaGets(got) ==
  /\ layer = "captcha" /\ held' = got /\ UNCHANGED completed
  /\ IF got \in Failures THEN Reply("error") ELSE Go("recover")
-----------------------------------------------------------------------------
(* recoverAndMapUpstream *)

\* A quota envelope starts the schedule.
Recover ==
  /\ pc = "recover" /\ layer' = "quota"
  /\ Go(IF held = "quota" /\ ~aborted THEN "schedule" ELSE "rotate")
  /\ UNCHANGED <<opts, ladderVars, recoverVars, aborted, token, written>>

Interrupted == completed' = FALSE

\* canResendCredential before a wait and after it
Schedule ==
  /\ pc = "schedule" /\ UNCHANGED <<opts, layer, ladderVars, account, tried, confirmed, memo, proofs, aborted, token, written>>
  /\ \/ delays = 0 /\ Go("rotate") /\ UNCHANGED <<delays, completed>>
     \/ delays > 0 /\ Go("rotate") /\ Interrupted /\ UNCHANGED delays
     \/ delays > 0 /\ Go("pause") /\ delays' = delays - 1 /\ UNCHANGED completed
Pause ==
  /\ pc = "pause" /\ UNCHANGED <<opts, layer, ladderVars, account, tried, delays, confirmed, memo, proofs, aborted, token, written>>
  /\ \/ Go("rotate") /\ Interrupted
     \/ ~aborted /\ Go(IF opts.startPlan THEN "mint" ELSE "send") /\ UNCHANGED completed

\* A resend is adopted when it succeeds or is itself a quota envelope; one that
\* was written before it failed ends the request.
QuotaGets(got) ==
  /\ layer = "quota"
  /\ \/ got \in {"json", "stream"} /\ held' = got /\ Go("rotate") /\ UNCHANGED <<completed, confirmed, proofs>>
     \/ /\ got = "quota" /\ Go("schedule") /\ confirmed' = TRUE /\ proofs' = proofs + 1
        /\ UNCHANGED <<held, completed>>
     \/ got = "written" /\ Reply("error") /\ UNCHANGED <<held, completed, confirmed, proofs>>
     \/ /\ got \notin {"json", "stream", "quota", "written"} /\ Go("rotate") /\ Interrupted
        /\ UNCHANGED <<held, confirmed, proofs>>

\* The memo, and recoverCredentialHandle: the other account, if there is one.
Proven == completed /\ confirmed /\ held = "quota"
Rotate ==
  /\ pc = "rotate" /\ memo' = (memo \/ Proven)
  /\ Go(IF held \in {"quota", "auth"} /\ ~aborted THEN "failover" ELSE "map")
  /\ UNCHANGED <<opts, layer, ladderVars, account, tried, delays, confirmed, completed, proofs, aborted, token, written>>
Failover ==
  /\ pc = "failover" /\ layer' = "failover"
  /\ \/ Go("map") /\ UNCHANGED <<account, tried>>
     \/ /\ ~aborted
        /\ \E a \in Account \ tried : account' = a /\ tried' = tried \cup {a}
        /\ (Reply("error") \/ Go(IF opts.startPlan THEN "mint" ELSE "send"))
  /\ UNCHANGED <<opts, ladderVars, delays, confirmed, completed, memo, proofs, aborted, token, written>>
FailoverGets(got) ==
  /\ layer = "failover" /\ UNCHANGED completed
  /\ IF got \in Failures THEN Reply("error") /\ UNCHANGED held ELSE Go("map") /\ held' = got

\* What the client gets: the body translated or passed on, the events of a stream,
\* or the error mapped.  An empty or malformed body is a 502.
Map ==
  /\ pc = "map"
  /\ CASE held = "stream" -> Go("streaming")
       [] held = "json"   -> Reply("json") \/ Reply("error")
       [] OTHER           -> Reply("error")
  /\ UNCHANGED <<opts, layer, ladderVars, recoverVars, aborted, token, written>>
Streamed ==
  /\ pc = "streaming" /\ Reply("stream")
  /\ UNCHANGED <<opts, layer, ladderVars, recoverVars, aborted, token, written>>
\* The cancel of a stream goes through to its source.
Cancelled ==
  /\ pc = "streaming" /\ aborted /\ Reply("stream")
  /\ UNCHANGED <<opts, layer, ladderVars, recoverVars, aborted, token, written>>
-----------------------------------------------------------------------------
(* The transport *)

Gets(got) ==
  /\ pc = "send" /\ UNCHANGED <<opts, layer, account, tried, delays, memo, aborted>>
  /\ UNCHANGED attempt
  /\ \/ (LadderGets(got) \/ CaptchaGets(got) \/ FailoverGets(got)) /\ UNCHANGED <<confirmed, proofs>>
     \/ QuotaGets(got)
  /\ token' = IF token = "fresh" /\ got # "connect" THEN "spent" ELSE token
  /\ written' = IF got = "written" THEN written \cup {account} ELSE written

\* sendUpstreamRequest: no time limit is set on an answer.
Dispatched == ~aborted /\ \E got \in Failures \cup Answers : (got = "written" => opts.ordered) /\ Gets(got)

\* Mutant: the signal is looked at only while the connection is opened.
CutMutant == aborted /\ layer # "ladder" /\ Gets("fatal")
\* The client's signal ends a send, whatever it waits for (openSocket, onAbort).
Cut == aborted /\ Gets("fatal")

\* The client leaves.
Abort == /\ ~aborted /\ pc # "done" /\ aborted' = TRUE
         /\ UNCHANGED <<opts, pc, layer, ladderVars, recoverVars, answer, token, written>>

Own == Read \/ Select \/ Validate \/ Mint \/ Backoff \/ Admit \/ Challenge \/ Recover \/ Schedule \/ Pause
       \/ Rotate \/ Failover \/ Map \/ Cancelled \/ Cut
Next == Own \/ Prelude \/ Dispatched \/ Streamed \/ Abort

\* What the proxy does by itself ends: its waits have timers, minting a token has
\* deadlines (CaptchaPool), a prelude a time limit.  An upstream may never answer.
Fairness == WF_vars(Own) /\ WF_vars(Prelude)
Spec == Init /\ [][Next]_vars /\ Fairness
-----------------------------------------------------------------------------
TypeOK ==
  /\ attempt \in 1..MaxAttempts /\ held \in Failures \cup Answers \cup {None} /\ account \in Account \cup {None}
  /\ tried \subseteq Account /\ delays \in 0..Delays /\ answer \in {None, "refused", "error", "json", "stream"}

\* A captcha token that may have reached the gateway, which spends it, is not sent
\* again, through all four layers, unless another one could not be minted.
TokenIsFresh == pc = "send" => token # "spent"

\* An account is remembered as exhausted, beyond the schedule, only when every
\* resend of a full schedule was sent and answered with a quota envelope.
MemoIsProven == [][memo' /\ ~memo => delays = 0 /\ proofs = Delays /\ Delays > 0]_vars

\* When its client has left, a request ends, also if the upstream never answers.
AbortEnds == aborted ~> pc = "done"

\* handler.ts says of a failure flagged postWrite: never replayed on another
\* account.
PostWriteStays == pc = "send" => written \subseteq {account}
=============================================================================
