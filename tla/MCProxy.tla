--------------------------------- MODULE MCProxy ---------------------------------
(***************************************************************************)
(* Parts of the proxy that share no state: the stages an answer goes       *)
(* through, the conversation it belongs to, the login and its file, the    *)
(* claims.  Each is explored in behaviours where it alone moves.           *)
(***************************************************************************)
EXTENDS Naturals, TLC

CONSTANTS
  GateFrames, MaxChunk, MaxHeld, Block, MaxFrames, Call, MaxChunks, MaxTurns, MaxCalls, MaxEntries, MaxBytes,
  Cred, Short, NoCred, NoFile, Request, Window, MaxWrites, MaxDesk,
  Flow, None, Overlap, MaxKeys,
  Plan, Poll, Cooldown, Windows, MaxCall
VARIABLES part,
  coded, frames, pos, issued, answers, awaited, stage, held, pending, retryable, failure, prefix, inflight, tail, terminalSeen, out, left,
  fed, upstream, tr, queue, source, rs, doneSeen, outcome, stored,
  chunks, active, tools, openTools, next, content, stopReason, state, events,
  store, bytes, turns, flight, sent, chain,
  file, writes, login, desk, expired, mem, finger, snap, load, rescue, attempted, failures, tries, req, given,
  kind, begun, open, granted, used, result, current, at, code, saved, keys,
  cycle, stopped, timer, hold, holds, age, ready, target, offered, taken, eligible, waited

\* No data is a credential's file, and neither an outcome that is bad nor none is a flow.
ASSUME FileAssumption == NoFile \notin [id : Nat, cred : Cred \cup {NoCred}, old : BOOLEAN, from : Nat]
ASSUME FlowAssumption == {None, "bad"} \cap Flow = {}
\* A greater plan goes first.  The calls of a cycle end before the next poll is due: time limits of
\* seconds, and polls minutes apart.
ASSUME ClaimAssumption == {Poll, Cooldown, MaxCall} \subseteq Nat /\ MaxCall < Poll /\ Plan \subseteq Nat \ {0}
\* The bounds of the response store are numbers of entries and of bytes.
ASSUME TalkAssumption == {MaxEntries, MaxBytes} \subseteq Nat

gateVars    == <<coded, frames, pos, issued, answers, awaited, stage, held, pending, retryable, failure, prefix, inflight, tail, terminalSeen, out, left>>
forwardVars == <<fed, upstream, tr, queue, source, rs, doneSeen, outcome, stored>>
reverseVars == <<chunks, active, tools, openTools, next, content, stopReason, state, events>>
talkVars    == <<store, bytes, turns, flight, sent, chain>>
loginVars   == <<file, writes, login, desk, expired, mem, finger, snap, load, rescue, attempted, failures, tries, req, given>>
flowVars    == <<kind, begun, open, granted, used, result, current, at, code, saved, keys>>
claimVars   == <<cycle, stopped, timer, hold, holds, age, ready, target, offered, taken, eligible, waited>>

Gate     == INSTANCE StreamGate WITH MaxFrames <- GateFrames
Forwards == INSTANCE StreamTranslation
Reverse  == INSTANCE ReverseTranslation
Talk     == INSTANCE Conversation
Login    == INSTANCE LoginStore WITH held <- given
Flows    == INSTANCE LoginFlow WITH active <- current
Claiming == INSTANCE Claims WITH stage <- cycle

\* The parts that do not move stay in one of their initial states.
Init ==
  /\ part \in {"gate", "forward", "reverse", "talk", "login", "flow", "claim"}
  /\ Gate!Init /\ Forwards!Init /\ Reverse!Init /\ Talk!Init /\ (part # "gate" => ~coded)
  /\ Login!Init /\ (part # "login" => mem = CHOOSE c \in Cred : TRUE)
  /\ Flows!Init /\ Claiming!Init /\ (part # "claim" => offered = {} /\ eligible = {})
Next ==
  \/ part = "gate" /\ Gate!Next
     /\ UNCHANGED <<part, forwardVars, reverseVars, talkVars, loginVars, flowVars, claimVars>>
  \/ part = "forward" /\ Forwards!Next
     /\ UNCHANGED <<part, gateVars, reverseVars, talkVars, loginVars, flowVars, claimVars>>
  \/ part = "reverse" /\ Reverse!Next
     /\ UNCHANGED <<part, gateVars, forwardVars, talkVars, loginVars, flowVars, claimVars>>
  \/ part = "talk" /\ Talk!Next
     /\ UNCHANGED <<part, gateVars, forwardVars, reverseVars, loginVars, flowVars, claimVars>>
  \/ part = "login" /\ Login!Next
     /\ UNCHANGED <<part, gateVars, forwardVars, reverseVars, talkVars, flowVars, claimVars>>
  \/ part = "flow" /\ Flows!Next
     /\ UNCHANGED <<part, gateVars, forwardVars, reverseVars, talkVars, loginVars, claimVars>>
  \/ part = "claim" /\ Claiming!Next
     /\ UNCHANGED <<part, gateVars, forwardVars, reverseVars, talkVars, loginVars, flowVars>>

Spec == Init /\ [][Next]_<<part, gateVars, forwardVars, reverseVars, talkVars, loginVars, flowVars, claimVars>>

StreamIsWhole       == Gate!StreamIsWhole
TurnIsWhole         == Forwards!TurnIsWhole
BlocksAreWhole      == Reverse!BlocksAreWhole
ConversationIsWhole == Talk!ConversationIsWhole
LoginStands         == Login!LoginStands
RescuesBounded      == Login!RescuesBounded
SavedIsOwn          == Flows!SavedIsOwn
PortsReleased       == Flows!PortsReleased
PortTakenOver       == Flows!PortTakenOver
ReadyPlanIsClaimed  == Claiming!ReadyPlanIsClaimed
=============================================================================
