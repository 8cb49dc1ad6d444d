------------------------------ MODULE StreamGate ------------------------------
(***************************************************************************)
(* A stream of the upstream on its way to an Anthropic client: the gate    *)
(* that reads its prelude (proxy/stream-prelude.ts), the ladder's choice   *)
(* (handler.ts), the rebuilt stream, and the monitor that guarantees a     *)
(* terminal event (proxy/sse-terminal.ts).                                 *)
(*                                                                         *)
(* A frame is two units of bytes: unit 2i - 1 is frame i up to some point  *)
(* after its event line, unit 2i the rest.  A chunk is a run of units.     *)
(***************************************************************************)
EXTENDS Integers, Sequences

CONSTANTS
  MaxFrames, \* bound on the frames of a stream
  MaxChunk,  \* bound on the units of a chunk
  MaxHeld    \* MAX_PRELUDE_BYTES, in units

VARIABLES
  coded,     \* the gate decompresses the stream
  frames,    \* the kinds of the frames the upstream began to send
  pos,       \* units sent
  issued,    \* reads asked of the source
  answers,   \* its answers, in order: chunks, then Eof or Failed
  awaited,   \* the read whose answer is looked for
  stage,     \* "gate", "verdict", "body", "again", "done"
  held, pending,       \* of the gate
  retryable, failure,  \* of its verdict
  prefix,    \* what reconstruct sends first
  inflight,  \* the awaited read was asked and not consumed by the gate
  tail,      \* pending of the monitor
  terminalSeen,
  out,       \* what the client got: units, and 0 for an error frame of the monitor
  left       \* the client left

gateVars == <<held, pending, retryable, failure>>
vars == <<coded, frames, pos, issued, answers, awaited, stage, gateVars, prefix, inflight, tail, terminalSeen, out, left>>

Prelude  == {"start"}            \* message_start, ping, comments
Terminal == {"stop", "transient", "final"} \* message_stop, and errors of two classes
Kinds    == Prelude \cup Terminal \cup {"content", "big"} \* "big": over both byte bounds
Eof      == <<-1>>
Failed   == <<-2>>

Kind(u)  == frames[(u + 1) \div 2]
Opens(u) == u % 2 = 1
Ends(u)  == u % 2 = 0

Init ==
  /\ coded \in BOOLEAN /\ frames = <<>> /\ pos = 0
  /\ issued = 1 /\ answers = <<>> /\ awaited = 1
  /\ stage = "gate" /\ held = <<>> /\ pending = <<>> /\ retryable = FALSE /\ failure = FALSE
  /\ prefix = <<>> /\ inflight = FALSE /\ tail = <<>> /\ terminalSeen = FALSE /\ out = <<>> /\ left = FALSE
-----------------------------------------------------------------------------
(* The upstream *)

Over == answers # <<>> /\ answers[Len(answers)] \in {Eof, Failed}

\* One read is answered: by a chunk, or by the end of the stream, and then by that
\* again.  No frame follows a terminal one.
Arrives ==
  /\ Len(answers) < issued
  /\ \/ Over /\ answers' = Append(answers, answers[Len(answers)]) /\ UNCHANGED <<frames, pos>>
     \/ ~Over /\ \E n \in 1..MaxChunk, ks \in UNION {[1..k -> Kinds] : k \in 0..2} :
          LET all  == frames \o ks
              done == pos + n
          IN  /\ Len(all) = (done + 1) \div 2 /\ Len(all) <= MaxFrames
              /\ \A i \in 1..Len(all) - 1 : all[i] \notin Terminal
              /\ frames' = all /\ pos' = done /\ answers' = Append(answers, [i \in 1..n |-> pos + i])
     \/ ~Over /\ \E end \in {Eof, Failed} : answers' = Append(answers, end) /\ UNCHANGED <<frames, pos>>
  /\ UNCHANGED <<coded, issued, awaited, stage, gateVars, prefix, inflight, tail, terminalSeen, out, left>>
-----------------------------------------------------------------------------
(* The gate *)

\* lastFrameEnd, as a length
FrameEnd(s) == LET e == {i \in 1..Len(s) : Ends(s[i])} IN IF e = {} THEN 0 ELSE CHOOSE i \in e : \A j \in e : j <= i

\* finish
Verdict(again, fails, flight, h, p) ==
  /\ stage' = "verdict" /\ retryable' = again /\ failure' = fails /\ inflight' = flight
  /\ held' = h /\ pending' = p /\ prefix' = h \o p

NextRead == issued' = issued + 1 /\ awaited' = issued + 1
Answered == awaited <= Len(answers)
Answer   == answers[awaited]

\* The prelude: an end of the stream may be retried, unless nothing could be decoded.
GateEnds ==
  /\ stage = "gate" /\ Answered /\ Answer \in {Eof, Failed}
  /\ Verdict(~(Answer = Failed /\ coded /\ held \o pending = <<>>), Answer = Failed, FALSE, held, pending)
  /\ UNCHANGED <<issued, awaited>>

\* A chunk: what is held is bounded, then the complete frames are classified.
GateReads ==
  /\ stage = "gate" /\ Answered /\ Answer \notin {Eof, Failed}
  /\ LET all      == pending \o Answer
         end      == FrameEnd(all)
         complete == SubSeq(all, 1, end)
         rest     == SubSeq(all, end + 1, Len(all))
         decisive == {i \in 1..end : Ends(complete[i]) /\ Kind(complete[i]) \notin Prelude}
         first    == CHOOSE i \in decisive : \A j \in decisive : i <= j
     IN  \/ /\ Len(held) + Len(all) > MaxHeld \/ \E i \in 1..Len(all) : Kind(all[i]) = "big"
            /\ Verdict(FALSE, FALSE, FALSE, held, all) /\ UNCHANGED <<issued, awaited>>
         \/ /\ Len(held) + Len(all) <= MaxHeld /\ \A i \in 1..Len(all) : Kind(all[i]) # "big"
            /\ IF decisive = {}
               THEN /\ held' = held \o complete /\ pending' = rest /\ NextRead
                    /\ UNCHANGED <<stage, retryable, failure, prefix, inflight>>
               ELSE Verdict(Kind(complete[first]) = "transient", FALSE, FALSE, held \o complete, rest) /\ UNCHANGED <<issued, awaited>>

\* Mutant: the read that the time limit overtook is forgotten.
TimeoutMutant == stage = "gate" /\ Verdict(FALSE, FALSE, FALSE, held, pending)
Timeout == stage = "gate" /\ Verdict(FALSE, FALSE, TRUE, held, pending)

\* onAbort: the source is cancelled.
Aborted == stage = "gate" /\ left /\ Verdict(FALSE, TRUE, FALSE, held, pending) /\ UNCHANGED <<issued, awaited>>

Gate ==
  /\ GateEnds \/ GateReads \/ Aborted \/ (Timeout /\ ~Answered /\ UNCHANGED <<issued, awaited>>)
  /\ UNCHANGED <<coded, frames, pos, answers, tail, terminalSeen, out, left>>

\* dispatchWithConnectRetry: a stream that may be retried is dropped for another
\* attempt, or handed on when that is refused.
Decide ==
  /\ stage = "verdict"
  /\ \/ left /\ stage' = "done"
     \/ ~left /\ retryable /\ stage' \in {"again", "body"}
     \/ ~left /\ ~retryable /\ stage' = "body"
  /\ UNCHANGED <<coded, frames, pos, issued, answers, awaited, gateVars, prefix, inflight, tail, terminalSeen, out, left>>
-----------------------------------------------------------------------------
(* The rebuilt stream and the monitor *)

Ended(units) == terminalSeen \/ \E i \in 1..Len(units) : Opens(units[i]) /\ Kind(units[i]) \in Terminal

\* finish of the monitor: the unfinished frame is dropped.
LastWords == out' = out \o (IF terminalSeen THEN <<>> ELSE <<0>>)

\* The monitor gets a chunk: complete frames go out, an overlong one unframed.
Forward(units) ==
  LET all == tail \o units
      end == IF FrameEnd(all) > 0 THEN FrameEnd(all)
             ELSE IF \E i \in 1..Len(all) : Kind(all[i]) = "big" THEN Len(all) ELSE 0
  IN  /\ out' = out \o SubSeq(all, 1, end) /\ tail' = SubSeq(all, end + 1, Len(all))
      /\ terminalSeen' = Ended(SubSeq(all, 1, end)) /\ UNCHANGED stage
Closes == stage' = "done" /\ LastWords /\ UNCHANGED <<tail, terminalSeen>>

\* reconstruct: the prefix, a failure seen by the gate, the read in flight, then reads.
Pull ==
  /\ stage = "body" /\ ~left
  /\ \/ prefix # <<>> /\ Forward(prefix) /\ prefix' = <<>> /\ UNCHANGED <<issued, awaited, inflight>>
     \/ prefix = <<>> /\ failure /\ Closes /\ UNCHANGED <<prefix, issued, awaited, inflight>>
     \/ /\ prefix = <<>> /\ ~failure /\ ~inflight
        /\ NextRead /\ inflight' = TRUE /\ UNCHANGED <<stage, prefix, tail, terminalSeen, out>>
     \/ /\ prefix = <<>> /\ ~failure /\ inflight /\ Answered /\ inflight' = FALSE /\ UNCHANGED <<prefix, issued, awaited>>
        /\ IF Answer \in {Eof, Failed} THEN Closes ELSE Forward(Answer)
  /\ UNCHANGED <<coded, frames, pos, answers, gateVars, left>>

\* The client leaves; a cancel of the stream it reads reaches the source.
Leave ==
  /\ ~left /\ stage \in {"gate", "verdict", "body"} /\ left' = TRUE
  /\ stage' = IF stage = "body" THEN "done" ELSE stage
  /\ UNCHANGED <<coded, frames, pos, issued, answers, awaited, gateVars, prefix, inflight, tail, terminalSeen, out>>

Next == Arrives \/ Gate \/ Decide \/ Pull \/ Leave
Spec == Init /\ [][Next]_vars
-----------------------------------------------------------------------------
\* What reaches the client is, in order and without a gap or a repetition, what the
\* upstream sent, whoever read it first: the gate, a read that a time limit overtook,
\* or the rebuilt stream.  A stream that is retried left no trace.  At its end all
\* complete frames were delivered, and there is one terminal event, the last.
StreamIsWhole ==
  /\ \A i \in 1..Len(out) : out[i] = i \/ (out[i] = 0 /\ i = Len(out))
  /\ stage = "again" => out = <<>>
  /\ stage = "done" /\ ~left =>
       /\ \A u \in 1..2 * (pos \div 2) : \E i \in 1..Len(out) : out[i] = u
       /\ LET ends == {i \in 1..Len(out) : out[i] = 0 \/ (Opens(out[i]) /\ Kind(out[i]) \in Terminal)}
          IN  \E i \in ends : ends = {i} /\ (out[i] = 0 => i = Len(out) /\ (i > 1 => Ends(out[i - 1]) \/ Kind(out[i - 1]) = "big"))
=============================================================================
