------------------------------ MODULE SettledOnce ------------------------------
(***************************************************************************)
(* What a serial dispatcher promises its callers: a submitted job is       *)
(* settled once and never taken back, and one job at most is being run.    *)
(***************************************************************************)
EXTENDS Naturals, FiniteSets

CONSTANT Job
VARIABLES submitted, running, settled

TypeOK == submitted \subseteq Job /\ running \subseteq submitted /\ settled \subseteq submitted

Init == submitted = {} /\ running = {} /\ settled = {}

\* A step may submit jobs, begin one, and settle jobs it has admitted or refused.
Next ==
  /\ submitted \subseteq submitted' /\ submitted' \subseteq Job
  /\ settled \subseteq settled' /\ settled' \subseteq submitted'
  /\ running' \subseteq submitted' \ settled' /\ Cardinality(running') <= 1
  /\ running \subseteq running' \cup settled'

Spec == Init /\ [][Next]_<<submitted, running, settled>>
=============================================================================
