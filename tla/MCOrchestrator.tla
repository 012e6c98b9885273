--------------------------- MODULE MCOrchestrator ---------------------------
(***************************************************************************)
(* Instances of Orchestrator for TLC: the emissions of each instance.      *)
(***************************************************************************)
EXTENDS Orchestrator

\* Nothing, a valid record, an invalid one, and one of each: every way the
\* final status of a lane can be reached.
MixedEmissions ==
  {[good |-> 0, bad |-> 0], [good |-> 1, bad |-> 0],
   [good |-> 0, bad |-> 1], [good |-> 1, bad |-> 1]}

\* A worker that finds a record or none.
PlainEmissions == {[good |-> 0, bad |-> 0], [good |-> 1, bad |-> 0]}

\* A worker that always finds something, unless it fails.
SureEmissions == {[good |-> 1, bad |-> 0]}
=============================================================================
