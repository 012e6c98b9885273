---------------------------- MODULE MCRemoteHunt ----------------------------
EXTENDS RemoteHunt

\* Nothing, a valid record, an invalid one, both, and two valid ones: enough to
\* tell two answers apart.
MixedEmissions ==
  {[good |-> 0, bad |-> 0], [good |-> 1, bad |-> 0], [good |-> 0, bad |-> 1],
   [good |-> 1, bad |-> 1], [good |-> 2, bad |-> 0]}
=============================================================================
