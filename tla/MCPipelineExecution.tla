------------------------ MODULE MCPipelineExecution -------------------------
(***************************************************************************)
(* Instances of PipelineExecution for TLC: a diamond a -> b, c -> d whose  *)
(* tasks belong to one service, a fan-out a -> b, c and a chain a -> b.    *)
(***************************************************************************)
EXTENDS PipelineExecution

CONSTANTS a, b, c, d, p1, p2, k1, k2, event, seed

Diamond == {<<a, b>>, <<a, c>>, <<b, d>>, <<c, d>>}
FanOut  == {<<a, b>>, <<a, c>>}
Chain   == {<<a, b>>}
Triangle == {<<a, b>>, <<a, c>>, <<b, c>>}

\* All queues are served by one agent process.  The seed, if that process takes
\* it too, comes with a second forwarder and thus a second tracker.
OneProc       == [k \in Tracker |-> p1]
OneService    == [h \in Handler |-> IF h = seed THEN k2 ELSE k1]

\* b and the entry task belong to the service of process p1, c to that of p2.
TwoProcs      == [k \in Tracker |-> IF k = k1 THEN p1 ELSE p2]
TwoServices   == [h \in Handler |-> IF h = <<a, c>> THEN k2 ELSE k1]
=============================================================================
