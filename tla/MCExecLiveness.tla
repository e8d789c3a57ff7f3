--------------------------- MODULE MCExecLiveness ---------------------------
(***************************************************************************)
(* Executions with and without failures in one run: mayFail says whether a *)
(* store, a broker or a tracker may fail in a behaviour.                   *)
(***************************************************************************)
EXTENDS MCPipelineExecution

VARIABLE mayFail

Failure ==
  \/ \E h \in Handler : TrackRaises(h) \/ PublishError(h)
  \/ cursor' # cursor /\ awards' = awards

LiveNext == ExecNext /\ (Failure => mayFail) /\ UNCHANGED mayFail

LiveSpec ==
  /\ launch /\ mayFail \in BOOLEAN
  /\ [][LiveNext]_<<allVars, mayFail>>
  /\ ExecFairness

\* Without failures every run in which no task is re-forwarded reaches COMPLETED
\* or FAILED, although its entry task is executed for two triggers and the tracker
\* has forgotten most of the events it has seen (on_task_done).
CleanRunsFinish == mayFail \/ FinishesUnlessReforwarded
=============================================================================
