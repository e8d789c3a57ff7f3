----------------------- MODULE PipelineExecutionProofs ----------------------
(***************************************************************************)
(* PipelineExecution implements RunTracker: what the handlers, queues and  *)
(* the broker do to the run document and the tracker's state is a step of  *)
(* RunTracker or no step at all.  The theorems about RunTracker therefore  *)
(* hold of every pipeline execution, for every graph.                      *)
(***************************************************************************)
EXTENDS PipelineExecution, RunTrackerProofs, FiniteSetTheorems

\* The tracker behind a handler, and the task it executes, exist.
LEMMA HandlerFacts ==
  ASSUME NEW h \in Handler
  PROVE  TrackerFor[h] \in Tracker /\ Host(h) \in Proc /\ Target(h) \in Task
BY EdgeAssumption, HandlerAssumption, ProcOfAssumption DEF Host, Target

\* A handler only ever holds a result status.
StatusInv == work \in [Handler -> Work]

\* The handlers of a launched run are idle.
LEMMA StatusInit == launch => StatusInv
<1>1. Waiting \in Work
  BY RetryAssumption DEF Waiting, Work, EventStatus
<1>. QED BY <1>1 DEF launch, StatusInv

\* Every step keeps the handlers well typed.
LEMMA StatusNext == ASSUME StatusInv, [ExecNext]_allVars PROVE StatusInv'
<1>. USE DEF StatusInv
<1>1. Waiting \in Work
  BY RetryAssumption DEF Waiting, Work, EventStatus
<1>2. \A h \in Handler, w \in Work : Become(h, w) => StatusInv'
  BY DEF Become
<1>3. \A h \in Handler, l \in {"idle", "held", "run", "report", "await", "publish"} :
        Jump(h, l) => StatusInv'
  BY DEF Jump, Work
<1>4. ASSUME NEW h \in Handler, Step(h) PROVE StatusInv'
  <2>1. CASE _consume_queue(h) \/ on_pipeline_event(h)
    BY <2>1, <1>3 DEF _consume_queue, on_pipeline_event
  <2>2. CASE default_handler(h)
    BY <2>2, <1>1, <1>2, <1>3 DEF default_handler
  <2>3. ASSUME NEW s \in EventStatus, Execute(h, s) PROVE StatusInv'
    BY <2>3 DEF Execute, Work
  <2>4. CASE Report(h)
    BY <2>4, <1>3 DEF Report
  <2>5. CASE Track(h)
    BY <2>5, <1>3 DEF Track
  <2>6. CASE TrackReturns(h)
    <3>1. CASE Jump(h, "publish")
      BY <3>1, <1>3
    <3>2. CASE work' = [work EXCEPT ![h].pc = "run", ![h].count = @ + 1]
      BY <3>2 DEF Work
    <3>. QED BY <2>6, <3>1, <3>2 DEF TrackReturns
  <2>7. CASE Publish(h)
    BY <2>7, <1>1, <1>2 DEF Publish
  <2>. QED BY <1>4, <2>1, <2>2, <2>3, <2>4, <2>5, <2>6, <2>7 DEF Step
<1>5. ASSUME NEW h \in Handler, TrackRaises(h) PROVE StatusInv'
  BY <1>5, <1>3 DEF TrackRaises
<1>6. ASSUME NEW h \in Handler, PublishError(h) PROVE StatusInv'
  <2>1. CASE work[h].attempt < MaxAttempts /\ work' = [work EXCEPT ![h].attempt = @ + 1]
    BY <2>1, RetryAssumption DEF Work
  <2>2. CASE Become(h, Waiting)
    BY <2>2, <1>1, <1>2
  <2>. QED BY <1>6, <2>1, <2>2 DEF PublishError
<1>. QED BY <1>4, <1>5, <1>6 DEF ExecNext, StopConsumers, Environment, allVars, execVars

\* What a handler does is a step of its tracker, or does not concern it.
LEMMA StepMaps ==
  ASSUME StatusInv, NEW h \in Handler, Step(h)
  PROVE  Next \/ UNCHANGED vars
<1>0. /\ Host(h) \in Proc /\ TrackerFor[h] \in Tracker /\ Target(h) \in Task
      /\ work[h].status \in EventStatus
  BY HandlerFacts DEF StatusInv, Work
<1>1. CASE \/ _consume_queue(h) \/ on_pipeline_event(h)
           \/ default_handler(h) \/ Publish(h)
  BY <1>1 DEF _consume_queue, on_pipeline_event, default_handler, Publish
<1>2. CASE \E s \in EventStatus : Execute(h, s)
  BY <1>2 DEF Execute
<1>3. CASE Report(h)
  <2>1. CASE BeginTaskDone(Host(h), TrackerFor[h], Target(h), work[h].status)
    BY <2>1, <1>0 DEF Next, TaskDone
  <2>2. CASE UNCHANGED vars
    BY <2>2
  <2>. QED BY <1>3, <2>1, <2>2 DEF Report
<1>4. CASE Track(h) \/ TrackReturns(h)
  BY <1>4, <1>0 DEF Track, TrackReturns, Next, TaskDone
<1>. QED BY <1>1, <1>2, <1>3, <1>4 DEF Step

\* Every step of an execution is a step of RunTracker or leaves it alone.
LEMMA ExecNextMaps ==
  ASSUME StatusInv, [ExecNext]_allVars
  PROVE  [Next]_vars
<1>1. ASSUME NEW h \in Handler, Step(h) PROVE Next \/ UNCHANGED vars
  BY <1>1, StepMaps
<1>2. ASSUME NEW h \in Handler, TrackRaises(h) PROVE Next
  BY <1>2, HandlerFacts DEF TrackRaises, Next
<1>3. ASSUME NEW h \in Handler, PublishError(h) PROVE UNCHANGED vars
  BY <1>3 DEF PublishError
<1>4. CASE StopConsumers
  BY <1>4 DEF StopConsumers
<1>5. CASE Environment
  BY <1>5 DEF Environment, Next
<1>6. CASE UNCHANGED allVars
  BY <1>6 DEF allVars
<1>. QED BY <1>1, <1>2, <1>3, <1>4, <1>5, <1>6 DEF ExecNext

\* An execution of a pipeline is a behaviour of the tracker specification: the
\* arbitrary events of RunTracker cover those that forward() reports.
THEOREM ImplementsTracker == ExecSpec => Spec
<1>1. launch => Init
  BY DEF launch
<1>. QED BY <1>1, StatusInit, StatusNext, ExecNextMaps, PTL DEF ExecSpec, Spec

\* In every execution, whatever the graph and the number of processes, a
\* COMPLETED run has a result for every final task.
THEOREM ExecCompletedRuns == ExecSpec => []CompletedMeansFinalsReported
<1>. QED BY ImplementsTracker, CompletedRuns, PTL

\* In every fault-free execution served by one event loop the stop commands go
\* out once, when the run ends.
THEOREM ExecStopsOnce ==
  ASSUME OneLoop, ~Faults
  PROVE  ExecSpec => []StopsExactlyOnce
<1>1. Spec => []StopsExactlyOnce
  BY StopsOnce
<1>. QED BY <1>1, ImplementsTracker, PTL

(***************************************************************************)
(* Types.                                                                  *)
(***************************************************************************)
ExecTyped ==
  /\ StatusInv
  /\ box \in [Handler -> Nat]
  /\ arrived \in [Task -> SUBSET Task]
  /\ runs \in [Task -> Nat]
  /\ \A h \in Handler : work[h].pc = "held" => h \in Edge

Labels == {"idle", "held", "run", "report", "await", "publish"}

\* Handler h is at l now, and the others are where they were.
MovedTo(h, l) == \A g \in Handler : work'[g].pc = IF g = h THEN l ELSE work[g].pc

LEMMA Moves ==
  ASSUME StatusInv, NEW h \in Handler
  PROVE  /\ \A l \in Labels : Jump(h, l) => MovedTo(h, l)
         /\ Become(h, Waiting) => MovedTo(h, "idle")
BY DEF StatusInv, Work, Jump, Become, MovedTo, Waiting

\* What publishing to some of a task's edges leaves in the queues.
LEMMA CopiesFacts ==
  ASSUME NEW t, NEW S \in SUBSET Out(t), NEW e
  PROVE  Copies(t, S, e) \in Nat /\ (Copies(t, S, e) > 0 => e \in Out(t))
<1>1. IsFiniteSet(S) /\ Cardinality(S) \in Nat
  BY SizeAssumption, FS_Subset, FS_CardinalityType DEF Out
<1>. QED BY <1>1 DEF Copies

\* A task that is no fan-in has one incoming edge at most.
LEMMA OnlyEdge ==
  ASSUME NEW t, ~(Cardinality(In(t)) > 1), NEW e \in In(t), NEW f \in In(t)
  PROVE  e = f
<1>1. IsFiniteSet(In(t)) /\ Cardinality(In(t)) \in Nat
  BY SizeAssumption, FS_Subset, FS_CardinalityType DEF In
<1>2. IsFiniteSet(In(t) \ {e}) /\ Cardinality(In(t) \ {e}) = Cardinality(In(t)) - 1
  BY <1>1, FS_RemoveElement
<1>3. Cardinality(In(t) \ {e}) \in Nat
  BY <1>2, FS_CardinalityType
<1>4. Cardinality(In(t) \ {e}) = 0
  BY <1>1, <1>2, <1>3
<1>5. In(t) \ {e} = {}
  BY <1>2, <1>4, FS_EmptySet
<1>. QED BY <1>5

\* What each step does to the handlers, the queues and the bundles.
LEMMA ExecMoves ==
  ASSUME StatusInv, NEW h \in Handler
  PROVE  /\ _consume_queue(h) => /\ MovedTo(h, "held") /\ work[h].pc = "idle" /\ h \in Edge /\ box[h] > 0
                                 /\ box' = [box EXCEPT ![h] = box[h] - 1] /\ UNCHANGED <<arrived, runs>>
         /\ on_pipeline_event(h) => /\ MovedTo(h, "run") /\ work[h].pc = "idle" /\ h \in Trigger /\ box[h] > 0
                                    /\ box' = [box EXCEPT ![h] = box[h] - 1] /\ UNCHANGED <<arrived, runs>>
         /\ default_handler(h) =>
              /\ work[h].pc = "held" /\ UNCHANGED <<box, runs>>
              /\ \/ MovedTo(h, "idle") /\ UNCHANGED arrived
                 \/ /\ arrived' = [arrived EXCEPT ![Target(h)] = Flushed(Target(h), Parts(h))]
                    /\ \/ MovedTo(h, "run") /\ required_upstreams(Target(h)) \subseteq Parts(h)
                       \/ MovedTo(h, "idle") /\ ~(required_upstreams(Target(h)) \subseteq Parts(h))
         /\ \A s \in EventStatus : Execute(h, s) =>
              /\ MovedTo(h, "report") /\ work[h].pc = "run" /\ UNCHANGED <<box, arrived>>
              /\ runs' = [runs EXCEPT ![Target(h)] = runs[Target(h)] + 1]
         /\ Report(h) => /\ MovedTo(h, "await") \/ MovedTo(h, "publish")
                         /\ work[h].pc = "report" /\ UNCHANGED <<box, arrived, runs>>
         /\ Track(h) => /\ work' = work \/ MovedTo(h, "publish")
                        /\ work[h].pc = "await" /\ UNCHANGED <<box, arrived, runs>>
         /\ TrackReturns(h) => /\ MovedTo(h, "publish")
                                  \/ (MovedTo(h, "run") /\ call[Host(h)].moved /\ work[h].count < MaxReforwards)
                               /\ work[h].pc = "await" /\ UNCHANGED <<box, arrived, runs>>
         /\ TrackRaises(h) => /\ MovedTo(h, "publish") /\ Faults
                              /\ work[h].pc = "await" /\ UNCHANGED <<box, arrived, runs>>
         /\ Publish(h) => /\ MovedTo(h, "idle") /\ work[h].pc = "publish" /\ UNCHANGED <<arrived, runs>>
                          /\ PublishTo(Target(h), Out(Target(h)))
         /\ PublishError(h) => /\ MovedTo(h, "idle") \/ MovedTo(h, "publish")
                               /\ work[h].pc = "publish" /\ UNCHANGED <<arrived, runs>> /\ Faults
                               /\ \E S \in SUBSET Out(Target(h)) : PublishTo(Target(h), S)
<1>1. \A l \in Labels : Jump(h, l) => MovedTo(h, l)
  BY Moves
<1>2. Become(h, Waiting) => MovedTo(h, "idle")
  BY Moves
<1>3. _consume_queue(h) => /\ MovedTo(h, "held") /\ work[h].pc = "idle" /\ h \in Edge /\ box[h] > 0
                           /\ box' = [box EXCEPT ![h] = box[h] - 1] /\ UNCHANGED <<arrived, runs>>
  BY <1>1 DEF _consume_queue, At, Labels
<1>4. on_pipeline_event(h) => /\ MovedTo(h, "run") /\ work[h].pc = "idle" /\ h \in Trigger /\ box[h] > 0
                              /\ box' = [box EXCEPT ![h] = box[h] - 1] /\ UNCHANGED <<arrived, runs>>
  BY <1>1 DEF on_pipeline_event, At, Labels
<1>5. default_handler(h) =>
        /\ work[h].pc = "held" /\ UNCHANGED <<box, runs>>
        /\ \/ MovedTo(h, "idle") /\ UNCHANGED arrived
           \/ /\ arrived' = [arrived EXCEPT ![Target(h)] = Flushed(Target(h), Parts(h))]
              /\ \/ MovedTo(h, "run") /\ required_upstreams(Target(h)) \subseteq Parts(h)
                 \/ MovedTo(h, "idle") /\ ~(required_upstreams(Target(h)) \subseteq Parts(h))
  BY <1>1, <1>2, Zenon DEF default_handler, At, Labels
<1>6. ASSUME NEW s \in EventStatus, Execute(h, s)
      PROVE  /\ MovedTo(h, "report") /\ work[h].pc = "run" /\ UNCHANGED <<box, arrived>>
             /\ runs' = [runs EXCEPT ![Target(h)] = runs[Target(h)] + 1]
  BY <1>6 DEF Execute, At, StatusInv, Work, MovedTo
<1>7. Report(h) => /\ MovedTo(h, "await") \/ MovedTo(h, "publish")
                   /\ work[h].pc = "report" /\ UNCHANGED <<box, arrived, runs>>
  BY <1>1 DEF Report, At, Labels
<1>8. Track(h) => /\ work' = work \/ MovedTo(h, "publish")
                  /\ work[h].pc = "await" /\ UNCHANGED <<box, arrived, runs>>
  BY <1>1 DEF Track, At, Labels
<1>9. TrackReturns(h) => /\ MovedTo(h, "publish")
                            \/ (MovedTo(h, "run") /\ call[Host(h)].moved /\ work[h].count < MaxReforwards)
                         /\ work[h].pc = "await" /\ UNCHANGED <<box, arrived, runs>>
  <2>1. work' = [work EXCEPT ![h].pc = "run", ![h].count = work[h].count + 1] => MovedTo(h, "run")
    BY DEF StatusInv, Work, MovedTo
  <2>. QED BY <1>1, <2>1 DEF TrackReturns, At, Labels
<1>10. TrackRaises(h) => /\ MovedTo(h, "publish") /\ Faults
                         /\ work[h].pc = "await" /\ UNCHANGED <<box, arrived, runs>>
  BY <1>1 DEF TrackRaises, At, Labels, StoreError
<1>11. Publish(h) => /\ MovedTo(h, "idle") /\ work[h].pc = "publish" /\ UNCHANGED <<arrived, runs>>
                     /\ PublishTo(Target(h), Out(Target(h)))
  BY <1>2 DEF Publish, At
<1>12. PublishError(h) => /\ MovedTo(h, "idle") \/ MovedTo(h, "publish")
                          /\ work[h].pc = "publish" /\ UNCHANGED <<arrived, runs>> /\ Faults
                          /\ \E S \in SUBSET Out(Target(h)) : PublishTo(Target(h), S)
  <2>1. work[h].pc = "publish" /\ work' = [work EXCEPT ![h].attempt = work[h].attempt + 1] => MovedTo(h, "publish")
    BY DEF StatusInv, Work, MovedTo
  <2>. QED BY <1>2, <2>1 DEF PublishError, At
<1>. QED BY <1>3, <1>4, <1>5, <1>6, <1>7, <1>8, <1>9, <1>10, <1>11, <1>12, Zenon

\* The queues hold numbers of messages after publishing.
LEMMA PublishTyped ==
  ASSUME box \in [Handler -> Nat], NEW t, NEW S \in SUBSET Out(t), PublishTo(t, S)
  PROVE  /\ box' \in [Handler -> Nat]
         /\ \A e \in Handler : e \in Edge => box'[e] = box[e] + Copies(t, S, e)
         /\ \A h \in Handler : h \notin Edge => box'[h] = box[h]
BY CopiesFacts DEF PublishTo

LEMMA ExecTypedInit == launch => ExecTyped
<1>1. Waiting.pc = "idle"
  BY DEF Waiting
<1>. QED BY <1>1, StatusInit DEF launch, ExecTyped

LEMMA ExecTypedNext == ASSUME ExecTyped, [ExecNext]_allVars PROVE ExecTyped'
<1>0. StatusInv /\ StatusInv'
  BY StatusNext DEF ExecTyped
<1>. DEFINE Goal == /\ box' \in [Handler -> Nat] /\ arrived' \in [Task -> SUBSET Task] /\ runs' \in [Task -> Nat]
                    /\ \A h \in Handler : work'[h].pc = "held" => h \in Edge
<1>1. ASSUME NEW h \in Handler, Step(h) \/ TrackRaises(h) \/ PublishError(h) PROVE Goal
  <2>0. Target(h) \in Task
    BY HandlerFacts
  <2>1. ASSUME NEW l, MovedTo(h, l), l = "held" => h \in Edge
        PROVE  \A g \in Handler : work'[g].pc = "held" => g \in Edge
    BY <2>1 DEF MovedTo, ExecTyped
  <2>2. CASE _consume_queue(h) \/ on_pipeline_event(h)
    <3>1. /\ (MovedTo(h, "held") /\ h \in Edge) \/ MovedTo(h, "run")
          /\ box[h] > 0 /\ box' = [box EXCEPT ![h] = box[h] - 1] /\ UNCHANGED <<arrived, runs>>
      BY <1>0, <2>2, ExecMoves
    <3>. QED BY <2>1, <3>1 DEF ExecTyped
  <2>3. CASE default_handler(h)
    <3>1. /\ work[h].pc = "held" /\ UNCHANGED <<box, runs>>
          /\ MovedTo(h, "idle") \/ MovedTo(h, "run")
          /\ arrived' = arrived \/ arrived' = [arrived EXCEPT ![Target(h)] = Flushed(Target(h), Parts(h))]
      BY <1>0, <2>3, ExecMoves
    <3>2. h \in Edge /\ h[1] \in Task
      BY <3>1, EdgeAssumption DEF ExecTyped
    <3>3. Flushed(Target(h), Parts(h)) \subseteq Task
      BY <2>0, <3>2 DEF ExecTyped, Flushed, Parts
    <3>. QED BY <2>0, <2>1, <3>1, <3>3 DEF ExecTyped
  <2>4. ASSUME NEW s \in EventStatus, Execute(h, s) PROVE Goal
    <3>1. /\ MovedTo(h, "report") /\ UNCHANGED <<box, arrived>>
          /\ runs' = [runs EXCEPT ![Target(h)] = runs[Target(h)] + 1]
      BY <1>0, <2>4, ExecMoves
    <3>. QED BY <2>0, <2>1, <3>1 DEF ExecTyped
  <2>5. CASE Report(h) \/ Track(h) \/ TrackReturns(h) \/ TrackRaises(h)
    <3>1. /\ work' = work \/ MovedTo(h, "await") \/ MovedTo(h, "publish") \/ MovedTo(h, "run")
          /\ UNCHANGED <<box, arrived, runs>>
      BY <1>0, <2>5, ExecMoves
    <3>. QED BY <2>1, <3>1 DEF ExecTyped
  <2>6. CASE Publish(h) \/ PublishError(h)
    <3>1. /\ MovedTo(h, "idle") \/ MovedTo(h, "publish")
          /\ UNCHANGED <<arrived, runs>>
          /\ \E S \in SUBSET Out(Target(h)) : PublishTo(Target(h), S)
      BY <1>0, <2>6, ExecMoves
    <3>2. box' \in [Handler -> Nat]
      BY <3>1, PublishTyped DEF ExecTyped
    <3>. QED BY <2>1, <3>1, <3>2 DEF ExecTyped
  <2>. QED BY <1>1, <2>2, <2>3, <2>4, <2>5, <2>6 DEF Step
<1>2. ASSUME UNCHANGED <<box, arrived, work, runs>> PROVE Goal
  BY <1>2 DEF ExecTyped
<1>3. StopConsumers \/ Environment \/ UNCHANGED allVars => UNCHANGED <<box, arrived, work, runs>>
  BY DEF StopConsumers, Environment, allVars, execVars
<1>4. Goal
  BY <1>1, <1>2, <1>3 DEF ExecNext
<1>. QED BY <1>0, <1>4 DEF ExecTyped

(***************************************************************************)
(* How results flow.  Let D be a set of tasks that only grows and in which *)
(* a task is before its result is published.  Then every message, every    *)
(* filed part and every execution under way comes from tasks of D.         *)
(***************************************************************************)
Busy == {"run", "report", "await", "publish"}

QueuedOK(D)  == \A e \in Edge : box[e] > 0 => e[1] \in D
ArrivedOK(D) == \A t \in Task : arrived[t] \subseteq D
HeldOK(D)    == \A h \in Edge : work[h].pc # "idle" => h[1] \in D
BusyOK(D)    == \A h \in Handler : work[h].pc \in Busy => \A e \in In(Target(h)) : e[1] \in D
DoneOK(D)    == \A h \in Handler : work[h].pc = "publish" => Target(h) \in D
FlowOK(D)    == QueuedOK(D) /\ ArrivedOK(D) /\ HeldOK(D) /\ BusyOK(D) /\ DoneOK(D)

EntryIsSource == In(Entry) = {}

LEMMA FlowInit == ASSUME launch, NEW D PROVE FlowOK(D)
<1>1. Waiting.pc = "idle"
  BY DEF Waiting
<1>2. \A e \in Edge : box[e] = 0
  BY HandlerAssumption DEF launch, Handler
<1>. QED BY <1>1, <1>2 DEF launch, FlowOK, QueuedOK, ArrivedOK, HeldOK, BusyOK, DoneOK, Busy, Handler

\* What a move of one handler has to show.
LEMMA FlowMove ==
  ASSUME NEW D, NEW E, D \subseteq E, FlowOK(D), NEW h \in Handler, NEW l, MovedTo(h, l),
         l # "idle" /\ h \in Edge => h[1] \in E,
         l \in Busy => \A e \in In(Target(h)) : e[1] \in E,
         l = "publish" => Target(h) \in E
  PROVE  HeldOK(E)' /\ BusyOK(E)' /\ DoneOK(E)'
<1>1. HeldOK(E)'
  BY DEF FlowOK, HeldOK, MovedTo, Handler
<1>2. BusyOK(E)'
  BY DEF FlowOK, BusyOK, MovedTo
<1>3. DoneOK(E)'
  BY DEF FlowOK, DoneOK, MovedTo
<1>. QED BY <1>1, <1>2, <1>3

\* Every step keeps the flow, if a handler publishes for tasks of E only.
LEMMA FlowNext ==
  ASSUME EntryIsSource, ExecTyped, [ExecNext]_allVars, NEW D, NEW E, D \subseteq E, FlowOK(D),
         \A h \in Handler : work'[h].pc = "publish" => work[h].pc = "publish" \/ Target(h) \in E
  PROVE  FlowOK(E)'
<1>0. StatusInv
  BY DEF ExecTyped
<1>1. ASSUME UNCHANGED <<box, arrived>> PROVE QueuedOK(E)' /\ ArrivedOK(E)'
  BY <1>1 DEF FlowOK, QueuedOK, ArrivedOK
<1>2. ASSUME NEW h \in Handler, Step(h) \/ TrackRaises(h) \/ PublishError(h) PROVE FlowOK(E)'
  <2>0. /\ Target(h) \in Task
        /\ h \in Edge /\ work[h].pc # "idle" => h[1] \in E
        /\ work[h].pc \in Busy => \A e \in In(Target(h)) : e[1] \in E
        /\ work'[h].pc = "publish" => Target(h) \in E
        /\ work[h].pc = "publish" => Target(h) \in E
    BY HandlerFacts DEF FlowOK, HeldOK, BusyOK, DoneOK
  <2>1. CASE _consume_queue(h)
    <3>1. /\ MovedTo(h, "held") /\ h \in Edge /\ box[h] > 0
          /\ box' = [box EXCEPT ![h] = box[h] - 1] /\ UNCHANGED arrived
      BY <1>0, <2>1, ExecMoves
    <3>2. QueuedOK(E)' /\ ArrivedOK(E)'
      BY <3>1 DEF FlowOK, QueuedOK, ArrivedOK, ExecTyped, Handler
    <3>3. h[1] \in E
      BY <3>1 DEF FlowOK, QueuedOK
    <3>4. HeldOK(E)' /\ BusyOK(E)' /\ DoneOK(E)'
      BY <3>1, <3>3, FlowMove DEF Busy
    <3>. QED BY <3>2, <3>4 DEF FlowOK
  <2>2. CASE on_pipeline_event(h)
    <3>1. /\ MovedTo(h, "run") /\ h \in Trigger /\ box[h] > 0
          /\ box' = [box EXCEPT ![h] = box[h] - 1] /\ UNCHANGED arrived
      BY <1>0, <2>2, ExecMoves
    <3>2. h \notin Edge /\ Target(h) = Entry
      BY <3>1, HandlerAssumption DEF Target
    <3>3. QueuedOK(E)' /\ ArrivedOK(E)'
      BY <3>1 DEF FlowOK, QueuedOK, ArrivedOK, ExecTyped, Handler
    <3>4. HeldOK(E)' /\ BusyOK(E)' /\ DoneOK(E)'
      BY <3>1, <3>2, FlowMove DEF Busy, EntryIsSource
    <3>. QED BY <3>3, <3>4 DEF FlowOK
  <2>3. CASE default_handler(h)
    <3>1. work[h].pc = "held" /\ UNCHANGED box /\ h \in Edge
      BY <1>0, <2>3, ExecMoves DEF ExecTyped
    <3>2. h[1] \in E /\ Target(h) = h[2] /\ h \in In(Target(h))
      BY <2>0, <3>1 DEF Target, In
    <3>3. Parts(h) \subseteq E
      BY <2>0, <3>2 DEF Parts, FlowOK, ArrivedOK
    <3>4. CASE MovedTo(h, "idle") /\ UNCHANGED arrived
      BY <1>1, <3>1, <3>4, FlowMove DEF FlowOK, Busy
    <3>5. ASSUME arrived' = [arrived EXCEPT ![Target(h)] = Flushed(Target(h), Parts(h))]
          PROVE  QueuedOK(E)' /\ ArrivedOK(E)'
      <4>1. Flushed(Target(h), Parts(h)) \subseteq E
        BY <3>3 DEF Flushed
      <4>. QED BY <3>1, <3>5, <4>1 DEF FlowOK, QueuedOK, ArrivedOK, ExecTyped
    <3>6. CASE /\ arrived' = [arrived EXCEPT ![Target(h)] = Flushed(Target(h), Parts(h))]
               /\ MovedTo(h, "idle")
      BY <3>5, <3>6, FlowMove DEF FlowOK, Busy
    <3>7. CASE /\ arrived' = [arrived EXCEPT ![Target(h)] = Flushed(Target(h), Parts(h))]
               /\ MovedTo(h, "run") /\ required_upstreams(Target(h)) \subseteq Parts(h)
      <4>1. ASSUME NEW e \in In(Target(h)) PROVE e[1] \in E
        <5>1. CASE Cardinality(In(Target(h))) > 1
          BY <3>3, <3>7, <5>1 DEF required_upstreams
        <5>2. CASE ~(Cardinality(In(Target(h))) > 1)
          BY <3>2, <5>2, OnlyEdge
        <5>. QED BY <5>1, <5>2
      <4>. QED BY <3>2, <3>5, <3>7, <4>1, FlowMove DEF FlowOK, Busy
    <3>. QED BY <1>0, <2>3, <3>4, <3>6, <3>7, ExecMoves
  <2>4. ASSUME NEW s \in EventStatus, Execute(h, s) PROVE FlowOK(E)'
    <3>1. MovedTo(h, "report") /\ work[h].pc = "run" /\ UNCHANGED <<box, arrived>>
      BY <1>0, <2>4, ExecMoves
    <3>. QED BY <1>1, <2>0, <3>1, FlowMove DEF FlowOK, Busy
  <2>5. CASE Report(h) \/ Track(h) \/ TrackReturns(h) \/ TrackRaises(h)
    <3>1. /\ work' = work \/ MovedTo(h, "await") \/ MovedTo(h, "publish") \/ MovedTo(h, "run")
          /\ work[h].pc \in {"report", "await"} /\ UNCHANGED <<box, arrived>>
      BY <1>0, <2>5, ExecMoves
    <3>2. CASE work' = work
      BY <1>1, <3>1, <3>2 DEF FlowOK, HeldOK, BusyOK, DoneOK
    <3>3. ASSUME NEW l \in {"await", "publish", "run"}, MovedTo(h, l) PROVE FlowOK(E)'
      <4>1. work'[h].pc = l
        BY <3>3 DEF MovedTo
      <4>. QED BY <1>1, <2>0, <3>1, <3>3, <4>1, FlowMove DEF FlowOK, Busy
    <3>. QED BY <3>1, <3>2, <3>3
  <2>6. CASE Publish(h) \/ PublishError(h)
    <3>1. /\ MovedTo(h, "idle") \/ MovedTo(h, "publish")
          /\ work[h].pc = "publish" /\ UNCHANGED arrived
          /\ \E S \in SUBSET Out(Target(h)) : PublishTo(Target(h), S)
      BY <1>0, <2>6, ExecMoves
    <3>2. PICK S \in SUBSET Out(Target(h)) : PublishTo(Target(h), S)
      BY <3>1
    <3>3. ASSUME NEW e \in Edge, box'[e] > 0 PROVE e[1] \in E
      <4>1. box'[e] = box[e] + Copies(Target(h), S, e) /\ box[e] \in Nat
        BY <3>2, PublishTyped DEF ExecTyped, Handler
      <4>2. CASE box[e] > 0
        BY <4>2 DEF FlowOK, QueuedOK
      <4>3. CASE ~(box[e] > 0)
        <5>1. Copies(Target(h), S, e) > 0
          BY <3>3, <4>1, <4>3, CopiesFacts
        <5>2. e \in Out(Target(h))
          BY <5>1, CopiesFacts
        <5>. QED BY <2>0, <3>1, <5>2 DEF Out
      <4>. QED BY <4>2, <4>3
    <3>4. QueuedOK(E)' /\ ArrivedOK(E)'
      BY <3>1, <3>3 DEF FlowOK, QueuedOK, ArrivedOK
    <3>5. ASSUME NEW l \in {"idle", "publish"}, MovedTo(h, l) PROVE HeldOK(E)' /\ BusyOK(E)' /\ DoneOK(E)'
      BY <2>0, <3>1, <3>5, FlowMove DEF Busy
    <3>. QED BY <3>1, <3>4, <3>5 DEF FlowOK
  <2>. QED BY <1>2, <2>1, <2>2, <2>3, <2>4, <2>5, <2>6 DEF Step
<1>3. CASE UNCHANGED <<box, arrived, work>>
  BY <1>1, <1>3 DEF FlowOK, HeldOK, BusyOK, DoneOK
<1>4. StopConsumers \/ Environment \/ UNCHANGED allVars => UNCHANGED <<box, arrived, work>>
  BY DEF StopConsumers, Environment, allVars, execVars
<1>. QED BY <1>2, <1>3, <1>4 DEF ExecNext

(***************************************************************************)
(* A COMPLETED run executed every task.  D is the set of executed tasks,   *)
(* and every copy of the run document names results of such tasks only.    *)
(***************************************************************************)
Ran == {t \in Task : runs[t] > 0}

DocIn(d, D)  == \A t \in Task : d.task[t] \in EventStatus => t \in D
CallIn(c, D) == DocIn(c.snap, D) /\ (c.pc \in TrackerPC => c.task \in D)
TrackIn(D)   == DocIn(hot, D) /\ \A p \in Proc : CallIn(call[p], D)

ReportsIn(D) == \A h \in Handler : work[h].pc \in {"report", "await", "publish"} => Target(h) \in D

RanInv ==
  /\ IInv /\ ExecTyped /\ FlowOK(Ran) /\ ReportsIn(Ran) /\ TrackIn(Ran)
  /\ \A e \in Edge : e[2] \in Ran => e[1] \in Ran

\* on_task_done and the editors write only what the copy or the call names.
LEMMA AppliedIn ==
  ASSUME NEW c \in Call, NEW D, c.op \in EventStatus, CallIn(c, D), c.pc \in TrackerPC
  PROVE  DocIn(Applied(c), D)
<1>1. Applied(c).task = [c.snap.task EXCEPT ![c.task] = c.op]
  BY DEF Applied, FinalsDone, Reforwarded, model_dump, Call, Doc
<1>2. c.snap.task \in [Task -> TaskStatus] /\ c.task \in Task
  BY DEF Call, Doc
<1>. QED BY <1>1, <1>2 DEF DocIn, CallIn

LEMMA EditedIn ==
  ASSUME NEW c \in Call, NEW D, c.op \in Edit, CallIn(c, D)
  PROVE  DocIn(Edited(c), D)
<1>1. Edited(c).task = c.snap.task
  BY DEF Edited, Edit, Call, Doc
<1>. QED BY <1>1 DEF DocIn, CallIn

LEMMA IdleIn == ASSUME NEW D PROVE CallIn(Idle, D) /\ DocIn(seed_initial_run, D)
<1>0. \A t \in Task : seed_initial_run.task[t] = "PENDING"
  BY DEF seed_initial_run
<1>1. DocIn(seed_initial_run, D)
  BY <1>0 DEF DocIn, EventStatus
<1>2. NoDoc.task = seed_initial_run.task
  BY DEF NoDoc, seed_initial_run
<1>3. Idle.snap = NoDoc /\ Idle.pc = "idle"
  BY DEF Idle
<1>. QED BY <1>1, <1>2, <1>3 DEF CallIn, DocIn, TrackerPC

\* A step that changes one call and leaves the document alone.
LEMMA CallMoves ==
  ASSUME IInv, NEW D, NEW E, D \subseteq E, TrackIn(D), UNCHANGED hot,
         NEW p \in Proc, NEW c, CallIn(c, E), call' = [call EXCEPT ![p] = c]
  PROVE  TrackIn(E)'
BY DEF IInv, TypeOK, TrackIn, DocIn, CallIn

\* The steps of the tracker that an execution takes, with events about tasks of D.
TrackerStep(D) ==
  \/ \E p \in Proc, k \in Tracker, t \in Task \cap D, s \in EventStatus : BeginTaskDone(p, k, t, s)
  \/ \E p \in Proc : \/ ReadPlan(p) \/ ReadSequence(p) \/ UpsertSequence(p) \/ Persist(p)
                     \/ Notify(p) \/ FinishEdit(p) \/ StoreError(p)
  \/ \E p \in Proc, e \in Edits : BeginEdit(p, e)
  \/ \E k \in Tracker : Forget(k)
  \/ UNCHANGED vars

\* Handlers report on tasks of D only, so every step is such a step.
LEMMA ExecTracks ==
  ASSUME StatusInv, NEW D, ReportsIn(D), [ExecNext]_allVars PROVE TrackerStep(D)
<1>1. ASSUME NEW h \in Handler, Step(h) PROVE TrackerStep(D)
  <2>0. /\ Host(h) \in Proc /\ TrackerFor[h] \in Tracker /\ Target(h) \in Task
        /\ work[h].status \in EventStatus
    BY HandlerFacts DEF StatusInv, Work
  <2>1. CASE \/ _consume_queue(h) \/ on_pipeline_event(h)
             \/ default_handler(h) \/ Publish(h)
    BY <2>1 DEF _consume_queue, on_pipeline_event, default_handler, Publish, TrackerStep
  <2>2. CASE \E s \in EventStatus : Execute(h, s)
    BY <2>2 DEF Execute, TrackerStep
  <2>3. CASE Report(h)
    <3>1. Target(h) \in Task \cap D
      BY <2>0, <2>3 DEF Report, At, ReportsIn
    <3>2. CASE BeginTaskDone(Host(h), TrackerFor[h], Target(h), work[h].status)
      BY <2>0, <3>1, <3>2 DEF TrackerStep
    <3>. QED BY <2>3, <3>2 DEF Report, TrackerStep
  <2>4. CASE Track(h) \/ TrackReturns(h)
    BY <2>4, <2>0 DEF Track, TrackReturns, TrackerStep
  <2>. QED BY <1>1, <2>1, <2>2, <2>3, <2>4 DEF Step
<1>2. ASSUME NEW h \in Handler, TrackRaises(h) PROVE TrackerStep(D)
  BY <1>2, HandlerFacts DEF TrackRaises, TrackerStep
<1>3. ASSUME NEW h \in Handler, PublishError(h) PROVE TrackerStep(D)
  BY <1>3 DEF PublishError, TrackerStep
<1>4. StopConsumers \/ Environment \/ UNCHANGED allVars => TrackerStep(D)
  BY DEF StopConsumers, Environment, allVars, TrackerStep
<1>. QED BY <1>1, <1>2, <1>3, <1>4 DEF ExecNext

\* Such a step keeps the copies in D.
LEMMA TrackNext ==
  ASSUME IInv, NEW D, NEW E, D \subseteq E, TrackIn(D), TrackerStep(D)
  PROVE  TrackIn(E)'
<1>0. call \in [Proc -> Call] /\ hot \in Doc /\ \A p \in Proc : CallOK(call[p])
  BY DEF IInv, TypeOK
<1>1. ASSUME NEW p \in Proc, NEW k \in Tracker, NEW t \in Task \cap D, NEW s \in EventStatus,
             BeginTaskDone(p, k, t, s)
      PROVE  TrackIn(E)'
  <2>1. PICK c : c = [Idle EXCEPT !.pc = IF s = "FAILED" /\ Reforward THEN "plan" ELSE "persist",
                                  !.op = s, !.tracker = k, !.task = t, !.snap = hot]
    OBVIOUS
  <2>2. c.snap = hot /\ c.task = t
    BY <2>1, IdleType DEF Call
  <2>3. CallIn(c, E)
    BY <1>1, <2>2 DEF CallIn, TrackIn, DocIn
  <2>4. call' = [call EXCEPT ![p] = c] /\ UNCHANGED hot
    BY <1>1, <2>1 DEF BeginTaskDone
  <2>. QED BY <2>3, <2>4, CallMoves
<1>2. ASSUME NEW p \in Proc, NEW e \in Edits, BeginEdit(p, e) PROVE TrackIn(E)'
  <2>1. PICK c : c = [Idle EXCEPT !.pc = "edit", !.op = e, !.snap = hot]
    OBVIOUS
  <2>2. c.snap = hot /\ c.pc = "edit"
    BY <2>1, IdleType DEF Call
  <2>3. CallIn(c, E)
    BY <2>2 DEF CallIn, TrackIn, DocIn, TrackerPC
  <2>4. call' = [call EXCEPT ![p] = c] /\ UNCHANGED hot
    BY <1>2, <2>1 DEF BeginEdit
  <2>. QED BY <2>3, <2>4, CallMoves
<1>3. ASSUME NEW p \in Proc, Return(p), UNCHANGED hot PROVE TrackIn(E)'
  BY <1>3, IdleIn, CallMoves DEF Return
<1>4. ASSUME NEW p \in Proc, UNCHANGED hot, call[p].pc \in TrackerPC, NEW c,
             c.snap = call[p].snap, c.task = call[p].task, call' = [call EXCEPT ![p] = c]
      PROVE  TrackIn(E)'
  <2>1. CallIn(c, E)
    BY <1>4 DEF TrackIn, CallIn, DocIn
  <2>. QED BY <1>4, <2>1, CallMoves
<1>5. ASSUME NEW p \in Proc, ReadPlan(p) PROVE TrackIn(E)'
  <2>1. CASE Return(p)
    BY <1>3, <1>5, <2>1 DEF ReadPlan
  <2>2. ASSUME NEW l, Goto(p, l) PROVE TrackIn(E)'
    <3>1. PICK c : c = [call[p] EXCEPT !.pc = l]
      OBVIOUS
    <3>2. c.snap = call[p].snap /\ c.task = call[p].task /\ call' = [call EXCEPT ![p] = c]
      BY <1>0, <2>2, <3>1 DEF Goto, Call
    <3>. QED BY <1>4, <1>5, <3>2 DEF ReadPlan, TrackerPC
  <2>. QED BY <1>5, <2>1, <2>2 DEF ReadPlan
<1>6. ASSUME NEW p \in Proc, ReadSequence(p) PROVE TrackIn(E)'
  <2>1. PICK c : c = call'[p]
    OBVIOUS
  <2>2. c.snap = call[p].snap /\ c.task = call[p].task /\ call' = [call EXCEPT ![p] = c]
    BY <1>0, <1>6, <2>1 DEF ReadSequence, Call
  <2>. QED BY <1>4, <1>6, <2>2 DEF ReadSequence, TrackerPC
<1>7. ASSUME NEW p \in Proc, UpsertSequence(p) PROVE TrackIn(E)'
  <2>1. PICK c : c = call'[p]
    OBVIOUS
  <2>2. c.snap = call[p].snap /\ c.task = call[p].task /\ call' = [call EXCEPT ![p] = c]
    BY <1>0, <1>7, <2>1 DEF UpsertSequence, Call
  <2>. QED BY <1>4, <1>7, <2>2 DEF UpsertSequence, TrackerPC
<1>8. ASSUME NEW p \in Proc, Persist(p) PROVE TrackIn(E)'
  <2>1. /\ call[p] \in Call /\ call[p].op \in EventStatus /\ call[p].pc \in TrackerPC
        /\ CallIn(call[p], E)
    BY <1>0, <1>8 DEF Persist, CallOK, TrackerPC, TrackIn, CallIn, DocIn
  <2>2. DocIn(hot', E)
    BY <1>8, <2>1, AppliedIn DEF Persist, update_run, TrackIn, DocIn
  <2>3. PICK c : c = call'[p]
    OBVIOUS
  <2>4. call' = [call EXCEPT ![p] = c] /\ CallIn(c, E)
    <3>1. CASE Return(p)
      BY <1>0, <2>3, <3>1, IdleIn DEF Return
    <3>2. CASE Goto(p, "notify")
      BY <1>0, <2>1, <2>3, <3>2 DEF Goto, Call, CallIn
    <3>. QED BY <1>8, <3>1, <3>2 DEF Persist
  <2>5. \A q \in Proc : CallIn(call'[q], E)
    BY <1>0, <2>4 DEF TrackIn, CallIn, DocIn
  <2>. QED BY <2>2, <2>5 DEF TrackIn, CallIn, DocIn
<1>9. ASSUME NEW p \in Proc, FinishEdit(p) PROVE TrackIn(E)'
  <2>1. call[p] \in Call /\ call[p].op \in Edit /\ CallIn(call[p], E)
    BY <1>0, <1>9 DEF FinishEdit, CallOK, TrackIn, CallIn, DocIn
  <2>2. DocIn(hot', E)
    BY <1>9, <2>1, EditedIn DEF FinishEdit, update_run, TrackIn, DocIn
  <2>3. \A q \in Proc : CallIn(call'[q], E)
    BY <1>0, <1>9, IdleIn DEF FinishEdit, Return, TrackIn, CallIn, DocIn
  <2>. QED BY <2>2, <2>3 DEF TrackIn, CallIn, DocIn
<1>10. ASSUME NEW p \in Proc, Notify(p) \/ StoreError(p) PROVE TrackIn(E)'
  BY <1>3, <1>10 DEF Notify, StoreError
<1>11. CASE UNCHANGED <<hot, call>>
  BY <1>11 DEF TrackIn, CallIn, DocIn
<1>. QED BY <1>1, <1>2, <1>5, <1>6, <1>7, <1>8, <1>9, <1>10, <1>11 DEF TrackerStep, Forget, vars

\* A step executes at most one task, and from where handlers report and publish.
LEMMA ExecRuns ==
  ASSUME ExecTyped, [ExecNext]_allVars
  PROVE  /\ runs' = runs \/ \E h \in Handler : /\ work[h].pc = "run" /\ MovedTo(h, "report")
                                               /\ runs' = [runs EXCEPT ![Target(h)] = runs[Target(h)] + 1]
         /\ \A h \in Handler : work'[h].pc \in {"report", "await", "publish"} =>
              \/ work[h].pc \in {"report", "await", "publish"}
              \/ runs' = [runs EXCEPT ![Target(h)] = runs[Target(h)] + 1]
         /\ \A h \in Handler : work'[h].pc = "publish" => work[h].pc \in {"report", "await", "publish"}
<1>. DEFINE Goal ==
       /\ runs' = runs \/ \E h \in Handler : /\ work[h].pc = "run" /\ MovedTo(h, "report")
                                            /\ runs' = [runs EXCEPT ![Target(h)] = runs[Target(h)] + 1]
       /\ \A h \in Handler : work'[h].pc \in {"report", "await", "publish"} =>
            \/ work[h].pc \in {"report", "await", "publish"}
            \/ runs' = [runs EXCEPT ![Target(h)] = runs[Target(h)] + 1]
       /\ \A h \in Handler : work'[h].pc = "publish" => work[h].pc \in {"report", "await", "publish"}
<1>0. StatusInv
  BY DEF ExecTyped
<1>1. ASSUME NEW h \in Handler, Step(h) \/ TrackRaises(h) \/ PublishError(h) PROVE Goal
  <2>1. CASE _consume_queue(h) \/ on_pipeline_event(h) \/ default_handler(h) \/ Publish(h)
    <3>1. UNCHANGED runs /\ (MovedTo(h, "held") \/ MovedTo(h, "run") \/ MovedTo(h, "idle"))
      BY <1>0, <2>1, ExecMoves
    <3>. QED BY <3>1 DEF MovedTo
  <2>2. ASSUME NEW s \in EventStatus, Execute(h, s) PROVE Goal
    <3>1. /\ work[h].pc = "run" /\ MovedTo(h, "report")
          /\ runs' = [runs EXCEPT ![Target(h)] = runs[Target(h)] + 1]
      BY <1>0, <2>2, ExecMoves
    <3>. QED BY <3>1 DEF MovedTo
  <2>3. CASE Report(h) \/ Track(h) \/ TrackReturns(h) \/ TrackRaises(h) \/ PublishError(h)
    <3>1. /\ UNCHANGED runs /\ work[h].pc \in {"report", "await", "publish"}
          /\ work' = work \/ \E l \in Labels : MovedTo(h, l)
      BY <1>0, <2>3, ExecMoves DEF Labels
    <3>. QED BY <3>1 DEF MovedTo
  <2>. QED BY <1>1, <2>1, <2>2, <2>3 DEF Step
<1>2. ASSUME UNCHANGED <<work, runs>> PROVE Goal
  BY <1>2
<1>3. StopConsumers \/ Environment \/ UNCHANGED allVars => UNCHANGED <<work, runs>>
  BY DEF StopConsumers, Environment, allVars, execVars
<1>4. Goal
  BY <1>1, <1>2, <1>3 DEF ExecNext
<1>. QED BY <1>4

LEMMA RanInit == launch => RanInv
<1>. SUFFICES ASSUME launch PROVE RanInv
  OBVIOUS
<1>1. IInv /\ ExecTyped
  BY InitIInv, ExecTypedInit DEF launch
<1>2. FlowOK(Ran)
  BY FlowInit
<1>3. Ran = {}
  BY DEF launch, Ran
<1>4. ReportsIn(Ran)
  BY DEF launch, ReportsIn, Waiting
<1>5. TrackIn(Ran)
  BY IdleIn DEF launch, Init, TrackIn
<1>. QED BY <1>1, <1>2, <1>3, <1>4, <1>5 DEF RanInv

LEMMA RanNext == ASSUME EntryIsSource, RanInv, [ExecNext]_allVars PROVE RanInv'
<1>1. IInv' /\ ExecTyped' /\ ExecTyped
  BY ExecNextMaps, NextIInv, ExecTypedNext DEF RanInv, ExecTyped
<1>2. PICK D, E : D = Ran /\ E = Ran'
  OBVIOUS
<1>3. FlowOK(D) /\ ReportsIn(D) /\ TrackIn(D) /\ IInv /\ StatusInv
  BY <1>2 DEF RanInv, ExecTyped
<1>4. D \subseteq E
  BY <1>1, <1>2, ExecRuns, HandlerFacts DEF Ran, ExecTyped
<1>5. \A h \in Handler : work'[h].pc = "publish" => work[h].pc = "publish" \/ Target(h) \in E
  BY <1>1, <1>3, <1>4, ExecRuns DEF ReportsIn
<1>6. FlowOK(E)'
  BY <1>1, <1>3, <1>4, <1>5, FlowNext
<1>7. ReportsIn(E)'
  <2>. SUFFICES ASSUME NEW h \in Handler, work'[h].pc \in {"report", "await", "publish"} PROVE Target(h) \in E
    BY DEF ReportsIn
  <2>1. CASE work[h].pc \in {"report", "await", "publish"}
    BY <1>3, <1>4, <2>1 DEF ReportsIn
  <2>2. CASE runs' = [runs EXCEPT ![Target(h)] = runs[Target(h)] + 1]
    BY <1>1, <1>2, <2>2, HandlerFacts DEF Ran, ExecTyped
  <2>. QED BY <1>1, <2>1, <2>2, ExecRuns
<1>8. TrackIn(E)'
  BY <1>3, <1>4, ExecTracks, TrackNext
<1>9. ASSUME NEW e \in Edge, e[2] \in E PROVE e[1] \in E
  <2>1. CASE e[2] \in D
    BY <1>2, <1>4, <2>1 DEF RanInv
  <2>2. CASE e[2] \notin D
    <3>1. PICK h \in Handler : /\ work[h].pc = "run"
                               /\ runs' = [runs EXCEPT ![Target(h)] = runs[Target(h)] + 1]
      BY <1>1, <1>2, <1>9, <2>2, ExecRuns DEF Ran
    <3>2. e[2] = Target(h)
      BY <1>1, <1>2, <1>9, <2>2, <3>1, HandlerFacts DEF Ran, ExecTyped
    <3>3. e \in In(Target(h))
      BY <3>2 DEF In
    <3>. QED BY <1>3, <1>4, <3>1, <3>3 DEF FlowOK, BusyOK, Busy
  <2>. QED BY <2>1, <2>2
<1>10. FlowOK(Ran)' /\ ReportsIn(Ran)' /\ TrackIn(Ran)'
  BY <1>2, <1>6, <1>7, <1>8 DEF FlowOK, QueuedOK, ArrivedOK, HeldOK, BusyOK, DoneOK, ReportsIn,
     TrackIn, CallIn, DocIn
<1>. QED BY <1>1, <1>2, <1>9, <1>10 DEF RanInv

\* Every task is a final task or leads to one: a set of tasks that holds the finals
\* and, with a task, those it depends on, is the set of all tasks.
FinalsCover ==
  \A S \in SUBSET Task :
    Final \subseteq S /\ (\A e \in Edge : e[2] \in S => e[1] \in S) => S = Task

\* For every graph whose entry depends on nothing and whose tasks all lead to a final
\* one, any number of processes, and any loss or repetition of messages, reports and
\* writes: a COMPLETED run has executed every task (default_handler, forward,
\* call_publish_with_retry, on_task_done).
THEOREM EverythingRan ==
  ASSUME EntryIsSource, FinalsCover PROVE ExecSpec => []CompletedRanEverything
<1>1. RanInv => CompletedRanEverything
  <2>. SUFFICES ASSUME RanInv, hot.status = "COMPLETED", NEW t \in Task PROVE runs[t] > 0
    BY DEF CompletedRanEverything
  <2>1. \A f \in Final : f \in Task /\ hot.task[f] \in EventStatus
    BY FinalAssumption DEF RanInv, IInv, DocOK
  <2>2. Final \subseteq Ran
    BY <2>1 DEF RanInv, TrackIn, DocIn
  <2>3. Ran = Task
    BY <2>2 DEF FinalsCover, RanInv, Ran
  <2>. QED BY <2>3 DEF Ran
<1>2. RanInv /\ [ExecNext]_allVars => RanInv'
  BY RanNext
<1>. QED BY <1>1, <1>2, RanInit, PTL DEF ExecSpec

(***************************************************************************)
(* The stored run follows the graph.  D is the set of tasks with a result  *)
(* in the run document.  With one event loop it only grows, and a handler  *)
(* that awaits its tracker is the one whose event the loop is in: it       *)
(* publishes after the result has been stored.                             *)
(***************************************************************************)
Done == {t \in Task : hot.task[t] \in EventStatus}

AwaitOK == \A h \in Handler : work[h].pc = "await" =>
             call[Host(h)].pc \in TrackerPC /\ call[Host(h)].task = Target(h)
OneAwaits == \A g, h \in Handler : work[g].pc = "await" /\ work[h].pc = "await" => g = h
NotifiedOK(D) == \A p \in Proc : call[p].pc = "notify" => call[p].task \in D
CachedOK(D)   == \A k \in Tracker : \A x \in dedupe[k] : x[1] \in D

DagInv ==
  /\ FreshInv /\ ExecTyped /\ Exists(hot)
  /\ AwaitOK /\ OneAwaits /\ NotifiedOK(Done) /\ CachedOK(Done)
  /\ FlowOK(Done)
  /\ DocFollowsDag

\* What a step has to show besides the flow of the messages.
Follows(D, E) ==
  /\ D \subseteq E /\ Exists(hot')
  /\ AwaitOK' /\ OneAwaits' /\ NotifiedOK(E)' /\ CachedOK(E)'
  /\ \A h \in Handler : work'[h].pc = "publish" => work[h].pc = "publish" \/ Target(h) \in E
  /\ \A e \in Edge : e[2] \in E => e[1] \in E

\* A step that leaves the tracker alone, and no handler for or from its call.
LEMMA FollowsQuiet ==
  ASSUME DagInv, UNCHANGED <<hot, call, dedupe>>, NEW D, D = Done,
         NEW h \in Handler, NEW l, work' = work \/ (MovedTo(h, l) /\ work[h].pc # "await"),
         l # "await", l = "publish" => work[h].pc = "publish" \/ Target(h) \in D
  PROVE  Follows(D, D)
<1>1. Exists(hot') /\ NotifiedOK(D)' /\ CachedOK(D)'
  BY DEF DagInv, NotifiedOK, CachedOK, Exists
<1>2. \A g \in Handler : work'[g].pc = "await" => work[g].pc = "await"
  BY DEF MovedTo
<1>3. AwaitOK' /\ OneAwaits'
  BY <1>2 DEF DagInv, AwaitOK, OneAwaits
<1>4. \A g \in Handler : work'[g].pc = "publish" => work[g].pc = "publish" \/ Target(g) \in D
  BY DEF MovedTo
<1>5. \A e \in Edge : e[2] \in D => e[1] \in D
  BY EdgeAssumption DEF DagInv, DocFollowsDag, Done
<1>. QED BY <1>1, <1>3, <1>4, <1>5 DEF Follows

\* Events and edits of the document never take a result back.
LEMMA DoneGrows ==
  ASSUME DagInv, NEW p \in Proc
  PROVE  /\ Persist(p) => /\ Done' = Done \cup {call[p].task} /\ Exists(hot')
                          /\ call[p].pc = "persist" /\ call' = [call EXCEPT ![p].pc = "notify"]
                          /\ dedupe' = dedupe
         /\ FinishEdit(p) => Done' = Done /\ Exists(hot')
<1>0. /\ call[p] \in Call /\ hot \in Doc /\ hot.task \in [Task -> TaskStatus] /\ Exists(hot)
      /\ CallOK(call[p]) /\ Fresh(call[p])
  BY DEF DagInv, FreshInv, IInv, TypeOK, Doc
<1>1. ASSUME Persist(p)
      PROVE  /\ Done' = Done \cup {call[p].task} /\ Exists(hot')
             /\ call[p].pc = "persist" /\ call' = [call EXCEPT ![p].pc = "notify"]
             /\ dedupe' = dedupe
  <2>1. /\ call[p].pc = "persist" /\ call[p].snap = hot /\ call[p].op \in EventStatus
        /\ hot' = Applied(call[p]) /\ call' = [call EXCEPT ![p].pc = "notify"] /\ dedupe' = dedupe
    BY <1>0, <1>1 DEF Persist, update_run, Goto, Fresh, Reading, CallOK, TrackerPC
  <2>2. hot'.task = [hot.task EXCEPT ![call[p].task] = call[p].op]
    BY <1>0, <2>1 DEF Applied, FinalsDone, Reforwarded, model_dump, Doc
  <2>3. hot'.status # "ABSENT"
    BY <1>0, <2>1 DEF Applied, FinalsDone, Reforwarded, model_dump, Doc, Exists
  <2>4. call[p].task \in Task
    BY <1>0 DEF Call
  <2>. QED BY <1>0, <2>1, <2>2, <2>3, <2>4 DEF Done, Exists
<1>2. ASSUME FinishEdit(p) PROVE Done' = Done /\ Exists(hot')
  <2>1. call[p].snap = hot /\ call[p].op \in Edit /\ hot' = Edited(call[p])
    BY <1>0, <1>2 DEF FinishEdit, update_run, Fresh, Reading, CallOK
  <2>2. hot'.task = hot.task /\ hot'.status = hot.status
    BY <1>0, <2>1 DEF Edited, Edit, Doc
  <2>. QED BY <1>0, <2>2 DEF Done, Exists
<1>. QED BY <1>1, <1>2

\* forward() reports a result.
LEMMA FollowsReport ==
  ASSUME OneLoop, DagInv, NEW h \in Handler, Report(h), NEW D, D = Done
  PROVE  Done' = D /\ Follows(D, D)
<1>0. /\ Host(h) \in Proc /\ TrackerFor[h] \in Tracker /\ Target(h) \in Task
      /\ work[h].status \in EventStatus /\ StatusInv /\ call \in [Proc -> Call]
  BY HandlerFacts DEF DagInv, ExecTyped, StatusInv, Work, FreshInv, IInv, TypeOK
<1>. DEFINE p == Host(h)  k == TrackerFor[h]  t == Target(h)  s == work[h].status
<1>2. work[h].pc = "report" /\ call[p].pc = "idle"
  BY DEF Report, At, LoopFree
<1>3. CASE BeginTaskDone(p, k, t, s) /\ Jump(h, "await")
  <2>1. MovedTo(h, "await") /\ UNCHANGED <<hot, dedupe>>
    BY <1>0, <1>3, Moves DEF Labels, BeginTaskDone
  <2>2. PICK c : c = [Idle EXCEPT !.pc = IF s = "FAILED" /\ Reforward THEN "plan" ELSE "persist",
                                  !.op = s, !.tracker = k, !.task = t, !.snap = hot]
    OBVIOUS
  <2>3. c.pc \in {"plan", "persist"} /\ c.task = t
    BY <2>2, IdleType DEF Call
  <2>4. call' = [call EXCEPT ![p] = c]
    BY <1>3, <2>2 DEF BeginTaskDone
  <2>5. \A q \in Proc : q = p
    BY <1>0 DEF OneLoop
  <2>6. call'[p] = c
    BY <1>0, <2>4
  <2>7. \A g \in Handler : work[g].pc # "await"
    BY <1>2, <2>5, HandlerFacts DEF DagInv, AwaitOK, TrackerPC
  <2>8. AwaitOK' /\ OneAwaits'
    BY <2>1, <2>3, <2>6, <2>7 DEF AwaitOK, OneAwaits, MovedTo, TrackerPC
  <2>9. NotifiedOK(D)' /\ CachedOK(D)' /\ Exists(hot')
    BY <2>1, <2>3, <2>5, <2>6 DEF DagInv, NotifiedOK, CachedOK, Exists
  <2>10. \A g \in Handler : work'[g].pc = "publish" => work[g].pc = "publish"
    BY <2>1 DEF MovedTo
  <2>11. \A e \in Edge : e[2] \in D => e[1] \in D
    BY EdgeAssumption DEF DagInv, DocFollowsDag, Done
  <2>12. Done' = Done
    BY <2>1 DEF Done
  <2>. QED BY <2>8, <2>9, <2>10, <2>11, <2>12 DEF Follows
<1>4. CASE ~Accepts(k, t, s) /\ Jump(h, "publish") /\ UNCHANGED vars
  <2>1. MovedTo(h, "publish") /\ UNCHANGED <<hot, call, dedupe>>
    BY <1>0, <1>4, Moves DEF Labels, vars
  <2>2. hot.task[t] \in TaskStatus
    BY <1>0 DEF DagInv, FreshInv, IInv, TypeOK, Doc
  <2>3. t \in D
    <3>1. CASE <<t, s>> \in dedupe[k]
      BY <1>0, <3>1 DEF DagInv, CachedOK
    <3>2. CASE <<t, s>> \notin dedupe[k]
      <4>1. ~_forward_only(hot.task[t], s)
        BY <1>4, <3>2 DEF Accepts, _event_key, DagInv
      <4>2. hot.task[t] = "FAILED"
        BY <1>0, <2>2, <4>1, OrderFacts DEF EventStatus
      <4>. QED BY <1>0, <4>2 DEF Done, EventStatus
    <3>. QED BY <3>1, <3>2
  <2>4. Follows(D, D)
    BY <1>2, <2>1, <2>3, FollowsQuiet
  <2>5. Done' = Done
    BY <2>1 DEF Done
  <2>. QED BY <2>4, <2>5
<1>. QED BY <1>3, <1>4 DEF Report

\* The tracker works on the event of the handler that awaits it.
LEMMA FollowsTrack ==
  ASSUME OneLoop, DagInv, NEW h \in Handler, Track(h), NEW D, NEW E, D = Done, E = Done'
  PROVE  Follows(D, E)
<1>0. /\ Host(h) \in Proc /\ Target(h) \in Task /\ call \in [Proc -> Call] /\ Exists(hot)
  BY HandlerFacts DEF DagInv, FreshInv, IInv, TypeOK
<1>. DEFINE p == Host(h)
<1>1. work[h].pc = "await" /\ call[p].task = Target(h)
  BY DEF Track, At, DagInv, AwaitOK
<1>2. \A q \in Proc : q = p
  BY <1>0 DEF OneLoop
<1>3. CASE ReadPlan(p) \/ ReadSequence(p) \/ UpsertSequence(p)
  <2>1. call'[p].pc \in TrackerPC \ {"notify"} /\ call'[p].task = call[p].task
    <3>1. ReadPlan(p) => call'[p].pc \in TrackerPC \ {"notify"} /\ call'[p].task = call[p].task
      BY <1>0 DEF ReadPlan, Goto, Call, TrackerPC
    <3>2. ReadSequence(p) => call'[p].pc \in TrackerPC \ {"notify"} /\ call'[p].task = call[p].task
      BY <1>0 DEF ReadSequence, Call, TrackerPC
    <3>3. UpsertSequence(p) => call'[p].pc \in TrackerPC \ {"notify"} /\ call'[p].task = call[p].task
      BY <1>0 DEF UpsertSequence, Call, TrackerPC
    <3>. QED BY <1>3, <3>1, <3>2, <3>3
  <2>2. UNCHANGED <<hot, dedupe>>
    BY <1>3 DEF ReadPlan, ReadSequence, UpsertSequence
  <2>3. UNCHANGED work
    BY <2>1 DEF Track, TrackerPC
  <2>4. D = E
    BY <2>2 DEF Done
  <2>5. AwaitOK' /\ OneAwaits'
    <3>1. \A g \in Handler : work[g].pc = "await" => g = h
      BY <1>1 DEF DagInv, OneAwaits
    <3>. QED BY <1>1, <2>1, <2>3, <3>1 DEF AwaitOK, OneAwaits
  <2>6. NotifiedOK(E)' /\ CachedOK(E)' /\ Exists(hot')
    BY <1>0, <1>2, <2>1, <2>2, <2>4 DEF DagInv, NotifiedOK, CachedOK, Exists
  <2>7. \A e \in Edge : e[2] \in D => e[1] \in D
    BY EdgeAssumption DEF DagInv, DocFollowsDag, Done
  <2>. QED BY <2>3, <2>4, <2>5, <2>6, <2>7 DEF Follows
<1>4. CASE Persist(p)
  <2>1. /\ E = D \cup {Target(h)} /\ Exists(hot') /\ call[p].pc = "persist" /\ dedupe' = dedupe
        /\ call' = [call EXCEPT ![p].pc = "notify"]
    BY <1>0, <1>1, <1>4, DoneGrows
  <2>2. call'[p].pc = "notify" /\ call'[p].task = Target(h)
    BY <1>0, <1>1, <2>1 DEF Call
  <2>3. UNCHANGED work
    BY <2>2 DEF Track
  <2>4. AwaitOK' /\ OneAwaits'
    <3>1. \A g \in Handler : work[g].pc = "await" => g = h
      BY <1>1 DEF DagInv, OneAwaits
    <3>. QED BY <1>1, <2>2, <2>3, <3>1 DEF AwaitOK, OneAwaits, TrackerPC
  <2>5. NotifiedOK(E)'
    BY <1>2, <2>1, <2>2 DEF NotifiedOK
  <2>6. CachedOK(E)'
    BY <2>1 DEF DagInv, CachedOK
  <2>7. ASSUME NEW e \in Edge, e[2] \in E PROVE e[1] \in E
    <3>1. CASE e[2] \in D
      BY <2>1, <3>1, EdgeAssumption DEF DagInv, DocFollowsDag, Done
    <3>2. CASE e[2] = Target(h)
      <4>1. e \in In(Target(h))
        BY <3>2 DEF In
      <4>. QED BY <1>1, <2>1, <4>1 DEF DagInv, FlowOK, BusyOK, Busy
    <3>. QED BY <2>1, <2>7, <3>1, <3>2
  <2>. QED BY <2>1, <2>3, <2>4, <2>5, <2>6, <2>7 DEF Follows
<1>. QED BY <1>3, <1>4 DEF Track

\* The call returns to the handler that awaits it, with the result stored.
LEMMA FollowsReturn ==
  ASSUME OneLoop, DagInv, NEW h \in Handler, TrackReturns(h), NEW D, D = Done
  PROVE  Done' = D /\ Follows(D, D)
<1>0. /\ Host(h) \in Proc /\ Target(h) \in Task /\ StatusInv
      /\ call \in [Proc -> Call] /\ dedupe \in [Tracker -> SUBSET (Task \X EventStatus)]
  BY HandlerFacts DEF DagInv, ExecTyped, FreshInv, IInv, TypeOK
<1>. DEFINE p == Host(h)
<1>2. /\ work[h].pc = "await" /\ call[p].task = Target(h) /\ call[p].pc = "notify"
      /\ Target(h) \in D /\ Notify(p)
  BY <1>0 DEF TrackReturns, At, Notify, DagInv, AwaitOK, NotifiedOK
<1>3. MovedTo(h, "publish") \/ MovedTo(h, "run")
  BY <1>0, ExecMoves
<1>4. /\ call' = [call EXCEPT ![p] = Idle] /\ UNCHANGED hot
  BY <1>2 DEF Notify, Return
<1>5. \A g \in Handler : work'[g].pc # "await"
  BY <1>2, <1>3 DEF DagInv, OneAwaits, MovedTo
<1>6. AwaitOK' /\ OneAwaits'
  BY <1>5 DEF AwaitOK, OneAwaits
<1>7. NotifiedOK(D)'
  BY <1>0, <1>4, IdleNotReading DEF DagInv, NotifiedOK
<1>8. CachedOK(D)'
  <2>1. PICK k, x : k = call[p].tracker /\ x = _event_key(call[p].task, call[p].op)
    OBVIOUS
  <2>2. x[1] = Target(h)
    BY <1>2, <2>1 DEF _event_key
  <2>3. PICK kept \in SUBSET dedupe[k] : dedupe' = [dedupe EXCEPT ![k] = kept \cup {x}]
    BY <1>2, <2>1 DEF Notify, Remember
  <2>. QED BY <1>0, <1>2, <2>2, <2>3 DEF DagInv, CachedOK
<1>9. \A g \in Handler : work'[g].pc = "publish" => work[g].pc = "publish" \/ Target(g) \in D
  BY <1>2, <1>3 DEF MovedTo
<1>10. \A e \in Edge : e[2] \in D => e[1] \in D
  BY EdgeAssumption DEF DagInv, DocFollowsDag, Done
<1>11. Exists(hot') /\ Done' = Done
  BY <1>4 DEF DagInv, Exists, Done
<1>. QED BY <1>6, <1>7, <1>8, <1>9, <1>10, <1>11 DEF Follows

\* Editors and forgetting caches take nothing back, and start and end no call
\* that a handler awaits.
LEMMA FollowsEnvironment ==
  ASSUME OneLoop, DagInv, Environment, NEW D, D = Done
  PROVE  Done' = D /\ Follows(D, D)
<1>0. /\ UNCHANGED work /\ call \in [Proc -> Call] /\ Exists(hot)
      /\ dedupe \in [Tracker -> SUBSET (Task \X EventStatus)]
  BY DEF Environment, execVars, DagInv, FreshInv, IInv, TypeOK
<1>2. \A e \in Edge : e[2] \in D => e[1] \in D
  BY EdgeAssumption DEF DagInv, DocFollowsDag, Done
<1>3. ASSUME NEW p \in Proc, call[p].pc \in {"idle", "edit"}, call'[p].pc \in {"idle", "edit"},
             dedupe' = dedupe
      PROVE  AwaitOK' /\ OneAwaits' /\ NotifiedOK(D)' /\ CachedOK(D)'
  <2>1. \A q \in Proc : q = p
    BY DEF OneLoop
  <2>2. \A g \in Handler : work[g].pc # "await"
    BY <1>3, <2>1, HandlerFacts DEF DagInv, AwaitOK, TrackerPC
  <2>3. AwaitOK' /\ OneAwaits'
    BY <1>0, <2>2 DEF AwaitOK, OneAwaits
  <2>4. NotifiedOK(D)'
    BY <1>3, <2>1 DEF NotifiedOK
  <2>. QED BY <1>3, <2>3, <2>4 DEF DagInv, CachedOK
<1>4. ASSUME NEW p \in Proc, NEW e \in Edits, BeginEdit(p, e) PROVE Done' = Done /\ Follows(D, D)
  <2>1. PICK c : c = [Idle EXCEPT !.pc = "edit", !.op = e, !.snap = hot]
    OBVIOUS
  <2>2. c.pc = "edit"
    BY <2>1, IdleType DEF Call
  <2>3. call'[p] = c /\ call[p].pc = "idle" /\ UNCHANGED <<hot, dedupe>>
    BY <1>0, <1>4, <2>1 DEF BeginEdit
  <2>4. Done' = Done /\ Exists(hot')
    BY <1>0, <2>3 DEF Done, Exists
  <2>. QED BY <1>0, <1>2, <1>3, <2>2, <2>3, <2>4 DEF Follows
<1>5. ASSUME NEW p \in Proc, FinishEdit(p) PROVE Done' = Done /\ Follows(D, D)
  <2>1. Done' = Done /\ Exists(hot')
    BY <1>5, DoneGrows
  <2>2. call[p].pc = "edit" /\ call'[p] = Idle /\ dedupe' = dedupe
    BY <1>0, <1>5 DEF FinishEdit, Return
  <2>3. Idle.pc = "idle"
    BY DEF Idle
  <2>. QED BY <1>0, <1>2, <1>3, <2>1, <2>2, <2>3 DEF Follows
<1>6. ASSUME NEW k \in Tracker, Forget(k) PROVE Done' = Done /\ Follows(D, D)
  <2>1. UNCHANGED <<hot, call>>
    BY <1>6 DEF Forget
  <2>2. Done' = Done /\ Exists(hot') /\ NotifiedOK(D)' /\ AwaitOK' /\ OneAwaits'
    BY <1>0, <2>1 DEF Done, Exists, DagInv, NotifiedOK, AwaitOK, OneAwaits
  <2>3. CachedOK(D)'
    BY <1>0, <1>6 DEF Forget, DagInv, CachedOK
  <2>. QED BY <1>0, <1>2, <2>2, <2>3 DEF Follows
<1>. QED BY <1>4, <1>5, <1>6 DEF Environment

\* The launched run satisfies the invariant.
LEMMA DagInit == launch => DagInv
<1>. SUFFICES ASSUME launch PROVE DagInv
  OBVIOUS
<1>1. FreshInv /\ ExecTyped /\ FlowOK(Done)
  BY FreshInit, ExecTypedInit, FlowInit DEF launch
<1>2. Exists(hot) /\ \A t \in Task : hot.task[t] = "PENDING"
  BY DEF launch, Init, seed_initial_run, Exists
<1>3. DocFollowsDag
  BY <1>2, EdgeAssumption DEF DocFollowsDag
<1>4. \A h \in Handler : work[h].pc = "idle"
  BY DEF launch, Waiting
<1>5. AwaitOK /\ OneAwaits
  BY <1>4 DEF AwaitOK, OneAwaits
<1>6. NotifiedOK(Done) /\ CachedOK(Done)
  BY IdleNotReading DEF launch, Init, NotifiedOK, CachedOK
<1>. QED BY <1>1, <1>2, <1>3, <1>5, <1>6 DEF DagInv

\* No step of a fault-free execution on one event loop takes a result back, and
\* handlers publish what is stored.
LEMMA FollowsNext ==
  ASSUME OneLoop, ~Faults, EntryIsSource, DagInv, [ExecNext]_allVars,
         NEW D, NEW E, D = Done /\ E = Done'
  PROVE  Follows(D, E)
<1>0. ExecTyped /\ StatusInv /\ FlowOK(Done)
  BY DEF DagInv, ExecTyped
<1>2. D = Done /\ E = Done'
  OBVIOUS
<1>3. ASSUME NEW h \in Handler, UNCHANGED <<hot, call, dedupe>>, NEW l \in Labels \ {"await", "publish"},
             MovedTo(h, l), work[h].pc # "await"
      PROVE  Follows(D, E)
  <2>1. D = E
    BY <1>2, <1>3 DEF Done
  <2>. QED BY <1>2, <1>3, <2>1, FollowsQuiet
<1>4. ASSUME NEW h \in Handler, Step(h) PROVE Follows(D, E)
  <2>1. CASE _consume_queue(h) \/ on_pipeline_event(h) \/ default_handler(h) \/ Publish(h)
    <3>1. /\ MovedTo(h, "held") \/ MovedTo(h, "run") \/ MovedTo(h, "idle")
          /\ work[h].pc \in {"idle", "held", "publish"}
      BY <1>0, <2>1, ExecMoves
    <3>2. UNCHANGED <<hot, call, dedupe>>
      BY <2>1 DEF _consume_queue, on_pipeline_event, default_handler, Publish, vars
    <3>. QED BY <1>3, <3>1, <3>2 DEF Labels
  <2>2. ASSUME NEW s \in EventStatus, Execute(h, s) PROVE Follows(D, E)
    <3>1. MovedTo(h, "report") /\ work[h].pc = "run"
      BY <1>0, <2>2, ExecMoves
    <3>2. UNCHANGED <<hot, call, dedupe>>
      BY <2>2 DEF Execute, vars
    <3>. QED BY <1>3, <3>1, <3>2 DEF Labels
  <2>3. CASE Report(h) \/ TrackReturns(h)
    BY <1>2, <2>3, FollowsReport, FollowsReturn
  <2>4. CASE Track(h)
    BY <1>2, <2>4, FollowsTrack
  <2>. QED BY <1>4, <2>1, <2>2, <2>3, <2>4 DEF Step
<1>5. \A h \in Handler : ~TrackRaises(h) /\ ~PublishError(h)
  BY DEF TrackRaises, StoreError, PublishError
<1>6. ASSUME Environment PROVE Follows(D, E)
  BY <1>2, <1>6, FollowsEnvironment
<1>7. ASSUME StopConsumers \/ UNCHANGED allVars PROVE Follows(D, E)
  <2>1. UNCHANGED <<hot, call, dedupe, work>>
    BY <1>7 DEF StopConsumers, allVars, vars, execVars
  <2>2. D = E
    BY <1>2, <2>1 DEF Done
  <2>3. Exists(hot') /\ AwaitOK' /\ OneAwaits' /\ NotifiedOK(E)' /\ CachedOK(E)'
    BY <1>2, <2>1, <2>2 DEF DagInv, Exists, AwaitOK, OneAwaits, NotifiedOK, CachedOK
  <2>4. \A e \in Edge : e[2] \in D => e[1] \in D
    BY <1>2, EdgeAssumption DEF DagInv, DocFollowsDag, Done
  <2>5. \A h \in Handler : work'[h].pc = "publish" => work[h].pc = "publish"
    BY <2>1
  <2>. QED BY <2>2, <2>3, <2>4, <2>5 DEF Follows
<1>. QED BY <1>4, <1>5, <1>6, <1>7 DEF ExecNext

\* Every step of a fault-free execution on one event loop keeps the invariant.
LEMMA DagNext ==
  ASSUME OneLoop, ~Faults, EntryIsSource, DagInv, [ExecNext]_allVars
  PROVE  DagInv'
<1>0. ExecTyped /\ StatusInv /\ FlowOK(Done)
  BY DEF DagInv, ExecTyped
<1>1. FreshInv' /\ ExecTyped'
  BY <1>0, ExecNextMaps, FreshNext, ExecTypedNext DEF DagInv
<1>2. PICK D, E : D = Done /\ E = Done'
  OBVIOUS
<1>8. Follows(D, E)
  BY <1>2, FollowsNext
<1>9. FlowOK(E)'
  BY <1>0, <1>2, <1>8, FlowNext DEF Follows
<1>10. DocFollowsDag'
  BY <1>2, <1>8, EdgeAssumption DEF Follows, DocFollowsDag, Done
<1>11. FlowOK(Done)' /\ NotifiedOK(Done)' /\ CachedOK(Done)'
  BY <1>2, <1>8, <1>9 DEF Follows, FlowOK, QueuedOK, ArrivedOK, HeldOK, BusyOK, DoneOK, NotifiedOK, CachedOK
<1>. QED BY <1>1, <1>8, <1>10, <1>11 DEF DagInv, Follows

\* For every graph whose entry depends on nothing, served by one event loop without
\* faults: whenever the stored run has a result of a task, it has one of every task
\* that task depends on (default_handler, forward, on_task_done).
THEOREM ResultsFollowDag ==
  ASSUME OneLoop, ~Faults, EntryIsSource PROVE ExecSpec => []DocFollowsDag
<1>1. DagInv => DocFollowsDag
  BY DEF DagInv
<1>2. DagInv /\ [ExecNext]_allVars => DagInv'
  BY DagNext
<1>. QED BY <1>1, <1>2, DagInit, PTL DEF ExecSpec

(***************************************************************************)
(* A fan-in task uses up a part of each upstream per execution.  For every *)
(* queue e into such a task: the executions of the task, those under way,  *)
(* the part that is filed, the message that is held and the messages that  *)
(* are queued, plus those that results of the upstream not yet published   *)
(* will make, are at most what the executions of the upstream account for. *)
(***************************************************************************)
Bit(b) == IF b THEN 1 ELSE 0

Sent == {"report", "await", "publish"}
Doing(t, L) == {h \in Handler : Target(h) = t /\ work[h].pc \in L}
Multiplicity(e) == Copies(e[1], Out(e[1]), e)

Used(e) == runs[e[2]] + Cardinality(Doing(e[2], {"run"})) + Bit(e[1] \in arrived[e[2]])
             + Bit(work[e].pc = "held") + box[e]

Accounted(e) ==
  Used(e) + Multiplicity(e) * Cardinality(Doing(e[1], Sent)) <= runs[e[1]] * Multiplicity(e)

\* A failed task is not executed again in place: CNP_FAILURE_REFORWARD is off, or
\* CNP_MAX_REFORWARDS is 0.
NoRedispatch == ~Reforward \/ MaxReforwards = 0

NeverMoved == Reforward \/ \A p \in Proc :
                call[p].pc \in {"idle", "persist", "notify", "edit"} /\ ~call[p].moved

PartsInv ==
  /\ IInv /\ ExecTyped /\ NeverMoved
  /\ \A e \in Edge : Cardinality(In(e[2])) > 1 => Accounted(e)

\* Without re-forwarding no call gives a task to another candidate.
LEMMA NeverMovedNext ==
  ASSUME IInv, StatusInv, NeverMoved, [ExecNext]_allVars PROVE NeverMoved'
<1>. SUFFICES ASSUME ~Reforward PROVE NeverMoved'
  BY DEF NeverMoved
<1>0. /\ call \in [Proc -> Call]
      /\ \A p \in Proc : call[p].pc \in {"idle", "persist", "notify", "edit"} /\ ~call[p].moved
  BY DEF IInv, TypeOK, NeverMoved
<1>1. ASSUME NEW p \in Proc, NEW c, call' = [call EXCEPT ![p] = c],
             c.pc \in {"idle", "persist", "notify", "edit"}, ~c.moved
      PROVE  NeverMoved'
  BY <1>0, <1>1 DEF NeverMoved
<1>2. Idle.pc = "idle" /\ Idle.moved = FALSE
  BY DEF Idle
<1>3. ASSUME NEW p \in Proc, Return(p) PROVE NeverMoved'
  BY <1>1, <1>2, <1>3 DEF Return
<1>4. ASSUME NEW p \in Proc, NEW k \in Tracker, NEW t \in Task, NEW s \in EventStatus,
             BeginTaskDone(p, k, t, s)
      PROVE  NeverMoved'
  <2>1. PICK c : c = [Idle EXCEPT !.pc = IF s = "FAILED" /\ Reforward THEN "plan" ELSE "persist",
                                  !.op = s, !.tracker = k, !.task = t, !.snap = hot]
    OBVIOUS
  <2>2. c.pc = "persist" /\ c.moved = FALSE
    BY <1>2, <2>1, IdleType DEF Call
  <2>3. call' = [call EXCEPT ![p] = c]
    BY <1>4, <2>1 DEF BeginTaskDone
  <2>. QED BY <1>1, <2>2, <2>3
<1>5. ASSUME NEW p \in Proc, NEW e \in Edits, BeginEdit(p, e) PROVE NeverMoved'
  <2>1. PICK c : c = [Idle EXCEPT !.pc = "edit", !.op = e, !.snap = hot]
    OBVIOUS
  <2>2. c.pc = "edit" /\ c.moved = FALSE
    BY <1>2, <2>1, IdleType DEF Call
  <2>3. call' = [call EXCEPT ![p] = c]
    BY <1>5, <2>1 DEF BeginEdit
  <2>. QED BY <1>1, <2>2, <2>3
<1>6. ASSUME NEW p \in Proc, Persist(p) PROVE NeverMoved'
  <2>1. CASE Return(p)
    BY <1>3, <2>1
  <2>2. CASE Goto(p, "notify")
    <3>1. PICK c : c = [call[p] EXCEPT !.pc = "notify"]
      OBVIOUS
    <3>2. c.pc = "notify" /\ c.moved = call[p].moved
      BY <1>0, <3>1 DEF Call
    <3>3. call' = [call EXCEPT ![p] = c]
      BY <1>0, <2>2, <3>1 DEF Goto
    <3>. QED BY <1>0, <1>1, <3>2, <3>3
  <2>. QED BY <1>6, <2>1, <2>2 DEF Persist
<1>7. \A p \in Proc : ~ReadPlan(p) /\ ~ReadSequence(p) /\ ~UpsertSequence(p)
  BY <1>0 DEF ReadPlan, ReadSequence, UpsertSequence
<1>8. ASSUME NEW p \in Proc, Notify(p) \/ StoreError(p) \/ FinishEdit(p) PROVE NeverMoved'
  BY <1>3, <1>8 DEF Notify, StoreError, FinishEdit
<1>9. ASSUME UNCHANGED call PROVE NeverMoved'
  BY <1>9 DEF NeverMoved
<1>10. TrackerStep(Task)
  <2>1. ReportsIn(Task)
    BY HandlerFacts DEF ReportsIn
  <2>. QED BY <2>1, ExecTracks
<1>. QED BY <1>4, <1>5, <1>6, <1>7, <1>8, <1>9, <1>10 DEF TrackerStep, Forget, vars

\* What a move does to the number of handlers of a task that are at some labels.
LEMMA DoingMoves ==
  ASSUME NEW h \in Handler, NEW l, MovedTo(h, l), NEW t, NEW L
  PROVE  /\ Cardinality(Doing(t, L)) \in Nat /\ Cardinality(Doing(t, L)') \in Nat
         /\ Target(h) # t => Cardinality(Doing(t, L)') = Cardinality(Doing(t, L))
         /\ (l \in L <=> work[h].pc \in L) => Cardinality(Doing(t, L)') = Cardinality(Doing(t, L))
         /\ Target(h) = t /\ l \in L /\ work[h].pc \notin L =>
              Cardinality(Doing(t, L)') = Cardinality(Doing(t, L)) + 1
         /\ Target(h) = t /\ l \notin L /\ work[h].pc \in L =>
              Cardinality(Doing(t, L)') = Cardinality(Doing(t, L)) - 1
<1>1. IsFiniteSet(Handler)
  BY SizeAssumption, FS_Union DEF Handler
<1>2. PICK A, B : A = Doing(t, L) /\ B = Doing(t, L)'
  OBVIOUS
<1>3. A \subseteq Handler /\ B \subseteq Handler
  BY <1>2 DEF Doing
<1>4. IsFiniteSet(A) /\ IsFiniteSet(B) /\ Cardinality(A) \in Nat /\ Cardinality(B) \in Nat
  BY <1>1, <1>3, FS_Subset, FS_CardinalityType
<1>5. Target(h) # t \/ (l \in L <=> work[h].pc \in L) => A = B
  BY <1>2 DEF Doing, MovedTo
<1>6. ASSUME Target(h) = t, l \in L, work[h].pc \notin L PROVE Cardinality(B) = Cardinality(A) + 1
  <2>1. h \notin A /\ B = A \cup {h}
    BY <1>2, <1>6 DEF Doing, MovedTo
  <2>. QED BY <1>4, <2>1, FS_AddElement
<1>7. ASSUME Target(h) = t, l \notin L, work[h].pc \in L PROVE Cardinality(B) = Cardinality(A) - 1
  <2>1. h \in A /\ B = A \ {h}
    BY <1>2, <1>7 DEF Doing, MovedTo
  <2>. QED BY <1>4, <2>1, FS_RemoveElement
<1>. QED BY <1>2, <1>4, <1>5, <1>6, <1>7

\* One more or one less execution, in numbers of messages.
LEMMA Times ==
  ASSUME NEW a \in Int, NEW m \in Int
  PROVE  /\ (a + 1) * m = a * m + m /\ m * (a + 1) = m * a + m
         /\ m * (a - 1) = m * a - m /\ a * m \in Int /\ m * a \in Int
OBVIOUS

\* The types of what is counted.
LEMMA PartTypes ==
  ASSUME ExecTyped, NEW e \in Edge
  PROVE  /\ e[1] \in Task /\ e[2] \in Task /\ e \in Handler /\ Target(e) = e[2]
         /\ runs[e[1]] \in Nat /\ runs[e[2]] \in Nat /\ box[e] \in Nat
         /\ Multiplicity(e) \in Nat /\ e \in Out(e[1])
BY EdgeAssumption, CopiesFacts DEF ExecTyped, Handler, Target, Multiplicity, Out

\* What a step has to show about one queue: it uses up no more, or publishes what
\* was accounted for, or executes the upstream once more.
LEMMA AccountedStep ==
  ASSUME ExecTyped, ExecTyped', NEW e \in Edge, Accounted(e),
         NEW U, NEW V, U = Used(e), V = Used(e)', U \in Int, V \in Int,
         NEW S \in Nat, NEW T \in Nat,
         S = Cardinality(Doing(e[1], Sent)), T = Cardinality(Doing(e[1], Sent)'),
         \/ V <= U /\ T = S /\ runs'[e[1]] = runs[e[1]]
         \/ V <= U /\ T = S + 1 /\ runs'[e[1]] = runs[e[1]] + 1
         \/ V <= U + Multiplicity(e) /\ T = S - 1 /\ runs'[e[1]] = runs[e[1]]
  PROVE  Accounted(e)'
<1>1. PICK m, q, r : m = Multiplicity(e) /\ q = runs[e[1]] /\ r = runs'[e[1]]
  OBVIOUS
<1>2. m \in Nat /\ q \in Nat /\ r \in Nat
  BY <1>1, PartTypes DEF ExecTyped
<1>3. U + m * S <= q * m
  BY <1>1 DEF Accounted
<1>4. V + m * T <= r * m
  BY <1>1, <1>2, <1>3, Times
<1>5. Multiplicity(e)' = m
  BY <1>1 DEF Multiplicity, Copies, exchange_type, Out, In
<1>. QED BY <1>1, <1>4, <1>5 DEF Accounted

\* The numbers in Used(e), before and after a move.
LEMMA UsedParts ==
  ASSUME ExecTyped, ExecTyped', NEW e \in Edge, NEW h \in Handler, NEW l, MovedTo(h, l)
  PROVE  /\ Used(e) \in Int /\ Used(e)' \in Int
         /\ Cardinality(Doing(e[1], Sent)) \in Nat /\ Cardinality(Doing(e[1], Sent)') \in Nat
         /\ Cardinality(Doing(e[2], {"run"})) \in Nat /\ Cardinality(Doing(e[2], {"run"})') \in Nat
         /\ Bit(e[1] \in arrived[e[2]]) \in {0, 1} /\ Bit(e[1] \in arrived'[e[2]]) \in {0, 1}
         /\ Bit(work[e].pc = "held") \in {0, 1} /\ Bit(work'[e].pc = "held") \in {0, 1}
<1>1. /\ Cardinality(Doing(e[1], Sent)) \in Nat /\ Cardinality(Doing(e[1], Sent)') \in Nat
      /\ Cardinality(Doing(e[2], {"run"})) \in Nat /\ Cardinality(Doing(e[2], {"run"})') \in Nat
  BY DoingMoves
<1>2. /\ Bit(e[1] \in arrived[e[2]]) \in {0, 1} /\ Bit(e[1] \in arrived'[e[2]]) \in {0, 1}
      /\ Bit(work[e].pc = "held") \in {0, 1} /\ Bit(work'[e].pc = "held") \in {0, 1}
  BY DEF Bit
<1>3. runs[e[2]] \in Nat /\ box[e] \in Nat /\ runs'[e[2]] \in Nat /\ box'[e] \in Nat
  BY EdgeAssumption DEF ExecTyped, Handler
<1>4. Used(e) \in Int
  BY <1>1, <1>2, <1>3 DEF Used
<1>5. Used(e)' \in Int
  BY <1>1, <1>2, <1>3 DEF Used
<1>. QED BY <1>1, <1>2, <1>4, <1>5

\* Filing a part, dropping it, or running the task with a complete bundle.
LEMMA FiledPart ==
  ASSUME ExecTyped, ExecTyped', NEW h \in Handler, default_handler(h),
         NEW e \in Edge, Cardinality(In(e[2])) > 1, Accounted(e)
  PROVE  Accounted(e)'
<1>0. StatusInv
  BY DEF ExecTyped
<1>1. work[h].pc = "held" /\ UNCHANGED <<box, runs>> /\ h \in Edge /\ Target(h) = h[2] /\ h[2] \in Task
  BY <1>0, ExecMoves, EdgeAssumption DEF ExecTyped, Target
<1>2. PICK l \in {"idle", "run"} :
        /\ MovedTo(h, l)
        /\ \/ l = "idle" /\ UNCHANGED arrived
           \/ /\ arrived' = [arrived EXCEPT ![h[2]] = Flushed(h[2], Parts(h))]
              /\ l = "run" <=> required_upstreams(h[2]) \subseteq Parts(h)
  BY <1>0, <1>1, ExecMoves
<1>3. \A x \in {"idle", "run", "held"} : x \notin Sent
  BY DEF Sent
<1>4. Cardinality(Doing(e[1], Sent)') = Cardinality(Doing(e[1], Sent))
  BY <1>1, <1>2, <1>3, DoingMoves
<1>5. \/ e # h /\ Bit(work'[e].pc = "held") = Bit(work[e].pc = "held")
      \/ e = h /\ Bit(work'[e].pc = "held") = 0 /\ Bit(work[e].pc = "held") = 1
  BY <1>1, <1>2 DEF Bit, MovedTo, Handler
<1>6. PICK a, b, n, m, x, y : /\ a = Bit(e[1] \in arrived[e[2]]) /\ b = Bit(e[1] \in arrived'[e[2]])
                              /\ n = Cardinality(Doing(e[2], {"run"})) /\ m = Cardinality(Doing(e[2], {"run"})')
                              /\ x = Bit(work[e].pc = "held") /\ y = Bit(work'[e].pc = "held")
  OBVIOUS
<1>7. m + b + y <= n + a + x
  <2>0. n \in Nat /\ m \in Nat /\ a \in {0, 1} /\ b \in {0, 1} /\ x \in {0, 1} /\ y \in {0, 1}
    BY <1>2, <1>6, UsedParts
  <2>1. CASE e[2] # h[2]
    <3>1. m = n
      BY <1>1, <1>2, <1>6, <2>1, DoingMoves
    <3>2. arrived'[e[2]] = arrived[e[2]]
      BY <1>1, <1>2, <2>1, EdgeAssumption DEF ExecTyped
    <3>. QED BY <1>5, <1>6, <2>0, <3>1, <3>2
  <2>2. CASE e[2] = h[2]
    <3>1. l = "idle" => m = n
      BY <1>1, <1>2, <1>6, DoingMoves
    <3>2. l = "run" => m = n + 1
      BY <1>1, <1>2, <1>6, <2>2, DoingMoves
    <3>3. e \in In(h[2]) /\ required_upstreams(h[2]) # {} /\ e[1] \in required_upstreams(h[2])
      BY <2>2 DEF In, required_upstreams
    <3>4. Parts(h) = arrived[h[2]] \cup {h[1]}
      BY <1>1 DEF Parts
    <3>5. e = h <=> e[1] = h[1]
      BY <1>1, <2>2, EdgeAssumption
    <3>6. CASE l = "idle" /\ UNCHANGED arrived
      BY <1>5, <1>6, <2>0, <3>1, <3>6
    <3>7. CASE l = "idle" /\ arrived' = [arrived EXCEPT ![h[2]] = Flushed(h[2], Parts(h))]
                          /\ ~(required_upstreams(h[2]) \subseteq Parts(h))
      <4>1. arrived'[h[2]] = Parts(h)
        BY <1>1, <3>7 DEF Flushed, ExecTyped
      <4>2. e # h => b = a
        BY <1>6, <2>2, <3>4, <3>5, <4>1
      <4>. QED BY <1>5, <1>6, <2>0, <3>1, <3>7, <4>2
    <3>8. CASE l = "run" /\ arrived' = [arrived EXCEPT ![h[2]] = Flushed(h[2], Parts(h))]
                         /\ required_upstreams(h[2]) \subseteq Parts(h)
      <4>1. arrived'[h[2]] = {}
        BY <1>1, <3>3, <3>8 DEF Flushed, ExecTyped
      <4>2. b = 0
        BY <1>6, <2>2, <4>1 DEF Bit
      <4>3. e # h => a = 1
        BY <1>6, <2>2, <3>3, <3>4, <3>5, <3>8 DEF Bit
      <4>. QED BY <1>5, <1>6, <2>0, <3>2, <3>8, <4>2, <4>3
    <3>. QED BY <1>2, <3>6, <3>7, <3>8
  <2>. QED BY <2>1, <2>2
<1>8. Used(e)' <= Used(e)
  <2>1. runs[e[2]] \in Nat /\ box[e] \in Nat
    BY PartTypes
  <2>2. Used(e) = runs[e[2]] + n + a + x + box[e] /\ Used(e)' = runs[e[2]] + m + b + y + box[e]
    BY <1>1, <1>6 DEF Used
  <2>3. n \in Nat /\ m \in Nat /\ a \in {0, 1} /\ b \in {0, 1} /\ x \in {0, 1} /\ y \in {0, 1}
    BY <1>2, <1>6, UsedParts
  <2>. QED BY <1>7, <2>1, <2>2, <2>3
<1>. QED BY <1>1, <1>2, <1>4, <1>8, UsedParts, AccountedStep

\* Every step of a fault-free execution that executes nothing again in place keeps
\* the account of a queue.
LEMMA AccountedNext ==
  ASSUME ~Faults, NoRedispatch, EntryIsSource, PartsInv, ExecTyped', [ExecNext]_allVars,
         NEW e \in Edge, Cardinality(In(e[2])) > 1
  PROVE  Accounted(e)'
<1>0. ExecTyped /\ StatusInv /\ Accounted(e)
  BY DEF PartsInv, ExecTyped
<1>1. ASSUME NEW h \in Handler, Step(h) PROVE Accounted(e)'
  <2>0. PICK n, m, a, b, x, y :
          /\ n = Cardinality(Doing(e[2], {"run"})) /\ m = Cardinality(Doing(e[2], {"run"})')
          /\ a = Bit(e[1] \in arrived[e[2]]) /\ b = Bit(e[1] \in arrived'[e[2]])
          /\ x = Bit(work[e].pc = "held") /\ y = Bit(work'[e].pc = "held")
    OBVIOUS
  <2>1. /\ Used(e) = runs[e[2]] + n + a + x + box[e]
        /\ Used(e)' = runs'[e[2]] + m + b + y + box'[e]
        /\ runs[e[2]] \in Nat /\ box[e] \in Nat /\ runs'[e[2]] \in Nat /\ box'[e] \in Nat
        /\ e \in Handler /\ Target(e) = e[2] /\ e[1] \in Task /\ e[2] \in Task
    BY <1>0, <2>0, PartTypes, EdgeAssumption DEF Used, ExecTyped, Handler
  <2>2. ASSUME NEW l, MovedTo(h, l)
        PROVE  /\ n \in Nat /\ m \in Nat /\ a \in {0, 1} /\ b \in {0, 1} /\ x \in {0, 1} /\ y \in {0, 1}
               /\ (arrived' = arrived => a = b)
               /\ (l # "held" => y <= x) /\ (e # h => y = x)
    <3>1. /\ n \in Nat /\ m \in Nat /\ a \in {0, 1} /\ b \in {0, 1} /\ x \in {0, 1} /\ y \in {0, 1}
      BY <1>0, <2>0, <2>2, UsedParts
    <3>2. (l # "held" => y <= x) /\ (e # h => y = x)
      BY <2>0, <2>1, <2>2 DEF Bit, MovedTo
    <3>. QED BY <2>0, <3>1, <3>2
  <2>3. ASSUME NEW l \in Sent \cup {"idle"}, MovedTo(h, l), UNCHANGED <<box, arrived, runs>>,
               work[h].pc \in Sent, l \in Sent
        PROVE  Accounted(e)'
    <3>1. m = n
      BY <2>0, <2>3, DoingMoves DEF Sent
    <3>2. Cardinality(Doing(e[1], Sent)') = Cardinality(Doing(e[1], Sent))
      BY <2>3, DoingMoves
    <3>3. Used(e)' <= Used(e)
      BY <2>1, <2>2, <2>3, <3>1 DEF Sent
    <3>. QED BY <1>0, <2>3, <3>2, <3>3, UsedParts, AccountedStep
  <2>4. CASE _consume_queue(h)
    <3>1. /\ MovedTo(h, "held") /\ work[h].pc = "idle" /\ h \in Edge /\ box[h] > 0
          /\ box' = [box EXCEPT ![h] = box[h] - 1] /\ UNCHANGED <<arrived, runs>>
      BY <1>0, <2>4, ExecMoves
    <3>2. m = n /\ Cardinality(Doing(e[1], Sent)') = Cardinality(Doing(e[1], Sent))
      BY <2>0, <3>1, DoingMoves DEF Sent
    <3>3. box'[e] = IF e = h THEN box[e] - 1 ELSE box[e]
      BY <1>0, <2>1, <3>1 DEF ExecTyped
    <3>4. e = h => x = 0
      BY <2>0, <3>1 DEF Bit
    <3>5. Used(e)' <= Used(e)
      BY <2>1, <2>2, <3>1, <3>2, <3>3, <3>4
    <3>. QED BY <1>0, <3>1, <3>2, <3>5, UsedParts, AccountedStep
  <2>5. CASE on_pipeline_event(h)
    <3>1. /\ MovedTo(h, "run") /\ work[h].pc = "idle" /\ h \in Trigger /\ box[h] > 0
          /\ box' = [box EXCEPT ![h] = box[h] - 1] /\ UNCHANGED <<arrived, runs>>
      BY <1>0, <2>5, ExecMoves
    <3>2. h \notin Edge /\ Target(h) = Entry
      BY <3>1, HandlerAssumption DEF Target
    <3>3. Target(h) # e[2]
      BY <3>2 DEF EntryIsSource, In
    <3>4. m = n
      BY <2>0, <3>1, <3>3, DoingMoves
    <3>5. Cardinality(Doing(e[1], Sent)') = Cardinality(Doing(e[1], Sent))
      BY <3>1, DoingMoves DEF Sent
    <3>6. box'[e] = box[e] /\ e # h
      BY <1>0, <2>1, <3>1, <3>2 DEF ExecTyped
    <3>7. Used(e)' <= Used(e)
      BY <2>1, <2>2, <3>1, <3>4, <3>6
    <3>. QED BY <1>0, <3>1, <3>5, <3>7, UsedParts, AccountedStep
  <2>6. CASE default_handler(h)
    BY <1>0, <2>6, FiledPart
  <2>7. ASSUME NEW s \in EventStatus, Execute(h, s) PROVE Accounted(e)'
    <3>1. /\ MovedTo(h, "report") /\ work[h].pc = "run" /\ UNCHANGED <<box, arrived>>
          /\ runs' = [runs EXCEPT ![Target(h)] = runs[Target(h)] + 1]
      BY <1>0, <2>7, ExecMoves
    <3>2. \/ Target(h) = e[2] /\ runs'[e[2]] = runs[e[2]] + 1 /\ m = n - 1
          \/ Target(h) # e[2] /\ runs'[e[2]] = runs[e[2]] /\ m = n
      BY <1>0, <2>0, <2>1, <3>1, DoingMoves DEF ExecTyped
    <3>3. Used(e)' <= Used(e)
      BY <2>1, <2>2, <3>1, <3>2
    <3>4. \/ Target(h) = e[1] /\ runs'[e[1]] = runs[e[1]] + 1
             /\ Cardinality(Doing(e[1], Sent)') = Cardinality(Doing(e[1], Sent)) + 1
          \/ Target(h) # e[1] /\ runs'[e[1]] = runs[e[1]]
             /\ Cardinality(Doing(e[1], Sent)') = Cardinality(Doing(e[1], Sent))
      BY <1>0, <2>1, <3>1, DoingMoves DEF ExecTyped, Sent
    <3>. QED BY <1>0, <3>1, <3>3, <3>4, UsedParts, AccountedStep
  <2>8. CASE Report(h)
    <3>1. PICK l \in {"await", "publish"} : /\ MovedTo(h, l) /\ work[h].pc = "report"
                                            /\ UNCHANGED <<box, arrived, runs>>
      BY <1>0, <2>8, ExecMoves
    <3>. QED BY <2>3, <3>1 DEF Sent
  <2>9. CASE Track(h)
    <3>1. /\ work' = work \/ MovedTo(h, "publish")
          /\ work[h].pc = "await" /\ UNCHANGED <<box, arrived, runs>>
      BY <1>0, <2>9, ExecMoves
    <3>2. MovedTo(h, "await") \/ MovedTo(h, "publish")
      BY <3>1 DEF MovedTo
    <3>. QED BY <2>3, <3>1, <3>2 DEF Sent
  <2>10. CASE TrackReturns(h)
    <3>1. /\ MovedTo(h, "publish")
             \/ (MovedTo(h, "run") /\ call[Host(h)].moved /\ work[h].count < MaxReforwards)
          /\ work[h].pc = "await" /\ UNCHANGED <<box, arrived, runs>>
      BY <1>0, <2>10, ExecMoves
    <3>2. ~(call[Host(h)].moved /\ work[h].count < MaxReforwards)
      <4>1. CASE ~Reforward
        BY <4>1, HandlerFacts DEF PartsInv, NeverMoved
      <4>2. CASE MaxReforwards = 0
        BY <1>0, <4>2 DEF StatusInv, Work
      <4>. QED BY <4>1, <4>2 DEF NoRedispatch
    <3>. QED BY <2>3, <3>1, <3>2 DEF Sent
  <2>11. CASE Publish(h)
    <3>1. /\ MovedTo(h, "idle") /\ work[h].pc = "publish" /\ UNCHANGED <<arrived, runs>>
          /\ PublishTo(Target(h), Out(Target(h)))
      BY <1>0, <2>11, ExecMoves
    <3>2. m = n
      BY <2>0, <3>1, DoingMoves
    <3>3. box'[e] = box[e] + Copies(Target(h), Out(Target(h)), e)
      BY <1>0, <2>1, <3>1, PublishTyped DEF ExecTyped
    <3>4. CASE Target(h) = e[1]
      <4>1. box'[e] = box[e] + Multiplicity(e) /\ Multiplicity(e) \in Nat
        BY <1>0, <3>3, <3>4, PartTypes DEF Multiplicity
      <4>2. Used(e)' <= Used(e) + Multiplicity(e)
        BY <2>1, <2>2, <3>1, <3>2, <4>1
      <4>3. Cardinality(Doing(e[1], Sent)') = Cardinality(Doing(e[1], Sent)) - 1
        BY <3>1, <3>4, DoingMoves DEF Sent
      <4>. QED BY <1>0, <3>1, <4>2, <4>3, UsedParts, AccountedStep
    <3>5. CASE Target(h) # e[1]
      <4>1. e \notin Out(Target(h))
        BY <3>5 DEF Out
      <4>2. Copies(Target(h), Out(Target(h)), e) = 0
        BY <4>1, CopiesFacts
      <4>3. Used(e)' <= Used(e)
        BY <2>1, <2>2, <3>1, <3>2, <3>3, <4>2
      <4>4. Cardinality(Doing(e[1], Sent)') = Cardinality(Doing(e[1], Sent))
        BY <3>1, <3>5, DoingMoves
      <4>. QED BY <1>0, <3>1, <4>3, <4>4, UsedParts, AccountedStep
    <3>. QED BY <3>4, <3>5
  <2>. QED BY <1>1, <2>4, <2>5, <2>6, <2>7, <2>8, <2>9, <2>10, <2>11 DEF Step
<1>2. \A h \in Handler : ~TrackRaises(h) /\ ~PublishError(h)
  BY DEF TrackRaises, StoreError, PublishError
<1>3. ASSUME UNCHANGED <<box, arrived, work, runs>> PROVE Accounted(e)'
  BY <1>0, <1>3 DEF Accounted, Used, Doing, Multiplicity, Copies, exchange_type, Out, In, Target
<1>4. StopConsumers \/ Environment \/ UNCHANGED allVars => UNCHANGED <<box, arrived, work, runs>>
  BY DEF StopConsumers, Environment, allVars, execVars
<1>. QED BY <1>1, <1>2, <1>3, <1>4 DEF ExecNext

\* The launched run has used up nothing.
LEMMA PartsInit == launch => PartsInv
<1>. SUFFICES ASSUME launch PROVE PartsInv
  OBVIOUS
<1>1. IInv /\ ExecTyped
  BY InitIInv, ExecTypedInit DEF launch
<1>2. NeverMoved
  BY DEF launch, Init, Idle, NeverMoved
<1>3. ASSUME NEW e \in Edge PROVE Accounted(e)
  <2>1. \A h \in Handler : work[h].pc = "idle"
    BY DEF launch, Waiting
  <2>2. Doing(e[2], {"run"}) = {} /\ Doing(e[1], Sent) = {}
    BY <2>1 DEF Doing, Sent
  <2>3. Cardinality(Doing(e[2], {"run"})) = 0 /\ Cardinality(Doing(e[1], Sent)) = 0
    BY <2>2, FS_EmptySet
  <2>4. /\ runs[e[2]] = 0 /\ runs[e[1]] = 0 /\ box[e] = 0 /\ e[1] \notin arrived[e[2]]
        /\ work[e].pc # "held"
    BY <2>1, EdgeAssumption, HandlerAssumption DEF launch, Handler
  <2>5. Used(e) = 0
    BY <2>3, <2>4 DEF Used, Bit
  <2>6. PICK m \in Nat : m = Multiplicity(e)
    BY <1>1, PartTypes
  <2>7. 0 + m * 0 <= 0 * m
    OBVIOUS
  <2>. QED BY <2>3, <2>4, <2>5, <2>6, <2>7 DEF Accounted
<1>. QED BY <1>1, <1>2, <1>3 DEF PartsInv

\* For every graph whose entry depends on nothing and any number of processes,
\* without faults and without re-dispatch in place: every execution of a fan-in
\* task used up one message of its own from each upstream (default_handler, the
\* aggregator store, call_publish_with_retry and the fanout exchanges).
THEOREM FanInPartsAreFresh ==
  ASSUME ~Faults, NoRedispatch, EntryIsSource PROVE ExecSpec => []FanInUsesFreshParts
<1>1. PartsInv => FanInUsesFreshParts
  <2>. SUFFICES ASSUME PartsInv, NEW t \in Task, NEW u \in required_upstreams(t)
                PROVE  runs[t] <= runs[u] * Copies(u, Out(u), <<u, t>>)
    BY DEF FanInUsesFreshParts
  <2>1. Cardinality(In(t)) > 1 /\ \E e \in In(t) : e[1] = u
    BY DEF required_upstreams
  <2>2. PICK e \in Edge : e[1] = u /\ e[2] = t
    BY <2>1 DEF In
  <2>3. e = <<u, t>>
    BY <2>2, EdgeAssumption
  <2>4. /\ Used(e) + Multiplicity(e) * Cardinality(Doing(u, Sent)) <= runs[u] * Multiplicity(e)
        /\ ExecTyped
    BY <2>1, <2>2 DEF PartsInv, Accounted
  <2>5. IsFiniteSet(Doing(u, Sent)) /\ IsFiniteSet(Doing(t, {"run"}))
    <3>1. IsFiniteSet(Handler)
      BY SizeAssumption, FS_Union DEF Handler
    <3>2. Doing(u, Sent) \subseteq Handler /\ Doing(t, {"run"}) \subseteq Handler
      BY DEF Doing
    <3>. QED BY <3>1, <3>2, FS_Subset
  <2>6. PICK n, k, m : /\ n = Cardinality(Doing(u, Sent)) /\ k = Cardinality(Doing(t, {"run"}))
                       /\ m = Multiplicity(e)
    OBVIOUS
  <2>7. n \in Nat /\ k \in Nat /\ m \in Nat /\ runs[u] \in Nat /\ runs[t] \in Nat /\ box[e] \in Nat
    BY <2>2, <2>4, <2>5, <2>6, FS_CardinalityType, PartTypes
  <2>8. runs[t] <= Used(e) /\ Used(e) \in Int
    BY <2>2, <2>6, <2>7 DEF Used, Bit
  <2>9. m * n >= 0 /\ m * n \in Int /\ runs[u] * m \in Int
    BY <2>7
  <2>10. runs[t] <= runs[u] * m
    BY <2>4, <2>6, <2>7, <2>8, <2>9
  <2>. QED BY <2>3, <2>2, <2>6, <2>10 DEF Multiplicity
<1>2. PartsInv /\ [ExecNext]_allVars => PartsInv'
  <2>. SUFFICES ASSUME PartsInv, [ExecNext]_allVars PROVE PartsInv'
    OBVIOUS
  <2>1. ExecTyped' /\ StatusInv
    BY ExecTypedNext DEF PartsInv, ExecTyped
  <2>2. IInv' /\ NeverMoved'
    BY <2>1, ExecNextMaps, NextIInv, NeverMovedNext DEF PartsInv
  <2>3. \A e \in Edge : Cardinality(In(e[2])) > 1 => Accounted(e)'
    BY <2>1, AccountedNext
  <2>. QED BY <2>1, <2>2, <2>3 DEF PartsInv, In
<1>. QED BY <1>1, <1>2, PartsInit, PTL DEF ExecSpec

(***************************************************************************)
(* A quiet run has ended.  FlowOK says that nothing moves that should not; *)
(* what follows says the converse, that nothing stops that should move: a  *)
(* task with a result has been published to each of its queues or is about *)
(* to be, every message and every filed part leads to the next task, and   *)
(* the tracker has not missed the event that ends the run.                 *)
(***************************************************************************)

\* Some task of every set of tasks depends on no other task of the set.
Acyclic == \A S \in SUBSET Task : S # {} => \E t \in S : \A e \in In(t) : e[1] \notin S

\* Only the entry task depends on nothing.
OneEntry == \A t \in Task : In(t) = {} => t = Entry

\* A handler executes the task, reports or publishes its result.
UnderWay(t) == \E h \in Handler : Target(h) = t /\ work[h].pc \in Busy

\* The task has a result or is getting one.
Engaged(t) == t \in Done \/ UnderWay(t)

\* What the source of edge e sent waits, is held or filed, or has done its work.
Passed(e) == \/ box[e] > 0
             \/ work[e].pc = "held"
             \/ e[1] \in arrived[e[2]]
             \/ Engaged(e[2])

PassedOK  == \A e \in Edge : e[1] \in Done => UnderWay(e[1]) \/ Passed(e)
NoneIdle  == \A t \in Task : arrived[t] # {} /\ required_upstreams(t) \subseteq arrived[t] => Engaged(t)
EntryDue  == Engaged(Entry) \/ \E h \in Trigger : box[h] > 0

\* A run that goes on has no failed task and a final task that is not completed.
RunningOK == hot.status = "RUNNING" => /\ \A t \in Task : hot.task[t] # "FAILED"
                                       /\ \E f \in Final : hot.task[f] # "COMPLETED"

OnwardInv ==
  /\ DagInv /\ NeverMoved
  /\ PassedOK /\ NoneIdle /\ EntryDue
  /\ RunningOK /\ (stopped => Terminal(hot))

\* In such a pipeline the entry task depends on nothing.
LEMMA TheEntryIsASource ==
  ASSUME Acyclic, OneEntry PROVE EntryIsSource
<1>1. PICK t \in Task : \A e \in In(t) : e[1] \notin Task
  BY EdgeAssumption DEF Acyclic
<1>2. In(t) = {}
  BY <1>1, EdgeAssumption DEF In
<1>. QED BY <1>2 DEF OneEntry, EntryIsSource

\* Tasks that include the entry and, with all dependencies of a task, the task,
\* are all tasks.
LEMMA AllTasks ==
  ASSUME Acyclic, OneEntry, NEW D \in SUBSET Task, Entry \in D,
         \A t \in Task : In(t) # {} /\ (\A e \in In(t) : e[1] \in D) => t \in D
  PROVE  D = Task
<1>. SUFFICES ASSUME D # Task PROVE FALSE
  OBVIOUS
<1>1. PICK t \in Task \ D : \A e \in In(t) : e[1] \notin Task \ D
  BY DEF Acyclic
<1>2. \A e \in In(t) : e[1] \in D
  BY <1>1, EdgeAssumption DEF In
<1>. QED BY <1>1, <1>2 DEF OneEntry

\* Publishing to all edges of a task puts a message in each of their queues.
LEMMA EachGetsOne ==
  ASSUME NEW t, NEW e \in Out(t)
  PROVE  Copies(t, Out(t), e) > 0
<1>1. IsFiniteSet(Out(t)) /\ Cardinality(Out(t)) \in Nat
  BY SizeAssumption, FS_Subset, FS_CardinalityType DEF Out
<1>2. Cardinality(Out(t)) # 0
  BY <1>1, FS_EmptySet
<1>. QED BY <1>1, <1>2 DEF Copies

\* A result that is stored by a step is that of a handler under way.
LEMMA NewResults ==
  ASSUME OneLoop, ~Faults, DagInv, [ExecNext]_allVars, NEW t \in Done', t \notin Done
  PROVE  UnderWay(t)'
<1>1. ASSUME UNCHANGED hot PROVE FALSE
  BY <1>1 DEF Done
<1>2. PICK h \in Handler : Track(h)
  <2>1. ~Environment
    BY FollowsEnvironment
  <2>2. ~UNCHANGED vars
    BY <1>1 DEF vars
  <2>3. \A h \in Handler : ~TrackReturns(h)
    BY <1>1 DEF TrackReturns, Notify
  <2>4. \A h \in Handler : ~Report(h)
    BY <1>1, <2>2 DEF Report, BeginTaskDone
  <2>5. \A h \in Handler : ~TrackRaises(h)
    BY DEF TrackRaises, StoreError
  <2>. QED BY <2>1, <2>2, <2>3, <2>4, <2>5
       DEF ExecNext, Step, _consume_queue, on_pipeline_event, default_handler, Execute, Publish,
           PublishError, StopConsumers, allVars
<1>3. Host(h) \in Proc /\ work[h].pc = "await" /\ call[Host(h)].task = Target(h)
  BY <1>2, HandlerFacts DEF Track, At, DagInv, AwaitOK
<1>4. Persist(Host(h))
  BY <1>1, <1>2 DEF Track, ReadPlan, ReadSequence, UpsertSequence
<1>5. Done' = Done \cup {Target(h)}
  BY <1>3, <1>4, DoneGrows
<1>6. work' = work \/ MovedTo(h, "publish")
  BY <1>2, ExecMoves DEF DagInv, ExecTyped
<1>. QED BY <1>3, <1>5, <1>6 DEF UnderWay, Busy, MovedTo

\* What a step does to the handlers: only publishing ends what is under way.
LEMMA BusyStays ==
  ASSUME ~Faults, StatusInv, [ExecNext]_allVars, NEW h \in Handler, work[h].pc \in Busy
  PROVE  work'[h].pc \in Busy \/ Publish(h)
<1>1. ASSUME NEW g \in Handler, Step(g) PROVE work'[h].pc \in Busy \/ Publish(h)
  <2>1. CASE _consume_queue(g) \/ on_pipeline_event(g) \/ default_handler(g)
    <3>1. work[g].pc \notin Busy /\ (MovedTo(g, "held") \/ MovedTo(g, "run") \/ MovedTo(g, "idle"))
      BY <2>1, ExecMoves DEF Busy
    <3>. QED BY <3>1 DEF MovedTo
  <2>2. ASSUME NEW s \in EventStatus, Execute(g, s) PROVE work'[h].pc \in Busy
    <3>1. MovedTo(g, "report")
      BY <2>2, ExecMoves
    <3>. QED BY <3>1 DEF MovedTo, Busy
  <2>3. CASE Report(g) \/ Track(g) \/ TrackReturns(g)
    <3>1. work' = work \/ MovedTo(g, "await") \/ MovedTo(g, "publish") \/ MovedTo(g, "run")
      BY <2>3, ExecMoves
    <3>. QED BY <3>1 DEF MovedTo, Busy
  <2>4. CASE Publish(g)
    <3>1. MovedTo(g, "idle")
      BY <2>4, ExecMoves
    <3>. QED BY <2>4, <3>1 DEF MovedTo
  <2>. QED BY <1>1, <2>1, <2>2, <2>3, <2>4 DEF Step
<1>2. \A g \in Handler : ~TrackRaises(g) /\ ~PublishError(g)
  BY DEF TrackRaises, StoreError, PublishError
<1>3. StopConsumers \/ Environment \/ UNCHANGED allVars => UNCHANGED work
  BY DEF StopConsumers, Environment, allVars, execVars
<1>. QED BY <1>1, <1>2, <1>3 DEF ExecNext

\* A task that is engaged stays so: its handler publishes what is stored.
LEMMA EngagedStays ==
  ASSUME ~Faults, DagInv, [ExecNext]_allVars, Done \subseteq Done', NEW t, Engaged(t)
  PROVE  Engaged(t)'
<1>1. CASE t \in Done
  BY <1>1 DEF Engaged
<1>2. ASSUME NEW h \in Handler, Target(h) = t, work[h].pc \in Busy PROVE Engaged(t)'
  <2>1. CASE work'[h].pc \in Busy
    BY <1>2, <2>1 DEF Engaged, UnderWay
  <2>2. CASE Publish(h)
    <3>1. t \in Done
      BY <1>2, <2>2 DEF Publish, At, DagInv, FlowOK, DoneOK
    <3>. QED BY <3>1 DEF Engaged
  <2>. QED BY <1>2, <2>1, <2>2, BusyStays DEF DagInv, ExecTyped
<1>. QED BY <1>1, <1>2 DEF Engaged, UnderWay

\* What the handler of a queue does with the part it holds.
LEMMA PartFiled ==
  ASSUME DagInv, NEW h \in Handler, default_handler(h)
  PROVE  /\ h \in Edge /\ work[h].pc = "held" /\ UNCHANGED box
         /\ arrived' = [arrived EXCEPT ![h[2]] = Flushed(h[2], arrived[h[2]] \cup {h[1]})]
         /\ \/ UnderWay(h[2])' /\ MovedTo(h, "run")
            \/ /\ ~(required_upstreams(h[2]) \subseteq arrived[h[2]] \cup {h[1]})
               /\ MovedTo(h, "idle") /\ arrived'[h[2]] = arrived[h[2]] \cup {h[1]}
<1>1. h \in Edge /\ work[h].pc = "held" /\ UNCHANGED box
  BY DEF default_handler, At, DagInv, ExecTyped
<1>2. Target(h) = h[2] /\ h[2] \in Task /\ Parts(h) = arrived[h[2]] \cup {h[1]}
  BY <1>1, EdgeAssumption DEF Target, Parts
<1>3. /\ arrived' = [arrived EXCEPT ![h[2]] = Flushed(h[2], Parts(h))]
      /\ IF required_upstreams(h[2]) \subseteq Parts(h) THEN Jump(h, "run") ELSE Become(h, Waiting)
  BY <1>2 DEF default_handler, DagInv
<1>4. StatusInv /\ arrived \in [Task -> SUBSET Task]
  BY DEF DagInv, ExecTyped
<1>5. CASE required_upstreams(h[2]) \subseteq Parts(h)
  <2>1. MovedTo(h, "run")
    BY <1>3, <1>4, <1>5, Moves DEF Labels
  <2>2. UnderWay(h[2])'
    BY <1>2, <2>1 DEF MovedTo, UnderWay, Busy
  <2>. QED BY <1>1, <1>2, <1>3, <2>1, <2>2
<1>6. CASE ~(required_upstreams(h[2]) \subseteq Parts(h))
  <2>1. MovedTo(h, "idle")
    BY <1>3, <1>4, <1>6, Moves
  <2>2. arrived'[h[2]] = Parts(h)
    BY <1>2, <1>3, <1>4, <1>6 DEF Flushed
  <2>. QED BY <1>1, <1>2, <1>3, <1>6, <2>1, <2>2
<1>. QED BY <1>5, <1>6

\* The other steps file nothing, and take a message only from the queue of the
\* handler that holds it, or from a trigger whose task is then under way.
LEMMA OtherMoves ==
  ASSUME ~Faults, DagInv, [ExecNext]_allVars, \A h \in Handler : ~default_handler(h)
  PROVE  /\ UNCHANGED arrived
         /\ \A e \in Edge : /\ box[e] > 0 => box'[e] > 0 \/ work'[e].pc = "held"
                            /\ work[e].pc = "held" => work'[e].pc = "held"
         /\ \A h \in Trigger : box[h] > 0 => box'[h] > 0 \/ UnderWay(Entry)'
<1>0. StatusInv /\ box \in [Handler -> Nat]
  BY DEF DagInv, ExecTyped
<1>. DEFINE Goal ==
              /\ UNCHANGED arrived
              /\ \A e \in Edge : /\ box[e] > 0 => box'[e] > 0 \/ work'[e].pc = "held"
                                 /\ work[e].pc = "held" => work'[e].pc = "held"
              /\ \A h \in Trigger : box[h] > 0 => box'[h] > 0 \/ UnderWay(Entry)'
<1>1. ASSUME NEW h \in Handler, Step(h) PROVE Goal
  <2>1. CASE _consume_queue(h)
    <3>1. /\ MovedTo(h, "held") /\ work[h].pc = "idle" /\ h \in Edge
          /\ box' = [box EXCEPT ![h] = box[h] - 1] /\ UNCHANGED arrived
      BY <1>0, <2>1, ExecMoves
    <3>2. \A g \in Handler : g # h => box'[g] = box[g] /\ work'[g].pc = work[g].pc
      BY <1>0, <3>1 DEF MovedTo
    <3>3. work'[h].pc = "held" /\ h \notin Trigger
      BY <3>1, HandlerAssumption DEF MovedTo
    <3>. QED BY <3>1, <3>2, <3>3 DEF Handler
  <2>2. CASE on_pipeline_event(h)
    <3>1. /\ MovedTo(h, "run") /\ work[h].pc = "idle" /\ h \in Trigger
          /\ box' = [box EXCEPT ![h] = box[h] - 1] /\ UNCHANGED arrived
      BY <1>0, <2>2, ExecMoves
    <3>2. \A g \in Handler : g # h => box'[g] = box[g] /\ work'[g].pc = work[g].pc
      BY <1>0, <3>1 DEF MovedTo
    <3>3. UnderWay(Entry)' /\ h \notin Edge
      BY <3>1, HandlerAssumption DEF MovedTo, UnderWay, Target, Busy
    <3>. QED BY <3>1, <3>2, <3>3 DEF Handler
  <2>3. ASSUME UNCHANGED <<box, arrived>>, work[h].pc \in Busy,
               work' = work \/ \E l \in Labels : MovedTo(h, l)
        PROVE  Goal
    <3>1. \A e \in Edge : work[e].pc = "held" => work'[e].pc = "held"
      BY <2>3 DEF MovedTo, Busy, Handler
    <3>. QED BY <2>3, <3>1
  <2>4. ASSUME NEW s \in EventStatus, Execute(h, s) PROVE Goal
    <3>1. MovedTo(h, "report") /\ work[h].pc = "run" /\ UNCHANGED <<box, arrived>>
      BY <1>0, <2>4, ExecMoves
    <3>. QED BY <2>3, <3>1 DEF Busy, Labels
  <2>5. CASE Report(h) \/ Track(h) \/ TrackReturns(h)
    <3>1. /\ work' = work \/ MovedTo(h, "await") \/ MovedTo(h, "publish") \/ MovedTo(h, "run")
          /\ work[h].pc \in {"report", "await"} /\ UNCHANGED <<box, arrived>>
      BY <1>0, <2>5, ExecMoves
    <3>. QED BY <2>3, <3>1 DEF Busy, Labels
  <2>6. CASE Publish(h)
    <3>1. /\ MovedTo(h, "idle") /\ work[h].pc = "publish" /\ UNCHANGED arrived
          /\ PublishTo(Target(h), Out(Target(h)))
      BY <1>0, <2>6, ExecMoves
    <3>2. /\ \A e \in Edge : box'[e] >= box[e] /\ box[e] \in Nat /\ box'[e] \in Nat
          /\ \A g \in Trigger : box'[g] = box[g]
      BY <1>0, <3>1, PublishTyped, CopiesFacts, HandlerAssumption DEF Handler
    <3>3. \A e \in Edge : work[e].pc = "held" => work'[e].pc = "held"
      BY <3>1 DEF MovedTo, Handler
    <3>4. UNCHANGED arrived
      BY <3>1
    <3>5. ASSUME NEW e \in Edge, box[e] > 0 PROVE box'[e] > 0
      BY <3>2, <3>5
    <3>6. \A g \in Trigger : box[g] > 0 => box'[g] > 0
      BY <3>2
    <3>. QED BY <3>3, <3>4, <3>5, <3>6
  <2>. QED BY <1>1, <2>1, <2>2, <2>4, <2>5, <2>6 DEF Step
<1>2. \A h \in Handler : ~TrackRaises(h) /\ ~PublishError(h)
  BY DEF TrackRaises, StoreError, PublishError
<1>3. StopConsumers \/ Environment \/ UNCHANGED allVars => UNCHANGED <<work, box, arrived>>
  BY DEF StopConsumers, Environment, allVars, execVars
<1>4. UNCHANGED <<work, box, arrived>> => Goal
  OBVIOUS
<1>. QED BY <1>1, <1>2, <1>3, <1>4 DEF ExecNext

\* No message, no part and no trigger gets stuck.
LEMMA FlowGoesOn ==
  ASSUME OneLoop, ~Faults, EntryIsSource, OnwardInv, [ExecNext]_allVars
  PROVE  PassedOK' /\ NoneIdle' /\ EntryDue'
<1>0. DagInv /\ Done \subseteq Done' /\ StatusInv
  <2>1. PICK D, E : D = Done /\ E = Done'
    OBVIOUS
  <2>2. Follows(D, E)
    BY <2>1, FollowsNext DEF OnwardInv
  <2>. QED BY <2>1, <2>2 DEF OnwardInv, Follows, DagInv, ExecTyped
<1>1. \A t : Engaged(t) => Engaged(t)'
  BY <1>0, EngagedStays
<1>2. arrived \in [Task -> SUBSET Task] /\ \A e \in Edge : e[1] \in Task /\ e[2] \in Task /\ e \in Handler
  BY <1>0, EdgeAssumption DEF DagInv, ExecTyped, Handler
<1>3. ASSUME NEW h \in Handler, default_handler(h)
      PROVE  (\A e \in Edge : Passed(e) => Passed(e)') /\ NoneIdle' /\ EntryDue'
  <2>. DEFINE t == h[2]
  <2>1. /\ h \in Edge /\ work[h].pc = "held" /\ UNCHANGED box
        /\ arrived' = [arrived EXCEPT ![t] = Flushed(t, arrived[t] \cup {h[1]})]
        /\ \/ Engaged(t)' /\ MovedTo(h, "run")
           \/ /\ ~(required_upstreams(t) \subseteq arrived[t] \cup {h[1]})
              /\ MovedTo(h, "idle") /\ arrived'[t] = arrived[t] \cup {h[1]}
    BY <1>0, <1>3, PartFiled DEF Engaged
  <2>. HIDE DEF t
  <2>2. \A u \in Task : u # t => arrived'[u] = arrived[u]
    BY <1>2, <2>1
  <2>3. \A g \in Handler : g # h => work'[g].pc = work[g].pc
    BY <2>1 DEF MovedTo
  <2>4. ASSUME NEW e \in Edge, Passed(e) PROVE Passed(e)'
    <3>1. CASE box[e] > 0 \/ Engaged(e[2])
      BY <1>1, <2>1, <3>1 DEF Passed
    <3>2. CASE e[2] = t
      <4>1. CASE Engaged(t)'
        BY <3>2, <4>1 DEF Passed
      <4>2. CASE arrived'[t] = arrived[t] \cup {h[1]}
        <5>1. CASE e = h \/ e[1] \in arrived[t]
          BY <3>2, <4>2, <5>1 DEF Passed
        <5>2. CASE e # h /\ work[e].pc = "held"
          BY <1>2, <2>3, <5>2 DEF Passed
        <5>. QED BY <2>4, <3>1, <3>2, <5>1, <5>2 DEF Passed
      <4>. QED BY <2>1, <4>1, <4>2
    <3>3. CASE e[2] # t
      <4>1. e # h
        BY <3>3 DEF t
      <4>. QED BY <1>1, <1>2, <2>1, <2>2, <2>3, <2>4, <3>3, <4>1 DEF Passed
    <3>. QED BY <3>2, <3>3
  <2>5. NoneIdle'
    <3>. SUFFICES ASSUME NEW u \in Task, arrived'[u] # {}, required_upstreams(u) \subseteq arrived'[u]
                  PROVE  Engaged(u)'
      BY DEF NoneIdle
    <3>1. CASE u = t
      BY <2>1, <3>1
    <3>2. CASE u # t
      BY <1>1, <2>2, <3>2 DEF OnwardInv, NoneIdle
    <3>. QED BY <3>1, <3>2
  <2>6. EntryDue'
    BY <1>1, <2>1 DEF OnwardInv, EntryDue
  <2>. QED BY <2>4, <2>5, <2>6
<1>4. ASSUME \A h \in Handler : ~default_handler(h)
      PROVE  (\A e \in Edge : Passed(e) => Passed(e)') /\ NoneIdle' /\ EntryDue'
  <2>1. /\ UNCHANGED arrived
        /\ \A e \in Edge : /\ box[e] > 0 => box'[e] > 0 \/ work'[e].pc = "held"
                           /\ work[e].pc = "held" => work'[e].pc = "held"
        /\ \A h \in Trigger : box[h] > 0 => box'[h] > 0 \/ UnderWay(Entry)'
    BY <1>0, <1>4, OtherMoves
  <2>2. \A e \in Edge : Passed(e) => Passed(e)'
    BY <1>1, <2>1 DEF Passed
  <2>3. NoneIdle'
    BY <1>1, <2>1 DEF OnwardInv, NoneIdle
  <2>4. EntryDue'
    BY <1>1, <2>1 DEF OnwardInv, EntryDue, Engaged
  <2>. QED BY <2>2, <2>3, <2>4
<1>5. (\A e \in Edge : Passed(e) => Passed(e)') /\ NoneIdle' /\ EntryDue'
  BY <1>3, <1>4
<1>6. PassedOK'
  <2>. SUFFICES ASSUME NEW e \in Edge, e[1] \in Done' PROVE UnderWay(e[1])' \/ Passed(e)'
    BY DEF PassedOK
  <2>1. CASE e[1] \notin Done
    BY <1>0, <2>1, NewResults
  <2>2. CASE Passed(e)
    BY <1>5, <2>2
  <2>3. ASSUME NEW h \in Handler, Target(h) = e[1], work[h].pc \in Busy
        PROVE  UnderWay(e[1])' \/ Passed(e)'
    <3>1. CASE work'[h].pc \in Busy
      BY <2>3, <3>1 DEF UnderWay
    <3>2. CASE Publish(h)
      <4>1. PublishTo(e[1], Out(e[1]))
        BY <2>3, <3>2 DEF Publish
      <4>2. e \in Out(e[1]) /\ box \in [Handler -> Nat]
        BY <1>0 DEF Out, DagInv, ExecTyped
      <4>3. box'[e] = box[e] + Copies(e[1], Out(e[1]), e) /\ box[e] \in Nat
        BY <1>2, <4>1, <4>2, PublishTyped
      <4>4. box'[e] > 0
        BY <4>2, <4>3, EachGetsOne, CopiesFacts
      <4>. QED BY <4>4 DEF Passed
    <3>. QED BY <1>0, <2>3, <3>1, <3>2, BusyStays
  <2>. QED BY <2>1, <2>2, <2>3 DEF OnwardInv, PassedOK, UnderWay
<1>. QED BY <1>5, <1>6

\* The tracker ends the run with the first failure, and with the last of the
\* finals that completes; a run that has ended stays so.
LEMMA EndIsNoticed ==
  ASSUME OneLoop, ~Faults, ~Reforward, OnwardInv, [ExecNext]_allVars
  PROVE  RunningOK' /\ (stopped' => Terminal(hot'))
<1>0. IInv /\ \A p \in Proc : Fresh(call[p]) /\ CallOK(call[p]) /\ call[p] \in Call /\ ~call[p].moved
  BY DEF OnwardInv, DagInv, FreshInv, IInv, TypeOK, NeverMoved
<1>00. hot \in Doc /\ hot.task \in [Task -> TaskStatus] /\ Exists(hot)
  BY <1>0 DEF IInv, TypeOK, Doc, OnwardInv, DagInv
<1>1. ASSUME NEW p \in Proc, Persist(p) PROVE RunningOK' /\ (Terminal(hot) => Terminal(hot'))
  <2>1. /\ call[p].snap = hot /\ call[p].op \in EventStatus /\ call[p].task \in Task
        /\ hot' = Applied(call[p])
    BY <1>0, <1>00, <1>1 DEF Persist, update_run, Fresh, Reading, CallOK, TrackerPC, Call
  <2>2. hot'.task = [hot.task EXCEPT ![call[p].task] = call[p].op]
    BY <1>00, <2>1 DEF Applied, FinalsDone, Reforwarded, model_dump, Doc
  <2>3. CASE call[p].op = "FAILED"
    <3>1. hot'.status = "FAILED"
      BY <1>0, <1>00, <2>1, <2>3 DEF Applied, model_dump, Doc
    <3>. QED BY <3>1 DEF RunningOK, Terminal
  <2>4. CASE call[p].op = "COMPLETED"
    <3>1. hot'.status = IF Final # {} /\ \A f \in Final : hot'.task[f] = "COMPLETED"
                        THEN "COMPLETED" ELSE hot.status
      BY <1>00, <2>1, <2>4, FinalAssumption DEF Applied, FinalsDone, model_dump, Doc
    <3>2. Terminal(hot) => Terminal(hot')
      BY <3>1 DEF Terminal
    <3>3. ASSUME hot'.status = "RUNNING"
          PROVE  /\ \A t \in Task : hot'.task[t] # "FAILED"
                 /\ \E f \in Final : hot'.task[f] # "COMPLETED"
      <4>1. hot.status = "RUNNING"
        BY <3>1, <3>3
      <4>2. Final # {} /\ \A t \in Task : hot.task[t] # "FAILED"
        BY <4>1 DEF OnwardInv, RunningOK
      <4>3. \A t \in Task : hot'.task[t] # "FAILED"
        BY <1>00, <2>2, <2>4, <4>2
      <4>. QED BY <3>1, <3>3, <4>2, <4>3
    <3>. QED BY <3>2, <3>3 DEF RunningOK
  <2>. QED BY <2>1, <2>3, <2>4 DEF EventStatus
<1>2. ASSUME NEW p \in Proc, FinishEdit(p) PROVE hot'.task = hot.task /\ hot'.status = hot.status
  <2>1. call[p].snap = hot /\ call[p].op \in Edit /\ hot' = Edited(call[p])
    BY <1>0, <1>00, <1>2 DEF FinishEdit, update_run, Fresh, Reading, CallOK
  <2>. QED BY <1>00, <2>1 DEF Edited, Edit, Doc
<1>3. \/ \E p \in Proc : Persist(p)
      \/ hot'.task = hot.task /\ hot'.status = hot.status
  <2>1. ASSUME NEW h \in Handler, Step(h) PROVE Persist(Host(h)) \/ UNCHANGED hot
    BY <2>1 DEF Step, _consume_queue, on_pipeline_event, default_handler, Execute, Report, Track, TrackReturns,
                Publish, vars, BeginTaskDone, ReadPlan, ReadSequence, UpsertSequence, Notify
  <2>2. \A h \in Handler : ~TrackRaises(h) /\ ~PublishError(h)
    BY DEF TrackRaises, StoreError, PublishError
  <2>3. StopConsumers \/ UNCHANGED allVars => UNCHANGED hot
    BY DEF StopConsumers, allVars, vars
  <2>4. Environment => UNCHANGED hot \/ \E p \in Proc : FinishEdit(p)
    BY DEF Environment, BeginEdit, Forget
  <2>. QED BY <1>2, <2>1, <2>2, <2>3, <2>4, HandlerFacts DEF ExecNext
<1>4. RunningOK' /\ (Terminal(hot) => Terminal(hot'))
  BY <1>1, <1>3 DEF OnwardInv, RunningOK, Terminal
<1>5. stopped' = stopped \/ Terminal(hot)
  BY DEF ExecNext, Step, _consume_queue, on_pipeline_event, default_handler, Execute, Report, Track,
     TrackReturns, TrackRaises, Publish, PublishError, StopConsumers, Environment, allVars, execVars
<1>. QED BY <1>4, <1>5 DEF OnwardInv

\* A launched run has its triggers, and an end to reach.
LEMMA OnwardInit ==
  ASSUME launch, Trigger # {}, Final # {}
  PROVE  OnwardInv
<1>1. DagInv
  BY DagInit
<1>2. \A p \in Proc : call[p].pc = "idle" /\ ~call[p].moved
  BY DEF launch, Init, Idle
<1>3. NeverMoved
  BY <1>2 DEF NeverMoved
<1>4. hot.status = "RUNNING" /\ \A t \in Task : hot.task[t] = "PENDING"
  BY DEF launch, Init, seed_initial_run
<1>5. PassedOK
  BY <1>4 DEF PassedOK, Done, EventStatus
<1>6. NoneIdle
  BY DEF launch, NoneIdle
<1>7. EntryDue
  BY DEF launch, EntryDue, Handler
<1>8. RunningOK
  BY <1>4, FinalAssumption DEF RunningOK
<1>9. ~stopped
  BY DEF launch
<1>. QED BY <1>1, <1>3, <1>5, <1>6, <1>7, <1>8, <1>9 DEF OnwardInv

\* When nothing is left to handle, every task has its result, and with the last
\* of them the run has ended.
LEMMA QuietIsTerminal ==
  ASSUME Acyclic, OneEntry, OnwardInv
  PROVE  QuiescentTerminal
<1>. SUFFICES ASSUME Quiet, ~Terminal(hot) PROVE FALSE
  BY DEF QuiescentTerminal
<1>1. /\ \A h \in Handler : work[h].pc = "idle" /\ box[h] = 0
      /\ hot.status = "RUNNING" /\ hot.task \in [Task -> TaskStatus]
  BY DEF Quiet, At, OnwardInv, DagInv, FreshInv, IInv, TypeOK, Doc, RunStatus, Exists, Terminal
<1>2. \A t : ~UnderWay(t)
  BY <1>1 DEF UnderWay, Busy
<1>3. Entry \in Done
  BY <1>1, <1>2 DEF OnwardInv, EntryDue, Engaged, Handler
<1>4. ASSUME NEW t \in Task, In(t) # {}, \A e \in In(t) : e[1] \in Done
      PROVE  t \in Done
  <2>. SUFFICES ASSUME t \notin Done PROVE FALSE
    OBVIOUS
  <2>1. \A e \in In(t) : e[1] \in arrived[t]
    BY <1>1, <1>2, <1>4 DEF OnwardInv, PassedOK, Passed, Engaged, In, Handler
  <2>2. arrived[t] # {} /\ required_upstreams(t) \subseteq arrived[t]
    BY <1>4, <2>1 DEF required_upstreams
  <2>. QED BY <1>2, <2>2 DEF OnwardInv, NoneIdle, Engaged
<1>5. PICK D : D = Done
  OBVIOUS
<1>6. D \in SUBSET Task
  BY <1>5 DEF Done
<1>7. D = Task
  BY <1>3, <1>4, <1>5, <1>6, AllTasks
<1>8. \A t \in Task : hot.task[t] = "COMPLETED"
  BY <1>1, <1>5, <1>7 DEF OnwardInv, RunningOK, Done, EventStatus
<1>. QED BY <1>1, <1>8, FinalAssumption DEF OnwardInv, RunningOK

\* For every pipeline without cycles whose only source is its entry, served by one
\* event loop, without faults and re-forwarding: when every trigger and every message
\* has been handled the run has ended, whatever the tasks returned, however often the
\* run was triggered, and whatever was edited or forgotten meanwhile (on_task_done,
\* default_handler, forward, call_publish_with_retry, _stop_on_completion).
THEOREM QuietRunsHaveEnded ==
  ASSUME OneLoop, ~Faults, ~Reforward, Acyclic, OneEntry, Trigger # {}, Final # {}
  PROVE  ExecSpec => []QuiescentTerminal
<1>1. EntryIsSource
  BY TheEntryIsASource
<1>2. OnwardInv /\ [ExecNext]_allVars => OnwardInv'
  <2>. SUFFICES ASSUME OnwardInv, [ExecNext]_allVars PROVE OnwardInv'
    OBVIOUS
  <2>1. DagInv'
    BY <1>1, DagNext DEF OnwardInv
  <2>2. NeverMoved'
    BY NeverMovedNext DEF OnwardInv, DagInv, FreshInv, ExecTyped
  <2>. QED BY <1>1, <2>1, <2>2, FlowGoesOn, EndIsNoticed DEF OnwardInv
<1>3. OnwardInv => QuiescentTerminal
  BY QuietIsTerminal
<1>. QED BY <1>2, <1>3, OnwardInit, PTL DEF ExecSpec

\* Every reachable state of an execution is well typed.
THEOREM ExecTypeCorrect == ExecSpec => []ExecTypeOK
<1>. DEFINE I == ExecTyped /\ stopped \in BOOLEAN
<1>1. launch => I
  BY ExecTypedInit DEF launch
<1>2. I /\ [ExecNext]_allVars => I'
  <2>1. [ExecNext]_allVars /\ stopped \in BOOLEAN => stopped' \in BOOLEAN
    BY DEF ExecNext, Step, _consume_queue, on_pipeline_event, default_handler, Execute, Report, Track,
       TrackReturns, TrackRaises, Publish, PublishError, StopConsumers, Environment, allVars, execVars
  <2>. QED BY <2>1, ExecTypedNext
<1>3. I /\ TypeOK => ExecTypeOK
  BY DEF ExecTypeOK, ExecTyped, StatusInv
<1>. QED BY <1>1, <1>2, <1>3, ImplementsTracker, TypeCorrect, PTL DEF ExecSpec
=============================================================================
