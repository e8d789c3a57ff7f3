-------------------------- MODULE PipelineExecution -------------------------
(***************************************************************************)
(* One run of a pipeline from its triggers to its last message: the        *)
(* per-run queues, the fan-in aggregator, DefaultForwarder.forward with    *)
(* its re-dispatch loop, and the tracker of RunTracker, which is called by *)
(* the handlers.  RunTracker's variables keep their meaning; its events    *)
(* are no longer arbitrary but those the handlers report.                  *)
(*                                                                         *)
(* A handler is a consumer of one queue (prefetch 1, so one message at a   *)
(* time) or the code that reacts to one trigger of the run: the            *)
(* pipeline_started event, or the seed in the entry queue.                 *)
(***************************************************************************)
EXTENDS RunTracker

CONSTANTS
  Edge,           \* the queues of the run, pairs <<from_task, to_task>>
  Entry,          \* the entry task
  Trigger,        \* the triggers that reach the service of the entry task
  TrackerFor,     \* the tracker behind each handler
  MaxReforwards,  \* CNP_MAX_REFORWARDS
  MaxAttempts,    \* attempts of call_publish_with_retry
  Watcher         \* SINGLE_PROCESS_ALL_SERVICES=1: stop consuming at the end

Handler == Edge \cup Trigger

ASSUME EdgeAssumption == Edge \subseteq Task \X Task /\ Entry \in Task
ASSUME HandlerAssumption == TrackerFor \in [Handler -> Tracker] /\ Trigger \cap Edge = {}
ASSUME SizeAssumption == IsFiniteSet(Edge) /\ IsFiniteSet(Trigger)
ASSUME RetryAssumption == MaxReforwards \in Nat /\ MaxAttempts \in Nat \ {0}
ASSUME WatcherAssumption == Watcher \in BOOLEAN

Out(t)  == {e \in Edge : e[1] = t}
In(t)   == {e \in Edge : e[2] = t}
Host(h) == ProcOf[TrackerFor[h]]

\* The task a handler executes.
Target(h) == IF h \in Edge THEN h[2] ELSE Entry

\* Faulty variant: a fan-in of two is not recognised.
LargeFanIns(t) == IF Cardinality(In(t)) > 2 THEN {e[1] : e \in In(t)} ELSE {}

\* fan_in_metadata lists the dependencies of tasks with more than one.
required_upstreams(t) ==
  IF Cardinality(In(t)) > 1 THEN {e[1] : e \in In(t)} ELSE {}

\* suggest_exchange_types: one exchange per publishing task.
exchange_type(t) ==
  IF Cardinality(In(t)) > 1 \/ Cardinality(Out(t)) > 1 THEN "fanout" ELSE "direct"

VARIABLES
  box,       \* messages waiting in each queue; 1 for a trigger not yet handled
  arrived,   \* aggregator_store: the upstreams whose part each task has
  work,      \* what each handler is doing
  runs,      \* how often the logic of each task was run to a result
  stopped    \* the consumers were stopped

execVars == <<box, arrived, work, runs, stopped>>
allVars  == <<vars, execVars>>

Work == [pc : {"idle", "held", "run", "report", "await", "publish"},
         status : EventStatus, count : Nat, attempt : 1 .. MaxAttempts]

Waiting == [pc |-> "idle", status |-> "COMPLETED", count |-> 0, attempt |-> 1]

\* Every variable has its type.
ExecTypeOK ==
  /\ TypeOK
  /\ box \in [Handler -> Nat]
  /\ arrived \in [Task -> SUBSET Task]
  /\ work \in [Handler -> Work]
  /\ runs \in [Task -> Nat]
  /\ stopped \in BOOLEAN

\* launch has stored the run document, put the seed in the entry queue and
\* published pipeline_started; the topology of the run has been declared.
launch ==
  /\ Init
  /\ box = [h \in Handler |-> IF h \in Trigger THEN 1 ELSE 0]
  /\ arrived = [t \in Task |-> {}]
  /\ work = [h \in Handler |-> Waiting]
  /\ runs = [t \in Task |-> 0]
  /\ stopped = FALSE

-----------------------------------------------------------------------------
\* A handler can only run while its event loop is not inside a tracker call.
LoopFree(h) == call[Host(h)].pc = "idle"

At(h, l)   == work[h].pc = l
Become(h, w) == work' = [work EXCEPT ![h] = w]
Jump(h, l) == work' = [work EXCEPT ![h].pc = l]

\* A message reaches the consumer of its queue, which holds it while the run is
\* paused (_wait_if_paused).
_consume_queue(h) ==
  /\ h \in Edge /\ ~stopped
  /\ At(h, "idle") /\ box[h] > 0 /\ LoopFree(h)
  /\ box' = [box EXCEPT ![h] = @ - 1]
  /\ Jump(h, "held")
  /\ UNCHANGED <<vars, arrived, runs, stopped>>

\* A trigger of the run goes straight to forward(): on_pipeline_event does not
\* look at the pause flag, and a second trigger runs the entry task again.
on_pipeline_event(h) ==
  /\ h \in Trigger
  /\ At(h, "idle") /\ box[h] > 0 /\ LoopFree(h)
  /\ box' = [box EXCEPT ![h] = @ - 1]
  /\ Jump(h, "run")
  /\ UNCHANGED <<vars, arrived, runs, stopped>>

_wait_if_paused == hot.paused /\ ~Terminal(hot)

\* Faulty variant: a complete bundle stays in the store.
KeepBundle(t, parts)  == parts

\* The parts the task of a queue has once the message at hand is filed.
Parts(h) == arrived[Target(h)] \cup {h[1]}

\* A complete bundle is popped; a task that needs no bundle keeps its parts.
Flushed(t, parts) ==
  IF required_upstreams(t) # {} /\ required_upstreams(t) \subseteq parts THEN {} ELSE parts

\* The wait is over.  File the part, and run the task when nothing more is
\* needed.  Without a run document read_run raises and the
\* message is rejected.
default_handler(h) ==
  /\ At(h, "held") /\ LoopFree(h)
  /\ ~_wait_if_paused
  /\ LET t == Target(h)
     IN  IF ~Exists(hot)
         THEN Become(h, Waiting) /\ UNCHANGED arrived
         ELSE /\ arrived' = [arrived EXCEPT ![t] = Flushed(t, Parts(h))]
              /\ IF required_upstreams(t) \subseteq Parts(h) THEN Jump(h, "run")
                                                             ELSE Become(h, Waiting)
  /\ UNCHANGED <<vars, box, runs, stopped>>

\* The microservice logic (three attempts) and the persistence of its output
\* (three attempts) end in success or in failure.
Execute(h, s) ==
  /\ At(h, "run") /\ LoopFree(h)
  /\ runs' = [runs EXCEPT ![Target(h)] = @ + 1]
  /\ work' = [work EXCEPT ![h].pc = "report", ![h].status = s]
  /\ UNCHANGED <<vars, box, arrived, stopped>>

\* forward() calls on_task_done.  An event the tracker drops (duplicate,
\* regressive, no run document) returns None and the result is published.
Report(h) ==
  /\ At(h, "report") /\ LoopFree(h)
  /\ LET k == TrackerFor[h]
         t == Target(h)
         s == work[h].status
     IN  \/ BeginTaskDone(Host(h), k, t, s) /\ Jump(h, "await")
         \/ ~Accepts(k, t, s) /\ Jump(h, "publish") /\ UNCHANGED vars
  /\ UNCHANGED <<box, arrived, runs, stopped>>

\* The call goes on.  It ends early when the run document has disappeared.
Track(h) ==
  LET p == Host(h)
  IN  /\ At(h, "await")
      /\ ReadPlan(p) \/ ReadSequence(p) \/ UpsertSequence(p) \/ Persist(p)
      /\ IF call'[p].pc = "idle" THEN Jump(h, "publish") ELSE UNCHANGED work
      /\ UNCHANGED <<box, arrived, runs, stopped>>

\* The call returns.  A re-forwarded task is executed again in place, at most
\* MaxReforwards times.
TrackReturns(h) ==
  LET p == Host(h)
  IN  /\ At(h, "await")
      /\ Notify(p)
      /\ IF call[p].moved /\ work[h].count < MaxReforwards
         THEN work' = [work EXCEPT ![h].pc = "run", ![h].count = @ + 1]
         ELSE Jump(h, "publish")
      /\ UNCHANGED <<box, arrived, runs, stopped>>

\* Faulty variant: an exception of the tracker sends forward() round its loop again,
\* and nothing counts the rounds.
TrackRaisesAgain(h) ==
  /\ At(h, "await")
  /\ StoreError(Host(h))
  /\ Jump(h, "report")
  /\ UNCHANGED <<box, arrived, runs, stopped>>

\* The call raises: forward() logs it and goes on to publishing.
TrackRaises(h) ==
  /\ At(h, "await")
  /\ StoreError(Host(h))
  /\ Jump(h, "publish")
  /\ UNCHANGED <<box, arrived, runs, stopped>>

\* The copies that publishing one message per edge of S leaves in queue e: a
\* fanout exchange copies every message to every queue bound to it.
Copies(t, S, e) ==
  IF exchange_type(t) = "fanout"
  THEN IF e \in Out(t) THEN Cardinality(S) ELSE 0
  ELSE IF e \in S THEN 1 ELSE 0

PublishTo(t, S) ==
  box' = [h \in Handler |-> IF h \in Edge THEN box[h] + Copies(t, S, h) ELSE box[h]]

\* call_publish_with_retry sends one message per outgoing edge, whatever the
\* status of the task; then the incoming message is acknowledged.
Publish(h) ==
  /\ At(h, "publish") /\ LoopFree(h)
  /\ PublishTo(Target(h), Out(Target(h)))
  /\ Become(h, Waiting)
  /\ UNCHANGED <<vars, arrived, runs, stopped>>

\* Publishing fails after some of the edges.  After an AMQP error the retry
\* starts over with all of them; the last attempt's AMQP error, or any other
\* error at once, ends the publishing and is only logged.
PublishError(h) ==
  /\ Faults
  /\ At(h, "publish") /\ LoopFree(h)
  /\ \E S \in SUBSET Out(Target(h)) : S # Out(Target(h)) /\ PublishTo(Target(h), S)
  /\ \/ work[h].attempt < MaxAttempts /\ work' = [work EXCEPT ![h].attempt = @ + 1]
     \/ Become(h, Waiting)
  /\ UNCHANGED <<vars, arrived, runs, stopped>>

\* _stop_on_completion: poll the document, stop the consumers once the run is
\* terminal.  Handlers that are under way finish.
StopConsumers ==
  /\ Watcher /\ ~stopped
  /\ Terminal(hot)
  /\ stopped' = TRUE
  /\ UNCHANGED <<vars, box, arrived, work, runs>>

\* The document is edited, or a dedupe cache forgets, between handler steps.
Environment ==
  /\ \/ \E p \in Proc, e \in Edits : BeginEdit(p, e)
     \/ \E p \in Proc : FinishEdit(p)
     \/ \E k \in Tracker : Forget(k)
  /\ UNCHANGED execVars

Step(h) ==
  \/ _consume_queue(h)
  \/ on_pipeline_event(h)
  \/ default_handler(h)
  \/ \E s \in EventStatus : Execute(h, s)
  \/ Report(h)
  \/ Track(h)
  \/ TrackReturns(h)
  \/ Publish(h)

ExecNext ==
  \/ \E h \in Handler : Step(h)
  \/ \E h \in Handler : TrackRaises(h)
  \/ \E h \in Handler : PublishError(h)
  \/ StopConsumers
  \/ Environment

ExecSpec == launch /\ [][ExecNext]_allVars

\* asyncio runs every ready handler, the broker delivers what is queued, and a
\* synchronous edit of the document returns.
ExecFairness ==
  /\ \A h \in Handler : SF_allVars(Step(h))
  /\ WF_allVars((\E p \in Proc : FinishEdit(p)) /\ UNCHANGED execVars)

FairExecSpec == ExecSpec /\ ExecFairness

-----------------------------------------------------------------------------
(***************************************************************************)
(* Properties.                                                             *)
(***************************************************************************)

\* Nothing is queued for a consumer, and no handler is under way.
Quiet == \A h \in Handler : At(h, "idle") /\ (box[h] = 0 \/ (h \in Edge /\ stopped))

\* When the last message of a run has been handled, the run has ended: whatever
\* the tasks returned and in whatever order the copies of the messages came,
\* the tracker has not missed the moment at which all finals were COMPLETED or
\* a task had FAILED (on_task_done, step 3).
QuiescentTerminal == Quiet => Terminal(hot)

\* Every run in which no task is re-forwarded reaches COMPLETED or FAILED, if
\* the handlers and the broker go on.
FinishesUnlessReforwarded == <>(Terminal(hot) \/ \E t \in Task : awards[t] > 0)

\* Every message is handled at last: no duplicate, no failing store or broker,
\* no raising tracker and no re-dispatch leaves a handler waiting or keeps it
\* busy for ever (the loop of forward(), which nothing but its own counter and
\* the tracker's answer ends).
Drains == <>[]Quiet

\* The stored run follows the graph: a task has a result only if all tasks it
\* depends on have theirs.  forward() reports before it publishes, and the
\* aggregator holds a fan-in task back until the last part is there.
DocFollowsDag ==
  \A e \in Edge : hot.task[e[2]] \in EventStatus => hot.task[e[1]] \in EventStatus

\* Every execution of a fan-in task used up a message of its own from every
\* upstream: a flushed bundle never triggers the task a second time, although
\* parts come twice and its queues are consumed concurrently.
FanInUsesFreshParts ==
  \A t \in Task : \A u \in required_upstreams(t) :
    runs[t] <= runs[u] * Copies(u, Out(u), <<u, t>>)

\* A run is COMPLETED only when every task of the graph was executed, also if
\* messages and reports were lost or repeated on the way.
CompletedRanEverything ==
  hot.status = "COMPLETED" => \A t \in Task : runs[t] > 0

(***************************************************************************)
(* A statement of the repository that the code does not keep.              *)
(***************************************************************************)

\* Every run reaches COMPLETED or FAILED: re-forwarding is attempted, then the
\* run fails.
RunFinishes == <>Terminal(hot)
=============================================================================
