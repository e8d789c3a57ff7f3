----------------------------- MODULE RunIsolation -----------------------------
(***************************************************************************)
(* Several runs of one pipeline on the same agents: StartPipelineCommand,  *)
(* the seed and the pipeline_started event of each run, the declaration of *)
(* the run's queues by every agent, one ConsumerManager per agent and run, *)
(* the exchanges the runs share, the fan-in stores of the managers, the    *)
(* cross-service dispatch of a task, and agents that crash.                *)
(*                                                                         *)
(* PipelineExecution follows one run in detail, and counts the copies of a *)
(* message; here they are one, and a handler only files,                   *)
(* executes and publishes, and what matters is which queue and which store *)
(* a message of which run ends up in.                                      *)
(***************************************************************************)
EXTENDS Naturals, FiniteSets

CONSTANTS
  Run,          \* the runs that may be asked for
  Step,         \* the tasks of the pipeline
  Link,         \* its queues, pairs <<from_task, to_task>>
  First,        \* the entry task
  Service,      \* the agents
  ServiceOf,    \* available_services of each task
  Launcher,     \* START_PIPELINE_LAUNCHER_SERVICE
  Suffix,       \* PIPELINE_RUN_SUFFIX
  MaxIsoEvents  \* bound on start commands, failures, crashes and dispatches

ASSUME LinkAssumption ==
  /\ Link \subseteq Step \X Step /\ IsFiniteSet(Link)
  /\ First \in Step
ASSUME ServiceAssumption == ServiceOf \in [Step -> Service] /\ Launcher \in Service
ASSUME IsoBounds == MaxIsoEvents \in Nat
ASSUME IsoFlags == Suffix \in BOOLEAN

Into(t)  == {e \in Link : e[2] = t}
OutOf(t) == {e \in Link : e[1] = t}

\* fan_in_metadata of a task.
Needed(t) == IF Cardinality(Into(t)) > 1 THEN {e[1] : e \in Into(t)} ELSE {}

\* The exchange of a publishing task is fanout as soon as it forks or joins.
IsFanout(t) == Cardinality(Into(t)) > 1 \/ Cardinality(OutOf(t)) > 1

\* Queue <<e, r>> carries edge e of run r; <<e, Shared>> has the bare name.
Shared == "shared"
Queue  == Link \X (Run \cup {Shared})

\* What publishes a part: an upstream task, or the dispatcher in its place.
Dispatcher == "__cnp_dispatch__"
ASSUME DispatcherAssumption == Dispatcher \notin Step

VARIABLES
  launched,  \* runs whose document was seeded
  inbox,     \* triggers waiting at each agent, pairs <<kind, run>>
  boot,      \* the triggers an agent is handling, and how far
  known,     \* _bootstrapped_runs of each agent
  live,      \* the managers of each agent that consume
  bound,     \* the queues that are declared and bound
  box,       \* messages in each queue, pairs <<sender, run>>; copies are one
  store,     \* aggregator_store of each manager: the parts of <<run, task>>
  ran,       \* pairs <<run, task>> that were executed
  faults, dispatches

isoVars == <<launched, inbox, boot, known, live, bound, box, store, ran,
             faults, dispatches>>

Sender  == Step \cup {Dispatcher}
NoParts == [k \in Run \X Step |-> {}]

IsoInit ==
  /\ launched = {}
  /\ inbox = [s \in Service |-> {}]
  /\ boot = [s \in Service |-> {}]
  /\ known = [s \in Service |-> {}]
  /\ live = [s \in Service |-> {}]
  /\ bound = {}
  /\ box = [q \in Queue |-> {}]
  /\ store = [s \in Service |-> [m \in Run |-> NoParts]]
  /\ ran = {}
  /\ faults = 0 /\ dispatches = 0

\* The queue the manager of a run consumes for an edge.
QueueFor(e, m) == IF Suffix THEN <<e, m>> ELSE <<e, Shared>>

Incident == Cardinality(launched) + faults + dispatches < MaxIsoEvents

-----------------------------------------------------------------------------
\* Runner.launch: wait for the configuration, seed the document, put the entry
\* message in the run's own queue, where only the launcher listens, and
\* broadcast pipeline_started to the event queue of every agent.
Launch(r) ==
  /\ r \notin launched /\ Incident
  /\ launched' = launched \cup {r}
  /\ inbox' = [s \in Service |->
                 inbox[s] \cup {<<"started", r>>} \cup (IF s = Launcher THEN {<<"seed", r>>} ELSE {})]
  /\ UNCHANGED <<boot, known, live, bound, box, store, ran, faults, dispatches>>

\* No configuration after the last attempt, or a broken store: the command is
\* acknowledged all the same.
LaunchFails(r) ==
  /\ r \notin launched /\ Incident
  /\ faults' = faults + 1
  /\ UNCHANGED <<launched, inbox, boot, known, live, bound, box, store, ran, dispatches>>

\* The listeners deliver events one at a time, and the seed beside them.
Delivered(s, kind, r) == <<kind, r>> \in inbox[s] /\ ~\E b \in boot[s] : b[1] = kind

\* The run is marked before the first await; a second trigger finds it marked
\* and goes straight on to the entry task.
OnPipelineEvent(s, kind, r) ==
  /\ Delivered(s, kind, r)
  /\ inbox' = [inbox EXCEPT ![s] = @ \ {<<kind, r>>}]
  /\ boot' = [boot EXCEPT ![s] = @ \cup {<<kind, r, IF r \in known[s] THEN "entry" ELSE "topology">>}]
  /\ known' = [known EXCEPT ![s] = @ \cup {r}]
  /\ UNCHANGED <<launched, live, bound, box, store, ran, faults, dispatches>>

\* Faulty variant: an agent declares only the queues of its own tasks.
OwnQueuesOnly(s, r) == {<<e, r>> : e \in {x \in Link : ServiceOf[x[2]] = s}}

\* _ensure_run_topology declares the per-run queue of every edge of the
\* pipeline, also of those that other agents consume.
RunTopology(s, r) == {<<e, r>> : e \in Link}

\* _build_final_config_for_service: the queues a manager declares, binds and
\* consumes itself, under the names of the mode.
OwnQueues(s, r) == {QueueFor(e, r) : e \in {x \in Link : ServiceOf[x[2]] = s}}

\* Only when the declarations have returned is the manager created and its
\* consumers started.  An error ends the declarations and is logged.
EnsureRunTopology(s, kind, r) ==
  /\ <<kind, r, "topology">> \in boot[s]
  /\ \/ bound' = bound \cup RunTopology(s, r) \cup OwnQueues(s, r) /\ UNCHANGED faults
     \/ /\ Incident /\ faults' = faults + 1
        /\ \E some \in SUBSET RunTopology(s, r) : bound' = bound \cup some \cup OwnQueues(s, r)
  /\ boot' = [boot EXCEPT ![s] = (@ \ {<<kind, r, "topology">>}) \cup {<<kind, r, "entry">>}]
  /\ live' = [live EXCEPT ![s] = @ \cup {r}]
  /\ UNCHANGED <<launched, inbox, known, box, store, ran, dispatches>>

\* A fanout exchange copies a message to every bound queue of its task's edges,
\* whatever the run; a direct exchange follows the routing key, which carries
\* the run only in suffix mode.
Routed(e, r) ==
  IF IsFanout(e[1]) THEN {q \in bound : q[1] \in OutOf(e[1])}
                    ELSE {QueueFor(e, r)} \cap bound

\* One message per edge of S, on behalf of a sender, for a run.
Published(queues, from, r, S) ==
  [q \in Queue |-> IF \E e \in S : q \in Routed(e, r) THEN queues[q] \cup {<<from, r>>} ELSE queues[q]]

\* The entry task runs in the agent that offers its service; the others have
\* nothing to do.
ForwardEntry(s, kind, r) ==
  /\ <<kind, r, "entry">> \in boot[s]
  /\ boot' = [boot EXCEPT ![s] = @ \ {<<kind, r, "entry">>}]
  /\ IF ServiceOf[First] = s
     THEN ran' = ran \cup {<<r, First>>} /\ box' = Published(box, First, r, OutOf(First))
     ELSE UNCHANGED <<ran, box>>
  /\ UNCHANGED <<launched, inbox, known, live, bound, store, faults, dispatches>>

\* Faulty variant: the parts are filed under their task alone.
PartsOfTask(s, m, r, t) == UNION {store[s][m][<<x, t>>] : x \in Run}

\* The parts a manager holds for a task of a run.
PartsOf(s, m, r, t) == store[s][m][<<r, t>>]

\* The consumer of edge e in the manager of run m takes a message, of whatever
\* run, files it under the run the message names and, when nothing is missing,
\* executes the task and publishes its result for the run of the message.  A
\* complete bundle is popped.
Consume(e, m, from, r) ==
  LET t == e[2]
      s == ServiceOf[t]
      q == QueueFor(e, m)
      parts == PartsOf(s, m, r, t) \cup {from}
      ready == Needed(t) \subseteq parts
      flushed == IF ready /\ Needed(t) # {} THEN {} ELSE parts
      left == [box EXCEPT ![q] = @ \ {<<from, r>>}]
  IN  /\ m \in live[s] /\ <<from, r>> \in box[q]
      /\ store' = [store EXCEPT ![s][m][<<r, t>>] = flushed]
      /\ box' = IF ready THEN Published(left, t, r, OutOf(t)) ELSE left
      /\ ran' = IF ready THEN ran \cup {<<r, t>>} ELSE ran
      /\ UNCHANGED <<launched, inbox, boot, known, live, bound, faults, dispatches>>

\* handle_dispatch_task: a task that failed in its run is sent, in the name of
\* the dispatcher, to the exchange of every edge that leads to it.
DispatchTask(r, t) ==
  /\ Incident
  /\ <<r, t>> \in ran /\ Into(t) # {}
  /\ dispatches' = dispatches + 1
  /\ box' = Published(box, Dispatcher, r, Into(t))
  /\ UNCHANGED <<launched, inbox, boot, known, live, bound, store, ran, faults>>

\* An agent dies and is started again.  Its managers and their stores are gone
\* and nothing brings them back for runs it has acknowledged.  An auto-delete
\* queue goes with its last consumer; a shared queue stays, and a message
\* that was not acknowledged with it.  Triggers that were being handled are redelivered; the
\* seed is looked for only by the listener that died.
AgentCrash(s) ==
  /\ Incident
  /\ faults' = faults + 1
  /\ LET mine == {c \in Link \X Run : ServiceOf[c[1][2]] = s /\ c[2] \in live[s]}
         gone == IF Suffix THEN {QueueFor(c[1], c[2]) : c \in mine} ELSE {}
     IN  /\ bound' = bound \ gone
         /\ box' = [q \in Queue |-> IF q \in gone THEN {} ELSE box[q]]
  /\ inbox' = [inbox EXCEPT ![s] =
                 {i \in @ : i[1] = "started"}
                   \cup {<<b[1], b[2]>> : b \in {x \in boot[s] : x[1] = "started"}}]
  /\ boot' = [boot EXCEPT ![s] = {}]
  /\ known' = [known EXCEPT ![s] = {}]
  /\ live' = [live EXCEPT ![s] = {}]
  /\ store' = [store EXCEPT ![s] = [m \in Run |-> NoParts]]
  /\ UNCHANGED <<launched, ran, dispatches>>

Progress ==
  \/ \E r \in Run : Launch(r)
  \/ \E s \in Service, kind \in {"started", "seed"}, r \in Run :
       \/ OnPipelineEvent(s, kind, r)
       \/ EnsureRunTopology(s, kind, r)
       \/ ForwardEntry(s, kind, r)
  \/ \E e \in Link, m \in Run, from \in Sender, r \in Run : Consume(e, m, from, r)

IsoNext ==
  \/ Progress
  \/ \E r \in Run : LaunchFails(r)
  \/ \E r \in Run, t \in Step : DispatchTask(r, t)
  \/ \E s \in Service : AgentCrash(s)

IsoSpec == IsoInit /\ [][IsoNext]_isoVars

-----------------------------------------------------------------------------
(***************************************************************************)
(* Properties.                                                             *)
(***************************************************************************)

\* Runs do not mix: a task is executed in a run only when every task it depends
\* on was executed in the same run, although fanout exchanges copy the messages
\* of a run into the queues of the others, managers of several runs share bare
\* queues, and a dispatched task also reaches its siblings.
RunsDoNotMix ==
  \A w \in ran : \A e \in Into(w[2]) : <<w[1], e[1]>> \in ran

\* Nothing is left to deliver or to handle.
Quiet ==
  /\ \A s \in Service : inbox[s] = {} /\ boot[s] = {}
  /\ \A e \in Link, m \in Run : m \in live[ServiceOf[e[2]]] => box[QueueFor(e, m)] = {}

\* When nothing is left to do, every launched run has been executed to its last
\* task, unless a declaration failed or an agent crashed: no message is published
\* for good before the queue it is for exists, in whatever order the agents hear
\* of the run, and no part of a fan-in is kept where the others never come.
NothingLost ==
  Quiet /\ faults = 0 => \A r \in launched : {<<r, t>> : t \in Step} \subseteq ran
=============================================================================
