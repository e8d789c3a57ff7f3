# Verification of agentcy

agentcy runs *pipelines*: directed acyclic graphs of tasks, each executed by an
agent service.  The services talk over RabbitMQ and keep the state of a run in
Couchbase.  This directory holds TLA+ modules that model the core of that
machinery, TLC configurations that check them on small instances, and proofs
that TLAPS checks for instances of every size.

All source paths below are relative to `src/src/agentcy/`.

## 1. Inventory

| component | state it keeps | operations | interacts with | what makes it correct |
|---|---|---|---|---|
| Run tracker (`agent_runtime/tracker.py`) | run document in the ephemeral bucket; a dedupe cache and a lock per run, in memory | `on_task_done`, `_try_reforward_sync`, stop commands | called by the forwarder; writes through `ephemeral_pipeline_store`; advances evaluation sequences in `graph_marker_store` | tasks move forward only; a terminal status agrees with the task entries; stops go out once; the run ends |
| Dedupe cache (`_LRUSet`) | ordered map of keys and time stamps | `contains`, `add`, expiry, eviction | tracker | forgets only by age or under pressure, never reports a stale hit |
| Forwarder (`agent_runtime/forwarder.py`) | none between calls | `forward`: run the logic, persist the output, report, re-dispatch, publish | tracker, broker, document store | every message is handled at last; results are reported before they are published |
| Queue consumers (`pipeline_orchestrator/pub_sub/pika_queue.py`) | fan-in aggregator, in memory | consume, wait while paused, `default_handler`, stop | broker, forwarder, run document | a fan-in runs with one fresh part of every upstream |
| Launch and events (`agent_runtime/runner.py`, `event_handler.py`, `consumers.py`) | set of bootstrapped runs | `launch`, `on_pipeline_event`, watcher, finalizer | broker, stores | a run starts, and stops consuming when it has ended |
| Run mover (`orchestrator_core/handlers/run_mover.py`) | archived run document | `finalize_run` (one transaction) | both buckets | an archived run is final |
| Config parser (`rabbitmq_workflow/workflow_config_parser.py`) | none | validation of the DAG, queues, exchange types, fan-in metadata | pipeline store | accepts exactly the acyclic graphs with one entry from which all tasks are reached; the topology carries every edge |
| Contract net (`orchestrator_core/consumers/cnp_manager.py`, `agent_runtime/services/blueprint_bidder.py`, `graph_builder.py`) | cycles, calls for proposals, bids, awards, evaluation sequences, plans | rounds, bids, awards, inline resolution, re-forwarding | tracker, registry, marker store | one award per task by the builder; plan and sequence name the same agent; cycles end |
| Agent registry (`agent_runtime/registry_client.py`, `stores/agent_registry_store.py`, `agent_registry_policy.py`) | entries with a TTL; busy and failure counts | register, heartbeat, load updates, delete, expiry | forwarder, contract net, pheromone engine | the registry tells the truth about an agent in the end |
| Plan revision, strategist loop (`consumers/plan_revision.py`, `services/llm_strategist_loop.py`, `plan_revision_utils.py`, `routers/graph_store.py`) | draft, revisions, suggestions, pause flag | suggest, decide, revise, validate, pause, resume | run document, task events | a valid draft is a proper plan; a pause has a reason; revisions advance |
| Plan gates (`ethics_checker.py`, `human_validator.py`, `system_executor.py`, `failure_escalation.py`, `audit_logger.py`, `supervisor_agent.py`) | checks, approvals, policies, reports, notices | supervise, check, re-evaluate, approve, execute, escalate, audit | marker store, consumers | every gate the configuration asks for is passed; re-evaluation ends |
| Graph functions (`workflow_config_parser.py`, `graph_builder.py`, `plan_validator.py`, `llm_strategist.py`) | none | validation of the graph, order, queues, drafts, phases, critical path | pipeline store | accept exactly the connected acyclic graphs; the order respects the edges |
| Cognitive topology (`cognitive/topology/`, `runtime_policy.py`) | recorded outcomes | policy, retrieval, mutation, compilation | API, parser | a generated pipeline is an acyclic graph with the steps its policy asks for |
| Marker store and its routes (`stores/graph_marker_store.py`, `routers/graph_store.py`, `routers/cnp.py`) | planning documents and a lagging index | save, list, read, POST with read-back | all planning services | a saved decision is found; a client that walks the pages sees everything |
| Learning (`pheromone_engine.py`, `path_seeder.py`, `bandit_learner.py`, forwarder) | affordance markers, decision records, bandit model | seed, deposit, feedback, decay, reward | marker store | intensities in range, failures and rewards not over-counted |
| Scoring and coalitions (`agent_utils.py`, `cnp_utils.py`, `coalition_*.py`) | none | scores, partner choice, comparison, execution of a coalition | contract net | monotone scores, the best partner |
| Pipeline registration (`routers/pipelines.py`, `consumers/pipeline.py`, `consumers/topology_consumer.py`, `utils.py`) | pipeline document, configuration, exchanges | create, update, delete, generate, register, declare | broker, stores | a stored pipeline is wired the way its document says |
| Connection pools, AMQP connection (`couch/pool.py`, `couchbase_configs/couchbase_pool.py`, `connection_manager.py`) | idle bundles, count, shared connection | acquire, release, reaper, close, connect | all stores and consumers | never more than `max`, nobody sleeps beside a free bundle |
| Catalog and launcher (`stores/catalog_store.py`, `api_service/services/ingest.py`, `consumers/launcher_consumer.py`, `executors/docker_exec.py`) | catalog document, containers | upload, compare-and-swap, start, stop | Docker, registry of artifacts | no upload is lost; the last start runs |
| Command consumers (`orchestrator_core/consumers/`, `webserver_supervisor.py`) | queues, supervision | declare, take, acknowledge, reject, restart | broker | no command vanishes unaccounted |
| Evaluation (`src/evaluation/batch_runner.py`, `pipeline_templates.py`) | manifest, rows, `.env` | batch, interrupt, resume; pipelines of the ablations | API | results are complete, attributed, and the environment is restored |

The rest (other routers, semantic layer, LLM connectors, service discovery,
observability, manifests, demo agents, frontend, evaluation reports) keeps no
protocol state or is pure I/O; section 6 and `PROJECT.json` give the reasons.

**What is hard here.**  Every agent process reads the run document, changes its
copy and replaces the document, without compare-and-swap; processes interleave
between any two store accesses.  `with_backoff` does not retry synchronous
functions, so a store error ends the call that met it.  The dedupe caches live
in memory, are bounded and age.  A fan-out exchange copies every message to all
queues bound to it and the publisher sends one message per edge, so duplicates
are the rule, not the exception.  Other writers (graph builder, plan revision,
strategist loop, finalizer) touch the same document.  Runs of one pipeline share
exchanges, so the messages of one reach the queues of another.  Planning services
exchange documents through lists that lag behind the writes.  Consumers reject
what raises, and the first exception of a consumer ends it.  `PROJECT.json` lists
these hazards at their lines, each with the properties that would catch it; one
has none yet, two processes that advance the same evaluation sequence
(`graph_marker_store.py:664`): they award the same candidate twice, and nothing
in the repository says what a sequence promises then.

## 2. The modules

```
RunTracker            run document, tracker calls, other writers, faults
  MCRunTracker          instances for TLC
  RunTrackerProofs      theorems
PipelineExecution     one run: queues, fan-in, forward(), EXTENDS RunTracker
  MCPipelineExecution
  MCExecLiveness        the same with and without failures, under fairness
  PipelineExecutionProofs   execution implements RunTracker; theorems about queues and fan-in
ContractNet           cycles, bids, awards, plans
  MCContractNet
  ContractNetProofs     theorems
AgentRegistry         one agent, its entry, its writers   (its own TLC instance)
MCPlanning            PlanRevision <- DraftBuilding <- EvaluationPipelines
                      GraphAlgorithms <- DraftBuilding
                      PlanGates
                      TopologyGeneration <- TopologySeeds
MCServices            DedupeCache --implements--> DedupeSet
                      Learning, BidScoring
                      MarkerStore <- GraphStoreApi
MCPlatform            RunIsolation, ConnectionPool, Registration,
                      ServiceCatalog, CommandConsumers, BatchRunner
PlanRevisionProofs    PlanRevision
ServicesProofs        MCServices (DedupeCache, Learning, GraphStoreApi, BidScoring),
                      AgentRegistry
RunIsolationProofs    RunIsolation
ConnectionPoolProofs  ConnectionPool
PlatformProofs        ServiceCatalog, CommandConsumers, BatchRunner, Registration
```

`A <- B` means that B extends A.  `MCPlanning`, `MCServices` and `MCPlatform` put
components that do not meet into one run: a variable `which`, chosen in the
initial state, says which of them a behaviour is about, and the others stay as
they are.  Pure functions are evaluated in the same way, on an `input` (for
generated pipelines, on what was generated) that the initial state chooses.

### RunTracker

State: `hot` and `cold` (the run document in the ephemeral bucket and in the
archive, reduced to status, task statuses, presence of `plan_id`, pause flag),
`cursor` (`current_index` of each evaluation sequence), `awards`, `stops` (how
often the stop commands of the run were emitted), `dedupe`, and `call`, the call
each process is executing with its local copy of the document.

`on_task_done` and the editors are synchronous: an event loop executes one at a
time, processes interleave.  A call is split exactly at its accesses to the
store:

| action | code |
|---|---|
| `BeginTaskDone` | dedupe test, `read_run`, forward-only test; a dropped event changes nothing |
| `ReadPlan` | the second `read_run` of `_try_reforward_sync`, for `plan_id` |
| `ReadSequence`, `UpsertSequence` | `advance_evaluation_sequence` and the new award |
| `Persist` | `update_run(model_dump())`; raises if the document has gone |
| `Notify` | key into the cache, stop commands on the transition, return |
| `BeginEdit`, `FinishEdit` | the graph builder's and the plan revision's `plan_id`, the strategist loop's pause and resume |
| `finalize_run` | move to the archive, one transaction |
| `Forget` | a key expires, or the tracker is replaced |
| `StoreError`, `Crash` | an exception ends the call; a process loses its memory |

Details of the code that matter and are kept: `Applied` sets COMPLETED whatever
the run's status was; the entry written for a re-forwarded task is the FAILED
event, not the PENDING entry; `model_dump` has no `plan_id` but keeps `paused`.
Tasks outside the run document and events without a valid status are rejected by
the code before they touch anything and are left out.

### DedupeCache, DedupeSet

`_LRUSet` with its ordered map as a sequence of keys and their time stamps.
`DedupeSet` is what `RunTracker` relies on: a bounded set that holds a key after
it was added and may forget keys at any time.  `ImplementsSet` connects them.

### PipelineExecution

Extends `RunTracker`: the events the tracker sees are those that handlers report.
A handler is the consumer of one queue (prefetch 1) or the code that reacts to a
trigger of the run.  `box` counts messages per queue (messages of one queue are
alike: the envelope names run and sender only), `arrived` is the aggregator,
`work` the place of each handler in `forward()`, `runs` counts executions.

| action | code |
|---|---|
| `_consume_queue`, `on_pipeline_event` | delivery of a message, of a trigger |
| `default_handler` | pause test, filing of the part, flush of a complete fan-in |
| `Execute` | `forward()` up to the persisted output; success or failure |
| `Report`, `Track`, `TrackReturns`, `TrackRaises` | the call of `on_task_done`, its steps, the re-dispatch decision, its exception |
| `Publish`, `PublishError` | `call_publish_with_retry`: one message per edge; failure after some edges, retried after AMQP errors |
| `StopConsumers` | the run-completion watcher of the single-process mode |
| `Environment` | edits of the document and forgetting caches between handler steps |

The exchange of a task is a fanout if the task has several dependents or several
dependencies, otherwise direct; `Copies` gives the effect of a publish.  The
output of an end task goes to an exchange without queues and is dropped.  The
short-cut for a failing enrichment in `forward()` cannot be taken, since the
messages it parses have an empty `output_ref`.  `finalize_run` is not a step of
an execution: no code of the repository publishes the event that triggers it.

### ContractNet

State: per task the calls (`cfps`), `bids`, `awards` and evaluation sequences
(`seqs`); `cycles`, `plans`, the queue of `commands`, and `proc`, the place of each
manager and API process.  A handler is split where it reads documents that
others write before it uses them, and what it lists may lag: `list_bids`, `list_cfps`
and `list_contract_awards` are queries without `request_plus` unless
`CB_QUERY_CONSISTENCY` says so (`RequestPlus`), so they may miss recent documents and
show closed calls as open.  `behind` counts, per task, the looks of bidders and the
builder's lists of awards that lagged; `cut` are the cycles that a crash or an
exception broke off.

| action | code |
|---|---|
| `StartCycle`, `EndRound`, `Finish` | the cycle of `cnp_manager`: rounds, coverage, the final status |
| `CycleRaises`, `Restart` | an exception ends the consumer (`supervise` re-raises it), the cycle stays as it was saved; a restart of the orchestrator brings it back |
| `Look`, `OpenCfps`, `Place`, `ApiBid`, `ApiDone`, `BidderFails` | `blueprint_bidder`, called by a manager or through the API |
| `ReadForPlan`, `AwardTask`, `CloseCfps`, `SavePlan`, `PlanFails` | `build_plan_draft`: best bids, awards, sequences, the plan |
| `PostBid`, `ResolveCompetingService` | a bid of a running service, the inline award in `forward()` |
| `Reforward` | the next candidate after a failure |
| `ManagerCrash` | the process ends, its command is delivered again |

Scores and capabilities are chosen freely; `Threshold` is the response threshold
of an agent against the stimulus of the round.

### AgentRegistry

One agent: `client` (phase, status, busy and failure counts), its `tasks`, the
stored `entry`, and the requests under way.  `Register`, `HeartbeatLoop`,
`MarkTaskStarted`, `MarkTaskFinished`, `Shutdown` and `Killed` are the client;
`TaskCancelled` is a handler that is cancelled (a stop command, a channel that goes
down): `CancelledError` passes the `except Exception` of `forward()`, and
`mark_task_finished` is not called;
`ServeRead` and `ServeWrite` the read-modify-upsert of the service; `LoadRead`,
`LoadBeat`, `LoadWrite` the graph builder, the reassignment consumer and the
pheromone engine, which write metadata through the same heartbeat; `DeleteAgent`,
`Tick`, `Expire` the API, the clock and the TTL.

### Planning

* **PlanRevision**: the draft with its revision number, the stored suggestions, the
  strategist loop (`HandleTaskEvent`, `PauseRun`, which may fail), two people who decide (`Reject`,
  `Approve`, `ApplyRevision`, `ResumeRun`, which may fail after the decision was saved, `ApplyManualPlanRevision`),
  a tracker of another process (`TrackerReads`, `EndTask`), which writes the pause back
  that it read, the consumer of
  `RevisePlanCommand` (`FetchCandidate`, `HandleRevisePlan`), the validator, which
  reads the draft and writes it back (`ValidatorReads`, `ValidatePlanDraft`), the plan
  cache, which does the same (`CacheReads`, `CachePlanDraft`), and a person's
  modification (`HumanValidate`).  What the model proposes is any delta of
  a set; the stub's delta is computed as in the code.
* **PlanGates**: supervisor, ethics checks with policies and the re-evaluation loop,
  human approval, executor with its gates, escalation, audit.  A plan's text is the
  set of rule categories it touches; a model's answer is any answer.
* **GraphAlgorithms**, **DraftBuilding**, **EvaluationPipelines**: the parser's
  validation, order, queues and exchanges, the strategist's phases and critical
  path, the draft made of specifications, run and bids, and the pipelines of the
  ablation study, as functions compared with reference definitions (paths,
  cycles, reachability by quantifiers).
* **TopologyGeneration**, **TopologySeeds**: from health signals and skeletons to
  compiled tasks; the tables of the code are definitions of TopologySeeds.

### Services

* **DedupeCache, DedupeSet**: `_LRUSet` with its ordered map as a sequence of keys and
  time stamps.  `DedupeSet` is what `RunTracker` relies on: a bounded set that holds
  a key after it was added and may forget keys at any time.
* **Learning**: markers and decision records of one task and one agent; every writer
  reads first and writes later.  Of the bandit's matrix the number of updates is
  kept.
* **MarkerStore**, **GraphStoreApi**: documents by kind, owner and id, saves of two
  documents in two steps (`Begin`, then `SaveLatest` or `SaveCut`), the index that
  follows them, the routes as rows of a table, a client's walk over pages (a count
  and a page query each), a POST that reads back what it wrote.  `InOrder` is ORDER BY:
  each document at the place that the ones before it leave it.  `Disturb` is part of
  every write, a POST's too: it notes in the walk under way that a key of its list went
  away, or that one came or went between the count and the page.
* **BidScoring**: the arithmetic of bids, partner choice, coalitions and rewards in
  integer units.

### Platform

* **RunIsolation**: several runs of a pipeline on the same agents.  Queues are declared
  per run (`EnsureRunTopology`), exchanges are shared; each agent has a manager per
  run with its own fan-in parts; both triggers of the entry task, dispatch to
  another service, crash of an agent.
* **ConnectionPool**: both pool classes (`legacy` says which), with failing opens and
  closes, waiting, timeouts, reaper, `close_all`; and the coroutines that share the
  AMQP connection.
* **Registration**: each write and publish of the API a step of its own, the two
  consumers, redelivery, restart.  Only the consumers declare the two queues, and the
  API does not wait for them: a message without a queue is dropped (`queues`).  Only the
  exchanges of a graph and their types are kept.
* **ServiceCatalog**: uploads with the CAS loop, start commands and containers.
* **CommandConsumers**: seven consumers with their queue, acknowledgement, exceptions
  and supervision; the handlers themselves are in the other modules.
* **BatchRunner**: manifest, environment file, rows, interrupt, kill and resume.  The
  settings that a configuration overrides are of three kinds: those the user's `.env`
  has, those it lacks, and the two that inject failures.

## 3. What is checked

Runs that pass:

| run | instance | shows |
|---|---|---|
| `tracker_single` | 1 process, 2 trackers, 2 tasks (1 final), sequences of 3, caches of 1 key, all edits, faults | `TypeOK`, `NeverTwice`, `ForwardOnly`, `PauseKept` |
| `tracker_procs` | 2 processes with a tracker each, 2 tasks, sequences of 2, faults, a plan already stored | `CompletedMeansFinalsReported`, `FailedMeansTaskFailed`, `ArchiveIsFinal` |
| `exec_diamond` | a → b, c → d; any task may fail; completion watcher | `QuiescentTerminal`, `DocFollowsDag`, `FanInUsesFreshParts`, `StopsExactlyOnce` |
| `exec_liveness` | a → b, a triggered twice; re-forwarding, a plan stored at any time, caches of 1 key; with and without faults, 2 publish attempts | `CleanRunsFinish`, `Drains` |
| `exec_faults` | a → b → c, a → c; faults, pause and resume, completion watcher, 2 publish attempts | `CompletedRanEverything` |
| `contract_net` | 2 agents (one answers from round 2 on), 1 task, a manager, an API bidder, 2 rounds, 2 outside events | `AwardOnce`, `RacesBounded`, `PlanMatchesSequence`, `CyclesEnd` |
| `agent_registry` | 2 concurrent tasks, 1 service that writes load, 2 outside events | `BusyCountsTasks`, `RegistrySettles` |
| `planning` | a plan of up to 3 tasks, 2 people who decide, 6 deltas, 3 events; 1 checked task, 1 checker and the consumer; all graphs of up to 4 tasks; sets of drafts, ablations, skeletons | `DraftConforms`, `PauseHasReason`, `RevisionAdvances`, `ReEvaluationsEnd`, `FunctionsSound` |
| `services` | 4 keys in a cache of 2; 2 engines and 2 forwarders; 2 owners, 2 ids, 2 tags, 3 writes, pages of 1; sets of bids, coalitions and rewards | `LostOnlyUnderPressure`, `ImplementsSet`, `MarkersSound`, `RewardsWithinExecutions`, `StoreAnswers`, `WalkSeesAll`, `ScoringSound` |
| `platform` | 2 runs of a triangle on 2 agents; 3 threads on pools of 1 to 2; 2 pipelines that share an exchange; 2 uploaders; 3 starts; each of the consumers with 3 commands; 2 configurations of 2 runs | `RunsDoNotMix`, `NothingLost`, `PoolSound`, `TopologyIsCurrent`, `CatalogKeepsEntries`, `LastStartRuns`, `CommandsAccounted`, `BatchSound` |

What the less obvious ones say:

* `NeverTwice`: a retried event neither stops a run twice nor awards a candidate
  twice, on one event loop.
* `RacesBounded`: bidders count bids before they place theirs, so racing bidders
  overshoot `CNP_MAX_BIDS`; the overshoot is at most one filling per bidder, and one
  more for every look at a list that lagged: such a bidder may not even see its own
  bids of an earlier round.
* `AwardOnce`: after a crash the repeated command finds the award it stored, but for a
  list that does not show it yet; each such list costs one more award of the task.
* `CyclesEnd`: with the exceptions the code makes.  A cycle that a crash or an exception
  broke off stays `bidding` or `awarding` (a repeated command starts a cycle of its
  own), and commands wait when every manager's consumer has ended.
* `Drains`: stores, trackers and publishing may fail at any time (`Faults`), and still no
  handler waits or goes round the loop of `forward()` for ever.  The limit of
  re-dispatches is not what ends that loop: the tracker drops the second FAILED of a task
  and then answers None.
* `CleanRunsFinish`: the same behaviours, where `mayFail` is false: a lost result leaves
  a run RUNNING (`tracker.py:406` below).
* `PlanMatchesSequence`: `_best_bids` and `_ranked_bids` choose separately, and agree.
* `RegistrySettles`: heartbeats that write back old documents and updates that are
  lost do not matter in the end, since the next heartbeat repairs them; an agent
  that died ages out.
* `PauseHasReason`: a run stays paused only for an open suggestion or a decision being
  carried out.  The exceptions it names (`unresumed`) are in the code, which saves the
  decision first: a decision made before the pause is set, a resume that fails, and a
  tracker in another process that writes the pause back which it had read.
* `DraftConforms`: of drafts that the modelled writers stored; `POST /plan-drafts`
  (`routers/graph_store.py:254`) stores any draft a client sends, as it is.
* `RevisionAdvances`: the exception `raced` is in the code too: two writers that read
  the same draft use the same revision number.
* `FunctionsSound`: the parser accepts a graph of several tasks if and only if it is
  acyclic, joins all its tasks and lists its one entry first (`ParserSound`), its order
  and levels respect the edges and every edge has a queue; phases and critical path
  are right whatever the model answers; a diff leads from one draft to the other; a
  draft has the tasks and edges of its specifications; generated graphs
  are acyclic.  They are *not* shown to be accepted: the compiler gives the entry step
  `inputs: None`, the parser raises on it (`Unread`), and `OnlyEntryUnread` says that
  this one step is all that stands in the way.
* `WalkSeesAll`: for routes whose parameters are part of the key.  For the others see
  the observations below.
* `RunsDoNotMix`, `NothingLost`: fan-out exchanges copy messages of one run into queues
  of another; the fan-in store keeps them apart by run, and no message is published
  before its queue exists.
* `PoolSound`: counting and waking of both pools.  In the newer one a failed opening
  costs a slot for good; `PoolAccounts` bounds the loss by the number of failures.
* `TopologyIsCurrent`: an exchange remembers whose event declared it last (`by`).  The
  type is promised only for exchanges that are still the pipeline's own: pipelines may
  share an exchange, and the event of one re-declares it with the type *its* document
  gives, whatever the other's says.  Nothing repairs that when the other is quiet.  A
  pipeline is `spoiled`, and promised nothing, when a failure cut its registration short
  or its command or event found no queue: before the first start of the orchestrator
  the API answers, stores the document, and nothing ever wires it.
* `BatchSound`: "restored" is not "as before".  A setting that `.env` lacked is saved
  with its default and written back, and failure injection is switched off whatever the
  user had.  Nothing is promised after a kill, or a Ctrl-C inside `apply_config`.

Runs that show where the code departs from what the repository says of it:

| run | statement | what happens |
|---|---|---|
| `bids_reach_plan` | a task with bids is assigned (`tests/.../test_graph_builder.py:72`) | the bidder's bids carry no pipeline id, the graph builder lists bids by pipeline: the plan assigns nobody |
| `reforward_stuck` | re-forward, then fail the run (`tracker.py:296`) | the result of the second attempt is dropped, the run stays RUNNING for ever |

Other observations made while modelling; `PROJECT.json` quotes the lines:

| place | statement | what the code does |
|---|---|---|
| `tracker.py:396` | a run with a failed task is failed | a later COMPLETED of the finals turns FAILED into COMPLETED |
| `tracker.py:438` | stops exactly once per run | two processes may both see the transition |
| `tracker.py:557` | re-forwarding gives up only when no candidates remain | the tracker's own write erases `plan_id` |
| `tracker.py:406` | CAS on hot-path writes | a lost update can leave the run RUNNING for ever |
| `forwarder.py:532` | effectively-once | tasks behind a fan-out run once per outgoing edge |
| `event_handler.py:147` | fanout → topic per run | a fanout stays a fanout |
| `graph_marker_store.py:206` | `total`, `has_more` before pagination | filters are applied after the page was cut |
| `backoff.py:32` | retries transient errors | synchronous functions are not retried |
| `webserver_supervisor.py:36` | fail fast on boot | the first exception ends a consumer, however late; a contract-net cycle that raised stays `bidding` or `awarding` |
| `graph_builder.py:431` | tasks that are awarded are skipped | the list of awards may lag: a task is awarded again |
| `orchestrator_core/utils.py:125` | idempotent | exchanges are deleted with the bindings of current runs |
| `connection_manager.py:67` | one shared connection | coroutines that race leave connections open |
| `consumers/service.py:39` | reads `RegisterServiceCommand` | its queue is bound to no exchange |
| `cnp_lifecycle.py:62` | decrement failed, increment new | only the new agent's load changes |
| `pheromone_engine.py:361` | avoid `or` chains | `success=False` alone is ignored |
| `runtime_policy.py:114` | incidents force stricter verification | a high cost burn replaces it by MINIMAL |
| `compiler.py:94` | the output can be fed into the pipeline creation API (`compiler.py:61`) | the entry step gets `inputs: None`, on which the parser raises |
| `llm_strategist_loop.py:172` | a decision ends the pause | if the resume fails, or is overwritten, the run stays paused, and a second decision returns at once (575) |
| `registry_client.py:192` | the count is of tasks that run | a cancelled task stays in it until the process restarts |
| `graph_marker_store.py:802` | the active policy is the last one saved | overlapping or broken saves leave an older one active for good |
| `dependecies.py:79` | a command is published with retries and confirms (47) | before the consumer has declared its queue, it is dropped and its pipeline never wired |
| `evaluation/batch_runner.py:454` | restores the original variables | absent ones become their defaults (427), failure injection is cleared (461) |
| `evaluation/batch_runner.py:755` | an interrupted batch is partial | other exceptions mark it COMPLETED |

**Bounds.**  `MaxItems = 1` or 2 makes caches overflow; the real capacity of 4096
keys only makes overflow rarer.  `MaxStops` and `MaxAwards` stop the handling of
events once the counters have passed every value the properties tell apart.
`SeqLen = 3` has a first, a middle and a last candidate.  `Requests = 1` asks for one
cycle; a crash delivers the command again, so a second cycle meets the documents of
the first, and a consumer that an exception ended leaves it in the queue.  Two tasks, one of them
final, give failures before, at and after the end of the run.  The diamond has
the fan-out, the fan-in and the duplicates together; the triangle adds a fan-in
whose parts come over paths of different length.  `MaxAttempts = 2` in
`exec_faults` and `exec_liveness` gives a first and a last attempt; the two triggers of
`exec_liveness` execute every task twice.

In `contract_net` two rounds make an agent join late, scores below the minimum leave
a round without bids, posted bids have two different qualifying scores, one bid per
call makes calls fill up, and two events allow a crash and a list that lags when the
command is repeated, or a foreign bid and an inline award, in one behaviour.  In `agent_registry` one failure makes the agent
unhealthy and two age steps make it offline.  Graphs of four tasks contain every
shape the parser distinguishes (isolated tasks, several roots, diamonds, cycles
behind a root).  Three plan events suffice for a suggestion, a decision that
overtakes it, and a task event in between.  Three writes and pages of one document
let a list grow before, at and behind the client's position.  Three threads on two
bundles have one that waits; one fault fails any of the openings, closings or
connections.  Two pipelines share one exchange under different types.  Three
attempts of the CAS loop, two uploaders and three uploads make every attempt but
the last lose.  Two batch starts are a batch and its resumption.  The counters
`MaxEvents`, `MaxRegEvents`, `MaxPlanEvents`, `MaxGateEvents`, `MaxLearnEvents`,
`MaxWrites`, `MaxIsoEvents`, `MaxCommands`, `MaxBreaks` and the like bound what comes
from outside (requests, faults), never the reactions to it.

Deadlock is not checked: runs, cycles and batches end, and a service without
requests waits.

**Fairness.**  `FairExecSpec` has strong fairness on the steps of every handler:
asyncio resumes every ready coroutine and the broker delivers what is queued to a
consumer that is ready, while the steps of one handler are disabled again and
again by calls of other handlers on the same loop.  An edit of the document that
has begun also ends, being a synchronous function.  `CnpFairness` is weak fairness
of the steps of each bidder and each manager (a coroutine that runs goes on),
`RegFairness` that of the agent's registration and heartbeat loop, of the requests
that the service has accepted, of the clock and of expiry.  `GateFairness` says that
the re-evaluation consumer takes its commands and a check that has begun ends, in a
verdict or an exception: `llm_connector` bounds its calls by a timeout.  Nothing is assumed
about edits, decisions, requests, triggers beyond the first, or faults, and crashes
are bounded in number.

## 4. What is proved

TLC checks the instances above; the theorems hold for every value of the constants
that the named `ASSUME`s of the modules allow.  Those give types, say that caches
hold at least one key, that final tasks are tasks, and that what the code enumerates
is finite (edges, threads, bundles, agents, an agent's concurrent tasks, the tasks of
a plan); that a page has room for a document (`limit` has `ge=1`); and they keep apart
what no deployment confuses (`Dispatcher` is not a task, `None` is not a pipeline,
managers are not API bidders, ids start at 1 where 0 stands for one made up, and a
single owner is not the set of all owners, which stands for no parameter).  What a single theorem needs
beyond them is its hypothesis, named and explained below.

### Run tracker (`RunTrackerProofs`)

The properties are not inductive: a process may write back a copy it read long ago.
`IInv` (theorem `Invariance`) therefore says of *every copy in use* what the
properties say of the stored documents (`DocOK`: COMPLETED means results for all
finals, FAILED means some failed task), says of every call that its event and its
copy fit together (`CallOK`), and that hot and archived documents never exist at the
same time.  `TypeCorrect`, `CompletedRuns`, `FailedRuns`, `ArchivedRuns` follow, for
any numbers of processes and trackers.

Under `OneLoop` (one process serves the run) the copy in use is the stored document
(`FreshInv`), which gives `TasksMoveForward` and `PauseIsKept`.  `StopsOnce`, without
faults, counts the stops by status and place of the call (`StopInv`).  With faults the
count may fall behind, never run ahead (`StopsBehind`), and a call that advances a
sequence has read the index that is still stored (`SequencesHeld`): `NothingTwice`.
`OneLoop` is needed: with two processes updates are lost and stops are sent twice
(section 3, observations).

### Pipeline execution (`PipelineExecutionProofs`)

`ImplementsTracker` (`ExecSpec => Spec`): every step of an execution is a tracker step
or leaves the tracker alone, hence `ExecCompletedRuns` and `ExecStopsOnce`.
`ExecTypeCorrect` types queues, parts and handlers.

`FlowOK(D)` is the core of the rest: every message that waits, is held, is filed for a
fan-in, or is being handled comes from a task of `D`, and whatever is to be published
is of `D`.  With `D` the tasks that were executed, and the documents, copies and events
of the tracker within it, it gives `EverythingRan`; with `D` the tasks that the stored
run has as completed, `ResultsFollowDag`.  `FanInPartsAreFresh` counts: for every queue
into a fan-in task, its executions, those under way, the filed part, the held and the
queued messages, and the messages still to be published add up to no more than the
upstream's executions account for (`Accounted`).

Hypotheses: `EntryIsSource`, the entry task depends on nothing, and `FinalsCover`, every
task leads to a final one.  Both flags are set by the author of a pipeline and checked
nowhere; every template of the repository sets them so.  `ResultsFollowDag` needs
`OneLoop` and no faults (an event that is lost after its result was published leaves
a hole in the document), `FanInPartsAreFresh` no faults (a message is retried after
some of its copies went out) and `NoRedispatch` (CNP_FAILURE_REFORWARD off, or
CNP_MAX_REFORWARDS = 0).

`QuietRunsHaveEnded` is the converse: what is done goes on.  `OnwardInv` says of a run
that is RUNNING that each edge out of a completed task has left a trace, in a message
that waits or is held, a part that is filed, a handler that is about to publish or to
execute, or a result of the next task.  When nothing is left to do, all traces are
results; the completed tasks are then closed under the edges, hence all of the tasks
(`AllTasks`, which walks back along the edges to a task without predecessors), the
finals among them, and the tracker has noticed (`EndIsNoticed`).
Hypotheses: `OneLoop` and no faults (a lost update or a lost event leaves a hole that
nobody fills); no re-forwarding, which run `reforward_stuck` shows to be able to leave
a run RUNNING for ever; `Acyclic`, which the parser enforces, and `OneEntry`, every
task but the entry depends on one; and that somebody triggers the run and it has a
final task.

### Contract net (`ContractNetProofs`)

* `CnpTypeCorrect`: types, with what each process remembers (`Fits`).
* `AssignedIsFirst`: the two orders of the graph builder agree.  The proof numbers the
  bids: in a finite strict total order the k-th element is the one with k - 1 elements
  before it (`KthOf`), `_ranked_bids` lists them so, and `_best_bids` takes an element
  with none before it.  The plan and the sequence are saved in one step per task and
  sequences keep their candidates when they advance.
* `BuilderAwardsOnce`, under `OneManager`: what the builder has still to award has no
  more awards of it than there were lists that did not show one (`NothingYet`).  It
  holds for any number of requests.  With two
  managers, two requests (`Requests = 2`) and a posted bid TLC finds both builders past
  `ReadForPlan` before either writes its award, so the hypothesis is needed.
* `RacesStayBounded`: no single bidder is responsible for the overshoot, so the
  invariant `RaceInv` assigns every open call and every bid to an owner (an injection,
  and a map with at most `MaxBids` per owner and call).  Owners are the bidders and the
  looks that lagged; a bidder works as itself or as its last look that lagged
  (`Tokens`), and it has *seen* what the owner it works as has left on the board
  (`Knows`, `Saw`).  A look at a current list makes it itself again, one that lags a
  new owner.  The assignment is not in the code's state; it exists in every reachable
  state.

### Planning (`PlanRevisionProofs`)

* Kahn's algorithm (`DetectCycle`) is proved right for every graph: if every task is
  removed in the end, no set of tasks waits for itself.  This is an induction over the
  rounds, done on a set of numbers.
* `ValidDraftConforms`: consumer, validator and cache write whole documents back, so the
  invariant (`DraftInv`, `CandTyped`, `ConsTyped`) says the same of every copy they hold.
* `PausesHaveReasons`: also of the pause that is about to be set, and of the pause in the
  copy that a tracker will write back.
* `GraphFollowsRevision`: while no writer has read the draft during a change (`raced` is
  false) at most one change is on its way and it was made for the current revision
  (`Alone`).

### Services (`ServicesProofs`)

* `LostUnderPressure`, `CacheIsASet`: the stored keys are distinct, in the order of their
  last use, and fit (`Lru`); so an eviction leaves `CacheSize` younger keys behind, and
  purging from the front removes exactly what is too old.  `CacheIsASet` makes what
  `RunTracker` assumes of its cache a theorem: the step-by-step refinement of `DedupeSet`.
* `RewardsAreEarned`: the forwarders between closing a record and crediting the model
  are counted with both sides (`BanditInv`).
* `MarkersStaySound`: what an engine call read is sound by the time it writes it.  The
  configured limits bind feedback and decay only; deposits are capped at 1.0 and seeds
  are scores, so the range that holds is 0 to the larger of 1.0 and the maximum.
* `CountsAreRight`: every document that some request carries, however old, is within the
  bounds (`DocType`), and a live client's count is the number of its running tasks and
  of those that were cancelled (`Counted`).
* `StoreIsConsistent`: documents and index hold one document per key and each version
  once, except for the copies of the latest decision, which an older one may overwrite;
  a key that the index shows exists unless it may expire (`StoreInv`); and a document
  whose copy is not yet written has a save under way that no other one overtakes, for
  owners whose saves have not overlapped and not broken off (`CopiesHold`).  The key of a POST that has not been answered stays
  (`PostInv`).  `AnswersAgree` then follows for every route, owner and tag from what
  the routes select (`RouteParameters`, `ParametersSelect`).
* `WalksSeeAll`: a document written again moves to the front of its list and versions
  never come back (`VersionsAdvance`), so between two pages documents move only away
  from the front, as long as no key leaves the list (`RanksGrow`).  Hence what was there
  at the beginning and has not been seen lies at or behind the client's position
  (`ToCome`), and the client stops when the count says that nothing lies there.  For
  every page size, with and without an index that lags.  The first attempt failed at the
  POSTs, whose writes did not count as disturbances of the walk; TLC confirmed the
  counterexample for `RequestPlus`, and `Disturb` is now part of them.
* `ScoresAreSound`: the inputs that the run chooses have the types (`InputsAreTyped`) for
  which four theorems hold of any numbers.  `BetterBidsScoreNoLess` and
  `BetterRunsEarnNoLess`: scores and rewards are sums of monotone quotients, clamped
  (`Quotients`, `ClampFacts`).  `CoalitionsReportTruly`: the hand-overs of more steps are
  no fewer (`HandoffFacts`), so the first failure decides.  `BestVerifierWins`, for any
  list of agents: what `Consider` keeps after k agents is the first of the best so far
  (`SoFar`), by an induction over a set of numbers (`CountUp`), as the function that
  `BestPartner` defines exists for every length (`LookedExists`).  That the best
  partner is chosen needs every verifier to have signals of its own, as the property says.

### Platform

* `RunsStayApart` (`RunIsolationProofs`), under `EntryIsSource`: a message in a queue names
  a run in which its sender was executed, whichever run the queue belongs to
  (`BoxOK`), and so does every part of a fan-in (`StoreOK`).  For both naming modes.
* `QuietRunsAreDone` (`RunIsolationProofs`): for every launched run there is a set of
  executed tasks whose outgoing edges are accounted for, each in a queue of the run, in a
  fan-in store or by an execution (`Accounted`); at rest the set is closed under the
  edges, so it is all tasks.  Hypotheses: `Acyclic`, `OneEntry`, and `Suffix`, which
  docker-compose sets.  Without it (the default of `consumer_wrapper.py:17`) the
  statement is false: an agent that executes the entry before another has bound the bare
  queue publishes into nothing, as TLC finds with `Suffix = FALSE`.
* `PoolIsSound` (`ConnectionPoolProofs`): bundles are counted, at least as many sleepers
  are woken as bundles are free (`EnoughWoken`), and sockets are paid for by threads and
  failures (`SocketBudget`).
* `EntriesAreKept`, `CatalogOnlyGrows`: a CAS value that still matches belongs to the
  catalog as it is, and an older copy was never ahead of it (`CopyOK`).  `LastStartWins`.
* `NoCommandVanishes`: a command is in the queue or at work, once, exactly as long as
  nothing is known of its fate (`PlacesOK`, `EffectsOK`).
* `BatchIsSound`: a row of the batch is a run that the manifest has as completed
  (`RowsOK`), and between `apply_config` and the restore the services run with the
  configuration at work (`EnvOK`); what is saved and what is written back differ from
  the user's file only where it lacked a setting or injected failures (`OriginalFacts`).
* `StoredMeansWired`: a stored pipeline whose exchanges are not all as its document says
  is on its way through a request, the command queue, the event queue or the consumer
  at work (`Settled`), unless it is spoiled.  The first attempt at this proof failed on pipelines that share
  an exchange; TLC confirmed the counterexample, and `TopologyIsCurrent` now names it.

### Only model-checked

* Liveness (`CleanRunsFinish`, `Drains`, `CyclesEnd`, `RegistrySettles`,
  `ReEvaluationsEnd`) and everything else under fairness: out of the prover's reach.
* `FunctionsSound`: what the parser, the skeletons and the drafts compute over all small
  inputs, by folds and recursive functions.  Induction over data is out of the prover's
  reach; what could be done over a set of numbers is named in section 5.

`ExecTypeOK` and `CnpTypeOK` are proved and listed by no run.

## 5. What the proofs leave open

1. `FunctionsSound`: the parser's order and levels, as `DetectCycle` was done in
   `PlanRevisionProofs`, by an induction over rounds on a set of numbers.
2. Under `Suffix = FALSE`, which runs lose nothing: those whose queues an earlier run has
   already bound.
3. `QuiescentTerminal` with several processes needs the tracker to write under CAS.

## 6. Not modelled

* Semantic layer: RDF and SPARQL text sent to a triple store, no protocol state.  The
  capability hierarchy is in TopologySeeds.
* LLM utilities: calls of providers; wherever an answer is used it is arbitrary.
* Service discovery, observability, manifests and the parsing layer: I/O and templates.
* Demo agents, frontend: examples and user interface.
* Evaluation reports (`generate_all_results.py`, `report_generator.py`, `e1_harness/`):
  text and statistics over result files.
* The end of the ethics consumer on a failed publish and a policy limit that changes
  (PlanGates); failed launches (RunIsolation); a launcher that stops between creating
  and starting a container, and a tag moved in the registry (ServiceCatalog).
* The bandit's linear algebra (real numbers); wheel and image building, virtual
  environments; the payload enrichment and semantic traces of `forward()`; the channel
  of the control queue; routers that read or write one document.
