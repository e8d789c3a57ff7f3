---------------------------- MODULE Registration ----------------------------
(***************************************************************************)
(* Registering a pipeline: the API writes the pipeline document and its    *)
(* configuration with two upserts and publishes a command; the             *)
(* orchestrator's pipeline consumer turns the command into an event; its   *)
(* topology consumer reads the document and declares the exchanges.        *)
(*                                                                         *)
(* Exchanges are named after task ids alone, so pipelines share them.  The *)
(* consumers run under a supervisor; only they declare the two queues, and  *)
(* the API does not wait for them, so a message may find no queue.          *)
(***************************************************************************)
EXTENDS Naturals, Sequences

CONSTANTS
  Pipe,          \* pipeline ids
  Graph,         \* pipeline definitions
  Wiring,        \* the exchanges of a definition, each with its type
  Caller,        \* API requests that may be under way
  CreateSync,    \* PIPELINE_CREATE_SYNC
  MaxLegacy,     \* bound on commands that carry the definition
  MaxRegFaults   \* bound on failures

Exchange == UNION {DOMAIN Wiring[g] : g \in Graph}
None == "none"
Stub == "stub"
Consumer == {"pipeline", "topology"}

ASSUME RegAssumption ==
  /\ CreateSync \in BOOLEAN /\ MaxLegacy \in Nat /\ MaxRegFaults \in Nat
  /\ DOMAIN Wiring = Graph /\ Graph \cap {None, Stub} = {} /\ None \notin Pipe

VARIABLES
  doc,       \* the pipeline documents
  cfg,       \* the pipeline configurations
  exch,      \* the type each exchange has on the broker, and (history) the pipeline
             \*   whose event deleted or declared it last
  cmds,      \* queue commands.register_pipeline
  evts,      \* queue events.pipeline_registered
  call,      \* what is left to do of each API request
  topo,      \* the event the topology consumer has, and the exchanges left to declare
  consumer,  \* the supervised consumers
  queues,    \* the consumers whose queue has been declared and bound
  spoiled,   \* pipelines whose registration a failure or a missing queue cut short
  oldCommands, regFaults

regVars == <<doc, cfg, exch, cmds, evts, call, topo, consumer, queues, spoiled, oldCommands, regFaults>>
brokerVars == <<exch, cmds, evts, topo, consumer, queues>>

NoCall == [pipe |-> None, graph |-> None, todo |-> <<>>]
NoEvent == [pipe |-> None, graph |-> None, left |-> {}]
Undeclared == [type |-> None, by |-> None]

RegistrationInit ==
  /\ doc = [p \in Pipe |-> None] /\ cfg = [p \in Pipe |-> None]
  /\ exch = [x \in Exchange |-> Undeclared]
  /\ cmds = <<>> /\ evts = <<>>
  /\ call = [c \in Caller |-> NoCall]
  /\ topo = NoEvent
  /\ consumer = [n \in Consumer |-> "first"] /\ queues = {}
  /\ spoiled = {} /\ oldCommands = 0 /\ regFaults = 0

Fails == regFaults < MaxRegFaults /\ regFaults' = regFaults + 1

\* Faulty variant: the command is published before the documents are complete.
PublishFirst == <<"stub", "doc", "publish", "cfg">>

\* What create_pipeline does in turn.
CreateSteps ==
  IF CreateSync THEN <<"stub", "doc", "cfg", "publish">> ELSE <<"stub", "publish">>

\* generate_pipeline with auto_create does the same, but update meets the parser,
\* which raises on what the compiler made (a task without dependencies has no
\* inputs): the route answers generation_only and leaves the stub.
GenerateSteps == IF CreateSync THEN <<"stub", "raise">> ELSE <<"stub", "publish">>

\* A route begins with a definition that was found valid; the id is new.
Begin(c, p, g, steps) ==
  /\ call[c] = NoCall
  /\ doc[p] = None /\ cfg[p] = None /\ \A d \in Caller : call[d].pipe # p
  /\ call' = [call EXCEPT ![c] = [pipe |-> p, graph |-> g, todo |-> steps]]
  /\ UNCHANGED <<doc, cfg, brokerVars, spoiled, oldCommands, regFaults>>

CreatePipeline(c, p, g) == Begin(c, p, g, CreateSteps)
GeneratePipeline(c, p, g) == Begin(c, p, g, GenerateSteps)

Does(c, s) ==
  /\ call[c].todo # <<>> /\ Head(call[c].todo) = s
  /\ call' = [call EXCEPT ![c] = IF Len(@.todo) = 1 THEN NoCall
                                 ELSE [pipe |-> @.pipe, graph |-> @.graph, todo |-> Tail(@.todo)]]

\* insert_stub
InsertStub(c) ==
  /\ Does(c, "stub")
  /\ doc' = [doc EXCEPT ![call[c].pipe] = Stub]
  /\ UNCHANGED <<cfg, brokerVars, spoiled, oldCommands, regFaults>>

\* update: first the document, then the configuration.
UpdateDoc(c) ==
  /\ Does(c, "doc")
  /\ doc' = [doc EXCEPT ![call[c].pipe] = call[c].graph]
  /\ UNCHANGED <<cfg, brokerVars, spoiled, oldCommands, regFaults>>

UpdateConfig(c) ==
  /\ Does(c, "cfg")
  /\ cfg' = [cfg EXCEPT ![call[c].pipe] = call[c].graph]
  /\ UNCHANGED <<doc, brokerVars, spoiled, oldCommands, regFaults>>

\* _generate_pipeline_config raises before update has written anything.
GenerationOnly(c) ==
  /\ Does(c, "raise")
  /\ UNCHANGED <<doc, cfg, brokerVars, spoiled, oldCommands, regFaults>>

\* CommandPublisher.publish succeeds, perhaps after retries.  It declares the exchange
\* only: without a bound queue the broker drops the command, and nobody hears of it.
PublishCommand(c) ==
  /\ Does(c, "publish")
  /\ IF "pipeline" \in queues
     THEN cmds' = Append(cmds, [pipe |-> call[c].pipe, graph |-> None]) /\ UNCHANGED spoiled
     ELSE spoiled' = spoiled \cup {call[c].pipe} /\ UNCHANGED cmds
  /\ UNCHANGED <<doc, cfg, exch, evts, topo, consumer, queues, oldCommands, regFaults>>

\* A store raises (with_backoff runs a synchronous function once), the
\* publisher's attempts are used up, or the API process stops.
CallFails(c) ==
  /\ call[c] # NoCall /\ Fails
  /\ spoiled' = spoiled \cup {call[c].pipe}
  /\ call' = [call EXCEPT ![c] = NoCall]
  /\ UNCHANGED <<doc, cfg, brokerVars, oldCommands>>

\* PipelineStore.create: document and configuration in one transaction, no command.
StoreCreate(p, g) ==
  /\ doc[p] = None /\ cfg[p] = None /\ \A d \in Caller : call[d].pipe # p
  /\ doc' = [doc EXCEPT ![p] = g] /\ cfg' = [cfg EXCEPT ![p] = g]
  /\ spoiled' = spoiled \cup {p}
  /\ UNCHANGED <<brokerVars, call, oldCommands, regFaults>>

\* DELETE removes the document and leaves the configuration.
DeletePipeline(p) ==
  /\ doc[p] # None
  /\ doc' = [doc EXCEPT ![p] = None]
  /\ UNCHANGED <<cfg, brokerVars, call, spoiled, oldCommands, regFaults>>

\* A client of the earlier protocol sends the whole definition.
LegacyCommand(p, g) ==
  /\ oldCommands < MaxLegacy
  /\ oldCommands' = oldCommands + 1
  /\ cmds' = IF "pipeline" \in queues THEN Append(cmds, [pipe |-> p, graph |-> g]) ELSE cmds
  /\ UNCHANGED <<doc, cfg, exch, evts, call, topo, consumer, queues, spoiled, regFaults>>

Up(n) == consumer[n] # "dead"

\* supervise: the first exception of a consumer is raised, whenever it comes;
\* after a normal exit exceptions are retried.
AfterException(n) ==
  consumer' = [consumer EXCEPT ![n] = IF @ = "first" THEN "dead" ELSE @]

\* A consumer connects and declares its queue, which outlives it; or it cannot.
DeclareQueueOf(n) ==
  /\ Up(n) /\ n \notin queues
  /\ \/ queues' = queues \cup {n} /\ UNCHANGED <<consumer, regFaults>>
     \/ AfterException(n) /\ Fails /\ UNCHANGED queues
  /\ UNCHANGED <<doc, cfg, exch, cmds, evts, call, topo, spoiled, oldCommands>>

ConsumerExits(n) ==
  /\ consumer[n] = "first" /\ n \in queues /\ Fails
  /\ n = "topology" => topo = NoEvent
  /\ consumer' = [consumer EXCEPT ![n] = "again"]
  /\ UNCHANGED <<doc, cfg, exch, cmds, evts, call, topo, queues, spoiled, oldCommands>>

\* get_final_config finds the configuration; otherwise it raises.
HasFinalConfig(p) == cfg[p] # None

PublishEvent(p) ==
  IF "topology" \in queues THEN evts' = Append(evts, p) /\ UNCHANGED spoiled
                            ELSE spoiled' = spoiled \cup {p} /\ UNCHANGED evts

\* register_pipeline_consumer: with a payload_ref the configuration must be there,
\* otherwise the command is dropped; with a payload it is stored here.  The event goes
\* to the topology consumer's queue, if there is one.
RegisterPipeline ==
  /\ Up("pipeline") /\ cmds # <<>>
  /\ cmds' = Tail(cmds)
  /\ LET m == Head(cmds)
     IN /\ IF m.graph # None
           THEN doc' = [doc EXCEPT ![m.pipe] = m.graph] /\ cfg' = [cfg EXCEPT ![m.pipe] = m.graph]
           ELSE UNCHANGED <<doc, cfg>>
        /\ IF m.graph = None /\ ~HasFinalConfig(m.pipe) THEN UNCHANGED <<evts, spoiled>>
           ELSE PublishEvent(m.pipe)
  /\ UNCHANGED <<exch, call, topo, consumer, queues, oldCommands, regFaults>>

\* The store or the broker fails: looking up the configuration is caught and the
\* command dropped; other errors reject the command and end the consumer.
RegisterFails ==
  /\ Up("pipeline") /\ cmds # <<>> /\ Fails
  /\ cmds' = Tail(cmds)
  /\ LET m == Head(cmds) IN
       /\ spoiled' = spoiled \cup {m.pipe}
       /\ \/ m.graph = None /\ UNCHANGED <<doc, cfg, consumer>>
          \/ AfterException("pipeline") /\ UNCHANGED <<doc, cfg>>
          \/ /\ m.graph # None /\ AfterException("pipeline")
             /\ doc' = [doc EXCEPT ![m.pipe] = m.graph]
             /\ cfg' \in {cfg, [cfg EXCEPT ![m.pipe] = m.graph]}
  /\ UNCHANGED <<exch, evts, call, topo, queues, oldCommands>>

\* pipeline_registered_consumer takes an event and reads the document; a stub
\* has no exchanges.
ReadDocument ==
  /\ Up("topology") /\ topo = NoEvent /\ evts # <<>> /\ doc[Head(evts)] # None
  /\ LET p == Head(evts) IN
       topo' = [pipe |-> p, graph |-> doc[p],
                left |-> IF doc[p] = Stub THEN {} ELSE DOMAIN Wiring[doc[p]]]
  /\ evts' = Tail(evts)
  /\ UNCHANGED <<doc, cfg, exch, cmds, call, consumer, queues, spoiled, oldCommands, regFaults>>

\* The document is gone: the event goes back to the head of the queue.
DocumentMissing ==
  /\ Up("topology") /\ topo = NoEvent /\ evts # <<>> /\ doc[Head(evts)] = None
  /\ AfterException("topology")
  /\ UNCHANGED <<doc, cfg, exch, cmds, evts, call, topo, queues, spoiled, oldCommands, regFaults>>

\* ensure_topology: delete an exchange, whatever its type, and declare it.
EnsureExchange(x) ==
  /\ x \in topo.left
  /\ exch' = [exch EXCEPT ![x] = [type |-> Wiring[topo.graph][x], by |-> topo.pipe]]
  /\ topo' = [topo EXCEPT !.left = @ \ {x}]
  /\ UNCHANGED <<doc, cfg, cmds, evts, call, consumer, queues, spoiled, oldCommands, regFaults>>

AckEvent ==
  /\ topo # NoEvent /\ topo.left = {}
  /\ topo' = NoEvent
  /\ UNCHANGED <<doc, cfg, exch, cmds, evts, call, consumer, queues, spoiled, oldCommands, regFaults>>

\* The broker fails, perhaps between the two: the event is requeued.
EnsureFails ==
  /\ topo # NoEvent /\ Fails
  /\ exch' \in {exch} \cup {[exch EXCEPT ![x] = [type |-> None, by |-> topo.pipe]] :
                              x \in topo.left}
  /\ evts' = <<topo.pipe>> \o evts
  /\ topo' = NoEvent
  /\ AfterException("topology")
  /\ UNCHANGED <<doc, cfg, cmds, call, queues, spoiled, oldCommands>>

\* The orchestrator stops and starts again; unacknowledged events come back.
OrchestratorRestart ==
  /\ Fails
  /\ evts' = IF topo = NoEvent THEN evts ELSE <<topo.pipe>> \o evts
  /\ topo' = NoEvent
  /\ consumer' = [n \in Consumer |-> "first"]
  /\ UNCHANGED <<doc, cfg, exch, cmds, call, queues, spoiled, oldCommands>>

RegistrationNext ==
  \/ \E c \in Caller :
       \/ \E p \in Pipe, g \in Graph : CreatePipeline(c, p, g) \/ GeneratePipeline(c, p, g)
       \/ GenerationOnly(c)
       \/ InsertStub(c) \/ UpdateDoc(c) \/ UpdateConfig(c) \/ PublishCommand(c) \/ CallFails(c)
  \/ \E p \in Pipe, g \in Graph : StoreCreate(p, g) \/ LegacyCommand(p, g)
  \/ \E p \in Pipe : DeletePipeline(p)
  \/ \E n \in Consumer : DeclareQueueOf(n) \/ ConsumerExits(n)
  \/ RegisterPipeline \/ RegisterFails
  \/ ReadDocument \/ DocumentMissing \/ \E x \in Exchange : EnsureExchange(x)
  \/ AckEvent \/ EnsureFails \/ OrchestratorRestart

RegSpec == RegistrationInit /\ [][RegistrationNext]_regVars

\* Nothing is left to do.
RegQuiet == cmds = <<>> /\ evts = <<>> /\ topo = NoEvent /\ \A c \in Caller : call[c] = NoCall

\* Once the requests are answered and the queues are empty, each exchange of a
\* stored pipeline was declared, and has the type the pipeline's document gives
\* it unless another pipeline's event took it over: no order of the two writes,
\* the command, the event, redeliveries and restarts leaves a pipeline
\* registered and unwired, except where a failure took its request, its command or
\* its event, or the broker dropped one of the two because the consumer had not yet
\* declared its queue.
TopologyIsCurrent ==
  RegQuiet =>
    \A p \in Pipe \ spoiled : doc[p] \in Graph =>
      \A x \in DOMAIN Wiring[doc[p]] :
        /\ exch[x].by # None
        /\ exch[x].by = p => exch[x].type = Wiring[doc[p]][x]
=============================================================================
