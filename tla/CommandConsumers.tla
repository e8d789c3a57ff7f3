-------------------------- MODULE CommandConsumers --------------------------
(***************************************************************************)
(* The consumers that turn commands into handler calls: each declares a    *)
(* queue, takes one message at a time inside msg.process() - acknowledged  *)
(* when the block ends, rejected without requeue when it raises - and runs *)
(* under supervise. What the handlers do is in PlanRevision, ContractNet,  *)
(* RunIsolation, PlanGates and RunTracker. Consumers do not meet: a        *)
(* behaviour is about one of them.                                         *)
(***************************************************************************)
EXTENDS Integers, FiniteSets, Sequences, SequencesExt

CONSTANTS
  MaxCommands,  \* bound: commands issued
  MaxBreaks     \* bound: exceptions, exits and restarts

ASSUME CommandAssumption == MaxCommands \in Nat /\ MaxBreaks \in Nat

VARIABLES
  me,        \* the consumer
  declared,  \* its queue exists, and is bound where the consumer binds it
  pending,   \* messages ready in the queue
  atWork,    \* the unacknowledged message: <<>> or <<m>>, m = [id, readable]
  life,      \* supervise: "first" run, "again", or "dead"
  settled,   \* what became of a command that left the queue
  effects,   \* how often the handler ran to its end for a command
  returned,  \* commands delivered again after a restart
  issued,    \* commands so far
  breaks     \* exceptions, exits and restarts so far

commandVars == <<me, declared, pending, atWork, life, settled, effects, returned, issued, breaks>>

-----------------------------------------------------------------------------
(* bound: to the exchange that senders publish to. guarded: a body that does *)
(* not parse is skipped. caught: what the handler raises is logged.         *)
(* durable: the queue outlives the process. supervised: started by core_main.*)
ConsumerRow(name, bound, guarded, caught, durable, supervised) ==
  [name |-> name, bound |-> bound, guarded |-> guarded, caught |-> caught,
   durable |-> durable, supervised |-> supervised]

RevisePlanConsumer         == ConsumerRow("revise_plan", TRUE, TRUE, FALSE, TRUE, TRUE)
CnpLifecycleConsumer       == ConsumerRow("reassign_task", TRUE, TRUE, FALSE, TRUE, TRUE)
TaskDispatchConsumer       == ConsumerRow("dispatch_task", TRUE, TRUE, FALSE, TRUE, TRUE)
EthicsReEvaluationConsumer == ConsumerRow("ethics_re_evaluate", TRUE, TRUE, FALSE, TRUE, TRUE)
CnpManagerConsumer         == ConsumerRow("run_cnp_cycle", TRUE, TRUE, FALSE, TRUE, TRUE)
RegisterServiceConsumer    == ConsumerRow("register_service", FALSE, FALSE, FALSE, TRUE, TRUE)
RunFinalizerConsumer       == ConsumerRow("pipeline_events", TRUE, FALSE, TRUE, FALSE, FALSE)

CommandConsumers ==
  {RevisePlanConsumer, CnpLifecycleConsumer, TaskDispatchConsumer, EthicsReEvaluationConsumer,
   CnpManagerConsumer, RegisterServiceConsumer, RunFinalizerConsumer}

Breaks == breaks < MaxBreaks /\ breaks' = breaks + 1
Settle(id, how) == settled' = [settled EXCEPT ![id] = how]

(* The consumer connects and declares its queue.                            *)
DeclareQueue ==
  /\ life # "dead" /\ ~declared /\ declared' = TRUE
  /\ UNCHANGED <<me, pending, atWork, life, settled, effects, returned, issued, breaks>>

(* A sender publishes to the exchange: without a bound queue the command is *)
(* dropped by the broker.                                                   *)
SendCommand(readable) ==
  /\ issued < MaxCommands /\ issued' = issued + 1
  /\ IF declared /\ me.bound
       THEN pending' = Append(pending, [id |-> issued', readable |-> readable]) /\ UNCHANGED settled
       ELSE Settle(issued', "unrouted") /\ UNCHANGED pending
  /\ UNCHANGED <<me, declared, atWork, life, effects, returned, breaks>>

(* A client of the broker may also put a message straight into the queue.   *)
SendDirect(readable) ==
  /\ ~me.bound /\ declared /\ issued < MaxCommands /\ issued' = issued + 1
  /\ pending' = Append(pending, [id |-> issued', readable |-> readable])
  /\ UNCHANGED <<me, declared, atWork, life, settled, effects, returned, breaks>>

TakeCommand ==
  /\ declared /\ life # "dead" /\ atWork = <<>> /\ pending # <<>>
  /\ atWork' = <<Head(pending)>> /\ pending' = Tail(pending)
  /\ UNCHANGED <<me, declared, life, settled, effects, returned, issued, breaks>>

(* supervise: the first exception ends the consumer for good unless it has  *)
(* returned before. The finalizer is gathered with the other tasks of its   *)
(* agent and ends with them. A queue that is not durable goes with it.      *)
AfterRaise ==
  /\ life' = IF me.supervised /\ life = "again" THEN "again" ELSE "dead"
  /\ declared' = (declared /\ me.durable)
  /\ pending' = IF me.durable THEN pending ELSE <<>>

Gone(ids, how) ==
  [i \in DOMAIN settled |-> IF i \in ids THEN how ELSE settled[i]]
LostWithQueue == IF me.durable THEN {} ELSE {m.id : m \in ToSet(pending)}

Unreadable ==
  /\ atWork # <<>> /\ ~Head(atWork).readable /\ atWork' = <<>>
  /\ IF me.guarded
       THEN Settle(Head(atWork).id, "unreadable") /\ UNCHANGED <<life, declared, pending, breaks>>
       ELSE /\ settled' = [Gone(LostWithQueue, "lost") EXCEPT ![Head(atWork).id] = "unreadable"]
            /\ AfterRaise /\ UNCHANGED breaks
  /\ UNCHANGED <<me, effects, returned, issued>>

(* The handler runs to its end; the acknowledgement follows.                *)
HandleCommand ==
  /\ atWork # <<>> /\ Head(atWork).readable
  /\ settled[Head(atWork).id] = "none"
  /\ effects' = [effects EXCEPT ![Head(atWork).id] = @ + 1]
  /\ Settle(Head(atWork).id, "done")
  /\ UNCHANGED <<me, declared, pending, atWork, life, returned, issued, breaks>>

Acknowledge ==
  /\ atWork # <<>> /\ settled[Head(atWork).id] = "done"
  /\ Settle(Head(atWork).id, "handled") /\ atWork' = <<>>
  /\ UNCHANGED <<me, declared, pending, life, effects, returned, issued, breaks>>

(* Mutant: the exception is swallowed and the message neither acknowledged   *)
(* nor rejected.                                                            *)
FaultyHandlerRaises ==
  /\ atWork # <<>> /\ Head(atWork).readable /\ settled[Head(atWork).id] = "none" /\ Breaks
  /\ atWork' = <<>>
  /\ UNCHANGED <<me, declared, pending, life, settled, effects, returned, issued>>

(* The handler raises: the message is rejected, not requeued.               *)
HandlerRaises ==
  /\ atWork # <<>> /\ Head(atWork).readable /\ settled[Head(atWork).id] = "none" /\ Breaks
  /\ atWork' = <<>>
  /\ IF me.caught
       THEN Settle(Head(atWork).id, "failed") /\ UNCHANGED <<life, declared, pending>>
       ELSE /\ settled' = [Gone(LostWithQueue, "lost") EXCEPT ![Head(atWork).id] = "failed"]
            /\ AfterRaise
  /\ UNCHANGED <<me, effects, returned, issued>>

(* The consumer's iterator ends between two messages; supervise starts it   *)
(* again at once.                                                           *)
ConsumerReturns ==
  /\ me.supervised /\ life = "first" /\ atWork = <<>> /\ declared /\ Breaks
  /\ life' = "again"
  /\ UNCHANGED <<me, declared, pending, atWork, settled, effects, returned, issued>>

Requeued == atWork \o pending

(* The process stops and starts again: the broker delivers what was not     *)
(* acknowledged once more.                                                  *)
RestartConsumer ==
  /\ Breaks /\ life' = "first" /\ atWork' = <<>>
  /\ LET ids == {m.id : m \in ToSet(atWork)} IN
       IF me.durable
         THEN /\ pending' = Requeued /\ UNCHANGED declared
              /\ returned' = returned \cup ids
              /\ settled' = [i \in DOMAIN settled |-> IF i \in ids THEN "none" ELSE settled[i]]
         ELSE /\ pending' = <<>> /\ declared' = FALSE /\ UNCHANGED returned
              /\ settled' = Gone(LostWithQueue \cup ids, "lost")
  /\ UNCHANGED <<me, effects, issued>>

CommandInit ==
  /\ me \in CommandConsumers
  /\ declared = FALSE /\ pending = <<>> /\ atWork = <<>> /\ life = "first"
  /\ settled = [i \in 1..MaxCommands |-> "none"] /\ effects = [i \in 1..MaxCommands |-> 0]
  /\ returned = {} /\ issued = 0 /\ breaks = 0

CommandNext ==
  \/ DeclareQueue \/ TakeCommand \/ Unreadable \/ HandleCommand \/ Acknowledge
  \/ HandlerRaises \/ ConsumerReturns \/ RestartConsumer
  \/ \E r \in BOOLEAN : SendCommand(r) \/ SendDirect(r)

CommandSpec == CommandInit /\ [][CommandNext]_commandVars

-----------------------------------------------------------------------------
(* No command vanishes: until something is known to have become of it, it   *)
(* is in the queue or at work, once; and its handler runs to its end twice  *)
(* only if a restart brought the message back.                              *)
CommandsAccounted ==
  \A i \in 1..issued :
    LET places == {k \in DOMAIN pending : pending[k].id = i}
                    \cup {k \in {0} : \E m \in ToSet(atWork) : m.id = i}
    IN /\ Cardinality(places) = IF settled[i] \in {"none", "done"} THEN 1 ELSE 0
       /\ settled[i] = "handled" => effects[i] >= 1
       /\ effects[i] >= 2 => i \in returned
=============================================================================
