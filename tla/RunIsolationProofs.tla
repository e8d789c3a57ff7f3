-------------------------- MODULE RunIsolationProofs --------------------------
(***************************************************************************)
(* Proofs about RunIsolation, for every graph, every number of runs and    *)
(* agents, and both naming modes.                                          *)
(***************************************************************************)
EXTENDS RunIsolation, FiniteSetTheorems, TLAPS

Trigger == {"started", "seed"}

\* The control state: triggers, managers and counters.
ControlType ==
  /\ launched \subseteq Run
  /\ inbox \in [Service -> SUBSET (Trigger \X Run)]
  /\ boot \in [Service -> SUBSET (Trigger \X Run \X {"topology", "entry"})]
  /\ known \in [Service -> SUBSET Run]
  /\ live \in [Service -> SUBSET Run]
  /\ faults \in Nat /\ dispatches \in Nat

\* Queues, stores and what was executed.
FlowType ==
  /\ box \in [Queue -> SUBSET (Sender \X Run)]
  /\ store \in [Service -> [Run -> [Run \X Step -> SUBSET Sender]]]
  /\ ran \subseteq Run \X Step

IsoTypeOK == ControlType /\ FlowType /\ bound \subseteq Queue

(***************************************************************************)
(* The inductive invariant.  RunsDoNotMix speaks of executed tasks only; a *)
(* task is executed because of what a queue and a store hold, so the       *)
(* invariant says the same of them: a message that waits on an edge names  *)
(* a run in which the source of the edge was executed, whichever run the   *)
(* queue belongs to, and a part that waits for a fan-in names one in which *)
(* its sender was, unless the dispatcher sent it.                          *)
(*                                                                         *)
(* is_entry is set by the author of a pipeline and checked nowhere; the    *)
(* results are about pipelines whose entry task depends on nothing, which  *)
(* is how every template of the repository sets it.                        *)
(***************************************************************************)

\* The entry task waits for no other task.
EntryIsSource == Into(First) = {}

\* A message on edge e comes from the source of e or from the dispatcher.
BoxOK ==
  \A q \in Queue : \A c \in box[q] :
    /\ c[1] \in {q[1][1], Dispatcher}
    /\ <<c[2], q[1][1]>> \in ran

\* A part of a task that is not the dispatcher's was produced in the same run.
StoreOK ==
  \A s \in Service, m \in Run, r \in Run, t \in Step :
    \A part \in store[s][m][<<r, t>>] : part # Dispatcher => <<r, part>> \in ran

IsoInv == IsoTypeOK /\ BoxOK /\ StoreOK /\ RunsDoNotMix

-----------------------------------------------------------------------------
\* A queue is that of a link, a link joins two tasks.
LEMMA QueueFacts ==
  ASSUME NEW e \in Link, NEW m \in Run
  PROVE  /\ e = <<e[1], e[2]>> /\ e[1] \in Step /\ e[2] \in Step
         /\ QueueFor(e, m) \in Queue /\ QueueFor(e, m)[1] = e
         /\ <<e, m>> \in Queue
BY LinkAssumption DEF QueueFor, Queue

\* Whatever the exchange and the mode, a message published for an edge reaches
\* only bound queues of edges that leave the same task.
LEMMA RoutedFacts ==
  ASSUME NEW e \in Link, NEW r \in Run, NEW q \in Routed(e, r)
  PROVE  q[1] \in Link /\ q[1][1] = e[1]
BY QueueFacts DEF Routed, OutOf

\* What publishing does to a queue.
LEMMA PublishedFacts ==
  ASSUME NEW queues \in [Queue -> SUBSET (Sender \X Run)], NEW from \in Sender, NEW r \in Run,
         NEW S \in SUBSET Link
  PROVE  /\ Published(queues, from, r, S) \in [Queue -> SUBSET (Sender \X Run)]
         /\ \A q \in Queue : \A c \in Published(queues, from, r, S)[q] :
              c \in queues[q] \/ (c = <<from, r>> /\ \E e \in S : q[1][1] = e[1])
BY RoutedFacts DEF Published

\* A task with a single dependency waits for nothing else.
LEMMA SingleInput ==
  ASSUME NEW e \in Link, Needed(e[2]) = {}
  PROVE  Into(e[2]) = {e}
<1>. DEFINE I == Into(e[2])
<1>1. IsFiniteSet(I) /\ e \in I
  BY LinkAssumption, FS_Subset DEF Into
<1>2. ~(Cardinality(I) > 1)
  BY <1>1 DEF Needed
<1>3. Cardinality(I) \in Nat /\ Cardinality(I) # 0
  BY <1>1, FS_CardinalityType, FS_EmptySet
<1>4. Cardinality(I) = 1
  BY <1>2, <1>3
<1>. QED BY <1>1, <1>4, FS_Singleton

-----------------------------------------------------------------------------
\* At the start nothing was sent and nothing was executed.
LEMMA IsoStart == IsoInit => IsoInv
BY DEF IsoInit, IsoInv, IsoTypeOK, ControlType, FlowType, BoxOK, StoreOK, RunsDoNotMix, NoParts

\* Steps that send nothing, file nothing and execute nothing.
LEMMA QuietSteps ==
  ASSUME IsoInv, UNCHANGED <<box, store, ran>>
  PROVE  FlowType' /\ BoxOK' /\ StoreOK' /\ RunsDoNotMix'
BY DEF IsoInv, IsoTypeOK, FlowType, BoxOK, StoreOK, RunsDoNotMix

\* What holds of the runs holds after a task that has its inputs is executed.
LEMMA Executed ==
  ASSUME RunsDoNotMix, NEW r \in Run, NEW t \in Step, ran' = ran \cup {<<r, t>>},
         \A x \in Into(t) : <<r, x[1]>> \in ran
  PROVE  RunsDoNotMix'
<1>. SUFFICES ASSUME NEW w \in ran', NEW x \in Into(w[2])
              PROVE  <<w[1], x[1]>> \in ran'
  BY DEF RunsDoNotMix
<1>1. CASE w \in ran
  BY <1>1 DEF RunsDoNotMix
<1>2. CASE w = <<r, t>>
  BY <1>2
<1>. QED BY <1>1, <1>2

\* The queues stay sound when only an executed task adds messages, on its edges.
LEMMA Sent ==
  ASSUME BoxOK, ran \subseteq ran', NEW r \in Run, NEW t \in Step, <<r, t>> \in ran',
         \A q \in Queue : \A c \in box'[q] : c \in box[q] \/ (c = <<t, r>> /\ q[1][1] = t)
  PROVE  BoxOK'
<1>. SUFFICES ASSUME NEW q \in Queue, NEW c \in box'[q]
              PROVE  c[1] \in {q[1][1], Dispatcher} /\ <<c[2], q[1][1]>> \in ran'
  BY DEF BoxOK
<1>1. CASE c \in box[q]
  BY <1>1 DEF BoxOK
<1>2. CASE c = <<t, r>> /\ q[1][1] = t
  BY <1>2
<1>. QED BY <1>1, <1>2

\* Seeding, triggers and declarations only concern the control state.
LEMMA ControlSteps ==
  ASSUME IsoInv, NEW r \in Run,
         \/ Launch(r) \/ LaunchFails(r)
         \/ \E s \in Service, kind \in Trigger :
              OnPipelineEvent(s, kind, r) \/ EnsureRunTopology(s, kind, r)
  PROVE  IsoInv'
<1>. USE DEF IsoInv, IsoTypeOK
<1>1. CASE Launch(r)
  <2>1. ControlType'
    BY <1>1 DEF Launch, ControlType, Trigger
  <2>. QED BY <1>1, <2>1, QuietSteps DEF Launch
<1>2. CASE LaunchFails(r)
  <2>1. ControlType'
    BY <1>2 DEF LaunchFails, ControlType
  <2>. QED BY <1>2, <2>1, QuietSteps DEF LaunchFails
<1>3. ASSUME NEW s \in Service, NEW kind \in Trigger, OnPipelineEvent(s, kind, r) PROVE IsoInv'
  <2>1. ControlType'
    BY <1>3 DEF OnPipelineEvent, ControlType
  <2>. QED BY <1>3, <2>1, QuietSteps DEF OnPipelineEvent
<1>4. ASSUME NEW s \in Service, NEW kind \in Trigger, EnsureRunTopology(s, kind, r) PROVE IsoInv'
  <2>1. RunTopology(s, r) \subseteq Queue /\ OwnQueues(s, r) \subseteq Queue
    BY QueueFacts DEF RunTopology, OwnQueues
  <2>2. bound' \subseteq Queue
    BY <1>4, <2>1 DEF EnsureRunTopology
  <2>3. faults' \in Nat
    BY <1>4 DEF EnsureRunTopology, ControlType
  <2>4. ControlType'
    BY <1>4, <2>3 DEF EnsureRunTopology, ControlType
  <2>. QED BY <1>4, <2>2, <2>4, QuietSteps DEF EnsureRunTopology
<1>. QED BY <1>1, <1>2, <1>3, <1>4

\* The entry task is executed and publishes for the run of its trigger.
LEMMA EntryStep ==
  ASSUME IsoInv, EntryIsSource,
         NEW s \in Service, NEW kind \in Trigger, NEW r \in Run, ForwardEntry(s, kind, r)
  PROVE  IsoInv'
<1>. USE DEF IsoInv, IsoTypeOK
<1>0. ControlType' /\ bound' \subseteq Queue
  BY DEF ForwardEntry, ControlType
<1>1. CASE ServiceOf[First] = s
  <2>. DEFINE S == OutOf(First)
  <2>1. ran' = ran \cup {<<r, First>>} /\ box' = Published(box, First, r, S) /\ store' = store
    BY <1>1 DEF ForwardEntry
  <2>2. S \in SUBSET Link /\ First \in Sender /\ (\A e \in S : e[1] = First) /\ First \in Step
    BY LinkAssumption DEF OutOf, Sender
  <2>. HIDE DEF S
  <2>3. box \in [Queue -> SUBSET (Sender \X Run)]
    BY DEF FlowType
  <2>4. /\ box' \in [Queue -> SUBSET (Sender \X Run)]
        /\ \A q \in Queue : \A c \in box'[q] :
             c \in box[q] \/ (c = <<First, r>> /\ \E e \in S : q[1][1] = e[1])
    BY ONLY <2>1, <2>2, <2>3, PublishedFacts, r \in Run
  <2>5. FlowType'
    <3>1. ran' \subseteq Run \X Step
      BY <2>1, <2>2 DEF FlowType
    <3>2. box' \in [Queue -> SUBSET (Sender \X Run)]
      BY <2>4
    <3>. QED BY <2>1, <3>1, <3>2 DEF FlowType
  <2>6. BoxOK'
    BY <2>1, <2>2, <2>4, Sent
  <2>7. StoreOK'
    BY <2>1 DEF StoreOK
  <2>8. RunsDoNotMix'
    BY <2>1, <2>2, Executed DEF EntryIsSource
  <2>. QED BY <1>0, <2>5, <2>6, <2>7, <2>8
<1>2. CASE ServiceOf[First] # s
  <2>1. UNCHANGED <<box, store, ran>>
    BY <1>2 DEF ForwardEntry
  <2>. QED BY <1>0, <2>1, QuietSteps
<1>. QED BY <1>1, <1>2

\* A consumer files the part under the run the message names; what it executes
\* has all its parts, each from that run.
LEMMA ConsumeStep ==
  ASSUME IsoInv, NEW e \in Link, NEW m \in Run, NEW from \in Sender, NEW r \in Run,
         Consume(e, m, from, r)
  PROVE  IsoInv'
<1>. DEFINE t == e[2]
            s == ServiceOf[t]
            q == QueueFor(e, m)
            parts == store[s][m][<<r, t>>] \cup {from}
            ready == Needed(t) \subseteq parts
            flushed == IF ready /\ Needed(t) # {} THEN {} ELSE parts
            left == [box EXCEPT ![q] = @ \ {<<from, r>>}]
            S == OutOf(t)
<1>. USE DEF IsoInv, IsoTypeOK
<1>1. /\ t \in Step /\ e[1] \in Step /\ s \in Service /\ q \in Queue /\ q[1] = e
      /\ S \in SUBSET Link /\ t \in Sender /\ (\A x \in S : x[1] = t)
  BY QueueFacts, ServiceAssumption DEF OutOf, Sender
<1>2. /\ <<from, r>> \in box[q]
      /\ store' = [store EXCEPT ![s][m][<<r, t>>] = flushed]
      /\ box' = IF ready THEN Published(left, t, r, S) ELSE left
      /\ ran' = IF ready THEN ran \cup {<<r, t>>} ELSE ran
      /\ UNCHANGED <<launched, inbox, boot, known, live, bound, faults, dispatches>>
  BY DEF Consume, PartsOf
<1>3. /\ left \in [Queue -> SUBSET (Sender \X Run)] /\ \A x \in Queue : left[x] \subseteq box[x]
      /\ parts \subseteq Sender /\ flushed \subseteq parts
  BY <1>1 DEF FlowType
<1>4. from \in {e[1], Dispatcher} /\ <<r, e[1]>> \in ran
  BY <1>1, <1>2 DEF BoxOK
<1>5. \A part \in parts : part # Dispatcher => <<r, part>> \in ran
  BY <1>1, <1>4 DEF StoreOK
<1>6. ASSUME ready PROVE \A x \in Into(t) : <<r, x[1]>> \in ran
  <2>1. CASE Needed(t) = {}
    BY <2>1, <1>4, SingleInput
  <2>2. CASE Needed(t) # {}
    <3>1. \A x \in Into(t) : x[1] \in Needed(t) /\ x[1] # Dispatcher
      BY <2>2, DispatcherAssumption, QueueFacts DEF Needed, Into
    <3>. QED BY <3>1, <1>5, <1>6
  <2>. QED BY <2>1, <2>2
<1>. HIDE DEF t, s, q, ready, left, S, flushed
<1>7. FlowType'
  <2>1. box' \in [Queue -> SUBSET (Sender \X Run)]
    BY <1>1, <1>2, <1>3, PublishedFacts
  <2>2. store' \in [Service -> [Run -> [Run \X Step -> SUBSET Sender]]]
    BY <1>1, <1>2, <1>3 DEF FlowType
  <2>3. ran' \subseteq Run \X Step
    BY <1>1, <1>2 DEF FlowType
  <2>. QED BY <2>1, <2>2, <2>3 DEF FlowType
<1>8. IsoTypeOK'
  BY <1>2, <1>7 DEF ControlType
<1>9. BoxOK'
  <2>1. \A x \in Queue : \A c \in box'[x] : c \in box[x] \/ (ready /\ c = <<t, r>> /\ x[1][1] = t)
    BY <1>1, <1>2, <1>3, PublishedFacts
  <2>2. CASE ready
    BY <1>1, <1>2, <2>1, <2>2, Sent
  <2>3. CASE ~ready
    BY <1>2, <2>1, <2>3 DEF BoxOK
  <2>. QED BY <2>2, <2>3
<1>10. StoreOK'
  <2>1. \A s0 \in Service, m0 \in Run, r0 \in Run, t0 \in Step :
          \/ store'[s0][m0][<<r0, t0>>] = store[s0][m0][<<r0, t0>>]
          \/ r0 = r /\ store'[s0][m0][<<r0, t0>>] = flushed
    <3>. SUFFICES ASSUME NEW s0 \in Service, NEW m0 \in Run, NEW r0 \in Run, NEW t0 \in Step
                  PROVE  \/ store'[s0][m0][<<r0, t0>>] = store[s0][m0][<<r0, t0>>]
                         \/ r0 = r /\ store'[s0][m0][<<r0, t0>>] = flushed
      OBVIOUS
    <3>1. CASE s0 = s /\ m0 = m /\ <<r0, t0>> = <<r, t>>
      BY <1>1, <1>2, <3>1 DEF FlowType
    <3>2. CASE ~(s0 = s /\ m0 = m /\ <<r0, t0>> = <<r, t>>)
      BY <1>1, <1>2, <3>2 DEF FlowType
    <3>. QED BY <3>1, <3>2
  <2>2. ran \subseteq ran'
    BY <1>2
  <2>. QED BY <1>3, <1>5, <2>1, <2>2 DEF StoreOK
<1>11. RunsDoNotMix'
  <2>1. CASE ready
    BY <1>1, <1>2, <1>6, <2>1, Executed
  <2>2. CASE ~ready
    BY <1>2, <2>2 DEF RunsDoNotMix
  <2>. QED BY <2>1, <2>2
<1>. QED BY <1>8, <1>9, <1>10, <1>11

\* A task is dispatched again only where it was executed, hence after the tasks
\* it depends on; its siblings receive nothing they may not receive.
LEMMA DispatchStep ==
  ASSUME IsoInv, NEW r \in Run, NEW t \in Step, DispatchTask(r, t)
  PROVE  IsoInv'
<1>. USE DEF IsoInv, IsoTypeOK
<1>1. /\ <<r, t>> \in ran /\ box' = Published(box, Dispatcher, r, Into(t))
      /\ UNCHANGED <<store, ran>>
  BY DEF DispatchTask
<1>2. Into(t) \in SUBSET Link /\ Dispatcher \in Sender /\ (\A e \in Into(t) : <<r, e[1]>> \in ran)
  BY <1>1 DEF Into, Sender, RunsDoNotMix
<1>3. ControlType' /\ bound' \subseteq Queue
  BY DEF DispatchTask, ControlType
<1>4. /\ box' \in [Queue -> SUBSET (Sender \X Run)]
      /\ \A q \in Queue : \A c \in box'[q] :
           c \in box[q] \/ (c = <<Dispatcher, r>> /\ \E e \in Into(t) : q[1][1] = e[1])
  BY <1>1, <1>2, PublishedFacts DEF FlowType
<1>5. FlowType'
  BY <1>1, <1>4 DEF FlowType
<1>6. BoxOK'
  <2>. SUFFICES ASSUME NEW q \in Queue, NEW c \in box'[q]
                PROVE  c[1] \in {q[1][1], Dispatcher} /\ <<c[2], q[1][1]>> \in ran
    BY <1>1 DEF BoxOK
  <2>1. CASE c \in box[q]
    BY <2>1 DEF BoxOK
  <2>2. CASE c = <<Dispatcher, r>> /\ \E e \in Into(t) : q[1][1] = e[1]
    BY <2>2, <1>2
  <2>. QED BY <1>4, <2>1, <2>2
<1>7. StoreOK' /\ RunsDoNotMix'
  BY <1>1 DEF StoreOK, RunsDoNotMix
<1>. QED BY <1>3, <1>5, <1>6, <1>7

\* A crash empties stores and queues; nothing is sent or executed.
LEMMA CrashStep ==
  ASSUME IsoInv, NEW s \in Service, AgentCrash(s)
  PROVE  IsoInv'
<1>. USE DEF IsoInv, IsoTypeOK
<1>1. /\ bound' \subseteq bound /\ ran' = ran
      /\ store' = [store EXCEPT ![s] = [m \in Run |-> NoParts]]
  BY DEF AgentCrash
<1>2. box' \in [Queue -> SUBSET (Sender \X Run)] /\ \A q \in Queue : box'[q] \subseteq box[q]
  BY DEF AgentCrash, FlowType
<1>3. FlowType'
  BY <1>1, <1>2 DEF FlowType, NoParts
<1>4. ControlType'
  <2>1. inbox' \in [Service -> SUBSET (Trigger \X Run)]
    BY DEF AgentCrash, ControlType
  <2>. QED BY <2>1 DEF AgentCrash, ControlType
<1>5. StoreOK'
  <2>1. \A s0 \in Service, m0 \in Run, k \in Run \X Step :
          store'[s0][m0][k] \subseteq store[s0][m0][k]
    BY <1>1 DEF NoParts, FlowType
  <2>. QED BY <1>1, <2>1 DEF StoreOK
<1>6. BoxOK' /\ RunsDoNotMix'
  BY <1>1, <1>2 DEF BoxOK, RunsDoNotMix
<1>. QED BY <1>1, <1>3, <1>4, <1>5, <1>6

-----------------------------------------------------------------------------
\* Every step keeps the invariant.
LEMMA IsoStep ==
  ASSUME EntryIsSource, IsoInv, [IsoNext]_isoVars
  PROVE  IsoInv'
<1>1. CASE UNCHANGED isoVars
  BY <1>1 DEF isoVars, IsoInv, IsoTypeOK, ControlType, FlowType, BoxOK, StoreOK, RunsDoNotMix
<1>2. CASE Progress
  BY <1>2, ControlSteps, EntryStep, ConsumeStep DEF Progress, Trigger
<1>3. CASE \E r \in Run : LaunchFails(r)
  BY <1>3, ControlSteps
<1>4. CASE \E r \in Run, t \in Step : DispatchTask(r, t)
  BY <1>4, DispatchStep
<1>5. CASE \E s \in Service : AgentCrash(s)
  BY <1>5, CrashStep
<1>. QED BY <1>1, <1>2, <1>3, <1>4, <1>5 DEF IsoNext

\* Runs of one pipeline that share agents and exchanges do not mix, for every
\* graph, any number of runs, both naming modes, and whatever crashes, failed
\* declarations and repeated dispatches: a task is executed in a run only after
\* every task it depends on was executed in that run (ConsumerManager's fan-in
\* store, the exchanges of the parser, handle_dispatch_task).
THEOREM RunsStayApart ==
  ASSUME EntryIsSource
  PROVE  IsoSpec => []RunsDoNotMix
<1>1. IsoInv => RunsDoNotMix
  BY DEF IsoInv
<1>. QED BY EntryIsSource, IsoStart, IsoStep, <1>1, PTL DEF IsoSpec
-----------------------------------------------------------------------------
(***************************************************************************)
(* Nothing is lost.  NothingLost speaks of states in which nothing is left *)
(* to do.  That a task was executed says nothing of its messages: they may *)
(* have been published before the run's queues existed, by an agent that   *)
(* was told of the run twice, or by the manager of another run.  So the    *)
(* invariant says that there are executions P whose messages are all       *)
(* accounted for in the queues and stores of the run itself, and that the  *)
(* entry task is among them or still has a trigger on its way.             *)
(*                                                                         *)
(* The hypotheses are those of a pipeline without cycles whose only task   *)
(* without dependencies is the entry task, and per-run queues: a bare      *)
(* queue does not exist before the first agent binds it, and a message     *)
(* that is published earlier is gone.                                      *)
(***************************************************************************)

\* Some task of every set of tasks waits for no other task of the set.
Acyclic == \A D \in SUBSET Step : D # {} => \E t \in D : \A e \in Into(t) : e[1] \notin D

\* Only the entry task waits for nothing.
OneEntry == \A t \in Step : Into(t) = {} => t = First

\* Agent s is declaring the queues of run r.
Declaring(s, r) == \E kind \in Trigger : <<kind, r, "topology">> \in boot[s]

\* Every agent hears of a launched run, and whoever has heard of it declares
\* its queues before it consumes.
Told ==
  \A r \in Run, s \in Service :
    /\ r \in launched => r \in known[s] \/ <<"started", r>> \in inbox[s]
    /\ r \in known[s] => r \in live[s] \/ Declaring(s, r)
    /\ r \in live[s] => \A e \in Link : <<e, r>> \in bound

\* The entry task of run r is about to be executed, with its queues in place.
EntryDue(s, r) ==
  \/ <<"started", r>> \in inbox[s]
  \/ Declaring(s, r)
  \/ r \in live[s] /\ \E kind \in Trigger : <<kind, r, "entry">> \in boot[s]

\* The parts of a task that wait in the store of its run.
OwnParts(r, t) == store[ServiceOf[t]][r][<<r, t>>]

\* What the executions P sent waits in the queue of the run, is a part of a
\* bundle there, or started an execution of P.
OnItsWay(P) ==
  \A r \in Run, e \in Link :
    <<r, e[1]>> \in P => \/ <<e[1], r>> \in box[<<e, r>>]
                         \/ e[1] \in OwnParts(r, e[2])
                         \/ <<r, e[2]>> \in P

\* No complete bundle waits, unless its task is one of P.
NoneIdle(P) ==
  \A r \in Run, t \in Step :
    OwnParts(r, t) # {} /\ Needed(t) \subseteq OwnParts(r, t) => <<r, t>> \in P

\* Every launched run has its entry among P, or will.
Seeded(P) == \A r \in launched : <<r, First>> \in P \/ EntryDue(ServiceOf[First], r)

Accounted(P) == P \subseteq ran /\ OnItsWay(P) /\ NoneIdle(P) /\ Seeded(P)

LostInv == faults = 0 => Told /\ \E P \in SUBSET (Run \X Step) : Accounted(P)

-----------------------------------------------------------------------------
\* In such a pipeline the entry task depends on nothing.
LEMMA TheEntryIsASource ==
  ASSUME Acyclic, OneEntry
  PROVE  EntryIsSource
<1>1. PICK t \in Step : \A e \in Into(t) : e[1] \notin Step
  BY LinkAssumption DEF Acyclic
<1>2. Into(t) = {}
  BY <1>1, QueueFacts, LinkAssumption DEF Into
<1>. QED BY <1>2 DEF OneEntry, EntryIsSource

\* Tasks that include the entry and, with all dependencies of a task, the task,
\* are all tasks.
LEMMA AllTasks ==
  ASSUME Acyclic, OneEntry, NEW D \in SUBSET Step, First \in D,
         \A t \in Step : Into(t) # {} /\ (\A e \in Into(t) : e[1] \in D) => t \in D
  PROVE  D = Step
<1>. SUFFICES ASSUME D # Step PROVE FALSE
  OBVIOUS
<1>1. PICK t \in Step \ D : \A e \in Into(t) : e[1] \notin Step \ D
  BY DEF Acyclic
<1>2. \A e \in Into(t) : e[1] \in D
  BY <1>1, LinkAssumption DEF Into
<1>. QED BY <1>1, <1>2 DEF OneEntry

\* With per-run queues in place, a message published for an edge reaches the
\* queue of its run, through either kind of exchange.
LEMMA ReachesItsRun ==
  ASSUME Suffix, NEW e \in Link, NEW r \in Run, <<e, r>> \in bound
  PROVE  <<e, r>> \in Routed(e, r)
BY DEF Routed, QueueFor, OutOf

\* Publishing takes no message away, and puts one in every bound queue of the run.
LEMMA PublishedKeeps ==
  ASSUME NEW queues \in [Queue -> SUBSET (Sender \X Run)], NEW from \in Sender, NEW r \in Run,
         NEW S \in SUBSET Link
  PROVE  /\ \A q \in Queue : queues[q] \subseteq Published(queues, from, r, S)[q]
         /\ \A e \in S : Suffix /\ <<e, r>> \in bound =>
              <<from, r>> \in Published(queues, from, r, S)[<<e, r>>]
BY ReachesItsRun, QueueFacts DEF Published

-----------------------------------------------------------------------------
\* A step that takes no message and files nothing keeps every account; only
\* the triggers of the entries have to be followed.
LEMMA AccountKept ==
  ASSUME NEW P, Accounted(P), ran \subseteq ran', UNCHANGED store,
         \A r \in Run, e \in Link : box[<<e, r>>] \subseteq box'[<<e, r>>],
         Seeded(P)'
  PROVE  Accounted(P)'
BY DEF Accounted, OnItsWay, NoneIdle, OwnParts

\* A step that forgets no trigger keeps what is due.
LEMMA DueKept ==
  ASSUME NEW s \in Service, NEW r \in Run, EntryDue(s, r),
         inbox[s] \subseteq inbox'[s], boot[s] \subseteq boot'[s], live[s] \subseteq live'[s]
  PROVE  EntryDue(s, r)'
BY DEF EntryDue, Declaring

\* Launching tells every agent.
LEMMA LaunchTells ==
  ASSUME IsoTypeOK, Told, NEW P, Seeded(P), NEW r \in Run, Launch(r)
  PROVE  Told' /\ Seeded(P)'
<1>1. /\ launched' = launched \cup {r} /\ UNCHANGED <<boot, known, live, bound>>
      /\ \A s \in Service : inbox[s] \subseteq inbox'[s] /\ <<"started", r>> \in inbox'[s]
  BY DEF Launch, IsoTypeOK, ControlType
<1>2. Told'
  BY <1>1 DEF Told, Declaring
<1>3. Seeded(P)'
  BY <1>1, ServiceAssumption, LinkAssumption DEF Seeded, EntryDue, Declaring
<1>. QED BY <1>2, <1>3

\* An agent that hears of a run for the first time begins to declare its
\* queues, otherwise it has begun already.
LEMMA EventTells ==
  ASSUME IsoTypeOK, Told, NEW P, Seeded(P), NEW r \in Run, NEW s \in Service, NEW kind \in Trigger,
         OnPipelineEvent(s, kind, r)
  PROVE  Told' /\ Seeded(P)'
<1>1. /\ inbox' = [inbox EXCEPT ![s] = @ \ {<<kind, r>>}]
      /\ boot' = [boot EXCEPT ![s] = @ \cup {<<kind, r, IF r \in known[s] THEN "entry" ELSE "topology">>}]
      /\ known' = [known EXCEPT ![s] = @ \cup {r}]
      /\ UNCHANGED <<launched, live, bound>>
  BY DEF OnPipelineEvent
<1>2. /\ \A s0 \in Service : boot[s0] \subseteq boot'[s0]
      /\ \A s0 \in Service, r0 \in Run :
           <<"started", r0>> \in inbox[s0] => <<"started", r0>> \in inbox'[s0] \/ (s0 = s /\ r0 = r)
      /\ \A s0 \in Service, r0 \in Run : r0 \in known'[s0] => r0 \in known[s0] \/ (s0 = s /\ r0 = r)
      /\ \A s0 \in Service : known[s0] \subseteq known'[s0]
      /\ r \in known'[s]
      /\ r \notin known[s] => <<kind, r, "topology">> \in boot'[s]
      /\ r \in known[s] => <<kind, r, "entry">> \in boot'[s]
  BY <1>1 DEF IsoTypeOK, ControlType
<1>3. \A s0 \in Service, r0 \in Run : Declaring(s0, r0) => Declaring(s0, r0)'
  BY <1>2 DEF Declaring
<1>4. r \in known[s] \/ Declaring(s, r)'
  BY <1>2 DEF Declaring
<1>5. Told'
  BY <1>1, <1>2, <1>3, <1>4 DEF Told
<1>6. EntryDue(s, r)'
  BY <1>1, <1>2, <1>3, <1>4 DEF Told, EntryDue
<1>7. \A s0 \in Service, r0 \in Run : EntryDue(s0, r0) => EntryDue(s0, r0)'
  BY <1>1, <1>2, <1>3, <1>6 DEF EntryDue
<1>8. Seeded(P)'
  BY <1>1, <1>7, ServiceAssumption, LinkAssumption, launched \subseteq Run
  DEF Seeded, IsoTypeOK, ControlType
<1>. QED BY <1>5, <1>8

\* Declarations that all succeed leave the run's queues bound and its manager
\* at work, and then the entry task is looked at.
LEMMA TopologyTells ==
  ASSUME IsoTypeOK, Told, NEW P, Seeded(P), NEW r \in Run, NEW s \in Service, NEW kind \in Trigger,
         EnsureRunTopology(s, kind, r), faults' = 0
  PROVE  Told' /\ Seeded(P)'
<1>1. /\ bound' = bound \cup RunTopology(s, r) \cup OwnQueues(s, r)
      /\ boot' = [boot EXCEPT ![s] = (@ \ {<<kind, r, "topology">>}) \cup {<<kind, r, "entry">>}]
      /\ live' = [live EXCEPT ![s] = @ \cup {r}]
      /\ UNCHANGED <<launched, inbox, known>>
  BY DEF EnsureRunTopology, IsoTypeOK, ControlType
<1>2. /\ \A s0 \in Service, r0 \in Run, k \in Trigger :
           /\ <<k, r0, "topology">> \in boot[s0] =>
                <<k, r0, "topology">> \in boot'[s0] \/ (s0 = s /\ r0 = r)
           /\ <<k, r0, "entry">> \in boot[s0] => <<k, r0, "entry">> \in boot'[s0]
      /\ <<kind, r, "entry">> \in boot'[s]
      /\ r \in live'[s] /\ \A s0 \in Service : live[s0] \subseteq live'[s0]
      /\ \A s0 \in Service, r0 \in Run : r0 \in live'[s0] => r0 \in live[s0] \/ (s0 = s /\ r0 = r)
      /\ bound \subseteq bound' /\ \A e \in Link : <<e, r>> \in bound'
  BY <1>1 DEF IsoTypeOK, ControlType, RunTopology
<1>3. \A s0 \in Service, r0 \in Run : Declaring(s0, r0) => Declaring(s0, r0)' \/ (s0 = s /\ r0 = r)
  BY <1>2 DEF Declaring
<1>4. Told'
  BY <1>1, <1>2, <1>3 DEF Told
<1>5. EntryDue(s, r)'
  BY <1>2 DEF EntryDue
<1>6. \A s0 \in Service, r0 \in Run : EntryDue(s0, r0) => EntryDue(s0, r0)'
  BY <1>1, <1>2, <1>3, <1>5 DEF EntryDue
<1>7. Seeded(P)'
  BY <1>1, <1>6, ServiceAssumption, LinkAssumption, launched \subseteq Run
  DEF Seeded, IsoTypeOK, ControlType
<1>. QED BY <1>4, <1>7

\* The control steps keep the accounts.
LEMMA ControlKeeps ==
  ASSUME IsoTypeOK, LostInv, NEW r \in Run,
         \/ Launch(r) \/ LaunchFails(r)
         \/ \E s \in Service, kind \in Trigger :
              OnPipelineEvent(s, kind, r) \/ EnsureRunTopology(s, kind, r)
  PROVE  LostInv'
<1>. SUFFICES ASSUME faults' = 0
              PROVE  Told' /\ \E P \in SUBSET (Run \X Step) : Accounted(P)'
  BY DEF LostInv
<1>0. UNCHANGED <<box, store, ran>>
  BY DEF Launch, LaunchFails, OnPipelineEvent, EnsureRunTopology
<1>1. faults = 0 /\ ~LaunchFails(r)
  <2>1. faults \in Nat
    BY DEF IsoTypeOK, ControlType
  <2>2. faults' = faults \/ faults' = faults + 1
    BY DEF Launch, LaunchFails, OnPipelineEvent, EnsureRunTopology
  <2>3. LaunchFails(r) => faults' = faults + 1
    BY DEF LaunchFails
  <2>. QED BY <2>1, <2>2, <2>3
<1>2. Told
  BY <1>1 DEF LostInv
<1>3. PICK P \in SUBSET (Run \X Step) : Accounted(P)
  BY <1>1 DEF LostInv
<1>4. Seeded(P)
  BY <1>3 DEF Accounted
<1>5. Told' /\ Seeded(P)'
  BY <1>1, <1>2, <1>4, LaunchTells, EventTells, TopologyTells
<1>6. Accounted(P)'
  BY <1>0, <1>3, <1>5, AccountKept
<1>. QED BY <1>5, <1>6

\* The entry task is executed.  With its queues in place its messages are on
\* their way; without, the agent that is declaring them will execute it again.
LEMMA EntryKeeps ==
  ASSUME Suffix, IsoTypeOK, LostInv,
         NEW s \in Service, NEW kind \in Trigger, NEW r \in Run, ForwardEntry(s, kind, r)
  PROVE  LostInv'
<1>. SUFFICES ASSUME faults' = 0
              PROVE  Told' /\ \E P \in SUBSET (Run \X Step) : Accounted(P)'
  BY DEF LostInv
<1>1. /\ boot' = [boot EXCEPT ![s] = @ \ {<<kind, r, "entry">>}]
      /\ UNCHANGED <<launched, inbox, known, live, bound, store, faults>>
  BY DEF ForwardEntry
<1>2. Told
  BY <1>1 DEF LostInv
<1>3. PICK P \in SUBSET (Run \X Step) : Accounted(P)
  BY <1>1 DEF LostInv
<1>4. \A s0 \in Service, r0 \in Run : Declaring(s0, r0) <=> Declaring(s0, r0)'
  BY <1>1 DEF Declaring, IsoTypeOK, ControlType
<1>5. Told'
  BY <1>1, <1>2, <1>4 DEF Told
<1>6. \A s0 \in Service, r0 \in Run :
        EntryDue(s0, r0) => EntryDue(s0, r0)' \/ (s0 = s /\ r0 = r /\ r \in live[s])
  <2>1. \A s0 \in Service, r0 \in Run, k \in Trigger : <<k, r0, "entry">> \in boot[s0] =>
          <<k, r0, "entry">> \in boot'[s0] \/ (s0 = s /\ r0 = r)
    BY <1>1 DEF IsoTypeOK, ControlType
  <2>. QED BY <1>1, <1>4, <2>1 DEF EntryDue
<1>7. launched \subseteq Run /\ First \in Step /\ ServiceOf[First] \in Service
  BY ServiceAssumption, LinkAssumption DEF IsoTypeOK, ControlType
<1>8. box \in [Queue -> SUBSET (Sender \X Run)] /\ \A e \in Link, r0 \in Run : <<e, r0>> \in Queue
  BY QueueFacts DEF IsoTypeOK, FlowType
<1>9. CASE ServiceOf[First] # s
  <2>1. UNCHANGED <<box, ran>>
    BY <1>9 DEF ForwardEntry
  <2>2. Seeded(P)'
    BY <1>1, <1>3, <1>6, <1>7, <1>9 DEF Accounted, Seeded
  <2>3. Accounted(P)'
    BY <1>1, <1>3, <2>1, <2>2, AccountKept
  <2>. QED BY <1>5, <2>3
<1>10. CASE ServiceOf[First] = s
  <2>. DEFINE S == OutOf(First)
  <2>1. ran' = ran \cup {<<r, First>>} /\ box' = Published(box, First, r, S)
    BY <1>10 DEF ForwardEntry
  <2>2. S \in SUBSET Link /\ First \in Sender /\ \A e \in Link : e[1] = First => e \in S
    BY <1>7 DEF OutOf, Sender
  <2>. HIDE DEF S
  <2>3. /\ \A r0 \in Run, e \in Link : box[<<e, r0>>] \subseteq box'[<<e, r0>>]
        /\ \A e \in S : <<e, r>> \in bound => <<First, r>> \in box'[<<e, r>>]
    BY <1>8, <2>1, <2>2, PublishedKeeps
  <2>4. CASE r \in live[s]
    <3>. DEFINE Q == P \cup {<<r, First>>}
    <3>1. \A e \in S : <<First, r>> \in box'[<<e, r>>]
      BY <1>2, <2>2, <2>3, <2>4 DEF Told
    <3>2. Q \in SUBSET (Run \X Step) /\ Q \subseteq ran'
      BY <1>3, <1>7, <2>1 DEF Accounted
    <3>3. OnItsWay(Q)'
      <4>. SUFFICES ASSUME NEW r0 \in Run, NEW e \in Link, <<r0, e[1]>> \in Q
                    PROVE  \/ <<e[1], r0>> \in box'[<<e, r0>>]
                           \/ e[1] \in OwnParts(r0, e[2])'
                           \/ <<r0, e[2]>> \in Q
        BY DEF OnItsWay
      <4>1. CASE <<r0, e[1]>> \in P
        BY <1>1, <1>3, <2>3, <4>1 DEF Accounted, OnItsWay, OwnParts
      <4>2. CASE r0 = r /\ e[1] = First
        BY <2>2, <3>1, <4>2
      <4>. QED BY <4>1, <4>2
    <3>4. NoneIdle(Q)'
      BY <1>1, <1>3 DEF Accounted, NoneIdle, OwnParts
    <3>5. Seeded(Q)'
      BY <1>1, <1>3, <1>6, <1>7 DEF Accounted, Seeded
    <3>. HIDE DEF Q
    <3>. QED BY <1>5, <3>2, <3>3, <3>4, <3>5 DEF Accounted
  <2>5. CASE r \notin live[s]
    <3>1. Seeded(P)'
      BY <1>1, <1>3, <1>6, <1>7, <2>5 DEF Accounted, Seeded
    <3>2. Accounted(P)'
      BY <1>1, <1>3, <2>1, <2>3, <3>1, AccountKept
    <3>. QED BY <1>5, <3>2
  <2>. QED BY <2>4, <2>5
<1>. QED BY <1>9, <1>10

\* The consumer of another run's queue takes no message of this run's queues;
\* that of this run files the part, or executes the task and publishes to
\* queues that are in place.
LEMMA ConsumeKeeps ==
  ASSUME Suffix, IsoTypeOK, LostInv,
         NEW e \in Link, NEW m \in Run, NEW from \in Sender, NEW r \in Run, Consume(e, m, from, r)
  PROVE  LostInv'
<1>. DEFINE t == e[2]
            s == ServiceOf[t]
            parts == store[s][m][<<r, t>>] \cup {from}
            ready == Needed(t) \subseteq parts
            flushed == IF ready /\ Needed(t) # {} THEN {} ELSE parts
            left == [box EXCEPT ![<<e, m>>] = @ \ {<<from, r>>}]
            S == OutOf(t)
<1>. SUFFICES ASSUME faults' = 0
              PROVE  Told' /\ \E P \in SUBSET (Run \X Step) : Accounted(P)'
  BY DEF LostInv
<1>1. /\ m \in live[s]
      /\ store' = [store EXCEPT ![s][m][<<r, t>>] = flushed]
      /\ box' = IF ready THEN Published(left, t, r, S) ELSE left
      /\ ran' = IF ready THEN ran \cup {<<r, t>>} ELSE ran
      /\ UNCHANGED <<launched, inbox, boot, known, live, bound, faults>>
  BY DEF Consume, PartsOf, QueueFor
<1>2. Told
  BY <1>1 DEF LostInv
<1>3. PICK P \in SUBSET (Run \X Step) : Accounted(P)
  BY <1>1 DEF LostInv
<1>4. Told'
  BY <1>1, <1>2 DEF Told, Declaring
<1>5. /\ t \in Step /\ s \in Service /\ S \in SUBSET Link /\ t \in Sender
      /\ \A x \in Link : x[1] = t => x \in S
      /\ \A x \in Link, r0 \in Run : <<x, r0>> \in Queue /\ x[2] \in Step
  BY QueueFacts, ServiceAssumption DEF OutOf, Sender
<1>6. /\ left \in [Queue -> SUBSET (Sender \X Run)]
      /\ \A x \in Link, r0 \in Run : \A c \in box[<<x, r0>>] :
           c \in left[<<x, r0>>] \/ (x = e /\ r0 = m /\ c = <<from, r>>)
  BY <1>5 DEF IsoTypeOK, FlowType
<1>7. /\ \A x \in Link, r0 \in Run : left[<<x, r0>>] \subseteq box'[<<x, r0>>]
      /\ ready => \A x \in S : <<x, r>> \in bound => <<t, r>> \in box'[<<x, r>>]
  <2>. HIDE DEF left, S, ready, t
  <2>. QED BY <1>1, <1>5, <1>6, PublishedKeeps
<1>8. /\ \A r0 \in Run, t0 \in Step : OwnParts(r0, t0)' =
           IF r0 = r /\ r0 = m /\ t0 = t THEN flushed ELSE OwnParts(r0, t0)
      /\ r = m => parts = OwnParts(r, t) \cup {from}
  <2>1. \A r0 \in Run, t0 \in Step : store'[ServiceOf[t0]][r0][<<r0, t0>>] =
          IF r0 = r /\ r0 = m /\ t0 = t THEN flushed ELSE store[ServiceOf[t0]][r0][<<r0, t0>>]
    <3>. SUFFICES ASSUME NEW r0 \in Run, NEW t0 \in Step
                  PROVE  store'[ServiceOf[t0]][r0][<<r0, t0>>] =
                           IF r0 = r /\ r0 = m /\ t0 = t THEN flushed ELSE store[ServiceOf[t0]][r0][<<r0, t0>>]
      OBVIOUS
    <3>0. ServiceOf[t0] \in Service /\ <<r0, t0>> \in Run \X Step /\ <<r, t>> \in Run \X Step
      BY <1>5, ServiceAssumption
    <3>. HIDE DEF flushed, t, s
    <3>1. CASE r0 = r /\ r0 = m /\ t0 = t
      <4>1. ServiceOf[t0] = s
        BY <3>1 DEF s, t
      <4>. QED BY <1>1, <1>5, <3>0, <3>1, <4>1 DEF IsoTypeOK, FlowType
    <3>2. CASE ~(r0 = r /\ r0 = m /\ t0 = t)
      BY <1>1, <1>5, <3>0, <3>2 DEF IsoTypeOK, FlowType
    <3>. QED BY <3>1, <3>2
  <2>. QED BY <2>1 DEF OwnParts
<1>9. Seeded(P)'
  BY <1>1, <1>3 DEF Accounted, Seeded, EntryDue, Declaring
<1>10. CASE r = m /\ ready
  <2>. DEFINE Q == P \cup {<<r, t>>}
  <2>1. \A x \in Link : x[1] = t => <<t, r>> \in box'[<<x, r>>]
    BY <1>1, <1>2, <1>5, <1>7, <1>10 DEF Told
  <2>2. Q \in SUBSET (Run \X Step) /\ Q \subseteq ran'
    BY <1>1, <1>3, <1>5, <1>10 DEF Accounted
  <2>. HIDE DEF s, ready, left, S, flushed, parts
  <2>3. OnItsWay(Q)'
    <3>. SUFFICES ASSUME NEW r0 \in Run, NEW x \in Link, <<r0, x[1]>> \in Q
                  PROVE  \/ <<x[1], r0>> \in box'[<<x, r0>>]
                         \/ x[1] \in OwnParts(r0, x[2])'
                         \/ <<r0, x[2]>> \in Q
      BY DEF OnItsWay
    <3>1. CASE r0 = r /\ x[1] = t
      BY <2>1, <3>1
    <3>2. CASE <<r0, x[1]>> \in P /\ ~(r0 = r /\ x[2] = t)
      <4>1. \/ <<x[1], r0>> \in box[<<x, r0>>]
            \/ x[1] \in OwnParts(r0, x[2])
            \/ <<r0, x[2]>> \in P
        BY <1>3, <3>2 DEF Accounted, OnItsWay
      <4>2. ASSUME <<x[1], r0>> \in box[<<x, r0>>] PROVE <<x[1], r0>> \in box'[<<x, r0>>]
        BY <1>6, <1>7, <3>2, <4>2
      <4>3. OwnParts(r0, x[2])' = OwnParts(r0, x[2])
        BY <1>5, <1>8, <3>2
      <4>. QED BY <4>1, <4>2, <4>3
    <3>3. CASE r0 = r /\ x[2] = t
      BY <3>3
    <3>. QED BY <3>1, <3>2, <3>3
  <2>4. NoneIdle(Q)'
    <3>. SUFFICES ASSUME NEW r0 \in Run, NEW t0 \in Step, <<r0, t0>> # <<r, t>>,
                         OwnParts(r0, t0)' # {}, Needed(t0) \subseteq OwnParts(r0, t0)'
                  PROVE  <<r0, t0>> \in P
      BY DEF NoneIdle
    <3>1. OwnParts(r0, t0)' = OwnParts(r0, t0)
      BY <1>8
    <3>. QED BY <1>3, <3>1 DEF Accounted, NoneIdle
  <2>5. Seeded(Q)'
    BY <1>9 DEF Seeded
  <2>. HIDE DEF Q
  <2>. QED BY <1>4, <2>2, <2>3, <2>4, <2>5 DEF Accounted
<1>11. CASE ~(r = m /\ ready)
  <2>1. P \subseteq ran'
    BY <1>1, <1>3 DEF Accounted
  <2>2. \A r0 \in Run, t0 \in Step :
          /\ OwnParts(r0, t0) \subseteq OwnParts(r0, t0)'
          /\ \/ OwnParts(r0, t0)' = OwnParts(r0, t0)
             \/ r0 = r /\ t0 = t /\ ~(Needed(t0) \subseteq OwnParts(r0, t0)')
    BY <1>8, <1>11
  <2>3. r = m => from \in OwnParts(r, t)'
    BY <1>5, <1>8, <1>11
  <2>. HIDE DEF s, ready, left, S, flushed, parts
  <2>4. OnItsWay(P)'
    <3>. SUFFICES ASSUME NEW r0 \in Run, NEW x \in Link, <<r0, x[1]>> \in P
                  PROVE  \/ <<x[1], r0>> \in box'[<<x, r0>>]
                         \/ x[1] \in OwnParts(r0, x[2])'
                         \/ <<r0, x[2]>> \in P
      BY DEF OnItsWay
    <3>1. \/ <<x[1], r0>> \in box[<<x, r0>>]
          \/ x[1] \in OwnParts(r0, x[2])
          \/ <<r0, x[2]>> \in P
      BY <1>3 DEF Accounted, OnItsWay
    <3>2. CASE <<x[1], r0>> \in box[<<x, r0>>]
      BY <1>6, <1>7, <2>3, <3>2
    <3>3. CASE x[1] \in OwnParts(r0, x[2])
      BY <1>5, <2>2, <3>3
    <3>. QED BY <3>1, <3>2, <3>3
  <2>5. NoneIdle(P)'
    BY <1>3, <2>2 DEF Accounted, NoneIdle
  <2>. QED BY <1>4, <1>9, <2>1, <2>4, <2>5 DEF Accounted
<1>. QED BY <1>10, <1>11

\* Dispatching a task again only adds messages; a crash is a fault.
LEMMA OthersKeep ==
  ASSUME IsoTypeOK, LostInv,
         \/ \E r \in Run, t \in Step : DispatchTask(r, t)
         \/ \E s \in Service : AgentCrash(s)
  PROVE  LostInv'
<1>. SUFFICES ASSUME faults' = 0
              PROVE  Told' /\ \E P \in SUBSET (Run \X Step) : Accounted(P)'
  BY DEF LostInv
<1>1. PICK r \in Run, t \in Step : DispatchTask(r, t)
  BY DEF AgentCrash, IsoTypeOK, ControlType
<1>2. /\ box' = Published(box, Dispatcher, r, Into(t))
      /\ UNCHANGED <<launched, inbox, boot, known, live, bound, store, ran, faults>>
  BY <1>1 DEF DispatchTask
<1>3. PICK P \in SUBSET (Run \X Step) : Accounted(P)
  BY <1>2 DEF LostInv
<1>4. \A r0 \in Run, e \in Link : box[<<e, r0>>] \subseteq box'[<<e, r0>>]
  <2>1. Into(t) \in SUBSET Link /\ Dispatcher \in Sender /\ box \in [Queue -> SUBSET (Sender \X Run)]
    BY DEF Into, Sender, IsoTypeOK, FlowType
  <2>. QED BY <1>2, <2>1, PublishedKeeps, QueueFacts
<1>5. Seeded(P)'
  BY <1>2, <1>3 DEF Accounted, Seeded, EntryDue, Declaring
<1>6. Accounted(P)'
  BY <1>2, <1>3, <1>4, <1>5, AccountKept
<1>7. Told'
  BY <1>2 DEF LostInv, Told, Declaring
<1>. QED BY <1>6, <1>7

\* Every step keeps the accounts.
LEMMA LostStep ==
  ASSUME Suffix, IsoTypeOK, LostInv, [IsoNext]_isoVars
  PROVE  LostInv'
<1>1. CASE UNCHANGED isoVars
  BY <1>1 DEF isoVars, LostInv, Told, Declaring, Accounted, OnItsWay, NoneIdle, OwnParts, Seeded,
              EntryDue
<1>2. CASE Progress
  BY <1>2, ControlKeeps, EntryKeeps, ConsumeKeeps DEF Progress, Trigger
<1>3. CASE \E r \in Run : LaunchFails(r)
  BY <1>3, ControlKeeps
<1>4. CASE (\E r \in Run, t \in Step : DispatchTask(r, t)) \/ \E s \in Service : AgentCrash(s)
  BY <1>4, OthersKeep
<1>. QED BY <1>1, <1>2, <1>3, <1>4 DEF IsoNext

\* At the start nothing is known of any run.
LEMMA LostStart == IsoInit => LostInv
<1>. SUFFICES ASSUME IsoInit PROVE Told /\ Accounted({})
  BY DEF LostInv
<1>1. Told
  BY DEF IsoInit, Told
<1>2. \A r \in Run, t \in Step : OwnParts(r, t) = {}
  BY ServiceAssumption DEF IsoInit, OwnParts, NoParts
<1>3. Accounted({})
  BY <1>2 DEF IsoInit, Accounted, OnItsWay, NoneIdle, Seeded
<1>. QED BY <1>1, <1>3

\* When nothing is left to do, the executions that are accounted for are all
\* tasks of every launched run.
LEMMA QuietMeansDone ==
  ASSUME Acyclic, OneEntry, Suffix, IsoTypeOK, LostInv
  PROVE  NothingLost
<1>. SUFFICES ASSUME Quiet, faults = 0, NEW r \in launched
              PROVE  {<<r, t>> : t \in Step} \subseteq ran
  BY DEF NothingLost
<1>1. PICK P \in SUBSET (Run \X Step) : Accounted(P)
  BY DEF LostInv
<1>2. r \in Run /\ \A s \in Service : r \in live[s]
  BY DEF LostInv, Told, Declaring, Quiet, IsoTypeOK, ControlType
<1>3. \A e \in Link : box[<<e, r>>] = {}
  BY <1>2, QueueFacts, ServiceAssumption DEF Quiet, QueueFor
<1>4. <<r, First>> \in P
  BY <1>1, ServiceAssumption, LinkAssumption DEF Accounted, Seeded, EntryDue, Declaring, Quiet
<1>. DEFINE D == {t \in Step : <<r, t>> \in P}
<1>5. ASSUME NEW t \in Step, Into(t) # {}, \A e \in Into(t) : e[1] \in D
      PROVE  t \in D
  <2>. SUFFICES ASSUME t \notin D PROVE FALSE
    OBVIOUS
  <2>1. \A e \in Into(t) : e[1] \in OwnParts(r, t)
    BY <1>1, <1>2, <1>3, <1>5 DEF Accounted, OnItsWay, Into
  <2>2. OwnParts(r, t) # {} /\ Needed(t) \subseteq OwnParts(r, t)
    BY <1>5, <2>1 DEF Needed
  <2>. QED BY <1>1, <1>2, <2>2 DEF Accounted, NoneIdle
<1>6. First \in D
  BY <1>4, LinkAssumption
<1>7. D = Step
  <2>. HIDE DEF D
  <2>1. D \in SUBSET Step
    BY DEF D
  <2>. QED BY <1>5, <1>6, <2>1, AllTasks
<1>. QED BY <1>1, <1>7 DEF Accounted

\* With per-run queues nothing is lost, for every pipeline without cycles whose
\* only source is its entry, any number of runs and agents, and whatever is
\* dispatched again: once every trigger and every message has been handled, and
\* unless a declaration failed or an agent crashed, every launched run has been
\* executed to its last task, in whatever order the agents heard of it
\* (Runner.launch, _ensure_run_topology, the forwarder's entry and the
\* ConsumerManager's fan-in store).
THEOREM QuietRunsAreDone ==
  ASSUME Acyclic, OneEntry, Suffix
  PROVE  IsoSpec => []NothingLost
<1>1. EntryIsSource
  BY TheEntryIsASource
<1>2. IsoInit => IsoInv /\ LostInv
  BY IsoStart, LostStart
<1>3. IsoInv /\ LostInv /\ [IsoNext]_isoVars => IsoInv' /\ LostInv'
  BY <1>1, IsoStep, LostStep DEF IsoInv
<1>4. IsoInv /\ LostInv => NothingLost
  BY QuietMeansDone DEF IsoInv
<1>. QED BY <1>2, <1>3, <1>4, PTL DEF IsoSpec
=============================================================================
