--------------------------- MODULE AgentRegistry ---------------------------
(***************************************************************************)
(* One agent and its entry in the registry: the client that runs inside    *)
(* the agent (registration, heartbeat loop, task accounting, shutdown),    *)
(* the store behind the API, whose heartbeat reads the document and writes *)
(* it back, and the services that write contract-net metadata through the  *)
(* same heartbeat: the graph builder, the reassignment consumer and the    *)
(* pheromone engine.                                                        *)
(*                                                                         *)
(* Entries of different agents do not touch. Replicas of the API and the   *)
(* services race on the document. Ages are counted in freshness steps.     *)
(***************************************************************************)
EXTENDS Integers, FiniteSets, Sequences, FiniteSetsExt, TLC

CONSTANTS
  Slots,              \* the coroutines that run tasks, some at the same time
  Loaders,            \* services that write contract-net metadata
  FailureThreshold,   \* AGENT_REGISTRY_FAILURE_THRESHOLD
  MaxLoad,            \* CNP_LMAX_DEFAULT
  WarnAge, StaleAge, OfflineAge,  \* AGENT_REGISTRY_FRESHNESS_*_SECONDS
  MaxRegEvents        \* bound: tasks, awards, reports, faults and expiries

ASSUME RegAssumption ==
  /\ IsFiniteSet(Slots) /\ "loop" \notin Slots /\ "stop" \notin Slots
  /\ {FailureThreshold, MaxLoad} \subseteq Nat \ {0}
  /\ {WarnAge, StaleAge, OfflineAge, MaxRegEvents} \subseteq Nat
  /\ WarnAge <= StaleAge /\ StaleAge <= OfflineAge

VARIABLES
  entry,     \* the document of the agent, or NoEntry
  client,    \* [phase, status, busy, fails] of AgentRegistryClient
  calls,     \* calls[c]: the heartbeat that coroutine c is making
  tasks,     \* tasks[s]: "none", "running", "done", or "cut" when cancelled
  loader,    \* loader[l]: what service l has read of the entry
  regEvents  \* events so far

regVars == <<entry, client, calls, tasks, loader, regEvents>>

Coroutines == Slots \cup {"loop", "stop"}
NoEntry == [status |-> "none"]
NoCall == [pc |-> "idle"]
Keep == -99   \* a metadata key that the call does not name
Alive == client.phase = "up"
RegEvent == regEvents < MaxRegEvents /\ regEvents' = regEvents + 1

-----------------------------------------------------------------------------
(* What readers make of an entry: agent_registry_policy.                    *)

FreshnessState(age) ==
  CASE OfflineAge > 0 /\ age >= OfflineAge -> "offline"
    [] StaleAge > 0 /\ age >= StaleAge /\ ~(OfflineAge > 0 /\ age >= OfflineAge) -> "stale"
    [] WarnAge > 0 /\ age >= WarnAge /\ ~(StaleAge > 0 /\ age >= StaleAge) -> "warn"
    [] OTHER -> "fresh"

FreshnessScore(age) ==
  IF StaleAge = 0 THEN 100 ELSE Max({0, 100 - (100 * age) \div StaleAge})

(* The status and the freshness that readers of the document see.           *)
Evaluated(d) ==
  LET state == FreshnessState(d.age)
  IN [d EXCEPT !.status = IF state = "offline" THEN "offline" ELSE @]
     @@ [stale |-> state \in {"stale", "offline"}, score |-> FreshnessScore(d.age)]

(* AgentRegistryStore.list: entries that are stale are left out, the others *)
(* are matched by their effective status.                                   *)
Listed(d, statuses) ==
  d # NoEntry /\ ~Evaluated(d).stale /\ Evaluated(d).status \in statuses

(* How many usable agents offer a capability, and how near that is to the   *)
(* target: the least covered of an agent's capabilities decides.            *)
CoverageCounts(docs, offers, caps) ==
  [c \in caps |-> Cardinality({i \in DOMAIN docs :
                     c \in offers[i] /\ Listed(docs[i], {"online", "idle", "busy"})})]

CoverageScore(counts, target) ==
  IF DOMAIN counts = {} THEN 0
  ELSE Min({100, (100 * Min({counts[c] : c \in DOMAIN counts})) \div target})

-----------------------------------------------------------------------------
(* The store.                                                               *)

(* upsert replaces the whole document: nothing of the old metadata is kept. *)
Upserted(status) ==
  [status |-> status, ttl |-> TRUE, age |-> 0, busy |-> 0, load |-> 0]

(* What heartbeat makes of the document it has read; it is written later.   *)
(* The metadata of the call replaces the keys it names; a positive time to  *)
(* live (the default too) sets the expiry, zero removes it.                 *)
Beaten(d, call) ==
  [d EXCEPT !.status = IF call.status = "keep" THEN @ ELSE call.status,
            !.ttl = call.ttl, !.age = 0,
            !.busy = IF call.busy = Keep THEN @ ELSE call.busy,
            !.load = IF call.load = Keep THEN @ ELSE call.load]

-----------------------------------------------------------------------------
(* The client.                                                              *)

Call(status, busy, ttl) ==
  [pc |-> "post", status |-> status, ttl |-> ttl, busy |-> busy, load |-> Keep]

(* heartbeat: the payload is put together when the call is made.            *)
Heartbeat(c, status, busy, ttl) ==
  /\ client' = [client EXCEPT !.status = status, !.busy = busy]
  /\ calls' = [calls EXCEPT ![c] = Call(status, busy, ttl)]

(* The agent starts: register, then the heartbeat loop.                     *)
Register ==
  /\ client.phase = "off"
  /\ client' = [client EXCEPT !.phase = "up"]
  /\ \/ entry' = Upserted("idle") /\ UNCHANGED regEvents
     \/ UNCHANGED entry /\ RegEvent
  /\ UNCHANGED <<calls, tasks, loader>>

HeartbeatLoop ==
  /\ Alive /\ calls["loop"] = NoCall
  /\ Heartbeat("loop", client.status, client.busy, TRUE)
  /\ UNCHANGED <<entry, tasks, loader, regEvents>>

MarkTaskStarted(s) ==
  /\ Alive /\ calls[s] = NoCall /\ tasks[s] \in {"none", "done"}
  /\ RegEvent
  /\ tasks' = [tasks EXCEPT ![s] = "running"]
  /\ Heartbeat(s, IF client.fails >= FailureThreshold THEN "unhealthy" ELSE "busy",
               client.busy + 1, TRUE)
  /\ UNCHANGED <<entry, loader>>

FaultyMarkTaskFinished(s, success) ==   \* a failed task stays counted
  LET fails == IF success THEN 0 ELSE client.fails + 1
      busy == IF success THEN Max({0, client.busy - 1}) ELSE client.busy
      status == IF fails >= FailureThreshold THEN "unhealthy"
                ELSE IF busy = 0 THEN "idle" ELSE "busy"
  IN /\ calls[s] = NoCall /\ tasks[s] = "running"
     /\ tasks' = [tasks EXCEPT ![s] = "done"]
     /\ client' = [client EXCEPT !.status = status, !.busy = busy, !.fails = fails]
     /\ calls' = [calls EXCEPT ![s] = Call(status, busy, TRUE)]
     /\ UNCHANGED <<entry, loader, regEvents>>

(* A task may end after the shutdown has begun: its coroutine is cancelled  *)
(* later.                                                                   *)
MarkTaskFinished(s, success) ==
  LET fails == IF success THEN 0 ELSE client.fails + 1
      busy == Max({0, client.busy - 1})
      status == IF fails >= FailureThreshold THEN "unhealthy"
                ELSE IF busy = 0 THEN "idle" ELSE "busy"
  IN /\ calls[s] = NoCall /\ tasks[s] = "running"
     /\ tasks' = [tasks EXCEPT ![s] = "done"]
     /\ client' = [client EXCEPT !.status = status, !.busy = busy, !.fails = fails]
     /\ calls' = [calls EXCEPT ![s] = Call(status, busy, TRUE)]
     /\ UNCHANGED <<entry, loader, regEvents>>

(* The handler of a task is cancelled: the stop command of a run, or the    *)
(* loss of a channel, ends its consumer. CancelledError is no Exception, so *)
(* forward() is left without mark_task_finished, in the middle of the work  *)
(* or of the heartbeat that announces it; what the server already has is    *)
(* written all the same. The coroutine does not come back.                  *)
TaskCancelled(s) ==
  /\ Alive /\ tasks[s] = "running"
  /\ RegEvent
  /\ tasks' = [tasks EXCEPT ![s] = "cut"]
  /\ calls' = [calls EXCEPT ![s] = IF @.pc = "write" THEN @ ELSE NoCall]
  /\ UNCHANGED <<entry, client, loader>>

(* The shutdown stops the loop and posts a last heartbeat without expiry.   *)
Shutdown ==
  /\ Alive /\ calls["stop"] = NoCall
  /\ client' = [client EXCEPT !.phase = "down", !.status = "offline"]
  /\ calls' = [calls EXCEPT !["stop"] = Call("offline", client.busy, FALSE)]
  /\ UNCHANGED <<entry, tasks, loader, regEvents>>

(* The agent dies: its requests may still be under way at the server.       *)
Killed ==
  /\ Alive
  /\ RegEvent
  /\ client' = [client EXCEPT !.phase = "down", !.status = "offline"]
  /\ calls' = [c \in Coroutines |-> IF calls[c].pc = "write" THEN calls[c] ELSE NoCall]
  /\ tasks' = [s \in Slots |-> "done"]
  /\ UNCHANGED <<entry, loader>>

-----------------------------------------------------------------------------
(* Heartbeats at the server.                                                *)

FaultyServeRead(c) ==   \* a missing entry is not registered again
  /\ calls[c].pc \in {"post", "again"}
  /\ \/ /\ entry # NoEntry
        /\ calls' = [calls EXCEPT ![c] = [pc |-> "write", doc |-> Beaten(entry, @)]]
        /\ UNCHANGED <<entry, regEvents>>
     \/ /\ entry = NoEntry
        /\ calls' = [calls EXCEPT ![c] = NoCall]
        /\ UNCHANGED <<entry, regEvents>>
     \/ RegEvent /\ calls' = [calls EXCEPT ![c] = NoCall] /\ UNCHANGED entry
  /\ UNCHANGED <<client, tasks, loader>>

(* The server reads the document. Without one it answers 404 and the client *)
(* registers with its status of now and posts the same payload once more;   *)
(* a registration or a second post that fails gives up until the next call. *)
ServeRead(c) ==
  /\ calls[c].pc \in {"post", "again"}
  /\ \/ /\ entry # NoEntry
        /\ calls' = [calls EXCEPT ![c] = [pc |-> "write", doc |-> Beaten(entry, @)]]
        /\ UNCHANGED <<entry, regEvents>>
     \/ /\ entry = NoEntry /\ calls[c].pc = "post"
        /\ entry' = Upserted(client.status)
        /\ calls' = [calls EXCEPT ![c].pc = "again"]
        /\ UNCHANGED regEvents
     \/ /\ entry = NoEntry /\ calls[c].pc = "again"
        /\ calls' = [calls EXCEPT ![c] = NoCall]
        /\ UNCHANGED <<entry, regEvents>>
     \/ RegEvent /\ calls' = [calls EXCEPT ![c] = NoCall] /\ UNCHANGED entry
  /\ UNCHANGED <<client, tasks, loader>>

(* ... and writes it back, even if it was deleted or written since.         *)
ServeWrite(c) ==
  /\ calls[c].pc = "write"
  /\ entry' = calls[c].doc
  /\ calls' = [calls EXCEPT ![c] = NoCall]
  /\ UNCHANGED <<client, tasks, loader, regEvents>>

(* DELETE /agent-registry/{username}/{agent_id}.                            *)
DeleteAgent ==
  /\ RegEvent /\ entry # NoEntry
  /\ entry' = NoEntry
  /\ UNCHANGED <<client, calls, tasks, loader>>

(* agent_registration seeds the entry from the service catalog.             *)
Seed ==
  /\ RegEvent
  /\ entry' = Upserted("online")
  /\ UNCHANGED <<client, calls, tasks, loader>>

-----------------------------------------------------------------------------
(* Contract-net metadata: the service reads the document, works out the new *)
(* metadata, and hands all of it to heartbeat, which reads once more.       *)

NewLoad(d, kind) ==
  IF kind = "award" THEN Min({d.load + 1, MaxLoad}) ELSE Max({d.load - 1, 0})

LoadRead(l, kind) ==
  /\ loader[l].pc = "idle" /\ entry # NoEntry
  /\ RegEvent
  /\ loader' = [loader EXCEPT ![l] = [pc |-> "get", busy |-> entry.busy, load |-> NewLoad(entry, kind)]]
  /\ UNCHANGED <<entry, client, calls, tasks>>

LoadBeat(l) ==
  LET call == [status |-> "keep", ttl |-> TRUE, busy |-> loader[l].busy,
               load |-> loader[l].load]
  IN /\ loader[l].pc = "get"
     /\ loader' = [loader EXCEPT ![l] =
                     IF entry = NoEntry THEN NoCall
                     ELSE [pc |-> "write", doc |-> Beaten(entry, call)]]
     /\ UNCHANGED <<entry, client, calls, tasks, regEvents>>

LoadWrite(l) ==
  /\ loader[l].pc = "write"
  /\ entry' = loader[l].doc
  /\ loader' = [loader EXCEPT ![l] = NoCall]
  /\ UNCHANGED <<client, calls, tasks, regEvents>>

-----------------------------------------------------------------------------
(* Time. A heartbeat that is late by a freshness step, or by a time to      *)
(* live, is an event while the agent lives; afterwards time just passes.    *)

OnTime == IF Alive THEN RegEvent ELSE UNCHANGED regEvents

Tick ==
  /\ entry # NoEntry /\ entry.age < OfflineAge
  /\ OnTime
  /\ entry' = [entry EXCEPT !.age = @ + 1]
  /\ UNCHANGED <<client, calls, tasks, loader>>

Expire ==
  /\ entry # NoEntry /\ entry.ttl
  /\ OnTime
  /\ entry' = NoEntry
  /\ UNCHANGED <<client, calls, tasks, loader>>

RegInit ==
  /\ entry = NoEntry
  /\ client = [phase |-> "off", status |-> "idle", busy |-> 0, fails |-> 0]
  /\ calls = [c \in Coroutines |-> NoCall]
  /\ tasks = [s \in Slots |-> "none"]
  /\ loader = [l \in Loaders |-> NoCall]
  /\ regEvents = 0

RegNext ==
  \/ Register \/ HeartbeatLoop \/ Shutdown \/ Killed \/ DeleteAgent \/ Seed
  \/ \E s \in Slots :
       MarkTaskStarted(s) \/ TaskCancelled(s) \/ \E success \in BOOLEAN : MarkTaskFinished(s, success)
  \/ \E c \in Coroutines : ServeRead(c) \/ ServeWrite(c)
  \/ \E l \in Loaders :
       \/ \E kind \in {"award", "report"} : LoadRead(l, kind)
       \/ LoadBeat(l) \/ LoadWrite(l)
  \/ Tick \/ Expire

(* The loop runs, the server answers, services and the clock go on.         *)
RegFairness ==
  /\ WF_regVars(Register) /\ WF_regVars(HeartbeatLoop)
  /\ \A c \in Coroutines : WF_regVars(ServeRead(c)) /\ WF_regVars(ServeWrite(c))
  /\ \A l \in Loaders : WF_regVars(LoadBeat(l) \/ LoadWrite(l))
  /\ WF_regVars(Tick) /\ WF_regVars(Expire)

RegSpec == RegInit /\ [][RegNext]_regVars /\ RegFairness

-----------------------------------------------------------------------------
(* The count an agent advertises is the number of its tasks that run and of *)
(* those whose handler was cancelled, which nobody takes off again: every   *)
(* other start is matched by one end, in success, in failure and after the  *)
(* shutdown has begun, in whatever order starts and ends interleave. And    *)
(* the load that bids are weighed with stays within its bounds, although    *)
(* updates are lost and a registration sets it back to zero while reports   *)
(* of the tasks counted before still come in.                               *)
BusyCountsTasks ==
  /\ Alive => client.busy = Cardinality({s \in Slots : tasks[s] \in {"running", "cut"}})
  /\ entry # NoEntry =>
       entry.load \in 0..MaxLoad /\ entry.busy \in 0..Cardinality(Slots)

(* Whatever heartbeats overtook each other, were lost or written back an    *)
(* old document: in the end a live agent is listed with the status and the  *)
(* count it has, and an agent that stopped or died is not listed as usable; *)
(* a capability that only this agent offers counts as covered accordingly.  *)
RegistrySettles ==
  <>[](/\ IF Alive
          THEN Listed(entry, {client.status}) /\ entry.busy = client.busy
          ELSE client.phase = "down" /\ ~Listed(entry, {"online", "idle", "busy"})
       /\ CoverageScore(CoverageCounts(<<entry>>, <<{"c"}>>, {"c"}), 1) =
            IF Alive /\ client.status # "unhealthy" THEN 100 ELSE 0)
=============================================================================
