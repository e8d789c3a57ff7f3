----------------------------- MODULE RunTracker -----------------------------
(***************************************************************************)
(* One pipeline run as the agent runtimes see it: the ephemeral ("hot")    *)
(* run document, the evaluation sequences of its tasks, and the calls that *)
(* read and rewrite them.                                                  *)
(*                                                                         *)
(* Every writer of the run document works the same way: read_run, change   *)
(* the copy, update_run (a plain replace, no CAS).  All of that code is    *)
(* synchronous, so an event loop executes at most one such call at a time, *)
(* and calls of different operating-system processes interleave between    *)
(* any two accesses to the store.  pc[p] is where process p stands.        *)
(***************************************************************************)
EXTENDS Integers, FiniteSets

CONSTANTS
  Proc,        \* processes, one event loop each
  Tracker,     \* PipelineRunTracker instances, each with its own dedupe cache
  ProcOf,      \* the process each tracker lives in
  Task,        \* tasks of the pipeline
  Final,       \* final_task_ids of the run
  SeqLen,      \* number of candidates in each task's evaluation sequence
  Reforward,   \* CNP_FAILURE_REFORWARD is on and a graph_marker_store exists
  MaxItems,    \* capacity of a dedupe cache (_LRUSet, max_items)
  Edits,       \* the edits of the document that other code makes
  Faults,      \* store errors and process crashes happen
  MaxStops,    \* bound: no event is handled once the stops were sent this often
  MaxAwards    \* bound: no event of a task is handled after this many awards

ASSUME ProcOfAssumption == ProcOf \in [Tracker -> Proc]
ASSUME FinalAssumption  == Final \subseteq Task
ASSUME SeqLenAssumption == SeqLen \in Nat
ASSUME FlagAssumption   == Reforward \in BOOLEAN /\ Faults \in BOOLEAN
ASSUME CacheAssumption  == MaxItems \in Nat \ {0}
ASSUME BoundAssumption  == MaxStops \in Nat /\ MaxAwards \in Nat
ASSUME EditsAssumption  == Edits \subseteq {"plan", "pause", "resume"}
ASSUME NonEmpty         == Tracker # {} /\ Task # {}

TaskStatus == {"PENDING", "RUNNING", "COMPLETED", "FAILED"}
RunStatus  == {"RUNNING", "COMPLETED", "FAILED"}

(***************************************************************************)
(* The run document.  "plan" says whether it carries a plan_id, which is   *)
(* not a field of the PipelineRun model.  The status "ABSENT" stands for a *)
(* key without a document.                                                 *)
(***************************************************************************)
Doc == [status : RunStatus \cup {"ABSENT"}, task : [Task -> TaskStatus],
        plan : BOOLEAN, paused : BOOLEAN]

seed_initial_run == [status |-> "RUNNING", task |-> [t \in Task |-> "PENDING"],
                     plan |-> FALSE, paused |-> FALSE]

NoDoc == [seed_initial_run EXCEPT !.status = "ABSENT"]

Exists(d)   == d.status # "ABSENT"
Terminal(d) == d.status \in {"COMPLETED", "FAILED"}

(***************************************************************************)
(* A call in progress.  "op" is the status of the task event a tracker     *)
(* handles, or the edit somebody else makes (the graph builder and the     *)
(* plan revision consumer set plan_id, the strategist loop sets and clears *)
(* the pause flag).  "snap" is the copy of the document the call works on, *)
(* "seen" the current_index that advance_evaluation_sequence read, "moved" *)
(* whether the task was given to another candidate.                        *)
(***************************************************************************)
EventStatus == {"COMPLETED", "FAILED"}
Edit == {"plan", "pause", "resume"}
PC   == {"idle", "plan", "advance", "upsert", "persist", "notify", "edit"}
Call == [pc : PC, op : EventStatus \cup Edit, tracker : Tracker, task : Task,
         snap : Doc, seen : Nat, moved : BOOLEAN]

Idle == [pc |-> "idle", op |-> "plan", tracker |-> CHOOSE k \in Tracker : TRUE,
         task |-> CHOOSE t \in Task : TRUE, snap |-> NoDoc, seen |-> 0,
         moved |-> FALSE]

VARIABLES
  hot,      \* the run document in the ephemeral bucket
  cold,     \* the archived run document
  cursor,   \* current_index of each task's evaluation sequence
  awards,   \* re-forward awards created for each task
  stops,    \* how many times the stop commands of the run were emitted
  dedupe,   \* keys in each tracker's dedupe cache
  call      \* the call each process is executing

vars == <<hot, cold, cursor, awards, stops, dedupe, call>>

\* Every variable has its type.
TypeOK ==
  /\ hot \in Doc /\ cold \in Doc
  /\ cursor \in [Task -> Nat]
  /\ awards \in [Task -> Nat]
  /\ stops \in Nat
  /\ dedupe \in [Tracker -> SUBSET (Task \X EventStatus)]
  /\ call \in [Proc -> Call]

Init ==
  /\ hot = seed_initial_run
  /\ cold = NoDoc
  /\ cursor = [t \in Task |-> 0]
  /\ awards = [t \in Task |-> 0]
  /\ stops = 0
  /\ dedupe = [k \in Tracker |-> {}]
  /\ call = [p \in Proc |-> Idle]

-----------------------------------------------------------------------------
(***************************************************************************)
(* Helpers of PipelineRunTracker.                                          *)
(***************************************************************************)
_ORDER == [PENDING |-> 0, RUNNING |-> 1, COMPLETED |-> 2, FAILED |-> 3]

_forward_only(prev, new) == _ORDER[new] >= _ORDER[prev]

\* The key is task:status:attempts:sequence.  Every TaskState the runtime
\* builds has attempts 0, and the model has neither sequence nor updated_at.
_event_key(t, s) == <<t, s>>

\* Faulty variants of the three operators that follow: finals that have not
\* failed count as done; the finals are looked up before the event is entered;
\* the run, not the task, goes back to PENDING; the pause flag is dropped too.
FinalsNotFailed(c, tasks)   == Final # {} /\ \A f \in Final : tasks[f] # "FAILED"
FinalsBeforeEvent(c, tasks) == Final # {} /\ \A f \in Final : c.snap.task[f] = "COMPLETED"
ReforwardedToPending(c)     == "PENDING"
DumpWithoutPause(d)         == [d EXCEPT !.plan = FALSE, !.paused = FALSE]

\* All final tasks are COMPLETED once the event of call c is entered.
FinalsDone(c, tasks) == Final # {} /\ \A f \in Final : tasks[f] = "COMPLETED"

\* A failed task that was re-forwarded leaves the status of the run alone.
Reforwarded(c) == c.snap.status

\* plan_id is not a field of PipelineRun, so model_dump() has none.
model_dump(d) == [d EXCEPT !.plan = FALSE]

\* The document on_task_done writes for call c.  An event that is not FAILED
\* completes the run once all finals are COMPLETED, whatever the run's status
\* was; a FAILED event fails it unless the task was re-forwarded.  The task
\* entry is the incoming TaskState: _try_reforward_sync's PENDING entry is
\* overwritten.
Applied(c) ==
  LET tasks == [c.snap.task EXCEPT ![c.task] = c.op]
      status == IF c.op = "FAILED"
                THEN IF c.moved THEN Reforwarded(c) ELSE "FAILED"
                ELSE IF FinalsDone(c, tasks) THEN "COMPLETED" ELSE c.snap.status
  IN  model_dump([c.snap EXCEPT !.task = tasks, !.status = status])

\* The document an editor writes: only the edited field differs from its copy.
Edited(c) ==
  CASE c.op = "plan"   -> [c.snap EXCEPT !.plan = TRUE]
    [] c.op = "pause"  -> [c.snap EXCEPT !.paused = TRUE]
    [] c.op = "resume" -> [c.snap EXCEPT !.paused = FALSE]

Goto(p, l)  == call' = [call EXCEPT ![p].pc = l]
Return(p)   == call' = [call EXCEPT ![p] = Idle]

\* Faulty variant: the write also creates a missing document.
UpsertRun(d) == hot' = d

\* update_run replaces an existing document and raises when there is none.
update_run(d) == IF Exists(hot) THEN hot' = d ELSE UNCHANGED hot

-----------------------------------------------------------------------------
(***************************************************************************)
(* on_task_done, split at its accesses to the store.                       *)
(***************************************************************************)

\* Faulty variant of Accepts: regressive events are accepted.
AcceptsUnordered(k, t, s) == _event_key(t, s) \notin dedupe[k] /\ Exists(hot)

\* A duplicate, an event for a missing document and a regressive event are
\* dropped: on_task_done returns and everything stays as it is.
Accepts(k, t, s) ==
  /\ _event_key(t, s) \notin dedupe[k]
  /\ Exists(hot)
  /\ _forward_only(hot.task[t], s)

\* Dedupe, first read, forward-only test.
BeginTaskDone(p, k, t, s) ==
  /\ call[p].pc = "idle" /\ ProcOf[k] = p
  /\ stops <= MaxStops /\ awards[t] <= MaxAwards
  /\ Accepts(k, t, s)
  /\ call' = [call EXCEPT ![p] =
       [Idle EXCEPT !.pc = IF s = "FAILED" /\ Reforward THEN "plan" ELSE "persist",
                    !.op = s, !.tracker = k, !.task = t, !.snap = hot]]
  /\ UNCHANGED <<hot, cold, cursor, awards, stops, dedupe>>

\* _try_reforward_sync reads the document a second time for its plan_id.
ReadPlan(p) ==
  /\ call[p].pc = "plan"
  /\ IF Exists(hot) THEN Goto(p, IF hot.plan THEN "advance" ELSE "persist")
                    ELSE Return(p)
  /\ UNCHANGED <<hot, cold, cursor, awards, stops, dedupe>>

\* advance_evaluation_sequence reads the sequence ...
ReadSequence(p) ==
  /\ call[p].pc = "advance"
  /\ LET i == cursor[call[p].task]
     IN  call' = [call EXCEPT ![p].seen = i,
                              ![p].pc = IF i + 1 >= SeqLen THEN "persist" ELSE "upsert"]
  /\ UNCHANGED <<hot, cold, cursor, awards, stops, dedupe>>

\* Faulty variant: the index does not move on.
SameIndex(i) == i

\* The candidate after the current one.
NextIndex(i) == i + 1

\* ... and upserts the next index; the tracker adds the new candidate's award,
\* and ignores a store error in doing so.
UpsertSequence(p) ==
  /\ call[p].pc = "upsert"
  /\ cursor' = [cursor EXCEPT ![call[p].task] = NextIndex(call[p].seen)]
  /\ \/ awards' = [awards EXCEPT ![call[p].task] = @ + 1]
     \/ Faults /\ UNCHANGED awards
  /\ call' = [call EXCEPT ![p].moved = TRUE, ![p].pc = "persist"]
  /\ UNCHANGED <<hot, cold, stops, dedupe>>

Persist(p) ==
  /\ call[p].pc = "persist"
  /\ update_run(Applied(call[p]))
  /\ IF Exists(hot) THEN Goto(p, "notify") ELSE Return(p)
  /\ UNCHANGED <<cold, cursor, awards, stops, dedupe>>

\* Faulty variant: every event of a terminal run emits the stop commands.
EmitsStopsAgain(c) == Terminal(Applied(c))

\* The stop commands go out on the transition RUNNING -> terminal.
EmitsStops(c) == c.snap.status = "RUNNING" /\ Terminal(Applied(c))

\* The cache takes the key and evicts others if it is over capacity.
Remember(k, x) ==
  \E kept \in SUBSET dedupe[k] :
    /\ Cardinality(kept \cup {x}) <= MaxItems
    /\ dedupe' = [dedupe EXCEPT ![k] = kept \cup {x}]

Notify(p) ==
  /\ call[p].pc = "notify"
  /\ Remember(call[p].tracker, _event_key(call[p].task, call[p].op))
  /\ stops' = IF EmitsStops(call[p]) THEN stops + 1 ELSE stops
  /\ Return(p)
  /\ UNCHANGED <<hot, cold, cursor, awards>>

(***************************************************************************)
(* The other writers of the document.                                      *)
(***************************************************************************)
BeginEdit(p, e) ==
  /\ call[p].pc = "idle"
  /\ Exists(hot)
  /\ call' = [call EXCEPT ![p] = [Idle EXCEPT !.pc = "edit", !.op = e, !.snap = hot]]
  /\ UNCHANGED <<hot, cold, cursor, awards, stops, dedupe>>

FinishEdit(p) ==
  /\ call[p].pc = "edit"
  /\ update_run(Edited(call[p]))
  /\ Return(p)
  /\ UNCHANGED <<cold, cursor, awards, stops, dedupe>>

\* finalize_run: one transaction moves a terminal run to the archive.
finalize_run ==
  /\ Terminal(hot) /\ ~Exists(cold)
  /\ cold' = hot
  /\ hot' = NoDoc
  /\ UNCHANGED <<cursor, awards, stops, dedupe, call>>

(***************************************************************************)
(* A key leaves a dedupe cache: it expired, or the tracker was replaced by *)
(* the one that the next pipeline event creates.                           *)
(***************************************************************************)
Forget(k) ==
  /\ \E x \in dedupe[k] : dedupe' = [dedupe EXCEPT ![k] = @ \ {x}]
  /\ UNCHANGED <<hot, cold, cursor, awards, stops, call>>

\* A store operation raises.  with_backoff does not retry a synchronous
\* function, so the exception ends the call.  A write that times out may have
\* been applied: that is this step taken right after the write.
StoreError(p) ==
  /\ Faults
  /\ call[p].pc # "idle"
  /\ Return(p)
  /\ UNCHANGED <<hot, cold, cursor, awards, stops, dedupe>>

Crash(p) ==
  /\ Faults
  /\ Return(p)
  /\ dedupe' = [k \in Tracker |-> IF ProcOf[k] = p THEN {} ELSE dedupe[k]]
  /\ UNCHANGED <<hot, cold, cursor, awards, stops>>

TaskDone(p) ==
  \/ \E k \in Tracker, t \in Task, s \in EventStatus : BeginTaskDone(p, k, t, s)
  \/ ReadPlan(p)
  \/ ReadSequence(p)
  \/ UpsertSequence(p)
  \/ Persist(p)
  \/ Notify(p)

Next ==
  \/ \E p \in Proc : TaskDone(p)
  \/ \E p \in Proc, e \in Edits : BeginEdit(p, e)
  \/ \E p \in Proc : FinishEdit(p)
  \/ finalize_run
  \/ \E k \in Tracker : Forget(k)
  \/ \E p \in Proc : StoreError(p)
  \/ \E p \in Proc : Crash(p)

Spec == Init /\ [][Next]_vars

-----------------------------------------------------------------------------
(***************************************************************************)
(* Properties for any number of processes.                                 *)
(***************************************************************************)

\* A run document marked COMPLETED, hot or archived, holds a result
\* (COMPLETED, or FAILED reported later) for every final task, however the
\* reads and replaces of the processes interleave (on_task_done, step 3).
CompletedMeansFinalsReported ==
  \A d \in {hot, cold} :
    d.status = "COMPLETED" => \A f \in Final : d.task[f] \in EventStatus

\* A run document marked FAILED names the culprit: no later event and no stale
\* write removes the last FAILED task entry from it (_forward_only makes
\* FAILED absorbing, and status and tasks are written by one replace).
FailedMeansTaskFailed ==
  \A d \in {hot, cold} :
    d.status = "FAILED" => \E t \in Task : d.task[t] = "FAILED"

\* Once finalize_run has archived a run, the archived document never changes
\* and no call that was in flight brings the hot document back.
ArchiveIsFinal == [][Exists(cold) => cold' = cold /\ ~Exists(hot')]_vars

(***************************************************************************)
(* Properties of a deployment in which one event loop serves the whole run *)
(* (SINGLE_PROCESS_ALL_SERVICES=1).                                        *)
(***************************************************************************)

\* No task of the stored run ever moves back in the order PENDING, RUNNING,
\* COMPLETED, FAILED.
ForwardOnly ==
  [][Exists(hot') => \A t \in Task : _forward_only(hot.task[t], hot'.task[t])]_vars

RunDoc == IF Exists(cold) THEN cold ELSE hot

\* Between two calls, the stop commands have been emitted once if the run has
\* reached a terminal status and not at all before.
StopsExactlyOnce ==
  (\A p \in Proc : call[p].pc # "notify") =>
     stops = IF Terminal(RunDoc) THEN 1 ELSE 0

\* With store errors and crashes the stop commands may be lost, but they are
\* never emitted twice, nor for a run that is still going.
StopsAtMostOnce == stops <= 1 /\ (stops = 1 => Terminal(RunDoc))

\* A pause set on the run is cleared by a resume only, never by a tracker that
\* rewrites the document.
PauseKept ==
  [][hot.paused /\ Exists(hot') /\ ~hot'.paused =>
       \E p \in Proc : call[p].pc = "edit" /\ call[p].op = "resume"]_vars

\* Every award of a re-forwarded task used up one position of its evaluation
\* sequence, and the sequence is never overrun: no candidate is awarded twice.
AwardsWithinSequence ==
  \A t \in Task : awards[t] <= cursor[t] /\ (cursor[t] = 0 \/ cursor[t] < SeqLen)

\* A retried or repeated event, after a store error or a crash, neither stops
\* the run twice nor awards a candidate twice.
NeverTwice == StopsAtMostOnce /\ AwardsWithinSequence

=============================================================================
