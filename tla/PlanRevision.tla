---------------------------- MODULE PlanRevision ----------------------------
(***************************************************************************)
(* How a plan draft changes while its run is going on: deltas and their    *)
(* validation, the strategist loop, the decisions of a reviewer, manual    *)
(* revisions, the consumer that applies RevisePlanCommand, the plan        *)
(* validator, the human validator and the plan cache.                      *)
(* A task carries its agent, "none" if it is unassigned, or "alien" if it  *)
(* breaks a rule of the ontology. One plan, one run. A tracker of another   *)
(* process may write the pause back that it has read; that tasks of the    *)
(* run document are lost like this is in RunTracker.                       *)
(***************************************************************************)
EXTENDS Integers, FiniteSets, Sequences, SequencesExt, FiniteSetsExt

CONSTANTS
  PlanTasks,       \* task ids, also the ones a delta may add
  PlanAgents,      \* agents a task can be assigned to
  Deltas,          \* what the language model or a person may propose
  Deciders,        \* requests that the API serves at the same time
  MaxSuggestions,  \* LLM_STRATEGIST_MAX_SUGGESTIONS
  RejectionWindow, \* LLM_STRATEGIST_REJECTION_WINDOW
  MaxPlanEvents    \* bound: task events, decisions, validations

ASSUME PlanAssumption ==
  /\ PlanTasks \subseteq Nat /\ IsFiniteSet(PlanTasks) /\ {1, 2} \subseteq PlanTasks
  /\ PlanAgents # {}
  /\ MaxSuggestions \in Nat /\ RejectionWindow \in Nat /\ MaxPlanEvents \in Nat

VARIABLES
  conf,     \* deployment: auto is LLM_STRATEGIST_AUTO_APPLY, or no human required;
            \* shared says that the loop and the API are one process
  draft,    \* [rev, g, valid, human]: revision, graph, is_valid, time of modification
  revs,     \* revision records: number -> status
  suggs,    \* the suggestions in the order they were made
  cand,     \* candidate documents: next revision -> [g, base]
  cmds,     \* RevisePlanCommands in the queue
  run,      \* [status, paused, tasks]; paused is a suggestion or 0
  loop,     \* the strategist loop: idle, waiting for the model, about to pause
  dec,      \* requests in flight: idle, publishing, about to resume the run
  cons,     \* what the revision consumer is applying
  vald,     \* the draft the plan validator or the plan cache is looking at
  streak,   \* rejections in a row, in the process of the API
  planEvents,
  copy,      \* the pause in the copy of the run that a tracker elsewhere will write back
  unresumed, \* suggestions whose decision did not end the pause
  raced      \* some writer read the draft while a change of it was on its way

pauseVars == <<copy, unresumed>>
planVars == <<conf, draft, revs, suggs, cand, cmds, run, loop, dec, cons, vald, streak, planEvents,
              pauseVars, raced>>

-----------------------------------------------------------------------------
(* Deltas and their validation: plan_revision_utils, plan_validator.       *)

Holder == PlanAgents \cup {"none", "alien"}

Graph == [tasks : SUBSET PlanTasks, edges : SUBSET (PlanTasks \X PlanTasks),
          info : [PlanTasks -> Holder], dup : BOOLEAN]

Delta == [over : SUBSET (PlanTasks \X Holder), rem : SUBSET PlanTasks,
          add : SUBSET (PlanTasks \X Holder), addE : SUBSET (PlanTasks \X PlanTasks),
          remE : SUBSET (PlanTasks \X PlanTasks)]
ASSUME DeltaAssumption == Deltas \subseteq Delta

NoDelta == [over |-> {}, rem |-> {}, add |-> {}, addE |-> {}, remE |-> {}]

(* Overrides, removals with their edges, additions, then edges. A removed  *)
(* task's assignment is forgotten.                                         *)
ApplyDelta(g, d) ==
  LET patched(t) == {p \in d.over : p[1] = t}
      added(t) == {p \in d.add : p[1] = t}
      kept == g.tasks \ d.rem
  IN [tasks |-> kept \cup {p[1] : p \in d.add},
      edges |-> ({e \in g.edges : e[1] \notin d.rem /\ e[2] \notin d.rem} \cup d.addE) \ d.remE,
      info |-> [t \in PlanTasks |->
                  IF added(t) # {} THEN (CHOOSE p \in added(t) : TRUE)[2]
                  ELSE IF t \notin kept THEN "none"
                  ELSE IF patched(t) # {} THEN (CHOOSE p \in patched(t) : TRUE)[2]
                  ELSE g.info[t]],
      dup |-> (g.dup /\ d.rem = {}) \/ \E p \in d.add : p[1] \in kept]

Applied(g, d) ==
  Cardinality({p \in d.over : p[1] \in g.tasks}) + Cardinality(d.rem) + Cardinality(d.add)
    + Cardinality(d.addE) + Cardinality(d.remE)

(* What the API shows as the difference of two revisions.                  *)
DiffPlanRevisions(g, h) ==
  [added |-> h.tasks \ g.tasks, removed |-> g.tasks \ h.tasks,
   modified |-> {t \in g.tasks \cap h.tasks : g.info[t] # h.info[t]},
   addedE |-> h.edges \ g.edges, removedE |-> g.edges \ h.edges]

FaultyDetectCycle(tasks, edges) ==   \* only edges back and forth are seen
  \E e \in edges : <<e[2], e[1]>> \in edges

(* Kahn's algorithm: take away a task without predecessors until none is   *)
(* left; a cycle is what stays.                                            *)
DetectCycle(tasks, edges) ==
  LET left[n \in 0..Cardinality(tasks)] ==
        IF n = 0 THEN tasks
        ELSE LET L == left[n - 1]
                 free == {t \in L : ~\E e \in edges : e[1] \in L /\ e[2] = t}
             IN IF free = {} THEN L ELSE L \ {CHOOSE t \in free : TRUE}
  IN left[Cardinality(tasks)] # {}

ValidateGraphSpec(g) ==
  /\ g.tasks # {} /\ ~g.dup
  /\ \A t \in g.tasks : g.info[t] \in PlanAgents
  /\ \A e \in g.edges : e[1] \in g.tasks /\ e[2] \in g.tasks
  /\ ~DetectCycle(g.tasks, g.edges)

(* What has started may not be taken away, change hands or wait for more.  *)
ValidateRuntimeConstraints(base, c, tasks) ==
  LET is(s) == {t \in PlanTasks : tasks[t] = s}
      started == is("COMPLETED") \cup is("RUNNING") \cup is("FAILED")
  IN /\ started \subseteq c.tasks
     /\ \A t \in is("RUNNING") \cap base.tasks \cap c.tasks :
          base.info[t] # "none" /\ c.info[t] # "none" => base.info[t] = c.info[t]
     /\ \A e \in c.edges :
          e[2] \in is("COMPLETED") \cup is("RUNNING") => e[1] \in is("COMPLETED")

ValidateCandidateGraph(base, c, tasks) ==
  ValidateGraphSpec(c) /\ ValidateRuntimeConstraints(base, c, tasks)

(* The difference of two revisions that validate, read as a delta, leads    *)
(* from the one to the other.                                              *)
DiffLeadsFrom(g, h) ==
  LET diff == DiffPlanRevisions(g, h)
      with(S) == {<<t, h.info[t]>> : t \in S}
  IN ValidateGraphSpec(g) /\ ValidateGraphSpec(h) =>
       ApplyDelta(g, [over |-> with(diff.modified), add |-> with(diff.added), rem |-> diff.removed,
                      addE |-> diff.addedE, remE |-> diff.removedE]) = h

-----------------------------------------------------------------------------
Spend == planEvents < MaxPlanEvents /\ planEvents' = planEvents + 1
Record(n, status) == [m \in DOMAIN revs \cup {n} |-> IF m = n THEN status ELSE revs[m]]
SaveCandidate(n, g) ==
  [m \in DOMAIN cand \cup {n} |-> IF m = n THEN [g |-> g, base |-> n - 1] ELSE cand[m]]

Idle == [pc |-> "idle"]
NoCopy == -1

(* A change of the draft that was begun and has not reached it.            *)
OnItsWay ==
  \/ cmds # <<>> \/ cons # Idle \/ vald # Idle
  \/ \E d \in Deciders : dec[d].pc = "publish"
  \/ conf.auto /\ loop.pc = "model"
Look == raced' = (raced \/ OnItsWay)

-----------------------------------------------------------------------------
(* The run, as its document shows it; a pause keeps tasks from starting.   *)
StartTask(t) ==
  /\ run.status = "RUNNING" /\ run.paused = 0 /\ run.tasks[t] = "PENDING" /\ t \in {1, 2}
  /\ \A u \in {1, 2} : u < t => run.tasks[u] = "COMPLETED"
  /\ run' = [run EXCEPT !.tasks[t] = "RUNNING"]
  /\ UNCHANGED <<conf, draft, revs, suggs, cand, cmds, loop, dec, cons, vald, streak, planEvents,
                 pauseVars, raced>>

(* The loop stops at its limit, and after a row of rejections if it can    *)
(* see them: the counter belongs to the process that takes the decisions.  *)
CheckConvergence ==
  /\ Len(suggs) < MaxSuggestions
  /\ conf.shared => streak < RejectionWindow

(* A tracker of another process than the API's reads the run before it is  *)
(* changed there.                                                          *)
TrackerReads ==
  /\ ~conf.shared /\ copy = NoCopy /\ \E t \in PlanTasks : run.tasks[t] = "RUNNING"
  /\ copy' = run.paused
  /\ UNCHANGED <<conf, draft, revs, suggs, cand, cmds, run, loop, dec, cons, vald, streak, planEvents,
                 unresumed, raced>>

(* The tracker hands a task's end to the loop, which may be busy, too      *)
(* early, or have nothing to do. Draft and run are read before the model   *)
(* is asked. The document is written back as it was read, pause included.  *)
Ended(t, status) ==
  [run EXCEPT !.tasks[t] = status, !.paused = IF copy = NoCopy THEN @ ELSE copy,
              !.status = IF status = "FAILED" THEN "FAILED" ELSE IF t = 2 THEN "COMPLETED" ELSE @]

EndTask(t, status) ==
  /\ run.tasks[t] = "RUNNING" /\ Spend
  /\ LET ended == Ended(t, status)
     IN /\ run' = ended
        /\ copy' = NoCopy
        /\ unresumed' = unresumed \cup ({ended.paused} \ {0, run.paused})
        /\ \/ /\ loop.pc = "idle" /\ ended.paused = 0 /\ ended.status = "RUNNING"
              /\ CheckConvergence
              /\ loop' = [pc |-> "model", rev |-> draft.rev, g |-> draft.g,
                          tasks |-> ended.tasks, task |-> t, status |-> status]
              /\ IF conf.auto THEN Look ELSE UNCHANGED raced
           \/ UNCHANGED <<loop, raced>>
  /\ UNCHANGED <<conf, draft, revs, suggs, cand, cmds, dec, cons, vald, streak>>

(* The rule that stands in for the model: free the successors of a failed  *)
(* task, or mark tasks, which leaves what we see of them as it is.         *)
StubGenerateDelta(g, tasks, t, status) ==
  LET down == {e \in g.edges : e[1] = t}
      pending == {u \in g.tasks : tasks[u] = "PENDING"}
      mark(S) == [NoDelta EXCEPT !.over = {<<u, g.info[u]>> : u \in S}]
  IN IF status = "FAILED"
     THEN IF down # {} THEN [NoDelta EXCEPT !.remE = down] ELSE mark({t})
     ELSE IF Cardinality(pending) > 1 /\ ~\E u \in g.tasks : tasks[u] = "RUNNING"
          THEN mark(pending) ELSE NoDelta

(* The loop's answer: nothing, a rejected candidate, an applied one, or a  *)
(* suggestion for review. The record of the next revision is written in    *)
(* every case, over whatever was there.                                    *)
HandleTaskEvent(d) ==
  /\ loop.pc = "model"
  /\ LET c == ApplyDelta(loop.g, d)
         n == loop.rev + 1
         ok == ValidateCandidateGraph(loop.g, c, loop.tasks)
         status == IF ~ok THEN "REJECTED" ELSE IF conf.auto THEN "APPLIED" ELSE "PENDING_REVIEW"
     IN IF Applied(loop.g, d) = 0
        THEN loop' = Idle /\ UNCHANGED <<suggs, revs, cand, cmds>>
        ELSE /\ suggs' = Append(suggs, [base |-> loop.rev, delta |-> d, status |-> status])
             /\ revs' = Record(n, IF ok THEN "PENDING_REVIEW" ELSE "REJECTED")
             /\ IF ok /\ conf.auto
                THEN cand' = SaveCandidate(n, c) /\ cmds' = Append(cmds, n)
                ELSE UNCHANGED <<cand, cmds>>
             /\ loop' = IF ok /\ ~conf.auto THEN [pc |-> "pause", s |-> Len(suggs) + 1] ELSE Idle
  /\ UNCHANGED <<conf, draft, run, dec, cons, vald, streak, planEvents, pauseVars, raced>>

SetRunPauseState(r, s) == [r EXCEPT !.paused = s]

(* The suggestion is saved before the pause, which may fail.               *)
PauseRun ==
  /\ loop.pc = "pause"
  /\ run' = SetRunPauseState(run, loop.s) \/ run' = run
  /\ loop' = Idle
  /\ UNCHANGED <<conf, draft, revs, suggs, cand, cmds, dec, cons, vald, streak, planEvents, pauseVars,
                 raced>>

-----------------------------------------------------------------------------
(* A reviewer's decision on a suggestion that is still open.               *)

Close(d, s, status) ==
  /\ suggs' = [suggs EXCEPT ![s].status = status]
  /\ revs' = Record(suggs[s].base + 1, status)
  /\ dec' = [dec EXCEPT ![d] = [pc |-> "resume", s |-> s]]

Reject(d, s) ==
  /\ dec[d] = Idle /\ suggs[s].status = "PENDING_REVIEW" /\ Spend
  /\ streak' = streak + 1
  /\ Close(d, s, "REJECTED")
  /\ UNCHANGED <<conf, draft, cand, cmds, run, loop, cons, vald, pauseVars, raced>>

FaultyRebase(s) == suggs[s].base   \* the candidate is numbered after its old base
Rebase(s) == draft.rev

(* The delta is applied to the draft of now and checked against the run of *)
(* now. If the draft cannot be loaded, nothing but the streak changes.     *)
Approve(d, s) ==
  /\ dec[d] = Idle /\ suggs[s].status = "PENDING_REVIEW" /\ Spend
  /\ streak' = 0 /\ Look
  /\ LET c == ApplyDelta(draft.g, suggs[s].delta)
         n == Rebase(s) + 1
     IN \/ UNCHANGED <<suggs, revs, cand, dec>>
        \/ /\ ~ValidateCandidateGraph(draft.g, c, run.tasks)
           /\ Close(d, s, "REJECTED") /\ UNCHANGED cand
        \/ /\ ValidateCandidateGraph(draft.g, c, run.tasks)
           /\ cand' = SaveCandidate(n, c)
           /\ dec' = [dec EXCEPT ![d] = [pc |-> "publish", s |-> s, n |-> n]]
           /\ UNCHANGED <<suggs, revs>>
  /\ UNCHANGED <<conf, draft, cmds, run, loop, cons, vald, pauseVars>>

(* A revision that a person submits takes the same way, without a          *)
(* suggestion.                                                             *)
ApplyManualPlanRevision(d, delta) ==
  /\ dec[d] = Idle /\ Spend /\ Look
  /\ LET c == ApplyDelta(draft.g, delta)
     IN /\ Applied(draft.g, delta) > 0 /\ ValidateCandidateGraph(draft.g, c, run.tasks)
        /\ cand' = SaveCandidate(draft.rev + 1, c)
        /\ dec' = [dec EXCEPT ![d] = [pc |-> "publish", s |-> 0, n |-> draft.rev + 1]]
  /\ UNCHANGED <<conf, draft, revs, suggs, cmds, run, loop, cons, vald, streak, pauseVars>>

(* The command is published, then the suggestion is marked; if either      *)
(* fails the request fails and the suggestion stays open.                  *)
ApplyRevision(d) ==
  /\ dec[d].pc = "publish"
  /\ \/ /\ dec' = [dec EXCEPT ![d] = Idle] /\ UNCHANGED suggs
        /\ cmds' \in {cmds, Append(cmds, dec[d].n)}
     \/ /\ cmds' = Append(cmds, dec[d].n)
        /\ IF dec[d].s = 0 THEN dec' = [dec EXCEPT ![d] = Idle] /\ UNCHANGED suggs
           ELSE /\ suggs' = [suggs EXCEPT ![dec[d].s].status = "APPLIED"]
                /\ dec' = [dec EXCEPT ![d] = [pc |-> "resume", s |-> dec[d].s]]
  /\ UNCHANGED <<conf, draft, revs, cand, run, loop, cons, vald, streak, planEvents, pauseVars, raced>>

FaultyResumeRun(d) ==   \* a rejection forgets to resume the run
  /\ dec[d].pc = "resume"
  /\ run' = IF suggs[dec[d].s].status = "APPLIED" THEN SetRunPauseState(run, 0) ELSE run
  /\ UNCHANGED pauseVars
  /\ dec' = [dec EXCEPT ![d] = Idle]
  /\ UNCHANGED <<conf, draft, revs, suggs, cand, cmds, loop, cons, vald, streak, planEvents, raced>>

(* The decision is saved before the run is resumed, which may fail, and     *)
(* which comes too early if the pause is not yet set; nobody tries again.   *)
ResumeRun(d) ==
  /\ dec[d].pc = "resume"
  /\ LET late == unresumed \cup {dec[d].s}
     IN \/ /\ run' = SetRunPauseState(run, 0)
           /\ unresumed' = IF loop.pc = "pause" THEN late \cap {loop.s} ELSE {}
        \/ run' = run /\ unresumed' = late
  /\ copy' = copy
  /\ dec' = [dec EXCEPT ![d] = Idle]
  /\ UNCHANGED <<conf, draft, revs, suggs, cand, cmds, loop, cons, vald, streak, planEvents, raced>>

-----------------------------------------------------------------------------
(* The revision consumer: it reads the candidate and the draft, waits for  *)
(* the triple store, and writes draft, record and run without comparing    *)
(* the draft's revision with the candidate's base.                         *)
FetchCandidate ==
  /\ cmds # <<>> /\ cons = Idle
  /\ cons' = [pc |-> "ingest", n |-> Head(cmds), g |-> cand[Head(cmds)].g]
  /\ cmds' = Tail(cmds)
  /\ UNCHANGED <<conf, draft, revs, suggs, cand, run, loop, dec, vald, streak, planEvents, pauseVars,
                 raced>>

HandleRevisePlan ==
  /\ cons # Idle
  /\ draft' = [draft EXCEPT !.rev = cons.n, !.g = cons.g, !.valid = TRUE]
  /\ revs' = Record(cons.n, "APPLIED")
  /\ cons' = Idle
  /\ UNCHANGED <<conf, suggs, cand, cmds, run, loop, dec, vald, streak, planEvents, pauseVars, raced>>

(* The validator writes back the whole draft it read before the model's    *)
(* review, which may refuse a plan that the rules accept.                  *)
ValidatorReads ==
  /\ vald = Idle /\ Spend /\ Look
  /\ vald' = [pc |-> "review", draft |-> draft]
  /\ UNCHANGED <<conf, draft, revs, suggs, cand, cmds, run, loop, dec, cons, streak, pauseVars>>

ValidatePlanDraft(approved) ==
  /\ vald.pc = "review"
  /\ draft' = [vald.draft EXCEPT !.valid = ValidateGraphSpec(vald.draft.g) /\ approved]
  /\ vald' = Idle
  /\ UNCHANGED <<conf, revs, suggs, cand, cmds, run, loop, dec, cons, streak, planEvents, pauseVars,
                 raced>>

(* The plan cache marks a valid draft as cached and writes back the whole   *)
(* draft it read; it runs in the pipeline, after the validator.            *)
CacheReads ==
  /\ vald = Idle /\ draft.valid /\ Spend /\ Look
  /\ vald' = [pc |-> "cache", draft |-> draft]
  /\ UNCHANGED <<conf, draft, revs, suggs, cand, cmds, run, loop, dec, cons, streak, pauseVars>>

CachePlanDraft ==
  /\ vald.pc = "cache"
  /\ draft' = vald.draft /\ vald' = Idle
  /\ UNCHANGED <<conf, revs, suggs, cand, cmds, run, loop, dec, cons, streak, planEvents, pauseVars,
                 raced>>

(* A person's approval may carry modifications; they are applied without a *)
(* check, a revision or a change of is_valid, and leave a mark.            *)
HumanValidate(delta) ==
  /\ Spend /\ Look
  /\ draft' = [draft EXCEPT !.g = ApplyDelta(draft.g, delta), !.human = planEvents + 1]
  /\ UNCHANGED <<conf, revs, suggs, cand, cmds, run, loop, dec, cons, vald, streak, pauseVars>>

-----------------------------------------------------------------------------
PlanInit ==
  /\ conf \in {c \in [auto : BOOLEAN, shared : BOOLEAN] : ~(c.auto /\ c.shared)}
  /\ draft = [rev |-> 1, valid |-> TRUE, human |-> 0,
              g |-> [tasks |-> {1, 2}, edges |-> {<<1, 2>>}, dup |-> FALSE,
                     info |-> [t \in PlanTasks |->
                                 IF t \in {1, 2} THEN CHOOSE a \in PlanAgents : TRUE ELSE "none"]]]
  /\ revs = <<"APPLIED">> /\ suggs = <<>> /\ cand = <<>> /\ cmds = <<>>
  /\ run = [status |-> "RUNNING", paused |-> 0, tasks |-> [t \in PlanTasks |-> "PENDING"]]
  /\ loop = Idle /\ dec = [d \in Deciders |-> Idle] /\ cons = Idle /\ vald = Idle
  /\ streak = 0 /\ planEvents = 0 /\ copy = NoCopy /\ unresumed = {} /\ raced = FALSE

PlanNext ==
  \/ \E t \in PlanTasks : StartTask(t) \/ \E s \in {"COMPLETED", "FAILED"} : EndTask(t, s)
  \/ \E d \in Deltas : HandleTaskEvent(d) \/ HumanValidate(d)
  \/ loop.pc = "model" /\ HandleTaskEvent(StubGenerateDelta(loop.g, loop.tasks, loop.task, loop.status))
  \/ TrackerReads \/ PauseRun \/ FetchCandidate \/ HandleRevisePlan \/ ValidatorReads
  \/ CacheReads \/ CachePlanDraft
  \/ \E d \in Deciders :
       \/ \E s \in 1..Len(suggs) : Reject(d, s) \/ Approve(d, s)
       \/ \E delta \in Deltas : ApplyManualPlanRevision(d, delta)
       \/ ApplyRevision(d) \/ ResumeRun(d)
  \/ \E b \in BOOLEAN : ValidatePlanDraft(b)

PlanSpec == PlanInit /\ [][PlanNext]_planVars

-----------------------------------------------------------------------------
(* A draft that carries is_valid and no person's modification is a proper  *)
(* plan: no way back along its edges, every edge between its tasks and     *)
(* every task with an agent, whichever of consumer, validator and cache    *)
(* wrote it last. (A client may store any draft as it is, POST plan-drafts.) *)
DraftConforms ==
  draft.valid /\ draft.human = 0 =>
    /\ \A t \in draft.g.tasks : draft.g.info[t] \in PlanAgents
    /\ draft.g.edges \subseteq draft.g.tasks \X draft.g.tasks
    /\ ~\E C \in (SUBSET draft.g.tasks) \ {{}} :
         \A t \in C : \E u \in C : <<u, t>> \in draft.g.edges

(* A run stays paused only for a suggestion that is open or whose decision *)
(* is being carried out, unless that decision could not end the pause: it  *)
(* came before it, the resume failed, or a tracker wrote the pause back.   *)
(* A later decision on the same suggestion returns at once.                *)
PauseHasReason ==
  run.paused # 0 =>
    \/ suggs[run.paused].status = "PENDING_REVIEW"
    \/ \E d \in Deciders : dec[d].pc # "idle" /\ dec[d].s = run.paused
    \/ run.paused \in unresumed

(* The graph of the draft changes only together with the next revision     *)
(* number or a person's mark, as long as nobody worked on an old draft;    *)
(* an approved suggestion counts from the draft of now, not from its base. *)
RevisionAdvances ==
  [][draft'.g # draft.g =>
       draft'.rev = draft.rev + 1 \/ draft'.human # draft.human \/ raced']_planVars
=============================================================================
