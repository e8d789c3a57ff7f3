-------------------------- MODULE RunTrackerProofs --------------------------
(***************************************************************************)
(* Proofs about RunTracker, for every set of processes, trackers and tasks.*)
(***************************************************************************)
EXTENDS RunTracker, TLAPS

USE DEF EventStatus

(***************************************************************************)
(* Typing.                                                                 *)
(***************************************************************************)

\* A freshly seeded document and the absent document are documents.
LEMMA SeedType == seed_initial_run \in Doc /\ NoDoc \in Doc
BY DEF seed_initial_run, NoDoc, Doc, RunStatus, TaskStatus

\* The idle call is a call.
LEMMA IdleType == Idle \in Call
<1>1. (CHOOSE k \in Tracker : TRUE) \in Tracker /\ (CHOOSE t \in Task : TRUE) \in Task
  BY NonEmpty
<1>. QED BY <1>1, SeedType DEF Idle, Call, PC, Edit

\* What on_task_done writes is a document.
LEMMA AppliedType ==
  ASSUME NEW c \in Call, c.op \in EventStatus
  PROVE  Applied(c) \in Doc
BY DEF Applied, FinalsDone, Reforwarded, model_dump, Call, Doc, RunStatus, TaskStatus

\* What an editor writes is a document.
LEMMA EditedType ==
  ASSUME NEW c \in Call, c.op \in Edit
  PROVE  Edited(c) \in Doc
BY DEF Edited, Call, Doc, Edit
(***************************************************************************)
(* The inductive invariant.  Every copy of the document, stored, archived  *)
(* or in the hands of a process, is one that on_task_done could have       *)
(* decided: that is what makes a stale whole-document replace harmless for *)
(* the relation between run status and task entries.  A call that is past  *)
(* its forward-only test keeps the outcome of that test for its own copy.  *)
(***************************************************************************)
TrackerPC == {"plan", "advance", "upsert", "persist", "notify"}

DocOK(d) ==
  /\ d.status = "COMPLETED" => \A f \in Final : d.task[f] \in EventStatus
  /\ d.status = "FAILED" => \E t \in Task : d.task[t] = "FAILED"

CallOK(c) ==
  /\ c.pc \in TrackerPC =>
       c.op \in EventStatus /\ _forward_only(c.snap.task[c.task], c.op)
  /\ c.pc = "edit" => c.op \in Edit
  /\ DocOK(c.snap)

IInv ==
  /\ TypeOK
  /\ DocOK(hot) /\ DocOK(cold)
  /\ \A p \in Proc : CallOK(call[p])
  /\ Exists(cold) => ~Exists(hot)

\* COMPLETED may overwrite everything but FAILED; FAILED overwrites everything.
LEMMA OrderFacts ==
  ASSUME NEW s \in TaskStatus
  PROVE  /\ _forward_only(s, "COMPLETED") <=> s # "FAILED"
         /\ _forward_only(s, "FAILED")
         /\ _forward_only(s, s)
BY DEF _forward_only, _ORDER, TaskStatus

\* The seeded and the absent document and the idle call satisfy the invariant.
LEMMA SeedOK == DocOK(seed_initial_run) /\ DocOK(NoDoc) /\ CallOK(Idle)
BY DEF DocOK, CallOK, seed_initial_run, NoDoc, Idle, TrackerPC

\* on_task_done turns a consistent copy into a consistent document.
LEMMA AppliedOK ==
  ASSUME NEW c \in Call, CallOK(c), c.pc \in TrackerPC
  PROVE  Applied(c) \in Doc /\ DocOK(Applied(c))
<1>. DEFINE d == Applied(c)
            tasks == [c.snap.task EXCEPT ![c.task] = c.op]
<1>1. c.op \in EventStatus /\ DocOK(c.snap)
  BY DEF CallOK
<1>2. c.snap \in Doc /\ c.task \in Task /\ c.snap.task \in [Task -> TaskStatus]
  BY DEF Call, Doc
<1>3. d \in Doc /\ d.task = tasks
  BY <1>1, AppliedType DEF Applied, FinalsDone, Reforwarded, model_dump, Call, Doc
<1>4. ASSUME d.status = "COMPLETED", NEW f \in Final
      PROVE  d.task[f] \in EventStatus
  BY <1>1, <1>2, <1>3, <1>4, FinalAssumption DEF Applied, FinalsDone, Reforwarded, model_dump, DocOK, Doc
<1>5. ASSUME d.status = "FAILED"
      PROVE  \E t \in Task : d.task[t] = "FAILED"
  <2>1. CASE c.op = "FAILED"
    BY <2>1, <1>2, <1>3
  <2>2. CASE c.op = "COMPLETED"
    <3>1. c.snap.status = "FAILED"
      BY <2>2, <1>2, <1>5 DEF Applied, FinalsDone, Reforwarded, model_dump, Doc
    <3>2. PICK t \in Task : c.snap.task[t] = "FAILED"
      BY <3>1, <1>1 DEF DocOK
    <3>3. c.snap.task[c.task] # "FAILED"
      BY <2>2, <1>2, OrderFacts DEF CallOK
    <3>. QED BY <3>2, <3>3, <1>2, <1>3
  <2>. QED BY <2>1, <2>2, <1>1
<1>. QED BY <1>3, <1>4, <1>5 DEF DocOK

\* An edit turns a consistent copy into a consistent document.
LEMMA EditedOK ==
  ASSUME NEW c \in Call, CallOK(c), c.pc = "edit"
  PROVE  Edited(c) \in Doc /\ DocOK(Edited(c))
<1>1. c.op \in Edit /\ DocOK(c.snap)
  BY DEF CallOK
<1>2. Edited(c).status = c.snap.status /\ Edited(c).task = c.snap.task
  BY <1>1 DEF Edited, Edit, Call, Doc
<1>. QED BY <1>1, <1>2, EditedType DEF DocOK
\* What an update of one process's call has to show.
LEMMA CallUpdate ==
  ASSUME IInv, NEW p \in Proc, NEW c \in Call, CallOK(c),
         call' = [call EXCEPT ![p] = c]
  PROVE  call' \in [Proc -> Call] /\ \A q \in Proc : CallOK(call'[q])
BY DEF IInv, TypeOK

\* Moving a call to another label of on_task_done keeps it well formed.
LEMMA GotoOK ==
  ASSUME NEW c \in Call, CallOK(c), c.pc \in TrackerPC,
         NEW l \in TrackerPC, NEW n \in Nat, NEW m \in BOOLEAN
  PROVE  LET d == [c EXCEPT !.pc = l, !.seen = n, !.moved = m]
         IN  d \in Call /\ CallOK(d)
BY DEF Call, CallOK, TrackerPC, PC

\* Ending a call keeps all calls well formed.
LEMMA ReturnStep ==
  ASSUME IInv, NEW p \in Proc, Return(p)
  PROVE  call' \in [Proc -> Call] /\ \A q \in Proc : CallOK(call'[q])
BY IdleType, SeedOK, CallUpdate DEF Return

\* Moving a call on keeps all calls well formed.
LEMMA GotoStep ==
  ASSUME IInv, NEW p \in Proc, call[p].pc \in TrackerPC,
         NEW l \in TrackerPC, NEW n \in Nat, NEW m \in BOOLEAN,
         call' = [call EXCEPT ![p] = [call[p] EXCEPT !.pc = l, !.seen = n, !.moved = m]]
  PROVE  call' \in [Proc -> Call] /\ \A q \in Proc : CallOK(call'[q])
<1>1. call[p] \in Call /\ CallOK(call[p])
  BY DEF IInv, TypeOK
<1>. QED BY <1>1, GotoOK, CallUpdate

\* The seeded run satisfies the invariant.
LEMMA InitIInv == Init => IInv
<1>. SUFFICES ASSUME Init PROVE IInv
  OBVIOUS
<1>1. TypeOK
  BY SeedType, IdleType DEF Init, TypeOK
<1>2. DocOK(hot) /\ DocOK(cold) /\ \A p \in Proc : CallOK(call[p])
  BY SeedOK DEF Init
<1>3. ~Exists(cold)
  BY DEF Init, Exists, NoDoc, seed_initial_run
<1>. QED BY <1>1, <1>2, <1>3 DEF IInv

\* BeginTaskDone keeps the invariant.
LEMMA BeginTaskDoneIInv ==
  ASSUME IInv, NEW p \in Proc, NEW k \in Tracker, NEW t \in Task,
         NEW s \in EventStatus, BeginTaskDone(p, k, t, s)
  PROVE  IInv'
<1>. DEFINE l == IF s = "FAILED" /\ Reforward THEN "plan" ELSE "persist"
            c == [Idle EXCEPT !.pc = l, !.op = s, !.tracker = k, !.task = t, !.snap = hot]
<1>1. c \in Call
  BY IdleType DEF Call, IInv, TypeOK, PC
<1>2. /\ c.pc \in TrackerPC /\ c.op = s /\ c.task = t /\ c.snap = hot
      /\ c.pc # "edit"
  BY IdleType DEF Call, TrackerPC
<1>3. CallOK(c)
  BY <1>2 DEF CallOK, IInv, BeginTaskDone, Accepts
<1>4. call' \in [Proc -> Call] /\ \A q \in Proc : CallOK(call'[q])
  BY <1>1, <1>3, CallUpdate DEF BeginTaskDone, Accepts
<1>. QED BY <1>4 DEF IInv, TypeOK, BeginTaskDone, Accepts, Exists

\* ReadPlan keeps the invariant.
LEMMA ReadPlanIInv ==
  ASSUME IInv, NEW p \in Proc, ReadPlan(p)
  PROVE  IInv'
<1>1. call' \in [Proc -> Call] /\ \A q \in Proc : CallOK(call'[q])
  <2>1. CASE ~Exists(hot)
    BY <2>1, ReturnStep DEF ReadPlan
  <2>2. CASE Exists(hot)
    <3>. DEFINE l == IF hot.plan THEN "advance" ELSE "persist"
    <3>1. call[p] \in Call
      BY DEF IInv, TypeOK
    <3>2. call' = [call EXCEPT ![p] = [call[p] EXCEPT !.pc = l, !.seen = call[p].seen,
                                                      !.moved = call[p].moved]]
      BY <2>2, <3>1 DEF ReadPlan, Goto, Call
    <3>3. /\ l \in TrackerPC /\ call[p].pc \in TrackerPC
          /\ call[p].seen \in Nat /\ call[p].moved \in BOOLEAN
      BY <3>1 DEF TrackerPC, ReadPlan, Call
    <3>. QED BY <3>2, <3>3, GotoStep
  <2>. QED BY <2>1, <2>2
<1>. QED BY <1>1 DEF IInv, TypeOK, ReadPlan, Exists

\* ReadSequence keeps the invariant.
LEMMA ReadSequenceIInv ==
  ASSUME IInv, NEW p \in Proc, ReadSequence(p)
  PROVE  IInv'
<1>. DEFINE i == cursor[call[p].task]
            l == IF i + 1 >= SeqLen THEN "persist" ELSE "upsert"
<1>1. call[p] \in Call /\ i \in Nat
  BY DEF IInv, TypeOK, Call
<1>2. call' = [call EXCEPT ![p] = [call[p] EXCEPT !.pc = l, !.seen = i,
                                                  !.moved = call[p].moved]]
  BY <1>1 DEF ReadSequence, Call
<1>3. l \in TrackerPC /\ call[p].pc \in TrackerPC /\ call[p].moved \in BOOLEAN
  BY <1>1 DEF TrackerPC, ReadSequence, Call
<1>4. call' \in [Proc -> Call] /\ \A q \in Proc : CallOK(call'[q])
  BY <1>1, <1>2, <1>3, GotoStep
<1>. QED BY <1>4 DEF IInv, TypeOK, ReadSequence, Exists

\* UpsertSequence keeps the invariant.
LEMMA UpsertSequenceIInv ==
  ASSUME IInv, NEW p \in Proc, UpsertSequence(p)
  PROVE  IInv'
<1>1. call[p] \in Call /\ call[p].seen \in Nat
  BY DEF IInv, TypeOK, Call
<1>2. call' = [call EXCEPT ![p] = [call[p] EXCEPT !.pc = "persist", !.seen = call[p].seen,
                                                  !.moved = TRUE]]
  BY <1>1 DEF UpsertSequence, NextIndex, Call
<1>3. "persist" \in TrackerPC /\ call[p].pc \in TrackerPC
  BY DEF TrackerPC, UpsertSequence, NextIndex
<1>4. call' \in [Proc -> Call] /\ \A q \in Proc : CallOK(call'[q])
  BY <1>1, <1>2, <1>3, GotoStep
<1>5. cursor' \in [Task -> Nat] /\ awards' \in [Task -> Nat]
  BY <1>1 DEF UpsertSequence, NextIndex, IInv, TypeOK, Call
<1>. QED BY <1>4, <1>5 DEF IInv, TypeOK, UpsertSequence, NextIndex, Exists

\* Persist keeps the invariant.
LEMMA PersistIInv ==
  ASSUME IInv, NEW p \in Proc, Persist(p)
  PROVE  IInv'
<1>1. /\ call[p] \in Call /\ CallOK(call[p]) /\ call[p].pc \in TrackerPC
  BY DEF IInv, TypeOK, Persist, TrackerPC
<1>2. hot' \in Doc /\ DocOK(hot') /\ (~Exists(hot) => hot' = hot)
  BY <1>1, AppliedOK DEF Persist, update_run, IInv, TypeOK
<1>3. call' \in [Proc -> Call] /\ \A q \in Proc : CallOK(call'[q])
  <2>1. CASE ~Exists(hot)
    BY <2>1, ReturnStep DEF Persist
  <2>2. CASE Exists(hot)
    <3>1. call' = [call EXCEPT ![p] = [call[p] EXCEPT !.pc = "notify", !.seen = call[p].seen,
                                                      !.moved = call[p].moved]]
      BY <2>2, <1>1 DEF Persist, Goto, Call
    <3>2. "notify" \in TrackerPC /\ call[p].seen \in Nat /\ call[p].moved \in BOOLEAN
      BY <1>1 DEF TrackerPC, Call
    <3>. QED BY <1>1, <3>1, <3>2, GotoStep
  <2>. QED BY <2>1, <2>2
<1>. QED BY <1>2, <1>3 DEF IInv, TypeOK, Persist, Exists

\* Notify keeps the invariant.
LEMMA NotifyIInv ==
  ASSUME IInv, NEW p \in Proc, Notify(p)
  PROVE  IInv'
<1>1. call' \in [Proc -> Call] /\ \A q \in Proc : CallOK(call'[q])
  BY ReturnStep DEF Notify
<1>2. /\ call[p].tracker \in Tracker
      /\ _event_key(call[p].task, call[p].op) \in Task \X EventStatus
  BY DEF IInv, TypeOK, Call, CallOK, TrackerPC, Notify, _event_key
<1>3. dedupe' \in [Tracker -> SUBSET (Task \X EventStatus)]
  <2>. DEFINE k == call[p].tracker
              x == _event_key(call[p].task, call[p].op)
  <2>1. PICK kept \in SUBSET dedupe[k] : dedupe' = [dedupe EXCEPT ![k] = kept \cup {x}]
    BY DEF Notify, Remember
  <2>2. dedupe \in [Tracker -> SUBSET (Task \X EventStatus)]
    BY DEF IInv, TypeOK
  <2>3. kept \cup {x} \in SUBSET (Task \X EventStatus)
    BY <1>2, <2>2
  <2>. HIDE DEF k, x
  <2>. QED BY <2>1, <2>2, <2>3
<1>4. stops' \in Nat
  BY DEF Notify, IInv, TypeOK
<1>. QED BY <1>1, <1>3, <1>4 DEF IInv, TypeOK, Notify, Exists

\* BeginEdit keeps the invariant.
LEMMA BeginEditIInv ==
  ASSUME IInv, NEW p \in Proc, NEW e \in Edits, BeginEdit(p, e)
  PROVE  IInv'
<1>. DEFINE c == [Idle EXCEPT !.pc = "edit", !.op = e, !.snap = hot]
<1>1. c \in Call /\ e \in Edit
  BY IdleType, EditsAssumption DEF Call, IInv, TypeOK, PC, Edit
<1>2. c.pc = "edit" /\ c.op = e /\ c.snap = hot
  BY IdleType DEF Call
<1>3. CallOK(c)
  BY <1>1, <1>2 DEF CallOK, IInv, TrackerPC
<1>4. call' \in [Proc -> Call] /\ \A q \in Proc : CallOK(call'[q])
  BY <1>1, <1>3, CallUpdate DEF BeginEdit
<1>. QED BY <1>4 DEF IInv, TypeOK, BeginEdit, Exists

\* FinishEdit keeps the invariant.
LEMMA FinishEditIInv ==
  ASSUME IInv, NEW p \in Proc, FinishEdit(p)
  PROVE  IInv'
<1>1. call[p] \in Call /\ CallOK(call[p]) /\ call[p].pc = "edit"
  BY DEF IInv, TypeOK, FinishEdit
<1>2. hot' \in Doc /\ DocOK(hot') /\ (~Exists(hot) => hot' = hot)
  BY <1>1, EditedOK DEF FinishEdit, update_run, IInv, TypeOK
<1>3. call' \in [Proc -> Call] /\ \A q \in Proc : CallOK(call'[q])
  BY ReturnStep DEF FinishEdit
<1>. QED BY <1>2, <1>3 DEF IInv, TypeOK, FinishEdit, Exists

\* Archiving a run keeps the invariant.
LEMMA FinalizeIInv == ASSUME IInv, finalize_run PROVE IInv'
<1>1. hot' \in Doc /\ DocOK(hot') /\ ~Exists(hot')
  BY SeedType, SeedOK DEF finalize_run, Exists, NoDoc, seed_initial_run
<1>2. cold' \in Doc /\ DocOK(cold')
  BY DEF finalize_run, IInv, TypeOK
<1>. QED BY <1>1, <1>2 DEF IInv, TypeOK, finalize_run

\* Forget keeps the invariant.
LEMMA ForgetIInv ==
  ASSUME IInv, NEW k \in Tracker, Forget(k)
  PROVE  IInv'
<1>1. dedupe' \in [Tracker -> SUBSET (Task \X EventStatus)]
  BY DEF Forget, IInv, TypeOK
<1>. QED BY <1>1 DEF IInv, TypeOK, Forget, Exists

\* A store error and a crash keep the invariant.
LEMMA FaultIInv ==
  ASSUME IInv, NEW p \in Proc, StoreError(p) \/ Crash(p)
  PROVE  IInv'
<1>1. call' \in [Proc -> Call] /\ \A q \in Proc : CallOK(call'[q])
  BY ReturnStep DEF StoreError, Crash
<1>2. dedupe' \in [Tracker -> SUBSET (Task \X EventStatus)]
  BY DEF StoreError, Crash, IInv, TypeOK
<1>. QED BY <1>1, <1>2 DEF IInv, TypeOK, StoreError, Crash, Exists

\* Every step keeps the invariant.
LEMMA NextIInv == ASSUME IInv, [Next]_vars PROVE IInv'
<1>1. ASSUME NEW p \in Proc, TaskDone(p) PROVE IInv'
  BY <1>1, BeginTaskDoneIInv, ReadPlanIInv, ReadSequenceIInv, UpsertSequenceIInv,
     PersistIInv, NotifyIInv DEF TaskDone
<1>2. CASE UNCHANGED vars
  BY <1>2 DEF vars, IInv, TypeOK, Exists
<1>. QED
  BY <1>1, <1>2, BeginEditIInv, FinishEditIInv, FinalizeIInv, ForgetIInv, FaultIInv
  DEF Next

(***************************************************************************)
(* The invariant and what follows from it.                                 *)
(***************************************************************************)

\* The inductive invariant holds in every reachable state.
THEOREM Invariance == Spec => []IInv
<1>. QED BY InitIInv, NextIInv, PTL DEF Spec

\* Every reachable state of RunTracker is well typed, whatever the numbers of
\* processes, trackers, tasks and candidates.
THEOREM TypeCorrect == Spec => []TypeOK
<1>1. IInv => TypeOK
  BY DEF IInv
<1>. QED BY <1>1, Invariance, PTL

\* A COMPLETED run document, hot or archived, has a result for every final
\* task, for any interleaving of any number of processes that replace the
\* document without CAS.
THEOREM CompletedRuns == Spec => []CompletedMeansFinalsReported
<1>1. IInv => CompletedMeansFinalsReported
  BY DEF IInv, DocOK, CompletedMeansFinalsReported
<1>. QED BY <1>1, Invariance, PTL

\* A FAILED run document always contains a FAILED task.
THEOREM FailedRuns == Spec => []FailedMeansTaskFailed
<1>1. IInv => FailedMeansTaskFailed
  BY DEF IInv, DocOK, FailedMeansTaskFailed
<1>. QED BY <1>1, Invariance, PTL

\* Nothing written after finalize_run changes the archive or brings the hot
\* document back: update_run replaces, it never inserts.
THEOREM ArchivedRuns == Spec => ArchiveIsFinal
<1>1. ASSUME IInv, [Next]_vars, Exists(cold) PROVE cold' = cold /\ ~Exists(hot')
  <2>1. ~Exists(hot)
    BY <1>1 DEF IInv
  <2>2. hot' = hot /\ cold' = cold
    BY <1>1, <2>1 DEF Next, vars, TaskDone, BeginTaskDone, Accepts, ReadPlan, ReadSequence,
       UpsertSequence, NextIndex, Persist, Notify, BeginEdit, FinishEdit, finalize_run, Forget,
       StoreError, Crash, update_run
  <2>. QED BY <2>1, <2>2 DEF Exists
<1>. QED BY <1>1, Invariance, PTL DEF Spec, ArchiveIsFinal
(***************************************************************************)
(* One event loop.  A call that has read the document and not yet written  *)
(* it still holds the stored document, unless the run was archived in the  *)
(* meantime: nobody else can have written it.                              *)
(***************************************************************************)
OneLoop == \A p, q \in Proc : p = q

Reading == {"plan", "advance", "upsert", "persist", "edit"}

Fresh(c) == c.pc \in Reading => Exists(c.snap) /\ (Exists(hot) => c.snap = hot)

FreshInv == IInv /\ \A p \in Proc : Fresh(call[p])

\* The idle call holds no copy of the document.
LEMMA IdleNotReading == Idle.pc \notin Reading /\ Idle.pc # "notify"
BY DEF Idle, Reading

\* The seeded run satisfies FreshInv.
LEMMA FreshInit == Init => FreshInv
<1>. SUFFICES ASSUME Init PROVE FreshInv
  OBVIOUS
<1>1. \A p \in Proc : Fresh(call[p])
  BY IdleNotReading DEF Init, Fresh
<1>. QED BY <1>1, InitIInv DEF FreshInv

\* A step that starts a call, given the record of the call.
LEMMA FreshStart ==
  ASSUME OneLoop, FreshInv, NEW p \in Proc, NEW c, c.snap = hot, Exists(hot),
         call' = [call EXCEPT ![p] = c], hot' = hot
  PROVE  \A q \in Proc : Fresh(call[q])'
<1>1. call'[p] = c
  BY DEF FreshInv, IInv, TypeOK
<1>. QED BY <1>1 DEF Fresh, Exists, OneLoop

\* A step that ends the only call.
LEMMA FreshReturn ==
  ASSUME OneLoop, FreshInv, NEW p \in Proc, Return(p)
  PROVE  \A q \in Proc : Fresh(call[q])'
<1>1. call'[p] = Idle
  BY DEF Return, FreshInv, IInv, TypeOK
<1>. QED BY <1>1, IdleNotReading DEF Fresh, OneLoop

\* A step of a call that neither reads nor writes the document anew.
LEMMA FreshGoto ==
  ASSUME OneLoop, FreshInv, NEW p \in Proc, call[p].pc \in Reading, hot' = hot,
         call'[p].snap = call[p].snap
  PROVE  \A q \in Proc : Fresh(call[q])'
BY DEF FreshInv, Fresh, OneLoop, Exists

\* Every step of a single event loop keeps FreshInv.
LEMMA FreshNext ==
  ASSUME OneLoop, FreshInv, [Next]_vars
  PROVE  FreshInv'
<1>1. IInv'
  BY NextIInv DEF FreshInv
<1>2. \A q \in Proc : Fresh(call[q])'
  <2>0. call \in [Proc -> Call]
    BY DEF FreshInv, IInv, TypeOK
  <2>1. ASSUME NEW p \in Proc, NEW k \in Tracker, NEW t \in Task, NEW s \in EventStatus,
               BeginTaskDone(p, k, t, s)
        PROVE  \A q \in Proc : Fresh(call[q])'
    <3>. DEFINE l == IF s = "FAILED" /\ Reforward THEN "plan" ELSE "persist"
                c == [Idle EXCEPT !.pc = l, !.op = s, !.tracker = k, !.task = t, !.snap = hot]
    <3>1. c.snap = hot
      BY IdleType DEF Call
    <3>2. call' = [call EXCEPT ![p] = c] /\ Exists(hot) /\ hot' = hot
      BY <2>1 DEF BeginTaskDone, Accepts
    <3>. HIDE DEF c
    <3>. QED BY <3>1, <3>2, FreshStart
  <2>2. ASSUME NEW p \in Proc, ReadPlan(p) PROVE \A q \in Proc : Fresh(call[q])'
    <3>1. CASE ~Exists(hot)
      BY <2>2, <3>1, FreshReturn DEF ReadPlan
    <3>2. CASE Exists(hot)
      <4>1. call'[p].snap = call[p].snap
        BY <2>0, <2>2, <3>2 DEF ReadPlan, Goto, Call
      <4>. QED BY <2>2, <4>1, FreshGoto DEF ReadPlan, Reading
    <3>. QED BY <3>1, <3>2
  <2>3. ASSUME NEW p \in Proc, ReadSequence(p) PROVE \A q \in Proc : Fresh(call[q])'
    <3>1. call'[p].snap = call[p].snap
      BY <2>0, <2>3 DEF ReadSequence, Call
    <3>. QED BY <2>3, <3>1, FreshGoto DEF ReadSequence, Reading
  <2>4. ASSUME NEW p \in Proc, UpsertSequence(p) PROVE \A q \in Proc : Fresh(call[q])'
    <3>1. call'[p].snap = call[p].snap
      BY <2>0, <2>4 DEF UpsertSequence, NextIndex, Call
    <3>. QED BY <2>4, <3>1, FreshGoto DEF UpsertSequence, NextIndex, Reading
  <2>5. ASSUME NEW p \in Proc, Persist(p) PROVE \A q \in Proc : Fresh(call[q])'
    <3>1. CASE ~Exists(hot)
      BY <2>5, <3>1, FreshReturn DEF Persist
    <3>2. CASE Exists(hot)
      <4>1. call'[p].pc = "notify"
        BY <2>0, <2>5, <3>2 DEF Persist, Goto, Call
      <4>. QED BY <4>1 DEF Fresh, Reading, OneLoop
    <3>. QED BY <3>1, <3>2
  <2>6. ASSUME NEW p \in Proc, Notify(p) \/ FinishEdit(p) \/ StoreError(p) \/ Crash(p)
        PROVE  \A q \in Proc : Fresh(call[q])'
    BY <2>6, FreshReturn DEF Notify, FinishEdit, StoreError, Crash
  <2>7. ASSUME NEW p \in Proc, NEW e \in Edits, BeginEdit(p, e)
        PROVE  \A q \in Proc : Fresh(call[q])'
    <3>. DEFINE c == [Idle EXCEPT !.pc = "edit", !.op = e, !.snap = hot]
    <3>1. c.snap = hot
      BY IdleType DEF Call
    <3>2. call' = [call EXCEPT ![p] = c] /\ Exists(hot) /\ hot' = hot
      BY <2>7 DEF BeginEdit
    <3>. HIDE DEF c
    <3>. QED BY <3>1, <3>2, FreshStart
  <2>8. CASE finalize_run
    <3>1. ~Exists(hot')
      BY <2>8 DEF finalize_run, Exists, NoDoc, seed_initial_run
    <3>. QED BY <2>8, <3>1 DEF finalize_run, FreshInv, Fresh, Exists
  <2>9. ASSUME NEW k \in Tracker, Forget(k) PROVE \A q \in Proc : Fresh(call[q])'
    BY <2>9 DEF Forget, FreshInv, Fresh, Exists
  <2>10. CASE UNCHANGED vars
    BY <2>10 DEF vars, FreshInv, Fresh, Exists
  <2>. QED BY <2>1, <2>2, <2>3, <2>4, <2>5, <2>6, <2>7, <2>8, <2>9, <2>10 DEF Next, TaskDone
<1>. QED BY <1>1, <1>2 DEF FreshInv

\* What a step of a single event loop does to the stored document: it leaves
\* it alone, archives it, or applies one event or one edit to it.
LEMMA DocumentStep ==
  ASSUME FreshInv, [Next]_vars, Exists(hot')
  PROVE  \/ hot' = hot
         \/ \E p \in Proc : /\ call[p].pc = "persist" /\ call[p].snap = hot
                            /\ hot' = Applied(call[p])
         \/ \E p \in Proc : /\ call[p].pc = "edit" /\ call[p].snap = hot
                            /\ hot' = Edited(call[p])
<1>1. ASSUME NEW p \in Proc, Persist(p), hot' # hot
      PROVE  call[p].pc = "persist" /\ call[p].snap = hot /\ hot' = Applied(call[p])
  BY <1>1 DEF Persist, update_run, FreshInv, Fresh, Reading
<1>2. ASSUME NEW p \in Proc, FinishEdit(p), hot' # hot
      PROVE  call[p].pc = "edit" /\ call[p].snap = hot /\ hot' = Edited(call[p])
  BY <1>2 DEF FinishEdit, update_run, FreshInv, Fresh, Reading
<1>3. ~finalize_run
  BY DEF finalize_run, Exists, NoDoc, seed_initial_run
<1>. QED BY <1>1, <1>2, <1>3 DEF Next, vars, TaskDone, BeginTaskDone, Accepts, ReadPlan,
            ReadSequence, UpsertSequence, NextIndex, Notify, BeginEdit, Forget, StoreError, Crash

\* With one event loop every copy in use is the stored document.
LEMMA FreshInvariance == ASSUME OneLoop PROVE Spec => []FreshInv
<1>. QED BY FreshInit, FreshNext, PTL DEF Spec

\* With one event loop no stored task entry ever moves back.
THEOREM TasksMoveForward == ASSUME OneLoop PROVE Spec => ForwardOnly
<1>1. ASSUME FreshInv, [Next]_vars, Exists(hot')
      PROVE  \A t \in Task : _forward_only(hot.task[t], hot'.task[t])
  <2>. TAKE t \in Task
  <2>0. hot \in Doc /\ hot.task[t] \in TaskStatus
    BY <1>1 DEF FreshInv, IInv, TypeOK, Doc
  <2>1. CASE hot' = hot
    BY <2>0, <2>1, OrderFacts
  <2>2. ASSUME NEW p \in Proc, call[p].pc = "persist", call[p].snap = hot,
               hot' = Applied(call[p])
        PROVE  _forward_only(hot.task[t], hot'.task[t])
    <3>1. /\ call[p].op \in EventStatus
          /\ _forward_only(hot.task[call[p].task], call[p].op)
      BY <1>1, <2>2 DEF FreshInv, IInv, CallOK, TrackerPC
    <3>2. hot'.task = [hot.task EXCEPT ![call[p].task] = call[p].op]
      BY <2>0, <2>2 DEF Applied, FinalsDone, Reforwarded, model_dump, Doc
    <3>. QED BY <2>0, <3>1, <3>2, OrderFacts DEF Doc
  <2>3. ASSUME NEW p \in Proc, call[p].pc = "edit", call[p].snap = hot,
               hot' = Edited(call[p])
        PROVE  _forward_only(hot.task[t], hot'.task[t])
    <3>1. call[p].op \in Edit
      BY <1>1, <2>3 DEF FreshInv, IInv, CallOK
    <3>2. hot'.task = hot.task
      BY <2>0, <2>3, <3>1 DEF Edited, Edit, Doc
    <3>. QED BY <2>0, <3>2, OrderFacts
  <2>. QED BY <1>1, <2>1, <2>2, <2>3, DocumentStep
<1>. QED BY <1>1, FreshInvariance, PTL DEF Spec, ForwardOnly

\* With one event loop a tracker never clears the pause flag.
THEOREM PauseIsKept == ASSUME OneLoop PROVE Spec => PauseKept
<1>1. ASSUME FreshInv, [Next]_vars, hot.paused /\ Exists(hot') /\ ~hot'.paused
      PROVE  \E p \in Proc : call[p].pc = "edit" /\ call[p].op = "resume"
  <2>0. hot \in Doc
    BY <1>1 DEF FreshInv, IInv, TypeOK
  <2>1. ASSUME NEW p \in Proc, call[p].snap = hot, hot' = Applied(call[p])
        PROVE  hot'.paused = hot.paused
    BY <2>0, <2>1 DEF Applied, FinalsDone, Reforwarded, model_dump, Doc
  <2>2. ASSUME NEW p \in Proc, call[p].pc = "edit", call[p].snap = hot,
               hot' = Edited(call[p])
        PROVE  call[p].op = "resume"
    <3>1. call[p].op \in Edit
      BY <1>1, <2>2 DEF FreshInv, IInv, CallOK
    <3>. QED BY <1>1, <2>0, <2>2, <3>1 DEF Edited, Edit, Doc
  <2>. QED BY <1>1, <2>1, <2>2, DocumentStep
<1>. QED BY <1>1, FreshInvariance, PTL DEF Spec, PauseKept

(***************************************************************************)
(* Stop commands, without faults.  Until the call that makes the run       *)
(* terminal reaches its last step, the count is still that of the document *)
(* it read.                                                                *)
(***************************************************************************)
StopCount(d) == IF Terminal(d) THEN 1 ELSE 0

StopInv ==
  /\ FreshInv
  /\ Exists(RunDoc)
  /\ \A p \in Proc :
       IF call[p].pc = "notify"
       THEN /\ Exists(call[p].snap) /\ RunDoc = Applied(call[p])
            /\ stops = StopCount(call[p].snap)
       ELSE stops = StopCount(RunDoc)

\* The last step of a call adds exactly the missing stop.
LEMMA EmitsTheDifference ==
  ASSUME NEW c \in Call, Exists(c.snap), c.op \in EventStatus
  PROVE  StopCount(Applied(c)) = StopCount(c.snap) + (IF EmitsStops(c) THEN 1 ELSE 0)
<1>1. Applied(c).status \in {c.snap.status, "COMPLETED", "FAILED"}
  BY DEF Applied, FinalsDone, Reforwarded, model_dump, Call, Doc
<1>2. c.snap.status \in RunStatus
  BY DEF Call, Doc, Exists
<1>. QED BY <1>1, <1>2 DEF StopCount, EmitsStops, Terminal, RunStatus

\* The seeded run satisfies StopInv.
LEMMA StopInit == Init => StopInv
<1>. SUFFICES ASSUME Init PROVE StopInv
  OBVIOUS
<1>1. RunDoc = seed_initial_run /\ Exists(RunDoc) /\ StopCount(RunDoc) = 0
  BY DEF Init, RunDoc, Exists, NoDoc, seed_initial_run, StopCount, Terminal
<1>2. \A p \in Proc : call[p].pc # "notify" /\ stops = 0
  BY IdleNotReading DEF Init
<1>. QED BY <1>1, <1>2, FreshInit DEF StopInv

\* A step that changes neither the run nor the count, and does not enter or
\* leave the last step of a call.
LEMMA StopQuiet ==
  ASSUME OneLoop, StopInv, FreshInv', NEW p \in Proc, RunDoc' = RunDoc, stops' = stops,
         call[p].pc # "notify", call'[p].pc # "notify"
  PROVE  StopInv'
BY DEF StopInv, OneLoop, StopCount, Exists, Terminal

\* Every fault-free step of a single event loop keeps StopInv.
LEMMA StopNext ==
  ASSUME OneLoop, ~Faults, StopInv, [Next]_vars
  PROVE  StopInv'
<1>0. /\ FreshInv /\ FreshInv' /\ call \in [Proc -> Call]
  BY FreshNext DEF StopInv, FreshInv, IInv, TypeOK
<1>1. ASSUME NEW p \in Proc, NEW k \in Tracker, NEW t \in Task, NEW s \in EventStatus,
             BeginTaskDone(p, k, t, s)
      PROVE  StopInv'
  <2>1. call'[p].pc # "notify"
    BY <1>0, <1>1, IdleType DEF BeginTaskDone, Accepts, Call
  <2>. QED BY <1>0, <1>1, <2>1, StopQuiet DEF BeginTaskDone, Accepts, RunDoc, Exists
<1>2. ASSUME NEW p \in Proc, NEW e \in Edits, BeginEdit(p, e) PROVE StopInv'
  <2>1. call'[p].pc # "notify"
    BY <1>0, <1>2, IdleType DEF BeginEdit, Call
  <2>. QED BY <1>0, <1>2, <2>1, StopQuiet DEF BeginEdit, RunDoc, Exists
<1>3. ASSUME NEW p \in Proc, ReadPlan(p) PROVE StopInv'
  <2>1. call'[p].pc # "notify"
    BY <1>0, <1>3, IdleNotReading DEF ReadPlan, Goto, Return, Call
  <2>. QED BY <1>0, <1>3, <2>1, StopQuiet DEF ReadPlan, RunDoc, Exists
<1>4. ASSUME NEW p \in Proc, ReadSequence(p) \/ UpsertSequence(p) PROVE StopInv'
  <2>1. call'[p].pc # "notify"
    BY <1>0, <1>4 DEF ReadSequence, UpsertSequence, NextIndex, Call
  <2>. QED BY <1>0, <1>4, <2>1, StopQuiet DEF ReadSequence, UpsertSequence, NextIndex, RunDoc, Exists
<1>5. ASSUME NEW p \in Proc, Persist(p) PROVE StopInv'
  <2>1. CASE ~Exists(hot)
    <3>1. call'[p] = Idle /\ hot' = hot
      BY <1>0, <1>5, <2>1 DEF Persist, Return, update_run
    <3>. QED BY <1>0, <1>5, <3>1, IdleNotReading, StopQuiet DEF Persist, RunDoc, Exists
  <2>2. CASE Exists(hot)
    <3>1. /\ call[p].snap = hot /\ hot' = Applied(call[p]) /\ call'[p].pc = "notify"
          /\ call'[p] = [call[p] EXCEPT !.pc = "notify"]
      BY <1>0, <1>5, <2>2 DEF Persist, Goto, update_run, FreshInv, Fresh, Reading, Call
    <3>2. call[p] \in Call /\ call[p].op \in EventStatus
      BY <1>0, <1>5 DEF FreshInv, IInv, CallOK, TrackerPC, Persist
    <3>3. Applied(call'[p]) = Applied(call[p]) /\ call'[p].snap = hot
      BY <3>1, <3>2 DEF Applied, FinalsDone, Reforwarded, model_dump, Call
    <3>4. ~Exists(cold) /\ cold' = cold /\ stops' = stops
      BY <1>0, <1>5, <2>2 DEF FreshInv, IInv, Persist
    <3>5. RunDoc = hot /\ RunDoc' = hot' /\ stops = StopCount(hot)
      BY <1>5, <3>4 DEF RunDoc, Exists, StopInv, Persist
    <3>6. Exists(hot')
      BY <2>2, <3>1, <3>2 DEF Applied, FinalsDone, Reforwarded, model_dump, Exists, Call, Doc
    <3>. QED BY <1>0, <2>2, <3>1, <3>3, <3>4, <3>5, <3>6
         DEF StopInv, OneLoop, StopCount, Terminal, Exists
  <2>. QED BY <2>1, <2>2
<1>6. ASSUME NEW p \in Proc, Notify(p) PROVE StopInv'
  <2>1. /\ call[p] \in Call /\ call[p].op \in EventStatus /\ Exists(call[p].snap)
        /\ RunDoc = Applied(call[p]) /\ stops = StopCount(call[p].snap)
    BY <1>0, <1>6 DEF FreshInv, IInv, CallOK, TrackerPC, Notify, StopInv
  <2>2. stops' = StopCount(RunDoc)
    BY <1>6, <2>1, EmitsTheDifference DEF Notify, StopCount
  <2>3. RunDoc' = RunDoc
    BY <1>6 DEF Notify, RunDoc, Exists
  <2>4. call'[p].pc # "notify"
    BY <1>0, <1>6, IdleNotReading DEF Notify, Return
  <2>. QED BY <1>0, <2>2, <2>3, <2>4 DEF StopInv, OneLoop, StopCount, Exists, Terminal
<1>7. ASSUME NEW p \in Proc, FinishEdit(p) PROVE StopInv'
  <2>1. call'[p].pc # "notify" /\ call[p].pc # "notify"
    BY <1>0, <1>7, IdleNotReading DEF FinishEdit, Return
  <2>2. CASE ~Exists(hot)
    BY <1>0, <1>7, <2>1, <2>2, StopQuiet DEF FinishEdit, update_run, RunDoc, Exists
  <2>3. CASE Exists(hot)
    <3>1. call[p].snap = hot /\ hot' = Edited(call[p]) /\ call[p].op \in Edit
      BY <1>0, <1>7, <2>3 DEF FinishEdit, update_run, FreshInv, Fresh, Reading, IInv, CallOK
    <3>2. hot'.status = hot.status
      BY <1>0, <3>1 DEF Edited, Edit, FreshInv, IInv, TypeOK, Doc
    <3>3. ~Exists(cold) /\ cold' = cold /\ stops' = stops
      BY <1>0, <1>7, <2>3 DEF FreshInv, IInv, FinishEdit
    <3>4. RunDoc'.status = RunDoc.status
      BY <3>2, <3>3 DEF RunDoc, Exists
    <3>. QED BY <1>0, <2>1, <3>3, <3>4 DEF StopInv, OneLoop, StopCount, Exists, Terminal
  <2>. QED BY <2>2, <2>3
<1>8. CASE finalize_run
  <2>1. RunDoc' = RunDoc /\ call' = call /\ stops' = stops
    BY <1>8 DEF finalize_run, RunDoc, Exists, Terminal
  <2>. QED BY <1>0, <2>1 DEF StopInv, StopCount, Exists, Terminal
<1>9. ASSUME NEW k \in Tracker, Forget(k) PROVE StopInv'
  BY <1>0, <1>9 DEF Forget, StopInv, RunDoc, StopCount, Exists, Terminal
<1>10. CASE UNCHANGED vars
  BY <1>0, <1>10 DEF vars, StopInv, RunDoc, StopCount, Exists, Terminal
<1>. QED BY <1>1, <1>2, <1>3, <1>4, <1>5, <1>6, <1>7, <1>8, <1>9, <1>10
         DEF Next, TaskDone, StoreError, Crash

\* With one event loop and no faults, the stop commands of a run have been
\* emitted exactly once when its status is terminal and no call is about to
\* emit them.
THEOREM StopsOnce == ASSUME OneLoop, ~Faults PROVE Spec => []StopsExactlyOnce
<1>1. StopInv => StopsExactlyOnce
  <2>1. Proc # {}
    BY NonEmpty, ProcOfAssumption
  <2>. QED BY <2>1 DEF StopInv, StopsExactlyOnce, StopCount
<1>. QED BY <1>1, StopInit, StopNext, PTL DEF Spec

(***************************************************************************)
(* With faults.  A store error or a crash in the last step of a call loses *)
(* the stop commands, so the count may stay behind the document, but never *)
(* runs ahead of it; and a call that is about to advance a sequence has    *)
(* read the index that is still stored.                                    *)
(***************************************************************************)
StopsBehind ==
  \A p \in Proc :
    IF call[p].pc = "notify"
    THEN /\ Exists(call[p].snap) /\ RunDoc = Applied(call[p])
         /\ stops <= StopCount(call[p].snap)
    ELSE stops <= StopCount(RunDoc)

SequencesHeld ==
  /\ AwardsWithinSequence
  /\ \A p \in Proc : call[p].pc = "upsert" =>
       call[p].seen = cursor[call[p].task] /\ call[p].seen + 1 < SeqLen

OnceInv == FreshInv /\ Exists(RunDoc) /\ StopsBehind /\ SequencesHeld

LEMMA OnceInit == Init => OnceInv
<1>. SUFFICES ASSUME Init PROVE OnceInv
  OBVIOUS
<1>1. StopInv /\ stops \in Nat
  BY StopInit DEF Init
<1>2. \A p \in Proc : call[p].pc # "upsert" /\ call[p].pc # "notify"
  BY IdleNotReading DEF Init, Reading
<1>3. StopsBehind
  BY <1>1, <1>2 DEF StopInv, StopsBehind
<1>4. SequencesHeld
  BY <1>2 DEF SequencesHeld, AwardsWithinSequence, Init
<1>. QED BY <1>1, <1>3, <1>4 DEF OnceInv, StopInv

\* Only the two steps of advance_evaluation_sequence touch what SequencesHeld is about.
LEMMA SequencesNext == ASSUME OneLoop, OnceInv, [Next]_vars PROVE SequencesHeld'
<1>0. /\ IInv /\ call \in [Proc -> Call] /\ cursor \in [Task -> Nat] /\ awards \in [Task -> Nat]
      /\ SequencesHeld /\ SeqLen \in Nat
  BY SeqLenAssumption DEF OnceInv, FreshInv, IInv, TypeOK
<1>1. ASSUME NEW p \in Proc, ReadSequence(p) PROVE SequencesHeld'
  <2>1. /\ call[p] \in Call /\ call[p].task \in Task /\ UNCHANGED <<cursor, awards>>
        /\ cursor[call[p].task] \in Nat
    BY <1>0, <1>1 DEF ReadSequence, Call
  <2>2. /\ call'[p].seen = cursor[call[p].task] /\ call'[p].task = call[p].task
        /\ call'[p].pc = "upsert" => cursor[call[p].task] + 1 < SeqLen
    BY <1>0, <1>1, <2>1 DEF ReadSequence, Call
  <2>. QED BY <1>0, <2>1, <2>2 DEF SequencesHeld, AwardsWithinSequence, OneLoop
<1>2. ASSUME NEW p \in Proc, UpsertSequence(p) PROVE SequencesHeld'
  <2>1. PICK t, n : t = call[p].task /\ n = call[p].seen /\ t \in Task /\ n \in Nat
    BY <1>0 DEF Call
  <2>2. n = cursor[t] /\ n + 1 < SeqLen
    BY <1>0, <1>2, <2>1 DEF SequencesHeld, UpsertSequence
  <2>3. /\ cursor' = [cursor EXCEPT ![t] = n + 1]
        /\ awards' = [awards EXCEPT ![t] = awards[t] + 1] \/ awards' = awards
        /\ call'[p].pc = "persist"
    BY <1>0, <1>2, <2>1 DEF UpsertSequence, NextIndex, Call
  <2>4. ASSUME NEW u \in Task PROVE awards'[u] <= cursor'[u] /\ (cursor'[u] = 0 \/ cursor'[u] < SeqLen)
    <3>1. awards[u] <= cursor[u] /\ (cursor[u] = 0 \/ cursor[u] < SeqLen) /\ awards[u] \in Nat /\ cursor[u] \in Nat
      BY <1>0 DEF SequencesHeld, AwardsWithinSequence
    <3>2. awards'[u] \in {awards[u], IF u = t THEN awards[u] + 1 ELSE awards[u]}
      BY <1>0, <2>3
    <3>3. cursor'[u] = IF u = t THEN n + 1 ELSE cursor[u]
      BY <1>0, <2>3
    <3>. QED BY <1>0, <2>1, <2>2, <3>1, <3>2, <3>3
  <2>. QED BY <2>3, <2>4 DEF SequencesHeld, AwardsWithinSequence, OneLoop
<1>3. ASSUME UNCHANGED <<cursor, awards>>,
             \A p \in Proc : call'[p].pc = "upsert" => call'[p] = call[p]
      PROVE  SequencesHeld'
  BY <1>0, <1>3 DEF SequencesHeld, AwardsWithinSequence
<1>4. ASSUME NEW p \in Proc, NEW k \in Tracker, NEW t \in Task, NEW s \in EventStatus,
             BeginTaskDone(p, k, t, s)
      PROVE  SequencesHeld'
  <2>1. call'[p].pc # "upsert"
    BY <1>0, <1>4, IdleType DEF BeginTaskDone, Accepts, Call
  <2>. QED BY <1>3, <1>4, <2>1 DEF BeginTaskDone, OneLoop
<1>5. ASSUME NEW p \in Proc, NEW e \in Edits, BeginEdit(p, e) PROVE SequencesHeld'
  <2>1. call'[p].pc # "upsert"
    BY <1>0, <1>5, IdleType DEF BeginEdit, Call
  <2>. QED BY <1>3, <1>5, <2>1 DEF BeginEdit, OneLoop
<1>6. ASSUME NEW p \in Proc, ReadPlan(p) \/ Persist(p) PROVE SequencesHeld'
  <2>1. call'[p].pc # "upsert"
    BY <1>0, <1>6, IdleNotReading DEF ReadPlan, Persist, Goto, Return, Call, Reading
  <2>. QED BY <1>3, <1>6, <2>1 DEF ReadPlan, Persist, OneLoop
<1>7. ASSUME NEW p \in Proc, Notify(p) \/ FinishEdit(p) \/ StoreError(p) \/ Crash(p) PROVE SequencesHeld'
  <2>1. call'[p].pc # "upsert"
    BY <1>0, <1>7, IdleNotReading DEF Notify, FinishEdit, StoreError, Crash, Return, Reading
  <2>. QED BY <1>3, <1>7, <2>1 DEF Notify, FinishEdit, StoreError, Crash, OneLoop
<1>8. finalize_run \/ (\E k \in Tracker : Forget(k)) \/ UNCHANGED vars => SequencesHeld'
  BY <1>3 DEF finalize_run, Forget, vars
<1>. QED BY <1>1, <1>2, <1>4, <1>5, <1>6, <1>7, <1>8 DEF Next, TaskDone

\* A step that leaves the run and the count alone and is no call's last.
LEMMA BehindQuiet ==
  ASSUME OneLoop, StopsBehind, NEW p \in Proc, RunDoc' = RunDoc, stops' = stops,
         call[p].pc # "notify", call'[p].pc # "notify"
  PROVE  StopsBehind'
BY DEF StopsBehind, OneLoop, StopCount, Terminal

\* Every step of a single event loop, faults included, keeps the count behind.
LEMMA BehindNext ==
  ASSUME OneLoop, OnceInv, [Next]_vars
  PROVE  Exists(RunDoc') /\ StopsBehind'
<1>0. FreshInv /\ call \in [Proc -> Call] /\ stops \in Nat /\ Exists(RunDoc) /\ StopsBehind
  BY DEF OnceInv, FreshInv, IInv, TypeOK
<1>. DEFINE Goal == Exists(RunDoc') /\ StopsBehind'
<1>1. ASSUME NEW p \in Proc, NEW k \in Tracker, NEW t \in Task, NEW s \in EventStatus,
             BeginTaskDone(p, k, t, s)
      PROVE  Goal
  <2>1. call'[p].pc # "notify"
    BY <1>0, <1>1, IdleType DEF BeginTaskDone, Accepts, Call
  <2>. QED BY <1>0, <1>1, <2>1, BehindQuiet DEF BeginTaskDone, Accepts, RunDoc, Exists
<1>2. ASSUME NEW p \in Proc, NEW e \in Edits, BeginEdit(p, e) PROVE Goal
  <2>1. call'[p].pc # "notify"
    BY <1>0, <1>2, IdleType DEF BeginEdit, Call
  <2>. QED BY <1>0, <1>2, <2>1, BehindQuiet DEF BeginEdit, RunDoc, Exists
<1>3. ASSUME NEW p \in Proc, ReadPlan(p) PROVE Goal
  <2>1. call'[p].pc # "notify"
    BY <1>0, <1>3, IdleNotReading DEF ReadPlan, Goto, Return, Call
  <2>. QED BY <1>0, <1>3, <2>1, BehindQuiet DEF ReadPlan, RunDoc, Exists
<1>4. ASSUME NEW p \in Proc, ReadSequence(p) \/ UpsertSequence(p) PROVE Goal
  <2>1. call'[p].pc # "notify"
    BY <1>0, <1>4 DEF ReadSequence, UpsertSequence, NextIndex, Call
  <2>. QED BY <1>0, <1>4, <2>1, BehindQuiet DEF ReadSequence, UpsertSequence, NextIndex, RunDoc, Exists
<1>5. ASSUME NEW p \in Proc, Persist(p) PROVE Goal
  <2>1. CASE ~Exists(hot)
    <3>1. call'[p] = Idle /\ hot' = hot
      BY <1>0, <1>5, <2>1 DEF Persist, Return, update_run
    <3>. QED BY <1>0, <1>5, <3>1, IdleNotReading, BehindQuiet DEF Persist, RunDoc, Exists
  <2>2. CASE Exists(hot)
    <3>1. /\ call[p].snap = hot /\ hot' = Applied(call[p]) /\ call'[p].pc = "notify"
          /\ call'[p] = [call[p] EXCEPT !.pc = "notify"]
      BY <1>0, <1>5, <2>2 DEF Persist, Goto, update_run, FreshInv, Fresh, Reading, Call
    <3>2. call[p] \in Call /\ call[p].op \in EventStatus
      BY <1>0, <1>5 DEF FreshInv, IInv, CallOK, TrackerPC, Persist
    <3>3. Applied(call'[p]) = Applied(call[p]) /\ call'[p].snap = hot
      BY <3>1, <3>2 DEF Applied, FinalsDone, Reforwarded, model_dump, Call
    <3>4. ~Exists(cold) /\ cold' = cold /\ stops' = stops
      BY <1>0, <1>5, <2>2 DEF FreshInv, IInv, Persist
    <3>5. RunDoc = hot /\ RunDoc' = hot' /\ stops <= StopCount(hot)
      BY <1>0, <1>5, <3>4 DEF RunDoc, Exists, StopsBehind, Persist
    <3>6. Exists(hot')
      BY <2>2, <3>1, <3>2 DEF Applied, FinalsDone, Reforwarded, model_dump, Exists, Call, Doc
    <3>. QED BY <1>0, <2>2, <3>1, <3>3, <3>4, <3>5, <3>6
         DEF StopsBehind, OneLoop, StopCount, Terminal, Exists
  <2>. QED BY <2>1, <2>2
<1>6. ASSUME NEW p \in Proc, Notify(p) \/ StoreError(p) \/ Crash(p) PROVE Goal
  <2>1. RunDoc' = RunDoc
    BY <1>6 DEF Notify, StoreError, Crash, RunDoc, Exists
  <2>2. call'[p].pc # "notify"
    BY <1>0, <1>6, IdleNotReading DEF Notify, StoreError, Crash, Return
  <2>3. CASE call[p].pc = "notify"
    <3>1. /\ call[p] \in Call /\ call[p].op \in EventStatus /\ Exists(call[p].snap)
          /\ RunDoc = Applied(call[p]) /\ stops <= StopCount(call[p].snap)
      BY <1>0, <2>3 DEF FreshInv, IInv, CallOK, TrackerPC, StopsBehind
    <3>2. stops' \in {stops, stops + (IF EmitsStops(call[p]) THEN 1 ELSE 0)}
      BY <1>0, <1>6 DEF Notify, StoreError, Crash
    <3>3. StopCount(RunDoc) = StopCount(call[p].snap) + (IF EmitsStops(call[p]) THEN 1 ELSE 0)
      BY <3>1, EmitsTheDifference
    <3>4. stops' <= StopCount(RunDoc) /\ StopCount(RunDoc) = StopCount(RunDoc')
      BY <1>0, <2>1, <3>1, <3>2, <3>3 DEF StopCount, Terminal
    <3>. QED BY <1>0, <2>1, <2>2, <3>4 DEF StopsBehind, OneLoop, Exists, StopCount, Terminal
  <2>4. CASE call[p].pc # "notify"
    BY <1>0, <1>6, <2>1, <2>2, <2>4, BehindQuiet DEF Notify, StoreError, Crash, Exists
  <2>. QED BY <2>3, <2>4
<1>7. ASSUME NEW p \in Proc, FinishEdit(p) PROVE Goal
  <2>1. call'[p].pc # "notify" /\ call[p].pc # "notify"
    BY <1>0, <1>7, IdleNotReading DEF FinishEdit, Return
  <2>2. CASE ~Exists(hot)
    BY <1>0, <1>7, <2>1, <2>2, BehindQuiet DEF FinishEdit, update_run, RunDoc, Exists
  <2>3. CASE Exists(hot)
    <3>1. call[p].snap = hot /\ hot' = Edited(call[p]) /\ call[p].op \in Edit
      BY <1>0, <1>7, <2>3 DEF FinishEdit, update_run, FreshInv, Fresh, Reading, IInv, CallOK
    <3>2. hot'.status = hot.status
      BY <1>0, <3>1 DEF Edited, Edit, FreshInv, IInv, TypeOK, Doc
    <3>3. ~Exists(cold) /\ cold' = cold /\ stops' = stops
      BY <1>0, <1>7, <2>3 DEF FreshInv, IInv, FinishEdit
    <3>4. RunDoc'.status = RunDoc.status
      BY <3>2, <3>3 DEF RunDoc, Exists
    <3>. QED BY <1>0, <2>1, <3>3, <3>4 DEF StopsBehind, OneLoop, StopCount, Exists, Terminal
  <2>. QED BY <2>2, <2>3
<1>8. CASE finalize_run
  <2>1. RunDoc' = RunDoc /\ call' = call /\ stops' = stops
    BY <1>8 DEF finalize_run, RunDoc, Exists, Terminal
  <2>. QED BY <1>0, <2>1 DEF StopsBehind, StopCount, Exists, Terminal
<1>9. ASSUME NEW k \in Tracker, Forget(k) PROVE Goal
  BY <1>0, <1>9 DEF Forget, StopsBehind, RunDoc, StopCount, Exists, Terminal
<1>10. CASE UNCHANGED vars
  BY <1>0, <1>10 DEF vars, StopsBehind, RunDoc, StopCount, Exists, Terminal
<1>. QED BY <1>1, <1>2, <1>3, <1>4, <1>5, <1>6, <1>7, <1>8, <1>9, <1>10 DEF Next, TaskDone

\* With one event loop, whatever store errors and crashes happen and however often
\* events are repeated: the stop commands go out at most once, for an ended run only,
\* and no candidate of an evaluation sequence is awarded twice (on_task_done,
\* advance_evaluation_sequence, the dedupe cache).
THEOREM NothingTwice == ASSUME OneLoop PROVE Spec => []NeverTwice
<1>1. OnceInv => NeverTwice
  <2>. SUFFICES ASSUME OnceInv PROVE NeverTwice
    OBVIOUS
  <2>1. Proc # {} /\ stops \in Nat
    BY NonEmpty, ProcOfAssumption DEF OnceInv, FreshInv, IInv, TypeOK
  <2>2. PICK p \in Proc : TRUE
    BY <2>1
  <2>3. stops <= StopCount(RunDoc)
    <3>1. CASE call[p].pc = "notify"
      <4>1. /\ call[p] \in Call /\ call[p].op \in EventStatus /\ Exists(call[p].snap)
            /\ RunDoc = Applied(call[p]) /\ stops <= StopCount(call[p].snap)
        BY <3>1 DEF OnceInv, FreshInv, IInv, TypeOK, CallOK, TrackerPC, StopsBehind
      <4>2. StopCount(RunDoc) = StopCount(call[p].snap) + (IF EmitsStops(call[p]) THEN 1 ELSE 0)
        BY <4>1, EmitsTheDifference
      <4>. QED BY <2>1, <4>1, <4>2 DEF StopCount
    <3>2. CASE call[p].pc # "notify"
      BY <3>2 DEF OnceInv, StopsBehind
    <3>. QED BY <3>1, <3>2
  <2>4. StopsAtMostOnce
    BY <2>1, <2>3 DEF StopsAtMostOnce, StopCount
  <2>. QED BY <2>4 DEF OnceInv, SequencesHeld, NeverTwice
<1>2. ASSUME OnceInv, [Next]_vars PROVE OnceInv'
  BY <1>2, FreshNext, SequencesNext, BehindNext DEF OnceInv
<1>. QED BY <1>1, <1>2, OnceInit, PTL DEF Spec
=============================================================================
