-------------------------- MODULE PlanRevisionProofs --------------------------
(***************************************************************************)
(* Proofs about PlanRevision, for any tasks, agents, proposed deltas and   *)
(* numbers of requests: what DetectCycle says of a graph, that a valid     *)
(* draft conforms, that a pause has its reason, and that a graph changes   *)
(* only with its revision.                                                 *)
(***************************************************************************)
EXTENDS PlanRevision, FiniteSetTheorems, SequenceTheorems, WellFoundedInduction, TLAPS

-----------------------------------------------------------------------------
(* Kahn's algorithm.                                                        *)

\* Every non-empty set of natural numbers has a least element.
LEMMA LeastNumber ==
  ASSUME NEW S \in SUBSET Nat, S # {}
  PROVE  \E x \in S : \A y \in S : x <= y
<1>0. \A x, y \in Nat : <<y, x>> \in OpToRel(<, Nat) <=> y < x
  BY DEF OpToRel
<1>1. PICK R : IsWellFoundedOn(R, Nat) /\ \A x, y \in Nat : <<y, x>> \in R <=> y < x
  BY <1>0, NatLessThanWellFounded, Zenon
<1>2. PICK x \in S : \A y \in S : ~(<<y, x>> \in R)
  BY <1>1, WFMin
<1>3. \A y \in S : x <= y
  <2>1. \A y \in S : ~(y < x)
    BY <1>1, <1>2, Zenon
  <2>. QED BY <2>1
<1>. QED BY <1>3

\* Induction up to n, over a set of numbers.
LEMMA UpTo ==
  ASSUME NEW n \in Nat, NEW G, 0 \in G,
         \A m \in 0..n : m \in G /\ m + 1 <= n => m + 1 \in G
  PROVE  \A m \in 0..n : m \in G
<1>. SUFFICES ASSUME NEW x \in 0..n, x \notin G PROVE FALSE
  OBVIOUS
<1>1. PICK T : T = {m \in 0..n : m \notin G}
  OBVIOUS
<1>2. T \in SUBSET Nat /\ T # {}
  BY <1>1
<1>3. PICK m \in T : \A i \in T : m <= i
  BY <1>2, LeastNumber
<1>4. m \in 0..n /\ m \notin G /\ m # 0
  BY <1>1, <1>3
<1>5. m - 1 \in 0..n
  BY <1>4
<1>6. m - 1 \in G
  <2>1. m - 1 \notin T
    BY <1>3, <1>4
  <2>. QED BY <1>1, <1>5, <2>1
<1>7. (m - 1) + 1 \in G
  BY <1>4, <1>5, <1>6
<1>. QED BY <1>4, <1>7

\* One step of the algorithm, and the function that DetectCycle defines by recursion.
Peel(L, edges) ==
  LET free == {t \in L : ~\E e \in edges : e[1] \in L /\ e[2] = t}
  IN IF free = {} THEN L ELSE L \ {CHOOSE t \in free : TRUE}
Peels(f, T, E, n) == f = [i \in 0..n |-> IF i = 0 THEN T ELSE Peel(f[i-1], E)]

\* Such a function exists.
LEMMA PeelsExist == ASSUME NEW T, NEW E, NEW n \in Nat PROVE \E f : Peels(f, T, E, n)
<1>1. PICK G : G = {m \in 0..n : \E f : Peels(f, T, E, m)}
  OBVIOUS
<1>2. \A m \in 0..n : m \in G <=> \E f : Peels(f, T, E, m)
  BY <1>1
<1>3. 0 \in G
  <2>1. PICK f : f = [i \in 0..0 |-> T]
    OBVIOUS
  <2>2. Peels(f, T, E, 0)
    BY <2>1 DEF Peels
  <2>. QED BY <1>2, <2>2
<1>4. ASSUME NEW m \in 0..n, m \in G, m + 1 <= n PROVE m + 1 \in G
  <2>1. PICK f : Peels(f, T, E, m)
    BY <1>2, <1>4
  <2>2. PICK last : last = Peel(f[m], E)
    OBVIOUS
  <2>3. PICK g : g = [i \in 0..(m+1) |-> IF i = m + 1 THEN last ELSE f[i]]
    OBVIOUS
  <2>4. \A i \in 0..m : g[i] = f[i]
    BY <2>3
  <2>5. g[m+1] = last /\ m + 1 # 0 /\ (m + 1) - 1 = m /\ m \in 0..m
    BY <2>3
  <2>6. \A i \in 0..m : f[i] = IF i = 0 THEN T ELSE Peel(f[i-1], E)
    BY <2>1 DEF Peels
  <2>7. \A i \in 0..m : i # 0 => i - 1 \in 0..m
    OBVIOUS
  <2>8. \A i \in 0..m : g[i] = IF i = 0 THEN T ELSE Peel(g[i-1], E)
    BY ONLY <2>4, <2>6, <2>7, Zenon
  <2>9. g[m+1] = Peel(g[m], E)
    BY <2>2, <2>4, <2>5
  <2>10. \A i \in 0..(m+1) : i \in 0..m \/ i = m + 1
    OBVIOUS
  <2>11. ASSUME NEW i \in 0..(m+1) PROVE g[i] = IF i = 0 THEN T ELSE Peel(g[i-1], E)
    <3>1. CASE i \in 0..m
      BY <2>8, <3>1, Zenon
    <3>2. CASE i = m + 1
      BY <2>5, <2>9, <3>2
    <3>. QED BY <2>10, <3>1, <3>2
  <2>12. Peels(g, T, E, m + 1)
    BY <2>3, <2>11 DEF Peels
  <2>13. m + 1 \in 0..n
    BY <1>4
  <2>. QED BY <1>2, <2>12, <2>13
<1>5. \A m \in 0..n : m \in G /\ m + 1 <= n => m + 1 \in G
  BY <1>4
<1>6. \A m \in 0..n : m \in G
  BY <1>3, <1>5, UpTo
<1>. QED BY <1>2, <1>6

\* A set of tasks that all wait for one another is never taken away.
LEMMA NothingLeft ==
  ASSUME NEW T, IsFiniteSet(T), NEW E, ~DetectCycle(T, E),
         NEW C \in SUBSET T, C # {}, \A t \in C : \E u \in C : <<u, t>> \in E
  PROVE  FALSE
<1>1. PICK n : n = Cardinality(T) /\ n \in Nat
  BY FS_CardinalityType
<1>2. PICK left : left = CHOOSE f : f = [i \in 0..n |-> IF i = 0 THEN T ELSE Peel(f[i-1], E)]
  OBVIOUS
<1>3. left = [i \in 0..n |-> IF i = 0 THEN T ELSE Peel(left[i-1], E)]
  <2>1. PICK f : Peels(f, T, E, n)
    BY <1>1, PeelsExist
  <2>2. \E g : g = [i \in 0..n |-> IF i = 0 THEN T ELSE Peel(g[i-1], E)]
    BY ONLY <2>1, Zenon DEF Peels
  <2>. QED BY ONLY <1>2, <2>2, Zenon
<1>4. left[n] = {}
  BY <1>1, <1>2 DEF DetectCycle, Peel
<1>5. PICK G : G = {m \in 0..n : C \subseteq left[m]}
  OBVIOUS
<1>6. 0 \in G
  BY <1>1, <1>3, <1>5
<1>7. ASSUME NEW m \in 0..n, m \in G, m + 1 <= n PROVE m + 1 \in G
  <2>1. m + 1 \in 0..n /\ m + 1 # 0 /\ (m + 1) - 1 = m
    BY <1>1, <1>7
  <2>2. PICK L : L = left[m]
    OBVIOUS
  <2>3. left[m + 1] = Peel(L, E)
    BY <1>3, <2>1, <2>2
  <2>4. C \subseteq L
    BY <1>5, <1>7, <2>2
  <2>5. PICK free : free = {t \in L : ~\E e \in E : e[1] \in L /\ e[2] = t}
    OBVIOUS
  <2>6. C \cap free = {}
    <3>1. ASSUME NEW t \in C, t \in free PROVE FALSE
      <4>1. PICK u \in C : <<u, t>> \in E
        OBVIOUS
      <4>2. <<u, t>>[1] = u /\ <<u, t>>[2] = t
        OBVIOUS
      <4>. QED BY <2>4, <2>5, <3>1, <4>1, <4>2
    <3>. QED BY <3>1
  <2>7. Peel(L, E) = IF free = {} THEN L ELSE L \ {CHOOSE t \in free : TRUE}
    BY <2>5 DEF Peel
  <2>8. free # {} => (CHOOSE t \in free : TRUE) \in free
    OBVIOUS
  <2>9. C \subseteq Peel(L, E)
    BY <2>4, <2>6, <2>7, <2>8
  <2>. QED BY <1>5, <2>1, <2>3, <2>9
<1>8. \A m \in 0..n : m \in G /\ m + 1 <= n => m + 1 \in G
  BY <1>7
<1>9. \A m \in 0..n : m \in G
  BY <1>1, <1>6, <1>8, UpTo
<1>. QED BY <1>1, <1>4, <1>5, <1>9

\* What DraftConforms asks of a graph; a graph that validates conforms.
Conforms(g) ==
  /\ \A t \in g.tasks : g.info[t] \in PlanAgents
  /\ g.edges \subseteq g.tasks \X g.tasks
  /\ ~\E C \in (SUBSET g.tasks) \ {{}} : \A t \in C : \E u \in C : <<u, t>> \in g.edges

LEMMA ValidConforms == ASSUME NEW g \in Graph, ValidateGraphSpec(g) PROVE Conforms(g)
<1>1. g.tasks \in SUBSET PlanTasks /\ g.edges \in SUBSET (PlanTasks \X PlanTasks)
  BY DEF Graph
<1>2. IsFiniteSet(g.tasks)
  BY <1>1, PlanAssumption, FS_Subset
<1>3. /\ \A t \in g.tasks : g.info[t] \in PlanAgents
      /\ \A e \in g.edges : e[1] \in g.tasks /\ e[2] \in g.tasks
      /\ ~DetectCycle(g.tasks, g.edges)
  BY DEF ValidateGraphSpec
<1>4. g.edges \subseteq g.tasks \X g.tasks
  BY <1>1, <1>3
<1>5. ASSUME NEW C \in (SUBSET g.tasks) \ {{}}, \A t \in C : \E u \in C : <<u, t>> \in g.edges PROVE FALSE
  <2>1. C \in SUBSET g.tasks /\ C # {}
    OBVIOUS
  <2>. QED BY <1>2, <1>3, <1>5, <2>1, NothingLeft
<1>. QED BY <1>3, <1>4, <1>5 DEF Conforms

\* Applying a delta makes a graph.
LEMMA ApplyType == ASSUME NEW g \in Graph, NEW d \in Delta PROVE ApplyDelta(g, d) \in Graph
<1>1. /\ g.tasks \in SUBSET PlanTasks /\ g.edges \in SUBSET (PlanTasks \X PlanTasks)
      /\ g.info \in [PlanTasks -> Holder]
  BY DEF Graph
<1>2. /\ d.over \in SUBSET (PlanTasks \X Holder) /\ d.add \in SUBSET (PlanTasks \X Holder)
      /\ d.addE \in SUBSET (PlanTasks \X PlanTasks)
  BY DEF Delta
<1>3. PICK r : r = ApplyDelta(g, d)
  OBVIOUS
<1>. DEFINE patched(t) == {p \in d.over : p[1] = t}
            added(t) == {p \in d.add : p[1] = t}
            kept == g.tasks \ d.rem
            tasks == kept \cup {p[1] : p \in d.add}
            edges == ({e \in g.edges : e[1] \notin d.rem /\ e[2] \notin d.rem} \cup d.addE) \ d.remE
            info == [t \in PlanTasks |->
                  IF added(t) # {} THEN (CHOOSE p \in added(t) : TRUE)[2]
                  ELSE IF t \notin kept THEN "none"
                  ELSE IF patched(t) # {} THEN (CHOOSE p \in patched(t) : TRUE)[2]
                  ELSE g.info[t]]
            dup == (g.dup /\ d.rem = {}) \/ \E p \in d.add : p[1] \in kept
<1>4. r = [tasks |-> tasks, edges |-> edges, info |-> info, dup |-> dup]
  BY <1>3, Zenon DEF ApplyDelta
<1>5. tasks \in SUBSET PlanTasks /\ edges \in SUBSET (PlanTasks \X PlanTasks)
  BY <1>1, <1>2
<1>6. ASSUME NEW t \in PlanTasks PROVE info[t] \in Holder
  <2>1. added(t) # {} => (CHOOSE p \in added(t) : TRUE)[2] \in Holder
    <3>1. added(t) # {} => (CHOOSE p \in added(t) : TRUE) \in added(t)
      OBVIOUS
    <3>2. \A p \in added(t) : p[2] \in Holder
      BY <1>2
    <3>. HIDE DEF added
    <3>. QED BY <3>1, <3>2
  <2>2. patched(t) # {} => (CHOOSE p \in patched(t) : TRUE)[2] \in Holder
    <3>1. patched(t) # {} => (CHOOSE p \in patched(t) : TRUE) \in patched(t)
      OBVIOUS
    <3>2. \A p \in patched(t) : p[2] \in Holder
      BY <1>2
    <3>. HIDE DEF patched
    <3>. QED BY <3>1, <3>2
  <2>3. "none" \in Holder /\ g.info[t] \in Holder
    BY <1>1 DEF Holder
  <2>. HIDE DEF added, patched, kept
  <2>. QED BY <2>1, <2>2, <2>3
<1>7. dup \in BOOLEAN
  OBVIOUS
<1>8. info \in [PlanTasks -> Holder]
  <2>1. info = [t \in PlanTasks |-> info[t]]
    OBVIOUS
  <2>. HIDE DEF info
  <2>. QED BY <1>6, <2>1
<1>. HIDE DEF tasks, edges, info, dup
<1>. QED BY <1>3, <1>4, <1>5, <1>7, <1>8 DEF Graph

-----------------------------------------------------------------------------
(* The types of the state, by parts.                                       *)

DraftDoc == [rev : Nat, g : Graph, valid : BOOLEAN, human : Nat]
States == [PlanTasks -> {"PENDING", "RUNNING", "COMPLETED", "FAILED"}]
SuggDoc == [base : Nat, delta : Delta, status : {"PENDING_REVIEW", "APPLIED", "REJECTED"}]

DraftTyped == draft \in DraftDoc /\ planEvents \in Nat /\ draft.human <= planEvents
RunTyped ==
  /\ run \in [status : {"RUNNING", "COMPLETED", "FAILED"}, paused : 0..Len(suggs), tasks : States]
  /\ copy \in {NoCopy} \cup 0..Len(suggs)
SuggsTyped == suggs \in Seq(SuggDoc)
CandTyped == DOMAIN cand \subseteq Nat /\ \A n \in DOMAIN cand : cand[n].g \in Graph /\ Conforms(cand[n].g)
CmdsTyped == cmds \in Seq(DOMAIN cand)
LoopTyped ==
  \/ loop = Idle
  \/ loop \in [pc : {"model"}, rev : Nat, g : Graph, tasks : States, task : PlanTasks,
               status : {"COMPLETED", "FAILED"}]
  \/ loop \in [pc : {"pause"}, s : 1..Len(suggs)]
Publish == [pc : {"publish"}, s : 0..Len(suggs), n : DOMAIN cand]
Resume == [pc : {"resume"}, s : 1..Len(suggs)]
DecTyped == dec \in [Deciders -> {Idle} \cup Publish \cup Resume]
ConsTyped ==
  \/ cons = Idle
  \/ cons \in [pc : {"ingest"}, n : Nat, g : Graph] /\ Conforms(cons.g)
ValdTyped ==
  \/ vald = Idle
  \/ vald \in [pc : {"review", "cache"}, draft : DraftDoc] /\ vald.draft.human <= planEvents

PlanTyped ==
  /\ DraftTyped /\ RunTyped /\ SuggsTyped /\ CandTyped /\ CmdsTyped /\ LoopTyped /\ DecTyped
  /\ ConsTyped /\ ValdTyped /\ conf \in [auto : BOOLEAN, shared : BOOLEAN]

\* The number of events grows.
LEMMA EventsGrow == ASSUME DraftTyped, PlanNext PROVE planEvents' \in Nat /\ planEvents <= planEvents'
<1>1. \/ planEvents' = planEvents \/ Spend
  BY DEF PlanNext, StartTask, EndTask, HandleTaskEvent, HumanValidate, PauseRun, TrackerReads, FetchCandidate,
         HandleRevisePlan, ValidatorReads, CacheReads, CachePlanDraft, Reject, Approve,
         ApplyManualPlanRevision, ApplyRevision, ResumeRun, ValidatePlanDraft
<1>. QED BY <1>1 DEF DraftTyped, Spend

\* The rule that stands in for the model proposes a delta.
LEMMA StubType ==
  ASSUME NEW g \in Graph, NEW tasks, NEW t \in PlanTasks, NEW status
  PROVE  StubGenerateDelta(g, tasks, t, status) \in Delta
<1>. DEFINE mark(S) == [NoDelta EXCEPT !.over = {<<u, g.info[u]>> : u \in S}]
<1>1. /\ g.tasks \in SUBSET PlanTasks /\ g.edges \in SUBSET (PlanTasks \X PlanTasks)
      /\ g.info \in [PlanTasks -> Holder]
  BY DEF Graph
<1>2. NoDelta \in Delta
  BY DEF NoDelta, Delta
<1>3. ASSUME NEW S \in SUBSET PlanTasks PROVE mark(S) \in Delta
  BY <1>1 DEF NoDelta, Delta
<1>4. PICK down : down = {e \in g.edges : e[1] = t}
  OBVIOUS
<1>5. [NoDelta EXCEPT !.remE = down] \in Delta
  <2>1. down \in SUBSET (PlanTasks \X PlanTasks)
    BY <1>1, <1>4
  <2>. QED BY <2>1 DEF NoDelta, Delta
<1>6. PICK pending : pending = {u \in g.tasks : tasks[u] = "PENDING"}
  OBVIOUS
<1>7. mark({t}) \in Delta /\ mark(pending) \in Delta
  <2>1. {t} \in SUBSET PlanTasks /\ pending \in SUBSET PlanTasks
    BY <1>1, <1>6
  <2>. QED BY <1>3, <2>1
<1>8. StubGenerateDelta(g, tasks, t, status) =
        IF status = "FAILED"
        THEN IF down # {} THEN [NoDelta EXCEPT !.remE = down] ELSE mark({t})
        ELSE IF Cardinality(pending) > 1 /\ ~\E u \in g.tasks : tasks[u] = "RUNNING"
             THEN mark(pending) ELSE NoDelta
  BY <1>4, <1>6, Zenon DEF StubGenerateDelta
<1>. HIDE DEF mark
<1>. QED BY <1>2, <1>5, <1>7, <1>8

\* A step by its actions; whoever answers the loop, it answers with a delta.
PlanStep ==
  \/ \E t \in PlanTasks : StartTask(t)
  \/ \E t \in PlanTasks, s \in {"COMPLETED", "FAILED"} : EndTask(t, s)
  \/ \E d \in Delta : HandleTaskEvent(d)
  \/ \E d \in Delta : HumanValidate(d)
  \/ TrackerReads \/ PauseRun \/ FetchCandidate \/ HandleRevisePlan \/ ValidatorReads
  \/ CacheReads \/ CachePlanDraft
  \/ \E d \in Deciders, s \in 1..Len(suggs) : Reject(d, s)
  \/ \E d \in Deciders, s \in 1..Len(suggs) : Approve(d, s)
  \/ \E d \in Deciders, delta \in Delta : ApplyManualPlanRevision(d, delta)
  \/ \E d \in Deciders : ApplyRevision(d)
  \/ \E d \in Deciders : ResumeRun(d)
  \/ \E b \in BOOLEAN : ValidatePlanDraft(b)

LEMMA Answers == ASSUME PlanTyped, PlanNext PROVE PlanStep
<1>1. \A d \in Deltas : d \in Delta
  BY DeltaAssumption
<1>2. loop.pc = "model" => StubGenerateDelta(loop.g, loop.tasks, loop.task, loop.status) \in Delta
  <2>1. ASSUME loop.pc = "model" PROVE loop.g \in Graph /\ loop.task \in PlanTasks
    BY <2>1 DEF PlanTyped, LoopTyped, Idle
  <2>. QED BY <2>1, StubType
<1>. QED BY <1>1, <1>2, Zenon DEF PlanNext, PlanStep

\* How the suggestions change.
SuggsMove ==
  \/ suggs' = suggs
  \/ \E doc \in SuggDoc : suggs' = Append(suggs, doc)
  \/ \E s \in 1..Len(suggs), st \in {"APPLIED", "REJECTED"} : suggs' = [suggs EXCEPT ![s].status = st]

LEMMA SuggsMoves == ASSUME PlanTyped, PlanStep PROVE SuggsMove
<1>1. ASSUME NEW d \in Delta, HandleTaskEvent(d) PROVE SuggsMove
  <2>1. PICK st \in {"PENDING_REVIEW", "APPLIED", "REJECTED"} :
          suggs' = suggs \/ suggs' = Append(suggs, [base |-> loop.rev, delta |-> d, status |-> st])
    <3>1. loop.pc = "model"
      BY <1>1 DEF HandleTaskEvent
    <3>. QED BY <1>1 DEF HandleTaskEvent
  <2>2. loop.rev \in Nat
    BY <1>1 DEF HandleTaskEvent, PlanTyped, LoopTyped, Idle
  <2>3. [base |-> loop.rev, delta |-> d, status |-> st] \in SuggDoc
    BY <2>2 DEF SuggDoc
  <2>. QED BY <2>1, <2>3 DEF SuggsMove
<1>2. ASSUME NEW d \in Deciders, NEW s \in 1..Len(suggs), Reject(d, s) PROVE SuggsMove
  BY <1>2 DEF Reject, Close, SuggsMove
<1>3. ASSUME NEW d \in Deciders, NEW s \in 1..Len(suggs), Approve(d, s) PROVE SuggsMove
  BY <1>3 DEF Approve, Close, SuggsMove
<1>4. ASSUME NEW d \in Deciders, ApplyRevision(d) PROVE SuggsMove
  <2>1. dec[d].s \in 0..Len(suggs)
    BY <1>4 DEF ApplyRevision, PlanTyped, DecTyped, Idle, Publish, Resume
  <2>2. dec[d].s # 0 => dec[d].s \in 1..Len(suggs)
    BY <2>1
  <2>. QED BY <1>4, <2>2, Zenon DEF ApplyRevision, SuggsMove
<1>5. \/ suggs' = suggs \/ \E d \in Delta : HandleTaskEvent(d)
      \/ \E d \in Deciders, s \in 1..Len(suggs) : Reject(d, s)
      \/ \E d \in Deciders, s \in 1..Len(suggs) : Approve(d, s)
      \/ \E d \in Deciders : ApplyRevision(d)
  BY DEF PlanStep, StartTask, EndTask, HumanValidate, PauseRun, TrackerReads, FetchCandidate, HandleRevisePlan,
         ValidatorReads, CacheReads, CachePlanDraft, ApplyManualPlanRevision, ResumeRun, ValidatePlanDraft
<1>. QED BY <1>1, <1>2, <1>3, <1>4, <1>5 DEF SuggsMove

LEMMA SuggsNext ==
  ASSUME PlanTyped, PlanStep PROVE SuggsTyped' /\ Len(suggs) \in Nat /\ Len(suggs') \in Nat /\ Len(suggs) <= Len(suggs')
<1>1. SuggsMove
  BY SuggsMoves
<1>2. suggs \in Seq(SuggDoc) /\ Len(suggs) \in Nat
  BY DEF PlanTyped, SuggsTyped
<1>3. CASE suggs' = suggs
  BY <1>2, <1>3 DEF SuggsTyped
<1>4. ASSUME NEW doc \in SuggDoc, suggs' = Append(suggs, doc)
      PROVE  suggs' \in Seq(SuggDoc) /\ Len(suggs') = Len(suggs) + 1
  BY <1>2, <1>4
<1>5. ASSUME NEW s \in 1..Len(suggs), NEW st \in {"APPLIED", "REJECTED"}, suggs' = [suggs EXCEPT ![s].status = st]
      PROVE  suggs' \in Seq(SuggDoc) /\ Len(suggs') = Len(suggs)
  <2>1. PICK r \in SuggDoc : r = suggs[s]
    BY <1>2
  <2>2. PICK q : q = [r EXCEPT !.status = st]
    OBVIOUS
  <2>3. q \in SuggDoc
    BY <2>2 DEF SuggDoc
  <2>4. suggs' = [suggs EXCEPT ![s] = q]
    BY <1>5, <2>1, <2>2
  <2>. QED BY <1>2, <2>3, <2>4
<1>. QED BY <1>1, <1>2, <1>3, <1>4, <1>5 DEF SuggsMove, SuggsTyped

\* How the candidates change: only proper graphs are stored.
CandMove ==
  \/ cand' = cand
  \/ \E n \in Nat, g \in Graph : Conforms(g) /\ cand' = SaveCandidate(n, g)

LEMMA CandMoves == ASSUME PlanTyped, PlanStep PROVE CandMove
<1>0. ASSUME NEW g \in Graph, NEW base, NEW tasks, ValidateCandidateGraph(base, g, tasks) PROVE Conforms(g)
  BY <1>0, ValidConforms DEF ValidateCandidateGraph
<1>01. draft.g \in Graph /\ draft.rev \in Nat
  BY DEF PlanTyped, DraftTyped, DraftDoc
<1>1. ASSUME NEW d \in Delta, HandleTaskEvent(d) PROVE CandMove
  <2>1. loop.rev \in Nat /\ loop.g \in Graph
    BY <1>1 DEF HandleTaskEvent, PlanTyped, LoopTyped, Idle
  <2>2. PICK c : c = ApplyDelta(loop.g, d)
    OBVIOUS
  <2>3. c \in Graph
    BY <2>1, <2>2, ApplyType
  <2>4. cand' = cand \/ (ValidateCandidateGraph(loop.g, c, loop.tasks) /\ cand' = SaveCandidate(loop.rev + 1, c))
    BY <1>1, <2>2 DEF HandleTaskEvent
  <2>. QED BY <1>0, <2>1, <2>3, <2>4 DEF CandMove
<1>2. ASSUME NEW d \in Deciders, NEW s \in 1..Len(suggs), Approve(d, s) PROVE CandMove
  <2>1. PICK c : c = ApplyDelta(draft.g, suggs[s].delta)
    OBVIOUS
  <2>2. suggs[s].delta \in Delta
    <3>1. PICK r \in SuggDoc : r = suggs[s]
      BY DEF PlanTyped, SuggsTyped
    <3>. QED BY <3>1 DEF SuggDoc
  <2>3. c \in Graph
    BY <1>01, <2>1, <2>2, ApplyType
  <2>4. cand' = cand \/ (ValidateCandidateGraph(draft.g, c, run.tasks) /\ cand' = SaveCandidate(draft.rev + 1, c))
    BY <1>2, <2>1 DEF Approve, Rebase
  <2>. QED BY <1>0, <1>01, <2>3, <2>4 DEF CandMove
<1>3. ASSUME NEW d \in Deciders, NEW delta \in Delta, ApplyManualPlanRevision(d, delta) PROVE CandMove
  <2>1. PICK c : c = ApplyDelta(draft.g, delta)
    OBVIOUS
  <2>3. c \in Graph
    BY <1>01, <2>1, ApplyType
  <2>4. ValidateCandidateGraph(draft.g, c, run.tasks) /\ cand' = SaveCandidate(draft.rev + 1, c)
    BY <1>3, <2>1 DEF ApplyManualPlanRevision
  <2>. QED BY <1>0, <1>01, <2>3, <2>4 DEF CandMove
<1>5. \/ cand' = cand \/ \E d \in Delta : HandleTaskEvent(d)
      \/ \E d \in Deciders, s \in 1..Len(suggs) : Approve(d, s)
      \/ \E d \in Deciders, delta \in Delta : ApplyManualPlanRevision(d, delta)
  BY DEF PlanStep, StartTask, EndTask, HumanValidate, PauseRun, TrackerReads, FetchCandidate, HandleRevisePlan,
         ValidatorReads, CacheReads, CachePlanDraft, Reject, ApplyRevision, ResumeRun, ValidatePlanDraft
<1>. QED BY <1>1, <1>2, <1>3, <1>5 DEF CandMove

LEMMA CandNext == ASSUME PlanTyped, PlanStep PROVE CandTyped' /\ DOMAIN cand \subseteq DOMAIN cand'
<1>1. CASE cand' = cand
  BY <1>1 DEF PlanTyped, CandTyped
<1>2. ASSUME NEW n \in Nat, NEW g \in Graph, Conforms(g), cand' = SaveCandidate(n, g)
      PROVE  CandTyped' /\ DOMAIN cand \subseteq DOMAIN cand'
  <2>1. DOMAIN cand' = DOMAIN cand \cup {n}
    BY <1>2 DEF SaveCandidate
  <2>2. ASSUME NEW m \in DOMAIN cand' PROVE cand'[m].g = g \/ (m \in DOMAIN cand /\ cand'[m] = cand[m])
    BY <1>2, <2>2 DEF SaveCandidate
  <2>3. DOMAIN cand \subseteq Nat /\ \A m \in DOMAIN cand : cand[m].g \in Graph /\ Conforms(cand[m].g)
    BY DEF PlanTyped, CandTyped
  <2>4. ASSUME NEW m \in DOMAIN cand' PROVE cand'[m].g \in Graph /\ Conforms(cand'[m].g)
    <3>1. CASE cand'[m].g = g
      BY ONLY <1>2, <3>1, Zenon
    <3>2. CASE m \in DOMAIN cand /\ cand'[m] = cand[m]
      BY ONLY <2>3, <3>2, Zenon
    <3>. QED BY <2>2, <3>1, <3>2
  <2>. QED BY <2>1, <2>3, <2>4 DEF CandTyped
<1>. QED BY <1>1, <1>2, CandMoves DEF CandMove

\* The draft is a proper one, and every writer of it writes a proper one back.
LEMMA DraftNext == ASSUME PlanTyped, PlanStep, PlanNext PROVE DraftTyped'
<1>0. planEvents \in Nat /\ planEvents' \in Nat /\ planEvents <= planEvents' /\ draft \in DraftDoc /\ draft.human <= planEvents
  BY EventsGrow DEF PlanTyped, DraftTyped
<1>. DEFINE Good == draft' \in DraftDoc /\ draft'.human <= planEvents'
<1>. HIDE DEF Good
<1>1. ASSUME draft' = draft PROVE Good
  <2>1. draft'.human \in Nat
    BY <1>0, <1>1 DEF DraftDoc
  <2>. QED BY <1>0, <1>1, <2>1 DEF Good
<1>2. ASSUME HandleRevisePlan PROVE Good
  <2>1. cons.n \in Nat /\ cons.g \in Graph
    BY <1>2 DEF HandleRevisePlan, PlanTyped, ConsTyped
  <2>2. PICK r \in DraftDoc : r = draft
    BY <1>0
  <2>3. draft' = [r EXCEPT !.rev = cons.n, !.g = cons.g, !.valid = TRUE]
    BY <1>2, <2>2 DEF HandleRevisePlan
  <2>4. draft' \in DraftDoc /\ draft'.human = r.human /\ r.human \in Nat
    BY <2>1, <2>2, <2>3 DEF DraftDoc
  <2>. QED BY <1>0, <2>2, <2>4 DEF Good
<1>3. ASSUME NEW b \in BOOLEAN, ValidatePlanDraft(b) PROVE Good
  <2>1. PICK r \in DraftDoc : r = vald.draft /\ r.human <= planEvents
    BY <1>3 DEF ValidatePlanDraft, PlanTyped, ValdTyped, Idle
  <2>2. PICK v \in BOOLEAN : draft' = [r EXCEPT !.valid = v]
    <3>1. PICK v : v = (ValidateGraphSpec(r.g) /\ b)
      OBVIOUS
    <3>2. v \in BOOLEAN
      BY <3>1
    <3>3. draft' = [r EXCEPT !.valid = v]
      BY <1>3, <2>1, <3>1 DEF ValidatePlanDraft
    <3>. QED BY <3>2, <3>3
  <2>3. draft' \in DraftDoc /\ draft'.human = r.human /\ r.human \in Nat
    BY <2>2 DEF DraftDoc
  <2>. QED BY <1>0, <2>1, <2>3 DEF Good
<1>4. ASSUME CachePlanDraft PROVE Good
  <2>1. PICK r \in DraftDoc : r = vald.draft /\ r.human <= planEvents
    BY <1>4 DEF CachePlanDraft, PlanTyped, ValdTyped, Idle
  <2>2. draft' = r /\ r.human \in Nat
    BY <1>4, <2>1 DEF CachePlanDraft, DraftDoc
  <2>. QED BY <1>0, <2>1, <2>2 DEF Good
<1>5. ASSUME NEW d \in Delta, HumanValidate(d) PROVE Good
  <2>1. PICK r \in DraftDoc : r = draft
    BY <1>0
  <2>2. PICK g : g = ApplyDelta(r.g, d)
    OBVIOUS
  <2>3. g \in Graph
    BY <2>1, <2>2, ApplyType DEF DraftDoc
  <2>4. draft' = [r EXCEPT !.g = g, !.human = planEvents + 1] /\ planEvents' = planEvents + 1
    BY <1>5, <2>1, <2>2 DEF HumanValidate, Spend
  <2>5. draft' \in DraftDoc /\ draft'.human = planEvents'
    BY <1>0, <2>3, <2>4 DEF DraftDoc
  <2>. QED BY <1>0, <2>5 DEF Good
<1>6. \/ draft' = draft \/ HandleRevisePlan \/ CachePlanDraft
      \/ \E b \in BOOLEAN : ValidatePlanDraft(b)
      \/ \E d \in Delta : HumanValidate(d)
  BY DEF PlanStep, StartTask, EndTask, HandleTaskEvent, PauseRun, TrackerReads, FetchCandidate, ValidatorReads,
         CacheReads, Reject, Approve, ApplyManualPlanRevision, ApplyRevision, ResumeRun
<1>7. Good
  BY <1>1, <1>2, <1>3, <1>4, <1>5, <1>6, Zenon
<1>. QED BY <1>0, <1>7 DEF Good, DraftTyped

LEMMA RunNext == ASSUME PlanTyped, PlanStep PROVE RunTyped'
<1>0. suggs' \in Seq(SuggDoc) /\ Len(suggs) \in Nat /\ Len(suggs') \in Nat /\ Len(suggs) <= Len(suggs')
  BY SuggsNext DEF SuggsTyped
<1>. DEFINE Doc == [status : {"RUNNING", "COMPLETED", "FAILED"}, paused : 0..Len(suggs), tasks : States]
<1>1. PICK r \in Doc : r = run
  BY DEF PlanTyped, RunTyped
<1>2. ASSUME NEW t \in PlanTasks, StartTask(t) PROVE run' \in Doc
  <2>1. run' = [r EXCEPT !.tasks[t] = "RUNNING"]
    BY <1>1, <1>2 DEF StartTask
  <2>. QED BY <2>1 DEF States
<1>3. ASSUME NEW t \in PlanTasks, NEW s \in {"COMPLETED", "FAILED"}, EndTask(t, s) PROVE run' \in Doc
  <2>0. PICK p \in 0..Len(suggs) : p = IF copy = NoCopy THEN r.paused ELSE copy
    BY DEF PlanTyped, RunTyped
  <2>1. run' = [r EXCEPT !.tasks[t] = s, !.paused = p,
                         !.status = IF s = "FAILED" THEN "FAILED" ELSE IF t = 2 THEN "COMPLETED" ELSE @]
    BY <1>1, <1>3, <2>0 DEF EndTask, Ended
  <2>. QED BY <2>1 DEF States
<1>4. ASSUME PauseRun PROVE run' \in Doc
  <2>1. loop.s \in 1..Len(suggs)
    BY <1>4 DEF PauseRun, PlanTyped, LoopTyped, Idle
  <2>2. run' = [r EXCEPT !.paused = loop.s] \/ run' = r
    BY <1>1, <1>4 DEF PauseRun, SetRunPauseState
  <2>. QED BY <1>0, <2>1, <2>2
<1>5. ASSUME NEW d \in Deciders, ResumeRun(d) PROVE run' \in Doc
  <2>2. run' = [r EXCEPT !.paused = 0] \/ run' = r
    BY <1>1, <1>5 DEF ResumeRun, SetRunPauseState
  <2>. QED BY <1>0, <2>2
<1>6. \/ run' = run \/ PauseRun \/ \E t \in PlanTasks : StartTask(t)
      \/ \E t \in PlanTasks, s \in {"COMPLETED", "FAILED"} : EndTask(t, s)
      \/ \E d \in Deciders : ResumeRun(d)
  BY DEF PlanStep, HandleTaskEvent, HumanValidate, TrackerReads, FetchCandidate, HandleRevisePlan, ValidatorReads,
         CacheReads, CachePlanDraft, Reject, Approve, ApplyManualPlanRevision, ApplyRevision,
         ValidatePlanDraft
<1>7. run' \in Doc
  BY <1>1, <1>2, <1>3, <1>4, <1>5, <1>6, Zenon
<1>8. copy' \in {NoCopy} \cup 0..Len(suggs)
  <2>1. copy' = copy \/ copy' = NoCopy \/ copy' = run.paused
    BY DEF PlanStep, StartTask, EndTask, HandleTaskEvent, HumanValidate, PauseRun, TrackerReads,
           FetchCandidate, HandleRevisePlan, ValidatorReads, CacheReads, CachePlanDraft, Reject, Approve,
           ApplyManualPlanRevision, ApplyRevision, ResumeRun, ValidatePlanDraft, pauseVars
  <2>. QED BY <1>1, <2>1 DEF PlanTyped, RunTyped
<1>. QED BY <1>0, <1>7, <1>8 DEF RunTyped

LEMMA CmdsNext == ASSUME PlanTyped, PlanStep PROVE CmdsTyped'
<1>0. DOMAIN cand \subseteq DOMAIN cand' /\ cmds \in Seq(DOMAIN cand)
  BY CandNext DEF PlanTyped, CmdsTyped
<1>1. PICK D : D = DOMAIN cand'
  OBVIOUS
<1>2. cmds \in Seq(D)
  BY <1>0, <1>1
<1>3. ASSUME NEW d \in Delta, HandleTaskEvent(d) PROVE cmds' \in Seq(D)
  <2>1. PICK n, g : cmds' = cmds \/ (cand' = SaveCandidate(n, g) /\ cmds' = Append(cmds, n))
    BY <1>3, Zenon DEF HandleTaskEvent
  <2>2. cand' = SaveCandidate(n, g) => n \in D
    BY <1>1 DEF SaveCandidate
  <2>. QED BY <1>2, <2>1, <2>2
<1>4. ASSUME NEW d \in Deciders, ApplyRevision(d) PROVE cmds' \in Seq(D)
  <2>1. dec[d].n \in DOMAIN cand
    BY <1>4 DEF ApplyRevision, PlanTyped, DecTyped, Publish, Resume, Idle
  <2>2. cmds' = cmds \/ cmds' = Append(cmds, dec[d].n)
    BY <1>4 DEF ApplyRevision
  <2>. QED BY <1>0, <1>1, <1>2, <2>1, <2>2
<1>5. ASSUME FetchCandidate PROVE cmds' \in Seq(D)
  BY <1>2, <1>5 DEF FetchCandidate
<1>6. cmds' = cmds \/ FetchCandidate \/ (\E d \in Delta : HandleTaskEvent(d)) \/ \E d \in Deciders : ApplyRevision(d)
  BY DEF PlanStep, StartTask, EndTask, HumanValidate, PauseRun, TrackerReads, HandleRevisePlan, ValidatorReads,
         CacheReads, CachePlanDraft, Reject, Approve, ApplyManualPlanRevision, ResumeRun,
         ValidatePlanDraft
<1>7. cmds' \in Seq(D)
  BY <1>2, <1>3, <1>4, <1>5, <1>6
<1>. QED BY <1>1, <1>7 DEF CmdsTyped

LEMMA LoopNext == ASSUME PlanTyped, PlanStep PROVE LoopTyped'
<1>0. Len(suggs) \in Nat /\ Len(suggs') \in Nat /\ Len(suggs) <= Len(suggs')
  BY SuggsNext
<1>1. CASE loop' = loop
  BY <1>0, <1>1 DEF PlanTyped, LoopTyped
<1>2. CASE loop' = Idle
  BY <1>2 DEF LoopTyped, Idle
<1>3. ASSUME NEW t \in PlanTasks, NEW s \in {"COMPLETED", "FAILED"}, EndTask(t, s) PROVE LoopTyped'
  <2>1. PICK r : r \in [status : {"RUNNING", "COMPLETED", "FAILED"}, paused : 0..Len(suggs), tasks : States] /\ r = run
    BY DEF PlanTyped, RunTyped
  <2>2. PICK e : e = Ended(t, s)
    OBVIOUS
  <2>3. e.tasks \in States
    <3>1. PICK p : p = IF copy = NoCopy THEN r.paused ELSE copy
      OBVIOUS
    <3>2. e.tasks = [r.tasks EXCEPT ![t] = s]
      BY <2>1, <2>2, <3>1 DEF Ended
    <3>. QED BY <2>1, <3>2 DEF States
  <2>4. loop' = loop \/ loop' = [pc |-> "model", rev |-> draft.rev, g |-> draft.g, tasks |-> e.tasks, task |-> t, status |-> s]
    BY <1>3, <2>1, <2>2 DEF EndTask
  <2>5. draft.g \in Graph /\ draft.rev \in Nat
    BY DEF PlanTyped, DraftTyped, DraftDoc
  <2>. QED BY <1>1, <2>3, <2>4, <2>5 DEF LoopTyped
<1>4. ASSUME NEW d \in Delta, HandleTaskEvent(d) PROVE LoopTyped'
  <2>1. loop' = Idle \/ (loop' = [pc |-> "pause", s |-> Len(suggs) + 1] /\ \E doc : suggs' = Append(suggs, doc))
    BY <1>4, Zenon DEF HandleTaskEvent
  <2>2. ASSUME NEW doc, suggs' = Append(suggs, doc) PROVE Len(suggs') = Len(suggs) + 1
    BY <2>2 DEF PlanTyped, SuggsTyped
  <2>. QED BY <1>0, <1>2, <2>1, <2>2 DEF LoopTyped
<1>5. \/ loop' = loop \/ loop' = Idle \/ \E d \in Delta : HandleTaskEvent(d)
      \/ \E t \in PlanTasks, s \in {"COMPLETED", "FAILED"} : EndTask(t, s)
  BY DEF PlanStep, StartTask, HumanValidate, PauseRun, TrackerReads, FetchCandidate, HandleRevisePlan,
         ValidatorReads, CacheReads, CachePlanDraft, Reject, Approve, ApplyManualPlanRevision,
         ApplyRevision, ResumeRun, ValidatePlanDraft
<1>. QED BY <1>1, <1>2, <1>3, <1>4, <1>5, Zenon

LEMMA DecNext == ASSUME PlanTyped, PlanStep PROVE DecTyped'
<1>0. /\ Len(suggs) \in Nat /\ Len(suggs') \in Nat /\ Len(suggs) <= Len(suggs')
      /\ DOMAIN cand \subseteq DOMAIN cand'
  BY SuggsNext, CandNext
<1>. DEFINE P == [pc : {"publish"}, s : 0..Len(suggs'), n : DOMAIN cand']
            R == [pc : {"resume"}, s : 1..Len(suggs')]
            W == {Idle} \cup P \cup R
<1>1. dec \in [Deciders -> W]
  <2>1. \A d \in Deciders : dec[d] \in {Idle} \cup Publish \cup Resume
    BY DEF PlanTyped, DecTyped
  <2>2. Publish \subseteq P /\ Resume \subseteq R
    BY <1>0 DEF Publish, Resume
  <2>. QED BY <2>1, <2>2 DEF PlanTyped, DecTyped
<1>. DEFINE Good == dec' \in [Deciders -> W]
<1>2. ASSUME NEW d \in Deciders, NEW w \in W, dec' = [dec EXCEPT ![d] = w] PROVE Good
  <2>. HIDE DEF W
  <2>. QED BY <1>1, <1>2
<1>3. Idle \in W /\ \A s \in 1..Len(suggs) : [pc |-> "resume", s |-> s] \in W
  BY <1>0
<1>4. ASSUME NEW s \in 0..Len(suggs), NEW n \in DOMAIN cand' PROVE [pc |-> "publish", s |-> s, n |-> n] \in W
  BY <1>0
<1>. HIDE DEF W, P, R
<1>5. ASSUME NEW d \in Deciders, NEW s \in 1..Len(suggs), Reject(d, s) PROVE Good
  BY <1>2, <1>3, <1>5 DEF Reject, Close
<1>6. ASSUME NEW d \in Deciders, NEW s \in 1..Len(suggs), Approve(d, s) PROVE Good
  <2>1. PICK n, g : \/ dec' = dec \/ dec' = [dec EXCEPT ![d] = [pc |-> "resume", s |-> s]]
                    \/ (cand' = SaveCandidate(n, g) /\ dec' = [dec EXCEPT ![d] = [pc |-> "publish", s |-> s, n |-> n]])
    BY <1>6, Zenon DEF Approve, Close
  <2>2. cand' = SaveCandidate(n, g) => n \in DOMAIN cand'
    BY DEF SaveCandidate
  <2>3. s \in 0..Len(suggs)
    BY <1>0
  <2>. QED BY <1>1, <1>2, <1>3, <1>4, <2>1, <2>2, <2>3
<1>7. ASSUME NEW d \in Deciders, NEW delta \in Delta, ApplyManualPlanRevision(d, delta) PROVE Good
  <2>1. PICK n, g : cand' = SaveCandidate(n, g) /\ dec' = [dec EXCEPT ![d] = [pc |-> "publish", s |-> 0, n |-> n]]
    BY <1>7, Zenon DEF ApplyManualPlanRevision
  <2>2. n \in DOMAIN cand'
    BY <2>1 DEF SaveCandidate
  <2>3. 0 \in 0..Len(suggs)
    BY <1>0
  <2>. QED BY <1>2, <1>4, <2>1, <2>2, <2>3
<1>8. ASSUME NEW d \in Deciders, ApplyRevision(d) PROVE Good
  <2>1. dec[d].s \in 0..Len(suggs)
    BY <1>8 DEF ApplyRevision, PlanTyped, DecTyped, Publish, Resume, Idle
  <2>2. dec[d].s # 0 => dec[d].s \in 1..Len(suggs)
    BY <2>1
  <2>3. \/ dec' = [dec EXCEPT ![d] = Idle]
        \/ dec[d].s # 0 /\ dec' = [dec EXCEPT ![d] = [pc |-> "resume", s |-> dec[d].s]]
    BY <1>8, Zenon DEF ApplyRevision
  <2>. QED BY <1>2, <1>3, <2>2, <2>3
<1>9. ASSUME NEW d \in Deciders, ResumeRun(d) PROVE Good
  BY <1>2, <1>3, <1>9 DEF ResumeRun
<1>. HIDE DEF Good
<1>10. \/ dec' = dec
       \/ \E d \in Deciders, s \in 1..Len(suggs) : Reject(d, s)
       \/ \E d \in Deciders, s \in 1..Len(suggs) : Approve(d, s)
       \/ \E d \in Deciders, delta \in Delta : ApplyManualPlanRevision(d, delta)
       \/ \E d \in Deciders : ApplyRevision(d)
       \/ \E d \in Deciders : ResumeRun(d)
  BY DEF PlanStep, StartTask, EndTask, HandleTaskEvent, HumanValidate, PauseRun, TrackerReads, FetchCandidate,
         HandleRevisePlan, ValidatorReads, CacheReads, CachePlanDraft, ValidatePlanDraft
<1>11. ASSUME dec' = dec PROVE Good
  BY <1>1, <1>11 DEF Good
<1>12. Good
  BY <1>5, <1>6, <1>7, <1>8, <1>9, <1>10, <1>11, Zenon
<1>. QED BY <1>12 DEF Good, W, P, R, DecTyped, Publish, Resume, Idle

LEMMA ConsNext == ASSUME PlanTyped, PlanStep PROVE ConsTyped'
<1>1. CASE cons' = cons
  BY <1>1 DEF PlanTyped, ConsTyped
<1>2. CASE cons' = Idle
  BY <1>2 DEF ConsTyped, Idle
<1>3. ASSUME FetchCandidate PROVE ConsTyped'
  <2>1. cmds \in Seq(DOMAIN cand) /\ cmds # <<>>
    BY <1>3 DEF FetchCandidate, PlanTyped, CmdsTyped
  <2>2. PICK n \in DOMAIN cand : n = Head(cmds)
    BY <2>1
  <2>3. n \in Nat /\ cand[n].g \in Graph /\ Conforms(cand[n].g)
    BY DEF PlanTyped, CandTyped
  <2>4. PICK g : g = cand[n].g
    OBVIOUS
  <2>5. cons' = [pc |-> "ingest", n |-> n, g |-> g]
    BY <1>3, <2>2, <2>4 DEF FetchCandidate
  <2>6. cons' \in [pc : {"ingest"}, n : Nat, g : Graph] /\ cons'.g = g
    BY <2>3, <2>4, <2>5
  <2>. QED BY <2>3, <2>4, <2>6 DEF ConsTyped
<1>4. cons' = cons \/ cons' = Idle \/ FetchCandidate
  BY DEF PlanStep, StartTask, EndTask, HandleTaskEvent, HumanValidate, PauseRun, TrackerReads, HandleRevisePlan,
         ValidatorReads, CacheReads, CachePlanDraft, Reject, Approve, ApplyManualPlanRevision,
         ApplyRevision, ResumeRun, ValidatePlanDraft
<1>. QED BY <1>1, <1>2, <1>3, <1>4

LEMMA ValdNext == ASSUME PlanTyped, PlanStep, PlanNext PROVE ValdTyped'
<1>0. planEvents \in Nat /\ planEvents' \in Nat /\ planEvents <= planEvents'
      /\ draft \in DraftDoc /\ draft.human <= planEvents
  BY EventsGrow DEF PlanTyped, DraftTyped
<1>1. CASE vald' = vald
  <2>1. CASE vald = Idle
    BY <1>1, <2>1 DEF ValdTyped, Idle
  <2>2. CASE vald # Idle
    <3>1. PICK r \in DraftDoc : r = vald.draft /\ r.human <= planEvents
      BY <2>2 DEF PlanTyped, ValdTyped
    <3>2. r.human \in Nat
      BY DEF DraftDoc
    <3>3. r.human <= planEvents'
      BY <1>0, <3>1, <3>2
    <3>. QED BY <1>1, <2>2, <3>1, <3>3 DEF PlanTyped, ValdTyped
  <2>. QED BY <2>1, <2>2
<1>2. CASE vald' = Idle
  BY <1>2 DEF ValdTyped, Idle
<1>3. ASSUME NEW pc \in {"review", "cache"}, vald' = [pc |-> pc, draft |-> draft] PROVE ValdTyped'
  <2>1. draft.human \in Nat
    BY <1>0 DEF DraftDoc
  <2>2. vald'.draft = draft /\ vald' \in [pc : {"review", "cache"}, draft : DraftDoc]
    BY <1>0, <1>3
  <2>. QED BY <1>0, <2>1, <2>2 DEF ValdTyped
<1>4. \/ vald' = vald \/ vald' = Idle
      \/ \E pc \in {"review", "cache"} : vald' = [pc |-> pc, draft |-> draft]
  BY DEF PlanStep, StartTask, EndTask, HandleTaskEvent, HumanValidate, PauseRun, TrackerReads, FetchCandidate,
         HandleRevisePlan, ValidatorReads, CacheReads, CachePlanDraft, Reject, Approve,
         ApplyManualPlanRevision, ApplyRevision, ResumeRun, ValidatePlanDraft
<1>. QED BY <1>1, <1>2, <1>3, <1>4, Zenon

LEMMA PlanStart == ASSUME PlanInit PROVE PlanTyped
<1>1. 1 \in PlanTasks /\ 2 \in PlanTasks
  BY PlanAssumption
<1>2. PICK info : info = [t \in PlanTasks |-> IF t \in {1, 2} THEN CHOOSE a \in PlanAgents : TRUE ELSE "none"]
  OBVIOUS
<1>3. info \in [PlanTasks -> Holder]
  <2>1. PICK a \in PlanAgents : a = CHOOSE b \in PlanAgents : TRUE
    BY PlanAssumption
  <2>. QED BY <1>2, <2>1 DEF Holder
<1>4. PICK g : g = [tasks |-> {1, 2}, edges |-> {<<1, 2>>}, dup |-> FALSE, info |-> info]
  OBVIOUS
<1>5. g \in Graph
  BY <1>1, <1>3, <1>4 DEF Graph
<1>6. draft = [rev |-> 1, valid |-> TRUE, human |-> 0, g |-> g] /\ planEvents = 0
  BY <1>2, <1>4 DEF PlanInit
<1>7. DraftTyped
  BY <1>5, <1>6 DEF DraftTyped, DraftDoc
<1>8. SuggsTyped /\ Len(suggs) = 0
  BY DEF PlanInit, SuggsTyped
<1>9. RunTyped
  BY <1>8 DEF PlanInit, RunTyped, States
<1>10. CandTyped /\ CmdsTyped
  BY DEF PlanInit, CandTyped, CmdsTyped
<1>11. LoopTyped /\ ConsTyped /\ ValdTyped
  BY DEF PlanInit, LoopTyped, ConsTyped, ValdTyped
<1>12. DecTyped
  BY DEF PlanInit, DecTyped
<1>13. conf \in [auto : BOOLEAN, shared : BOOLEAN]
  BY DEF PlanInit
<1>. QED BY <1>7, <1>8, <1>9, <1>10, <1>11, <1>12, <1>13 DEF PlanTyped

LEMMA ConfStays == ASSUME PlanStep PROVE conf' = conf
  BY DEF PlanStep, StartTask, EndTask, HandleTaskEvent, HumanValidate, PauseRun, TrackerReads, FetchCandidate,
         HandleRevisePlan, ValidatorReads, CacheReads, CachePlanDraft, Reject, Approve,
         ApplyManualPlanRevision, ApplyRevision, ResumeRun, ValidatePlanDraft

\* The types of the state.
LEMMA PlanTypedNext == ASSUME PlanTyped, PlanNext PROVE PlanTyped'
<1>1. PlanStep
  BY Answers
<1>2. SuggsTyped' /\ CandTyped'
  BY <1>1, SuggsNext, CandNext
<1>3. conf' \in [auto : BOOLEAN, shared : BOOLEAN]
  BY <1>1, ConfStays DEF PlanTyped
<1>. QED BY <1>1, <1>2, <1>3, DraftNext, RunNext, CmdsNext, LoopNext, DecNext, ConsNext, ValdNext
         DEF PlanTyped

-----------------------------------------------------------------------------
(* A valid draft conforms. The draft that the cache writes back was valid  *)
(* when it was read, and what the consumer applies was validated before it *)
(* was stored (CandTyped, ConsTyped).                                      *)

Sound(doc) == doc.valid /\ doc.human = 0 => Conforms(doc.g)
DraftInv == Sound(draft) /\ (vald.pc = "cache" => Sound(vald.draft))

LEMMA DraftStart == ASSUME PlanInit PROVE DraftInv
<1>1. draft.g.tasks = {1, 2} /\ draft.g.edges = {<<1, 2>>} /\ vald.pc = "idle"
  BY DEF PlanInit, Idle
<1>2. ASSUME NEW t \in draft.g.tasks PROVE draft.g.info[t] \in PlanAgents
  BY <1>1, <1>2, PlanAssumption DEF PlanInit
<1>3. ASSUME NEW C \in (SUBSET draft.g.tasks) \ {{}}, \A t \in C : \E u \in C : <<u, t>> \in draft.g.edges
      PROVE  FALSE
  <2>1. \A t \in C : 1 \in C /\ t = 2
    <3>1. ASSUME NEW t \in C PROVE 1 \in C /\ t = 2
      <4>1. PICK u \in C : <<u, t>> \in {<<1, 2>>}
        BY <1>1, <1>3
      <4>. QED BY <4>1
    <3>. QED BY <3>1
  <2>. QED BY <1>3, <2>1
<1>4. Conforms(draft.g)
  BY <1>1, <1>2, <1>3 DEF Conforms
<1>. QED BY <1>1, <1>4 DEF DraftInv, Sound

LEMMA DraftInvNext == ASSUME PlanTyped, DraftInv, PlanNext PROVE DraftInv'
<1>. DEFINE Kept == (vald' = vald \/ vald'.pc = "idle" \/ vald'.pc = "review")
<1>0. PlanStep
  BY Answers
<1>1. ASSUME draft' = draft, Kept PROVE DraftInv'
  BY <1>1 DEF DraftInv
<1>2. ASSUME CacheReads PROVE DraftInv'
  BY <1>2 DEF CacheReads, DraftInv
<1>3. ASSUME HandleRevisePlan PROVE DraftInv'
  <2>1. draft' = [draft EXCEPT !.rev = cons.n, !.g = cons.g, !.valid = TRUE] /\ vald' = vald /\ Conforms(cons.g)
    BY <1>3 DEF HandleRevisePlan, PlanTyped, ConsTyped
  <2>2. draft'.g = cons.g
    BY <2>1 DEF PlanTyped, DraftTyped, DraftDoc
  <2>. QED BY <2>1, <2>2 DEF DraftInv, Sound
<1>4. ASSUME NEW b \in BOOLEAN, ValidatePlanDraft(b) PROVE DraftInv'
  <2>1. PICK r \in DraftDoc : r = vald.draft
    BY <1>4 DEF ValidatePlanDraft, PlanTyped, ValdTyped, Idle
  <2>2. PICK v : v = (ValidateGraphSpec(r.g) /\ b)
    OBVIOUS
  <2>3. draft' = [r EXCEPT !.valid = v] /\ vald'.pc = "idle"
    BY <1>4, <2>1, <2>2 DEF ValidatePlanDraft, Idle
  <2>4. draft'.valid = v /\ draft'.g = r.g /\ r.g \in Graph
    BY <2>3 DEF DraftDoc
  <2>5. v => Conforms(r.g)
    BY <2>2, <2>4, ValidConforms
  <2>. QED BY <2>3, <2>4, <2>5 DEF DraftInv, Sound
<1>5. ASSUME CachePlanDraft PROVE DraftInv'
  BY <1>5 DEF CachePlanDraft, DraftInv, Idle
<1>6. ASSUME NEW d \in Delta, HumanValidate(d) PROVE DraftInv'
  <2>1. draft'.human = planEvents + 1 /\ vald' = vald /\ planEvents \in Nat
    BY <1>6 DEF HumanValidate, PlanTyped, DraftTyped, DraftDoc
  <2>. QED BY <2>1 DEF DraftInv, Sound
<1>7. ASSUME ValidatorReads PROVE draft' = draft /\ Kept
  BY <1>7 DEF ValidatorReads
<1>8. \/ draft' = draft /\ vald' = vald
      \/ ValidatorReads \/ CacheReads \/ HandleRevisePlan \/ CachePlanDraft
      \/ \E b \in BOOLEAN : ValidatePlanDraft(b)
      \/ \E d \in Delta : HumanValidate(d)
  BY <1>0 DEF PlanStep, StartTask, EndTask, HandleTaskEvent, PauseRun, TrackerReads, FetchCandidate, Reject, Approve,
         ApplyManualPlanRevision, ApplyRevision, ResumeRun
<1>. QED BY <1>1, <1>2, <1>3, <1>4, <1>5, <1>6, <1>7, <1>8, Zenon

\* A draft with is_valid that no person has modified is a proper plan: every
\* task has an agent of the catalog, edges join its tasks and none of them leads
\* back, whichever of consumer, validator and cache wrote the document last.
THEOREM ValidDraftConforms == PlanSpec => []DraftConforms
<1>1. PlanInit => PlanTyped /\ DraftInv
  BY PlanStart, DraftStart
<1>2. PlanTyped /\ DraftInv /\ [PlanNext]_planVars => (PlanTyped /\ DraftInv)'
  <2>1. CASE PlanNext
    BY <2>1, PlanTypedNext, DraftInvNext
  <2>2. ASSUME UNCHANGED planVars, PlanTyped, DraftInv PROVE (PlanTyped /\ DraftInv)'
    BY <2>2 DEF planVars, pauseVars, PlanTyped, DraftTyped, RunTyped, SuggsTyped, CandTyped, CmdsTyped, LoopTyped,
       DecTyped, Publish, Resume, ConsTyped, ValdTyped, DraftInv
  <2>. QED BY <2>1, <2>2
<1>3. DraftInv => DraftConforms
  BY DEF DraftInv, Sound, Conforms, DraftConforms
<1>. QED BY <1>1, <1>2, <1>3, PTL DEF PlanSpec

-----------------------------------------------------------------------------
(* A pause has its reason, also the one that is about to be set.           *)

Reason(s) ==
  \/ suggs[s].status = "PENDING_REVIEW"
  \/ \E d \in Deciders : dec[d].pc = "resume" /\ dec[d].s = s
  \/ s \in unresumed
PauseInv == (run.paused # 0 => Reason(run.paused)) /\ (loop.pc = "pause" => Reason(loop.s))

LEMMA ReasonStays ==
  ASSUME PlanTyped, PlanStep, NEW s \in 1..Len(suggs), Reason(s),
         \A d \in Deciders : ResumeRun(d) => dec[d].s # s, s \in unresumed => s \in unresumed'
  PROVE  Reason(s)'
<1>. DEFINE Goal == Reason(s)'
<1>0. suggs \in Seq(SuggDoc) /\ Len(suggs) \in Nat /\ s \in DOMAIN suggs
  BY DEF PlanTyped, SuggsTyped
<1>1. ASSUME suggs'[s] = suggs[s], \A d \in Deciders : dec[d].pc = "resume" => dec'[d] = dec[d]
      PROVE  Goal
  <2>1. CASE suggs[s].status = "PENDING_REVIEW"
    BY <1>1, <2>1 DEF Reason
  <2>2. ASSUME NEW d \in Deciders, dec[d].pc = "resume", dec[d].s = s PROVE Goal
    <3>1. dec'[d] = dec[d]
      BY <1>1, <2>2
    <3>. QED BY <2>2, <3>1 DEF Reason
  <2>3. CASE s \in unresumed
    BY <1>1, <2>3 DEF Reason
  <2>. QED BY <2>1, <2>2, <2>3 DEF Reason
<1>. HIDE DEF Goal
<1>2. ASSUME NEW d \in Deciders, NEW w, dec[d].pc # "resume", dec' = [dec EXCEPT ![d] = w]
      PROVE  \A e \in Deciders : dec[e].pc = "resume" => dec'[e] = dec[e]
  BY <1>2 DEF PlanTyped, DecTyped
<1>3. ASSUME NEW d \in Deciders, NEW q \in 1..Len(suggs), NEW st,
             dec[d].pc # "resume", suggs' = [suggs EXCEPT ![q].status = st],
             dec' = [dec EXCEPT ![d] = [pc |-> "resume", s |-> q]]
      PROVE  Goal
  <2>1. CASE q = s
    <3>1. dec'[d].pc = "resume" /\ dec'[d].s = s
      BY <1>3, <2>1 DEF PlanTyped, DecTyped
    <3>. QED BY <3>1 DEF Reason, Goal
  <2>2. CASE q # s
    <3>1. suggs'[s] = suggs[s]
      BY <1>0, <1>3, <2>2
    <3>2. \A e \in Deciders : dec[e].pc = "resume" => dec'[e] = dec[e]
      BY <1>2, <1>3
    <3>. QED BY <1>1, <1>3, <3>1, <3>2
  <2>. QED BY <2>1, <2>2
<1>4. ASSUME NEW d \in Delta, HandleTaskEvent(d) PROVE Goal
  <2>1. PICK doc : suggs' = suggs \/ suggs' = Append(suggs, doc)
    BY <1>4 DEF HandleTaskEvent
  <2>2. suggs'[s] = suggs[s]
    BY <1>0, <2>1
  <2>. QED BY <1>1, <1>4, <2>2 DEF HandleTaskEvent
<1>5. ASSUME NEW d \in Deciders, NEW q \in 1..Len(suggs), Reject(d, q) PROVE Goal
  <2>1. dec[d].pc # "resume"
    BY <1>5 DEF Reject, Idle
  <2>2. /\ suggs' = [suggs EXCEPT ![q].status = "REJECTED"]
        /\ dec' = [dec EXCEPT ![d] = [pc |-> "resume", s |-> q]]
    BY <1>5 DEF Reject, Close
  <2>. QED BY <1>3, <2>1, <2>2
<1>6. ASSUME NEW d \in Deciders, NEW q \in 1..Len(suggs), Approve(d, q) PROVE Goal
  <2>1. dec[d].pc # "resume"
    BY <1>6 DEF Approve, Idle
  <2>2. \/ suggs' = suggs /\ dec' = dec
        \/ Close(d, q, "REJECTED")
        \/ \E w : suggs' = suggs /\ dec' = [dec EXCEPT ![d] = w]
    BY <1>6, Zenon DEF Approve
  <2>. QED BY <1>1, <1>2, <1>3, <2>1, <2>2 DEF Close
<1>7. ASSUME NEW d \in Deciders, NEW delta \in Delta, ApplyManualPlanRevision(d, delta) PROVE Goal
  <2>1. dec[d].pc # "resume" /\ suggs' = suggs
    BY <1>7 DEF ApplyManualPlanRevision, Idle
  <2>2. \E w : dec' = [dec EXCEPT ![d] = w]
    BY <1>7, Zenon DEF ApplyManualPlanRevision
  <2>. QED BY <1>1, <1>2, <2>1, <2>2
<1>8. ASSUME NEW d \in Deciders, ApplyRevision(d) PROVE Goal
  <2>1. dec[d].pc # "resume" /\ dec[d].s \in 0..Len(suggs)
    BY <1>8 DEF ApplyRevision, PlanTyped, DecTyped, Publish, Resume, Idle
  <2>2. \/ suggs' = suggs /\ \E w : dec' = [dec EXCEPT ![d] = w]
        \/ /\ dec[d].s # 0 /\ suggs' = [suggs EXCEPT ![dec[d].s].status = "APPLIED"]
           /\ dec' = [dec EXCEPT ![d] = [pc |-> "resume", s |-> dec[d].s]]
    BY <1>8, Zenon DEF ApplyRevision
  <2>3. dec[d].s # 0 => dec[d].s \in 1..Len(suggs)
    BY <2>1
  <2>. QED BY <1>1, <1>2, <1>3, <2>1, <2>2, <2>3
<1>9. ASSUME NEW d \in Deciders, ResumeRun(d) PROVE Goal
  <2>1. dec[d].pc = "resume" /\ dec[d].s # s /\ suggs' = suggs
        /\ dec' = [dec EXCEPT ![d] = Idle]
    BY <1>9 DEF ResumeRun
  <2>2. \A e \in Deciders : e # d => dec'[e] = dec[e]
    BY <2>1 DEF PlanTyped, DecTyped
  <2>3. CASE suggs[s].status = "PENDING_REVIEW"
    BY <2>1, <2>3 DEF Reason, Goal
  <2>4. ASSUME NEW e \in Deciders, dec[e].pc = "resume", dec[e].s = s PROVE Goal
    <3>1. dec'[e] = dec[e]
      BY <2>1, <2>2, <2>4
    <3>. QED BY <2>4, <3>1 DEF Reason, Goal
  <2>5. CASE s \in unresumed
    BY <2>1, <2>5 DEF Reason, Goal
  <2>. QED BY <2>3, <2>4, <2>5 DEF Reason
<1>10. \/ suggs' = suggs /\ dec' = dec
       \/ \E d \in Delta : HandleTaskEvent(d)
       \/ \E d \in Deciders, q \in 1..Len(suggs) : Reject(d, q)
       \/ \E d \in Deciders, q \in 1..Len(suggs) : Approve(d, q)
       \/ \E d \in Deciders, delta \in Delta : ApplyManualPlanRevision(d, delta)
       \/ \E d \in Deciders : ApplyRevision(d)
       \/ \E d \in Deciders : ResumeRun(d)
  BY DEF PlanStep, StartTask, EndTask, HumanValidate, PauseRun, TrackerReads, FetchCandidate, HandleRevisePlan,
         ValidatorReads, CacheReads, CachePlanDraft, ValidatePlanDraft
<1>11. ASSUME suggs' = suggs, dec' = dec PROVE Goal
  BY <1>1, <1>11
<1>12. Goal
  BY <1>4, <1>5, <1>6, <1>7, <1>8, <1>9, <1>10, <1>11, Zenon
<1>. QED BY <1>12 DEF Goal

LEMMA PauseInvNext == ASSUME PlanTyped, PauseInv, PlanNext PROVE PauseInv'
<1>0. PlanStep
  BY Answers
<1>1. run.paused # 0 => run.paused \in 1..Len(suggs)
  BY DEF PlanTyped, RunTyped
<1>2. loop.pc = "pause" => loop.s \in 1..Len(suggs)
  BY DEF PlanTyped, LoopTyped, Idle
<1>3. ASSUME NEW d \in Deciders, ResumeRun(d) PROVE PauseInv'
  <2>1. PICK late : late = unresumed \cup {dec[d].s}
    OBVIOUS
  <2>2. /\ loop' = loop
        /\ \/ run'.paused = 0 /\ unresumed' = IF loop.pc = "pause" THEN late \cap {loop.s} ELSE {}
           \/ run' = run /\ unresumed' = late
    BY <1>3, <2>1 DEF ResumeRun, SetRunPauseState, PlanTyped, RunTyped
  <2>3. ASSUME NEW s \in 1..Len(suggs), Reason(s), s \in late => s \in unresumed' PROVE Reason(s)'
    <3>1. CASE dec[d].s = s
      BY <2>1, <2>3, <3>1 DEF Reason
    <3>2. CASE dec[d].s # s
      <4>1. ASSUME NEW e \in Deciders, ResumeRun(e) PROVE dec[e].s # s
        <5>1. dec' = [dec EXCEPT ![e] = Idle] /\ dec' = [dec EXCEPT ![d] = Idle] /\ dec[e].pc = "resume"
          BY <1>3, <4>1 DEF ResumeRun
        <5>2. e = d
          BY <5>1 DEF PlanTyped, DecTyped, Idle
        <5>. QED BY <3>2, <5>2
      <4>. QED BY <1>0, <2>1, <2>3, <4>1, ReasonStays
    <3>. QED BY <3>1, <3>2
  <2>4. ASSUME loop.pc = "pause" PROVE Reason(loop.s)'
    <3>1. PICK s \in 1..Len(suggs) : s = loop.s /\ Reason(s)
      BY <1>2, <2>4 DEF PauseInv
    <3>2. Reason(s)'
      BY <2>2, <2>3, <2>4, <3>1
    <3>. QED BY <2>2, <3>1, <3>2 DEF Reason
  <2>5. ASSUME run'.paused # 0 PROVE Reason(run.paused)'
    <3>1. run' = run /\ unresumed' = late
      BY <2>2, <2>5
    <3>2. PICK s \in 1..Len(suggs) : s = run.paused /\ Reason(s)
      BY <1>1, <2>5, <3>1 DEF PauseInv
    <3>3. Reason(s)'
      BY <2>3, <3>1, <3>2
    <3>. QED BY <3>1, <3>2, <3>3 DEF Reason
  <2>. QED BY <2>2, <2>4, <2>5 DEF PauseInv
<1>4. ASSUME \A d \in Deciders : ~ResumeRun(d) PROVE PauseInv'
  <2>1. ASSUME NEW s \in 1..Len(suggs), Reason(s) PROVE Reason(s)'
    <3>1. unresumed \subseteq unresumed'
      BY <1>0, <1>4 DEF PlanStep, StartTask, EndTask, HandleTaskEvent, HumanValidate, PauseRun,
         TrackerReads, FetchCandidate, HandleRevisePlan, ValidatorReads, CacheReads, CachePlanDraft,
         Reject, Approve, ApplyManualPlanRevision, ApplyRevision, ValidatePlanDraft, pauseVars
    <3>. QED BY <1>0, <1>4, <2>1, <3>1, ReasonStays
  <2>2. run'.paused = run.paused \/ PauseRun \/ run'.paused \in unresumed' \cup {0}
    <3>1. PICK r \in [status : {"RUNNING", "COMPLETED", "FAILED"}, paused : 0..Len(suggs), tasks : States] : r = run
      BY DEF PlanTyped, RunTyped
    <3>2. ASSUME NEW t \in PlanTasks, StartTask(t) PROVE run'.paused = run.paused
      BY <3>1, <3>2 DEF StartTask
    <3>3. ASSUME NEW t \in PlanTasks, NEW st \in {"COMPLETED", "FAILED"}, EndTask(t, st)
          PROVE  run'.paused = run.paused \/ run'.paused \in unresumed' \cup {0}
      <4>1. PICK p : p = IF copy = NoCopy THEN r.paused ELSE copy
        OBVIOUS
      <4>2. PICK ended : /\ ended = [r EXCEPT !.tasks[t] = st, !.paused = p,
                              !.status = IF st = "FAILED" THEN "FAILED" ELSE IF t = 2 THEN "COMPLETED" ELSE @]
                         /\ run' = ended
                         /\ unresumed' = unresumed \cup ({ended.paused} \ {0, run.paused})
        BY <3>1, <3>3, <4>1 DEF EndTask, Ended
      <4>3. ended.paused = p
        BY <4>2
      <4>. QED BY <4>2, <4>3
    <3>4. \/ run' = run \/ PauseRun
          \/ \E t \in PlanTasks : StartTask(t)
          \/ \E t \in PlanTasks, st \in {"COMPLETED", "FAILED"} : EndTask(t, st)
          \/ \E d \in Deciders : ResumeRun(d)
      BY <1>0 DEF PlanStep, HandleTaskEvent, HumanValidate, TrackerReads, FetchCandidate, HandleRevisePlan, ValidatorReads,
             CacheReads, CachePlanDraft, Reject, Approve, ApplyManualPlanRevision, ApplyRevision,
             ValidatePlanDraft
    <3>. QED BY <1>4, <3>2, <3>3, <3>4
  <2>3. \/ loop' = loop \/ loop'.pc # "pause"
        \/ \E d \in Delta : HandleTaskEvent(d)
    <3>1. ASSUME NEW t \in PlanTasks, NEW st \in {"COMPLETED", "FAILED"}, EndTask(t, st)
          PROVE  loop' = loop \/ loop'.pc # "pause"
      BY <3>1 DEF EndTask
    <3>2. loop' = Idle => loop'.pc # "pause"
      BY DEF Idle
    <3>3. \/ loop' = loop \/ loop' = Idle
          \/ \E d \in Delta : HandleTaskEvent(d)
          \/ \E t \in PlanTasks, st \in {"COMPLETED", "FAILED"} : EndTask(t, st)
      BY <1>0 DEF PlanStep, StartTask, HumanValidate, PauseRun, TrackerReads, FetchCandidate, HandleRevisePlan,
             ValidatorReads, CacheReads, CachePlanDraft, Reject, Approve, ApplyManualPlanRevision,
             ApplyRevision, ResumeRun, ValidatePlanDraft
    <3>. QED BY <3>1, <3>2, <3>3
  <2>4. ASSUME NEW d \in Delta, HandleTaskEvent(d), loop'.pc = "pause" PROVE Reason(loop.s)'
    <3>1. PICK doc : /\ loop' = [pc |-> "pause", s |-> Len(suggs) + 1]
                     /\ suggs' = Append(suggs, doc) /\ doc.status = "PENDING_REVIEW"
      BY <2>4 DEF HandleTaskEvent, Idle
    <3>2. suggs'[Len(suggs) + 1] = doc /\ loop'.s = Len(suggs) + 1
      BY <3>1 DEF PlanTyped, SuggsTyped
    <3>. QED BY <3>1, <3>2 DEF Reason
  <2>5. run'.paused # 0 => Reason(run.paused)'
    <3>1. CASE run'.paused = run.paused
      <4>1. ASSUME run'.paused # 0 PROVE Reason(run.paused)'
        <5>1. PICK s \in 1..Len(suggs) : s = run.paused /\ Reason(s)
          BY <1>1, <3>1, <4>1 DEF PauseInv
        <5>2. Reason(s)'
          BY <2>1, <5>1
        <5>. QED BY <3>1, <5>1, <5>2 DEF Reason
      <4>. QED BY <4>1
    <3>3. CASE run'.paused \in unresumed' \cup {0}
      BY <3>3 DEF Reason
    <3>2. CASE PauseRun /\ run'.paused # run.paused
      <4>1. PICK s \in 1..Len(suggs) : s = loop.s /\ Reason(s)
        BY <1>2, <3>2 DEF PauseInv, PauseRun
      <4>2. run'.paused = s
        BY <3>2, <4>1 DEF PauseRun, SetRunPauseState, PlanTyped, RunTyped
      <4>3. Reason(s)'
        BY <2>1, <4>1
      <4>. QED BY <4>2, <4>3 DEF Reason
    <3>. QED BY <2>2, <3>1, <3>2, <3>3
  <2>6. loop'.pc = "pause" => Reason(loop.s)'
    <3>1. ASSUME loop' = loop, loop'.pc = "pause" PROVE Reason(loop.s)'
      <4>1. PICK s \in 1..Len(suggs) : s = loop.s /\ Reason(s)
        BY <1>2, <3>1 DEF PauseInv
      <4>2. Reason(s)'
        BY <2>1, <4>1
      <4>. QED BY <3>1, <4>1, <4>2 DEF Reason
    <3>. QED BY <2>3, <2>4, <3>1
  <2>. QED BY <2>5, <2>6 DEF PauseInv
<1>. QED BY <1>3, <1>4

\* A run stays paused only for a suggestion that is still open, or whose
\* decision is on its way to resume it, or whose decision could not end the
\* pause: it overtook handle_task_event, its resume failed, or a tracker of
\* another process wrote back the paused run that it had read before.
THEOREM PausesHaveReasons == PlanSpec => []PauseHasReason
<1>1. PlanInit => PlanTyped /\ PauseInv
  <2>1. PlanInit => PauseInv
    BY DEF PlanInit, PauseInv, Idle
  <2>. QED BY <2>1, PlanStart
<1>2. PlanTyped /\ PauseInv /\ [PlanNext]_planVars => (PlanTyped /\ PauseInv)'
  <2>1. CASE PlanNext
    BY <2>1, PlanTypedNext, PauseInvNext
  <2>2. ASSUME UNCHANGED planVars, PlanTyped, PauseInv PROVE (PlanTyped /\ PauseInv)'
    BY <2>2 DEF planVars, pauseVars, PlanTyped, DraftTyped, RunTyped, SuggsTyped, CandTyped, CmdsTyped, LoopTyped,
       DecTyped, Publish, Resume, ConsTyped, ValdTyped, PauseInv, Reason
  <2>. QED BY <2>1, <2>2
<1>3. PauseInv => PauseHasReason
  BY DEF PauseInv, Reason, PauseHasReason
<1>. QED BY <1>1, <1>2, <1>3, PTL DEF PlanSpec

-----------------------------------------------------------------------------
(* As long as nobody has worked on an old draft, at most one change of it  *)
(* is on its way, and that one was made for the draft of now.              *)

Applying == conf.auto /\ loop.pc = "model"
Publishing == \E d \in Deciders : dec[d].pc = "publish"
Alone ==
  /\ cmds # <<>> => cmds = <<draft.rev + 1>> /\ cons = Idle /\ vald = Idle /\ ~Publishing /\ ~Applying
  /\ cons # Idle => cons.n = draft.rev + 1 /\ vald = Idle /\ ~Publishing /\ ~Applying
  /\ vald # Idle => vald.draft = draft /\ ~Publishing /\ ~Applying
  /\ \A d \in Deciders : dec[d].pc = "publish" =>
       /\ ~Applying /\ dec[d].n = draft.rev + 1
       /\ \A e \in Deciders : dec[e].pc = "publish" => e = d
  /\ Applying => loop.rev = draft.rev
AloneInv == ~raced => Alone

\* Who looks at the draft while nothing is on its way finds all of it idle.
LEMMA Nothing ==
  ASSUME Look, ~raced'
  PROVE  ~raced /\ cmds = <<>> /\ cons = Idle /\ vald = Idle /\ ~Publishing /\ ~Applying
BY DEF Look, OnItsWay, Publishing, Applying

\* A step that begins and ends no change.
LEMMA QuietStep ==
  ASSUME Alone, UNCHANGED <<draft, cmds, cons, vald>>, Applying' => Applying /\ loop' = loop,
         \A d \in Deciders : dec'[d].pc = "publish" => dec'[d] = dec[d]
  PROVE  Alone'
BY DEF Alone, Publishing, Applying

LEMMA AloneNext == ASSUME PlanTyped, AloneInv, PlanNext PROVE AloneInv'
<1>. SUFFICES ASSUME ~raced' PROVE Alone'
  BY DEF AloneInv
<1>. DEFINE Goal == Alone'
            Put(d) == \A e \in Deciders : e # d => dec'[e] = dec[e]
<1>0. PlanStep
  BY Answers
<1>1. \A d \in Deciders : \A w : dec' = [dec EXCEPT ![d] = w] => Put(d) /\ dec'[d] = w
  BY DEF PlanTyped, DecTyped
<1>2. ASSUME NEW t \in PlanTasks, StartTask(t) PROVE Goal
  BY <1>2, QuietStep DEF StartTask, Applying, AloneInv
<1>3. ASSUME NEW t \in PlanTasks, NEW s \in {"COMPLETED", "FAILED"}, EndTask(t, s) PROVE Goal
  <2>1. UNCHANGED <<conf, draft, cmds, cons, vald, dec>>
    BY <1>3 DEF EndTask
  <2>2. \/ loop' = loop /\ raced' = raced
        \/ /\ loop.pc = "idle" /\ loop'.pc = "model" /\ loop'.rev = draft.rev
           /\ IF conf.auto THEN Look ELSE raced' = raced
    BY <1>3 DEF EndTask
  <2>3. CASE raced' = raced /\ ~Applying'
    BY <2>1, <2>3, QuietStep DEF AloneInv
  <2>4. CASE loop' = loop /\ raced' = raced
    BY <2>1, <2>4, QuietStep DEF AloneInv, Applying
  <2>5. CASE conf.auto /\ Look /\ loop'.rev = draft.rev
    BY <2>1, <2>5, Nothing DEF Alone, Publishing, Applying
  <2>. QED BY <2>1, <2>2, <2>3, <2>4, <2>5 DEF Applying
<1>4. ASSUME NEW d \in Delta, HandleTaskEvent(d) PROVE Goal
  <2>1. UNCHANGED <<conf, draft, cons, vald, dec>> /\ raced' = raced /\ loop.pc = "model" /\ ~Applying'
    BY <1>4 DEF HandleTaskEvent, Applying, Idle
  <2>2. \/ cmds' = cmds
        \/ conf.auto /\ cmds' = Append(cmds, loop.rev + 1)
    BY <1>4 DEF HandleTaskEvent
  <2>3. CASE cmds' = cmds
    BY <2>1, <2>3, QuietStep DEF AloneInv
  <2>4. CASE conf.auto /\ cmds' = Append(cmds, loop.rev + 1)
    <3>1. Alone /\ Applying
      BY <2>1, <2>4 DEF AloneInv, Applying
    <3>2. cmds = <<>> /\ cons = Idle /\ vald = Idle /\ ~Publishing /\ loop.rev = draft.rev
      BY <3>1 DEF Alone, Publishing
    <3>3. cmds' = <<draft'.rev + 1>>
      BY <2>1, <2>4, <3>2
    <3>. QED BY <2>1, <3>2, <3>3 DEF Alone, Publishing
  <2>. QED BY <2>2, <2>3, <2>4
<1>5. ASSUME NEW d \in Delta, HumanValidate(d) PROVE Goal
  BY <1>5, Nothing DEF HumanValidate, Alone, Publishing, Applying
<1>6. ASSUME PauseRun PROVE Goal
  BY <1>6, QuietStep DEF PauseRun, Applying, AloneInv, Idle
<1>7. ASSUME FetchCandidate PROVE Goal
  <2>1. /\ UNCHANGED <<conf, draft, loop, dec, vald>> /\ raced' = raced /\ cmds # <<>>
        /\ cons'.n = Head(cmds) /\ cmds' = Tail(cmds)
    BY <1>7 DEF FetchCandidate
  <2>2. cmds = <<draft.rev + 1>> /\ vald = Idle /\ ~Publishing /\ ~Applying
    BY <2>1 DEF AloneInv, Alone
  <2>3. cmds' = <<>> /\ cons'.n = draft'.rev + 1
    BY <2>1, <2>2
  <2>. QED BY <2>1, <2>2, <2>3 DEF Alone, Publishing, Applying
<1>8. ASSUME HandleRevisePlan PROVE Goal
  <2>1. /\ UNCHANGED <<conf, cmds, loop, dec, vald>> /\ raced' = raced /\ cons # Idle /\ cons' = Idle
    BY <1>8 DEF HandleRevisePlan
  <2>2. cmds = <<>> /\ vald = Idle /\ ~Publishing /\ ~Applying
    BY <2>1 DEF AloneInv, Alone
  <2>. QED BY <2>1, <2>2 DEF Alone, Publishing, Applying
<1>9. ASSUME ValidatorReads \/ CacheReads PROVE Goal
  <2>1. UNCHANGED <<conf, draft, cmds, loop, dec, cons>> /\ Look /\ vald'.draft = draft
    BY <1>9 DEF ValidatorReads, CacheReads
  <2>. QED BY <2>1, Nothing DEF Alone, Publishing, Applying
<1>10. ASSUME CachePlanDraft \/ \E b \in BOOLEAN : ValidatePlanDraft(b) PROVE Goal
  <2>1. UNCHANGED <<conf, cmds, loop, dec, cons>> /\ raced' = raced /\ vald # Idle /\ vald' = Idle
    BY <1>10 DEF CachePlanDraft, ValidatePlanDraft, Idle
  <2>2. cmds = <<>> /\ cons = Idle /\ ~Publishing /\ ~Applying
    BY <2>1 DEF AloneInv, Alone
  <2>. QED BY <2>1, <2>2 DEF Alone, Publishing, Applying
<1>11. ASSUME NEW d \in Deciders, NEW s \in 1..Len(suggs), Reject(d, s) PROVE Goal
  <2>1. /\ UNCHANGED <<conf, draft, cmds, loop, vald, cons>> /\ raced' = raced
        /\ dec' = [dec EXCEPT ![d] = [pc |-> "resume", s |-> s]]
    BY <1>11 DEF Reject, Close
  <2>2. \A e \in Deciders : dec'[e].pc = "publish" => dec'[e] = dec[e]
    BY <1>1, <2>1
  <2>. QED BY <2>1, <2>2, QuietStep DEF AloneInv, Applying
<1>12. ASSUME NEW d \in Deciders, NEW w, Look, UNCHANGED <<conf, draft, cmds, loop, vald, cons>>,
              dec' = dec \/ dec' = [dec EXCEPT ![d] = w], w.pc = "publish" => w.n = draft.rev + 1
       PROVE  Goal
  <2>1. cmds = <<>> /\ cons = Idle /\ vald = Idle /\ ~Publishing /\ ~Applying
    BY <1>12, Nothing
  <2>2. \A e \in Deciders : dec'[e].pc = "publish" => e = d /\ dec'[e].n = draft.rev + 1
    BY <1>1, <1>12, <2>1 DEF Publishing
  <2>. QED BY <1>12, <2>1, <2>2 DEF Alone, Publishing, Applying
<1>13. ASSUME NEW d \in Deciders, NEW s \in 1..Len(suggs), Approve(d, s) PROVE Goal
  <2>1. UNCHANGED <<conf, draft, cmds, loop, vald, cons>> /\ Look
    BY <1>13 DEF Approve
  <2>2. PICK w : /\ dec' = dec \/ dec' = [dec EXCEPT ![d] = w]
                 /\ w.pc = "publish" => w.n = draft.rev + 1
    <3>1. PICK v : v = [pc |-> "resume", s |-> s]
      OBVIOUS
    <3>2. PICK w : w = [pc |-> "publish", s |-> s, n |-> draft.rev + 1]
      OBVIOUS
    <3>3. dec' = dec \/ dec' = [dec EXCEPT ![d] = v] \/ dec' = [dec EXCEPT ![d] = w]
      BY <1>13, <3>1, <3>2 DEF Approve, Close, Rebase
    <3>4. v.pc # "publish" /\ w.n = draft.rev + 1
      BY <3>1, <3>2
    <3>. QED BY <3>3, <3>4
  <2>. QED BY <1>12, <2>1, <2>2
<1>14. ASSUME NEW d \in Deciders, NEW delta \in Delta, ApplyManualPlanRevision(d, delta) PROVE Goal
  <2>1. UNCHANGED <<conf, draft, cmds, loop, vald, cons>> /\ Look
    BY <1>14 DEF ApplyManualPlanRevision
  <2>2. PICK w : w = [pc |-> "publish", s |-> 0, n |-> draft.rev + 1]
    OBVIOUS
  <2>3. dec' = [dec EXCEPT ![d] = w] /\ w.n = draft.rev + 1
    BY <1>14, <2>2 DEF ApplyManualPlanRevision
  <2>. QED BY <1>12, <2>1, <2>3
<1>15. ASSUME NEW d \in Deciders, ApplyRevision(d) PROVE Goal
  <2>1. UNCHANGED <<conf, draft, loop, vald, cons>> /\ raced' = raced /\ dec[d].pc = "publish"
    BY <1>15 DEF ApplyRevision
  <2>2. \/ cmds' = cmds \/ cmds' = Append(cmds, dec[d].n)
    BY <1>15 DEF ApplyRevision
  <2>3. PICK w : dec' = [dec EXCEPT ![d] = w] /\ w.pc # "publish"
    <3>1. PICK v : v = [pc |-> "resume", s |-> dec[d].s]
      OBVIOUS
    <3>2. dec' = [dec EXCEPT ![d] = Idle] \/ dec' = [dec EXCEPT ![d] = v]
      BY <1>15, <3>1 DEF ApplyRevision
    <3>3. Idle.pc # "publish" /\ v.pc # "publish"
      BY <3>1 DEF Idle
    <3>. QED BY <3>2, <3>3, Zenon
  <2>4. cmds = <<>> /\ cons = Idle /\ vald = Idle /\ ~Applying /\ dec[d].n = draft.rev + 1
    BY <2>1 DEF AloneInv, Alone, Publishing
  <2>5. \A e \in Deciders : dec[e].pc = "publish" => e = d
    BY <2>1 DEF AloneInv, Alone
  <2>6. ~Publishing'
    BY <1>1, <2>3, <2>5, ZenonT(40) DEF Publishing
  <2>7. cmds' # <<>> => cmds' = <<draft'.rev + 1>>
    BY <2>1, <2>2, <2>4
  <2>. QED BY <2>1, <2>4, <2>6, <2>7 DEF Alone, Publishing, Applying
<1>16. ASSUME NEW d \in Deciders, ResumeRun(d) PROVE Goal
  <2>1. UNCHANGED <<conf, draft, cmds, loop, vald, cons>> /\ raced' = raced /\ dec' = [dec EXCEPT ![d] = Idle]
    BY <1>16 DEF ResumeRun
  <2>2. \A e \in Deciders : dec'[e].pc = "publish" => dec'[e] = dec[e]
    BY <1>1, <2>1 DEF Idle
  <2>. QED BY <2>1, <2>2, QuietStep DEF AloneInv, Applying
<1>18. ASSUME TrackerReads PROVE Goal
  BY <1>18, QuietStep DEF TrackerReads, Applying, AloneInv
<1>. HIDE DEF Goal
<1>17. Goal
  BY <1>0, <1>18, <1>2, <1>3, <1>4, <1>5, <1>6, <1>7, <1>8, <1>9, <1>10, <1>11, <1>13, <1>14, <1>15, <1>16
     DEF PlanStep
<1>. QED BY <1>17 DEF Goal

\* The writers of the draft, when nothing stale is on its way.
LEMMA Advances ==
  ASSUME PlanTyped, AloneInv, PlanNext, draft'.g # draft.g, ~raced'
  PROVE  draft'.rev = draft.rev + 1 \/ draft'.human # draft.human
<1>0. PlanStep
  BY Answers
<1>. DEFINE Goal == draft'.rev = draft.rev + 1 \/ draft'.human # draft.human
<1>1. ASSUME HandleRevisePlan PROVE Goal
  <2>1. cons.n = draft.rev + 1
    BY <1>1 DEF HandleRevisePlan, AloneInv, Alone
  <2>. QED BY <1>1, <2>1 DEF HandleRevisePlan, PlanTyped, DraftTyped, DraftDoc
<1>2. ASSUME CachePlanDraft \/ \E b \in BOOLEAN : ValidatePlanDraft(b) PROVE FALSE
  <2>1. vald # Idle /\ raced' = raced
    BY <1>2 DEF CachePlanDraft, ValidatePlanDraft, Idle
  <2>2. vald.draft = draft
    BY <2>1 DEF AloneInv, Alone
  <2>3. draft'.g = draft.g
    BY <1>2, <2>2 DEF CachePlanDraft, ValidatePlanDraft, PlanTyped, DraftTyped, DraftDoc
  <2>. QED BY <2>3
<1>3. ASSUME NEW d \in Delta, HumanValidate(d) PROVE Goal
  <2>1. draft.human \in Nat /\ planEvents \in Nat /\ draft.human <= planEvents
    BY DEF PlanTyped, DraftTyped, DraftDoc
  <2>2. draft'.human = planEvents + 1
    BY <1>3 DEF HumanValidate, PlanTyped, DraftTyped, DraftDoc
  <2>. QED BY <2>1, <2>2
<1>4. \/ draft' = draft \/ HandleRevisePlan \/ CachePlanDraft
      \/ \E b \in BOOLEAN : ValidatePlanDraft(b)
      \/ \E d \in Delta : HumanValidate(d)
  BY <1>0 DEF PlanStep, StartTask, EndTask, HandleTaskEvent, PauseRun, TrackerReads, FetchCandidate, ValidatorReads,
         CacheReads, Reject, Approve, ApplyManualPlanRevision, ApplyRevision, ResumeRun
<1>. QED BY <1>1, <1>2, <1>3, <1>4

\* The graph of the draft changes only with the next revision number or with a
\* person's mark, unless a writer read the draft while a change of it was on its
\* way: then the consumer, which compares no revision, or the validator and the
\* cache, which write the whole document back, may undo what the other wrote.
THEOREM GraphFollowsRevision == PlanSpec => RevisionAdvances
<1>1. PlanInit => PlanTyped /\ AloneInv
  <2>1. PlanInit => AloneInv
    BY DEF PlanInit, AloneInv, Alone, Applying, Publishing, Idle
  <2>. QED BY <2>1, PlanStart
<1>2. PlanTyped /\ AloneInv /\ [PlanNext]_planVars => (PlanTyped /\ AloneInv)'
  <2>1. CASE PlanNext
    BY <2>1, PlanTypedNext, AloneNext
  <2>2. ASSUME UNCHANGED planVars, PlanTyped, AloneInv PROVE (PlanTyped /\ AloneInv)'
    BY <2>2 DEF planVars, pauseVars, PlanTyped, DraftTyped, RunTyped, SuggsTyped, CandTyped, CmdsTyped, LoopTyped,
       DecTyped, Publish, Resume, ConsTyped, ValdTyped, AloneInv, Alone, Applying, Publishing
  <2>. QED BY <2>1, <2>2
<1>3. PlanTyped /\ AloneInv /\ [PlanNext]_planVars =>
        [draft'.g # draft.g =>
           draft'.rev = draft.rev + 1 \/ draft'.human # draft.human \/ raced']_planVars
  BY Advances
<1>. QED BY <1>1, <1>2, <1>3, PTL DEF PlanSpec, RevisionAdvances
=============================================================================
