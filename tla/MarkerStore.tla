---------------------------- MODULE MarkerStore ----------------------------
(***************************************************************************)
(* GraphMarkerStore: the documents that planning services share. Every     *)
(* save is an upsert under a key made of a kind, an owner (a plan, a task, *)
(* a run) and an id; lists go through an index that follows the documents  *)
(* with a delay unless CB_QUERY_CONSISTENCY asks otherwise, and filter a    *)
(* page after it was cut. What bids, calls, awards and cycles are used for *)
(* is in ContractNet, the values of markers and decisions in Learning.     *)
(***************************************************************************)
EXTENDS Integers, FiniteSets, Sequences, SequencesExt, FiniteSetsExt

CONSTANTS
  Owners,      \* plans, tasks and runs that own documents
  Ids,         \* ids that callers choose (task, revision, signature)
  Tags,        \* values of the fields that lists filter by
  RequestPlus, \* CB_QUERY_CONSISTENCY = request_plus
  MaxWrites    \* bound: saves

(* No parameter is the whole set of owners, and one owner is not that set.  *)
ASSUME StoreAssumption ==
  /\ RequestPlus \in BOOLEAN /\ MaxWrites \in Nat /\ Ids \subseteq Nat \ {0}
  /\ Cardinality(Owners) # 1

VARIABLES
  docs,      \* the documents: [kind, owner, id, tag, at]
  indexed,   \* the versions of documents that queries see
  saving,    \* the two-document saves that have written the first one
  torn,      \* the <<kind, owner>> whose such saves overlapped or broke off
  writes     \* saves so far, also the clock

storeVars == <<docs, indexed, saving, torn, writes>>

SameKey(d, e) == d.kind = e.kind /\ d.owner = e.owner /\ d.id = e.id
Put(D, e) == {d \in D : ~SameKey(d, e)} \cup {e}

(* One upsert. An id of 0 stands for a key made up for this document.      *)
Save(kind, owner, id, tag) ==
  LET n == writes + 1
      e == [kind |-> kind, owner |-> owner, id |-> IF id = 0 THEN 100 + n ELSE id,
            tag |-> tag, at |-> n]
  IN /\ writes < MaxWrites /\ writes' = n
     /\ docs' = Put(docs, e)

(* A save that leaves the index and the two-document saves alone.           *)
Simple(kind, owner, id, tag) ==
  Save(kind, owner, id, tag) /\ UNCHANGED <<indexed, saving, torn>>

-----------------------------------------------------------------------------
(* Queries. *)

Visible == IF RequestPlus THEN docs ELSE indexed

(* A limit of 0 stands for no limit; the offset counts only with a limit.   *)
Page(all, limit, offset) ==
  IF limit = 0 THEN all ELSE SubSeq(all, offset + 1, Min({offset + limit, Len(all)}))

(* The page of the ordered documents under a prefix, and how many they are. *)
ListByPrefix(found, limit, offset) == [items |-> Page(found, limit, offset), total |-> Len(found)]

Newest(d, e) == d.at > e.at
HighestRevision(d, e) == d.id > e.id \/ (d.id = e.id /\ d.at > e.at)

(* ORDER BY of the list that two documents of a kind are in, and documents  *)
(* in that order: each at the place that the ones before it leave it.       *)
Before(d, e) == IF d.kind = "plan_revision" THEN HighestRevision(d, e) ELSE Newest(d, e)
Rank(d, found) == Cardinality({e \in found : Before(e, d)})
InOrder(found) ==
  [i \in 1..Cardinality(found) |-> CHOOSE d \in found : Rank(d, found) = i - 1]

(* owners and tags name the prefix and the filters; the whole set is none.  *)
Scan(kind, owners, limit, offset) ==
  LET found == {d \in Visible : d.kind = kind /\ d.owner \in owners}
  IN ListByPrefix(InOrder(found), limit, offset)
Filtered(list, tags) ==
  LET kept == InOrder({d \in ToSet(list.items) : d.tag \in tags})
  IN IF tags = Tags THEN list ELSE [items |-> kept, total |-> Len(kept)]

GetRaw(kind, owner, id) ==
  {d \in docs : d.kind = kind /\ d.owner = owner /\ d.id = id}

-----------------------------------------------------------------------------
(* Task specs, markers, suggestions, revisions. *)

UpsertTaskSpec(i, tag) == Simple("task_spec", "user", i, tag)
ListTaskSpecs(limit, offset) == Scan("task_spec", {"user"}, limit, offset)

AddAffordanceMarker(task, agent) == Simple("affordance", task, 0, agent)
ListAffordanceMarkers(tasks, agents, limit, offset) ==
  Filtered(Scan("affordance", tasks, limit, offset), agents)

AddReservationMarker(task, agent) == Simple("reservation", task, 0, agent)
ListReservationMarkers(tasks, agents, limit, offset) ==
  Filtered(Scan("reservation", tasks, limit, offset), agents)

(* Couchbase drops an affordance or a reservation at its time to live.      *)
ExpireMarker(d) ==
  /\ d.kind \in {"affordance", "reservation"} /\ writes < MaxWrites
  /\ writes' = writes + 1 /\ docs' = docs \ {d}
  /\ UNCHANGED <<indexed, saving, torn>>

SavePlanDraft(plan, pipeline) == Simple("plan_draft", plan, 1, pipeline)
ListPlanDrafts(pipelines, limit, offset) ==
  Filtered(Scan("plan_draft", Owners, limit, offset), pipelines)

SavePlanRevision(plan, revision, tag) == Simple("plan_revision", plan, revision, tag)
ListPlanRevisions(plans, limit, offset) == Scan("plan_revision", plans, limit, offset)

SavePlanSuggestion(i, status) == Simple("plan_suggestion", "user", i, status)
ListPlanSuggestions(statuses, limit, offset) ==
  Filtered(Scan("plan_suggestion", {"user"}, limit, offset), statuses)

-----------------------------------------------------------------------------
(* Approvals, ethics checks and ethics policies: the document, then a copy  *)
(* under a key of the plan or of the user. The list of a plan's decisions   *)
(* falls back to the copy when it is empty; the copy of the policy is the   *)
(* active one.                                                              *)

CopiedKinds == {"human_approval", "ethics_check", "ethics_policy"}
LatestKind(kind) ==
  CASE kind = "human_approval" -> "human_approval_latest"
    [] kind = "ethics_check"   -> "ethics_check_latest"
    [] kind = "ethics_policy"  -> "ethics_policy_active"

Pair(d) == <<d.kind, d.owner>>

Begin(kind, owner, id, tag) ==
  LET s == [kind |-> kind, owner |-> owner, tag |-> tag, at |-> writes + 1]
  IN /\ Save(kind, owner, id, tag)
     /\ saving' = saving \cup {s}
     /\ torn' = IF \E r \in saving : Pair(r) = Pair(s) THEN torn \cup {Pair(s)} ELSE torn
     /\ UNCHANGED indexed

SaveHumanApproval(plan, tag) == Begin("human_approval", plan, 0, tag)
SaveEthicsCheck(plan, tag) == Begin("ethics_check", plan, 0, tag)
SaveEthicsPolicy(i, tag) == Begin("ethics_policy", "user", i, tag)

(* The copy overwrites that of a later save if it comes last.               *)
SaveLatest(s) ==
  /\ saving' = saving \ {s}
  /\ docs' = Put(docs, [kind |-> LatestKind(s.kind), owner |-> s.owner, id |-> 0,
                        tag |-> s.tag, at |-> s.at])
  /\ UNCHANGED <<indexed, torn, writes>>

(* The service may die, or the store fail, between the two writes.          *)
SaveCut(s) ==
  /\ saving' = saving \ {s} /\ torn' = torn \cup {Pair(s)}
  /\ UNCHANGED <<docs, indexed, writes>>

FaultyWithLatest(kind, plans, limit, offset) == Scan(kind, plans, limit, offset)

WithLatest(kind, plans, limit, offset) ==
  LET list == Scan(kind, plans, limit, offset)
      latest == UNION {GetRaw(LatestKind(kind), p, 0) : p \in plans}
  IN IF list.items # <<>> \/ Cardinality(plans) # 1 THEN list
     ELSE [items |-> SetToSeq(latest), total |-> Cardinality(latest)]

ListHumanApprovals(plans, limit, offset) == WithLatest("human_approval", plans, limit, offset)
ListEthicsChecks(plans, limit, offset) == WithLatest("ethics_check", plans, limit, offset)

GetActiveEthicsPolicy == GetRaw("ethics_policy_active", "user", 0)
ListEthicsPolicies(limit, offset) == Scan("ethics_policy", {"user"}, limit, offset)

-----------------------------------------------------------------------------
(* Bids, calls, awards, cycles. A bid's key holds the task, then the bidder: *)
(* the list for a bidder and no task looks for the bidder among the tasks.  *)

AddBid(task, bidder) == Simple("bid", task, 0, bidder)
ListBids(tasks, bidders, limit, offset) ==
  Filtered(Scan("bid", IF tasks = Owners /\ bidders # Tags THEN bidders ELSE tasks, limit, offset),
           bidders)

AddCfp(task, status) == Simple("cfp", task, 0, status)
ListCfps(tasks, statuses, limit, offset) == Filtered(Scan("cfp", tasks, limit, offset), statuses)

AddContractAward(task, pipeline) == Simple("award", task, 0, pipeline)
ListContractAwards(tasks, pipelines, limit, offset) ==
  Filtered(Scan("award", tasks, limit, offset), pipelines)

SaveCnpCycle(i, status) == Simple("cnp_cycle", "user", i, status)
ListCnpCycles(statuses, limit, offset) ==
  Filtered(Scan("cnp_cycle", {"user"}, limit, offset), statuses)

-----------------------------------------------------------------------------
(* Strategies, reports, notices, audit, decisions, topology, coalitions.    *)

SaveStrategyPlan(plan, tag) == Simple("strategy", plan, 0, tag)
ListStrategyPlans(plans, limit, offset) == Scan("strategy", plans, limit, offset)

SaveExecutionReport(plan, tag) == Simple("execution", plan, 0, tag)
ListExecutionReports(plans, limit, offset) == Scan("execution", plans, limit, offset)

SaveEscalationNotice(run, tag) == Simple("escalation", run, 0, tag)
ListEscalationNotices(runs, limit, offset) == Scan("escalation", runs, limit, offset)

AddAuditLog(run, tag) == Simple("audit", run, 0, tag)
ListAuditLogs(runs, limit, offset) == Scan("audit", runs, limit, offset)

SaveDecisionRecord(task, type) == Simple("decision", task, 0, type)
ListDecisionRecords(tasks, types, limit, offset) ==
  Filtered(Scan("decision", tasks, limit, offset), types)

SaveTopologyOutcome(run, skeleton) == Simple("topology_outcome", run, 0, skeleton)
ListTopologyOutcomes(skeletons, limit, offset) ==
  Filtered(Scan("topology_outcome", Owners, limit, offset), skeletons)
SaveTopologyPerformance(i, tag) == Simple("topology_perf", "user", i, tag)

SaveCoalitionContract(task, tag) == Simple("coalition_contract", task, 0, tag)
SaveCoalitionOutcome(coalition, signature) == Simple("coalition_outcome", coalition, 0, signature)
ListCoalitionOutcomes(signatures, limit, offset) ==
  Filtered(Scan("coalition_outcome", Owners, limit, offset), signatures)
SaveCoalitionSignal(type, i, tag) == Simple("coalition_signal", type, i, tag)

(* How many documents of every status a kind has.                           *)
StatusCounts(kind) ==
  [t \in Tags |-> Cardinality({d \in Visible : d.kind = kind /\ d.tag = t})]
EntityCounts(kinds) ==
  [k \in kinds |-> Cardinality({d \in Visible : d.kind = k})]

-----------------------------------------------------------------------------
(* The indexer takes over the version of now of one document.               *)
Stale(d) == d \notin indexed /\ d \in docs
Index(d) ==
  /\ Stale(d)
  /\ indexed' = Put(indexed, d)
  /\ UNCHANGED <<docs, saving, torn, writes>>
Unindex(d) ==
  /\ d \in indexed /\ ~\E e \in docs : SameKey(d, e)
  /\ indexed' = indexed \ {d}
  /\ UNCHANGED <<docs, saving, torn, writes>>

StoreInit == docs = {} /\ indexed = {} /\ saving = {} /\ torn = {} /\ writes = 0

StoreNext ==
  \/ \E o \in Owners, t \in Tags :
       \/ AddAffordanceMarker(o, t) \/ AddReservationMarker(o, t) \/ SavePlanDraft(o, t)
       \/ SaveHumanApproval(o, t) \/ SaveEthicsCheck(o, t) \/ SaveStrategyPlan(o, t)
       \/ SaveExecutionReport(o, t) \/ SaveEscalationNotice(o, t) \/ AddAuditLog(o, t)
       \/ SaveDecisionRecord(o, t) \/ SaveTopologyOutcome(o, t)
       \/ SaveCoalitionContract(o, t) \/ SaveCoalitionOutcome(o, t)
       \/ AddBid(o, t) \/ AddCfp(o, t) \/ AddContractAward(o, t)
       \/ \E i \in Ids : SavePlanRevision(o, i, t) \/ SaveCoalitionSignal(o, i, t)
  \/ \E i \in Ids, t \in Tags :
       \/ UpsertTaskSpec(i, t) \/ SavePlanSuggestion(i, t) \/ SaveEthicsPolicy(i, t)
       \/ SaveTopologyPerformance(i, t) \/ SaveCnpCycle(i, t)
  \/ \E s \in saving : SaveLatest(s) \/ SaveCut(s)
  \/ \E d \in docs : ExpireMarker(d) \/ Index(d)
  \/ \E d \in indexed : Unindex(d)

-----------------------------------------------------------------------------
(* Once a decision about a plan is saved, a reader who asks for the plan's  *)
(* decisions finds one, however far the index lags behind. The copy that    *)
(* the active policy is read from, as those of the latest decisions, is as  *)
(* new as any document of its owner whose save is over - but only as long   *)
(* as no two of the owner's saves overlapped and none broke off between its *)
(* two writes: nothing orders or repairs these. And what services look up   *)
(* by its fields - decision records, topology and coalition outcomes - is   *)
(* found as soon as the index has it.                                       *)
DecisionVisible ==
  /\ \A p \in Owners, kind \in {"human_approval", "ethics_check"} :
       (\E d \in docs : d.kind = LatestKind(kind) /\ d.owner = p) =>
         WithLatest(kind, {p}, 0, 0).items # <<>>
  /\ \A d \in docs : d.kind \in CopiedKinds /\ Pair(d) \notin torn =>
       \/ \E s \in saving : Pair(s) = Pair(d) /\ s.at = d.at
       \/ \E e \in GetRaw(LatestKind(d.kind), d.owner, 0) : e.at >= d.at
  /\ \A d \in Visible :
       LET found == CASE d.kind = "decision" -> ListDecisionRecords({d.owner}, {d.tag}, 0, 0)
                      [] d.kind = "topology_outcome" -> ListTopologyOutcomes({d.tag}, 0, 0)
                      [] d.kind = "coalition_outcome" -> ListCoalitionOutcomes({d.tag}, 0, 0)
                      [] OTHER -> [items |-> <<d>>]
       IN d \in ToSet(found.items)
=============================================================================
