--------------------------- MODULE GraphStoreApi ---------------------------
(***************************************************************************)
(* The REST routes over GraphMarkerStore (routers/graph_store.py and       *)
(* routers/cnp.py): one row per resource with the parameters its list      *)
(* takes, whether a document can be fetched by id and whether a POST reads *)
(* its document back. A client walks a list page after page while others   *)
(* write; every page is a count query followed by a page query. What a     *)
(* decision does to its suggestion is in PlanRevision.                     *)
(***************************************************************************)
EXTENDS MarkerStore

CONSTANTS
  PageSize,  \* the limit a client walks with
  MaxPages   \* bound: pages of a walk

ASSUME PageAssumption == PageSize \in Nat \ {0} /\ MaxPages \in Nat

VARIABLES
  walk,  \* the client's walk through a list
  post   \* the POST that has written and not yet read back, and its answer

apiVars == <<walk, post>>

-----------------------------------------------------------------------------
(* prefix: parameters that narrow the key; filters: parameters applied to   *)
(* the page. Lists of a user's documents have no owner in the key.          *)
Route(kind, prefix, filters, post1, one) ==
  [kind |-> kind, prefix |-> prefix, filters |-> filters, post |-> post1, one |-> one]

TaskSpecRoutes == {Route("task_spec", {}, {}, "read_back", TRUE)}
MarkerRoutes ==
  {Route("affordance", {"task_id"}, {"agent_id", "pipeline_id", "pipeline_run_id"}, "key", FALSE),
   Route("reservation", {"task_id"}, {"agent_id"}, "key", FALSE)}
BidRoutes ==
  {Route("bid", {"task_id", "bidder_id"}, {"bidder_id", "pipeline_id", "pipeline_run_id"}, "key", FALSE)}
PlanRoutes ==
  {Route("plan_draft", {}, {"pipeline_id", "pipeline_run_id"}, "read_back", TRUE),
   Route("plan_revision", {"plan_id"}, {}, "none", TRUE)}
SuggestionRoutes ==
  {Route("plan_suggestion", {}, {"plan_id", "pipeline_run_id", "status"}, "none", TRUE)}
ContractRoutes ==
  {Route("cfp", {"task_id"}, {"status"}, "key", FALSE),
   Route("award", {"task_id"}, {"pipeline_id", "pipeline_run_id"}, "key", FALSE)}
DecisionRoutes ==
  {Route("human_approval", {"plan_id"}, {}, "key", FALSE),
   Route("ethics_check", {"plan_id"}, {}, "key", FALSE)}
PolicyRoutes == {Route("ethics_policy", {}, {}, "key", TRUE)}
ExecutionRoutes ==
  {Route("strategy", {"plan_id"}, {}, "key", FALSE),
   Route("execution", {"plan_id"}, {}, "key", FALSE)}
AuditRoutes ==
  {Route("audit", {"pipeline_run_id"}, {}, "key", FALSE),
   Route("escalation", {"pipeline_run_id"}, {}, "key", FALSE)}
CycleRoutes == {Route("cnp_cycle", {}, {"pipeline_id", "status"}, "none", TRUE)}

Routes ==
  TaskSpecRoutes \cup MarkerRoutes \cup BidRoutes \cup PlanRoutes \cup SuggestionRoutes
    \cup ContractRoutes \cup DecisionRoutes \cup PolicyRoutes \cup ExecutionRoutes
    \cup AuditRoutes \cup CycleRoutes

-----------------------------------------------------------------------------
(* The store's list behind a route. A parameter that is not given is the    *)
(* whole set, and so is one the route does not have.                        *)
ListRoute(r, owners, tags, limit, offset) ==
  LET os == IF r.prefix = {} THEN Owners ELSE owners
      ts == IF r.filters = {} THEN Tags ELSE tags
  IN CASE r.kind = "task_spec"       -> ListTaskSpecs(limit, offset)
       [] r.kind = "affordance"      -> ListAffordanceMarkers(os, ts, limit, offset)
       [] r.kind = "reservation"     -> ListReservationMarkers(os, ts, limit, offset)
       [] r.kind = "bid"             -> ListBids(os, ts, limit, offset)
       [] r.kind = "plan_draft"      -> ListPlanDrafts(ts, limit, offset)
       [] r.kind = "plan_revision"   -> ListPlanRevisions(os, limit, offset)
       [] r.kind = "plan_suggestion" -> ListPlanSuggestions(ts, limit, offset)
       [] r.kind = "cfp"             -> ListCfps(os, ts, limit, offset)
       [] r.kind = "award"           -> ListContractAwards(os, ts, limit, offset)
       [] r.kind = "human_approval"  -> ListHumanApprovals(os, limit, offset)
       [] r.kind = "ethics_check"    -> ListEthicsChecks(os, limit, offset)
       [] r.kind = "ethics_policy"   -> ListEthicsPolicies(limit, offset)
       [] r.kind = "strategy"        -> ListStrategyPlans(os, limit, offset)
       [] r.kind = "execution"       -> ListExecutionReports(os, limit, offset)
       [] r.kind = "audit"           -> ListAuditLogs(os, limit, offset)
       [] r.kind = "escalation"      -> ListEscalationNotices(os, limit, offset)
       [] r.kind = "cnp_cycle"       -> ListCnpCycles(ts, limit, offset)

FaultyHasMore(items, total, limit, offset) == limit # 0 /\ Len(items) < total - limit

(* PaginatedResponse.from_items.                                            *)
HasMore(items, total, limit, offset) == limit # 0 /\ offset + Len(items) < total

(* GET of one document, read by its key.                                    *)
GetOne(r, owner, id) ==
  LET found == GetRaw(r.kind, owner, id)
  IN IF found = {} THEN [status |-> 404, docs |-> {}] ELSE [status |-> 200, docs |-> found]

(* GET /graph-store/{user}/stats.                                           *)
GetGraphStoreStats ==
  [counts |-> EntityCounts({r.kind : r \in Routes}),
   cfps |-> StatusCounts("cfp"), suggestions |-> StatusCounts("plan_suggestion")]

-----------------------------------------------------------------------------
(* A walk is disturbed when a document leaves the list, or when one enters  *)
(* it between the count and the page.                                       *)
Disturb ==
  LET Keys(D) == {<<d.owner, d.id>> : d \in {e \in D : e.kind = walk.route.kind}}
      before == Keys(Visible)
      after == Keys(Visible')
      bad == ~(before \subseteq after) \/ (walk.at = "page" /\ before # after)
  IN walk' = IF walk.at = "none" THEN walk ELSE [walk EXCEPT !.disturbed = @ \/ bad]

-----------------------------------------------------------------------------
(* A POST of a task spec or a plan draft writes the document and answers    *)
(* with what a read finds.                                                  *)
ReadBack(p) == GetRaw(p.kind, p.owner, p.id)

PostTaskSpec(i, t) ==
  /\ post.status # 102 /\ UpsertTaskSpec(i, t)
  /\ post' = [kind |-> "task_spec", owner |-> "user", id |-> i, at |-> writes', status |-> 102]
  /\ Disturb
PostPlanDraft(plan, t) ==
  /\ post.status # 102 /\ SavePlanDraft(plan, t)
  /\ post' = [kind |-> "plan_draft", owner |-> plan, id |-> 1, at |-> writes', status |-> 102]
  /\ Disturb
AnswerPost ==
  /\ post.status = 102
  /\ post' = [post EXCEPT !.status = IF ReadBack(post) = {} THEN 500 ELSE 201]
  /\ UNCHANGED <<walk, storeVars>>

-----------------------------------------------------------------------------
(* A walk through a list without parameters.                                *)

StartWalk(r) ==
  /\ walk.at = "none"
  /\ walk' = [at |-> "count", route |-> r, offset |-> 0, total |-> 0, pages |-> 0,
              first |-> {d \in Visible : d.kind = r.kind}, seen |-> {}, more |-> TRUE,
              disturbed |-> FALSE]
  /\ UNCHANGED <<post, storeVars>>

CountPage ==
  /\ walk.at = "count" /\ walk.more /\ walk.pages < MaxPages
  /\ walk' = [walk EXCEPT !.at = "page", !.pages = @ + 1,
                !.total = ListRoute(walk.route, Owners, Tags, PageSize, walk.offset).total]
  /\ UNCHANGED <<post, storeVars>>

FetchPage ==
  /\ walk.at = "page"
  /\ LET items == ListRoute(walk.route, Owners, Tags, PageSize, walk.offset).items
     IN walk' = [walk EXCEPT !.at = "count", !.seen = @ \cup ToSet(items),
                   !.more = HasMore(items, walk.total, PageSize, walk.offset),
                   !.offset = @ + PageSize]
  /\ UNCHANGED <<post, storeVars>>

(* Everybody else's writes.                                                 *)
OthersWrite == StoreNext /\ UNCHANGED post /\ Disturb

NoWalk == [at |-> "none", route |-> CHOOSE r \in Routes : TRUE, offset |-> 0, total |-> 0,
           pages |-> 0, first |-> {}, seen |-> {}, more |-> FALSE, disturbed |-> FALSE]

ApiInit ==
  /\ StoreInit /\ walk = NoWalk
  /\ post = [kind |-> "none", owner |-> "none", id |-> 0, at |-> 0, status |-> 0]

ApiNext ==
  \/ OthersWrite \/ CountPage \/ FetchPage \/ AnswerPost
  \/ \E r \in Routes : StartWalk(r)
  \/ \E i \in Ids, t \in Tags : PostTaskSpec(i, t)
  \/ \E o \in Owners, t \in Tags : PostPlanDraft(o, t)

-----------------------------------------------------------------------------
(* A client that asks for pages until has_more is false has seen every      *)
(* document that was in the list when it started and did not change since,  *)
(* in spite of documents that others save meanwhile - unless a document was *)
(* removed or one entered the list between a count and its page.            *)
WalkSeesAll ==
  (walk.at = "count" /\ ~walk.more /\ ~walk.disturbed) =>
    \A d \in walk.first : d \in Visible => d \in walk.seen

(* A POST never answers 500 for a document it has written, however far the  *)
(* index lags; the statistics count what the lists hold; what a list shows  *)
(* can be fetched by its id; and a list with parameters and no limit holds  *)
(* what the list without them holds for them.                               *)
AnswersAgree ==
  /\ post.status # 500
  /\ LET stats == GetGraphStoreStats
         Filled == {r \in Routes : \E d \in docs \cup indexed : d.kind = r.kind}
     IN \A r \in Filled :
          LET all == ListRoute(r, Owners, Tags, 0, 0)
              items == ToSet(all.items)
          IN /\ stats.counts[r.kind] = all.total
             /\ \A d \in items :
                  /\ r.one => GetOne(r, d.owner, d.id).status = 200
                  /\ ToSet(ListRoute(r, {d.owner}, {d.tag}, 0, 0).items) =
                       {e \in items : /\ r.prefix # {} => e.owner = d.owner
                                      /\ r.filters # {} => e.tag = d.tag}

(* What the routes answer about the documents of a kind: a decision that    *)
(* was saved is found (DecisionVisible), and POSTs, statistics, lists and    *)
(* single documents agree (AnswersAgree).                                    *)
StoreAnswers == DecisionVisible /\ AnswersAgree

ApiVars == <<storeVars, apiVars>>
ApiSpec == ApiInit /\ [][ApiNext]_ApiVars
=============================================================================
