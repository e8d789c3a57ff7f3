---------------------------- MODULE MCPlanning ----------------------------
(***************************************************************************)
(* Planning, checked in one run: which says whether a behaviour is about   *)
(* revisions of a plan or its gates, or evaluates the graph algorithms on  *)
(* every graph of at most four tasks, the building of drafts, or the       *)
(* generation of a pipeline from skeletons, on every input of a small set. *)
(***************************************************************************)
EXTENDS EvaluationPipelines, PlanGates, TopologySeeds

VARIABLES which, input

planningVars == <<which, input, planVars, gateVars>>

-----------------------------------------------------------------------------
(* A task may be added with an edge, closed into a cycle of three, changed *)
(* to another agent, removed, left without an agent, or made a new root.   *)
SomeDeltas ==
  {NoDelta,
   [NoDelta EXCEPT !.add = {<<3, "x">>}, !.addE = {<<2, 3>>}],
   [NoDelta EXCEPT !.add = {<<3, "y">>}, !.addE = {<<2, 3>>, <<3, 1>>}],
   [NoDelta EXCEPT !.over = {<<2, "y">>}],
   [NoDelta EXCEPT !.rem = {2}],
   [NoDelta EXCEPT !.add = {<<3, "none">>}]}

(* The model with every gate on, and the rules with every gate off.        *)
TwoEnvs ==
  {[stub |-> FALSE, provider |-> TRUE, ethics |-> TRUE, human |-> TRUE, launch |-> TRUE],
   [stub |-> TRUE, provider |-> FALSE, ethics |-> FALSE, human |-> FALSE, launch |-> FALSE]}

-----------------------------------------------------------------------------
(* Graphs, up to three tasks also with self-dependencies, and what a       *)
(* language model may answer as phases.                                    *)
GraphInputs ==
  UNION {{[n |-> n, deps |-> d] :
            d \in {e \in [1..n -> SUBSET (1..n)] : n < 4 \/ \A t \in 1..n : t \notin e[t]}} :
         n \in 1..4}
Answers == {<<>>, <<{1}, {2}>>, <<{1, 2}>>, <<{2}, {1}>>, <<{1}, {2, 3}>>,
            <<{1}, {2}, {3}, {4, 1}>>}

(* The same graph as a draft whose tasks are all assigned.                 *)
AsDraft(i) ==
  [tasks |-> 1..i.n, edges |-> UNION {i.deps[t] \X {t} : t \in 1..i.n},
   info |-> [t \in PlanTasks |-> IF t \in 1..i.n THEN "x" ELSE "none"], dup |-> FALSE]

-----------------------------------------------------------------------------
(* Pipelines of three tasks; the second task may have a specification of   *)
(* its own, a bid, and a type that the others lack.                        *)
NoSpec == [pipeline |-> "other", spec |-> <<>>]
DraftInputs ==
  [deps : {d \in [1..3 -> SUBSET (1..3)] : \A t \in 1..3 : t \notin d[t]},
   own : {NoSpec} \cup [pipeline : {"none", "this"},
                       spec : [deps : {{}, {1}, {3}}, service : {"none"}, type : {"none", "t"},
                               caps : {{}, {"c"}}]],
   typed : {{}, {1, 3}, {1, 2, 3}}, seeded : BOOLEAN, bid : BOOLEAN, only : {{}, {1, 2}, {2, 3}}]
DraftSound(i) ==
  BuiltDraftSound(3, 2 :> i.own,
    [t \in 1..3 |-> [deps |-> i.deps[t], services |-> IF t = 3 THEN "none" ELSE "s", named |-> "none",
                     cnpType |-> "none", cnpCapability |-> "none",
                     action |-> IF t \in i.typed THEN "t" ELSE "none"]],
    [t \in IF i.seeded THEN 1..3 ELSE {} |-> "r"], i.only,
    [t \in IF i.bid THEN {2} ELSE {} |-> "x"], "x" :> "s")

-----------------------------------------------------------------------------
(* Skeleton "ka" has three steps in any order and two rules, one of them   *)
(* conditional; "kg" is the generic one.                                   *)
Actions == [type : {"insert_after", "insert_before", "remove", "modify_field"}, target : 1..4,
            new : {4}, final : {FALSE}, field : {"is_final"}]
TopologyInputs ==
  [g : {d \in [1..3 -> SUBSET (1..3)] : \A i \in 1..3 : d[i] \subseteq 1..(i - 1)},
   first : {a \in Actions : a.target # 4}, second : Actions, priority : {1, 2},
   compliance : {"none", "strict"}]
SkeletonA(i) ==
  [id |-> "ka", class |-> "a", enabled |-> TRUE, patterns |-> {"human_approval"}, caps |-> {"parse"},
   steps |-> [s \in 1..3 |-> [deps |-> i.g[s], entry |-> i.g[s] = {}, final |-> s = 3]],
   rules |-> <<[id |-> "r1", priority |-> 1, acts |-> <<i.first>>,
                when |-> Condition("compliance", "neq", "none")],
               [id |-> "r2", priority |-> i.priority, acts |-> <<[i.second EXCEPT !.new = 5]>>,
                when |-> {}]>>]
Generic ==
  [id |-> "kg", class |-> "generic", enabled |-> TRUE, patterns |-> {"verification_gate"},
   caps |-> {}, rules |-> <<>>,
   steps |-> [s \in 1..2 |-> [deps |-> 1..(s - 1), entry |-> s = 1, final |-> s = 2]]]
NoSignals(costly, incidents) ==
  [lag |-> "high", verifiersBusy |-> TRUE, timeouts |-> TRUE, incidents |-> incidents,
   handoffs |-> FALSE, costly |-> costly, backlog |-> FALSE, poolPressure |-> FALSE,
   retries |-> FALSE]
ProfileOf(s) == [caps |-> {"transform"}, tags |-> {"t"}, words |-> {"w"}]
Templates == <<[enabled |-> TRUE, caps |-> {"parse"}, tags |-> {}, keywords |-> {"w"}],
               [enabled |-> FALSE, caps |-> {"parse"}, tags |-> {"t"}, keywords |-> {"w"}]>>
FromGraph(i) ==
  GenerateSystem([class |-> "a", compliance |-> i.compliance, criticality |-> "low", human |-> TRUE,
                  experiment |-> FALSE, integrations |-> {"email"}, volume |-> 3],
                 NoSignals(FALSE, FALSE), {SkeletonA(i), Generic}, {}, Templates)

(* The logistics seeds with every combination of what their rules ask, for *)
(* a first pipeline and, after its outcome was recorded, a second one.     *)
SeedInputs ==
  [class : {k.class : k \in LogisticsSeeds} \cup {"other"}, compliance : {"none", "moderate", "strict"},
   criticality : {"low", "high"}, human : BOOLEAN, experiment : BOOLEAN,
   integrations : {{}, {"email"}, {"wms", "email"}, {"carrier_api", "customs_db", "email"}},
   volume : {3}, costly : BOOLEAN, incidents : BOOLEAN]
FromSeeds(i) ==
  LET signals == NoSignals(i.costly, i.incidents)
      first == GenerateSystem(i, signals, LogisticsSeeds, {}, Templates)
      outs == {RecordTopologyOutcome(g, i.human, 1, 0, 2) : g \in first}
  IN first \cup GenerateSystem(i, signals, LogisticsSeeds, outs, Templates)

-----------------------------------------------------------------------------
(* What the functions are applied to; for generation, what it returned.    *)
Input == CASE which = "graphs" -> GraphInputs
           [] which = "drafts" -> DraftInputs
           [] which = "evaluation" ->
                [full : BOOLEAN, compliance : BOOLEAN, strategist : BOOLEAN, ethics : BOOLEAN]
                  \X {"freshco", "techparts", "greenleaf", "quickship", "nordicsteel"}
           [] which = "topology" -> {FromGraph(i) : i \in TopologyInputs}
           [] which = "seeds" -> {FromSeeds(i) : i \in SeedInputs}
           [] OTHER -> {<<>>}

PlanningInit ==
  /\ which \in {"revision", "gates", "graphs", "drafts", "evaluation", "topology", "seeds"}
  /\ input \in Input
  /\ PlanInit
  /\ which # "revision" => conf = [auto |-> FALSE, shared |-> FALSE]
  /\ GateInit
  /\ which # "gates" => content = {} /\ env.stub

RevisionStep == which = "revision" /\ PlanNext /\ UNCHANGED <<which, input, gateVars>>
GateStep     == which = "gates" /\ GateNext /\ UNCHANGED <<which, input, planVars>>

PlanningNext == RevisionStep \/ GateStep

(* The consumer goes on taking commands, and a check comes to an end.      *)
GateFairness == WF_gateVars(which = "gates" /\ GateProgress /\ UNCHANGED <<which, input, planVars>>)

PlanningSpec == PlanningInit /\ [][PlanningNext]_planningVars /\ GateFairness

-----------------------------------------------------------------------------
(* The parser accepts exactly the well-formed graphs and gives them the     *)
(* queues and bindings they need (ParserSound); whatever phases a language model        *)
(* proposes, the strategist's phases respect the dependencies and its      *)
(* critical path is a longest one (StrategySound); the differences of      *)
(* revisions tell what                                                     *)
(* changed (DiffLeadsFrom), drafts of sound inputs validate and can be      *)
(* carried out (BuiltDraftSound), and so can every pipeline of the ablation *)
(* study (EvalPipelineSound).                                              *)
GraphsSound ==
  /\ which = "graphs" =>
       /\ ParserSound(input.n, input.deps)
       /\ input.n = 1 => \A deps \in [1..2 -> SUBSET (1..3)] : ParserSound(2, deps)
       /\ \A a \in Answers : StrategySound(input.n, input.deps, a)
       /\ input.n = 3 =>
            \A d, e \in Deltas :
              DiffLeadsFrom(ApplyDelta(AsDraft(input), d), ApplyDelta(AsDraft(input), e))
  /\ which = "drafts" => DraftSound(input)
  /\ which = "evaluation" => EvalPipelineSound(input[1], input[2])

(* Whatever rules a skeleton has, generate_system makes a sound graph of   *)
(* it (GeneratedGraphSound), and of what it makes of the logistics seeds   *)
(* the parser cannot read the entry step, and nothing else is wrong        *)
(* (OnlyEntryUnread).                                                      *)
GeneratedSound ==
  /\ which \in {"topology", "seeds"} => GeneratedGraphSound(input)
  /\ which = "seeds" => OnlyEntryUnread(input)

(* What the planning functions compute from every input is sound.          *)
FunctionsSound == GraphsSound /\ GeneratedSound
=============================================================================
