------------------------- MODULE TopologyGeneration -------------------------
(***************************************************************************)
(* Generating a pipeline from a business template: health signals give a   *)
(* policy, the policy adjusts the template, skeletons are scored with the  *)
(* outcomes recorded so far, the best one is rewritten by its mutation     *)
(* rules and compiled to tasks.  All of it is a function of its input,     *)
(* except the variant an experiment draws.                                 *)
(*                                                                         *)
(* A skeleton's steps are a function from step ids to their dependencies   *)
(* and flags.  Scores are in units of 1/1200, weights in percent.          *)
(***************************************************************************)
EXTENDS Naturals, Sequences, FiniteSets
LOCAL INSTANCE SequencesExt
LOCAL INSTANCE FiniteSetsExt

CONSTANTS
  Taxonomy,         \* expand_capabilities: a capability with its ancestors
  CapabilityFor,    \* _INTEGRATION_CAPABILITY_MAP
  MinPerfSamples,   \* TOPOLOGY_MIN_PERF_SAMPLES
  Profile(_)        \* the capabilities, tags and words of a step

Unit == 1200
AtMost(a, b) == IF a < b THEN a ELSE b
Minus(a, b) == IF a < b THEN 0 ELSE a - b

----------------------------------------------------------------------------
(* The runtime policy.  The rules run in a fixed order and overwrite one   *)
(* another, so that for each field the last rule that fires decides.       *)

CoalitionMode(s) ==
  CASE s.poolPressure -> "disabled"
    [] ~s.poolPressure /\ s.handoffs -> "discouraged"
    [] ~s.poolPressure /\ ~s.handoffs /\ s.lag = "critical" -> "disabled"
    [] ~s.poolPressure /\ ~s.handoffs /\ s.lag # "critical" /\ (s.lag = "high" \/ s.verifiersBusy) ->
         "discouraged"
    [] OTHER -> "enabled"

FallbackPolicy(s) == IF s.verifiersBusy \/ s.timeouts THEN "aggressive" ELSE "normal"

\* In percent.
RetryBudget(s) ==
  LET tightened == IF s.timeouts THEN 70 ELSE 100
  IN  IF s.poolPressure THEN AtMost(tightened, 50) ELSE tightened

VerificationMode(s) == IF s.costly THEN "minimal" ELSE IF s.incidents THEN "stricter" ELSE "standard"
VariantBias(s) == IF s.retries THEN "high_safety" ELSE IF s.costly THEN "low_cost" ELSE "balanced"
HumanGate(s) == IF s.backlog THEN "later" ELSE "normal"

\* RuntimePolicyEngine.evaluate; no rule suppresses mutations.
EvaluatePolicy(s) ==
  [coalition |-> CoalitionMode(s), fallback |-> FallbackPolicy(s), retry |-> RetryBudget(s),
   verification |-> VerificationMode(s), bias |-> VariantBias(s), human |-> HumanGate(s),
   suppressed |-> {}]

\* _apply_policy_to_template: each test reads the template as it came in.
ApplyPolicyToTemplate(t, p) ==
  [t EXCEPT
     !.compliance =
        CASE p.verification = "minimal" /\ @ = "strict" -> "moderate"
          [] p.verification = "stricter" -> "strict"
          [] p.verification # "stricter" /\ p.bias = "high_safety" /\ @ = "none" -> "moderate"
          [] OTHER -> @,
     !.criticality = IF p.bias = "high_safety" /\ @ = "low" THEN "medium" ELSE @,
     !.human = @ /\ p.human # "later"]

----------------------------------------------------------------------------
(* Scores.                                                                 *)

WorkflowClassScore(t, k) ==
  CASE k.class = t.class -> Unit
    [] k.class # t.class /\ k.class = "generic" -> 360
    [] OTHER -> 0

Expanded(caps) == caps \cup UNION {Taxonomy[c] : c \in caps}

Needs(t) == {CapabilityFor[i] : i \in t.integrations \cap DOMAIN CapabilityFor}
IntegrationScore(t, k) ==
  IF Needs(t) = {} THEN Unit
  ELSE (Unit * Cardinality(Needs(t) \cap Expanded(k.caps))) \div Cardinality(Needs(t))

ConstraintAlignmentScore(t, k) ==
  LET verified == IF t.compliance # "none" /\ "verification_gate" \notin k.patterns THEN 0 ELSE 400
      approved == IF t.human /\ "human_approval" \notin k.patterns THEN 0 ELSE 400
      resilient == IF t.criticality = "high" /\ k.patterns \cap {"retry_wrapper", "verification_gate"} = {}
                   THEN 120 ELSE 400
  IN  verified + approved + resilient

ControlPatternCoverage(t, k) ==
  LET needed == {x \in {"verification_gate", "human_approval", "retry_wrapper"} :
                   \/ x = "verification_gate" /\ t.compliance # "none"
                   \/ x = "human_approval" /\ t.human
                   \/ x = "retry_wrapper" /\ t.criticality = "high"}
  IN  IF needed = {} THEN Unit ELSE (Unit * Cardinality(needed \cap k.patterns)) \div Cardinality(needed)

\* Rates are in sixtieths.  Below 20 samples the score is pulled toward one half.
PerformanceScore(perf) ==
  IF perf = {} THEN Unit \div 2
  ELSE LET p == CHOOSE x \in perf : TRUE
           penalty == AtMost(p.retry \div 10, 6) + AtMost(p.incident \div 5, 6) + AtMost((p.escalation * 3) \div 20, 6)
           n == AtMost(p.samples, 20)
       IN  IF p.samples < MinPerfSamples THEN Unit \div 2
           ELSE Minus(30 * (20 - n) + p.success * n, penalty * n)

ScoreSkeleton(t, k, perf) ==
  35 * WorkflowClassScore(t, k) + 20 * IntegrationScore(t, k) + 15 * ConstraintAlignmentScore(t, k)
  + 10 * ControlPatternCoverage(t, k) + 20 * PerformanceScore(perf)

\* aggregate_topology_performance, for the outcomes of one signature.
Aggregate(outs) ==
  LET n == Cardinality(outs)
      Total(f) == FoldSet(LAMBDA o, a : a + o[f], 0, outs)
  IN  [samples |-> n, success |-> (60 * Cardinality({o \in outs : o.success})) \div n,
       retry |-> IF Total("tasks") = 0 THEN 0 ELSE (60 * Total("retries")) \div Total("tasks"),
       incident |-> (60 * Total("violations")) \div n, escalation |-> (60 * Total("escalations")) \div n]

\* generate_system goes through the summaries, best first, and keeps the last
\* one of each skeleton.
PerformanceLookup(outs, k) ==
  LET sums == {Aggregate({o \in outs : o.skeleton = k /\ o.signature = g}) :
                 g \in {o.signature : o \in {x \in outs : x.skeleton = k}}}
  IN  {p \in sums : \A q \in sums : p.success <= q.success}

\* retrieve_skeletons, sorted: the candidates of the best score come first.
RetrieveSkeletons(t, ks, outs, minScore) ==
  LET score == [k \in ks |-> ScoreSkeleton(t, k, PerformanceLookup(outs, k.id))]
      able == {k \in ks : k.enabled /\ score[k] >= minScore}
  IN  {k \in able : \A l \in able : score[l] <= score[k]}

----------------------------------------------------------------------------
(* Mutation rules.                                                         *)

\* evaluate_condition; "in" asks for a member of a list field.
EvaluateCondition(c, t) ==
  CASE c.op = "eq" -> t[c.field] = c.value
    [] c.op = "neq" -> t[c.field] # c.value
    [] c.op = "in" -> c.value \in t[c.field]
    [] c.op = "gte" -> t[c.field] >= c.value
    [] c.op = "lte" -> t[c.field] <= c.value
    [] OTHER -> FALSE

Renamed(deps, old, new) == {IF d = old THEN new ELSE d : d \in deps}

\* _rewire_after_insert
InsertAfter(steps, a) ==
  [s \in DOMAIN steps \cup {a.new} |->
     IF s = a.new THEN [deps |-> {a.target}, entry |-> FALSE, final |-> a.final]
     ELSE [steps[s] EXCEPT !.deps = Renamed(@, a.target, a.new)]]

InsertBefore(steps, a) ==
  [s \in DOMAIN steps \cup {a.new} |->
     CASE s = a.new -> [deps |-> steps[a.target].deps, entry |-> FALSE, final |-> a.final]
       [] s = a.target -> [steps[s] EXCEPT !.deps = {a.new}]
       [] OTHER -> steps[s]]

\* The dependents of a removed step take over its dependencies.
RemoveStep(steps, a) ==
  [s \in DOMAIN steps \ {a.target} |->
     IF a.target \in steps[s].deps
       THEN [steps[s] EXCEPT !.deps = (@ \ {a.target}) \cup steps[a.target].deps]
       ELSE steps[s]]

\* modify_field: only the final flag matters here; capabilities are changed too.
ModifyField(steps, a) ==
  IF a.field = "is_final" THEN [steps EXCEPT ![a.target].final = a.final] ELSE steps

\* _apply_action: nothing happens when the target is not there.
ApplyAction(steps, a) ==
  IF a.target \notin DOMAIN steps THEN steps
  ELSE CASE a.type = "insert_after" -> InsertAfter(steps, a)
         [] a.type = "insert_before" -> InsertBefore(steps, a)
         [] a.type = "remove" -> RemoveStep(steps, a)
         [] a.type = "modify_field" -> ModifyField(steps, a)

Fires(r, t) == \A c \in r.when : EvaluateCondition(c, t)

\* apply_mutations: matching rules by descending priority, each action in turn.
ApplyMutations(k, t) ==
  LET Earlier(i, j) == \/ k.rules[i].priority > k.rules[j].priority
                       \/ k.rules[i].priority = k.rules[j].priority /\ i < j
      order == SetToSortSeq({i \in DOMAIN k.rules : Fires(k.rules[i], t)}, Earlier)
      Apply(steps, i) == FoldLeft(ApplyAction, steps, k.rules[i].acts)
  IN  [steps |-> FoldLeft(Apply, k.steps, order), applied |-> {k.rules[i].id : i \in Range(order)}]

Without(k, ids) == [k EXCEPT !.rules = SelectSeq(@, LAMBDA r : r.id \notin ids)]

\* _generate_experiment_variant: the baseline, or one active rule skipped.
Variants(k, t) ==
  {k} \cup {Without(k, {r.id}) : r \in {r \in Range(k.rules) : t.experiment /\ Fires(r, t)}}

----------------------------------------------------------------------------
(* Compiling.                                                              *)

Share(a, b) == IF a = {} THEN 0 ELSE (Unit * Cardinality(a \cap b)) \div Cardinality(a)

\* score_template_for_step
ScoreTemplateForStep(step, m) ==
  AtMost(100 * Unit, 55 * Share(step.caps, Expanded(m.caps)) + 15 * Share(step.tags, m.tags)
                     + 30 * Share(m.keywords, step.words))

\* best_matches: the first template of the best score, among the enabled ones.
BestMatch(step, ms) ==
  LET on == {i \in DOMAIN ms : ms[i].enabled}
      best == {i \in on : \A j \in on : ScoreTemplateForStep(step, ms[j]) <= ScoreTemplateForStep(step, ms[i])}
  IN  IF best = {} THEN 0 ELSE Min(best)

\* compile_skeleton_to_pipeline: a task per step; 0 stands for "<role>-service".
\* The inputs are None, here {}, or hold the dependencies, here as a set of one.
Compile(steps, ms) ==
  [s \in DOMAIN steps |-> [inputs |-> IF steps[s].deps = {} THEN {} ELSE {steps[s].deps},
                           entry |-> steps[s].entry, final |-> steps[s].final,
                           service |-> BestMatch(Profile(s), ms)]]

\* _error_handling_for_criticality
MaxRetriesFor(criticality) ==
  CASE criticality = "high" -> 5 [] criticality = "medium" -> 3 [] OTHER -> 1

\* _build_pipeline: the tasks, with the signature of what made them.
BuildPipeline(k, v, t, ms) ==
  LET mutated == ApplyMutations(v, t)
  IN  [skeleton |-> k, signature |-> <<k.id, mutated.applied>>, retries |-> MaxRetriesFor(t.criticality),
       tasks |-> Compile(mutated.steps, ms)]

\* record_topology_outcome, at the end of a run.
RecordTopologyOutcome(g, success, retries, violations, escalations) ==
  [skeleton |-> g.skeleton.id, signature |-> g.signature, success |-> success,
   tasks |-> Cardinality(DOMAIN g.tasks), retries |-> retries, violations |-> violations,
   escalations |-> escalations]

\* generate_pipeline_from_template: what may be generated, with the skeleton used.
GeneratePipeline(t, ks, outs, policy, ms) ==
  LET eff == ApplyPolicyToTemplate(t, policy)
      specific == RetrieveSkeletons(eff, ks, outs, 30 * Unit)
      found == IF specific # {} THEN specific
               ELSE RetrieveSkeletons([eff EXCEPT !.class = "generic"], ks, outs, 0)
  IN  UNION {{BuildPipeline(k, v, eff, ms) : v \in Variants(Without(k, policy.suppressed), eff)} :
             k \in found}

\* generate_system
GenerateSystem(t, signals, ks, outs, ms) ==
  GeneratePipeline(t, ks, outs, EvaluatePolicy(signals), ms)

----------------------------------------------------------------------------
\* What the parser makes of tasks: it asks each one's inputs for its dependencies,
\* and raises where they are None.
Unread(g) == {s \in DOMAIN g.tasks : g.tasks[s].inputs = {}}
InferredSteps(g) == [s \in DOMAIN g.tasks |-> [deps |-> UNION g.tasks[s].inputs]]

\* Paths of twice the length.
Widen(R) == R \cup {<<p[1][1], p[2][2]>> : p \in {q \in R \X R : q[1][2] = q[2][1]}}

\* Pairs of steps, the second after the first, in graphs of at most 17 steps.
Before(steps) ==
  LET path[n \in 0..4] ==
        IF n = 0 THEN {e \in (DOMAIN steps) \X (DOMAIN steps) : e[1] \in steps[e[2]].deps}
        ELSE Widen(path[n - 1])
  IN  path[4]

\* Whatever rules fire, in whatever order and on whatever graph, a generated
\* pipeline depends only on steps it has, has no cycle, and runs the steps that
\* are left of the skeleton in an order the skeleton allows: inserting and
\* removing steps never lets one run before what it came after.
GeneratedGraphSound(generated) ==
  \A g \in generated :
    LET steps == InferredSteps(g)
        before == Before(steps)
        left == {e \in Before(g.skeleton.steps) : e[1] \in DOMAIN g.tasks /\ e[2] \in DOMAIN g.tasks}
    IN  /\ \A s \in DOMAIN g.tasks : steps[s].deps \subseteq DOMAIN g.tasks /\ <<s, s>> \notin before
        /\ left = {e \in before : e[1] \in DOMAIN g.skeleton.steps /\ e[2] \in DOMAIN g.skeleton.steps}

\* One thing keeps what is generated from being registered: the parser raises on
\* the entry step, whose inputs are None, and on no other step.  But for that, the
\* entry is the only step flagged as entry, and exactly the steps that no other
\* step waits for are flagged as final, as _validate_final_leafs demands.
OnlyEntryUnread(generated) ==
  \A g \in generated :
    LET T == DOMAIN g.tasks
        leaves == {s \in T : ~\E u \in T : s \in InferredSteps(g)[u].deps}
    IN  /\ Cardinality(Unread(g)) = 1
        /\ \A s \in T : g.tasks[s].entry <=> s \in Unread(g)
        /\ \A s \in T : g.tasks[s].final <=> s \in leaves
=============================================================================
