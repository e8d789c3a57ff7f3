------------------------ MODULE EvaluationPipelines ------------------------
(***************************************************************************)
(* evaluation/pipeline_templates.py: the pipelines that the ablation runs  *)
(* launch. Every configuration of the study switches parts of the graph on *)
(* or off. env says what the environment enables: full mode, compliance,   *)
(* strategist, ethics; a pipeline is a sequence of tasks in their order.   *)
(***************************************************************************)
EXTENDS DraftBuilding

EvalTask(id, deps) == [id |-> id, deps |-> deps, final |-> id = "proposal"]
SharedDagTasks ==
  <<EvalTask("transcription", {}), EvalTask("summary", {"transcription"}),
    EvalTask("warehouse", {"summary"}), EvalTask("estimation", {"summary"}),
    EvalTask("necessity", {"summary"}), EvalTask("compliance", {"warehouse"}),
    EvalTask("proposal", {"compliance", "estimation", "necessity"})>>
CoordinationTasks ==
  <<EvalTask("graph_build", {}), EvalTask("validation", {"graph_build"}),
    EvalTask("cache", {"validation"}), EvalTask("strategist", {"cache"}),
    EvalTask("ethics", {"strategist"})>>

(* CLIENT_CNP_METADATA: the priority of the client's warehouse search.      *)
ClientPriority(client) ==
  CASE client = "greenleaf" -> 1
    [] client = "quickship" -> 3
    [] OTHER -> 2

ActiveTemplates(env) ==
  LET off == {id \in {"compliance", "strategist", "ethics"} : ~env[id]}
      on(tasks) == SelectSeq(tasks, LAMBDA t : t.id \notin off)
  IN on(SharedDagTasks) \o (IF env.full THEN on(CoordinationTasks) ELSE <<>>)

CoordinationTail(env) ==
  IF env.ethics THEN "ethics" ELSE IF env.strategist THEN "strategist" ELSE "cache"

(* The dependencies of a task in full mode, after all the rewiring.         *)
FullDependencies(t, env, client) ==
  CASE t.id = "proposal" ->
         {"estimation", "necessity", CoordinationTail(env),
          IF env.compliance THEN "compliance" ELSE "warehouse"}
    [] t.id = "estimation" /\ env.strategist /\ ClientPriority(client) <= 2 ->
         t.deps \cup {"warehouse"}
    [] t.id = "graph_build" ->
         {"warehouse", "estimation", "necessity"} \cup (IF env.compliance THEN {"compliance"} ELSE {})
    [] t.id = "ethics" /\ ~env.strategist -> {"cache"}
    [] OTHER -> t.deps

(* The minimal mode makes a chain of the tasks; the last one is final.      *)
BuildPipelinePayload(env, client) ==
  LET tasks == ActiveTemplates(env)
  IN [i \in DOMAIN tasks |->
        IF env.full THEN [tasks[i] EXCEPT !.deps = FullDependencies(tasks[i], env, client)]
        ELSE [tasks[i] EXCEPT !.deps = IF i = 1 THEN {} ELSE {tasks[i - 1].id},
                              !.final = i = Len(tasks)]]

Numbered(tasks) ==
  [i \in DOMAIN tasks |-> {j \in DOMAIN tasks : tasks[j].id \in tasks[i].deps}]

-----------------------------------------------------------------------------
(* Whatever is switched off, the pipeline names no task that is off, the    *)
(* parser accepts it, its one final task is its only end, which every other *)
(* task leads to, nothing is proposed before an enabled compliance check,   *)
(* and the draft that its own graph builder makes of it validates.          *)
EvalPipelineSound(env, client) ==
  LET tasks == BuildPipelinePayload(env, client)
      n == Len(tasks)
      ids == {tasks[i].id : i \in 1..n}
      deps == Numbered(tasks)
      ends == {i \in 1..n : Dependents(n, deps, i) = {}}
      before == LET B[k \in 0..n] == IF k = 0 THEN ends ELSE B[k - 1] \cup UNION {deps[i] : i \in B[k - 1]}
                IN B[n]
      pipe == [i \in 1..n |-> [deps |-> deps[i], services |-> tasks[i].id, named |-> "none",
                               cnpType |-> "none", cnpCapability |-> "none", action |-> tasks[i].id]]
      run_doc == [i \in 1..n |-> tasks[i].id]
      specs == SpecsById(<<>>, pipe, run_doc, {})
  IN /\ \A i \in 1..n : tasks[i].deps \subseteq ids
     /\ Accepts(n, deps)
     /\ \E i \in 1..n : ends = {i} /\ tasks[i].id = "proposal" /\ {j \in 1..n : tasks[j].final} = {i}
     /\ before = 1..n /\ env.compliance = ("compliance" \in ids)
     /\ Violations(BuildGraphSpec(specs, <<>>, run_doc, <<>>, {})) = {}
============================================================================
