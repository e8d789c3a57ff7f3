-------------------------- MODULE DraftBuilding --------------------------
(***************************************************************************)
(* How the graph builder makes the first draft of a plan from the stored   *)
(* task specifications, the pipeline's configuration, the run and the best *)
(* bids, and which rules of the plan validator the draft then breaks. The  *)
(* awards and evaluation sequences it saves on the way are in ContractNet. *)
(* Tasks are numbers; "none" stands for what is missing.                   *)
(***************************************************************************)
EXTENDS PlanRevision, GraphAlgorithms

(* A specification that the graph builder makes of a task of the pipeline:  *)
(* the service of the run comes before the configured one, metadata of the  *)
(* task before both, a capability is always found.                          *)
ServiceNameFromRun(run_doc, t) == IF t \in DOMAIN run_doc THEN run_doc[t] ELSE "none"
FirstOf(names) == LET known == SelectSeq(names, LAMBDA s : s # "none")
                  IN IF known = <<>> THEN "none" ELSE Head(known)

LoadPipelineSpec(meta, run_doc, t) ==
  LET resolved == FirstOf(<<ServiceNameFromRun(run_doc, t), meta.services>>)
  IN [deps |-> meta.deps, service |-> FirstOf(<<meta.named, resolved>>),
      type |-> FirstOf(<<meta.cnpType, meta.action>>),
      caps |-> {FirstOf(<<meta.cnpCapability, resolved, "task_id">>)}]

(* Stored specifications of this pipeline, and of no pipeline, win over the *)
(* configuration's. An empty list of task ids selects all.                  *)
Selected(only, t) == only = {} \/ t \in only
SpecsById(stored, pipe, run_doc, only) ==
  LET own == {t \in DOMAIN stored : Selected(only, t) /\ stored[t].pipeline # "other"}
      configured == {t \in DOMAIN pipe : Selected(only, t)}
  IN [t \in own \cup configured |->
        IF t \in own THEN stored[t].spec ELSE LoadPipelineSpec(pipe[t], run_doc, t)]

ResolveServiceName(spec, agent, agent_services, service_names) ==
  FirstOf(<<spec.service,
            IF agent \in DOMAIN agent_services THEN agent_services[agent] ELSE "none",
            IF agent \in service_names THEN agent ELSE "none">>)

BuildOntology(specs) ==
  [caps |-> UNION {specs[t].caps : t \in DOMAIN specs},
   types |-> {specs[t].type : t \in DOMAIN specs} \ {"none"}]

(* The best bidder is assigned, else the service of the run.                *)
BuildGraphSpec(specs, best, run_doc, agent_services, service_names) ==
  LET agent(t) == IF t \in DOMAIN best THEN best[t] ELSE ServiceNameFromRun(run_doc, t)
  IN [tasks |-> [t \in DOMAIN specs |->
                   [agent |-> agent(t), caps |-> specs[t].caps, type |-> specs[t].type,
                    service |-> ResolveServiceName(specs[t], agent(t), agent_services, service_names)]],
      edges |-> UNION {specs[t].deps \X {t} : t \in DOMAIN specs},
      ontology |-> BuildOntology(specs)]

-----------------------------------------------------------------------------
(* The rules of _validate_graph_spec that a draft can break: by task, by    *)
(* edge, and for the whole.                                                 *)
ExtractTaskIds(g) ==
  {<<"missing_assignment", t>> : t \in {u \in DOMAIN g.tasks : g.tasks[u].agent = "none"}}
OntologyViolations(g) ==
  {<<"missing_required_capabilities", t>> : t \in {u \in DOMAIN g.tasks : g.tasks[u].caps = {}}}
  \cup {<<"unknown_capability", t>> :
          t \in {u \in DOMAIN g.tasks : ~g.tasks[u].caps \subseteq g.ontology.caps}}
  \cup {<<"missing_task_type", t>> :
          t \in {u \in DOMAIN g.tasks : g.tasks[u].type = "none" /\ g.ontology.types # {}}}
Violations(g) ==
  ExtractTaskIds(g) \cup OntologyViolations(g)
  \cup {<<"edge_missing_task", e>> : e \in {f \in g.edges : ~{f[1], f[2]} \subseteq DOMAIN g.tasks}}
  \cup (IF DetectCycle(DOMAIN g.tasks, g.edges) THEN {<<"cycle_detected">>} ELSE {})
  \cup (IF DOMAIN g.tasks = {} THEN {<<"no_tasks">>} ELSE {})

-----------------------------------------------------------------------------
(* The draft of a pipeline that the parser accepts, with a run, validates   *)
(* unless a stored specification brings in a cycle or lacks capabilities,   *)
(* only some tasks have a type, or the task ids leave out a dependency; and *)
(* a draft that validates can be carried out: its phases cover it, and a    *)
(* task that the run or its registered bidder knows has a service to start. *)
BuiltDraftSound(n, stored, pipe, run_doc, only, best, agent_services) ==
  LET specs == SpecsById(stored, pipe, run_doc, only)
      g == BuildGraphSpec(specs, best, run_doc, agent_services, {})
      T == DOMAIN specs
      deps == [t \in 1..n |-> IF t \in T THEN specs[t].deps ELSE {}]
      typed == {t \in T : specs[t].type # "none"}
  IN /\ (/\ Accepts(n, [t \in 1..n |-> pipe[t].deps]) /\ DOMAIN run_doc = 1..n
         /\ T # {} /\ typed \in {{}, T} /\ \A t \in T : specs[t].caps # {} /\ specs[t].deps \subseteq T
         /\ T \cap DOMAIN stored # {} => Acyclic(n, deps))
          => Violations(g) = {}
     /\ Violations(g) = {} =>
          /\ UNION ToSet(TopologicalPhases(n, deps)) = 1..n
          /\ \A t \in T :
               (t \in DOMAIN run_doc \ DOMAIN stored \/ g.tasks[t].agent \in DOMAIN agent_services)
                 => g.tasks[t].service # "none"
============================================================================
