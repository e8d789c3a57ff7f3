-------------------------- MODULE GraphAlgorithms --------------------------
(***************************************************************************)
(* What the system computes from the dependencies of tasks: the workflow    *)
(* config parser, which turns a pipeline into an execution order, queues    *)
(* and exchanges, and the strategist's phases and critical path. Tasks are *)
(* numbered as they are listed, deps[t] is what task t depends on.         *)
(***************************************************************************)
EXTENDS Integers, FiniteSets, Sequences, SequencesExt, FiniteSetsExt

Listed(n) == [i \in 1..n |-> i]
Dependents(n, deps, t) == {u \in 1..n : t \in deps[u]}

(* One round of Kahn's algorithm: the first task of the queue is done, its  *)
(* dependents lose one open dependency and join the queue at none. The      *)
(* level of a task is one above the last dependency that freed it.          *)
KahnStep(n, deps, st) ==
  IF st.queue = <<>> THEN st
  ELSE LET c == Head(st.queue)
           deg == [u \in 1..n |-> IF c \in deps[u] THEN st.deg[u] - 1 ELSE st.deg[u]]
           free == SelectSeq(Listed(n), LAMBDA u : c \in deps[u] /\ deg[u] = 0)
       IN [queue |-> Tail(st.queue) \o free, deg |-> deg, order |-> Append(st.order, c),
           level |-> [u \in 1..n |-> IF u \in ToSet(free) THEN st.level[c] + 1 ELSE st.level[u]]]

Kahn(n, deps) ==
  FoldLeft(LAMBDA st, i : KahnStep(n, deps, st),
           [queue |-> SelectSeq(Listed(n), LAMBDA u : deps[u] = {}),
            deg |-> [u \in 1..n |-> Cardinality(deps[u])], order |-> <<>>,
            level |-> [u \in 1..n |-> 0]],
           Listed(n))

-----------------------------------------------------------------------------
(* The checks of parse_graph, in the order in which they are made.          *)

InferDependencies(n, deps) == \A t \in 1..n : deps[t] \subseteq 1..n

FaultyDetectCyclesKahn(n, deps) == Kahn(n, deps).order = <<>>   \* no task is free
DetectCyclesKahn(n, deps) == Len(Kahn(n, deps).order) # n

SoloNodes(n, deps) == {t \in 1..n : deps[t] = {} /\ Dependents(n, deps, t) = {}}

(* The search starts at the task listed first and follows the edges         *)
(* forward only.                                                            *)
Reached(n, deps) ==
  LET R[i \in 0..n] == IF i = 0 THEN {1}
                       ELSE R[i - 1] \cup UNION {Dependents(n, deps, t) : t \in R[i - 1]}
  IN R[n]
ValidateSingleConnectedDag(n, deps) == n > 0 /\ Reached(n, deps) = 1..n

Accepts(n, deps) ==
  /\ InferDependencies(n, deps) /\ ~DetectCyclesKahn(n, deps)
  /\ SoloNodes(n, deps) = {} /\ ValidateSingleConnectedDag(n, deps)

(* The tables that the parser derives.                                      *)
ParseDag(n, deps) == Kahn(n, deps).order
FindParallelTasks(n, deps) ==
  LET levels == {{t \in 1..n : Kahn(n, deps).level[t] = l} : l \in 0..n}
  IN {L \in levels : Cardinality(L) > 1}
IdentifyFanInSteps(n, deps) == {t \in 1..n : Cardinality(deps[t]) > 1}

(* A fan-in publishes through a fanout exchange whatever follows it.        *)
SuggestExchangeTypes(n, deps) ==
  [t \in 1..n |-> IF t \in IdentifyFanInSteps(n, deps) \/ Cardinality(Dependents(n, deps, t)) > 1
                  THEN "fanout" ELSE "direct"]

Queues(n, deps) == {q \in (1..n) \X (1..n) : q[1] \in deps[q[2]]}

(* One entry per queue under its publisher, with the queue's name as key    *)
(* on a direct exchange; the first queue into an end task also appears      *)
(* under that task, always with its name; and the entry queue.              *)
PrepareRabbitmqConfigs(n, deps) ==
  LET type == SuggestExchangeTypes(n, deps)
      ends == {t \in 1..n : Dependents(n, deps, t) = {} /\ deps[t] # {}}
  IN {[task |-> q[1], type |-> type[q[1]], queue |-> q,
       key |-> IF type[q[1]] = "direct" THEN q ELSE <<>>] : q \in Queues(n, deps)}
     \cup {[task |-> t, type |-> type[t], queue |-> <<Min(deps[t]), t>>, key |-> <<Min(deps[t]), t>>] :
             t \in ends}
     \cup {[task |-> 0, type |-> "direct", queue |-> <<0, 0>>, key |-> <<0, 0>>]}

ParseFanInMetadata(n, deps) == [t \in IdentifyFanInSteps(n, deps) |-> deps[t]]

-----------------------------------------------------------------------------
(* The strategist: tasks whose dependencies are all in earlier phases form  *)
(* the next phase.                                                          *)
TopologicalPhases(n, deps) ==
  LET Step(ph, i) ==
        LET done == UNION ToSet(ph)
            free == {t \in 1..n \ done : deps[t] \subseteq done}
        IN IF free = {} THEN ph ELSE Append(ph, free)
  IN FoldLeft(Step, <<>>, Listed(n))

Relax(best, d, u, c) == IF d[c] + 1 > d[u] THEN c ELSE best

(* Longest ways in topological order, then back from the first task with    *)
(* the greatest distance.                                                   *)
CriticalPath(n, deps) ==
  LET Visit(st, c) ==
        LET next(u) == c \in deps[u] /\ Relax(st.prev[u], st.dist, u, c) # st.prev[u]
        IN [dist |-> [u \in 1..n |-> IF next(u) THEN st.dist[c] + 1 ELSE st.dist[u]],
            prev |-> [u \in 1..n |-> IF next(u) THEN c ELSE st.prev[u]]]
      st == FoldLeft(Visit, [dist |-> [u \in 1..n |-> 0], prev |-> [u \in 1..n |-> 0]],
                     Kahn(n, deps).order)
      far == Max({st.dist[u] : u \in 1..n})
      end == Min({u \in 1..n : st.dist[u] = far})
      Back(path, i) == IF st.prev[Head(path)] = 0 THEN path ELSE <<st.prev[Head(path)]>> \o path
  IN FoldLeft(Back, <<end>>, Listed(n))

(* The model's phases are taken if every task is in one, and every edge     *)
(* goes from an earlier to a later phase.                                   *)
NormalizePhases(n, deps, phases) ==
  LET last(t) == Max({i \in DOMAIN phases : t \in phases[i]})
  IN /\ UNION ToSet(phases) = 1..n
     /\ \A u \in 1..n : \A t \in deps[u] : last(t) < last(u)

(* The model's phases replace the computed ones only if they pass.          *)
Strategy(n, deps, answer) ==
  IF answer # <<>> /\ NormalizePhases(n, deps, answer) THEN answer ELSE TopologicalPhases(n, deps)

-----------------------------------------------------------------------------
(* No task depends on itself through others; and the length of the longest *)
(* chain that ends in a task.                                              *)
Acyclic(n, deps) == ~\E C \in SUBSET (1..n) \ {{}} : \A t \in C : deps[t] \cap C # {}
Depth(n, deps) ==
  LET D[i \in 0..n] == IF i = 0 THEN [t \in 1..n |-> 0]
                       ELSE [t \in 1..n |-> Max({0} \cup {D[i - 1][u] + 1 : u \in deps[t]})]
  IN D[n]

(* The parser accepts exactly the pipelines of several tasks without cycles *)
(* and with one entry, the task listed first, whose dependencies are tasks. *)
(* In what it makes of them, tasks come after their dependencies in the order and stand *)
(* on the level of their longest chain, every queue hangs on the exchange   *)
(* of its publisher with a key that the exchange's type needs, and a fan-in *)
(* waits for exactly the tasks that fill its queues.                        *)
ParserSound(n, deps) ==
  LET wellFormed == /\ n > 1 /\ \A t \in 1..n : deps[t] \subseteq 1..n
                    /\ Acyclic(n, deps) /\ {t \in 1..n : deps[t] = {}} = {1}
  IN Accepts(n, deps) = wellFormed /\ (wellFormed =>
    LET order == ParseDag(n, deps)
        pos(t) == CHOOSE i \in 1..n : order[i] = t
        configs == PrepareRabbitmqConfigs(n, deps)
        depth == Depth(n, deps)
    IN /\ ToSet(order) = 1..n /\ \A t \in 1..n : \A u \in deps[t] : pos(u) < pos(t)
       /\ \A P \in FindParallelTasks(n, deps) : \A t, u \in P : depth[t] = depth[u]
       /\ \A q \in Queues(n, deps) :
            Cardinality({c \in configs : c.task = q[1] /\ c.queue = q /\
                                         (c.type = "direct" => c.key = q)}) = 1
       /\ \A t \in 1..n :
            LET senders == {q[1] : q \in {r \in Queues(n, deps) : r[2] = t}}
                awaited == ParseFanInMetadata(n, deps)
            IN IF t \in DOMAIN awaited THEN awaited[t] = senders ELSE Cardinality(senders) <= 1)

(* The phases of a plan without cycles cover it in as many steps as its     *)
(* longest chain, the critical path is such a chain along edges, and what   *)
(* a model proposes replaces the phases only if it respects the edges; a    *)
(* task that the model repeats counts where it stands last.                 *)
StrategySound(n, deps, answer) ==
  Acyclic(n, deps) =>
    LET phases == Strategy(n, deps, answer)
        path == CriticalPath(n, deps)
        longest == 1 + Max({Depth(n, deps)[t] : t \in 1..n})
    IN /\ UNION ToSet(phases) = 1..n
       /\ Len(TopologicalPhases(n, deps)) = longest /\ Len(path) = longest
       /\ \A i \in 1..(Len(path) - 1) : path[i] \in deps[path[i + 1]]
       /\ \A u \in 1..n : \A t \in deps[u] :
            \E j \in DOMAIN phases : u \in phases[j] /\ \A i \in j..Len(phases) : t \notin phases[i]
=============================================================================
