------------------------------ MODULE PlanGates ------------------------------
(***************************************************************************)
(* The services around a plan: the supervisor that turns a request into    *)
(* task specs, the ethics checker with its re-evaluation loop, the human   *)
(* validator, the system executor with its gates, failure escalation and   *)
(* the audit log. A plan's text is the set of rule categories its tasks    *)
(* touch; a language model's answer is any answer, also an unusable one.   *)
(* Lists of decisions show every saved document here; that an index may    *)
(* lag behind is in MarkerStore.                                           *)
(***************************************************************************)
EXTENDS Integers, FiniteSets, Sequences, SequencesExt, FiniteSetsExt

CONSTANTS
  GateTasks,     \* tasks of the plan
  Checkers,      \* ethics agents of the pipeline; the re-evaluation consumer is one more
  GateEnvs,      \* configurations to look at, see env
  LlmRetries,    \* MAX_RETRIES of the supervisor
  MaxReEvals,    \* max_re_evaluations of the policy or the environment
  MaxRetries,    \* FAILURE_ESCALATION_MAX_RETRIES
  MaxGateEvents  \* bound: requests, revisions, policy changes, executions

ASSUME GateAssumption ==
  /\ GateEnvs \subseteq [stub : BOOLEAN, provider : BOOLEAN, ethics : BOOLEAN, human : BOOLEAN,
                          launch : BOOLEAN]
  /\ {LlmRetries, MaxReEvals, MaxRetries, MaxGateEvents} \subseteq Nat

VARIABLES
  env,        \* LLM_STUB_MODE, whether a model is configured, EXECUTION_REQUIRE_ETHICS and
              \* EXECUTION_REQUIRE_HUMAN, whether the executor launches tasks or simulates them
  specs,      \* task specs: a set of [id, risk, human]
  content,    \* categories that the plan's descriptions touch
  rules,      \* the tenant's active policy: categories it blocks or warns of, {} for none
  checks,     \* the verdict of the last saved ethics check by checked_at
  approvals,  \* saved human approvals
  reEvals,    \* queue of ReEvaluatePlanCommands: their counts
  check,      \* checks under way
  reports,    \* execution reports
  notices,    \* escalation notices
  audits,     \* audit entries: their scores
  gateEvents

gateVars == <<env, specs, content, rules, checks, approvals, reEvals, check, reports, notices, audits,
              gateEvents>>

Consumer == "re_evaluation"
NoCheck == [on |-> FALSE]
Happens == gateEvents < MaxGateEvents /\ gateEvents' = gateEvents + 1

Categories == {"destructive", "pii", "bias"}
HardBlock == {"safety", "destructive"}   \* _HARD_BLOCK_CATEGORIES

-----------------------------------------------------------------------------
(* Task specs from a request. An item is [id, risk, human, ok]: ok is      *)
(* false if a required field is missing or has the wrong type.             *)

(* Ids that are missing or taken are numbered, unknown risks are medium,   *)
(* and a high risk asks for a person unless the item says otherwise; a     *)
(* request without items gives one plain task.                             *)
StubGenerateSpecs(items) ==
  LET Spec(acc, i) ==
        LET it == items[i]
            id == IF it.id = "" \/ \E s \in acc : s.id = <<it.id, 0>> THEN <<it.id, i>> ELSE <<it.id, 0>>
            risk == IF it.risk \in {"low", "medium", "high"} THEN it.risk ELSE "medium"
            human == IF it.ok THEN it.human ELSE risk = "high"
        IN {s \in acc : s.id # id} \cup {[id |-> id, risk |-> risk, human |-> human]}
  IN IF items = <<>> THEN {[id |-> <<"", 1>>, risk |-> "medium", human |-> FALSE]}
     ELSE FoldLeft(Spec, {}, [i \in DOMAIN items |-> i])

(* The model's items are all taken or, on the first fault, none.           *)
NormalizeSpecs(items) ==
  LET bad == \/ items = <<>>
             \/ \E i \in DOMAIN items :
                  \/ ~items[i].ok \/ items[i].id = "" \/ items[i].risk \notin {"low", "medium", "high"}
                  \/ \E j \in 1..(i - 1) : items[j].id = items[i].id
  IN IF bad THEN {} ELSE {[id |-> <<items[i].id, 0>>, risk |-> items[i].risk,
                           human |-> items[i].human] : i \in DOMAIN items}

(* answers holds what the model says to the attempts; the first usable one *)
(* counts, then the rules stand in, and without them the agent fails.      *)
GenerateSpecs(request, answers) ==
  LET good == {k \in DOMAIN answers : NormalizeSpecs(answers[k]) # {}}
  IN IF env.provider /\ good # {} THEN NormalizeSpecs(answers[Min(good)])
     ELSE IF env.stub THEN StubGenerateSpecs(request) ELSE {}

RunSupervisor(blocked, request, answers) ==
  /\ Happens
  /\ LET new == IF blocked THEN {} ELSE GenerateSpecs(request, answers)
     IN specs' = {s \in specs : ~\E n \in new : n.id = s.id} \cup new
  /\ UNCHANGED <<env, content, rules, checks, approvals, reEvals, check, reports, notices, audits>>

-----------------------------------------------------------------------------
(* The ethics check. A violation is [severity, category].                  *)

BuildKeywordRules(policy) ==
  IF policy # {} THEN policy
  ELSE {[severity |-> "block", category |-> "destructive"], [severity |-> "block", category |-> "pii"],
        [severity |-> "warn", category |-> "bias"]}

(* A task of high risk that no person has to approve is a hard fault.      *)
StubViolations(text, sp, policy) ==
  {r \in BuildKeywordRules(policy) : r.category \in text}
    \cup (IF \E s \in sp : s.risk = "high" /\ ~s.human
          THEN {[severity |-> "block", category |-> "safety"]} ELSE {})

StubEthicsCheck(text, sp, policy) ==
  LET v == StubViolations(text, sp, policy)
  IN [approved |-> ~\E x \in v : x.severity = "block", violations |-> v]

(* A usable answer of the model names a verdict; its violations need not   *)
(* agree with it.                                                          *)
ParseLlmResponse ==
  [approved : BOOLEAN,
   violations : {{}, {[severity |-> "block", category |-> "safety"]},
                 {[severity |-> "block", category |-> "pii"]}}]

DetermineAction(v, count) ==
  IF v.approved THEN "pass"
  ELSE IF ~\E x \in v.violations : x.severity = "block" /\ x.category \in HardBlock THEN "pass"
  ELSE IF count < MaxReEvals THEN "re_evaluate" ELSE "veto"

BeginEthicsCheck(p, count) ==
  check' = [check EXCEPT ![p] = [on |-> TRUE, count |-> count, text |-> content, specs |-> specs,
                                 rules |-> rules]]

(* The ethics agent runs as a task of the pipeline, with count 0.          *)
RunEthicsAgent(p) ==
  /\ p \in Checkers /\ ~check[p].on /\ Happens
  /\ BeginEthicsCheck(p, 0)
  /\ UNCHANGED <<env, specs, content, rules, checks, approvals, reEvals, reports, notices, audits>>

(* The consumer takes one command at a time.                               *)
HandleReEvaluate ==
  /\ reEvals # <<>> /\ ~check[Consumer].on
  /\ reEvals' = Tail(reEvals)
  /\ BeginEthicsCheck(Consumer, Head(reEvals))
  /\ UNCHANGED <<env, specs, content, rules, checks, approvals, reports, notices, audits, gateEvents>>

FaultyNextCount(count) == count   \* the command repeats the count of the check
NextCount(count) == count + 1

(* The check is saved before the command for the next one goes out; if     *)
(* publishing fails the check still counts.                                *)
SaveEthicsCheck(p, v, published) ==
  LET c == check[p]
      action == DetermineAction(v, c.count)
  IN /\ c.on
     /\ checks' = IF v.approved THEN "approved" ELSE "rejected"
     /\ reEvals' = IF action = "re_evaluate" /\ published
                   THEN Append(reEvals, NextCount(c.count)) ELSE reEvals
     /\ check' = [check EXCEPT ![p] = NoCheck]
     /\ UNCHANGED <<env, specs, content, rules, approvals, reports, notices, audits, gateEvents>>

StubSays(p, published) ==
  /\ check[p].on /\ env.stub
  /\ SaveEthicsCheck(p, StubEthicsCheck(check[p].text, check[p].specs, check[p].rules), published)
ModelSays(p, v, published) == env.provider /\ SaveEthicsCheck(p, v, published)

(* Without a usable answer and without rules the agent fails; the consumer *)
(* drops the command.                                                      *)
EthicsRaises(p) ==
  /\ check[p].on /\ ~env.stub
  /\ check' = [check EXCEPT ![p] = NoCheck]
  /\ UNCHANGED <<env, specs, content, rules, checks, approvals, reEvals, reports, notices, audits,
                 gateEvents>>

-----------------------------------------------------------------------------
(* A person's word, or, without one, yes unless a spec asks for a person.  *)
RunHumanValidator(word) ==
  /\ Happens
  /\ approvals' = Append(approvals, IF word = "none" THEN ~\E s \in specs : s.human ELSE word = "yes")
  /\ UNCHANGED <<env, specs, content, rules, checks, reEvals, check, reports, notices, audits>>

BlockedByEthics == env.ethics /\ checks = "rejected"
BlockedByHuman == env.human /\ approvals # <<>> /\ ~Last(approvals)

(* Why a task of the plan can fail in either mode; a task whose start was   *)
(* published counts as a success.                                          *)
TaskOutcomes ==
  IF env.launch THEN {"started", "service_name_unresolved", "artifact_unresolved",
                      "forced_failure", "publish_error"}
  ELSE {"simulated", "simulated_failure"}
Succeeds(o) == o \in {"started", "simulated"}

RunSystemExecutor(outcome) ==
  /\ Happens
  /\ reports' = Append(reports,
       IF BlockedByEthics \/ BlockedByHuman THEN [blocked |-> TRUE, failed |-> {}]
       ELSE [blocked |-> FALSE, failed |-> {t \in GateTasks : ~Succeeds(outcome[t])}])
  /\ UNCHANGED <<env, specs, content, rules, checks, approvals, reEvals, check, notices, audits>>

RunFailureEscalation(attempts) ==
  /\ Happens
  /\ notices' = Append(notices, /\ reports # <<>> /\ Last(reports).failed # {}
                                /\ attempts >= MaxRetries)
  /\ UNCHANGED <<env, specs, content, rules, checks, approvals, reEvals, check, reports, audits>>

TraceabilityScore(valid, human, ethics, execution, escalation) ==
  LET points(b, n) == IF b THEN n ELSE 0
  IN Min({100, points(valid, 25) + points(human, 20) + points(ethics, 20)
               + points(execution, 25) + points(escalation, 10)})

RunAuditLogger(valid) ==
  /\ Happens
  /\ audits' = Append(audits, TraceabilityScore(valid, approvals # <<>>, checks # "none",
                                                reports # <<>>, notices # <<>>))
  /\ UNCHANGED <<env, specs, content, rules, checks, approvals, reEvals, check, reports, notices>>

(* A revision changes what the descriptions say, an operator the policy.   *)
RevisePlan(text) ==
  /\ Happens /\ content' = text
  /\ UNCHANGED <<env, specs, rules, checks, approvals, reEvals, check, reports, notices, audits>>
CreateEthicsPolicy(policy) ==
  /\ Happens /\ rules' = policy
  /\ UNCHANGED <<env, specs, content, checks, approvals, reEvals, check, reports, notices, audits>>

-----------------------------------------------------------------------------
Items == {<<>>,
  <<[id |-> "a", risk |-> "high", human |-> FALSE, ok |-> TRUE],
    [id |-> "a", risk |-> "odd", human |-> FALSE, ok |-> FALSE]>>,
  <<[id |-> "b", risk |-> "high", human |-> TRUE, ok |-> TRUE]>>}
Policies == {{[severity |-> "warn", category |-> "destructive"]},
             {[severity |-> "block", category |-> "bias"]}}

GateInit ==
  /\ env \in GateEnvs
  /\ specs = {} /\ content \in SUBSET Categories /\ rules = {} /\ checks = "none" /\ approvals = <<>>
  /\ reEvals = <<>> /\ check = [p \in Checkers \cup {Consumer} |-> NoCheck]
  /\ reports = <<>> /\ notices = <<>> /\ audits = <<>> /\ gateEvents = 0

GateNext ==
  \/ \E b \in BOOLEAN, r \in Items, a \in UNION {[1..n -> Items] : n \in 0..LlmRetries} :
       RunSupervisor(b, r, a)
  \/ \E p \in Checkers : RunEthicsAgent(p)
  \/ HandleReEvaluate
  \/ \E p \in Checkers \cup {Consumer}, b \in BOOLEAN :
       \/ StubSays(p, b)
       \/ \E v \in ParseLlmResponse : ModelSays(p, v, b)
       \/ EthicsRaises(p)
  \/ \E w \in {"yes", "no", "none"} : RunHumanValidator(w)
  \/ \E o \in [GateTasks -> TaskOutcomes] : RunSystemExecutor(o)
  \/ \E n \in 0..(MaxRetries + 1) : RunFailureEscalation(n)
  \/ \E b \in BOOLEAN : RunAuditLogger(b)
  \/ \E text \in SUBSET Categories : RevisePlan(text)
  \/ \E policy \in Policies : CreateEthicsPolicy(policy)

(* The consumer goes on taking commands, and a check comes to an end.      *)
GateProgress ==
  \/ HandleReEvaluate
  \/ \E p \in Checkers \cup {Consumer}, b \in BOOLEAN :
       StubSays(p, b) \/ (\E v \in ParseLlmResponse : ModelSays(p, v, b)) \/ EthicsRaises(p)

-----------------------------------------------------------------------------
(* Re-evaluation comes to an end: whatever the model answers and however   *)
(* often policy and plan change meanwhile, no command and no check is left *)
(* at last.                                                                *)
ReEvaluationsEnd == <>[](reEvals = <<>> /\ \A p \in Checkers \cup {Consumer} : ~check[p].on)
=============================================================================
