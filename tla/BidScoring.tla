----------------------------- MODULE BidScoring -----------------------------
(***************************************************************************)
(* The arithmetic behind bids: agent_utils, cnp_utils, the blend of the    *)
(* forwarder's inline resolution and the choice of a coalition partner.    *)
(* Numbers in [0, 1] are counted in hundredths and rounded down once, at   *)
(* the end; values the code keeps in [0.1, 6.0] are counted in tenths.     *)
(* Weights are the defaults of the environment variables.                  *)
(***************************************************************************)
EXTENDS Integers, FiniteSets, Sequences, SequencesExt, FiniteSetsExt

Clamp(v, lo, hi) == Max({lo, Min({v, hi})})

(* Which agents suit a task: agent_utils.score_agent_for_task.             *)
StatusWeight(status) ==
  CASE status = "idle" -> 100
    [] status = "online" -> 75
    [] status = "busy" -> 40
    [] status \in {"unhealthy", "offline"} -> 0
    [] OTHER -> 50

(* Three quarters of the score do not depend on the registry's policies.   *)
PolicyFactor(agent) == 75 + (25 * agent.fresh * agent.decay) \div 10000

Share(part, whole) == (100 * Cardinality(part \cap whole)) \div Cardinality(whole)

ScoreAgentForTask(agent, spec) ==
  LET required == IF spec.req = {} THEN 50 ELSE Share(agent.caps, spec.req)
      tags == IF spec.tags = {} THEN 0 ELSE Share(agent.tags, spec.tags)
      base == 60 * required + 20 * tags + 20 * StatusWeight(agent.status)
      preferred == IF agent.id \in spec.preferred THEN 1000 ELSE 0
  IN Clamp(((base + preferred) * PolicyFactor(agent)) \div 10000, 0, 100)

(* Stimulus in hundredths, reward in tenths, from the priority 1..5.       *)
TaskParams(priority) ==
  LET p == Clamp(priority, 1, 5)
  IN [priority |-> p, stimulus |-> Clamp(20 + (p - 1) * 15, 0, 100),
      reward |-> Clamp(1 + 10 * p, 1, 60)]

(* Half the share of tasks taken over, half the share of those completed.  *)
TrustScore(s) ==
  IF s.received <= 0 THEN 0
  ELSE LET y1 == (100 * s.acquired) \div s.received
           y2 == IF s.acquired = 0 THEN 0 ELSE (100 * s.completed) \div s.acquired
       IN Clamp((y1 + y2) \div 2, 0, 100)

CapabilityValue(score) == Clamp((60 * score) \div 100, 1, 60)

EstimateCost(reward, capability, load, maxload) ==
  (10 * reward * (Max({maxload, 1}) + load)) \div (Max({capability, 1}) * Max({maxload, 1}))

(* 0.8 * (1 - exp(-0.35 n)) for n consecutive failures, in hundredths.     *)
Saturation == <<23, 40, 52, 60, 66, 70, 73, 75>>

FailureSurfacePenalty(counts) ==
  IF counts = <<>> THEN 0
  ELSE LET worst == Max(ToSet(counts))
           raw == Saturation[Min({worst, Len(Saturation)})]
       IN Min({raw + Min({10 * (Len(counts) - 1), 20}), 80})

Norm(v, lo, hi) == IF hi > lo THEN (100 * (v - lo)) \div (hi - lo) ELSE 0

FaultyScoreBid(b, tmin, tmax, lmin, lmax) ==   \* the failure penalty is added
  Clamp(50 + (60 * b.trust - 60 * Norm(b.cost, tmin, tmax) - 40 * Norm(b.load, lmin, lmax)
              + 15 * b.success + 25 * b.penalty + 20 * b.bias) \div 200, 0, 100)

ScoreBid(b, tmin, tmax, lmin, lmax) ==
  Clamp(50 + (60 * b.trust - 60 * Norm(b.cost, tmin, tmax) - 40 * Norm(b.load, lmin, lmax)
              + 15 * b.success - 25 * b.penalty + 20 * b.bias) \div 200, 0, 100)

(* The inline resolution widens an empty range and blends in capability    *)
(* and pheromone.                                                          *)
InlineScore(b, cs) ==
  LET costs == {c.cost : c \in cs}
      loads == {c.load : c \in cs}
      tmax == IF Max(costs) > Min(costs) THEN Max(costs) ELSE Min(costs) + 1
      lmax == IF Max(loads) > Min(loads) THEN Max(loads) ELSE Max(loads) + 1
  IN (60 * ScoreBid(b, Min(costs), tmax, Min(loads), lmax)
      + 25 * b.capability + 15 * b.pheromone) \div 100

-----------------------------------------------------------------------------
(* Coalitions: coalition_assembler and coalition_scorer.                   *)

IsVerifierCandidate(agent) ==
  agent.caps \cap {"validate", "verification"} # {} \/ agent.tags \cap {"verifier"} # {}

Compatibility(primary, partner, sig) ==
  LET new == partner.caps \ primary.caps
      complement == (40 * Cardinality(new)) \div Max({Cardinality(partner.caps), 1})
  IN Clamp(complement + (25 * sig.trust + 15 * Min({primary.trust, partner.trust})
             - 10 * sig.friction - (1000 * partner.load) \div Max({partner.maxload, 1})) \div 100,
           0, 100)

NoSignals == [trust |-> 50, friction |-> 0]
NoPartner == [id |-> "none"]
MinCompat == 20

(* The signals found for one partner stay in force for the next ones that  *)
(* have none of their own: the dictionary is not emptied between partners. *)
WithSignals(sig, partner) ==
  [trust |-> IF partner.joint >= 0 THEN partner.joint ELSE sig.trust,
   friction |-> IF partner.friction >= 0 THEN partner.friction ELSE sig.friction]

Better(compat, best) == compat > best

(* The best partner so far, and the signals in force, after one more agent. *)
Consider(primary, acc, agent) ==
  LET sig == WithSignals(acc.sig, agent)
      compat == Compatibility(primary, agent, sig)
  IN IF agent.id = primary.id \/ ~IsVerifierCandidate(agent) THEN acc
     ELSE IF Better(compat, acc.compat) THEN [sig |-> sig, compat |-> compat, partner |-> agent]
     ELSE [acc EXCEPT !.sig = sig]

BestPartner(primary, agents) ==
  LET best[k \in 0..Len(agents)] ==
        IF k = 0 THEN [sig |-> NoSignals, compat |-> 0, partner |-> NoPartner]
        ELSE Consider(primary, best[k - 1], agents[k])
  IN best[Len(agents)]

(* mode is the override of the runtime policy, coord the task's            *)
(* coordination mode; the result is the partner or NoPartner.              *)
AssembleCoalition(mode, coord, primary, agents) ==
  LET best == BestPartner(primary, agents)
      barred == /\ mode \in {"disabled", "discouraged"}
                /\ coord # "coalition_required"
  IN IF barred \/ coord \notin {"coalition_allowed", "coalition_required"}
          \/ best.compat < MinCompat
     THEN NoPartner ELSE best.partner

CoalitionUtility(confidence, trust, cost, latency, friction) ==
  Clamp(50 + (30 * confidence + 20 * trust - 15 * cost - 10 * latency - 10 * friction) \div 200,
        0, 100)

CompareSoloVsCoalition(solo, coalition) ==
  IF coalition >= solo + 6 THEN "coalition" ELSE "solo"

(* execute_coalition: the members take the steps in turn, and the first     *)
(* step that is found late, is one hand-off too many or fails ends the      *)
(* workflow, in this order. run says from which step on the time is up,     *)
(* which steps fail, and whether the solo fallback does. The time is not    *)
(* looked at after the last step.                                           *)
MemberOf(contract, i) == contract.members[((i - 1) % Len(contract.members)) + 1]
Handoffs(contract, i) ==
  Cardinality({j \in 2..i : MemberOf(contract, j) # MemberOf(contract, j - 1)})
Outcome(success, done, retries, failures, state) ==
  [success |-> success, done |-> done, retries |-> retries, failures |-> failures, state |-> state]

ExecuteCoalition(contract, run) ==
  LET n == IF contract.steps = 0 THEN Len(contract.members) ELSE contract.steps
      late(i) == i >= run.lateFrom
      tooMany(i) == Handoffs(contract, i) > contract.maxHandoffs
      ends == {i \in 1..n : late(i) \/ tooMany(i) \/ i \in run.failing}
      i == Min(ends)
  IN CASE contract.members = <<>> -> Outcome(FALSE, 0, 0, 0, "COALITION_ABORTED")
       [] contract.members # <<>> /\ ends = {} -> Outcome(TRUE, n, 0, 0, "none")
       [] OTHER ->
            IF late(i) THEN Outcome(FALSE, i - 1, 0, 0, "PARTNER_TIMEOUT")
            ELSE IF tooMany(i) THEN Outcome(FALSE, i - 1, 0, 1, "HANDOFF_VALIDATION_FAILED")
            ELSE IF contract.fallback = "degrade_to_solo" /\ contract.preferred # "none" /\ run.solo
                 THEN Outcome(TRUE, i - 1, 1, 1, "FALLBACK_TO_SOLO")
                 ELSE Outcome(FALSE, i - 1, 0, 1, "COALITION_ABORTED")

-----------------------------------------------------------------------------
(* A bid is never hurt by more trust, success or learned preference and    *)
(* never helped by more cost, load or failures, whatever the other          *)
(* candidates are, and an inline score stays a score.                       *)
BidScoreSound(b, c) ==
  LET tmin == Min({b.cost, c.cost})  tmax == Max({b.cost, c.cost})
      lmin == Min({b.load, c.load})  lmax == Max({b.load, c.load})
      S(x) == ScoreBid(x, tmin, tmax, lmin, lmax)
  IN /\ (/\ b.trust >= c.trust /\ b.success >= c.success /\ b.bias >= c.bias
         /\ b.cost <= c.cost /\ b.load <= c.load /\ b.penalty <= c.penalty)
          => S(b) >= S(c)
     /\ InlineScore(b, {b, c}) \in 0..100

(* The partner of a coalition is the most compatible verifier, the first   *)
(* among equals, and never the primary agent, provided that every verifier *)
(* has signals of its own; a policy that bars coalitions yields only to a   *)
(* task that requires one.                                                  *)
PartnerIsBest(mode, coord, primary, agents) ==
  LET partner == AssembleCoalition(mode, coord, primary, agents)
      own(a) == [trust |-> a.joint, friction |-> a.friction]
      K == {k \in DOMAIN agents : agents[k].id # primary.id /\ IsVerifierCandidate(agents[k])}
  IN /\ partner # NoPartner =>
          /\ partner.id # primary.id
          /\ mode # "enabled" => coord = "coalition_required"
     /\ (partner # NoPartner /\ \A k \in K : agents[k].joint >= 0 /\ agents[k].friction >= 0) =>
          \E k \in K : /\ partner = agents[k]
                       /\ \A j \in K :
                            LET cj == Compatibility(primary, agents[j], own(agents[j]))
                                ck == Compatibility(primary, agents[k], own(agents[k]))
                            IN ck > cj \/ (ck = cj /\ k <= j)

(* A coalition that reports success did all its steps, or one agent did the *)
(* task alone after one failure; members hand over at most as often as the  *)
(* contract allows; a contract whose members cannot take turns that often   *)
(* fails although every step succeeds; and a failure is never reported for  *)
(* a step that nobody tried.                                                *)
CoalitionRunSound(contract, run) ==
  LET out == ExecuteCoalition(contract, run)
      n == IF contract.steps = 0 THEN Len(contract.members) ELSE contract.steps
      tried == out.done + (IF out.state \in {"FALLBACK_TO_SOLO", "COALITION_ABORTED"} THEN 1 ELSE 0)
  IN contract.members # <<>> =>
       /\ out.success <=> (out.done = n \/ out.retries = 1)
       /\ Handoffs(contract, Min({tried, n})) <= contract.maxHandoffs
       /\ (run.failing = {} /\ run.lateFrom > n) =>
            (out.success <=> Handoffs(contract, n) <= contract.maxHandoffs)
       /\ out.state = "COALITION_ABORTED" => tried \in run.failing
       /\ \A j \in 1..out.done : j \notin run.failing /\ j < run.lateFrom
=============================================================================
