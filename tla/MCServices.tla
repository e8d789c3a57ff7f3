---------------------------- MODULE MCServices ----------------------------
(***************************************************************************)
(* The services that agents share, checked in one run: which says which of *)
(* them a behaviour is about, the others stay as they are.  The functions  *)
(* of BidScoring are evaluated on every input of a small set.              *)
(***************************************************************************)
EXTENDS DedupeCache, Learning, GraphStoreApi, BidScoring, TLC

CONSTANTS k1, k2, k3, k4

VARIABLES which, input

Keys == {k1, k2, k3, k4}
Symmetry == Permutations(Keys)

servicesVars == <<which, input, cacheVars, learnVars, storeVars, apiVars>>

(* Bids as the bidder makes them from an agent, its record and a task.     *)
Spec1 == [req |-> {"plan", "write"}, tags |-> {"t"}, preferred |-> {"a"}]
Candidate(i, status) ==
  [id |-> i, caps |-> {"plan"}, tags |-> {}, status |-> status, fresh |-> 100, decay |-> 50]
Bid(i, status, load, record, fails, bias, pheromone) ==
  LET capability == CapabilityValue(ScoreAgentForTask(Candidate(i, status), Spec1))
  IN [trust |-> TrustScore(record), load |-> load, success |-> 50,
      cost |-> EstimateCost(TaskParams(2).reward, capability, load, 2),
      penalty |-> FailureSurfacePenalty(fails), bias |-> bias,
      capability |-> capability, pheromone |-> pheromone]
Records == {[received |-> 0, acquired |-> 0, completed |-> 0],
            [received |-> 3, acquired |-> 2, completed |-> 1],
            [received |-> 2, acquired |-> 2, completed |-> 2]}
Bids == {Bid(i, status, load, r, f, bias, ph) :
           i \in {"a", "b"}, status \in {"idle", "busy", "offline"}, load \in {0, 2}, r \in Records,
           f \in {<<>>, <<1>>, <<2, 9>>}, bias \in {0, 50}, ph \in {0, 100}}
Agent(i, cs, trust, load, joint, friction) ==
  [id |-> i, caps |-> cs, tags |-> {}, trust |-> trust, load |-> load, maxload |-> 2,
   joint |-> joint, friction |-> friction]
Primary == Agent("a", {"plan"}, TrustScore([received |-> 2, acquired |-> 2, completed |-> 1]), 0, -1, -1)
Partners(i) == {Agent(i, cs, 50, load, joint, friction) :
                  cs \in {{"plan"}, {"validate"}, {"plan", "validate"}}, load \in {0, 2},
                  joint \in {-1, 0, 100}, friction \in {-1, 100}}

(* Contracts of up to two agents in any order, and how their steps may go.  *)
Contracts == [members : {<<>>, <<"a">>, <<"a", "b">>, <<"a", "b", "b">>}, steps : 0..5, maxHandoffs : 0..2,
              fallback : {"fail_fast", "degrade_to_solo"}, preferred : {"none", "a"}]
CoalitionRuns == [lateFrom : {2, 3, 9}, failing : SUBSET {1, 2, 4}, solo : BOOLEAN]

(* Executions that a reward is computed for.                                *)
Executions == [success : BOOLEAN, retries : {0, 1, 2}, latency : {0, 15, 60}, cost : {0, 3},
               blocks : {0, 1}]

Input == CASE which = "bids" -> Bids \X {b \in Bids : b.pheromone = 0 /\ b.bias = 0 /\ b.load = 0}
           [] which = "coalitions" ->
                {"enabled", "discouraged"} \X {"solo", "coalition_allowed", "coalition_required"}
                  \X Partners("b") \X {p \in Partners("c") : p.load = 0}
           [] which = "rewards" -> Executions \X Executions
           [] which = "contracts" -> Contracts \X CoalitionRuns
           [] which = "store" ->
                {r.kind : r \in Routes} \cup
                  {"decision", "topology_outcome", "topology_perf", "coalition_contract",
                   "coalition_outcome", "coalition_signal"}
           [] OTHER -> {<<>>}

ServicesInit ==
  /\ which \in {"dedupe", "learning", "store", "bids", "coalitions", "contracts", "rewards"}
  /\ input \in Input
  /\ CacheInit /\ LearnInit /\ ApiInit

DedupeStep   == which = "dedupe" /\ CacheNext /\ UNCHANGED <<which, input, learnVars, storeVars, apiVars>>
LearningStep == which = "learning" /\ LearnNext /\ UNCHANGED <<which, input, cacheVars, storeVars, apiVars>>
(* Documents of different kinds never meet: a behaviour is about one kind.  *)
(* Tags only matter to filters: the second document has the other tag.      *)
StoreStep ==
  /\ which = "store" /\ ApiNext
  /\ \A d \in docs' : d.kind \in {input, input \o "_latest", input \o "_active"}
  /\ \A d \in docs' : d.tag = IF d.at = 2 THEN "y" ELSE "x"
  /\ walk'.at # "none" => walk'.route.kind = input
  /\ UNCHANGED <<which, input, cacheVars, learnVars>>

ServicesNext == DedupeStep \/ LearningStep \/ StoreStep

ServicesSpec == ServicesInit /\ [][ServicesNext]_servicesVars

(* score_bid is monotone in every part of a bid and the blend of the inline  *)
(* resolution is a score (BidScoreSound); assemble_coalition takes the best  *)
(* verifier there is (PartnerIsBest), and a coalition that                   *)
(* compare_solo_vs_coalition prefers stays preferred when its members are    *)
(* trusted more and rub each other less; and what execute_coalition reports  *)
(* is what the members did (CoalitionRunSound). The bandit's reward is       *)
(* monotone too (RewardSound).                                               *)
ScoringSound ==
  /\ which = "contracts" => CoalitionRunSound(input[1], input[2])
  /\ which = "rewards" => RewardSound(input[1], input[2])
  /\ which = "bids" => BidScoreSound(input[1], input[2])
  /\ which = "coalitions" =>
       /\ PartnerIsBest(input[1], input[2], Primary, <<Primary, input[3], input[4]>>)
       /\ LET U(p) == CoalitionUtility(80, p.joint, 20, 20, p.friction)
          IN (/\ input[3].joint >= input[4].joint
              /\ input[3].friction <= input[4].friction
              /\ CompareSoloVsCoalition(56, U(input[4])) = "coalition")
             => CompareSoloVsCoalition(56, U(input[3])) = "coalition"
=============================================================================
