---------------------------- MODULE ContractNet ----------------------------
(***************************************************************************)
(* The contract-net protocol of the orchestrator: the manager's            *)
(* announce - bid - award cycle, the blueprint bidder (called by the       *)
(* manager and by the API), the graph builder that awards contracts and    *)
(* saves the plan, the inline resolution of competing services in the      *)
(* forwarder and the re-forwarding of failed tasks.                        *)
(*                                                                         *)
(* Stores are shared documents without locks: a handler is split where it  *)
(* reads documents that other processes write before it uses them, and its *)
(* lists come from an index that may lag behind the documents.             *)
(* Scores, costs and capabilities are chosen nondeterministically.         *)
(***************************************************************************)
EXTENDS Integers, FiniteSets, Sequences, SequencesExt, FiniteSetsExt

CONSTANTS
  Tasks,          \* the tasks the cycle is about (cmd.task_ids)
  Agents,         \* the registered agents
  Managers,       \* orchestrator replicas that run cnp_manager_consumer
  ApiBidders,     \* API processes that serve POST /cnp/{username}/bid
  System,         \* the bidder "system" of CNP_FALLBACK_TO_SYSTEM
  NoOne,          \* no bidder, no agent
  MaxRounds,      \* CNP_MAX_ROUNDS
  MaxBids,        \* CNP_MAX_BIDS_PER_TASK
  Scores,         \* the scores told apart that the orchestrator computes
  PostedScores,   \* the scores that posted bids carry
  MinScore,       \* CNP_MIN_BID_SCORE
  Threshold,      \* response threshold of every agent
  BaseStimulus, StimulusStep, StimulusMax,
  RequestPlus,    \* CB_QUERY_CONSISTENCY = request_plus: lists show all
  Requests,       \* bound: cycles that are asked for (RunCNPCycle published)
  MaxCfps,        \* bound: calls for proposals of one task
  MaxAwards,      \* bound: award documents of one task that others add to
  MaxEvents       \* bound: posted bids, API calls, expiries, faults, lags

ASSUME CnpAssumption ==
  /\ IsFiniteSet(Agents) /\ System \notin Agents /\ NoOne \notin Agents \cup {System}
  /\ Managers \cap ApiBidders = {}
  /\ {MaxRounds, MaxBids} \subseteq Nat \ {0} /\ RequestPlus \in BOOLEAN
  /\ {Requests, MaxCfps, MaxAwards, MaxEvents} \subseteq Nat
  /\ Scores \subseteq Nat /\ Scores # {} /\ PostedScores \subseteq Nat /\ MinScore \in Nat
  /\ Threshold \in [Agents -> Nat]
  /\ {BaseStimulus, StimulusStep, StimulusMax} \subseteq Nat

VARIABLES
  cfps,      \* cfps[t]: the calls for proposals of t, [round, status]
  bids,      \* bids[t]: the bids of t, [bidder, cfp, score, scoped]
  awards,    \* awards[t]: the contract awards of t, [bidder, by]
  seqs,      \* seqs[t][n]: evaluation sequence of t under plan n
  plans,     \* the saved plan drafts: plan n assigns plans[n][t] to t
  proc,      \* proc[p]: where process p is and what it has read
  commands,  \* RunCNPCycle commands waiting in the queue
  cycles,    \* status of every cycle document
  behind,    \* behind[t]: lists about t that lagged, for bidders and for builders
  cut,       \* the cycles that a crash or an exception broke off
  events     \* events that MaxEvents bounds, so far

cnpVars == <<cfps, bids, awards, seqs, plans, proc, commands, cycles, behind, cut, events>>
boardVars == <<cfps, bids>>
awardVars == <<awards, seqs, plans>>
cycleVars == <<commands, cycles, cut>>

Bidders == Managers \cup ApiBidders
InlinePlan == 0   \* an inline sequence is stored under the pipeline's id
Idle == [pc |-> "idle", cycle |-> 0, round |-> 0, todo |-> {}, task |-> NoOne,
         seen |-> <<>>, open |-> {}, mine |-> <<>>, has |-> {}]

Event == events < MaxEvents /\ events' = events + 1
Counted(fault) == IF fault THEN Event ELSE UNCHANGED events

CnpInit ==
  /\ cfps = [t \in Tasks |-> <<>>]
  /\ bids = [t \in Tasks |-> <<>>]
  /\ awards = [t \in Tasks |-> <<>>]
  /\ seqs = [t \in Tasks |-> <<>>]
  /\ plans = <<>>
  /\ proc = [p \in Bidders |-> Idle]
  /\ commands = Requests
  /\ cycles = <<>>
  /\ behind = [t \in Tasks |-> [look |-> 0, plan |-> 0]]
  /\ cut = {}
  /\ events = 0

-----------------------------------------------------------------------------
(* Documents. *)

(* The k-th position of a set of positions; what a list shows of documents  *)
(* of which it shows those at positions K.                                  *)
Nth(F, k) == CHOOSE r \in F : Cardinality({j \in F : j < r}) = k - 1
Part(s, K) == [k \in 1..Cardinality(K) |-> s[Nth(K, k)]]

(* Whether a list lags: it misses documents that were added lately, and     *)
(* shows calls as open that have been closed since.                         *)
Lags == IF RequestPlus THEN {FALSE} ELSE BOOLEAN

Open(t) == {i \in DOMAIN cfps[t] : cfps[t][i].status = "open"}

(* A copy of the document is written back as closed, whatever it is by now. *)
Close(cs, X, reason) ==
  [i \in DOMAIN cs |-> IF i \in X THEN [cs[i] EXCEPT !.status = reason] ELSE cs[i]]

LastRound(cs) == Max({0} \cup {cs[i].round : i \in DOMAIN cs})

Stimulus(r) == Min({BaseStimulus + (r - 1) * StimulusStep, StimulusMax})

(* list_bids with a pipeline_id returns only the bids that carry it: which  *)
(* of the bids s that are.                                                  *)
ScopedBids(s) == {i \in DOMAIN s : s[i].scoped}

AddAward(t, a, by) == awards' = [awards EXCEPT ![t] = Append(@, [bidder |-> a, by |-> by])]

(* save_evaluation_sequence replaces the document of the task and the plan. *)
SaveSequence(sq, n, cands) ==
  [k \in DOMAIN sq \cup {n} |-> IF k = n THEN [cands |-> cands, idx |-> 0] ELSE sq[k]]

-----------------------------------------------------------------------------
(* The bidder: blueprint_bidder.run, one task at a time.                    *)

CfpBidders(seen, i) == {seen[k].bidder : k \in {j \in DOMAIN seen : seen[j].cfp = i}}
CfpCount(seen, i) == Cardinality({j \in DOMAIN seen : seen[j].cfp = i})

(* The bids already stored for the task are read first; what they say is   *)
(* used in Place, after the calls for proposals were read and written.      *)
Look(p, t) ==
  /\ proc[p].pc = "look" /\ t \in proc[p].todo
  /\ \E lag \in Lags :
       /\ Counted(lag)
       /\ behind' = [behind EXCEPT ![t].look = IF lag THEN @ + 1 ELSE @]
       /\ \E shown \in IF lag THEN SUBSET DOMAIN bids[t] ELSE {DOMAIN bids[t]} :
          \E found \in IF lag THEN SUBSET DOMAIN cfps[t] ELSE {Open(t)} :
            proc' = [proc EXCEPT ![p].pc = "open", ![p].task = t, ![p].todo = @ \ {t},
                                 ![p].seen = Part(bids[t], shown), ![p].open = found]
  /\ UNCHANGED <<boardVars, awardVars, cycleVars>>

(* The last round of the calls cs that a list shows.                        *)
SeenRounds(cs, lag) == IF lag THEN 0..LastRound(cs) ELSE {LastRound(cs)}

(* X are the calls found open that have expired. A new call is created     *)
(* when none is left, one round after the last.                             *)
OpenCfps(p) ==
  LET t == proc[p].task
  IN /\ proc[p].pc = "open"
     /\ \E X \in SUBSET proc[p].open, lag \in Lags :
          LET closed == Close(cfps[t], X, "expired")
              still == proc[p].open \ X
          IN /\ Counted(X # {} \/ lag)
             /\ \/ /\ still # {} /\ ~lag
                   /\ cfps' = [cfps EXCEPT ![t] = closed]
                   /\ proc' = [proc EXCEPT ![p].pc = "place", ![p].open = still]
                \/ /\ still = {} /\ Len(cfps[t]) < MaxCfps
                   /\ \E last \in SeenRounds(closed, lag) :
                        cfps' = [cfps EXCEPT ![t] =
                                   Append(closed, [round |-> last + 1, status |-> "open"])]
                   /\ proc' = [proc EXCEPT ![p].pc = "place", ![p].open = {Len(closed) + 1}]
     /\ UNCHANGED <<bids, awardVars, cycleVars, behind>>

(* Candidates in the order of their scores; a bandit learner that explores *)
(* swaps the first with a later one.                                        *)
Rankings(C, score) ==
  LET n == Cardinality(C)
      sorted == {s \in [1..n -> C] : /\ \A i, j \in 1..n : i # j => s[i] # s[j]
                                     /\ \A i \in 1..(n-1) : score[s[i]] >= score[s[i+1]]}
  IN sorted \cup {[s EXCEPT ![1] = s[k], ![k] = s[1]] : s \in sorted, k \in 1..n}

(* The first n of the candidates at positions F of the ranking bid on call i.*)
BidsOf(rank, score, F, n, i) ==
  [k \in 1..Min({n, Cardinality(F)}) |->
     [bidder |-> rank[Nth(F, k)], cfp |-> i, score |-> score[rank[Nth(F, k)]], scoped |-> FALSE]]

FaultyNewBids(rank, score, seen, i) ==   \* what is stored already is not counted
  BidsOf(rank, score, {r \in DOMAIN rank : score[rank[r]] >= MinScore}, MaxBids, i)

NewBids(rank, score, seen, i) ==
  LET free == {r \in DOMAIN rank : /\ score[rank[r]] >= MinScore
                                   /\ rank[r] \notin CfpBidders(seen, i)}
  IN BidsOf(rank, score, free, Max({0, MaxBids - CfpCount(seen, i)}), i)

(* The bids on the calls S of a task with n calls, call by call.            *)
BidsOn(rank, score, seen, S, n) ==
  FlattenSeq([i \in 1..n |-> IF i \in S THEN NewBids(rank, score, seen, i) ELSE <<>>])

(* Agents whose response threshold the stimulus reaches may bid; which of  *)
(* them are capable enough for the cost, and the scores, are arbitrary.     *)
(* Without any, the calls are listed again; unless the last round is reached *)
(* this one is closed as empty and the next one opened, and the system      *)
(* itself bids.                                                             *)
Place(p) ==
  LET t == proc[p].task
      seen == proc[p].seen
      stim == Max({Stimulus(cfps[t][i].round) : i \in proc[p].open})
      next == IF proc[p].todo = {} THEN "bidden" ELSE "look"
      closed == Close(cfps[t], proc[p].open, "no_bids")
      BidOn(S, C) ==
        \E score \in [C -> Scores] : \E rank \in Rankings(C, score) :
          bids' = [bids EXCEPT ![t] = @ \o BidsOn(rank, score, seen, S, Len(cfps[t]) + 1)]
  IN /\ proc[p].pc = "place"
     /\ \/ \E C \in (SUBSET {a \in Agents : stim >= Threshold[a]}) \ {{}} :
             BidOn(proc[p].open, C) /\ UNCHANGED <<cfps, events>>
        \/ \E lag \in Lags :
             /\ Counted(lag)
             /\ \E last \in SeenRounds(cfps[t], lag) :
                  \/ last >= MaxRounds /\ BidOn(proc[p].open, {System}) /\ UNCHANGED cfps
                  \/ /\ last < MaxRounds
                     /\ \E others \in IF lag THEN SUBSET DOMAIN cfps[t]
                                     ELSE {Open(t) \ proc[p].open} :
                          \/ /\ others # {} /\ BidOn(others, {System})
                             /\ cfps' = [cfps EXCEPT ![t] = closed]
                          \/ /\ others = {} /\ Len(cfps[t]) < MaxCfps
                             /\ cfps' = [cfps EXCEPT ![t] =
                                  Append(closed, [round |-> last + 1, status |-> "open"])]
                             /\ BidOn({Len(closed) + 1}, {System})
     /\ proc' = [proc EXCEPT ![p].pc = next, ![p].task = NoOne, ![p].seen = <<>>, ![p].open = {}]
     /\ UNCHANGED <<awardVars, cycleVars, behind>>

(* An exception in the bidder: the manager logs it and goes on with the     *)
(* round, the API answers 500 (see ApiDone).                                *)
BidderFails(p) ==
  /\ proc[p].pc \in {"look", "place"} /\ Event
  /\ proc' = [proc EXCEPT ![p].pc = "bidden", ![p].todo = {}, ![p].task = NoOne,
                          ![p].seen = <<>>, ![p].open = {}]
  /\ UNCHANGED <<boardVars, awardVars, cycleVars, behind>>

(* POST /cnp/{username}/bid runs the same bidder in the API's process.      *)
ApiBid(p) ==
  /\ p \in ApiBidders /\ proc[p].pc = "idle" /\ Event
  /\ proc' = [proc EXCEPT ![p].pc = "look", ![p].todo = Tasks]
  /\ UNCHANGED <<boardVars, awardVars, cycleVars, behind>>

ApiDone(p) ==
  /\ p \in ApiBidders /\ proc[p].pc = "bidden"
  /\ proc' = [proc EXCEPT ![p] = Idle]
  /\ UNCHANGED <<boardVars, awardVars, cycleVars, behind, events>>

(* POST /bids: a bid posted with its pipeline, for a call that is known.    *)
PostBid(t, a) ==
  /\ Event
  /\ \E i \in 0..Len(cfps[t]), s \in PostedScores :
       bids' = [bids EXCEPT ![t] = Append(@,
                  [bidder |-> a, cfp |-> i, score |-> s, scoped |-> TRUE])]
  /\ UNCHANGED <<cfps, awardVars, proc, cycleVars, behind>>

-----------------------------------------------------------------------------
(* The manager: handle_run_cnp_cycle.                                       *)

SetCycle(c, status) == cycles' = [cycles EXCEPT ![c] = status]

StartCycle(p) ==
  /\ p \in Managers /\ proc[p].pc = "idle" /\ commands > 0
  /\ commands' = commands - 1
  /\ cycles' = Append(cycles, "bidding")
  /\ proc' = [proc EXCEPT ![p] = [Idle EXCEPT !.pc = "look", !.todo = Tasks,
                                              !.cycle = Len(cycles) + 1, !.round = 1]]
  /\ UNCHANGED <<boardVars, awardVars, cut, behind, events>>

RoundsOver(r) == r.round >= MaxRounds

FaultyNextRound(r) == [r EXCEPT !.pc = "look", !.todo = Tasks]
NextRound(r) == [r EXCEPT !.pc = "look", !.todo = Tasks, !.round = @ + 1]

(* The coverage counts every bid of the user, of any round or call. When it *)
(* cannot be read, or the list lags (known = FALSE), the round may count as *)
(* not covered.                                                             *)
EndRound(p) ==
  /\ p \in Managers /\ proc[p].pc = "bidden"
  /\ \E known \in BOOLEAN :
       /\ Counted(~known)
       /\ \/ /\ (known /\ \A t \in Tasks : bids[t] # <<>>) \/ RoundsOver(proc[p])
             /\ SetCycle(proc[p].cycle, "awarding")
             /\ proc' = [proc EXCEPT ![p].pc = "read"]
          \/ /\ ~(known /\ \A t \in Tasks : bids[t] # <<>>) /\ ~RoundsOver(proc[p])
             /\ proc' = [proc EXCEPT ![p] = NextRound(@)]
             /\ UNCHANGED cycles
  /\ UNCHANGED <<boardVars, awardVars, commands, cut, behind>>

-----------------------------------------------------------------------------
(* The award phase: graph_builder.build_plan_draft.                         *)

(* Bids that count: of the pipeline, of an allowed call (any, when no call  *)
(* is open) and with the minimal score.                                     *)
Qualifying(p, t) ==
  {i \in ScopedBids(proc[p].mine[t]) :
     /\ proc[p].open = {} \/ <<t, proc[p].mine[t][i].cfp>> \in proc[p].open
     /\ proc[p].mine[t][i].score >= MinScore}

BestBids(p, t) ==
  LET q == Qualifying(p, t)
      b == proc[p].mine[t]
  IN b[Min({i \in q : \A j \in q : b[i].score >= b[j].score})]

FaultyRankedBids(p, t) ==   \* in the order in which they were stored
  [k \in 1..Cardinality(Qualifying(p, t)) |-> proc[p].mine[t][Nth(Qualifying(p, t), k)].bidder]

(* Sorted by descending score; bids of one score keep their order: the k-th *)
(* has k - 1 before it.                                                     *)
RankedBids(p, t) ==
  LET q == Qualifying(p, t)
      b == proc[p].mine[t]
      Before(i, j) == b[i].score > b[j].score \/ (b[i].score = b[j].score /\ i < j)
  IN [k \in 1..Cardinality(q) |->
        b[CHOOSE i \in q : Cardinality({j \in q : Before(j, i)}) = k - 1].bidder]

FaultyAlreadyAwarded == {}
AlreadyAwarded == {t \in Tasks : awards[t] # <<>>}

(* Three lists are read: bids, open calls, and the awards, of which it may  *)
(* miss those of the tasks in missed.                                       *)
ReadForPlan(p) ==
  LET calls == UNION {{<<t, i>> : i \in Open(t)} : t \in Tasks}
      all == UNION {{<<t, i>> : i \in DOMAIN cfps[t]} : t \in Tasks}
  IN /\ proc[p].pc = "read"
     /\ \E lag \in Lags : \E missed \in IF lag THEN SUBSET AlreadyAwarded ELSE {{}} :
          /\ Counted(lag)
          /\ behind' = [t \in Tasks |->
               IF t \in missed THEN [behind[t] EXCEPT !.plan = @ + 1] ELSE behind[t]]
          /\ \E shown \in IF lag THEN [Tasks -> SUBSET UNION {DOMAIN bids[t] : t \in Tasks}]
                          ELSE {[t \in Tasks |-> DOMAIN bids[t]]} :
             \E found \in IF lag THEN SUBSET all ELSE {calls} :
               proc' = [proc EXCEPT ![p].pc = "award", ![p].todo = Tasks,
                          ![p].mine = [t \in Tasks |-> Part(bids[t], shown[t] \cap DOMAIN bids[t])],
                          ![p].open = found, ![p].has = AlreadyAwarded \ missed]
  /\ UNCHANGED <<boardVars, awardVars, cycleVars>>

(* A task that has an award keeps it; the load of the winner is written to  *)
(* its registry entry afterwards (AgentRegistry).                           *)
AwardTask(p, t) ==
  /\ proc[p].pc = "award" /\ t \in proc[p].todo
  /\ proc' = [proc EXCEPT ![p].todo = @ \ {t}]
  /\ IF Qualifying(p, t) = {} \/ t \in proc[p].has
     THEN UNCHANGED awards
     ELSE AddAward(t, BestBids(p, t).bidder, "builder")
  /\ UNCHANGED <<boardVars, seqs, plans, cycleVars, behind, events>>

(* Calls that were open when they were read are closed when a bid that was *)
(* read refers to them, or when they have expired (X) by now.               *)
CloseCfps(p) ==
  /\ proc[p].pc = "award" /\ proc[p].todo = {}
  /\ \E X \in SUBSET proc[p].open :
       LET bid(t) == {i \in DOMAIN cfps[t] : <<t, i>> \in proc[p].open \ X
                                   /\ \E k \in ScopedBids(proc[p].mine[t]) : proc[p].mine[t][k].cfp = i}
           exp(t) == {i \in DOMAIN cfps[t] : <<t, i>> \in X}
       IN /\ Counted(X # {})
          /\ cfps' = [t \in Tasks |-> Close(Close(cfps[t], exp(t), "expired"), bid(t), "awarded")]
  /\ proc' = [proc EXCEPT ![p].pc = "save"]
  /\ UNCHANGED <<bids, awardVars, cycleVars, behind>>

(* The assignments of the plan are the best bids, not the awards that were *)
(* found; a task with several qualifying bids gets an evaluation sequence.  *)
SavePlan(p) ==
  LET n == Len(plans) + 1
  IN /\ proc[p].pc = "save"
     /\ seqs' = [t \in Tasks |-> IF Len(RankedBids(p, t)) > 1
                                 THEN SaveSequence(seqs[t], n, RankedBids(p, t))
                                 ELSE seqs[t]]
     /\ plans' = Append(plans, [t \in Tasks |-> IF Qualifying(p, t) = {} THEN NoOne
                                                ELSE BestBids(p, t).bidder])
     /\ proc' = [proc EXCEPT ![p].pc = "seed"]
     /\ UNCHANGED <<boardVars, awards, cycleVars, behind, events>>

(* path_seeder's markers are kept by Pheromone; its failure is ignored.     *)
Finish(p) ==
  /\ proc[p].pc = "seed"
  /\ SetCycle(proc[p].cycle, "completed")
  /\ proc' = [proc EXCEPT ![p] = Idle]
  /\ UNCHANGED <<boardVars, awardVars, commands, cut, behind, events>>

PlanFails(p) ==
  /\ proc[p].pc \in {"read", "award", "save"}
  /\ SetCycle(proc[p].cycle, "failed")
  /\ proc' = [proc EXCEPT ![p] = Idle]
  /\ UNCHANGED <<boardVars, awardVars, commands, cut, behind, events>>

(* An event that cannot be published, or a cycle that cannot be saved,      *)
(* leaves the handler: msg.process() rejects the command, the exception ends *)
(* the consumer, and supervise() lets it be. A cycle that has begun stays   *)
(* as it was saved last.                                                    *)
CycleRaises(p) ==
  /\ p \in Managers
  /\ \/ proc[p].pc = "look" /\ proc[p].todo = Tasks /\ proc[p].round = 1
     \/ proc[p].pc \in {"bidden", "read", "award", "save", "seed"}
  /\ proc' = [proc EXCEPT ![p] = [Idle EXCEPT !.pc = "dead"]]
  /\ cut' = cut \cup {proc[p].cycle}
  /\ UNCHANGED <<boardVars, awardVars, commands, cycles, behind, events>>

(* Only a restart of the orchestrator brings the consumer back.             *)
Restart(p) ==
  /\ p \in Managers /\ proc[p].pc = "dead"
  /\ proc' = [proc EXCEPT ![p] = Idle]
  /\ UNCHANGED <<boardVars, awardVars, cycleVars, behind, events>>

(* A crash: the command was not acknowledged and is delivered again.        *)
ManagerCrash(p) ==
  /\ p \in Managers /\ proc[p].pc \notin {"idle", "dead"} /\ Event
  /\ commands' = commands + 1
  /\ cut' = cut \cup {proc[p].cycle}
  /\ proc' = [proc EXCEPT ![p] = Idle]
  /\ UNCHANGED <<boardVars, awardVars, cycles, behind>>

-----------------------------------------------------------------------------
(* Outside the cycle.                                                       *)

(* The forwarder resolves a task for which several services compete: every *)
(* candidate's bid is stored with the pipeline, then the sequence under the *)
(* pipeline's id, then the award of the first.                              *)
ResolveCompetingService(t) ==
  /\ Len(awards[t]) < MaxAwards /\ Event /\ InlinePlan \notin DOMAIN seqs[t]
  /\ \E C \in {D \in SUBSET Agents : Cardinality(D) > 1} :
     \E score \in [C -> Scores] : \E rank \in Rankings(C, score) :
       /\ bids' = [bids EXCEPT ![t] = @ \o [k \in DOMAIN rank |->
            [bidder |-> rank[k], cfp |-> 0, score |-> score[rank[k]], scoped |-> TRUE]]]
       /\ seqs' = [seqs EXCEPT ![t] = SaveSequence(@, InlinePlan, rank)]
       /\ AddAward(t, rank[1], "inline")
  /\ UNCHANGED <<cfps, plans, proc, cycleVars, behind>>

(* The tracker passes a failed task to the next candidate of a plan's       *)
(* sequence (RunTracker has the details).                                   *)
Reforward(t, n) ==
  /\ n \in DOMAIN seqs[t] /\ Len(awards[t]) < MaxAwards
  /\ LET sq == seqs[t][n]
         idx == sq.idx + 1
     IN /\ idx < Len(sq.cands)
        /\ seqs' = [seqs EXCEPT ![t][n].idx = idx]
        /\ AddAward(t, sq.cands[idx + 1], "reforward")
  /\ UNCHANGED <<boardVars, plans, proc, cycleVars, behind, events>>

BidStep(p) == (\E t \in Tasks : Look(p, t)) \/ OpenCfps(p) \/ Place(p) \/ ApiDone(p)
CycleStep(p) == StartCycle(p) \/ EndRound(p) \/ Finish(p)
PlanStep(p) ==
  \/ ReadForPlan(p) \/ CloseCfps(p) \/ SavePlan(p)
  \/ \E t \in Tasks : AwardTask(p, t)

CnpNext ==
  \/ \E p \in Bidders : BidStep(p) \/ BidderFails(p) \/ ApiBid(p)
  \/ \E p \in Managers : CycleStep(p) \/ PlanStep(p) \/ PlanFails(p) \/ CycleRaises(p)
                           \/ Restart(p) \/ ManagerCrash(p)
  \/ \E t \in Tasks : ResolveCompetingService(t) \/ \E a \in Agents : PostBid(t, a)
  \/ \E t \in Tasks : \E n \in DOMAIN seqs[t] : Reforward(t, n)

CnpSpec == CnpInit /\ [][CnpNext]_cnpVars

(* A running manager or API process takes its next step.                    *)
CnpFairness ==
  /\ \A p \in Bidders : WF_cnpVars(BidStep(p))
  /\ \A p \in Managers : WF_cnpVars(CycleStep(p) \/ PlanStep(p))
CnpFairSpec == CnpSpec /\ CnpFairness

-----------------------------------------------------------------------------
(* Types of the documents, the processes and the prepared writes.           *)
CnpTypeOK ==
  /\ \A t \in Tasks :
       /\ cfps[t] \in Seq([round : Nat \ {0}, status : {"open", "expired", "no_bids", "awarded"}])
       /\ \A i \in DOMAIN bids[t] :
            bids[t][i] \in [bidder : Agents \cup {System}, cfp : 0..Len(cfps[t]),
                            score : Scores \cup PostedScores, scoped : BOOLEAN]
       /\ awards[t] \in Seq([bidder : Agents \cup {System}, by : {"builder", "inline", "reforward"}])
       /\ \A n \in DOMAIN seqs[t] : seqs[t][n].idx < Len(seqs[t][n].cands)
  /\ cycles \in Seq({"bidding", "awarding", "completed", "failed"})
  /\ \A p \in Bidders : proc[p].cycle \in 0..Len(cycles) /\ proc[p].round \in 0..MaxRounds

(* Even when a cycle is cut short by a crash and its command is run again,  *)
(* while other services award the task inline, the graph builder of one     *)
(* manager awards a task at most once: it finds the award it stored - once  *)
(* more for every list of awards that does not show it yet.                 *)
AwardOnce ==
  \A t \in Tasks :
    Cardinality({i \in DOMAIN awards[t] : awards[t][i].by = "builder"}) <= 1 + behind[t].plan

(* Bidders count the bids of a call before they place theirs, so two that   *)
(* race may both fill it; but none fills it twice, and none opens a second  *)
(* call beside one it can see, unless its lists lag: each that does costs   *)
(* one call and one filling at most.                                        *)
RacesBounded ==
  \A t \in Tasks :
    LET fillings == Cardinality(Bidders) + behind[t].look
    IN /\ Cardinality(Open(t)) <= fillings
       /\ \A i \in DOMAIN cfps[t] :
            Cardinality({k \in DOMAIN bids[t] \ ScopedBids(bids[t]) : bids[t][k].cfp = i})
              <= MaxBids * fillings

(* The agent a plan assigns to a task is the first candidate of the task's  *)
(* evaluation sequence (two functions choose them, _best_bids and           *)
(* _ranked_bids), so the first re-forward of a failed task leaves the bid   *)
(* that was assigned, however bids of several calls and sources are mixed.  *)
PlanMatchesSequence ==
  \A n \in DOMAIN plans : \A t \in Tasks :
    n \in DOMAIN seqs[t] => seqs[t][n].cands[1] = plans[n][t]

(* In the end no command waits, unless an exception has ended every         *)
(* manager's consumer, none of them is half-way through a cycle, and each   *)
(* cycle has a final status but those that a crash or an exception broke    *)
(* off.                                                                     *)
CyclesEnd ==
  <>[](/\ \A p \in Managers : proc[p].pc \in {"idle", "dead"}
       /\ commands = 0 \/ \A p \in Managers : proc[p].pc = "dead"
       /\ \A c \in DOMAIN cycles \ cut : cycles[c] \in {"completed", "failed"})

(* tests/integration_tests/.../test_graph_builder.py: a task whose bid has  *)
(* the minimal score is assigned in the plan of the cycle that collected it.*)
BidsReachPlan ==
  \A p \in Managers : proc[p].pc = "seed" =>
    \A t \in Tasks :
      (\E i \in DOMAIN bids[t] : bids[t][i].score >= MinScore) => plans[Len(plans)][t] # NoOne

=============================================================================
