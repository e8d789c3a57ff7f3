------------------------------ MODULE Learning ------------------------------
(***************************************************************************)
(* What the orchestrator learns from executions, for one task and one      *)
(* agent: the affordance markers (pheromones) that the path seeder, the    *)
(* forwarder and the pheromone engine write, and the decision records and  *)
(* the bandit model that the forwarder updates. Every writer reads         *)
(* documents first and writes them later, without a lock.                  *)
(*                                                                         *)
(* Intensities are counted in tenths; of the bandit's matrix only the      *)
(* number of updates is kept.                                              *)
(***************************************************************************)
EXTENDS Integers, FiniteSets, Sequences, FiniteSetsExt

CONSTANTS
  Engines,        \* pheromone engine calls that may overlap
  Forwarders,     \* forwarders that end a task at the same time
  Kinds,          \* error categories of _classify_error
  MinIntensity, MaxIntensity, SuccessBonus, FailurePenalty, DepositDelta,
  DecayFactor,    \* in tenths
  DecayLimit,     \* PHEROMONE_DECAY_LIMIT
  MaxMarkers,     \* bound: markers of the pair
  MaxLearnEvents  \* bound: calls

ASSUME LearnAssumption ==
  /\ {MinIntensity, MaxIntensity, SuccessBonus, FailurePenalty, DepositDelta} \subseteq Nat
  /\ MinIntensity <= MaxIntensity /\ DecayFactor \in 0..10
  /\ {DecayLimit, MaxMarkers, MaxLearnEvents} \subseteq Nat
  /\ IsFiniteSet(Forwarders)

VARIABLES
  markers,   \* markers[i] = [int, kind, count], or Expired
  engine,    \* engine[e]: what the engine call has read
  reported,  \* reported[k]: failures of kind k in the feedback so far
  records,   \* decision records: "open" or "closed"
  model,     \* n_updates of the stored bandit model
  fwd,       \* fwd[f]: where the forwarder's bookkeeping is
  executions,  \* task executions that ended
  learnEvents

learnVars == <<markers, engine, reported, records, model, fwd, executions, learnEvents>>
markerVars == <<markers, engine, reported>>
banditVars == <<records, model, fwd, executions>>

Expired == [int |-> -1, kind |-> "none", count |-> 0]
IdleEngine == [pc |-> "idle"]
Live == {i \in DOMAIN markers : markers[i] # Expired}
LearnEvent == learnEvents < MaxLearnEvents /\ learnEvents' = learnEvents + 1

One == 10   \* an intensity of 1.0
Ceiling == IF MaxIntensity > One THEN MaxIntensity ELSE One
Clip(v) == Min({Max({v, MinIntensity}), MaxIntensity})

AddMarker(m) == Len(markers) < MaxMarkers /\ markers' = Append(markers, m)

-----------------------------------------------------------------------------
(* path_seeder: a marker of the best ranked agent's score, 0.0 to 1.0, which *)
(* looks at neither of the configured limits.                               *)
SeedPath ==
  /\ LearnEvent
  /\ \E score \in 0..One :
       AddMarker([int |-> score, kind |-> "none", count |-> 0])
  /\ UNCHANGED <<engine, reported, banditVars>>

Strongest == Max({0} \cup {markers[i].int : i \in Live})

(* The forwarder deposits a new marker on top of the strongest it found     *)
(* when a task has succeeded, up to 1.0 whatever PHEROMONE_INTENSITY_MAX is. *)
DepositRead(e) ==
  /\ engine[e] = IdleEngine /\ LearnEvent
  /\ engine' = [engine EXCEPT ![e] = [pc |-> "deposit", int |-> Strongest]]
  /\ UNCHANGED <<markers, reported, banditVars>>

DepositWrite(e) ==
  /\ engine[e].pc = "deposit"
  /\ AddMarker([int |-> Min({engine[e].int + DepositDelta, One}),
                kind |-> "none", count |-> 0])
  /\ engine' = [engine EXCEPT ![e] = IdleEngine]
  /\ UNCHANGED <<reported, banditVars, learnEvents>>

-----------------------------------------------------------------------------
(* pheromone_engine with feedback. The strongest marker is the one updated. *)
SelectMarker ==
  IF Live = {} THEN 0
  ELSE CHOOSE i \in Live : \A j \in Live :
         markers[i].int > markers[j].int \/ (markers[i].int = markers[j].int /\ i <= j)

FaultyFailureContext(old, kind) ==   \* failures of any kind are added up
  [kind |-> kind, count |-> old.count + 1]

(* A failure of the kind the marker already counts adds to its count.       *)
FailureContext(old, kind) ==
  [kind |-> kind, count |-> (IF old.kind = kind THEN old.count ELSE 0) + 1]

(* outcome: a kind of failure, "success", or "unknown" when the entry does  *)
(* not say.                                                                 *)
Updated(old, outcome) ==
  LET delta == IF outcome = "success" THEN SuccessBonus
               ELSE IF outcome \in Kinds THEN -FailurePenalty ELSE 0
      fc == IF outcome \in Kinds THEN FailureContext(old, outcome)
            ELSE IF outcome = "success" THEN [kind |-> "none", count |-> 0]
            ELSE [kind |-> old.kind, count |-> old.count]
  IN [int |-> Clip(old.int + delta), kind |-> fc.kind, count |-> fc.count]

FeedbackRead(e, outcome) ==
  LET i == SelectMarker
      old == IF i = 0 THEN [int |-> 5, kind |-> "none", count |-> 0] ELSE markers[i]
  IN /\ engine[e] = IdleEngine /\ LearnEvent
     /\ engine' = [engine EXCEPT ![e] =
                     [pc |-> "feedback", i |-> i, new |-> Updated(old, outcome)]]
     /\ reported' = [k \in Kinds |-> IF k = outcome THEN reported[k] + 1 ELSE reported[k]]
     /\ UNCHANGED <<markers, banditVars>>

(* The marker is written under its own key, expired by now or not.          *)
FeedbackWrite(e) ==
  LET w == engine[e]
  IN /\ w.pc = "feedback"
     /\ IF w.i = 0 THEN AddMarker(w.new)
        ELSE markers' = [markers EXCEPT ![w.i] = w.new]
     /\ engine' = [engine EXCEPT ![e] = IdleEngine]
     /\ UNCHANGED <<reported, banditVars, learnEvents>>

-----------------------------------------------------------------------------
(* pheromone_engine without feedback: the markers it has listed decay.      *)

Decayed(m) == [m EXCEPT !.int = Max({MinIntensity, (m.int * DecayFactor) \div 10})]

DecayRead(e) ==
  /\ engine[e] = IdleEngine /\ Live # {} /\ LearnEvent
  /\ engine' = [engine EXCEPT ![e] =
       [pc |-> "decay", list |-> markers,
        todo |-> {i \in Live : Cardinality({j \in Live : j < i}) < DecayLimit}]]
  /\ UNCHANGED <<markers, reported, banditVars>>

DecayWrite(e) ==
  LET w == engine[e]
  IN /\ w.pc = "decay"
     /\ \/ /\ w.todo = {}
           /\ engine' = [engine EXCEPT ![e] = IdleEngine]
           /\ UNCHANGED markers
        \/ \E i \in w.todo :
             /\ engine' = [engine EXCEPT ![e].todo = @ \ {i}]
             /\ markers' = IF Decayed(w.list[i]) = w.list[i] THEN markers
                           ELSE [markers EXCEPT ![i] = Decayed(w.list[i])]
     /\ UNCHANGED <<reported, banditVars, learnEvents>>

Expiry(i) ==
  /\ markers[i] # Expired /\ LearnEvent
  /\ markers' = [markers EXCEPT ![i] = Expired]
  /\ UNCHANGED <<engine, reported, banditVars>>

-----------------------------------------------------------------------------
(* Bandit: an award saves an open decision record; the end of the task      *)
(* closes the newest open one and feeds its reward to the model.            *)

SaveDecision ==
  /\ LearnEvent
  /\ records' = Append(records, "open")
  /\ UNCHANGED <<markerVars, model, fwd, executions>>

(* In hundredths; retries after the first attempt, latency, cost and policy *)
(* blocks reduce it, the first two up to a cap.                             *)
ComputeReward(o) ==
  LET r == (IF o.success THEN 100 ELSE -100) - 50 * Max({0, o.retries - 1})
           - Min({(100 * o.latency) \div 60, 30}) - Min({10 * o.cost, 20}) - 10 * o.blocks
  IN Max({Min({r, 150}), -200})

(* An execution that went no worse in any respect earns no smaller reward,  *)
(* and success with nothing to deduct more than any failure.                *)
RewardSound(o, p) ==
  /\ (/\ p.success => o.success
      /\ o.retries <= p.retries /\ o.latency <= p.latency /\ o.cost <= p.cost /\ o.blocks <= p.blocks)
     => ComputeReward(o) >= ComputeReward(p)
  /\ (o.success /\ o.retries <= 1 /\ o.blocks = 0 /\ ~p.success) => ComputeReward(o) > ComputeReward(p)

FindDecision(f) ==
  LET open == {i \in DOMAIN records : records[i] = "open"}
  IN /\ fwd[f].pc = "idle" /\ LearnEvent
     /\ executions' = executions + 1
     /\ fwd' = [fwd EXCEPT ![f] = IF open = {} THEN @
                                  ELSE [pc |-> "close", i |-> Max(open), n |-> 0]]
     /\ UNCHANGED <<markerVars, records, model>>

FaultyCloseDecision(f) ==   \* the reward is counted twice
  /\ fwd[f].pc = "close"
  /\ records' = [records EXCEPT ![fwd[f].i] = "closed"]
  /\ fwd' = [fwd EXCEPT ![f] = [pc |-> "reward", i |-> fwd[f].i, n |-> model + 2]]
  /\ UNCHANGED <<markerVars, model, executions, learnEvents>>

(* A learner made for this call loads the model ...                         *)
CloseDecision(f) ==
  /\ fwd[f].pc = "close"
  /\ records' = [records EXCEPT ![fwd[f].i] = "closed"]
  /\ fwd' = [fwd EXCEPT ![f] = [pc |-> "reward", i |-> fwd[f].i, n |-> model + 1]]
  /\ UNCHANGED <<markerVars, model, executions, learnEvents>>

(* ... and saves it with one update more.                                   *)
RecordReward(f) ==
  /\ fwd[f].pc = "reward"
  /\ model' = fwd[f].n
  /\ fwd' = [fwd EXCEPT ![f] = [pc |-> "idle", i |-> 0, n |-> 0]]
  /\ UNCHANGED <<markerVars, records, executions, learnEvents>>

LearnInit ==
  /\ markers = <<>>
  /\ engine = [e \in Engines |-> IdleEngine]
  /\ reported = [k \in Kinds |-> 0]
  /\ records = <<>> /\ model = 0 /\ executions = 0
  /\ fwd = [f \in Forwarders |-> [pc |-> "idle", i |-> 0, n |-> 0]]
  /\ learnEvents = 0

LearnNext ==
  \/ SeedPath
  \/ \E e \in Engines :
       \/ DepositRead(e) \/ DepositWrite(e) \/ FeedbackWrite(e)
       \/ DecayRead(e) \/ DecayWrite(e)
       \/ \E outcome \in Kinds \cup {"success", "unknown"} : FeedbackRead(e, outcome)
  \/ \E i \in DOMAIN markers : Expiry(i)
  \/ SaveDecision
  \/ \E f \in Forwarders : FindDecision(f) \/ CloseDecision(f) \/ RecordReward(f)

LearnSpec == LearnInit /\ [][LearnNext]_learnVars

-----------------------------------------------------------------------------
(* Whatever was read before it was written, intensities stay between zero   *)
(* and the larger of 1.0 and PHEROMONE_INTENSITY_MAX: feedback keeps to the *)
(* configured limits, decay to the lower one, seeds and deposits to neither *)
(* (at the defaults, 0.0 and 1.0, it is all one range). And no marker counts *)
(* more failures of a kind than were reported: the penalty of a bid never   *)
(* rests on failures of another kind.                                       *)
MarkersSound ==
  \A i \in Live :
    /\ markers[i].int \in 0..Ceiling
    /\ markers[i].kind \in Kinds => markers[i].count <= reported[markers[i].kind]

(* The model never counts more rewards than tasks ended, although two       *)
(* forwarders may close the same record and overwrite each other's model.   *)
RewardsWithinExecutions ==
  /\ model <= executions
  /\ Cardinality({i \in DOMAIN records : records[i] = "closed"}) <= executions
=============================================================================
