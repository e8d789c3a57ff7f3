---------------------------- MODULE MCRunTracker ----------------------------
(***************************************************************************)
(* Instances of RunTracker for TLC.                                        *)
(***************************************************************************)
EXTENDS RunTracker

CONSTANTS p1, p2, k1, k2, t1, t2

MCTask   == {t1, t2}
MCFinal  == {t2}
MCTracker == {k1, k2}

\* One process with two trackers, and two processes with one tracker each.
OneProc   == [k \in MCTracker |-> p1]
TwoProcs  == [k \in MCTracker |-> IF k = k1 THEN p1 ELSE p2]

\* Exchanging the two processes together with their trackers changes nothing.
Swap == {[x \in {p1, p2, k1, k2} |->
            CASE x = p1 -> p2 [] x = p2 -> p1 [] x = k1 -> k2 [] x = k2 -> k1]}

\* A run whose plan_id the graph builder has already stored.
PlannedInit ==
  /\ hot = [seed_initial_run EXCEPT !.plan = TRUE]
  /\ cold = NoDoc
  /\ cursor = [t \in Task |-> 0]
  /\ awards = [t \in Task |-> 0]
  /\ stops = 0
  /\ dedupe = [k \in Tracker |-> {}]
  /\ call = [p \in Proc |-> Idle]

PlannedSpec == PlannedInit /\ [][Next]_vars
=============================================================================
