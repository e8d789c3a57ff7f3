----------------------------- MODULE DedupeSet ------------------------------
(***************************************************************************)
(* What the tracker relies on: a set of event keys of bounded size that    *)
(* holds a key right after it was added and may forget keys at any time.   *)
(* RunTracker uses its caches in exactly this way.                         *)
(***************************************************************************)
EXTENDS Naturals, FiniteSets

CONSTANTS Key, MaxItems

VARIABLE keys

TypeOK == keys \in SUBSET Key /\ Cardinality(keys) <= MaxItems

Init == keys = {}

Add(k) == \E kept \in SUBSET keys : /\ keys' = kept \cup {k}
                                    /\ Cardinality(keys') <= MaxItems

Forget == \E kept \in SUBSET keys : keys' = kept

Next == Forget \/ \E k \in Key : Add(k)

Spec == Init /\ [][Next]_keys
=============================================================================
