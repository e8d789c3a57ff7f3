---------------------------- MODULE DedupeCache -----------------------------
(***************************************************************************)
(* _LRUSet: the LRU+TTL set in which a tracker remembers the events of one *)
(* run it has processed.  The OrderedDict is the sequence "order" of its   *)
(* keys, least recently used first, and the time stamp of each key.  The   *)
(* clock is read before the lock is taken; trackers are only called on the *)
(* event loop, so each operation is one step all the same.                 *)
(***************************************************************************)
EXTENDS Integers, Sequences, FiniteSets, FiniteSetsExt, SequencesExt

CONSTANTS
  Key,        \* event keys
  CacheSize,  \* capacity, max_items
  TTL,        \* ttl_seconds; 0 or less switches expiry off
  CacheTime   \* bound on the clock

ASSUME CapacityAssumption == CacheSize \in Nat \ {0}
ASSUME TTLAssumption == TTL \in Int /\ CacheTime \in Nat

VARIABLES
  order,      \* keys of the OrderedDict, in its order
  ts,         \* the time stamp stored for each key (of use while it is stored)
  now,        \* the monotonic clock
  touched     \* the keys added so far

cacheVars == <<order, ts, now, touched>>

Stored == ToSet(order)

CacheInit ==
  /\ order = <<>>
  /\ ts = [k \in Key |-> 0]
  /\ now = 0
  /\ touched = {}

-----------------------------------------------------------------------------
Aged(k) == now - ts[k] > TTL

\* Pop keys from the LRU side up to the first one that has not expired.
_purge_expired(seq) ==
  IF TTL <= 0 THEN seq
  ELSE LET alive == {i \in 1 .. Len(seq) : ~Aged(seq[i])}
       IN  IF alive = {} THEN <<>> ELSE SubSeq(seq, Min(alive), Len(seq))

\* The key is last now, whether it was stored or not.
move_to_end(seq, k) ==
  LET at == {i \in 1 .. Len(seq) : seq[i] = k}
  IN  Append(IF at = {} THEN seq ELSE RemoveAt(seq, Min(at)), k)

\* Faulty variants: no eviction, and eviction one key too early.
EvictNothing(seq) == seq
EvictEarly(seq) ==
  IF Len(seq) >= CacheSize THEN SubSeq(seq, Len(seq) - CacheSize + 2, Len(seq)) ELSE seq

\* Pop keys from the LRU side until the set fits.
Evict(seq) ==
  IF Len(seq) > CacheSize THEN SubSeq(seq, Len(seq) - CacheSize + 1, Len(seq)) ELSE seq

\* The answer is whether k is stored once the expired keys are gone.
contains(k) ==
  LET live == _purge_expired(order)
  IN  /\ IF k \in ToSet(live)
         THEN order' = move_to_end(live, k) /\ ts' = [ts EXCEPT ![k] = now]
         ELSE order' = live /\ UNCHANGED ts
      /\ UNCHANGED <<now, touched>>

add(k) ==
  /\ order' = Evict(move_to_end(_purge_expired(order), k))
  /\ ts' = [ts EXCEPT ![k] = now]
  /\ touched' = touched \cup {k}
  /\ UNCHANGED now

\* Time passes between the calls.
CacheTick ==
  /\ now < CacheTime
  /\ now' = now + 1
  /\ UNCHANGED <<order, ts, touched>>

CacheNext == CacheTick \/ \E k \in Key : contains(k) \/ add(k)

CacheSpec == CacheInit /\ [][CacheNext]_cacheVars

-----------------------------------------------------------------------------
\* A key is lost only by expiry or under pressure: if an added key is gone
\* although it was used at most TTL ago, at least CacheSize other keys were used
\* since.  (ts keeps the last use of a key that is no longer stored.)
LostOnlyUnderPressure ==
  \A k \in touched \ Stored :
    \/ TTL > 0 /\ Aged(k)
    \/ Cardinality({j \in touched \ {k} : ts[j] >= ts[k]}) >= CacheSize

Abstract == INSTANCE DedupeSet WITH keys <- Stored, MaxItems <- CacheSize
\* _LRUSet implements the set that RunTracker assumes: every step of contains, add
\* and the clock is one of the set's, or leaves it alone.
ImplementsSet == Abstract!Spec
=============================================================================
