---------------------------- MODULE ServicesProofs ----------------------------
(***************************************************************************)
(* Proofs about five services of the orchestrator: the LRU+TTL set in      *)
(* which a tracker remembers events (DedupeCache), for any capacity,       *)
(* lifetime and keys; what the orchestrator learns from executions         *)
(* (Learning), for any number of overlapping calls; the registry of        *)
(* agents (AgentRegistry), for any number of tasks at a time; the marker   *)
(* store with its REST routes (GraphStoreApi), for any owners, tags and    *)
(* page size, with and without an index that lags behind; and the scores   *)
(* by which agents, bids and coalitions are chosen (BidScoring), for any   *)
(* numbers.                                                                *)
(***************************************************************************)
EXTENDS AgentRegistry, MCServices, FiniteSetTheorems, SequenceTheorems, WellFoundedInduction, TLAPS

-----------------------------------------------------------------------------
(***************************************************************************)
(* Sequences of keys in the order of their last use.                       *)
(***************************************************************************)
KeysOf(s) == {s[i] : i \in 1..Len(s)}

Lru(s, t) ==
  /\ s \in Seq(Key)
  /\ \A i, j \in 1..Len(s) : s[i] = s[j] => i = j
  /\ \A i, j \in 1..Len(s) : i <= j => t[s[i]] <= t[s[j]]

\* The keys of a sequence, and how many there are when none is there twice.
LEMMA KeysCounted ==
  ASSUME NEW t, NEW s, Lru(s, t)
  PROVE  /\ ToSet(s) = KeysOf(s) /\ Len(s) \in Nat
         /\ IsFiniteSet(KeysOf(s)) /\ Cardinality(KeysOf(s)) = Len(s)
<1>1. s \in Seq(Key) /\ Len(s) \in Nat /\ DOMAIN s = 1..Len(s) /\ s \in [1..Len(s) -> Key]
  BY DEF Lru
<1>2. ToSet(s) = KeysOf(s)
  BY <1>1 DEF ToSet, KeysOf
<1>3. s \in Bijection(1..Len(s), KeysOf(s))
  <2>1. s \in [1..Len(s) -> KeysOf(s)] /\ \A k \in KeysOf(s) : \E i \in 1..Len(s) : s[i] = k
    BY <1>1 DEF KeysOf
  <2>. QED BY <1>1, <2>1 DEF Lru, Bijection, Injection, IsInjective, Surjection
<1>4. IsFiniteSet(1..Len(s)) /\ Cardinality(1..Len(s)) = Len(s)
  BY <1>1, FS_Interval
<1>. QED BY <1>1, <1>2, <1>3, <1>4, FS_Bijection DEF ExistsBijection

\* The keys from some place on.
LEMMA LruSuffix ==
  ASSUME NEW t, NEW s, Lru(s, t), NEW m \in 1..Len(s)
  PROVE  LET a == SubSeq(s, m, Len(s))
         IN /\ Lru(a, t) /\ Len(a) = Len(s) - m + 1
            /\ KeysOf(a) = {s[i] : i \in m..Len(s)}
            /\ \A i \in 1..Len(a) : a[i] = s[i + m - 1]
<1>. DEFINE a == SubSeq(s, m, Len(s))
<1>1. /\ s \in Seq(Key) /\ Len(s) \in Nat /\ m \in Nat /\ m >= 1 /\ m <= Len(s)
  BY DEF Lru
<1>2. /\ a \in Seq(Key) /\ Len(a) = Len(s) - m + 1
      /\ \A i \in 1..Len(a) : a[i] = s[i + m - 1]
  BY <1>1
<1>. HIDE DEF a
<1>3. \A i \in 1..Len(a) : i + m - 1 \in m..Len(s) /\ i + m - 1 \in 1..Len(s)
  BY <1>1, <1>2
<1>4. \A i \in m..Len(s) : i - m + 1 \in 1..Len(a) /\ a[i - m + 1] = s[i]
  BY <1>1, <1>2
<1>5. KeysOf(a) = {s[i] : i \in m..Len(s)}
  <2>1. \A i \in 1..Len(a) : a[i] \in {s[j] : j \in m..Len(s)}
    BY <1>2, <1>3
  <2>2. \A i \in m..Len(s) : s[i] \in KeysOf(a)
    BY <1>4 DEF KeysOf
  <2>. QED BY <2>1, <2>2 DEF KeysOf
<1>6. \A i, j \in 1..Len(a) : a[i] = a[j] => i = j
  <2>. SUFFICES ASSUME NEW i \in 1..Len(a), NEW j \in 1..Len(a), a[i] = a[j] PROVE i = j
    OBVIOUS
  <2>1. i + m - 1 = j + m - 1
    BY <1>2, <1>3 DEF Lru
  <2>. QED BY <1>1, <2>1
<1>7. \A i, j \in 1..Len(a) : i <= j => t[a[i]] <= t[a[j]]
  <2>. SUFFICES ASSUME NEW i \in 1..Len(a), NEW j \in 1..Len(a), i <= j PROVE t[a[i]] <= t[a[j]]
    OBVIOUS
  <2>1. i + m - 1 <= j + m - 1
    BY <1>1
  <2>. QED BY <1>2, <1>3, <2>1 DEF Lru
<1>. QED BY <1>2, <1>5, <1>6, <1>7 DEF a, Lru

\* One key is taken out.
LEMMA LruWithout ==
  ASSUME NEW t, NEW s, Lru(s, t), NEW m \in 1..Len(s)
  PROVE  LET a == RemoveAt(s, m)
         IN Lru(a, t) /\ Len(a) = Len(s) - 1 /\ KeysOf(a) = KeysOf(s) \ {s[m]}
<1>. DEFINE b == SubSeq(s, 1, m - 1)
            c == SubSeq(s, m + 1, Len(s))
            a == b \o c
<1>1. s \in Seq(Key) /\ Len(s) \in Nat /\ m \in Nat /\ m >= 1 /\ m <= Len(s)
  BY DEF Lru
<1>2. b \in Seq(Key) /\ Len(b) = m - 1 /\ \A i \in 1..(m - 1) : b[i] = s[i]
  BY <1>1
<1>3. c \in Seq(Key) /\ Len(c) = Len(s) - m /\ \A i \in 1..(Len(s) - m) : c[i] = s[i + m]
  BY <1>1
<1>. HIDE DEF b, c
<1>4. a \in Seq(Key) /\ Len(a) = Len(s) - 1
  <2>1. a \in Seq(Key) /\ Len(a) = Len(b) + Len(c)
    BY <1>2, <1>3, ConcatProperties
  <2>. HIDE DEF a
  <2>. QED BY <1>1, <1>2, <1>3, <2>1
<1>5. \A i \in 1..Len(a) : a[i] = IF i <= Len(b) THEN b[i] ELSE c[i - Len(b)]
  BY <1>2, <1>3
<1>. HIDE DEF a
<1>. DEFINE at == [i \in 1..Len(a) |-> IF i < m THEN i ELSE i + 1]
<1>6. ASSUME NEW i \in 1..Len(a) PROVE at[i] \in 1..Len(s) /\ at[i] # m /\ a[i] = s[at[i]]
  <2>1. CASE i < m
    BY <1>1, <1>2, <1>4, <1>5, <2>1
  <2>2. CASE i >= m
    <3>1. a[i] = c[i - (m - 1)] /\ i - (m - 1) \in 1..(Len(s) - m)
      BY <1>1, <1>2, <1>4, <1>5, <2>2
    <3>2. c[i - (m - 1)] = s[i - (m - 1) + m] /\ i - (m - 1) + m = i + 1
      BY <1>1, <1>3, <3>1
    <3>. QED BY <1>1, <1>4, <2>2, <3>1, <3>2
  <2>. QED BY <1>1, <1>4, <2>1, <2>2
<1>7. \A i, j \in 1..Len(a) : (at[i] = at[j] => i = j) /\ (i <= j => at[i] <= at[j])
  BY <1>1
<1>8. ASSUME NEW k \in 1..Len(s), k # m PROVE \E i \in 1..Len(a) : at[i] = k
  <2>1. CASE k < m
    <3>1. k \in 1..Len(a) /\ at[k] = k
      BY <1>1, <1>4, <2>1
    <3>. QED BY <3>1
  <2>2. CASE k > m
    <3>1. k - 1 \in 1..Len(a) /\ at[k - 1] = k
      BY <1>1, <1>4, <2>2
    <3>. QED BY <3>1
  <2>. QED BY <1>1, <1>8, <2>1, <2>2
<1>. HIDE DEF at
<1>9. KeysOf(a) = KeysOf(s) \ {s[m]}
  <2>1. \A i \in 1..Len(a) : a[i] \in KeysOf(s) /\ a[i] # s[m]
    BY <1>6 DEF Lru, KeysOf
  <2>2. \A k \in 1..Len(s) : s[k] # s[m] => s[k] \in KeysOf(a)
    BY <1>6, <1>8 DEF KeysOf
  <2>. QED BY <2>1, <2>2 DEF KeysOf
<1>10. Lru(a, t)
  <2>1. \A i, j \in 1..Len(a) : a[i] = a[j] => i = j
    BY <1>6, <1>7, SMTT(30) DEF Lru
  <2>2. \A i, j \in 1..Len(a) : i <= j => t[a[i]] <= t[a[j]]
    BY <1>6, <1>7 DEF Lru
  <2>. QED BY <1>4, <2>1, <2>2 DEF Lru
<1>. QED BY <1>4, <1>9, <1>10 DEF RemoveAt, a, b, c

\* A key that none of the others is younger than comes last.
LEMMA LruAppend ==
  ASSUME NEW t, NEW s, Lru(s, t), NEW k \in Key, k \notin KeysOf(s),
         \A j \in KeysOf(s) : t[j] <= t[k], t[k] <= t[k]
  PROVE  LET a == Append(s, k)
         IN Lru(a, t) /\ Len(a) = Len(s) + 1 /\ KeysOf(a) = KeysOf(s) \cup {k} /\ a[Len(a)] = k
<1>. DEFINE a == Append(s, k)
<1>1. /\ a \in Seq(Key) /\ Len(a) = Len(s) + 1 /\ Len(s) \in Nat
      /\ a[Len(s) + 1] = k /\ \A i \in 1..Len(s) : a[i] = s[i]
  BY DEF Lru
<1>. HIDE DEF a
<1>2. KeysOf(a) = KeysOf(s) \cup {k}
  BY <1>1 DEF KeysOf
<1>3. \A i \in 1..Len(a) : i = Len(s) + 1 \/ (i \in 1..Len(s) /\ i < Len(s) + 1 /\ a[i] \in KeysOf(s))
  BY <1>1 DEF KeysOf
<1>4. \A i, j \in 1..Len(a) : a[i] = a[j] => i = j
  BY <1>1, <1>3 DEF Lru
<1>5. \A i, j \in 1..Len(a) : i <= j => t[a[i]] <= t[a[j]]
  BY <1>1, <1>3 DEF Lru
<1>. QED BY <1>1, <1>2, <1>4, <1>5 DEF Lru, a

-----------------------------------------------------------------------------
(***************************************************************************)
(* The inductive invariant of the cache: the stored keys are in the order  *)
(* of their last use and fit, time stamps are not ahead of the clock, and  *)
(* a key that was lost was lost for a reason.                              *)
(***************************************************************************)
CacheTypeOK ==
  /\ ts \in [Key -> Nat] /\ now \in Nat /\ \A k \in Key : ts[k] <= now
  /\ touched \subseteq Key /\ IsFiniteSet(touched)

CacheInv ==
  /\ CacheTypeOK
  /\ Lru(order, ts) /\ Len(order) <= CacheSize /\ Stored \subseteq touched
  /\ LostOnlyUnderPressure

\* The least element of a set of places.
LEMMA LeastPlace ==
  ASSUME NEW S \in SUBSET Nat, S # {}
  PROVE  Min(S) \in S /\ \A y \in S : Min(S) <= y
<1>0. \A x, y \in Nat : <<y, x>> \in OpToRel(<, Nat) <=> y < x
  BY DEF OpToRel
<1>1. PICK R : IsWellFoundedOn(R, Nat) /\ \A x, y \in Nat : <<y, x>> \in R <=> y < x
  BY <1>0, NatLessThanWellFounded, Zenon
<1>2. \E x \in S : \A y \in S : ~(<<y, x>> \in R)
  BY <1>1, WFMin
<1>3. \E x \in S : \A y \in S : x <= y
  <2>1. PICK x \in S : \A y \in S : ~(<<y, x>> \in R)
    BY <1>2
  <2>2. \A y \in S : ~(y < x)
    BY <1>1, <2>1, Zenon
  <2>. QED BY <2>2
<1>. QED BY <1>3 DEF Min

\* Purging takes expired keys only, from the least recently used on.
LEMMA Purged ==
  ASSUME CacheInv
  PROVE  LET live == _purge_expired(order)
         IN /\ Lru(live, ts) /\ Len(live) <= Len(order) /\ KeysOf(live) \subseteq KeysOf(order)
            /\ \A k \in KeysOf(order) \ KeysOf(live) : TTL > 0 /\ Aged(k)
<1>. DEFINE live == _purge_expired(order)
            alive == {i \in 1 .. Len(order) : ~Aged(order[i])}
<1>1. Lru(order, ts) /\ order \in Seq(Key) /\ Len(order) \in Nat
  BY DEF CacheInv, Lru
<1>2. CASE TTL <= 0
  BY <1>1, <1>2, TTLAssumption DEF _purge_expired
<1>3. CASE TTL > 0 /\ alive = {}
  <2>1. live = <<>>
    BY <1>3, TTLAssumption DEF _purge_expired
  <2>2. KeysOf(live) = {} /\ Lru(live, ts) /\ Len(live) = 0
    BY <2>1 DEF KeysOf, Lru
  <2>. QED BY <1>1, <1>3, <2>2 DEF KeysOf
<1>4. CASE TTL > 0 /\ alive # {}
  <2>. DEFINE m == Min(alive)
  <2>0. alive \in SUBSET Nat /\ alive # {} /\ ~(TTL <= 0)
    BY <1>1, <1>4, TTLAssumption
  <2>2. live = SubSeq(order, m, Len(order))
    BY <2>0 DEF _purge_expired
  <2>. HIDE DEF live, alive
  <2>1. m \in alive /\ \A y \in alive : m <= y
    BY ONLY <2>0, LeastPlace DEF m
  <2>. HIDE DEF m
  <2>6. m \in 1..Len(order) /\ \A i \in 1..Len(order) : i \notin alive => Aged(order[i])
    BY <2>1 DEF alive
  <2>3. /\ Lru(live, ts) /\ Len(live) = Len(order) - m + 1
        /\ KeysOf(live) = {order[i] : i \in m..Len(order)}
    BY <1>1, <2>2, <2>6, LruSuffix
  <2>4. ASSUME NEW i \in 1..Len(order), order[i] \notin KeysOf(live) PROVE Aged(order[i])
    <3>1. ~(m <= i)
      BY <1>1, <2>3, <2>4, <2>6
    <3>. QED BY <1>1, <2>1, <2>6, <3>1
  <2>5. KeysOf(live) \subseteq KeysOf(order)
    <3>1. \A i \in m..Len(order) : i \in 1..Len(order)
      BY <1>1, <2>6
    <3>. QED BY <2>3, <3>1 DEF KeysOf
  <2>7. Len(live) <= Len(order)
    BY <1>1, <2>3, <2>6
  <2>. QED BY <1>4, <2>3, <2>4, <2>5, <2>7 DEF KeysOf, live
<1>. QED BY <1>2, <1>3, <1>4, TTLAssumption

\* A use of a key: it comes last, and its time stamp is the present.
LEMMA Moved ==
  ASSUME CacheTypeOK, NEW s, Lru(s, ts), NEW k \in Key, ts' = [ts EXCEPT ![k] = now]
  PROVE  LET a == move_to_end(s, k)
         IN /\ Lru(a, ts') /\ KeysOf(a) = KeysOf(s) \cup {k}
            /\ Len(a) = IF k \in KeysOf(s) THEN Len(s) ELSE Len(s) + 1
            /\ k = a[Len(a)]
<1>. DEFINE at == {i \in 1 .. Len(s) : s[i] = k}
            r == IF at = {} THEN s ELSE RemoveAt(s, Min(at))
<1>1. s \in Seq(Key) /\ Len(s) \in Nat
  BY DEF Lru
<1>2. /\ Lru(r, ts) /\ KeysOf(r) = KeysOf(s) \ {k} /\ Len(s) \in Nat
      /\ Len(r) = IF k \in KeysOf(s) THEN Len(s) - 1 ELSE Len(s)
  <2>1. CASE at = {}
    BY <1>1, <2>1 DEF KeysOf
  <2>2. CASE at # {}
    <3>1. at \in SUBSET Nat
      OBVIOUS
    <3>. HIDE DEF at
    <3>2. Min(at) \in at
      BY <2>2, <3>1, LeastPlace
    <3>3. PICK m : m = Min(at)
      OBVIOUS
    <3>4. m \in 1..Len(s) /\ s[m] = k /\ r = RemoveAt(s, m)
      BY <2>2, <3>2, <3>3 DEF at
    <3>. HIDE DEF r
    <3>5. Lru(r, ts) /\ Len(r) = Len(s) - 1 /\ KeysOf(r) = KeysOf(s) \ {k}
      BY <3>4, LruWithout
    <3>6. k \in KeysOf(s)
      BY <3>4 DEF KeysOf
    <3>. QED BY <1>1, <3>5, <3>6
  <2>. QED BY <2>1, <2>2
<1>3. move_to_end(s, k) = Append(r, k)
  BY DEF move_to_end
<1>. HIDE DEF r, at
<1>4. KeysOf(r) \subseteq Key
  BY <1>2 DEF Lru, KeysOf
<1>5. ts'[k] = now /\ \A j \in KeysOf(r) : ts'[j] = ts[j] /\ ts[j] <= now
  BY <1>2, <1>4 DEF CacheTypeOK
<1>6. Lru(r, ts')
  <2>1. \A i \in 1..Len(r) : ts'[r[i]] = ts[r[i]]
    BY <1>5 DEF KeysOf
  <2>. QED BY <1>2, <2>1 DEF Lru
<1>7. now <= now
  BY DEF CacheTypeOK
<1>8. /\ Lru(Append(r, k), ts') /\ Len(Append(r, k)) = Len(r) + 1
      /\ KeysOf(Append(r, k)) = KeysOf(r) \cup {k} /\ Append(r, k)[Len(Append(r, k))] = k
  <2>1. PICK u : u = ts'
    OBVIOUS
  <2>2. Lru(r, u) /\ k \notin KeysOf(r) /\ u[k] <= u[k] /\ \A j \in KeysOf(r) : u[j] <= u[k]
    BY <1>2, <1>5, <1>6, <1>7, <2>1
  <2>3. /\ Lru(Append(r, k), u) /\ Len(Append(r, k)) = Len(r) + 1
        /\ KeysOf(Append(r, k)) = KeysOf(r) \cup {k} /\ Append(r, k)[Len(Append(r, k))] = k
    BY ONLY <2>2, k \in Key, LruAppend
  <2>. QED BY <2>1, <2>3
<1>9. Len(Append(r, k)) = IF k \in KeysOf(s) THEN Len(s) ELSE Len(s) + 1
  BY <1>2, <1>8
<1>. QED BY <1>2, <1>3, <1>8, <1>9

\* What keeps a lost key lost for a reason: its time stamp stays, the others'
\* only grow, and so does the set of the keys that were ever added.
LEMMA StillUnderPressure ==
  ASSUME CacheTypeOK, CacheTypeOK', touched \subseteq touched', now <= now',
         \A j \in Key : ts[j] <= ts'[j],
         NEW k \in Key, ts'[k] = ts[k],
         \/ TTL > 0 /\ Aged(k)
         \/ Cardinality({j \in touched \ {k} : ts[j] >= ts[k]}) >= CacheSize
  PROVE  \/ TTL > 0 /\ Aged(k)'
         \/ Cardinality({j \in touched' \ {k} : ts'[j] >= ts'[k]}) >= CacheSize
<1>1. CASE TTL > 0 /\ Aged(k)
  BY <1>1, TTLAssumption DEF CacheTypeOK, Aged
<1>2. CASE Cardinality({j \in touched \ {k} : ts[j] >= ts[k]}) >= CacheSize
  <2>. DEFINE before == {j \in touched \ {k} : ts[j] >= ts[k]}
              after == {j \in touched' \ {k} : ts'[j] >= ts'[k]}
  <2>1. ASSUME NEW j \in touched, ts[j] >= ts[k] PROVE ts'[j] >= ts'[k]
    <3>1. j \in Key /\ ts[j] \in Nat /\ ts'[j] \in Nat /\ ts[k] \in Nat /\ ts[j] <= ts'[j]
      BY DEF CacheTypeOK
    <3>. QED BY <2>1, <3>1
  <2>2. before \subseteq after /\ after \subseteq touched'
    BY <2>1
  <2>. HIDE DEF before, after
  <2>3. IsFiniteSet(after)
    BY <2>2, FS_Subset DEF CacheTypeOK
  <2>4. IsFiniteSet(before) /\ Cardinality(before) <= Cardinality(after)
    BY <2>2, <2>3, FS_Subset
  <2>5. Cardinality(before) \in Nat /\ Cardinality(after) \in Nat /\ CacheSize \in Nat
    BY <2>3, <2>4, FS_CardinalityType, CapacityAssumption
  <2>6. Cardinality(before) >= CacheSize
    BY <1>2 DEF before
  <2>7. Cardinality(after) >= CacheSize
    BY <2>4, <2>5, <2>6
  <2>. QED BY <2>7 DEF after
<1>. QED BY <1>1, <1>2

\* A step that uses the keys of U, and loses only keys that had expired or that
\* enough others were used after.
LEMMA CacheStep ==
  ASSUME CacheInv, NEW U \in SUBSET Key, now \in Nat, UNCHANGED now,
         ts' = [j \in Key |-> IF j \in U THEN now ELSE ts[j]],
         touched' = touched \cup U, IsFiniteSet(U),
         Lru(order, ts)', Len(order') <= CacheSize,
         U \subseteq KeysOf(order'), KeysOf(order') \subseteq KeysOf(order) \cup U,
         \A k \in KeysOf(order) \ KeysOf(order') :
           \/ TTL > 0 /\ Aged(k)
           \/ Cardinality({j \in touched' \ {k} : ts'[j] >= ts'[k]}) >= CacheSize
  PROVE  CacheInv'
<1>1. CacheTypeOK
  BY DEF CacheInv
<1>2. CacheTypeOK'
  <2>1. ts' \in [Key -> Nat] /\ \A k \in Key : ts'[k] <= now
    BY <1>1 DEF CacheTypeOK
  <2>2. IsFiniteSet(touched')
    BY <1>1, FS_Union DEF CacheTypeOK
  <2>. QED BY <1>1, <2>1, <2>2 DEF CacheTypeOK
<1>3. Stored = KeysOf(order)
  BY KeysCounted DEF CacheInv, Stored
<1>4. Stored' = KeysOf(order')
  <2>1. PICK s, u : s = order' /\ u = ts'
    OBVIOUS
  <2>2. Lru(s, u)
    BY <2>1
  <2>3. ToSet(s) = KeysOf(s)
    BY ONLY <2>2, KeysCounted
  <2>. QED BY <2>1, <2>3 DEF Stored
<1>5. Stored' \subseteq touched'
  BY <1>3, <1>4 DEF CacheInv
<1>6. LostOnlyUnderPressure'
  <2>. SUFFICES ASSUME NEW k \in touched', k \notin Stored'
                PROVE  \/ TTL > 0 /\ Aged(k)'
                       \/ Cardinality({j \in touched' \ {k} : ts'[j] >= ts'[k]}) >= CacheSize
    BY DEF LostOnlyUnderPressure
  <2>1. k \in Key /\ k \notin U /\ ts'[k] = ts[k] /\ k \in touched
    BY <1>2, <1>4 DEF CacheTypeOK
  <2>2. \A j \in Key : ts[j] <= ts'[j]
    BY <1>1 DEF CacheTypeOK
  <2>3. CASE k \in KeysOf(order)
    <3>1. Aged(k) => Aged(k)'
      BY <2>1 DEF Aged
    <3>. QED BY <1>4, <2>3, <3>1
  <2>4. CASE k \notin KeysOf(order)
    <3>1. \/ TTL > 0 /\ Aged(k)
          \/ Cardinality({j \in touched \ {k} : ts[j] >= ts[k]}) >= CacheSize
      BY <1>3, <2>1, <2>4 DEF CacheInv, LostOnlyUnderPressure
    <3>2. touched \subseteq touched' /\ now <= now'
      OBVIOUS
    <3>. QED BY ONLY <1>1, <1>2, <2>1, <2>2, <3>1, <3>2, StillUnderPressure
  <2>. QED BY <2>3, <2>4
<1>. QED BY <1>2, <1>5, <1>6 DEF CacheInv

\* A lookup: what it finds it moves, and what it does not find it leaves alone.
LEMMA ContainsStep ==
  ASSUME CacheInv, NEW k \in Key, contains(k)
  PROVE  CacheInv' /\ KeysOf(order') \subseteq KeysOf(order)
<1>1. PICK live : live = _purge_expired(order)
  OBVIOUS
<1>2. /\ Lru(live, ts) /\ Len(live) <= Len(order) /\ KeysOf(live) \subseteq KeysOf(order)
      /\ \A j \in KeysOf(order) \ KeysOf(live) : TTL > 0 /\ Aged(j)
      /\ ToSet(live) = KeysOf(live) /\ Len(live) \in Nat
  BY <1>1, Purged, KeysCounted
<1>3. CacheTypeOK /\ Lru(order, ts) /\ Len(order) <= CacheSize /\ Len(order) \in Nat /\ Stored = KeysOf(order)
  BY KeysCounted DEF CacheInv, Stored
<1>4. now \in Nat /\ ts \in [Key -> Nat] /\ UNCHANGED <<now, touched>>
  BY <1>3 DEF CacheTypeOK, contains
<1>5. CASE k \in KeysOf(live)
  <2>1. order' = move_to_end(live, k) /\ ts' = [ts EXCEPT ![k] = now]
    BY <1>1, <1>2, <1>5 DEF contains
  <2>2. Lru(order', ts') /\ KeysOf(order') = KeysOf(live) \cup {k} /\ Len(order') = Len(live)
    BY <1>2, <1>3, <1>5, <2>1, Moved
  <2>3. KeysOf(order') = KeysOf(live)
    BY <1>5, <2>2
  <2>4. ts' = [j \in Key |-> IF j \in {k} THEN now ELSE ts[j]]
    BY <1>4, <2>1
  <2>5. touched' = touched \cup {k} /\ {k} \in SUBSET Key /\ IsFiniteSet({k})
    BY <1>2, <1>3, <1>4, <1>5, FS_Singleton DEF CacheInv
  <2>6. Len(order') <= CacheSize
    BY <1>2, <1>3, <2>2, CapacityAssumption
  <2>7. /\ {k} \subseteq KeysOf(order') /\ KeysOf(order') \subseteq KeysOf(order) \cup {k}
        /\ KeysOf(order') \subseteq KeysOf(order)
    BY <1>2, <1>5, <2>3
  <2>8. \A j \in KeysOf(order) \ KeysOf(order') : TTL > 0 /\ Aged(j)
    BY <1>2, <2>3
  <2>9. CacheInv'
    BY <1>4, <2>2, <2>4, <2>5, <2>6, <2>7, <2>8, CacheStep
  <2>. QED BY <2>7, <2>9
<1>6. CASE k \notin KeysOf(live)
  <2>1. order' = live /\ ts' = ts
    BY <1>1, <1>2, <1>6 DEF contains
  <2>2. ts' = [j \in Key |-> IF j \in {} THEN now ELSE ts[j]]
    BY <1>4, <2>1
  <2>3. touched' = touched \cup {} /\ {} \in SUBSET Key /\ IsFiniteSet({})
    BY <1>4, FS_EmptySet
  <2>4. Len(order') <= CacheSize
    BY <1>2, <1>3, <2>1, CapacityAssumption
  <2>5. {} \subseteq KeysOf(order') /\ KeysOf(order') \subseteq KeysOf(order) \cup {}
    BY <1>2, <2>1
  <2>6. \A j \in KeysOf(order) \ KeysOf(order') : TTL > 0 /\ Aged(j)
    BY <1>2, <2>1
  <2>7. Lru(order', ts')
    BY <1>2, <2>1
  <2>8. CacheInv'
    BY <1>4, <2>2, <2>3, <2>4, <2>5, <2>6, <2>7, CacheStep
  <2>. QED BY <1>2, <2>1, <2>8
<1>. QED BY <1>5, <1>6

\* The least recently used key is evicted when there is one too many: all the
\* others were used no earlier.
LEMMA AddStep ==
  ASSUME CacheInv, NEW k \in Key, add(k)
  PROVE  CacheInv' /\ k \in KeysOf(order') /\ KeysOf(order') \subseteq KeysOf(order) \cup {k}
<1>1. PICK live, a : live = _purge_expired(order) /\ a = move_to_end(live, k)
  OBVIOUS
<1>2. /\ Lru(live, ts) /\ Len(live) <= Len(order) /\ KeysOf(live) \subseteq KeysOf(order)
      /\ \A j \in KeysOf(order) \ KeysOf(live) : TTL > 0 /\ Aged(j)
      /\ Len(live) \in Nat
  BY <1>1, Purged, KeysCounted
<1>3. CacheTypeOK /\ Len(order) <= CacheSize /\ Len(order) \in Nat /\ Stored = KeysOf(order)
  BY KeysCounted DEF CacheInv, Stored
<1>4. /\ now \in Nat /\ ts \in [Key -> Nat] /\ UNCHANGED now /\ touched' = touched \cup {k}
      /\ ts' = [ts EXCEPT ![k] = now] /\ order' = Evict(a)
  BY <1>1, <1>3 DEF CacheTypeOK, add
<1>5. /\ Lru(a, ts') /\ KeysOf(a) = KeysOf(live) \cup {k} /\ k = a[Len(a)]
      /\ Len(a) = IF k \in KeysOf(live) THEN Len(live) ELSE Len(live) + 1
  BY <1>1, <1>2, <1>3, <1>4, Moved
<1>6. Len(a) \in Nat /\ Len(a) <= CacheSize + 1 /\ CacheSize \in Nat /\ CacheSize >= 1
  BY <1>2, <1>3, <1>5, CapacityAssumption
<1>7. ts' = [j \in Key |-> IF j \in {k} THEN now ELSE ts[j]] /\ {k} \in SUBSET Key /\ IsFiniteSet({k})
  BY <1>4, FS_Singleton
<1>8. CASE Len(a) <= CacheSize
  <2>1. order' = a
    BY <1>4, <1>6, <1>8 DEF Evict
  <2>2. /\ {k} \subseteq KeysOf(order') /\ KeysOf(order') \subseteq KeysOf(order) \cup {k}
        /\ \A j \in KeysOf(order) \ KeysOf(order') : TTL > 0 /\ Aged(j)
        /\ Lru(order', ts') /\ Len(order') <= CacheSize
    BY <1>2, <1>5, <1>8, <2>1
  <2>3. CacheInv'
    BY <1>4, <1>7, <2>2, CacheStep
  <2>. QED BY <2>2, <2>3
<1>9. CASE Len(a) = CacheSize + 1
  <2>1. order' = SubSeq(a, 2, Len(a)) /\ 2 \in 1..Len(a)
    BY <1>4, <1>6, <1>9 DEF Evict
  <2>2. PICK u : u = ts'
    OBVIOUS
  <2>3. Lru(a, u)
    BY <1>5, <2>2
  <2>4. /\ Lru(order', u) /\ Len(order') = Len(a) - 2 + 1
        /\ KeysOf(order') = {a[i] : i \in 2..Len(a)}
    BY ONLY <2>1, <2>3, LruSuffix
  <2>5. Len(order') = CacheSize /\ Len(order') <= CacheSize
    BY <1>6, <1>9, <2>4
  <2>6. {k} \subseteq KeysOf(order') /\ KeysOf(order') \subseteq KeysOf(a)
    <3>1. Len(a) \in 2..Len(a) /\ \A i \in 2..Len(a) : i \in 1..Len(a)
      BY <1>6, <1>9
    <3>. QED BY <1>5, <2>4, <3>1 DEF KeysOf
  <2>7. KeysOf(order') \subseteq KeysOf(order) \cup {k}
    BY <1>2, <1>5, <2>6
  <2>8. \A j \in KeysOf(a) \ KeysOf(order') : j = a[1]
    <3>1. \A i \in 1..Len(a) : i = 1 \/ i \in 2..Len(a)
      BY <1>6
    <3>. QED BY <2>4, <3>1 DEF KeysOf
  <2>9. Cardinality({j \in touched' \ {a[1]} : ts'[j] >= ts'[a[1]]}) >= CacheSize
    <3>. DEFINE P == {j \in touched' \ {a[1]} : ts'[j] >= ts'[a[1]]}
    <3>1. \A i \in 1..Len(a) : a[i] \in Key
      BY <2>3 DEF Lru
    <3>2. ASSUME NEW i \in 2..Len(a) PROVE a[i] \in P
      <4>1. i \in 1..Len(a) /\ 1 \in 1..Len(a) /\ 1 <= i /\ i # 1
        BY <1>6
      <4>2. a[i] # a[1] /\ u[a[1]] <= u[a[i]]
        BY <2>3, <4>1 DEF Lru
      <4>3. a[i] \in touched'
        BY <1>2, <1>3, <1>4, <1>5, <4>1 DEF CacheInv, KeysOf
      <4>4. ts'[a[i]] \in Nat /\ ts'[a[1]] \in Nat
        BY <1>4, <3>1, <4>1
      <4>. QED BY <2>2, <4>2, <4>3, <4>4
    <3>3. KeysOf(order') \subseteq P /\ P \subseteq touched'
      BY <2>4, <3>2
    <3>. HIDE DEF P
    <3>4. IsFiniteSet(P)
      <4>1. IsFiniteSet(touched')
        BY <1>3, <1>4, FS_AddElement DEF CacheTypeOK
      <4>. QED BY <3>3, <4>1, FS_Subset
    <3>5. Cardinality(KeysOf(order')) = CacheSize
      <4>1. PICK s : s = order'
        OBVIOUS
      <4>2. Lru(s, u) /\ Len(s) = CacheSize
        BY <2>4, <2>5, <4>1
      <4>3. Cardinality(KeysOf(s)) = Len(s)
        BY ONLY <4>2, KeysCounted
      <4>. QED BY <4>1, <4>2, <4>3
    <3>6. Cardinality(P) >= CacheSize
      BY <1>6, <3>3, <3>4, <3>5, FS_Subset, FS_CardinalityType
    <3>. QED BY <3>6 DEF P
  <2>10. \A j \in KeysOf(order) \ KeysOf(order') :
           \/ TTL > 0 /\ Aged(j)
           \/ Cardinality({i \in touched' \ {j} : ts'[i] >= ts'[j]}) >= CacheSize
    <3>. SUFFICES ASSUME NEW j \in KeysOf(order), j \notin KeysOf(order')
                  PROVE  \/ TTL > 0 /\ Aged(j)
                         \/ Cardinality({i \in touched' \ {j} : ts'[i] >= ts'[j]}) >= CacheSize
      OBVIOUS
    <3>1. CASE j \in KeysOf(live)
      <4>1. j = a[1]
        BY <1>5, <2>8, <3>1
      <4>. QED BY <2>9, <4>1
    <3>2. CASE j \notin KeysOf(live)
      BY <1>2, <3>2
    <3>. QED BY <3>1, <3>2
  <2>11. Lru(order', ts')
    BY <2>2, <2>4
  <2>12. CacheInv'
    BY ONLY CacheInv, <1>4, <1>7, <2>5, <2>6, <2>7, <2>10, <2>11, CacheStep
  <2>. QED BY <2>6, <2>7, <2>12
<1>. QED BY <1>6, <1>8, <1>9

\* Time passes, or nothing happens.
LEMMA TickStep == ASSUME CacheInv, CacheTick \/ UNCHANGED cacheVars PROVE CacheInv' /\ UNCHANGED Stored
<1>1. UNCHANGED <<order, ts, touched>> /\ now \in Nat /\ now' \in Nat /\ now <= now'
  BY DEF CacheTick, cacheVars, CacheInv, CacheTypeOK
<1>2. CacheTypeOK /\ CacheTypeOK'
  BY <1>1 DEF CacheInv, CacheTypeOK
<1>3. UNCHANGED Stored
  BY <1>1 DEF Stored
<1>4. LostOnlyUnderPressure'
  <2>. SUFFICES ASSUME NEW k \in touched', k \notin Stored'
                PROVE  \/ TTL > 0 /\ Aged(k)'
                       \/ Cardinality({j \in touched' \ {k} : ts'[j] >= ts'[k]}) >= CacheSize
    BY DEF LostOnlyUnderPressure
  <2>1. k \in Key /\ ts'[k] = ts[k] /\ touched \subseteq touched' /\ now <= now'
    BY <1>1, <1>2 DEF CacheTypeOK
  <2>2. \A j \in Key : ts[j] <= ts'[j]
    BY <1>1, <1>2 DEF CacheTypeOK
  <2>3. \/ TTL > 0 /\ Aged(k)
        \/ Cardinality({j \in touched \ {k} : ts[j] >= ts[k]}) >= CacheSize
    BY <1>1, <1>3 DEF CacheInv, LostOnlyUnderPressure
  <2>. QED BY ONLY <1>2, <2>1, <2>2, <2>3, StillUnderPressure
<1>. QED BY <1>1, <1>2, <1>3, <1>4 DEF CacheInv, Lru

\* At the start the cache is empty.
LEMMA CacheStart == ASSUME CacheInit PROVE CacheInv /\ Stored = {}
<1>1. Lru(order, ts) /\ Len(order) = 0 /\ Stored = {}
  BY DEF CacheInit, Lru, Stored, ToSet
<1>2. CacheTypeOK
  BY FS_EmptySet DEF CacheInit, CacheTypeOK
<1>. QED BY <1>1, <1>2, CapacityAssumption DEF CacheInv, CacheInit, LostOnlyUnderPressure

\* Every step of the cache keeps the invariant.
LEMMA CacheSteps == ASSUME CacheInv, [CacheNext]_cacheVars PROVE CacheInv'
BY TickStep, ContainsStep, AddStep DEF CacheNext

\* For every capacity, lifetime and set of keys: an added key that is gone although
\* it was used at most ttl_seconds ago was pushed out by at least as many later used
\* keys as the cache has room for (_LRUSet.contains, add, _purge_expired).
THEOREM LostUnderPressure == CacheSpec => []LostOnlyUnderPressure
<1>1. CacheInv => LostOnlyUnderPressure
  BY DEF CacheInv
<1>. QED BY CacheStart, CacheSteps, <1>1, PTL DEF CacheSpec

\* Every step of the cache is one of the set's, or leaves it alone.
LEMMA CacheRefines == ASSUME CacheInv, [CacheNext]_cacheVars PROVE [Abstract!Next]_Stored
<1>0. CacheInv'
  BY CacheSteps
<1>1. Stored = KeysOf(order)
  BY KeysCounted DEF CacheInv, Stored
<1>2. PICK s, u : s = order' /\ u = ts'
  OBVIOUS
<1>3. Lru(s, u) /\ Len(s) <= CacheSize
  BY <1>0, <1>2 DEF CacheInv
<1>4. ToSet(s) = KeysOf(s) /\ Cardinality(KeysOf(s)) = Len(s)
  BY ONLY <1>3, KeysCounted
<1>5. Stored' = KeysOf(order') /\ Cardinality(Stored') <= CacheSize
  BY <1>2, <1>3, <1>4 DEF Stored
<1>6. CASE CacheTick \/ UNCHANGED cacheVars
  BY <1>6, TickStep
<1>7. ASSUME NEW k \in Key, contains(k) PROVE Abstract!Forget
  BY <1>1, <1>5, <1>7, ContainsStep DEF Abstract!Forget
<1>8. ASSUME NEW k \in Key, add(k) PROVE Abstract!Add(k)
  <2>1. k \in Stored' /\ Stored' \subseteq Stored \cup {k}
    BY <1>1, <1>5, <1>8, AddStep
  <2>2. PICK kept : kept = Stored' \cap Stored
    OBVIOUS
  <2>3. kept \in SUBSET Stored /\ Stored' = kept \cup {k}
    BY <2>1, <2>2
  <2>4. \E c \in SUBSET Stored : Stored' = c \cup {k} /\ Cardinality(Stored') <= CacheSize
    BY <1>5, <2>3, Zenon
  <2>5. Cardinality(Stored') = Abstract!Cardinality(Stored')
    BY Zenon DEF Cardinality, Abstract!Cardinality, IsFiniteSet, Abstract!IsFiniteSet
  <2>. QED BY <2>4, <2>5, Zenon DEF Abstract!Add
<1>. QED BY <1>6, <1>7, <1>8 DEF CacheNext, Abstract!Next

\* _LRUSet implements the bounded set that the run tracker relies on, for every
\* capacity, lifetime and set of keys: it holds a key right after it was added,
\* never more than max_items of them, and forgets without ever inventing one
\* (_LRUSet.contains, add).
THEOREM CacheIsASet == CacheSpec => ImplementsSet
<1>1. CacheInit => Abstract!Init
  BY CacheStart DEF Abstract!Init
<1>2. CacheInv /\ [CacheNext]_cacheVars => [Abstract!Next]_Stored
  BY CacheRefines
<1>. QED BY CacheStart, CacheSteps, <1>1, <1>2, PTL DEF CacheSpec, ImplementsSet, Abstract!Spec

-----------------------------------------------------------------------------
(***************************************************************************)
(* The bandit model and the decision records.  A forwarder that has found  *)
(* a record ("close") stands for an execution that is not counted yet, so  *)
(* the invariant counts such forwarders and the records they will close.   *)
(***************************************************************************)
OpenRecords == {i \in DOMAIN records : records[i] = "open"}
ClosedRecords == {i \in DOMAIN records : records[i] = "closed"}
Closing == {f \in Forwarders : fwd[f].pc = "close"}
Taken == ClosedRecords \cup {fwd[f].i : f \in Closing}

BanditTypeOK ==
  /\ records \in Seq({"open", "closed"})
  /\ model \in Nat /\ executions \in Nat
  /\ fwd \in [Forwarders -> [pc : {"idle", "close", "reward"}, i : Nat, n : Nat]]
  /\ \A f \in Closing : fwd[f].i \in DOMAIN records

BanditInv ==
  /\ BanditTypeOK
  /\ model + Cardinality(Closing) <= executions
  /\ \A f \in Forwarders : fwd[f].pc = "reward" => fwd[f].n + Cardinality(Closing) <= executions
  /\ Cardinality(Taken) <= executions

\* The greatest element of a bounded set of numbers.
LEMMA GreatestOf ==
  ASSUME NEW b \in Nat, NEW S \in SUBSET (0..b), S # {}
  PROVE  Max(S) \in S /\ \A y \in S : Max(S) >= y
<1>. DEFINE T == {b - x : x \in S}
<1>0. \A x \in S : x \in Nat /\ b - x \in Nat
  OBVIOUS
<1>1. T \in SUBSET Nat /\ T # {}
  BY <1>0
<1>2. Min(T) \in T /\ \A y \in T : Min(T) <= y
  BY ONLY <1>1, LeastPlace
<1>3. PICK x \in S : Min(T) = b - x
  BY <1>2
<1>4. \A y \in S : x >= y
  BY <1>2, <1>3
<1>. QED BY <1>4 DEF Max

\* What is counted is finite.
LEMMA BanditFinite ==
  ASSUME BanditTypeOK
  PROVE  /\ IsFiniteSet(Closing) /\ Cardinality(Closing) \in Nat
         /\ Taken \subseteq DOMAIN records /\ IsFiniteSet(Taken) /\ Cardinality(Taken) \in Nat
         /\ Len(records) \in Nat /\ DOMAIN records = 1..Len(records)
<1>1. IsFiniteSet(Closing) /\ Cardinality(Closing) \in Nat
  BY LearnAssumption, FS_Subset, FS_CardinalityType DEF Closing
<1>2. Taken \subseteq DOMAIN records
  BY DEF BanditTypeOK, Taken, ClosedRecords
<1>3. Len(records) \in Nat /\ DOMAIN records = 1..Len(records)
  BY DEF BanditTypeOK
<1>4. IsFiniteSet(1..Len(records))
  BY <1>3, FS_Interval
<1>5. IsFiniteSet(Taken) /\ Cardinality(Taken) \in Nat
  BY <1>2, <1>3, <1>4, FS_Subset, FS_CardinalityType
<1>. QED BY <1>1, <1>2, <1>3, <1>5

LEMMA BanditStart == ASSUME LearnInit PROVE BanditInv
<1>1. BanditTypeOK /\ Closing = {} /\ Taken = {}
  BY DEF LearnInit, BanditTypeOK, Closing, Taken, ClosedRecords
<1>. QED BY <1>1, FS_EmptySet DEF BanditInv, LearnInit

\* A new open record changes nothing that is counted.
LEMMA BanditSave == ASSUME BanditInv, SaveDecision PROVE BanditInv'
<1>1. /\ BanditTypeOK /\ records' = Append(records, "open") /\ UNCHANGED <<model, fwd, executions>>
  BY DEF BanditInv, SaveDecision
<1>2. /\ Len(records) \in Nat /\ DOMAIN records = 1..Len(records)
      /\ records' \in Seq({"open", "closed"}) /\ Len(records') = Len(records) + 1
      /\ DOMAIN records' = 1..Len(records')
      /\ \A i \in 1..Len(records) : records'[i] = records[i]
      /\ records'[Len(records) + 1] = "open"
  BY <1>1 DEF BanditTypeOK
<1>3. Closing' = Closing
  BY <1>1 DEF Closing
<1>4. ClosedRecords' = ClosedRecords
  BY <1>2 DEF ClosedRecords
<1>5. Taken' = Taken
  BY <1>1, <1>3, <1>4 DEF Taken
<1>6. BanditTypeOK'
  BY <1>1, <1>2, <1>3 DEF BanditTypeOK
<1>. QED BY <1>1, <1>3, <1>5, <1>6 DEF BanditInv

\* An execution has ended: one more is counted, and at most one record more is taken.
LEMMA BanditFind ==
  ASSUME BanditInv, NEW f \in Forwarders, FindDecision(f) PROVE BanditInv'
<1>1. /\ BanditTypeOK /\ UNCHANGED <<records, model>> /\ executions' = executions + 1
      /\ fwd[f].pc = "idle"
      /\ fwd' = [fwd EXCEPT ![f] = IF OpenRecords = {} THEN fwd[f]
                                   ELSE [pc |-> "close", i |-> Max(OpenRecords), n |-> 0]]
  BY DEF BanditInv, FindDecision, OpenRecords
<1>2. /\ IsFiniteSet(Closing) /\ Cardinality(Closing) \in Nat
      /\ Taken \subseteq DOMAIN records /\ IsFiniteSet(Taken) /\ Cardinality(Taken) \in Nat
      /\ Len(records) \in Nat /\ DOMAIN records = 1..Len(records)
  BY <1>1, BanditFinite
<1>3. executions \in Nat /\ model \in Nat /\ fwd \in [Forwarders -> [pc : {"idle", "close", "reward"}, i : Nat, n : Nat]]
  BY <1>1 DEF BanditTypeOK
<1>4. CASE OpenRecords = {}
  <2>1. fwd' = fwd
    BY <1>1, <1>3, <1>4
  <2>2. Closing' = Closing /\ Taken' = Taken /\ BanditTypeOK'
    BY <1>1, <2>1 DEF Closing, Taken, ClosedRecords, BanditTypeOK
  <2>. QED BY <1>1, <1>2, <1>3, <2>1, <2>2 DEF BanditInv
<1>5. CASE OpenRecords # {}
  <2>1. OpenRecords \subseteq DOMAIN records /\ OpenRecords \in SUBSET (0..Len(records))
    BY <1>2 DEF OpenRecords
  <2>2. Max(OpenRecords) \in OpenRecords
    BY ONLY <1>2, <1>5, <2>1, GreatestOf
  <2>3. PICK m : m = Max(OpenRecords) /\ m \in DOMAIN records /\ m \in Nat
    BY <1>2, <2>1, <2>2
  <2>4. /\ fwd' \in [Forwarders -> [pc : {"idle", "close", "reward"}, i : Nat, n : Nat]]
        /\ fwd'[f].pc = "close" /\ fwd'[f].i = m
        /\ \A g \in Forwarders : g # f => fwd'[g] = fwd[g]
    BY <1>1, <1>3, <1>5, <2>3
  <2>5. Closing' = Closing \cup {f} /\ f \notin Closing
    BY <1>1, <2>4 DEF Closing
  <2>6. Cardinality(Closing') = Cardinality(Closing) + 1
    BY <1>2, <2>5, FS_AddElement
  <2>7. Taken' = Taken \cup {m}
    <3>1. ClosedRecords' = ClosedRecords
      BY <1>1 DEF ClosedRecords
    <3>2. \A g \in Closing : fwd'[g].i = fwd[g].i
      BY <2>4, <2>5 DEF Closing
    <3>3. {fwd'[g].i : g \in Closing'} = {fwd[g].i : g \in Closing} \cup {m}
      BY <2>4, <2>5, <3>2
    <3>. QED BY <3>1, <3>3 DEF Taken
  <2>8. Cardinality(Taken') <= Cardinality(Taken) + 1 /\ Cardinality(Taken') \in Nat
    <3>1. /\ IsFiniteSet(Taken \cup {m})
          /\ Cardinality(Taken \cup {m}) = IF m \in Taken THEN Cardinality(Taken) ELSE Cardinality(Taken) + 1
      BY <1>2, FS_AddElement
    <3>. QED BY <1>2, <2>7, <3>1
  <2>9. BanditTypeOK'
    <3>1. \A g \in Closing' : fwd'[g].i \in DOMAIN records
      BY <1>1, <2>3, <2>4, <2>5 DEF BanditTypeOK, Closing
    <3>. QED BY <1>1, <1>3, <2>4, <3>1 DEF BanditTypeOK
  <2>10. Cardinality(Taken) <= executions /\ model + Cardinality(Closing) <= executions
    BY DEF BanditInv
  <2>11. \A g \in Forwarders : fwd'[g].pc = "reward" => fwd'[g].n + Cardinality(Closing') <= executions'
    <3>. SUFFICES ASSUME NEW g \in Forwarders, fwd'[g].pc = "reward"
                  PROVE  fwd'[g].n + Cardinality(Closing') <= executions'
      OBVIOUS
    <3>1. fwd'[g] = fwd[g] /\ fwd[g].n \in Nat
      BY <1>3, <2>4
    <3>2. fwd[g].n + Cardinality(Closing) <= executions
      BY <3>1 DEF BanditInv
    <3>. QED BY <1>1, <1>2, <1>3, <2>6, <3>1, <3>2
  <2>. QED BY <1>1, <1>2, <1>3, <2>6, <2>8, <2>9, <2>10, <2>11, SMTT(30) DEF BanditInv
<1>. QED BY <1>4, <1>5

\* The record is closed and the model loaded: the execution is in the copy now.
LEMMA BanditClose ==
  ASSUME BanditInv, NEW f \in Forwarders, CloseDecision(f) PROVE BanditInv'
<1>1. /\ BanditTypeOK /\ UNCHANGED <<model, executions>> /\ fwd[f].pc = "close"
      /\ records' = [records EXCEPT ![fwd[f].i] = "closed"]
      /\ fwd' = [fwd EXCEPT ![f] = [pc |-> "reward", i |-> fwd[f].i, n |-> model + 1]]
  BY DEF BanditInv, CloseDecision
<1>2. /\ IsFiniteSet(Closing) /\ Cardinality(Closing) \in Nat
      /\ Taken \subseteq DOMAIN records /\ IsFiniteSet(Taken) /\ Cardinality(Taken) \in Nat
      /\ Len(records) \in Nat /\ DOMAIN records = 1..Len(records)
  BY <1>1, BanditFinite
<1>3. executions \in Nat /\ model \in Nat /\ fwd \in [Forwarders -> [pc : {"idle", "close", "reward"}, i : Nat, n : Nat]]
  BY <1>1 DEF BanditTypeOK
<1>4. PICK m : m = fwd[f].i /\ m \in DOMAIN records /\ m \in Nat
  BY <1>1, <1>2 DEF BanditTypeOK, Closing
<1>5. /\ records' \in Seq({"open", "closed"}) /\ DOMAIN records' = DOMAIN records
      /\ records'[m] = "closed" /\ \A i \in DOMAIN records : i # m => records'[i] = records[i]
  BY <1>1, <1>2, <1>4 DEF BanditTypeOK
<1>6. /\ fwd' \in [Forwarders -> [pc : {"idle", "close", "reward"}, i : Nat, n : Nat]]
      /\ fwd'[f].pc = "reward" /\ fwd'[f].n = model + 1
      /\ \A g \in Forwarders : g # f => fwd'[g] = fwd[g]
  BY <1>1, <1>3
<1>7. Closing' = Closing \ {f} /\ f \in Closing
  BY <1>1, <1>6 DEF Closing
<1>8. Cardinality(Closing') = Cardinality(Closing) - 1
  BY <1>2, <1>7, FS_RemoveElement
<1>9. Taken' \subseteq Taken
  <2>1. ClosedRecords' \subseteq ClosedRecords \cup {m}
    BY <1>5 DEF ClosedRecords
  <2>2. m \in Taken
    BY <1>4, <1>7 DEF Taken
  <2>3. \A g \in Closing' : g \in Closing /\ fwd'[g].i = fwd[g].i
    BY <1>6, <1>7 DEF Closing
  <2>4. {fwd'[g].i : g \in Closing'} \subseteq Taken
    BY <2>3 DEF Taken
  <2>. QED BY <2>1, <2>2, <2>4 DEF Taken
<1>10. Cardinality(Taken') <= Cardinality(Taken) /\ Cardinality(Taken') \in Nat
  BY <1>2, <1>9, FS_Subset, FS_CardinalityType
<1>11. BanditTypeOK'
  <2>1. \A g \in Closing' : fwd'[g].i \in DOMAIN records'
    BY <1>1, <1>5, <1>6, <1>7 DEF BanditTypeOK, Closing
  <2>. QED BY <1>1, <1>3, <1>5, <1>6, <2>1 DEF BanditTypeOK
<1>12. Cardinality(Taken) <= executions /\ model + Cardinality(Closing) <= executions
  BY DEF BanditInv
<1>13. \A g \in Forwarders : fwd'[g].pc = "reward" => fwd'[g].n + Cardinality(Closing') <= executions'
  <2>. SUFFICES ASSUME NEW g \in Forwarders, fwd'[g].pc = "reward"
                PROVE  fwd'[g].n + Cardinality(Closing') <= executions'
    OBVIOUS
  <2>1. CASE g = f
    BY <1>1, <1>2, <1>3, <1>6, <1>8, <1>12, <2>1
  <2>2. CASE g # f
    <3>1. fwd'[g] = fwd[g] /\ fwd[g].n \in Nat
      BY <1>3, <1>6, <2>2
    <3>2. fwd[g].n + Cardinality(Closing) <= executions
      BY <3>1 DEF BanditInv
    <3>. QED BY <1>1, <1>2, <1>3, <1>8, <3>1, <3>2
  <2>. QED BY <2>1, <2>2
<1>. QED BY <1>1, <1>2, <1>3, <1>8, <1>10, <1>11, <1>12, <1>13 DEF BanditInv

\* The copy is stored, over whatever another forwarder has stored since.
LEMMA BanditReward ==
  ASSUME BanditInv, NEW f \in Forwarders, RecordReward(f) PROVE BanditInv'
<1>1. /\ BanditTypeOK /\ UNCHANGED <<records, executions>> /\ fwd[f].pc = "reward"
      /\ model' = fwd[f].n
      /\ fwd' = [fwd EXCEPT ![f] = [pc |-> "idle", i |-> 0, n |-> 0]]
  BY DEF BanditInv, RecordReward
<1>2. executions \in Nat /\ model \in Nat /\ fwd \in [Forwarders -> [pc : {"idle", "close", "reward"}, i : Nat, n : Nat]]
  BY <1>1 DEF BanditTypeOK
<1>3. /\ fwd' \in [Forwarders -> [pc : {"idle", "close", "reward"}, i : Nat, n : Nat]]
      /\ fwd'[f].pc = "idle" /\ \A g \in Forwarders : g # f => fwd'[g] = fwd[g]
  BY <1>1, <1>2
<1>4. Closing' = Closing /\ \A g \in Closing : fwd'[g] = fwd[g]
  BY <1>1, <1>3 DEF Closing
<1>5. Taken' = Taken
  <2>1. ClosedRecords' = ClosedRecords
    BY <1>1 DEF ClosedRecords
  <2>2. {fwd'[g].i : g \in Closing'} = {fwd[g].i : g \in Closing}
    BY <1>4
  <2>. QED BY <2>1, <2>2 DEF Taken
<1>6. BanditTypeOK'
  <2>1. \A g \in Closing' : fwd'[g].i \in DOMAIN records
    BY <1>1, <1>4 DEF BanditTypeOK
  <2>. QED BY <1>1, <1>2, <1>3, <2>1 DEF BanditTypeOK
<1>7. fwd[f].n + Cardinality(Closing) <= executions
  BY <1>1 DEF BanditInv
<1>8. \A g \in Forwarders : fwd'[g].pc = "reward" => fwd'[g].n + Cardinality(Closing') <= executions'
  BY <1>1, <1>3, <1>4 DEF BanditInv
<1>. QED BY <1>1, <1>4, <1>5, <1>6, <1>7, <1>8 DEF BanditInv

LEMMA BanditSteps == ASSUME BanditInv, [LearnNext]_learnVars PROVE BanditInv'
<1>1. CASE UNCHANGED banditVars
  BY <1>1 DEF banditVars, BanditInv, BanditTypeOK, Closing, Taken, ClosedRecords
<1>2. CASE SaveDecision
  BY <1>2, BanditSave
<1>3. ASSUME NEW f \in Forwarders, FindDecision(f) \/ CloseDecision(f) \/ RecordReward(f)
      PROVE  BanditInv'
  BY <1>3, BanditFind, BanditClose, BanditReward
<1>4. ASSUME NEW e \in Engines,
             \/ DepositRead(e) \/ DepositWrite(e) \/ FeedbackWrite(e) \/ DecayRead(e) \/ DecayWrite(e)
             \/ \E outcome \in Kinds \cup {"success", "unknown"} : FeedbackRead(e, outcome)
      PROVE  UNCHANGED banditVars
  BY <1>4 DEF DepositRead, DepositWrite, FeedbackWrite, DecayRead, DecayWrite, FeedbackRead, banditVars
<1>5. SeedPath \/ (\E i \in DOMAIN markers : Expiry(i)) \/ UNCHANGED learnVars => UNCHANGED banditVars
  BY DEF SeedPath, Expiry, learnVars, banditVars
<1>. QED BY <1>1, <1>2, <1>3, <1>4, <1>5 DEF LearnNext

\* However many forwarders end tasks at once, and whatever they overwrite of each
\* other's, the bandit model never counts more rewards than executions ended, nor are
\* more decision records closed (forwarder's bandit bookkeeping at the end of a task).
THEOREM RewardsAreEarned == LearnSpec => []RewardsWithinExecutions
<1>1. BanditInv => RewardsWithinExecutions
  <2>. SUFFICES ASSUME BanditInv PROVE RewardsWithinExecutions
    OBVIOUS
  <2>1. /\ Cardinality(Closing) \in Nat /\ IsFiniteSet(Taken) /\ Cardinality(Taken) \in Nat
        /\ model \in Nat /\ executions \in Nat
    BY BanditFinite DEF BanditInv, BanditTypeOK
  <2>2. ClosedRecords \subseteq Taken
    BY DEF Taken
  <2>3. Cardinality(ClosedRecords) <= Cardinality(Taken) /\ Cardinality(ClosedRecords) \in Nat
    BY <2>1, <2>2, FS_Subset, FS_CardinalityType
  <2>. QED BY <2>1, <2>3 DEF BanditInv, RewardsWithinExecutions, ClosedRecords
<1>. QED BY BanditStart, BanditSteps, <1>1, PTL DEF LearnSpec

-----------------------------------------------------------------------------
(***************************************************************************)
(* Markers.  What an engine call has read is used later, so the invariant  *)
(* also says that what it is about to write is sound by then.              *)
(***************************************************************************)
Marker == [int : Int, kind : Kinds \cup {"none"}, count : Nat]

SoundMarker(m, rep) ==
  /\ m \in Marker
  /\ m.int \in 0..Ceiling
  /\ m.kind \in Kinds => m.count <= rep[m.kind]

DepositOK(w) == w.pc = "deposit" => w.int \in Nat
FeedbackOK(w, n, rep) == w.pc = "feedback" => w.i \in 0..n /\ SoundMarker(w.new, rep)
DecayOK(w, n, rep) ==
  w.pc = "decay" => /\ w = [pc |-> "decay", list |-> w.list, todo |-> w.todo]
                    /\ w.todo \subseteq 1..n
                    /\ \A i \in w.todo : SoundMarker(w.list[i], rep)
EngineOK(w, n, rep) == DepositOK(w) /\ FeedbackOK(w, n, rep) /\ DecayOK(w, n, rep)

MarkerTypeOK == markers \in Seq(Marker) /\ reported \in [Kinds -> Nat]
EnginesOK ==
  /\ engine = [e \in Engines |-> engine[e]]
  /\ \A e \in Engines : EngineOK(engine[e], Len(markers), reported)
LiveOK == \A i \in DOMAIN markers : markers[i] # Expired => SoundMarker(markers[i], reported)
MarkerInv == MarkerTypeOK /\ EnginesOK /\ LiveOK

\* The constants, one by one.
LEMMA LearnConstants ==
  /\ MinIntensity \in Nat /\ MaxIntensity \in Nat /\ MinIntensity <= MaxIntensity
  /\ SuccessBonus \in Nat /\ FailurePenalty \in Nat /\ DepositDelta \in Nat
  /\ DecayFactor \in Nat /\ DecayFactor <= 10
  /\ One \in Nat /\ Ceiling \in Nat /\ One <= Ceiling /\ MaxIntensity <= Ceiling
BY LearnAssumption DEF One, Ceiling

\* Of two numbers, Max and Min are the larger and the smaller.
LEMMA OfTwo ==
  ASSUME NEW x \in Int, NEW y \in Int
  PROVE  /\ Max({x, y}) = IF x >= y THEN x ELSE y
         /\ Min({x, y}) = IF x <= y THEN x ELSE y
BY DEF Max, Min

\* Clip brings any number into the range.
LEMMA ClipInRange ==
  ASSUME NEW v \in Int PROVE Clip(v) \in MinIntensity..MaxIntensity
<1>1. PICK u : u = Max({v, MinIntensity}) /\ u \in Int /\ u >= MinIntensity
  BY OfTwo, LearnConstants
<1>2. Min({u, MaxIntensity}) = IF u <= MaxIntensity THEN u ELSE MaxIntensity
  <2>1. u \in Int /\ MaxIntensity \in Int
    BY <1>1, LearnConstants
  <2>. QED BY ONLY <2>1, OfTwo, Zenon
<1>3. Clip(v) = Min({u, MaxIntensity})
  BY <1>1 DEF Clip
<1>. QED BY <1>1, <1>2, <1>3, LearnConstants

\* A sound marker stays sound when more failures are reported.
LEMMA SoundLater ==
  ASSUME NEW m, NEW rep \in [Kinds -> Nat], NEW later \in [Kinds -> Nat],
         \A k \in Kinds : rep[k] <= later[k], SoundMarker(m, rep)
  PROVE  SoundMarker(m, later)
<1>1. m.kind \in Kinds => m.count \in Nat /\ rep[m.kind] \in Nat /\ later[m.kind] \in Nat
                          /\ rep[m.kind] <= later[m.kind] /\ m.count <= rep[m.kind]
  BY DEF SoundMarker, Marker
<1>. QED BY <1>1 DEF SoundMarker

LEMMA EngineLater ==
  ASSUME NEW w, NEW n \in Nat, NEW n2 \in Nat, n <= n2,
         NEW rep \in [Kinds -> Nat], NEW later \in [Kinds -> Nat],
         \A k \in Kinds : rep[k] <= later[k], EngineOK(w, n, rep)
  PROVE  EngineOK(w, n2, later)
<1>1. DepositOK(w)
  BY DEF EngineOK
<1>2. FeedbackOK(w, n2, later)
  BY SoundLater DEF EngineOK, FeedbackOK
<1>3. DecayOK(w, n2, later)
  <2>. SUFFICES ASSUME w.pc = "decay" PROVE DecayOK(w, n2, later)
    BY DEF DecayOK
  <2>1. /\ w = [pc |-> "decay", list |-> w.list, todo |-> w.todo]
        /\ w.todo \subseteq 1..n /\ \A i \in w.todo : SoundMarker(w.list[i], rep)
    BY DEF EngineOK, DecayOK
  <2>2. w.todo \subseteq 1..n2
    BY <2>1
  <2>3. \A i \in w.todo : SoundMarker(w.list[i], later)
    BY ONLY <2>1, SoundLater, rep \in [Kinds -> Nat], later \in [Kinds -> Nat], \A k \in Kinds : rep[k] <= later[k]
  <2>. QED BY ONLY <2>1, <2>2, <2>3 DEF DecayOK
<1>. QED BY <1>1, <1>2, <1>3 DEF EngineOK

\* A step that writes sound markers only, and changes one engine call at most.
LEMMA MarkerStep ==
  ASSUME MarkerInv, markers' \in Seq(Marker), Len(markers) <= Len(markers'),
         reported' \in [Kinds -> Nat], \A k \in Kinds : reported[k] <= reported'[k],
         \A i \in DOMAIN markers' : \/ i \in DOMAIN markers /\ markers'[i] = markers[i]
                                    \/ markers'[i] = Expired
                                    \/ SoundMarker(markers'[i], reported'),
         NEW e, NEW w, EngineOK(w, Len(markers'), reported'),
         engine' = engine \/ engine' = [engine EXCEPT ![e] = w]
  PROVE  MarkerInv'
<1>1. reported \in [Kinds -> Nat] /\ markers \in Seq(Marker) /\ Len(markers) \in Nat /\ Len(markers') \in Nat
  BY DEF MarkerInv, MarkerTypeOK
<1>2. LiveOK'
  <2>. SUFFICES ASSUME NEW i \in DOMAIN markers', markers'[i] # Expired
                PROVE  SoundMarker(markers'[i], reported')
    BY DEF LiveOK
  <2>1. PICK m, rep : m = markers'[i] /\ rep = reported'
    OBVIOUS
  <2>2. SoundMarker(m, reported) \/ SoundMarker(m, rep)
    BY <2>1 DEF MarkerInv, LiveOK
  <2>3. SoundMarker(m, rep)
    BY <1>1, <2>1, <2>2, SoundLater
  <2>. QED BY <2>1, <2>3
<1>3. EnginesOK'
  <2>1. engine = [f \in Engines |-> engine[f]] /\ \A f \in Engines : EngineOK(engine[f], Len(markers), reported)
    BY DEF MarkerInv, EnginesOK
  <2>2. engine' = [f \in Engines |-> engine'[f]] /\ \A f \in Engines : engine'[f] = engine[f] \/ engine'[f] = w
    BY <2>1
  <2>3. ASSUME NEW f \in Engines PROVE EngineOK(engine'[f], Len(markers'), reported')
    <3>1. PICK x, n, rep : x = engine'[f] /\ n = Len(markers') /\ rep = reported'
      OBVIOUS
    <3>2. EngineOK(x, Len(markers), reported) \/ EngineOK(x, n, rep)
      BY <2>1, <2>2, <3>1
    <3>3. EngineOK(x, n, rep)
      BY <1>1, <3>1, <3>2, EngineLater
    <3>. QED BY <3>1, <3>3
  <2>. QED BY <2>2, <2>3 DEF EnginesOK
<1>. QED BY <1>2, <1>3 DEF MarkerInv, MarkerTypeOK

\* What the invariant says of the sequence of markers.
LEMMA MarkerFacts ==
  ASSUME MarkerInv
  PROVE  /\ markers \in Seq(Marker) /\ reported \in [Kinds -> Nat]
         /\ Len(markers) \in Nat /\ DOMAIN markers = 1..Len(markers)
         /\ Live \subseteq DOMAIN markers /\ \A i \in Live : SoundMarker(markers[i], reported)
BY DEF MarkerInv, MarkerTypeOK, LiveOK, Live

\* A marker is appended, and one engine call changes at most.
LEMMA MarkerAdded ==
  ASSUME MarkerInv, NEW m, SoundMarker(m, reported), AddMarker(m), UNCHANGED reported,
         NEW e, engine' = engine \/ engine' = [engine EXCEPT ![e] = IdleEngine]
  PROVE  MarkerInv'
<1>1. markers' = Append(markers, m) /\ m \in Marker
  BY DEF AddMarker, SoundMarker
<1>2. /\ markers' \in Seq(Marker) /\ Len(markers') = Len(markers) + 1
      /\ \A i \in DOMAIN markers' : (i \in DOMAIN markers /\ markers'[i] = markers[i]) \/ markers'[i] = m
  BY <1>1, MarkerFacts
<1>3. EngineOK(IdleEngine, Len(markers'), reported')
  BY DEF IdleEngine, EngineOK, DepositOK, FeedbackOK, DecayOK
<1>4. Len(markers) <= Len(markers')
  BY <1>2, MarkerFacts
<1>5. reported' \in [Kinds -> Nat] /\ \A k \in Kinds : reported[k] <= reported'[k]
  BY MarkerFacts
<1>6. \A i \in DOMAIN markers' : \/ i \in DOMAIN markers /\ markers'[i] = markers[i]
                                 \/ markers'[i] = Expired
                                 \/ SoundMarker(markers'[i], reported')
  BY <1>2
<1>. QED BY <1>2, <1>3, <1>4, <1>5, <1>6, MarkerStep

\* A marker is replaced by a sound one or expires, and one engine call changes.
LEMMA MarkerReplaced ==
  ASSUME MarkerInv, NEW i \in DOMAIN markers, NEW m, SoundMarker(m, reported) \/ m = Expired,
         markers' = markers \/ markers' = [markers EXCEPT ![i] = m], UNCHANGED reported,
         NEW e, NEW w, EngineOK(w, Len(markers), reported),
         engine' = engine \/ engine' = [engine EXCEPT ![e] = w]
  PROVE  MarkerInv'
<1>1. m \in Marker
  BY DEF SoundMarker, Expired, Marker
<1>2. /\ markers' \in Seq(Marker) /\ Len(markers') = Len(markers) /\ DOMAIN markers' = DOMAIN markers
      /\ \A j \in DOMAIN markers' : markers'[j] = markers[j] \/ markers'[j] = m
  BY <1>1, MarkerFacts
<1>3. EngineOK(w, Len(markers'), reported')
  BY <1>2
<1>4. Len(markers) <= Len(markers')
  BY <1>2, MarkerFacts
<1>5. reported' \in [Kinds -> Nat] /\ \A k \in Kinds : reported[k] <= reported'[k]
  BY MarkerFacts
<1>6. \A j \in DOMAIN markers' : \/ j \in DOMAIN markers /\ markers'[j] = markers[j]
                                 \/ markers'[j] = Expired
                                 \/ SoundMarker(markers'[j], reported')
  BY <1>2
<1>. QED BY <1>2, <1>3, <1>4, <1>5, <1>6, MarkerStep

\* An engine call reads; feedback is counted as reported in the same step.
LEMMA MarkerRead ==
  ASSUME MarkerInv, UNCHANGED markers, NEW rep, reported' = rep,
         rep \in [Kinds -> Nat], \A k \in Kinds : reported[k] <= rep[k],
         NEW e, NEW w, EngineOK(w, Len(markers), rep),
         engine' = [engine EXCEPT ![e] = w]
  PROVE  MarkerInv'
<1>1. /\ markers' \in Seq(Marker) /\ Len(markers) <= Len(markers')
      /\ \A i \in DOMAIN markers' : i \in DOMAIN markers /\ markers'[i] = markers[i]
  BY MarkerFacts
<1>2. EngineOK(w, Len(markers'), reported')
  OBVIOUS
<1>. QED BY <1>1, <1>2, MarkerStep

LEMMA MarkerStart == ASSUME LearnInit PROVE MarkerInv
<1>1. EngineOK(IdleEngine, Len(markers), reported)
  BY DEF IdleEngine, EngineOK, DepositOK, FeedbackOK, DecayOK
<1>2. EnginesOK
  BY <1>1 DEF LearnInit, EnginesOK
<1>. QED BY <1>2 DEF LearnInit, MarkerInv, MarkerTypeOK, LiveOK

LEMMA MarkerSeed == ASSUME MarkerInv, SeedPath PROVE MarkerInv'
<1>1. PICK score \in 0..One : AddMarker([int |-> score, kind |-> "none", count |-> 0])
  BY DEF SeedPath
<1>2. PICK m : m = [int |-> score, kind |-> "none", count |-> 0]
  OBVIOUS
<1>3. SoundMarker(m, reported)
  BY <1>2, LearnConstants, MarkerFacts DEF SoundMarker, Marker
<1>4. AddMarker(m) /\ UNCHANGED reported /\ engine' = engine
  BY <1>1, <1>2 DEF SeedPath
<1>. QED BY <1>3, <1>4, MarkerAdded

\* The strongest intensity found is a number.
LEMMA StrongestNumber == ASSUME MarkerInv PROVE Strongest \in Nat
<1>. DEFINE S == {0} \cup {markers[i].int : i \in Live}
<1>1. \A i \in Live : markers[i].int \in 0..Ceiling
  BY MarkerFacts, LearnConstants DEF SoundMarker
<1>2. S \in SUBSET (0..Ceiling) /\ S # {}
  BY <1>1, LearnConstants
<1>3. Max(S) \in S
  BY ONLY <1>2, LearnConstants, GreatestOf
<1>. QED BY <1>2, <1>3 DEF Strongest

LEMMA MarkerDeposit ==
  ASSUME MarkerInv, NEW e \in Engines, DepositRead(e) \/ DepositWrite(e)
  PROVE  MarkerInv'
<1>1. CASE DepositRead(e)
  <2>1. PICK w : w = [pc |-> "deposit", int |-> Strongest]
    OBVIOUS
  <2>2. EngineOK(w, Len(markers), reported)
    BY <2>1, StrongestNumber DEF EngineOK, DepositOK, FeedbackOK, DecayOK
  <2>3. UNCHANGED <<markers, reported>> /\ engine' = [engine EXCEPT ![e] = w]
    BY <1>1, <2>1 DEF DepositRead
  <2>4. \A k \in Kinds : reported[k] <= reported[k]
    BY MarkerFacts
  <2>. QED BY <2>2, <2>3, <2>4, MarkerRead, MarkerFacts
<1>2. CASE DepositWrite(e)
  <2>1. PICK v : v = Min({engine[e].int + DepositDelta, One})
    OBVIOUS
  <2>2. PICK m : m = [int |-> v, kind |-> "none", count |-> 0]
    OBVIOUS
  <2>3. engine[e].int \in Nat
    BY <1>2 DEF DepositWrite, MarkerInv, EnginesOK, EngineOK, DepositOK
  <2>4. v \in 0..Ceiling
    <3>1. PICK u : u = engine[e].int + DepositDelta /\ u \in Nat
      BY <2>3, LearnConstants
    <3>2. u \in Int /\ One \in Int
      BY <3>1, LearnConstants
    <3>3. Min({u, One}) = IF u <= One THEN u ELSE One
      BY ONLY <3>2, OfTwo, Zenon
    <3>. QED BY <2>1, <3>1, <3>3, LearnConstants
  <2>5. SoundMarker(m, reported)
    BY <2>2, <2>4, LearnConstants, MarkerFacts DEF SoundMarker, Marker
  <2>6. AddMarker(m) /\ UNCHANGED reported /\ engine' = [engine EXCEPT ![e] = IdleEngine]
    BY <1>2, <2>1, <2>2 DEF DepositWrite
  <2>. QED BY <2>5, <2>6, MarkerAdded
<1>. QED BY <1>1, <1>2

\* The marker that feedback updates is a live one.
LEMMA SelectedLive ==
  ASSUME MarkerInv, Live # {} PROVE SelectMarker \in Live
<1>. DEFINE S == {markers[i].int : i \in Live}
<1>1. \A i \in Live : markers[i].int \in 0..Ceiling
  BY MarkerFacts, LearnConstants DEF SoundMarker
<1>2. S \in SUBSET (0..Ceiling) /\ S # {}
  BY <1>1
<1>3. PICK top : top \in S /\ \A y \in S : top >= y
  BY ONLY <1>2, LearnConstants, GreatestOf
<1>. DEFINE T == {i \in Live : markers[i].int = top}
<1>4. T \in SUBSET Nat /\ T # {}
  BY <1>3, MarkerFacts
<1>5. PICK i : i \in T /\ \A j \in T : i <= j
  BY ONLY <1>4, LeastPlace
<1>6. ASSUME NEW j \in Live
      PROVE  markers[i].int > markers[j].int \/ (markers[i].int = markers[j].int /\ i <= j)
  <2>1. top >= markers[j].int /\ markers[i].int = top /\ markers[j].int \in Int /\ top \in Int
    BY <1>1, <1>2, <1>3, <1>5
  <2>2. markers[j].int = top => i <= j
    BY <1>5
  <2>. QED BY <2>1, <2>2
<1>. QED BY <1>5, <1>6 DEF SelectMarker

\* Feedback makes a sound marker of a sound one, once it is counted as reported.
LEMMA UpdatedSound ==
  ASSUME NEW rep \in [Kinds -> Nat], NEW later \in [Kinds -> Nat], NEW outcome,
         \A k \in Kinds : later[k] = IF k = outcome THEN rep[k] + 1 ELSE rep[k],
         NEW old \in Marker, old.kind \in Kinds => old.count <= rep[old.kind]
  PROVE  SoundMarker(Updated(old, outcome), later)
<1>. DEFINE delta == IF outcome = "success" THEN SuccessBonus
                     ELSE IF outcome \in Kinds THEN -FailurePenalty ELSE 0
            fc == IF outcome \in Kinds THEN FailureContext(old, outcome)
                  ELSE IF outcome = "success" THEN [kind |-> "none", count |-> 0]
                  ELSE [kind |-> old.kind, count |-> old.count]
<1>1. delta \in Int
  BY LearnConstants
<1>2. old.int \in Int /\ old.kind \in Kinds \cup {"none"} /\ old.count \in Nat
  BY DEF Marker
<1>3. /\ fc.kind \in Kinds \cup {"none"} /\ fc.count \in Nat
      /\ fc.kind \in Kinds => fc.count <= later[fc.kind]
  <2>1. CASE outcome \in Kinds
    <3>1. later[outcome] = rep[outcome] + 1 /\ rep[outcome] \in Nat
      BY <2>1
    <3>2. fc.kind = outcome /\ fc.count = (IF old.kind = outcome THEN old.count ELSE 0) + 1
      BY <2>1 DEF FailureContext
    <3>. HIDE DEF fc
    <3>. QED BY <1>2, <2>1, <3>1, <3>2
  <2>2. CASE outcome \notin Kinds /\ outcome = "success"
    <3>1. fc.kind = "none" /\ fc.count = 0
      BY <2>2
    <3>. HIDE DEF fc
    <3>. QED BY <3>1
  <2>3. CASE outcome \notin Kinds /\ outcome # "success"
    <3>1. fc.kind = old.kind /\ fc.count = old.count
      BY <2>3
    <3>. HIDE DEF fc
    <3>. QED BY <1>2, <2>3, <3>1
  <2>. QED BY <2>1, <2>2, <2>3
<1>4. Updated(old, outcome) = [int |-> Clip(old.int + delta), kind |-> fc.kind, count |-> fc.count]
  BY DEF Updated
<1>. HIDE DEF delta, fc
<1>5. Clip(old.int + delta) \in 0..Ceiling
  BY <1>1, <1>2, ClipInRange, LearnConstants
<1>. QED BY <1>3, <1>4, <1>5, LearnConstants DEF SoundMarker, Marker

LEMMA MarkerFeedbackRead ==
  ASSUME MarkerInv, NEW e \in Engines, NEW outcome, FeedbackRead(e, outcome)
  PROVE  MarkerInv'
<1>1. PICK i : i = SelectMarker
  OBVIOUS
<1>2. PICK old : old = IF i = 0 THEN [int |-> 5, kind |-> "none", count |-> 0] ELSE markers[i]
  OBVIOUS
<1>3. PICK rep : rep = [k \in Kinds |-> IF k = outcome THEN reported[k] + 1 ELSE reported[k]]
  OBVIOUS
<1>4. PICK w : w = [pc |-> "feedback", i |-> i, new |-> Updated(old, outcome)]
  OBVIOUS
<1>5. engine' = [engine EXCEPT ![e] = w] /\ reported' = rep /\ UNCHANGED markers
  BY <1>1, <1>2, <1>3, <1>4 DEF FeedbackRead
<1>6. i = 0 \/ i \in Live
  BY <1>1, SelectedLive DEF SelectMarker
<1>7. i \in 0..Len(markers)
  BY <1>6, MarkerFacts
<1>8. old \in Marker /\ (old.kind \in Kinds => old.count <= reported[old.kind])
  <2>1. CASE i = 0
    BY <1>2, <2>1, MarkerFacts DEF Marker
  <2>2. CASE i # 0
    BY <1>2, <1>6, <2>2, MarkerFacts DEF SoundMarker
  <2>. QED BY <2>1, <2>2
<1>9. /\ rep \in [Kinds -> Nat] /\ \A k \in Kinds : reported[k] <= rep[k]
      /\ \A k \in Kinds : rep[k] = IF k = outcome THEN reported[k] + 1 ELSE reported[k]
  BY <1>3, MarkerFacts
<1>10. reported \in [Kinds -> Nat]
  BY MarkerFacts
<1>11. SoundMarker(Updated(old, outcome), rep)
  BY ONLY <1>8, <1>9, <1>10, UpdatedSound
<1>12. EngineOK(w, Len(markers), rep)
  BY <1>4, <1>7, <1>11 DEF EngineOK, DepositOK, FeedbackOK, DecayOK
<1>. QED BY <1>5, <1>9, <1>12, MarkerRead

LEMMA MarkerFeedbackWrite ==
  ASSUME MarkerInv, NEW e \in Engines, FeedbackWrite(e) PROVE MarkerInv'
<1>1. PICK w : w = engine[e]
  OBVIOUS
<1>2. w.i \in 0..Len(markers) /\ SoundMarker(w.new, reported)
  BY <1>1 DEF FeedbackWrite, MarkerInv, EnginesOK, EngineOK, FeedbackOK
<1>3. /\ UNCHANGED reported /\ engine' = [engine EXCEPT ![e] = IdleEngine]
      /\ IF w.i = 0 THEN AddMarker(w.new) ELSE markers' = [markers EXCEPT ![w.i] = w.new]
  BY <1>1 DEF FeedbackWrite
<1>4. CASE w.i = 0
  BY <1>2, <1>3, <1>4, MarkerAdded
<1>5. CASE w.i # 0
  <2>1. w.i \in DOMAIN markers
    BY <1>2, <1>5, MarkerFacts
  <2>2. EngineOK(IdleEngine, Len(markers), reported)
    BY DEF IdleEngine, EngineOK, DepositOK, FeedbackOK, DecayOK
  <2>. QED BY <1>2, <1>3, <1>5, <2>1, <2>2, MarkerReplaced
<1>. QED BY <1>4, <1>5

\* Decay keeps a marker sound.
LEMMA DecayedSound ==
  ASSUME NEW rep, NEW m, SoundMarker(m, rep) PROVE SoundMarker(Decayed(m), rep)
<1>1. m \in Marker /\ m.int \in Int /\ m.int <= Ceiling /\ m.int >= 0
  BY LearnConstants DEF SoundMarker, Marker
<1>2. PICK d : d = m.int * DecayFactor
  OBVIOUS
<1>3. d \in Int /\ d <= m.int * 10
  BY <1>1, <1>2, LearnConstants
<1>4. PICK q : q = d \div 10
  OBVIOUS
<1>5. q \in Int /\ q <= m.int
  BY <1>1, <1>3, <1>4
<1>6. PICK v : v = Max({MinIntensity, q})
  OBVIOUS
<1>7. MinIntensity \in Int /\ q \in Int
  BY <1>5, LearnConstants
<1>8. Max({MinIntensity, q}) = IF MinIntensity >= q THEN MinIntensity ELSE q
  BY ONLY <1>7, OfTwo, Zenon
<1>9. v \in 0..Ceiling
  BY <1>1, <1>5, <1>6, <1>8, LearnConstants
<1>10. Decayed(m) = [m EXCEPT !.int = v]
  BY <1>2, <1>4, <1>6 DEF Decayed
<1>11. Decayed(m) = [int |-> v, kind |-> m.kind, count |-> m.count]
  BY <1>1, <1>10 DEF Marker
<1>. QED BY <1>1, <1>9, <1>11, LearnConstants DEF SoundMarker, Marker

LEMMA MarkerDecay ==
  ASSUME MarkerInv, NEW e \in Engines, DecayRead(e) \/ DecayWrite(e) PROVE MarkerInv'
<1>1. CASE DecayRead(e)
  <2>1. PICK w : w = [pc |-> "decay", list |-> markers,
                      todo |-> {i \in Live : Cardinality({j \in Live : j < i}) < DecayLimit}]
    OBVIOUS
  <2>2. /\ w.pc = "decay" /\ w.list = markers /\ w.todo \subseteq Live
        /\ w = [pc |-> "decay", list |-> w.list, todo |-> w.todo]
    BY <2>1
  <2>3. EngineOK(w, Len(markers), reported)
    BY <2>2, MarkerFacts DEF EngineOK, DepositOK, FeedbackOK, DecayOK
  <2>4. UNCHANGED <<markers, reported>> /\ engine' = [engine EXCEPT ![e] = w]
    BY <1>1, <2>1 DEF DecayRead
  <2>5. \A k \in Kinds : reported[k] <= reported[k]
    BY MarkerFacts
  <2>. QED BY <2>3, <2>4, <2>5, MarkerRead, MarkerFacts
<1>2. CASE DecayWrite(e)
  <2>1. PICK w : w = engine[e]
    OBVIOUS
  <2>2. /\ w.pc = "decay" /\ w = [pc |-> "decay", list |-> w.list, todo |-> w.todo]
        /\ w.todo \subseteq 1..Len(markers) /\ \A i \in w.todo : SoundMarker(w.list[i], reported)
    BY <1>2, <2>1 DEF DecayWrite, MarkerInv, EnginesOK, EngineOK, DecayOK
  <2>3. CASE w.todo = {} /\ engine' = [engine EXCEPT ![e] = IdleEngine] /\ UNCHANGED <<markers, reported>>
    <3>1. EngineOK(IdleEngine, Len(markers), reported)
      BY DEF IdleEngine, EngineOK, DepositOK, FeedbackOK, DecayOK
    <3>2. \A k \in Kinds : reported[k] <= reported[k]
      BY MarkerFacts
    <3>. QED BY <2>3, <3>1, <3>2, MarkerRead, MarkerFacts
  <2>4. ASSUME NEW i \in w.todo, engine' = [engine EXCEPT ![e].todo = engine[e].todo \ {i}],
               markers' = markers \/ markers' = [markers EXCEPT ![i] = Decayed(w.list[i])],
               UNCHANGED reported
        PROVE  MarkerInv'
    <3>1. PICK x : x = [pc |-> "decay", list |-> w.list, todo |-> w.todo \ {i}]
      OBVIOUS
    <3>2. [w EXCEPT !.todo = w.todo \ {i}] = x
      <4>1. PICK l, t : l = w.list /\ t = w.todo
        OBVIOUS
      <4>2. w = [pc |-> "decay", list |-> l, todo |-> t] /\ x = [pc |-> "decay", list |-> l, todo |-> t \ {i}]
        BY ONLY <2>2, <3>1, <4>1
      <4>. QED BY ONLY <4>1, <4>2
    <3>3. engine' = [engine EXCEPT ![e] = x]
      BY <2>1, <2>4, <3>2
    <3>4. EngineOK(x, Len(markers), reported)
      BY <2>2, <3>1 DEF EngineOK, DepositOK, FeedbackOK, DecayOK
    <3>5. SoundMarker(Decayed(w.list[i]), reported)
      BY <2>2, DecayedSound
    <3>6. i \in DOMAIN markers
      BY <2>2, MarkerFacts
    <3>. QED BY <2>4, <3>3, <3>4, <3>5, <3>6, MarkerReplaced
  <2>. QED BY <1>2, <2>1, <2>3, <2>4 DEF DecayWrite
<1>. QED BY <1>1, <1>2

LEMMA MarkerExpiry ==
  ASSUME MarkerInv, NEW i \in DOMAIN markers, Expiry(i) PROVE MarkerInv'
<1>1. markers' = [markers EXCEPT ![i] = Expired] /\ UNCHANGED <<engine, reported>>
  BY DEF Expiry
<1>2. EngineOK(IdleEngine, Len(markers), reported)
  BY DEF IdleEngine, EngineOK, DepositOK, FeedbackOK, DecayOK
<1>. QED BY <1>1, <1>2, MarkerReplaced

LEMMA MarkerSteps ==
  ASSUME MarkerInv, [LearnNext]_learnVars PROVE MarkerInv'
<1>1. CASE UNCHANGED markerVars
  BY <1>1 DEF markerVars, MarkerInv, MarkerTypeOK, EnginesOK, LiveOK
<1>2. ASSUME NEW e \in Engines,
             \/ DepositRead(e) \/ DepositWrite(e) \/ FeedbackWrite(e) \/ DecayRead(e) \/ DecayWrite(e)
             \/ \E outcome \in Kinds \cup {"success", "unknown"} : FeedbackRead(e, outcome)
      PROVE  MarkerInv'
  BY <1>2, MarkerDeposit, MarkerFeedbackRead, MarkerFeedbackWrite, MarkerDecay
<1>3. UNCHANGED learnVars \/ SaveDecision => UNCHANGED markerVars
  BY DEF SaveDecision, markerVars, learnVars
<1>4. ASSUME NEW f \in Forwarders, FindDecision(f) \/ CloseDecision(f) \/ RecordReward(f)
      PROVE  UNCHANGED markerVars
  BY <1>4 DEF FindDecision, CloseDecision, RecordReward, markerVars
<1>. QED BY <1>1, <1>2, <1>3, <1>4, MarkerSeed, MarkerExpiry DEF LearnNext

\* However many engine calls, deposits and expiries overlap, a live marker's intensity
\* stays between zero and the larger of 1.0 and PHEROMONE_INTENSITY_MAX, and it counts
\* no more failures of its kind than were reported (pheromone_engine.run, path_seeder,
\* the forwarder's deposit).
THEOREM MarkersStaySound == LearnSpec => []MarkersSound
<1>1. MarkerInv => MarkersSound
  BY DEF MarkerInv, LiveOK, MarkersSound, Live, SoundMarker
<1>2. MarkerInv /\ [LearnNext]_learnVars => MarkerInv'
  BY MarkerSteps
<1>. QED BY MarkerStart, <1>2, <1>1, PTL DEF LearnSpec

-----------------------------------------------------------------------------
(***************************************************************************)
(* The registry: what an agent counts, and what becomes of the counts in   *)
(* documents and requests that overtake each other.                        *)
(***************************************************************************)
Counted == {s \in Slots : tasks[s] \in {"running", "cut"}}
Busys == 0..Cardinality(Slots)
Loads == 0..MaxLoad
Statuses == {"idle", "busy", "unhealthy", "offline", "online"}

DocType(d) ==
  /\ d \in [status : Statuses, ttl : BOOLEAN, age : Nat, busy : Nat, load : Nat]
  /\ d.busy \in Busys /\ d.load \in Loads
CallType(c) ==
  /\ c \in [pc : {"post", "again"}, status : Statuses \cup {"keep"}, ttl : BOOLEAN, busy : Int, load : Int]
  /\ c.busy \in Busys \cup {Keep} /\ c.load \in Loads \cup {Keep}

EntryTyped == entry = NoEntry \/ DocType(entry)
ClientTyped ==
  /\ client \in [phase : {"off", "up", "down"}, status : Statuses, busy : Nat, fails : Nat]
  /\ client.busy \in Busys
TasksTyped == tasks \in [Slots -> {"none", "running", "done", "cut"}]
RequestTyped(c) == c = NoCall \/ CallType(c) \/ (c.pc = "write" /\ DocType(c.doc))
CallsTyped == DOMAIN calls = Coroutines /\ \A c \in Coroutines : RequestTyped(calls[c])
LoaderTyped ==
  /\ DOMAIN loader = Loaders
  /\ \A l \in Loaders :
       \/ loader[l].pc = "idle"
       \/ loader[l].pc = "get" /\ loader[l].busy \in Busys /\ loader[l].load \in Loads
       \/ loader[l].pc = "write" /\ DocType(loader[l].doc)
CountInv ==
  /\ client.phase # "down" => client.busy = Cardinality(Counted)
  /\ client.phase = "off" => Counted = {}

RegInv == EntryTyped /\ ClientTyped /\ TasksTyped /\ CallsTyped /\ LoaderTyped /\ CountInv

LEMMA SlotsCounted ==
  /\ Cardinality(Slots) \in Nat
  /\ IsFiniteSet(Counted) /\ Cardinality(Counted) \in Nat /\ Cardinality(Counted) <= Cardinality(Slots)
<1>1. IsFiniteSet(Slots) /\ Counted \in SUBSET Slots
  BY RegAssumption DEF Counted
<1>. QED BY <1>1, FS_Subset, FS_CardinalityType

\* The helpers on documents.
LEMMA Larger == ASSUME NEW n \in Int PROVE Max({0, n}) = IF n > 0 THEN n ELSE 0
<1>1. PICK m \in {0, n} : \A y \in {0, n} : m >= y
  BY DEF Max
<1>2. \A x \in {0, n} : (\A y \in {0, n} : x >= y) <=> x = IF n > 0 THEN n ELSE 0
  OBVIOUS
<1>. QED BY <1>2 DEF Max

LEMMA UpsertedType == ASSUME NEW st \in Statuses PROVE DocType(Upserted(st))
<1>1. 0 \in Busys /\ 0 \in Loads
  BY SlotsCounted, RegAssumption DEF Busys, Loads
<1>. QED BY <1>1 DEF DocType, Upserted

LEMMA BeatenType == ASSUME NEW d, DocType(d), NEW c, CallType(c) PROVE DocType(Beaten(d, c))
<1>1. Cardinality(Slots) \in Nat /\ MaxLoad \in Nat
  BY SlotsCounted, RegAssumption
<1>2. PICK st, b, l : /\ st = IF c.status = "keep" THEN d.status ELSE c.status
                      /\ b = IF c.busy = Keep THEN d.busy ELSE c.busy
                      /\ l = IF c.load = Keep THEN d.load ELSE c.load
  OBVIOUS
<1>3. st \in Statuses /\ b \in Busys /\ l \in Loads /\ c.ttl \in BOOLEAN
  BY <1>2 DEF DocType, CallType
<1>4. Beaten(d, c) = [d EXCEPT !.status = st, !.ttl = c.ttl, !.age = 0, !.busy = b, !.load = l]
  BY <1>2 DEF Beaten
<1>5. b \in Nat /\ l \in Nat
  BY <1>1, <1>3 DEF Busys, Loads
<1>6. PICK ttl \in BOOLEAN : ttl = c.ttl
  BY <1>3
<1>7. d \in [status : Statuses, ttl : BOOLEAN, age : Nat, busy : Nat, load : Nat]
  BY DEF DocType
<1>8. PICK r : r = [d EXCEPT !.status = st, !.ttl = ttl, !.age = 0, !.busy = b, !.load = l]
  OBVIOUS
<1>9. r = [status |-> st, ttl |-> ttl, age |-> 0, busy |-> b, load |-> l]
  BY <1>7, <1>8
<1>10. DocType(r)
  BY <1>3, <1>5, <1>9 DEF DocType
<1>. QED BY <1>4, <1>6, <1>8, <1>10

LEMMA CallTypes ==
  ASSUME NEW st \in Statuses, NEW b \in Busys, NEW ttl \in BOOLEAN
  PROVE  CallType(Call(st, b, ttl))
BY SlotsCounted DEF CallType, Call, Busys, Keep

LEMMA RegStart == ASSUME RegInit PROVE RegInv
<1>1. 0 \in Busys /\ Cardinality({}) = 0
  BY SlotsCounted, FS_EmptySet DEF Busys
<1>2. Counted = {}
  BY DEF RegInit, Counted
<1>3. EntryTyped /\ TasksTyped
  BY DEF RegInit, EntryTyped, TasksTyped
<1>4. ClientTyped /\ CountInv
  BY <1>1, <1>2 DEF RegInit, ClientTyped, CountInv, Statuses
<1>5. CallsTyped /\ LoaderTyped
  BY DEF RegInit, CallsTyped, RequestTyped, LoaderTyped, NoCall
<1>. QED BY <1>3, <1>4, <1>5 DEF RegInv

\* Replacing one request.
LEMMA OneCall ==
  ASSUME CallsTyped, NEW c \in Coroutines, NEW r, RequestTyped(r), calls' = [calls EXCEPT ![c] = r]
  PROVE  CallsTyped'
<1>1. \A e \in Coroutines : calls'[e] = IF e = c THEN r ELSE calls[e]
  BY DEF CallsTyped
<1>. QED BY <1>1 DEF CallsTyped, RequestTyped, CallType, DocType

LEMMA OneLoader ==
  ASSUME LoaderTyped, NEW l \in Loaders, NEW r, loader' = [loader EXCEPT ![l] = r],
         \/ r.pc = "idle"
         \/ r.pc = "get" /\ r.busy \in Busys /\ r.load \in Loads
         \/ r.pc = "write" /\ DocType(r.doc)
  PROVE  LoaderTyped'
<1>1. \A e \in Loaders : loader'[e] = IF e = l THEN r ELSE loader[e]
  BY DEF LoaderTyped
<1>. QED BY <1>1 DEF LoaderTyped, DocType

\* The coroutines of the agent.
LEMMA ClientSteps ==
  ASSUME RegInv,
         Register \/ HeartbeatLoop \/ Shutdown \/ Killed
  PROVE  RegInv'
<1>0. /\ client \in [phase : {"off", "up", "down"}, status : Statuses, busy : Nat, fails : Nat]
      /\ client.busy \in Busys
  BY DEF RegInv, ClientTyped
<1>1. CASE Register
  <2>1. DocType(Upserted("idle"))
    BY UpsertedType DEF Statuses
  <2>2. client' = [client EXCEPT !.phase = "up"] /\ client.phase = "off" /\ UNCHANGED <<calls, tasks, loader>>
    BY <1>1 DEF Register
  <2>3. ClientTyped' /\ client'.busy = client.busy
    BY <1>0, <2>2 DEF ClientTyped
  <2>4. EntryTyped'
    BY <1>1, <2>1 DEF Register, RegInv, EntryTyped, DocType
  <2>5. CountInv'
    BY <1>0, <2>2, <2>3 DEF RegInv, CountInv, Counted
  <2>6. TasksTyped' /\ CallsTyped' /\ LoaderTyped'
    BY <2>2 DEF RegInv, TasksTyped, CallsTyped, LoaderTyped, RequestTyped, CallType, DocType
  <2>. QED BY <2>3, <2>4, <2>5, <2>6 DEF RegInv
<1>2. CASE HeartbeatLoop
  <2>1. /\ client' = [client EXCEPT !.status = client.status, !.busy = client.busy]
        /\ calls' = [calls EXCEPT !["loop"] = Call(client.status, client.busy, TRUE)]
        /\ UNCHANGED <<entry, tasks, loader>>
    BY <1>2 DEF HeartbeatLoop, Heartbeat
  <2>2. client' = client
    BY <1>0, <2>1
  <2>3. RequestTyped(Call(client.status, client.busy, TRUE))
    BY <1>0, CallTypes DEF RequestTyped
  <2>4. CallsTyped'
    BY <2>1, <2>3, OneCall DEF Coroutines, RegInv
  <2>5. EntryTyped' /\ ClientTyped' /\ TasksTyped' /\ LoaderTyped' /\ CountInv'
    BY <2>1, <2>2 DEF RegInv, EntryTyped, ClientTyped, TasksTyped, LoaderTyped, CountInv, Counted, DocType
  <2>. QED BY <2>4, <2>5 DEF RegInv
<1>3. CASE Shutdown
  <2>1. /\ client' = [client EXCEPT !.phase = "down", !.status = "offline"]
        /\ calls' = [calls EXCEPT !["stop"] = Call("offline", client.busy, FALSE)]
        /\ UNCHANGED <<entry, tasks, loader>>
    BY <1>3 DEF Shutdown
  <2>2. ClientTyped' /\ CountInv'
    BY <1>0, <2>1 DEF ClientTyped, CountInv, Statuses
  <2>3. RequestTyped(Call("offline", client.busy, FALSE))
    BY <1>0, CallTypes DEF RequestTyped, Statuses
  <2>4. CallsTyped'
    BY <2>1, <2>3, OneCall DEF Coroutines, RegInv
  <2>5. EntryTyped' /\ TasksTyped' /\ LoaderTyped'
    BY <2>1 DEF RegInv, EntryTyped, TasksTyped, LoaderTyped, DocType
  <2>. QED BY <2>2, <2>4, <2>5 DEF RegInv
<1>4. CASE Killed
  <2>1. /\ client' = [client EXCEPT !.phase = "down", !.status = "offline"]
        /\ calls' = [c \in Coroutines |-> IF calls[c].pc = "write" THEN calls[c] ELSE NoCall]
        /\ tasks' = [s \in Slots |-> "done"] /\ UNCHANGED <<entry, loader>>
    BY <1>4 DEF Killed
  <2>2. ClientTyped' /\ CountInv'
    BY <1>0, <2>1 DEF ClientTyped, CountInv, Statuses
  <2>3. CallsTyped'
    BY <2>1 DEF RegInv, CallsTyped, RequestTyped, CallType, DocType
  <2>5. EntryTyped' /\ TasksTyped' /\ LoaderTyped'
    BY <2>1 DEF RegInv, EntryTyped, TasksTyped, LoaderTyped, DocType
  <2>. QED BY <2>2, <2>3, <2>5 DEF RegInv
<1>. QED BY <1>1, <1>2, <1>3, <1>4

\* A task starts: one more is counted.
LEMMA StartedStep == ASSUME RegInv, NEW s \in Slots, MarkTaskStarted(s) PROVE RegInv'
<1>0. /\ client \in [phase : {"off", "up", "down"}, status : Statuses, busy : Nat, fails : Nat]
      /\ tasks \in [Slots -> {"none", "running", "done", "cut"}]
  BY DEF RegInv, ClientTyped, TasksTyped
<1>1. PICK st \in Statuses : st = IF client.fails >= FailureThreshold THEN "unhealthy" ELSE "busy"
  BY DEF Statuses
<1>2. /\ client.phase = "up" /\ tasks[s] \in {"none", "done"}
      /\ tasks' = [tasks EXCEPT ![s] = "running"] /\ UNCHANGED <<entry, loader>>
      /\ client' = [client EXCEPT !.status = st, !.busy = client.busy + 1]
      /\ calls' = [calls EXCEPT ![s] = Call(st, client.busy + 1, TRUE)]
  BY <1>1 DEF MarkTaskStarted, Heartbeat, Alive
<1>3. Counted' = Counted \cup {s} /\ s \notin Counted
  BY <1>0, <1>2 DEF Counted
<1>4. Cardinality(Counted') = Cardinality(Counted) + 1
  BY <1>3, SlotsCounted, FS_AddElement
<1>5. client.busy = Cardinality(Counted)
  BY <1>2 DEF RegInv, CountInv
<1>6. Cardinality(Counted') <= Cardinality(Slots)
  <2>1. IsFiniteSet(Slots) /\ Counted' \in SUBSET Slots
    BY RegAssumption DEF Counted
  <2>. QED BY <2>1, FS_Subset
<1>7. client.busy + 1 \in Busys /\ client.busy + 1 \in Nat
  BY <1>4, <1>5, <1>6, SlotsCounted DEF Busys
<1>8. TasksTyped' /\ ClientTyped'
  BY <1>0, <1>2, <1>7 DEF TasksTyped, ClientTyped
<1>9. client'.busy = client.busy + 1 /\ client'.phase = "up"
  BY <1>0, <1>2
<1>10. CountInv'
  BY <1>4, <1>5, <1>9 DEF CountInv
<1>11. RequestTyped(Call(st, client.busy + 1, TRUE))
  BY <1>7, CallTypes DEF RequestTyped
<1>12. CallsTyped'
  BY <1>2, <1>11, OneCall DEF RegInv, Coroutines
<1>13. EntryTyped' /\ LoaderTyped'
  BY <1>2 DEF RegInv, EntryTyped, LoaderTyped, DocType
<1>. QED BY <1>8, <1>10, <1>12, <1>13 DEF RegInv

\* A task ends, well or not: one less is counted.
LEMMA FinishedStep ==
  ASSUME RegInv, NEW s \in Slots, NEW success \in BOOLEAN, MarkTaskFinished(s, success) PROVE RegInv'
<1>0. /\ client \in [phase : {"off", "up", "down"}, status : Statuses, busy : Nat, fails : Nat]
      /\ client.busy \in Busys /\ tasks \in [Slots -> {"none", "running", "done", "cut"}]
  BY DEF RegInv, ClientTyped, TasksTyped
<1>1. PICK fails \in Nat : fails = IF success THEN 0 ELSE client.fails + 1
  BY <1>0
<1>2. PICK busy : busy = Max({0, client.busy - 1})
  OBVIOUS
<1>3. PICK st \in Statuses : st = IF fails >= FailureThreshold THEN "unhealthy" ELSE IF busy = 0 THEN "idle" ELSE "busy"
  BY DEF Statuses
<1>4. /\ tasks[s] = "running"
      /\ tasks' = [tasks EXCEPT ![s] = "done"] /\ UNCHANGED <<entry, loader>>
      /\ client' = [client EXCEPT !.status = st, !.busy = busy, !.fails = fails]
      /\ calls' = [calls EXCEPT ![s] = Call(st, busy, TRUE)]
  BY <1>1, <1>2, <1>3, Zenon DEF MarkTaskFinished
<1>5. Counted' = Counted \ {s} /\ s \in Counted
  BY <1>0, <1>4 DEF Counted
<1>6. Cardinality(Counted') = Cardinality(Counted) - 1
  BY <1>5, SlotsCounted, FS_RemoveElement
<1>7. busy = IF client.busy - 1 > 0 THEN client.busy - 1 ELSE 0
  BY <1>0, <1>2, Larger
<1>8. busy \in Busys /\ busy \in Nat
  BY <1>0, <1>7, SlotsCounted DEF Busys
<1>9. TasksTyped' /\ ClientTyped'
  BY <1>0, <1>4, <1>8 DEF TasksTyped, ClientTyped
<1>10. client'.busy = busy /\ client'.phase = client.phase
  BY <1>0, <1>4
<1>11. Cardinality(Counted') \in Nat
  <2>1. IsFiniteSet(Counted')
    BY <1>5, SlotsCounted, FS_RemoveElement
  <2>. QED BY <2>1, FS_CardinalityType
<1>12. CountInv'
  <2>1. client.phase # "down" => client'.busy = Cardinality(Counted')
    BY <1>6, <1>7, <1>10, <1>11, SlotsCounted DEF RegInv, CountInv
  <2>2. client.phase # "off"
    BY <1>5 DEF RegInv, CountInv
  <2>. QED BY <1>10, <2>1, <2>2 DEF CountInv
<1>13. RequestTyped(Call(st, busy, TRUE))
  BY <1>8, CallTypes DEF RequestTyped
<1>14. CallsTyped'
  BY <1>4, <1>13, OneCall DEF RegInv, Coroutines
<1>15. EntryTyped' /\ LoaderTyped'
  BY <1>4 DEF RegInv, EntryTyped, LoaderTyped, DocType
<1>. QED BY <1>9, <1>12, <1>14, <1>15 DEF RegInv

\* A cancelled task stays counted, and what it was posting is dropped.
LEMMA CancelledStep == ASSUME RegInv, NEW s \in Slots, TaskCancelled(s) PROVE RegInv'
<1>1. PICK r : r = IF calls[s].pc = "write" THEN calls[s] ELSE NoCall
  OBVIOUS
<1>2. /\ tasks[s] = "running" /\ tasks' = [tasks EXCEPT ![s] = "cut"]
      /\ calls' = [calls EXCEPT ![s] = r] /\ UNCHANGED <<entry, client, loader>>
  BY <1>1 DEF TaskCancelled, RegInv, CallsTyped, Coroutines
<1>3. TasksTyped /\ TasksTyped' /\ Counted' = Counted
  BY <1>2 DEF RegInv, TasksTyped, Counted
<1>4. RequestTyped(r)
  BY <1>1 DEF RegInv, CallsTyped, RequestTyped, Coroutines
<1>5. CallsTyped'
  BY <1>2, <1>4, OneCall DEF RegInv, Coroutines
<1>6. EntryTyped' /\ ClientTyped' /\ LoaderTyped' /\ CountInv'
  BY <1>2, <1>3 DEF RegInv, EntryTyped, ClientTyped, LoaderTyped, CountInv, DocType
<1>. QED BY <1>3, <1>5, <1>6 DEF RegInv

\* What a step of the server, of a service or of the clock leaves alone.
LEMMA ElseKept ==
  ASSUME RegInv, UNCHANGED <<client, tasks>>, EntryTyped', CallsTyped', LoaderTyped' PROVE RegInv'
BY DEF RegInv, ClientTyped, TasksTyped, CountInv, Counted

LEMMA Kept ==
  /\ (EntryTyped /\ UNCHANGED entry => EntryTyped')
  /\ (CallsTyped /\ UNCHANGED calls => CallsTyped')
  /\ (LoaderTyped /\ UNCHANGED loader => LoaderTyped')
BY DEF EntryTyped, CallsTyped, LoaderTyped, RequestTyped, CallType, DocType

\* Heartbeats at the server.
LEMMA ServeSteps ==
  ASSUME RegInv, NEW c \in Coroutines, ServeRead(c) \/ ServeWrite(c) PROVE RegInv'
<1>0. EntryTyped /\ CallsTyped /\ LoaderTyped /\ RequestTyped(calls[c]) /\ UNCHANGED <<client, tasks, loader>>
  BY DEF RegInv, CallsTyped, ServeRead, ServeWrite
<1>1. RequestTyped(NoCall)
  BY DEF RequestTyped
<1>2. CASE ServeWrite(c)
  <2>1. calls[c].pc = "write" /\ entry' = calls[c].doc /\ calls' = [calls EXCEPT ![c] = NoCall]
    BY <1>2 DEF ServeWrite
  <2>2. DocType(calls[c].doc)
    BY <1>0, <2>1 DEF RequestTyped, NoCall, CallType
  <2>3. EntryTyped'
    BY <2>1, <2>2 DEF EntryTyped, DocType
  <2>4. CallsTyped'
    BY <1>0, <1>1, <2>1, OneCall
  <2>. QED BY <1>0, <2>3, <2>4, Kept, ElseKept
<1>3. CASE ServeRead(c)
  <2>1. CallType(calls[c])
    BY <1>0, <1>3 DEF ServeRead, RequestTyped, NoCall
  <2>2. PICK r : r = calls[c]
    OBVIOUS
  <2>3. CASE entry # NoEntry /\ calls' = [calls EXCEPT ![c] = [pc |-> "write", doc |-> Beaten(entry, @)]] /\ UNCHANGED entry
    <3>1. DocType(Beaten(entry, r))
      BY <1>0, <2>1, <2>2, <2>3, BeatenType DEF EntryTyped
    <3>2. PICK q : q = [pc |-> "write", doc |-> Beaten(entry, r)]
      OBVIOUS
    <3>3. RequestTyped(q)
      BY <3>1, <3>2 DEF RequestTyped
    <3>4. calls' = [calls EXCEPT ![c] = q]
      BY <1>0, <2>2, <2>3, <3>2 DEF CallsTyped
    <3>. QED BY <1>0, <2>3, <3>3, <3>4, OneCall, Kept, ElseKept
  <2>4. CASE entry' = Upserted(client.status) /\ calls' = [calls EXCEPT ![c].pc = "again"]
    <3>1. client.status \in Statuses
      BY DEF RegInv, ClientTyped
    <3>2. EntryTyped'
      BY <2>4, <3>1, UpsertedType DEF EntryTyped, DocType
    <3>3. PICK q : q = [r EXCEPT !.pc = "again"]
      OBVIOUS
    <3>4. RequestTyped(q)
      <4>1. CallType(q)
        BY <2>1, <2>2, <3>3 DEF CallType
      <4>. QED BY <4>1 DEF RequestTyped
    <3>5. calls' = [calls EXCEPT ![c] = q]
      BY <1>0, <2>2, <2>4, <3>3 DEF CallsTyped
    <3>. QED BY <1>0, <3>2, <3>4, <3>5, OneCall, Kept, ElseKept
  <2>5. CASE calls' = [calls EXCEPT ![c] = NoCall] /\ UNCHANGED entry
    BY <1>0, <1>1, <2>5, OneCall, Kept, ElseKept
  <2>. QED BY <1>3, <2>3, <2>4, <2>5 DEF ServeRead
<1>. QED BY <1>2, <1>3

\* The services that write contract-net metadata.
LEMMA LoaderSteps ==
  ASSUME RegInv, NEW l \in Loaders,
         (\E kind \in {"award", "report"} : LoadRead(l, kind)) \/ LoadBeat(l) \/ LoadWrite(l)
  PROVE  RegInv'
<1>0. EntryTyped /\ CallsTyped /\ LoaderTyped /\ UNCHANGED <<client, tasks, calls>>
  BY DEF RegInv, LoadRead, LoadBeat, LoadWrite
<1>01. MaxLoad \in Nat
  BY RegAssumption
<1>1. ASSUME NEW kind \in {"award", "report"}, LoadRead(l, kind) PROVE RegInv'
  <2>1. PICK q : q = [pc |-> "get", busy |-> entry.busy, load |-> NewLoad(entry, kind)]
    OBVIOUS
  <2>2. loader' = [loader EXCEPT ![l] = q] /\ UNCHANGED entry /\ entry # NoEntry
    BY <1>1, <2>1 DEF LoadRead
  <2>3. DocType(entry) /\ entry.load \in Loads /\ entry.load \in Nat
    BY <1>0, <2>2 DEF EntryTyped, DocType
  <2>4. NewLoad(entry, kind) \in Loads
    <3>1. CASE kind = "award"
      <4>1. PICK m \in {entry.load + 1, MaxLoad} : m = Min({entry.load + 1, MaxLoad}) /\ \A y \in {entry.load + 1, MaxLoad} : m <= y
        <5>1. \E m \in {entry.load + 1, MaxLoad} : \A y \in {entry.load + 1, MaxLoad} : m <= y
          BY <1>01, <2>3
        <5>. QED BY <5>1 DEF Min
      <4>. QED BY <1>01, <2>3, <3>1, <4>1 DEF NewLoad, Loads
    <3>2. CASE kind = "report"
      <4>1. Max({entry.load - 1, 0}) = IF entry.load - 1 > 0 THEN entry.load - 1 ELSE 0
        <5>1. {entry.load - 1, 0} = {0, entry.load - 1} /\ entry.load - 1 \in Int
          BY <2>3
        <5>. QED BY <5>1, Larger
      <4>. QED BY <1>01, <2>3, <3>2, <4>1 DEF NewLoad, Loads
    <3>. QED BY <3>1, <3>2
  <2>5. q.pc = "get" /\ q.busy \in Busys /\ q.load \in Loads
    BY <2>1, <2>3, <2>4 DEF DocType
  <2>. QED BY <1>0, <2>2, <2>5, OneLoader, Kept, ElseKept
<1>2. CASE LoadBeat(l)
  <2>1. PICK call : call = [status |-> "keep", ttl |-> TRUE, busy |-> loader[l].busy, load |-> loader[l].load]
    OBVIOUS
  <2>2. loader[l].pc = "get" /\ loader[l].busy \in Busys /\ loader[l].load \in Loads
    BY <1>0, <1>2 DEF LoadBeat, LoaderTyped
  <2>3. UNCHANGED entry /\ loader' = [loader EXCEPT ![l] = IF entry = NoEntry THEN NoCall ELSE [pc |-> "write", doc |-> Beaten(entry, call)]]
    BY <1>2, <2>1 DEF LoadBeat
  <2>4. CASE entry = NoEntry
    <3>1. NoCall.pc = "idle" /\ loader' = [loader EXCEPT ![l] = NoCall]
      BY <2>3, <2>4 DEF NoCall
    <3>. QED BY <1>0, <2>3, <3>1, OneLoader, Kept, ElseKept
  <2>5. CASE entry # NoEntry
    <3>1. DocType(entry)
      BY <1>0, <2>5 DEF EntryTyped
    <3>2. PICK full : full = [pc |-> "post", status |-> "keep", ttl |-> TRUE, busy |-> loader[l].busy, load |-> loader[l].load]
      OBVIOUS
    <3>3. CallType(full)
      BY <1>01, <2>2, <3>2, SlotsCounted DEF CallType, Busys, Loads
    <3>4. Beaten(entry, call) = Beaten(entry, full)
      BY <2>1, <3>2 DEF Beaten
    <3>5. DocType(Beaten(entry, call))
      BY <3>1, <3>3, <3>4, BeatenType
    <3>6. PICK q : q = [pc |-> "write", doc |-> Beaten(entry, call)]
      OBVIOUS
    <3>7. loader' = [loader EXCEPT ![l] = q] /\ q.pc = "write" /\ DocType(q.doc)
      BY <2>3, <2>5, <3>5, <3>6
    <3>. QED BY <1>0, <2>3, <3>7, OneLoader, Kept, ElseKept
  <2>. QED BY <2>4, <2>5
<1>3. CASE LoadWrite(l)
  <2>1. entry' = loader[l].doc /\ DocType(loader[l].doc) /\ loader' = [loader EXCEPT ![l] = NoCall]
    BY <1>0, <1>3 DEF LoadWrite, LoaderTyped
  <2>2. EntryTyped'
    BY <2>1 DEF EntryTyped, DocType
  <2>3. NoCall.pc = "idle"
    BY DEF NoCall
  <2>. QED BY <1>0, <2>1, <2>2, <2>3, OneLoader, Kept, ElseKept
<1>. QED BY <1>1, <1>2, <1>3

\* Operators, the seeding of entries, and time.
LEMMA EntrySteps == ASSUME RegInv, DeleteAgent \/ Seed \/ Tick \/ Expire PROVE RegInv'
<1>0. EntryTyped /\ CallsTyped /\ LoaderTyped /\ UNCHANGED <<client, tasks, calls, loader>>
  BY DEF RegInv, DeleteAgent, Seed, Tick, Expire
<1>1. EntryTyped'
  <2>1. CASE DeleteAgent \/ Expire
    BY <2>1 DEF DeleteAgent, Expire, EntryTyped, NoEntry
  <2>2. CASE Seed
    BY <2>2, UpsertedType DEF Seed, EntryTyped, DocType, Statuses
  <2>3. CASE Tick
    <3>1. DocType(entry) /\ entry' = [entry EXCEPT !.age = entry.age + 1]
      BY <1>0, <2>3 DEF Tick, EntryTyped
    <3>. QED BY <3>1 DEF EntryTyped, DocType
  <2>. QED BY <2>1, <2>2, <2>3
<1>. QED BY <1>0, <1>1, Kept, ElseKept

\* The count an agent advertises is the number of its tasks that run or were cancelled,
\* in whatever order tasks start, end, fail, are cut off and report (mark_task_started,
\* mark_task_finished, which a CancelledError skips);
\* and no document, however old the copy that a heartbeat or a service writes back,
\* carries a load or a count outside its bounds.
THEOREM CountsAreRight == RegSpec => []BusyCountsTasks
<1>1. RegInit => RegInv
  BY RegStart
<1>2. RegInv /\ [RegNext]_regVars => RegInv'
  <2>1. CASE RegNext
    BY <2>1, ClientSteps, StartedStep, CancelledStep, FinishedStep, ServeSteps, LoaderSteps, EntrySteps DEF RegNext
  <2>2. ASSUME RegInv, UNCHANGED regVars PROVE RegInv'
    <3>1. UNCHANGED <<client, tasks, entry, calls, loader>>
      BY <2>2 DEF regVars
    <3>. QED BY <2>2, <3>1, Kept, ElseKept DEF RegInv
  <2>. QED BY <2>1, <2>2
<1>3. RegInv => BusyCountsTasks
  <2>1. RegInv /\ Alive => client.busy = Cardinality({s \in Slots : tasks[s] \in {"running", "cut"}})
    BY DEF RegInv, CountInv, Alive, Counted
  <2>2. RegInv /\ entry # NoEntry => entry.load \in 0..MaxLoad /\ entry.busy \in 0..Cardinality(Slots)
    BY DEF RegInv, EntryTyped, DocType, Busys, Loads
  <2>. QED BY <2>1, <2>2 DEF BusyCountsTasks
<1>. QED BY <1>1, <1>2, <1>3, PTL DEF RegSpec

-----------------------------------------------------------------------------
(***************************************************************************)
(* The marker store behind the REST routes: lists in their order.          *)
(***************************************************************************)
\* Documents that one list may hold: of one kind, no two saved at once.
Sortable(S) ==
  /\ IsFiniteSet(S)
  /\ \A d \in S : d.at \in Nat /\ d.id \in Nat
  /\ \A d, e \in S : d.kind = e.kind /\ (d.at = e.at => d = e)

\* ORDER BY is a strict total order on them.
LEMMA BeforeOrders ==
  ASSUME NEW S, Sortable(S)
  PROVE  /\ \A d \in S : ~Before(d, d)
         /\ \A d, e \in S : d = e \/ Before(d, e) \/ Before(e, d)
         /\ \A d, e, f \in S : Before(d, e) /\ Before(e, f) => Before(d, f)
BY DEF Sortable, Before, Newest, HighestRevision

\* The rank of a document in a list.
LEMMA RankFacts ==
  ASSUME NEW S, Sortable(S)
  PROVE  /\ Cardinality(S) \in Nat
         /\ \A d \in S : Rank(d, S) \in Nat /\ Rank(d, S) < Cardinality(S)
         /\ \A d, e \in S : Rank(d, S) = Rank(e, S) => d = e
<1>. DEFINE Ahead(d) == {e \in S : Before(e, d)}
<1>1. IsFiniteSet(S) /\ Cardinality(S) \in Nat
  BY FS_CardinalityType DEF Sortable
<1>2. ASSUME NEW d \in S
      PROVE  /\ IsFiniteSet(Ahead(d)) /\ Rank(d, S) = Cardinality(Ahead(d))
             /\ Rank(d, S) \in Nat /\ Rank(d, S) < Cardinality(S)
  <2>1. Ahead(d) \in SUBSET (S \ {d})
    BY BeforeOrders
  <2>2. IsFiniteSet(S \ {d}) /\ Cardinality(S \ {d}) = Cardinality(S) - 1
    BY <1>1, FS_RemoveElement
  <2>3. IsFiniteSet(Ahead(d)) /\ Cardinality(Ahead(d)) <= Cardinality(S \ {d})
    BY <2>1, <2>2, FS_Subset
  <2>4. Cardinality(Ahead(d)) \in Nat
    BY <2>3, FS_CardinalityType
  <2>. QED BY <1>1, <2>2, <2>3, <2>4 DEF Rank
<1>3. ASSUME NEW d \in S, NEW e \in S, Before(d, e) PROVE Rank(d, S) < Rank(e, S)
  <2>1. Ahead(d) \in SUBSET Ahead(e) /\ d \in Ahead(e) /\ d \notin Ahead(d)
    BY <1>3, BeforeOrders
  <2>2. Cardinality(Ahead(d)) <= Cardinality(Ahead(e)) /\ Cardinality(Ahead(d)) # Cardinality(Ahead(e))
    BY <1>2, <2>1, FS_Subset
  <2>3. /\ Rank(d, S) = Cardinality(Ahead(d)) /\ Rank(d, S) \in Nat
        /\ Rank(e, S) = Cardinality(Ahead(e)) /\ Rank(e, S) \in Nat
    BY <1>2
  <2>. HIDE DEF Ahead
  <2>. QED BY <2>2, <2>3
<1>4. ASSUME NEW d \in S, NEW e \in S, Rank(d, S) = Rank(e, S) PROVE d = e
  <2>1. d = e \/ Before(d, e) \/ Before(e, d)
    BY BeforeOrders
  <2>2. Rank(d, S) \in Nat /\ Rank(e, S) \in Nat
    BY <1>2
  <2>3. ~(Rank(d, S) < Rank(e, S)) /\ ~(Rank(e, S) < Rank(d, S))
    BY <1>4, <2>2
  <2>4. ~Before(d, e) /\ ~Before(e, d)
    BY <1>3, <2>3, Zenon
  <2>. QED BY <2>1, <2>4
<1>. HIDE DEF Ahead
<1>. QED BY <1>1, <1>2, <1>4

\* InOrder lists every document of a set once, each at its rank.
LEMMA InOrderFacts ==
  ASSUME NEW S, Sortable(S)
  PROVE  LET s == InOrder(S)
             n == Cardinality(S)
         IN /\ n \in Nat /\ s \in [1..n -> S] /\ s \in Seq(S) /\ Len(s) = n
            /\ ToSet(s) = S
            /\ \A d \in S : Rank(d, S) + 1 \in 1..n /\ s[Rank(d, S) + 1] = d
<1>. DEFINE s == InOrder(S)
            n == Cardinality(S)
            f == [d \in S |-> Rank(d, S) + 1]
<1>1. n \in Nat /\ IsFiniteSet(S) /\ IsFiniteSet(1..n) /\ Cardinality(1..n) = n
  BY RankFacts, FS_Interval DEF Sortable
<1>2. f \in Injection(S, 1..n)
  <2>1. f \in [S -> 1..n]
    BY RankFacts
  <2>2. \A d, e \in S : f[d] = f[e] => d = e
    BY RankFacts
  <2>. QED BY <2>1, <2>2 DEF Injection, IsInjective
<1>3. f \in Surjection(S, 1..n)
  BY <1>1, <1>2, FS_Injection
<1>4. \A i \in 1..n : \E d \in S : Rank(d, S) = i - 1
  <2>1. \A i \in 1..n : \E d \in S : f[d] = i
    BY <1>3 DEF Surjection
  <2>. QED BY <2>1, RankFacts
<1>5. \A i \in 1..n : s[i] \in S /\ Rank(s[i], S) = i - 1
  BY <1>4 DEF InOrder
<1>6. s \in [1..n -> S]
  BY <1>5 DEF InOrder
<1>7. \A d \in S : Rank(d, S) + 1 \in 1..n /\ s[Rank(d, S) + 1] = d
  BY <1>1, <1>5, RankFacts
<1>8. s \in Seq(S) /\ Len(s) = n
  BY <1>1, <1>6
<1>9. ToSet(s) = S
  BY <1>6, <1>7 DEF ToSet
<1>. QED BY <1>1, <1>6, <1>7, <1>8, <1>9

\* A set of documents with the keys of another one, and more, is no smaller.
LEMMA MoreKeys ==
  ASSUME NEW S, NEW T, IsFiniteSet(T),
         \A d, e \in S : SameKey(d, e) => d = e,
         \A d \in S : \E e \in T : SameKey(d, e)
  PROVE  IsFiniteSet(S) /\ Cardinality(S) <= Cardinality(T)
<1>. DEFINE f == [d \in S |-> CHOOSE e \in T : SameKey(d, e)]
<1>1. \A d \in S : f[d] \in T /\ SameKey(d, f[d])
  OBVIOUS
<1>2. f \in Injection(S, T)
  <2>1. f \in [S -> T]
    BY <1>1
  <2>2. ASSUME NEW d \in S, NEW e \in S, f[d] = f[e] PROVE d = e
    <3>1. SameKey(d, f[d]) /\ SameKey(e, f[d])
      BY <1>1, <2>2
    <3>. HIDE DEF f
    <3>2. SameKey(d, e)
      BY <3>1 DEF SameKey
    <3>. QED BY <3>2
  <2>. QED BY <2>1, <2>2 DEF Injection, IsInjective
<1>. QED BY <1>2, FS_Injection

-----------------------------------------------------------------------------
(***************************************************************************)
(* What the documents are like. Copies of the latest decision and of the    *)
(* policy are the only documents that an older one may overwrite.           *)
(***************************************************************************)
LatestKinds == {"human_approval_latest", "ethics_check_latest", "ethics_policy_active"}
UserKinds == {"task_spec", "plan_suggestion", "ethics_policy", "cnp_cycle"}
OwnedKinds ==
  {"affordance", "reservation", "bid", "plan_draft", "plan_revision", "cfp", "award",
   "human_approval", "ethics_check", "strategy", "execution", "audit", "escalation",
   "decision", "topology_outcome", "coalition_outcome"}

Wellformed(d) ==
  /\ d.id \in Nat /\ d.at \in Nat /\ d.tag \in Tags
  /\ d.kind \in LatestKinds => d.id = 0
  /\ d.kind \in UserKinds => d.owner = "user"
  /\ d.kind \in OwnedKinds => d.owner \in Owners

OneEach(D) == \A d, e \in D : SameKey(d, e) => d = e
Begun(s, n) ==
  /\ s.kind \in CopiedKinds
  /\ s.at \in Nat /\ s.at <= n /\ s.tag \in Tags

\* A document has a copy that is as new, or will have one; and no save under way
\* would put an older copy in the place of that one.
HasCopy(d, D, S) ==
  \/ \E s \in S : Pair(s) = Pair(d) /\ s.at = d.at
  \/ \E e \in D : e.kind = LatestKind(d.kind) /\ e.owner = d.owner /\ e.id = 0 /\ e.at >= d.at
CopiesHold ==
  /\ \A d \in docs : d.kind \in CopiedKinds /\ Pair(d) \notin torn => HasCopy(d, docs, saving)
  /\ \A s \in saving, d \in docs : Pair(s) = Pair(d) /\ Pair(s) \notin torn => d.at <= s.at

StoreInv ==
  /\ writes \in Nat /\ IsFiniteSet(docs) /\ IsFiniteSet(indexed)
  /\ \A d \in docs \cup indexed : Wellformed(d) /\ d.at <= writes
  /\ \A s \in saving : Begun(s, writes)
  /\ OneEach(docs) /\ OneEach(indexed)
  /\ \A d, e \in docs \cup indexed :
       d.kind = e.kind /\ d.at = e.at /\ d.kind \notin LatestKinds => d = e
  /\ \A d \in docs, e \in indexed :
       SameKey(d, e) /\ d.kind \notin LatestKinds => e.at <= d.at
  /\ \A e \in indexed :
       e.kind \notin {"affordance", "reservation"} => \E d \in docs : SameKey(d, e)
  /\ CopiesHold

(***************************************************************************)
(* The ways in which the documents change.                                 *)
(***************************************************************************)
\* One document is written, under a new version; if there is to be a copy of it,
\* the save is under way with it.
Wrote(e) ==
  /\ Wellformed(e) /\ e.at = writes + 1 /\ writes' = writes + 1
  /\ e.kind \notin LatestKinds
  /\ docs' = Put(docs, e) /\ UNCHANGED indexed
  /\ e.kind \notin CopiedKinds => UNCHANGED <<saving, torn>>
  /\ e.kind \in CopiedKinds =>
       \E s : /\ saving' = saving \cup {s} /\ Begun(s, writes + 1)
              /\ s.at = e.at /\ Pair(s) = Pair(e)
              /\ torn' = IF \E r \in saving : Pair(r) = Pair(s)
                         THEN torn \cup {Pair(s)} ELSE torn

\* The copy of a document is written.
Copied(c) ==
  /\ Wellformed(c) /\ c.at <= writes /\ c.kind \in LatestKinds
  /\ docs' = Put(docs, c) /\ UNCHANGED <<indexed, torn, writes>>
  /\ \E s \in saving : /\ saving' = saving \ {s} /\ c.at = s.at /\ c.id = 0
                        /\ c.kind = LatestKind(s.kind) /\ c.owner = s.owner

StoreMoved ==
  \/ \E e : Wrote(e)
  \/ \E c : Copied(c)
  \/ \E s \in saving : SaveCut(s)
  \/ \E d \in docs : ExpireMarker(d) \/ Index(d)
  \/ \E d \in indexed : Unindex(d)

\* Every plain save writes one document.
LEMMA SimpleMoves ==
  ASSUME StoreInv, NEW kind, NEW owner, NEW id \in Nat, NEW tag \in Tags,
         kind \notin LatestKinds \cup CopiedKinds,
         kind \in UserKinds => owner = "user", kind \in OwnedKinds => owner \in Owners,
         Simple(kind, owner, id, tag)
  PROVE  StoreMoved
<1>. DEFINE e == [kind |-> kind, owner |-> owner, id |-> IF id = 0 THEN 101 + writes ELSE id,
                  tag |-> tag, at |-> writes + 1]
<1>1. writes \in Nat
  BY DEF StoreInv
<1>2. writes' = writes + 1 /\ docs' = Put(docs, e) /\ UNCHANGED <<indexed, saving, torn>>
  <2>1. 100 + (writes + 1) = 101 + writes
    BY <1>1
  <2>. QED BY <2>1 DEF Save, Simple
<1>3. Wellformed(e)
  BY <1>1 DEF Wellformed
<1>4. e.at = writes + 1 /\ e.kind = kind
  OBVIOUS
<1>. HIDE DEF e
<1>5. Wrote(e)
  BY <1>2, <1>3, <1>4 DEF Wrote
<1>. QED BY <1>5 DEF StoreMoved

\* The first of two writes.
LEMMA BeginMoves ==
  ASSUME StoreInv, NEW kind \in CopiedKinds, NEW owner, NEW id \in Nat, NEW tag \in Tags,
         kind \in UserKinds => owner = "user", kind \in OwnedKinds => owner \in Owners,
         Begin(kind, owner, id, tag)
  PROVE  StoreMoved
<1>. DEFINE e == [kind |-> kind, owner |-> owner, id |-> IF id = 0 THEN 101 + writes ELSE id,
                  tag |-> tag, at |-> writes + 1]
            s == [kind |-> kind, owner |-> owner, tag |-> tag, at |-> writes + 1]
<1>1. writes \in Nat
  BY DEF StoreInv
<1>2. writes' = writes + 1 /\ docs' = Put(docs, e) /\ UNCHANGED indexed
  <2>1. 100 + (writes + 1) = 101 + writes
    BY <1>1
  <2>. QED BY <2>1 DEF Save, Begin
<1>3. Wellformed(e)
  BY <1>1 DEF Wellformed, LatestKinds, CopiedKinds
<1>4. /\ e.at = writes + 1 /\ e.kind = kind /\ kind \notin LatestKinds
      /\ s.at = e.at /\ Pair(s) = Pair(e) /\ Begun(s, writes + 1)
  BY <1>1 DEF Pair, Begun, CopiedKinds, LatestKinds
<1>5. /\ saving' = saving \cup {s}
      /\ torn' = IF \E r \in saving : Pair(r) = Pair(s) THEN torn \cup {Pair(s)} ELSE torn
  BY DEF Begin
<1>. HIDE DEF e, s
<1>6. Wrote(e)
  BY <1>2, <1>3, <1>4, <1>5 DEF Wrote
<1>. QED BY <1>6 DEF StoreMoved

LEMMA StoreMoves == ASSUME StoreInv, StoreNext PROVE StoreMoved
<1>. USE DEF LatestKinds, UserKinds, OwnedKinds, CopiedKinds
<1>1. ASSUME NEW o \in Owners, NEW t \in Tags,
             \/ AddAffordanceMarker(o, t) \/ AddReservationMarker(o, t)
             \/ SavePlanDraft(o, t) \/ SaveStrategyPlan(o, t)
             \/ SaveExecutionReport(o, t) \/ SaveEscalationNotice(o, t) \/ AddAuditLog(o, t)
             \/ SaveDecisionRecord(o, t) \/ SaveTopologyOutcome(o, t)
             \/ SaveCoalitionContract(o, t) \/ SaveCoalitionOutcome(o, t)
             \/ AddBid(o, t) \/ AddCfp(o, t) \/ AddContractAward(o, t)
      PROVE  StoreMoved
  <2>1. PICK kind \in (OwnedKinds \cup {"coalition_contract"}) \ CopiedKinds, id \in {0, 1} :
          Simple(kind, o, id, t)
    BY <1>1 DEF AddAffordanceMarker, AddReservationMarker, SavePlanDraft, SaveStrategyPlan,
         SaveExecutionReport, SaveEscalationNotice, AddAuditLog, SaveDecisionRecord,
         SaveTopologyOutcome, SaveCoalitionContract, SaveCoalitionOutcome, AddBid, AddCfp,
         AddContractAward
  <2>. QED BY <2>1, SimpleMoves
<1>2. ASSUME NEW o \in Owners, NEW t \in Tags, SaveHumanApproval(o, t) \/ SaveEthicsCheck(o, t)
      PROVE  StoreMoved
  <2>1. PICK kind \in {"human_approval", "ethics_check"} : Begin(kind, o, 0, t)
    BY <1>2 DEF SaveHumanApproval, SaveEthicsCheck
  <2>. QED BY <2>1, BeginMoves DEF CopiedKinds
<1>3. ASSUME NEW o \in Owners, NEW t \in Tags, NEW i \in Ids,
             SavePlanRevision(o, i, t) \/ SaveCoalitionSignal(o, i, t)
      PROVE  StoreMoved
  BY <1>3, SimpleMoves, StoreAssumption DEF SavePlanRevision, SaveCoalitionSignal
<1>4. ASSUME NEW i \in Ids, NEW t \in Tags,
             \/ UpsertTaskSpec(i, t) \/ SavePlanSuggestion(i, t)
             \/ SaveTopologyPerformance(i, t) \/ SaveCnpCycle(i, t)
      PROVE  StoreMoved
  BY <1>4, SimpleMoves, StoreAssumption
     DEF UpsertTaskSpec, SavePlanSuggestion, SaveTopologyPerformance, SaveCnpCycle
<1>5. ASSUME NEW i \in Ids, NEW t \in Tags, SaveEthicsPolicy(i, t) PROVE StoreMoved
  BY <1>5, BeginMoves, StoreAssumption DEF SaveEthicsPolicy, CopiedKinds
<1>6. ASSUME NEW s \in saving, SaveLatest(s) PROVE StoreMoved
  <2>. DEFINE c == [kind |-> LatestKind(s.kind), owner |-> s.owner, id |-> 0,
                    tag |-> s.tag, at |-> s.at]
  <2>1. Begun(s, writes)
    BY DEF StoreInv
  <2>2. Wellformed(c) /\ c.at <= writes /\ c.kind \in LatestKinds
    BY <2>1 DEF Wellformed, Begun, LatestKind, CopiedKinds
  <2>3. Copied(c)
    BY <1>6, <2>2 DEF SaveLatest, Copied
  <2>. HIDE DEF c
  <2>. QED BY <2>3 DEF StoreMoved
<1>7. ASSUME NEW s \in saving, SaveCut(s) PROVE StoreMoved
  BY <1>7 DEF StoreMoved
<1>8. ASSUME NEW d \in docs, ExpireMarker(d) \/ Index(d) PROVE StoreMoved
  BY <1>8 DEF StoreMoved
<1>9. ASSUME NEW d \in indexed, Unindex(d) PROVE StoreMoved
  BY <1>9 DEF StoreMoved
<1>. QED BY <1>1, <1>2, <1>3, <1>4, <1>5, <1>6, <1>7, <1>8, <1>9 DEF StoreNext

-----------------------------------------------------------------------------
\* A write with a new version keeps the documents as StoreInv describes them.
LEMMA PutKeeps ==
  ASSUME StoreInv, NEW e, Wellformed(e), e.at = writes + 1
  PROVE  /\ IsFiniteSet(Put(docs, e)) /\ OneEach(Put(docs, e))
         /\ \A d \in Put(docs, e) : Wellformed(d) /\ d.at <= writes + 1
         /\ \A d \in Put(docs, e) : d = e \/ (d \in docs /\ ~SameKey(d, e))
         /\ \A d \in docs : d \in Put(docs, e) \/ SameKey(d, e)
         /\ e \in Put(docs, e)
<1>. DEFINE R == {d \in docs : ~SameKey(d, e)}
<1>1. IsFiniteSet(R)
  BY FS_Subset DEF StoreInv
<1>2. IsFiniteSet(Put(docs, e))
  BY <1>1, FS_AddElement DEF Put
<1>3. OneEach(Put(docs, e))
  BY DEF OneEach, Put, SameKey, StoreInv
<1>4. \A d \in Put(docs, e) : Wellformed(d) /\ d.at <= writes + 1
  BY DEF Put, StoreInv, Wellformed
<1>. QED BY <1>2, <1>3, <1>4 DEF Put

\* No copy gets lost with a new document.
LEMMA WroteCopies == ASSUME StoreInv, NEW e, Wrote(e) PROVE CopiesHold'
<1>0. writes \in Nat /\ writes' = writes + 1 /\ docs' = Put(docs, e) /\ e.at = writes + 1
  BY DEF StoreInv, Wrote
<1>1. /\ \A d \in docs' : d = e \/ (d \in docs /\ ~SameKey(d, e))
      /\ \A d \in docs : d \in docs' \/ SameKey(d, e)
  BY <1>0, PutKeeps DEF Wrote
<1>2. saving \subseteq saving' /\ torn \subseteq torn'
  BY DEF Wrote
<1>3. e.kind \in CopiedKinds => \E s \in saving' : Pair(s) = Pair(e) /\ s.at = e.at
  BY DEF Wrote
<1>4. ASSUME NEW d \in docs', d.kind \in CopiedKinds, Pair(d) \notin torn'
      PROVE  HasCopy(d, docs', saving')
  <2>1. CASE d = e
    BY <1>3, <1>4, <2>1 DEF HasCopy
  <2>2. CASE d \in docs
    <3>1. HasCopy(d, docs, saving)
      BY <1>2, <1>4, <2>2 DEF StoreInv, CopiesHold
    <3>2. \A f \in docs : f.kind = LatestKind(d.kind) => f \in docs'
      BY <1>1, <1>4 DEF Wrote, SameKey, LatestKind, LatestKinds, CopiedKinds
    <3>. QED BY <1>2, <3>1, <3>2 DEF HasCopy
  <2>. QED BY <1>1, <2>1, <2>2
<1>5. ASSUME NEW s \in saving', NEW d \in docs', Pair(s) = Pair(d), Pair(s) \notin torn'
      PROVE  d.at <= s.at
  <2>1. d.at \in Nat /\ d.at <= writes + 1
    BY <1>0, <1>1 DEF StoreInv, Wellformed
  <2>2. CASE s \in saving /\ d \in docs
    BY <1>2, <1>5, <2>2 DEF StoreInv, CopiesHold
  <2>3. CASE s \in saving /\ d = e
    <3>1. e.kind = s.kind /\ s.kind \in CopiedKinds
      BY <1>5, <2>3 DEF Pair, StoreInv, Begun
    <3>2. Pair(e) \in torn'
      BY <1>5, <2>3, <3>1 DEF Wrote
    <3>. QED BY <1>5, <2>3, <3>2
  <2>4. CASE s \notin saving
    <3>1. s.at = writes + 1
      BY <1>0, <1>5, <2>4 DEF Wrote
    <3>. QED BY <2>1, <3>1
  <2>. QED BY <1>1, <2>2, <2>3, <2>4
<1>. QED BY <1>4, <1>5 DEF CopiesHold

LEMMA WroteKeeps == ASSUME StoreInv, NEW e, Wrote(e) PROVE StoreInv'
<1>0. writes \in Nat /\ writes' = writes + 1 /\ docs' = Put(docs, e) /\ indexed' = indexed
  BY DEF StoreInv, Wrote
<1>1. /\ IsFiniteSet(docs') /\ OneEach(docs')
      /\ \A d \in docs' : Wellformed(d) /\ d.at <= writes'
      /\ \A d \in docs' : d = e \/ (d \in docs /\ ~SameKey(d, e))
      /\ \A d \in docs : d \in docs' \/ SameKey(d, e)
      /\ e \in docs'
  BY <1>0, PutKeeps DEF Wrote
<1>2. \A d \in docs' \cup indexed' : Wellformed(d) /\ d.at <= writes'
  BY <1>0, <1>1 DEF StoreInv, Wellformed
<1>3. \A s \in saving' : Begun(s, writes')
  <2>1. \A s \in saving : Begun(s, writes + 1)
    BY <1>0 DEF StoreInv, Begun
  <2>. QED BY <1>0, <2>1 DEF Wrote
<1>4. \A d, f \in docs' \cup indexed' :
        d.kind = f.kind /\ d.at = f.at /\ d.kind \notin LatestKinds => d = f
  <2>1. \A d \in docs \cup indexed : d.at # e.at
    BY <1>0 DEF StoreInv, Wellformed, Wrote
  <2>. QED BY <1>0, <1>1, <2>1 DEF StoreInv
<1>5. \A d \in docs', f \in indexed' : SameKey(d, f) /\ d.kind \notin LatestKinds => f.at <= d.at
  <2>1. \A f \in indexed : f.at <= e.at
    BY <1>0 DEF StoreInv, Wellformed, Wrote
  <2>. QED BY <1>0, <1>1, <2>1 DEF StoreInv
<1>6. ASSUME NEW f \in indexed', f.kind \notin {"affordance", "reservation"}
      PROVE  \E d \in docs' : SameKey(d, f)
  <2>1. PICK d \in docs : SameKey(d, f)
    BY <1>0, <1>6 DEF StoreInv
  <2>2. CASE SameKey(d, e)
    BY <1>1, <2>1, <2>2 DEF SameKey
  <2>. QED BY <1>1, <2>1, <2>2
<1>7. CopiesHold'
  BY <1>0, WroteCopies
<1>. QED BY <1>0, <1>1, <1>2, <1>3, <1>4, <1>5, <1>6, <1>7 DEF StoreInv

LEMMA CopyKeeps == ASSUME StoreInv, NEW c, Copied(c) PROVE StoreInv'
<1>0. /\ writes \in Nat /\ writes' = writes /\ indexed' = indexed /\ saving' \subseteq saving
      /\ torn' = torn /\ docs' = Put(docs, c) /\ c.kind \in LatestKinds /\ Wellformed(c) /\ c.at <= writes
  BY DEF StoreInv, Copied
<1>1. /\ \A d \in docs' : d = c \/ (d \in docs /\ ~SameKey(d, c))
      /\ \A d \in docs : d \in docs' \/ SameKey(d, c)
      /\ c \in docs'
  BY <1>0 DEF Put
<1>2. IsFiniteSet(docs') /\ OneEach(docs')
  <2>1. IsFiniteSet({d \in docs : ~SameKey(d, c)})
    BY FS_Subset DEF StoreInv
  <2>2. IsFiniteSet(docs')
    BY <1>0, <2>1, FS_AddElement DEF Put
  <2>3. \A d, f \in docs : SameKey(d, f) => d = f
    BY DEF StoreInv, OneEach
  <2>4. \A d, f : SameKey(d, f) => SameKey(f, d)
    BY DEF SameKey
  <2>5. OneEach(docs')
    BY <1>1, <2>3, <2>4 DEF OneEach
  <2>. QED BY <2>2, <2>5
<1>3. \A d \in docs' \cup indexed' : Wellformed(d) /\ d.at <= writes'
  BY <1>0, <1>1 DEF StoreInv
<1>4. \A s \in saving' : Begun(s, writes')
  BY <1>0 DEF StoreInv
<1>5. \A d, f \in docs' \cup indexed' :
        d.kind = f.kind /\ d.at = f.at /\ d.kind \notin LatestKinds => d = f
  BY <1>0, <1>1 DEF StoreInv
<1>6. \A d \in docs', f \in indexed' : SameKey(d, f) /\ d.kind \notin LatestKinds => f.at <= d.at
  BY <1>0, <1>1 DEF StoreInv
<1>7. ASSUME NEW f \in indexed', f.kind \notin {"affordance", "reservation"}
      PROVE  \E d \in docs' : SameKey(d, f)
  <2>1. PICK d \in docs : SameKey(d, f)
    BY <1>0, <1>7 DEF StoreInv
  <2>2. CASE SameKey(d, c)
    BY <1>1, <2>1, <2>2 DEF SameKey
  <2>. QED BY <1>1, <2>1, <2>2
<1>8. ASSUME NEW d \in docs', d.kind \in CopiedKinds, Pair(d) \notin torn'
      PROVE  HasCopy(d, docs', saving')
  <2>1. PICK s \in saving : /\ saving' = saving \ {s} /\ c.at = s.at /\ c.id = 0
                             /\ c.kind = LatestKind(s.kind) /\ c.owner = s.owner
    BY DEF Copied
  <2>2. s.kind \in CopiedKinds /\ s.at \in Nat
    BY DEF StoreInv, Begun
  <2>3. d \in docs
    BY <1>0, <1>1, <1>8 DEF LatestKinds, CopiedKinds
  <2>4. HasCopy(d, docs, saving)
    BY <1>0, <1>8, <2>3 DEF StoreInv, CopiesHold
  <2>5. Pair(s) = Pair(d) => c.kind = LatestKind(d.kind) /\ c.owner = d.owner /\ d.at <= c.at
    BY <1>0, <1>8, <2>1, <2>3 DEF StoreInv, CopiesHold, Pair
  <2>6. c.kind = LatestKind(d.kind) /\ c.owner = d.owner => Pair(s) = Pair(d)
    BY <1>8, <2>1, <2>2 DEF CopiedKinds, LatestKind, Pair
  <2>7. CASE \E r \in saving : Pair(r) = Pair(d) /\ r.at = d.at
    <3>1. PICK r \in saving : Pair(r) = Pair(d) /\ r.at = d.at
      BY <2>7
    <3>2. CASE r = s
      BY <1>1, <2>1, <2>5, <3>1, <3>2 DEF HasCopy
    <3>3. CASE r # s
      BY <2>1, <3>1, <3>3 DEF HasCopy
    <3>. QED BY <3>2, <3>3
  <2>8. CASE \E e \in docs : e.kind = LatestKind(d.kind) /\ e.owner = d.owner /\ e.id = 0 /\ e.at >= d.at
    <3>1. PICK e \in docs : e.kind = LatestKind(d.kind) /\ e.owner = d.owner /\ e.id = 0 /\ e.at >= d.at
      BY <2>8
    <3>2. CASE e \in docs'
      BY <3>1, <3>2 DEF HasCopy
    <3>3. CASE SameKey(e, c)
      BY <1>1, <2>1, <2>5, <2>6, <3>1, <3>3 DEF HasCopy, SameKey
    <3>. QED BY <1>1, <3>2, <3>3
  <2>. QED BY <2>4, <2>7, <2>8 DEF HasCopy
<1>9. ASSUME NEW s \in saving', NEW d \in docs', Pair(s) = Pair(d), Pair(s) \notin torn'
      PROVE  d.at <= s.at
  <2>1. d.kind \in CopiedKinds
    BY <1>0, <1>9 DEF StoreInv, Begun, Pair
  <2>2. d \in docs
    BY <1>0, <1>1, <2>1 DEF LatestKinds, CopiedKinds
  <2>. QED BY <1>0, <1>9, <2>2 DEF StoreInv, CopiesHold
<1>10. CopiesHold'
  BY <1>8, <1>9 DEF CopiesHold
<1>. QED BY <1>0, <1>2, <1>3, <1>4, <1>5, <1>6, <1>7, <1>10 DEF StoreInv

\* A save that breaks off.
LEMMA CutKeeps == ASSUME StoreInv, NEW s \in saving, SaveCut(s) PROVE StoreInv'
<1>1. /\ UNCHANGED <<docs, indexed, writes>> /\ saving' = saving \ {s}
      /\ torn' = torn \cup {Pair(s)}
  BY DEF SaveCut
<1>2. CopiesHold'
  <2>1. ASSUME NEW d \in docs, d.kind \in CopiedKinds, Pair(d) \notin torn'
        PROVE  HasCopy(d, docs', saving')
    <3>1. HasCopy(d, docs, saving) /\ Pair(d) # Pair(s)
      BY <1>1, <2>1 DEF StoreInv, CopiesHold
    <3>. QED BY <1>1, <3>1 DEF HasCopy
  <2>2. \A r \in saving', d \in docs' : Pair(r) = Pair(d) /\ Pair(r) \notin torn' => d.at <= r.at
    BY <1>1 DEF StoreInv, CopiesHold
  <2>. QED BY <1>1, <2>1, <2>2 DEF CopiesHold
<1>. QED BY <1>1, <1>2 DEF StoreInv

LEMMA ExpiryKeeps == ASSUME StoreInv, NEW x \in docs, ExpireMarker(x) PROVE StoreInv'
<1>0. /\ writes \in Nat /\ writes' = writes + 1 /\ indexed' = indexed /\ saving' = saving
      /\ torn' = torn /\ docs' = docs \ {x} /\ x.kind \in {"affordance", "reservation"}
  BY DEF StoreInv, ExpireMarker
<1>1. IsFiniteSet(docs') /\ OneEach(docs')
  BY <1>0, FS_RemoveElement DEF StoreInv, OneEach
<1>2. \A d \in docs' \cup indexed' : Wellformed(d) /\ d.at <= writes'
  BY <1>0 DEF StoreInv, Wellformed
<1>3. \A s \in saving' : Begun(s, writes')
  BY <1>0 DEF StoreInv, Begun
<1>4. \A f \in indexed' : f.kind \notin {"affordance", "reservation"} => \E d \in docs' : SameKey(d, f)
  BY <1>0 DEF StoreInv, SameKey
<1>5. CopiesHold'
  <2>1. ASSUME NEW d \in docs', d.kind \in CopiedKinds, Pair(d) \notin torn'
        PROVE  HasCopy(d, docs', saving')
    <3>1. HasCopy(d, docs, saving)
      BY <1>0, <2>1 DEF StoreInv, CopiesHold
    <3>2. \A e \in docs : e.kind = LatestKind(d.kind) => e \in docs'
      BY <1>0, <2>1 DEF CopiedKinds, LatestKind
    <3>. QED BY <1>0, <3>1, <3>2 DEF HasCopy
  <2>2. \A r \in saving', d \in docs' : Pair(r) = Pair(d) /\ Pair(r) \notin torn' => d.at <= r.at
    BY <1>0 DEF StoreInv, CopiesHold
  <2>. QED BY <2>1, <2>2 DEF CopiesHold
<1>6. \A d, f \in docs' \cup indexed' :
        d.kind = f.kind /\ d.at = f.at /\ d.kind \notin LatestKinds => d = f
  BY <1>0 DEF StoreInv
<1>7. \A d \in docs', f \in indexed' : SameKey(d, f) /\ d.kind \notin LatestKinds => f.at <= d.at
  BY <1>0 DEF StoreInv
<1>8. writes' \in Nat /\ IsFiniteSet(indexed') /\ OneEach(indexed')
  BY <1>0 DEF StoreInv
<1>. QED BY <1>1, <1>2, <1>3, <1>4, <1>5, <1>6, <1>7, <1>8 DEF StoreInv

LEMMA IndexKeeps ==
  ASSUME StoreInv, NEW x, \/ x \in docs /\ Index(x)
                          \/ x \in indexed /\ Unindex(x)
  PROVE  StoreInv'
<1>0. /\ UNCHANGED <<docs, saving, torn, writes>>
      /\ \A d \in indexed' : d \in indexed \/ (d = x /\ x \in docs)
      /\ x \in docs => \A d \in indexed' : d = x \/ ~SameKey(d, x)
  <2>1. SameKey(x, x)
    BY DEF SameKey
  <2>2. CASE x \in docs /\ Index(x)
    <3>1. indexed' = {d \in indexed : ~SameKey(d, x)} \cup {x} /\ UNCHANGED <<docs, saving, torn, writes>>
      BY <2>2 DEF Index, Put
    <3>. QED BY <2>2, <3>1
  <2>3. CASE x \in indexed /\ Unindex(x)
    <3>1. indexed' = indexed \ {x} /\ UNCHANGED <<docs, saving, torn, writes>> /\ x \notin docs
      BY <2>1, <2>3 DEF Unindex
    <3>. QED BY <3>1
  <2>. QED BY <2>2, <2>3
<1>1. IsFiniteSet(indexed')
  <2>1. CASE Index(x)
    <3>1. IsFiniteSet({d \in indexed : ~SameKey(d, x)})
      BY FS_Subset DEF StoreInv
    <3>. QED BY <2>1, <3>1, FS_AddElement DEF Index, Put
  <2>2. CASE Unindex(x)
    BY <2>2, FS_RemoveElement DEF StoreInv, Unindex
  <2>. QED BY <2>1, <2>2
<1>2. \A d, f : SameKey(d, f) => SameKey(f, d)
  BY DEF SameKey
<1>3. OneEach(indexed')
  <2>1. \A d, f \in indexed : SameKey(d, f) => d = f
    BY DEF StoreInv, OneEach
  <2>2. ASSUME NEW d \in indexed', NEW f \in indexed', SameKey(d, f) PROVE d = f
    <3>1. CASE d \in indexed /\ f \in indexed
      BY <2>1, <2>2, <3>1
    <3>2. CASE x \in docs /\ (d = x \/ f = x)
      BY <1>0, <1>2, <2>2, <3>2
    <3>. QED BY <1>0, <3>1, <3>2
  <2>. QED BY <2>2 DEF OneEach
<1>4. \A d \in docs' \cup indexed' : d \in docs \cup indexed
  BY <1>0
<1>5. ASSUME NEW d \in docs', NEW e \in indexed', SameKey(d, e), d.kind \notin LatestKinds
      PROVE  e.at <= d.at
  <2>1. d \in docs
    BY <1>0
  <2>2. CASE e \in indexed
    BY <1>5, <2>1, <2>2 DEF StoreInv
  <2>3. CASE e \in docs
    <3>1. d = e
      BY <1>5, <2>1, <2>3 DEF StoreInv, OneEach
    <3>2. d.at \in Nat
      BY <2>1 DEF StoreInv, Wellformed
    <3>. QED BY <3>1, <3>2
  <2>. QED BY <1>0, <2>2, <2>3
<1>6. \A e \in indexed' :
        e.kind \notin {"affordance", "reservation"} => \E d \in docs' : SameKey(d, e)
  <2>1. \A d : SameKey(d, d)
    BY DEF SameKey
  <2>. QED BY <1>0, <2>1 DEF StoreInv
<1>7. CopiesHold'
  BY <1>0 DEF StoreInv, CopiesHold, HasCopy
<1>. QED BY <1>0, <1>1, <1>3, <1>4, <1>5, <1>6, <1>7 DEF StoreInv

LEMMA StoreInvInit == StoreInit => StoreInv
BY FS_EmptySet DEF StoreInit, StoreInv, OneEach, CopiesHold

LEMMA StoreInvNext == ASSUME StoreInv, StoreMoved \/ UNCHANGED storeVars PROVE StoreInv'
<1>1. CASE UNCHANGED storeVars
  BY <1>1 DEF storeVars, StoreInv, CopiesHold
<1>. QED BY <1>1, WroteKeeps, CopyKeeps, CutKeeps, ExpiryKeeps, IndexKeeps DEF StoreMoved

-----------------------------------------------------------------------------
(***************************************************************************)
(* Lists behind routes, for a client that gives no parameters.             *)
(***************************************************************************)
RouteKinds == {r.kind : r \in Routes}
Shown(kind) == {d \in Visible : d.kind = kind}

LEMMA RouteKindsAre ==
  RouteKinds = {"task_spec", "affordance", "reservation", "bid", "plan_draft", "plan_revision",
                "plan_suggestion", "cfp", "award", "human_approval", "ethics_check",
                "ethics_policy", "strategy", "execution", "audit", "escalation", "cnp_cycle"}
BY DEF RouteKinds, Routes, TaskSpecRoutes, MarkerRoutes, BidRoutes, PlanRoutes,
     SuggestionRoutes, ContractRoutes, DecisionRoutes, PolicyRoutes, ExecutionRoutes,
     AuditRoutes, CycleRoutes, Route

\* The documents of a list can be put in order.
LEMMA ShownSorts ==
  ASSUME StoreInv, NEW kind, kind \notin LatestKinds, NEW S, S \subseteq Shown(kind)
  PROVE  Sortable(S) /\ OneEach(S)
<1>1. Visible = docs \/ Visible = indexed
  BY DEF Visible
<1>2. IsFiniteSet(Visible) /\ OneEach(Visible) /\ Visible \subseteq docs \cup indexed
  BY <1>1 DEF StoreInv
<1>3. IsFiniteSet(S)
  BY <1>2, FS_Subset DEF Shown
<1>4. \A d \in S : d \in docs \cup indexed /\ d.kind = kind
  BY <1>2 DEF Shown
<1>5. \A d \in S : d.at \in Nat /\ d.id \in Nat
  BY <1>4 DEF StoreInv, Wellformed
<1>6. \A d, e \in S : d.kind = e.kind /\ (d.at = e.at => d = e)
  BY <1>4 DEF StoreInv
<1>. QED BY <1>2, <1>3, <1>5, <1>6 DEF Sortable, OneEach, Shown

LEMMA ScanShown ==
  ASSUME StoreInv, NEW kind, NEW owners, NEW limit, NEW offset,
         \/ kind \in UserKinds /\ owners = {"user"}
         \/ kind \in OwnedKinds /\ owners = Owners
  PROVE  Scan(kind, owners, limit, offset) = ListByPrefix(InOrder(Shown(kind)), limit, offset)
<1>1. Visible \subseteq docs \cup indexed
  BY DEF Visible
<1>2. {d \in Visible : d.kind = kind /\ d.owner \in owners} = Shown(kind)
  BY <1>1 DEF Shown, StoreInv, Wellformed
<1>. QED BY <1>2 DEF Scan

\* Without parameters a route lists all documents of its kind, in order.
LEMMA RouteShows ==
  ASSUME StoreInv, NEW r \in Routes, NEW limit, NEW offset
  PROVE  ListRoute(r, Owners, Tags, limit, offset) =
           ListByPrefix(InOrder(Shown(r.kind)), limit, offset)
<1>. DEFINE L(k) == ListByPrefix(InOrder(Shown(k)), limit, offset)
<1>1. \A k \in UserKinds : Scan(k, {"user"}, limit, offset) = L(k)
  BY ScanShown
<1>2. \A k \in OwnedKinds : Scan(k, Owners, limit, offset) = L(k)
  BY ScanShown
<1>3. \A list : Filtered(list, Tags) = list
  BY DEF Filtered
<1>4. \A k \in {"human_approval", "ethics_check"} :
        WithLatest(k, Owners, limit, offset) = Scan(k, Owners, limit, offset)
  BY StoreAssumption DEF WithLatest
<1>5. r.kind \in RouteKinds
  BY DEF RouteKinds
<1>6. (IF r.prefix = {} THEN Owners ELSE Owners) = Owners
      /\ (IF r.filters = {} THEN Tags ELSE Tags) = Tags
  OBVIOUS
<1>. HIDE DEF L
<1>7. /\ ListTaskSpecs(limit, offset) = L("task_spec")
      /\ ListPlanSuggestions(Tags, limit, offset) = L("plan_suggestion")
      /\ ListEthicsPolicies(limit, offset) = L("ethics_policy")
      /\ ListCnpCycles(Tags, limit, offset) = L("cnp_cycle")
  BY <1>1, <1>3
     DEF ListTaskSpecs, ListPlanSuggestions, ListEthicsPolicies, ListCnpCycles, UserKinds
<1>8. /\ ListAffordanceMarkers(Owners, Tags, limit, offset) = L("affordance")
      /\ ListReservationMarkers(Owners, Tags, limit, offset) = L("reservation")
      /\ ListBids(Owners, Tags, limit, offset) = L("bid")
      /\ ListPlanDrafts(Tags, limit, offset) = L("plan_draft")
      /\ ListCfps(Owners, Tags, limit, offset) = L("cfp")
      /\ ListContractAwards(Owners, Tags, limit, offset) = L("award")
  BY <1>2, <1>3
     DEF ListAffordanceMarkers, ListReservationMarkers, ListBids, ListPlanDrafts, ListCfps,
         ListContractAwards, OwnedKinds
<1>9. /\ ListPlanRevisions(Owners, limit, offset) = L("plan_revision")
      /\ ListHumanApprovals(Owners, limit, offset) = L("human_approval")
      /\ ListEthicsChecks(Owners, limit, offset) = L("ethics_check")
      /\ ListStrategyPlans(Owners, limit, offset) = L("strategy")
      /\ ListExecutionReports(Owners, limit, offset) = L("execution")
      /\ ListAuditLogs(Owners, limit, offset) = L("audit")
      /\ ListEscalationNotices(Owners, limit, offset) = L("escalation")
  BY <1>2, <1>4
     DEF ListPlanRevisions, ListHumanApprovals, ListEthicsChecks, ListStrategyPlans,
         ListExecutionReports, ListAuditLogs, ListEscalationNotices, OwnedKinds
<1>10. ListRoute(r, Owners, Tags, limit, offset) = L(r.kind)
  BY <1>5, <1>6, <1>7, <1>8, <1>9, RouteKindsAre DEF ListRoute
<1>. QED BY <1>10 DEF L

\* The pages that a walk reads.
LEMMA PageFacts ==
  ASSUME StoreInv, NEW r \in Routes, NEW offset \in Nat
  PROVE  LET S == Shown(r.kind)
             n == Cardinality(S)
             list == ListRoute(r, Owners, Tags, PageSize, offset)
         IN /\ n \in Nat /\ list.total = n
            /\ \A d \in S : Rank(d, S) \in Nat /\ Rank(d, S) < n
            /\ \A d \in S : offset <= Rank(d, S) /\ Rank(d, S) < offset + PageSize =>
                 d \in ToSet(list.items)
            /\ offset + PageSize < n => Len(list.items) = PageSize
<1>. DEFINE S == Shown(r.kind)
            n == Cardinality(S)
            all == InOrder(S)
            list == ListRoute(r, Owners, Tags, PageSize, offset)
            m == IF offset + PageSize <= n THEN offset + PageSize ELSE n
<1>1. r.kind \notin LatestKinds
  BY RouteKindsAre DEF RouteKinds, LatestKinds
<1>2. Sortable(S)
  BY <1>1, ShownSorts
<1>3. /\ n \in Nat /\ all \in Seq(S) /\ Len(all) = n
      /\ \A d \in S : Rank(d, S) + 1 \in 1..n /\ all[Rank(d, S) + 1] = d
  BY <1>2, InOrderFacts
<1>4. \A d \in S : Rank(d, S) \in Nat /\ Rank(d, S) < n
  BY <1>2, RankFacts
<1>5. PageSize \in Nat /\ PageSize > 0
  BY PageAssumption
<1>6. Min({offset + PageSize, n}) = m
  BY <1>3, <1>5 DEF Min
<1>7. list.total = n /\ list.items = SubSeq(all, offset + 1, m)
  <2>1. list = ListByPrefix(all, PageSize, offset)
    BY RouteShows
  <2>. HIDE DEF S, n, all, list
  <2>2. Min({offset + PageSize, Len(all)}) = m /\ PageSize # 0 /\ Len(all) = n
    BY <1>3, <1>5, <1>6
  <2>. HIDE DEF m
  <2>. QED BY <2>1, <2>2 DEF ListByPrefix, Page
<1>. HIDE DEF S, n, all, list
<1>8. /\ offset <= n => Len(SubSeq(all, offset + 1, m)) = m - offset
      /\ \A i \in 1..(m - offset) : SubSeq(all, offset + 1, m)[i] = all[offset + i]
  BY <1>3, <1>5
<1>9. ASSUME NEW d \in S, offset <= Rank(d, S), Rank(d, S) < offset + PageSize
      PROVE  d \in ToSet(list.items)
  <2>. DEFINE i == Rank(d, S) + 1 - offset
  <2>0. n \in Nat /\ Rank(d, S) \in Nat /\ Rank(d, S) < n
    BY <1>3, <1>4
  <2>1. i \in 1..(m - offset) /\ offset + i = Rank(d, S) + 1 /\ offset <= n
    BY <2>0, <1>5, <1>9
  <2>2. list.items[i] = d /\ i \in 1..Len(list.items)
    BY <1>3, <1>7, <1>8, <2>1
  <2>3. list.items \in Seq(S)
    BY <1>3, <1>5, <1>7
  <2>4. DOMAIN list.items = 1..Len(list.items)
    BY <2>3
  <2>. QED BY <2>2, <2>4 DEF ToSet
<1>10. offset + PageSize < n => Len(list.items) = PageSize
  BY <1>3, <1>5, <1>7, <1>8
<1>. QED BY <1>3, <1>4, <1>7, <1>9, <1>10 DEF S, n, list

-----------------------------------------------------------------------------
(***************************************************************************)
(* A walk through a list. Nobody's write takes a document that the client   *)
(* has yet to see out of the part of the list that is still to come.       *)
(***************************************************************************)
\* The store after a step of anybody: no version of a document comes back,
\* and what takes the place of a document is a later version of it.
LEMMA VersionsAdvance ==
  ASSUME StoreInv, StoreMoved
  PROVE  /\ writes' \in Nat /\ writes <= writes'
         /\ \A d \in docs' : d.kind \notin LatestKinds => d \in docs \/ d.at > writes
         /\ \A d \in Visible' : d.kind \notin LatestKinds => d \in Visible \/ d \in docs'
         /\ \A d \in Visible : d.kind \notin LatestKinds => d \in Visible' \/ d \notin docs'
         /\ \A d \in Visible, e \in Visible' :
              SameKey(d, e) /\ d.kind \notin LatestKinds => d.at <= e.at
<1>0. writes \in Nat /\ \A d \in docs \cup indexed : d.at \in Nat /\ d.at <= writes
  BY DEF StoreInv, Wellformed
<1>0a. (RequestPlus /\ Visible = docs /\ Visible' = docs') \/
       (~RequestPlus /\ Visible = indexed /\ Visible' = indexed')
  BY DEF Visible
<1>0b. /\ \A d, e \in docs : SameKey(d, e) => d = e
       /\ \A d, e \in indexed : SameKey(d, e) => d = e
       /\ \A d \in docs, e \in indexed : SameKey(d, e) /\ d.kind \notin LatestKinds => e.at <= d.at
  BY DEF StoreInv, OneEach
<1>0c. \A d, e : SameKey(d, e) => SameKey(e, d) /\ d.kind = e.kind
  BY DEF SameKey
<1>1. ASSUME NEW e, Wrote(e)
      PROVE  /\ writes' = writes + 1 /\ indexed' = indexed
             /\ \A d \in docs' : d \in docs \/ d.at = writes + 1
  BY <1>1 DEF Wrote, Put
<1>2. CASE \E e : Wrote(e)
  <2>1. /\ writes' = writes + 1 /\ indexed' = indexed
        /\ \A d \in docs' : d \in docs \/ d.at = writes + 1
    BY <1>1, <1>2
  <2>2. \A d \in docs' : d \in docs \/ d.at > writes
    BY <1>0, <2>1
  <2>3. ASSUME NEW d \in Visible, NEW e \in Visible', SameKey(d, e) PROVE d.at <= e.at
    <3>1. CASE e \in Visible
      BY <1>0, <1>0a, <1>0b, <2>3, <3>1
    <3>2. CASE e.at = writes + 1
      BY <1>0, <1>0a, <3>2
    <3>. QED BY <1>0a, <2>1, <3>1, <3>2
  <2>4. \A d \in Visible : d \in Visible' \/ d \notin docs'
    BY <1>0a, <2>1
  <2>5. \A d \in Visible' : d \in Visible \/ d \in docs'
    BY <1>0a, <2>1
  <2>. QED BY <1>0, <2>1, <2>2, <2>3, <2>4, <2>5
<1>3. CASE \E c : Copied(c)
  <2>1. PICK c : Copied(c)
    BY <1>3
  <2>2. /\ writes' = writes /\ indexed' = indexed
        /\ \A d \in docs' : d \in docs \/ d.kind \in LatestKinds
    BY <2>1 DEF Copied, Put
  <2>3. \A d \in Visible, e \in Visible' :
          SameKey(d, e) /\ d.kind \notin LatestKinds => d.at <= e.at
    BY <1>0, <1>0a, <1>0b, <1>0c, <2>2
  <2>. QED BY <1>0, <1>0a, <2>2, <2>3
<1>4. CASE \E s \in saving : SaveCut(s)
  <2>1. UNCHANGED <<docs, indexed, writes>>
    BY <1>4 DEF SaveCut
  <2>. QED BY <1>0, <1>0a, <1>0b, <2>1
<1>5. CASE \E x \in docs : ExpireMarker(x)
  <2>1. PICK x \in docs : ExpireMarker(x)
    BY <1>5
  <2>2. writes' = writes + 1 /\ indexed' = indexed /\ docs' = docs \ {x}
    BY <2>1 DEF ExpireMarker
  <2>. QED BY <1>0, <1>0a, <1>0b, <2>2
<1>6. CASE \E x \in docs : Index(x)
  <2>1. PICK x \in docs : Index(x)
    BY <1>6
  <2>2. /\ docs' = docs /\ writes' = writes
        /\ indexed' = {d \in indexed : ~SameKey(d, x)} \cup {x}
    BY <2>1 DEF Index, Put
  <2>3. ASSUME NEW d \in indexed, d \notin indexed' PROVE d \notin docs
    <3>1. SameKey(d, x) /\ d # x
      BY <2>2, <2>3
    <3>. QED BY <1>0b, <3>1
  <2>4. ASSUME NEW d \in indexed, NEW e \in indexed', SameKey(d, e), d.kind \notin LatestKinds
        PROVE  d.at <= e.at
    <3>1. CASE e = x
      BY <1>0b, <1>0c, <2>4, <3>1
    <3>2. CASE e \in indexed
      BY <1>0, <1>0b, <2>4, <3>2
    <3>. QED BY <2>2, <3>1, <3>2
  <2>. QED BY <1>0, <1>0a, <1>0b, <2>2, <2>3, <2>4
<1>7. CASE \E x \in indexed : Unindex(x)
  <2>1. PICK x \in indexed : Unindex(x)
    BY <1>7
  <2>2. docs' = docs /\ writes' = writes /\ indexed' = indexed \ {x} /\ x \notin docs
    BY <2>1 DEF Unindex, SameKey
  <2>. QED BY <1>0, <1>0a, <1>0b, <2>2
<1>. QED BY <1>2, <1>3, <1>4, <1>5, <1>6, <1>7 DEF StoreMoved

\* While the keys of a list stay, a document moves away from its start only.
LEMMA RanksGrow ==
  ASSUME NEW kind, NEW S, NEW T, Sortable(S), OneEach(S), Sortable(T),
         \A d \in S \cup T : d.kind = kind,
         \A d \in S : \E e \in T : SameKey(d, e),
         \A d \in S, e \in T : SameKey(d, e) => d.at <= e.at
  PROVE  /\ Cardinality(S) <= Cardinality(T)
         /\ \A d \in S \cap T : Rank(d, S) <= Rank(d, T)
<1>1. IsFiniteSet(T) /\ \A d, e \in S : SameKey(d, e) => d = e
  BY DEF Sortable, OneEach
<1>2. Cardinality(S) <= Cardinality(T)
  BY <1>1, MoreKeys
<1>3. ASSUME NEW d \in S \cap T PROVE Rank(d, S) <= Rank(d, T)
  <2>. DEFINE A == {e \in S : Before(e, d)}
              B == {e \in T : Before(e, d)}
  <2>1. IsFiniteSet(B)
    BY <1>1, FS_Subset
  <2>2. ASSUME NEW e \in A PROVE \E f \in B : SameKey(e, f)
    <3>1. PICK f \in T : SameKey(e, f)
      OBVIOUS
    <3>2. /\ e.at <= f.at /\ e.id = f.id /\ e.kind = f.kind
          /\ e.at \in Nat /\ f.at \in Nat /\ e.id \in Nat /\ d.at \in Nat /\ d.id \in Nat
      BY <3>1 DEF SameKey, Sortable
    <3>3. Before(f, d)
      BY <3>2 DEF Before, Newest, HighestRevision
    <3>. QED BY <3>1, <3>3
  <2>3. \A e, f \in A : SameKey(e, f) => e = f
    BY <1>1
  <2>. HIDE DEF A, B
  <2>4. Cardinality(A) <= Cardinality(B)
    BY <2>1, <2>2, <2>3, MoreKeys
  <2>. QED BY <2>4 DEF Rank, A, B
<1>. QED BY <1>2, <1>3


\* What Disturb looks at.
LEMMA DisturbedOrNot ==
  ASSUME NEW kind, kind = walk.route.kind, Disturb, walk.at # "none",
         walk = [walk EXCEPT !.at = walk.at], "disturbed" \in DOMAIN walk
  PROVE  /\ walk' = [walk EXCEPT !.disturbed = walk'.disturbed]
         /\ ~walk'.disturbed => /\ ~walk.disturbed
                                /\ \A d \in Shown(kind) : \E e \in Shown(kind)' : SameKey(d, e)
                                /\ walk.at = "page" =>
                                     \A e \in Shown(kind)' : \E d \in Shown(kind) : SameKey(e, d)
<1>. DEFINE KeysIn(D) == {<<d.owner, d.id>> : d \in {e \in D : e.kind = kind}}
            bad == \/ ~(KeysIn(Visible) \subseteq KeysIn(Visible'))
                   \/ walk.at = "page" /\ KeysIn(Visible) # KeysIn(Visible')
<1>1. walk' = [walk EXCEPT !.disturbed = walk.disturbed \/ bad]
  BY DEF Disturb
<1>2. \A d \in Shown(kind) : <<d.owner, d.id>> \in KeysIn(Visible)
  BY DEF Shown
<1>3. \A d \in Shown(kind)' : <<d.owner, d.id>> \in KeysIn(Visible')
  BY DEF Shown
<1>4. \A p \in KeysIn(Visible) : \E e \in Shown(kind) : p = <<e.owner, e.id>>
  BY DEF Shown
<1>5. \A p \in KeysIn(Visible') : \E e \in Shown(kind)' : p = <<e.owner, e.id>>
  BY DEF Shown
<1>6. \A d \in Shown(kind), e \in Shown(kind)' :
        <<d.owner, d.id>> = <<e.owner, e.id>> => SameKey(d, e) /\ SameKey(e, d)
  BY DEF Shown, SameKey
<1>. HIDE DEF Keys
<1>7. walk'.disturbed = (walk.disturbed \/ bad)
  BY <1>1
<1>8. walk' = [walk EXCEPT !.disturbed = walk'.disturbed]
  BY <1>1, <1>7
<1>9. ~bad => /\ KeysIn(Visible) \subseteq KeysIn(Visible')
              /\ walk.at = "page" => KeysIn(Visible) = KeysIn(Visible')
  OBVIOUS
<1>. HIDE DEF bad
<1>. QED BY <1>2, <1>3, <1>4, <1>5, <1>6, <1>7, <1>8, <1>9

LEMMA AllSort == StoreInv => \A k \in RouteKinds : Sortable(Shown(k)) /\ OneEach(Shown(k))
BY ShownSorts, RouteKindsAre DEF LatestKinds

LEMMA AllSortNext ==
  ASSUME StoreInv' PROVE \A k \in RouteKinds : Sortable(Shown(k)') /\ OneEach(Shown(k)')
<1>1. (StoreInv => \A k \in RouteKinds : Sortable(Shown(k)) /\ OneEach(Shown(k)))'
  BY AllSort, PTL
<1>. QED BY <1>1

WalkTyped ==
  /\ walk = [at |-> walk.at, route |-> walk.route, offset |-> walk.offset, total |-> walk.total,
             pages |-> walk.pages, first |-> walk.first, seen |-> walk.seen, more |-> walk.more,
             disturbed |-> walk.disturbed]
  /\ walk.at \in {"none", "count", "page"} /\ walk.route \in Routes /\ walk.offset \in Nat

\* What the client was to see is still there or gone for good; while the walk
\* is undisturbed, what it has not seen is still to come, and the count of a
\* page under way is right.
ToCome ==
  LET S == Shown(walk.route.kind)
  IN /\ \A d \in walk.first \cap S :
          d \in walk.seen \/ (walk.more /\ walk.offset <= Rank(d, S))
     /\ walk.at = "page" => walk.more /\ walk.total = Cardinality(S)

WalkInv ==
  /\ WalkTyped
  /\ walk.at # "none" =>
       /\ \A d \in walk.first : d.kind = walk.route.kind /\ d.at \in Nat /\ d.at <= writes
       /\ \A d \in walk.first : d \in Visible \/ d \notin docs
       /\ ~walk.disturbed => ToCome

\* A write of anybody.
LEMMA WalkWrite ==
  ASSUME StoreInv, StoreInv', StoreMoved, WalkInv, Disturb
  PROVE  WalkInv'
<1>1. CASE walk.at = "none"
  BY <1>1 DEF Disturb, WalkInv, WalkTyped
<1>2. CASE walk.at # "none"
  <2>. DEFINE k == walk.route.kind
  <2>0. PICK kind \in RouteKinds : kind = walk.route.kind
    BY DEF WalkInv, WalkTyped, RouteKinds
  <2>0a. kind \notin LatestKinds
    BY RouteKindsAre DEF LatestKinds
  <2>1. /\ walk = [walk EXCEPT !.at = walk.at] /\ "disturbed" \in DOMAIN walk
    BY DEF WalkInv, WalkTyped
  <2>2. /\ walk' = [walk EXCEPT !.disturbed = walk'.disturbed]
        /\ ~walk'.disturbed => /\ ~walk.disturbed
                               /\ \A d \in Shown(kind) : \E e \in Shown(kind)' : SameKey(d, e)
                               /\ walk.at = "page" =>
                                    \A e \in Shown(kind)' : \E d \in Shown(kind) : SameKey(e, d)
    BY <1>2, <2>0, <2>1, DisturbedOrNot
  <2>3. WalkTyped'
    BY <2>2 DEF WalkInv, WalkTyped
  <2>4. /\ walk'.at = walk.at /\ walk'.route = walk.route /\ walk'.offset = walk.offset
        /\ walk'.total = walk.total /\ walk'.first = walk.first /\ walk'.seen = walk.seen
        /\ walk'.more = walk.more
    BY <2>2 DEF WalkInv, WalkTyped
  <2>5. \A d \in walk.first : /\ d.kind = kind /\ d.at \in Nat /\ d.at <= writes
                              /\ d \in Visible \/ d \notin docs
    BY <1>2, <2>0 DEF WalkInv
  <2>6. /\ writes \in Nat /\ writes' \in Nat /\ writes <= writes'
        /\ \A d \in docs' : d.kind \notin LatestKinds => d \in docs \/ d.at > writes
        /\ \A d \in Visible' : d.kind \notin LatestKinds => d \in Visible \/ d \in docs'
        /\ \A d \in Visible : d.kind \notin LatestKinds => d \in Visible' \/ d \notin docs'
        /\ \A d \in Visible, e \in Visible' :
             SameKey(d, e) /\ d.kind \notin LatestKinds => d.at <= e.at
    BY VersionsAdvance DEF StoreInv
  <2>7. \A d \in walk.first : d \notin Visible => d \notin docs'
    <3>1. ASSUME NEW d \in walk.first, d \in docs', d \notin docs PROVE FALSE
      <4>1. d.at <= writes /\ d.at \in Nat /\ writes \in Nat /\ d.kind \notin LatestKinds
        BY <2>0a, <2>5, <2>6, <3>1
      <4>2. d.at > writes
        BY <2>6, <3>1, <4>1
      <4>. QED BY <4>1, <4>2
    <3>. QED BY <2>5, <3>1
  <2>8. \A d \in walk.first : d \in Visible' \/ d \notin docs'
    BY <2>0a, <2>5, <2>6, <2>7
  <2>9. \A d \in walk.first : d \in Visible' => d \in Visible
    BY <2>0a, <2>5, <2>6, <2>7
  <2>10. \A d \in walk.first : d.at <= writes'
    <3>1. ASSUME NEW d \in walk.first PROVE d.at <= writes'
      <4>1. d.at <= writes /\ d.at \in Nat
        BY <2>5
      <4>2. writes \in Nat /\ writes' \in Nat /\ writes <= writes'
        BY <2>6
      <4>. QED BY <4>1, <4>2
    <3>. QED BY <3>1
  <2>11. ASSUME ~walk'.disturbed PROVE ToCome'
    <3>. DEFINE S == Shown(kind)
                T == Shown(kind)'
    <3>1. Sortable(S) /\ OneEach(S)
      BY AllSort
    <3>2. Sortable(T) /\ OneEach(T)
      BY AllSortNext
    <3>3. (\A d \in S \cup T : d.kind = kind) /\ S \subseteq Visible /\ T \subseteq Visible'
      BY DEF Shown
    <3>4. \A d \in S, e \in T : SameKey(d, e) => d.at <= e.at
      BY <2>0a, <2>6, <3>3
    <3>5. \A d \in S : \E e \in T : SameKey(d, e)
      BY <2>2, <2>11
    <3>6. Cardinality(S) \in Nat /\ \A d \in S : Rank(d, S) \in Nat
      BY <3>1, RankFacts
    <3>7. Cardinality(T) \in Nat /\ \A d \in T : Rank(d, T) \in Nat
      BY <3>2, RankFacts
    <3>8. /\ Cardinality(S) <= Cardinality(T)
          /\ \A d \in S \cap T : Rank(d, S) <= Rank(d, T)
      <4>. HIDE DEF S, T
      <4>. QED BY <3>1, <3>2, <3>3, <3>4, <3>5, RanksGrow
    <3>9. walk.at = "page" => Cardinality(T) <= Cardinality(S)
      <4>1. ASSUME walk.at = "page" PROVE Cardinality(T) <= Cardinality(S)
        <5>1. \A e \in T : \E d \in S : SameKey(e, d)
          BY <2>2, <2>11, <4>1
        <5>2. IsFiniteSet(S) /\ \A d, e \in T : SameKey(d, e) => d = e
          BY <3>1, <3>2 DEF Sortable, OneEach
        <5>. HIDE DEF S, T
        <5>. QED BY <5>1, <5>2, MoreKeys
      <4>. QED BY <4>1
    <3>10. /\ \A d \in walk.first \cap S :
                d \in walk.seen \/ (walk.more /\ walk.offset <= Rank(d, S))
           /\ walk.at = "page" => walk.more /\ walk.total = Cardinality(S)
      BY <1>2, <2>0, <2>2, <2>11 DEF WalkInv, ToCome
    <3>11. \A d \in walk.first \cap T : d \in S
      BY <2>9 DEF Shown
    <3>12. ASSUME NEW d \in walk.first \cap T
           PROVE  d \in walk.seen \/ (walk.more /\ walk.offset <= Rank(d, T))
      <4>1. d \in S \cap T
        BY <3>11
      <4>2. Rank(d, S) \in Nat /\ Rank(d, T) \in Nat /\ Rank(d, S) <= Rank(d, T)
        BY <3>6, <3>7, <3>8, <4>1
      <4>3. d \in walk.seen \/ (walk.more /\ walk.offset <= Rank(d, S))
        BY <3>10, <4>1
      <4>4. walk.offset \in Nat
        BY DEF WalkInv, WalkTyped
      <4>. HIDE DEF S, T
      <4>. QED BY <4>2, <4>3, <4>4
    <3>13. walk.at = "page" => walk.more /\ walk.total = Cardinality(T)
      <4>. HIDE DEF S, T
      <4>. QED BY <3>6, <3>7, <3>8, <3>9, <3>10
    <3>14. walk'.route.kind = kind
      BY <2>0, <2>4
    <3>15. Shown(walk.route.kind)' = T
      BY <3>14 DEF Shown
    <3>. HIDE DEF S, T
    <3>. QED BY <2>4, <3>12, <3>13, <3>15 DEF ToCome
  <2>. QED BY <2>0, <2>3, <2>4, <2>5, <2>8, <2>10, <2>11 DEF WalkInv
<1>. QED BY <1>1, <1>2

\* The client's own steps.
LEMMA WalkReads ==
  ASSUME StoreInv, WalkInv, UNCHANGED storeVars,
         CountPage \/ FetchPage \/ (\E r \in Routes : StartWalk(r)) \/ UNCHANGED walk
  PROVE  WalkInv'
<1>0. /\ UNCHANGED <<docs, indexed, writes>> /\ writes \in Nat
      /\ Visible' = Visible /\ \A k : Shown(k)' = Shown(k)
  BY DEF storeVars, Visible, Shown, StoreInv
<1>. DEFINE k == walk.route.kind
            S == Shown(k)
<1>1. CASE UNCHANGED walk
  <2>1. Shown(walk.route.kind)' = Shown(walk.route.kind)
    BY <1>0, <1>1 DEF Shown
  <2>2. \A d : Rank(d, Shown(walk.route.kind))' = Rank(d, Shown(walk.route.kind))
    BY <2>1 DEF Rank, Before, Newest, HighestRevision
  <2>. QED BY <1>0, <1>1, <2>1, <2>2 DEF WalkInv, WalkTyped, ToCome
<1>2. ASSUME NEW r \in Routes, StartWalk(r) PROVE WalkInv'
  <2>1. walk' = [at |-> "count", route |-> r, offset |-> 0, total |-> 0, pages |-> 0,
                 first |-> Shown(r.kind), seen |-> {}, more |-> TRUE, disturbed |-> FALSE]
    BY <1>2 DEF StartWalk, Shown
  <2>2. r.kind \in RouteKinds /\ r.kind \notin LatestKinds
    BY RouteKindsAre DEF RouteKinds, LatestKinds
  <2>3. \A d \in Shown(r.kind) : /\ d \in Visible /\ d.kind = r.kind /\ d.at \in Nat /\ d.at <= writes
                                 /\ Rank(d, Shown(r.kind)) \in Nat
    <3>1. Sortable(Shown(r.kind)) /\ \A d \in Shown(r.kind) : d \in docs \cup indexed
      BY <2>2, AllSort DEF Shown, Visible
    <3>2. \A d \in Shown(r.kind) : Rank(d, Shown(r.kind)) \in Nat
      BY <3>1, RankFacts
    <3>. QED BY <3>1, <3>2 DEF Shown, StoreInv, Wellformed
  <2>4. Shown(walk.route.kind)' = Shown(r.kind)
    BY <1>0, <2>1 DEF Shown
  <2>5. ToCome'
    BY <2>1, <2>3, <2>4 DEF ToCome
  <2>6. WalkTyped'
    BY <2>1 DEF WalkTyped
  <2>. QED BY <1>0, <2>1, <2>3, <2>5, <2>6 DEF WalkInv
<1>3. CASE CountPage
  <2>. DEFINE total == ListRoute(walk.route, Owners, Tags, PageSize, walk.offset).total
  <2>1. /\ walk.at = "count" /\ walk.more
        /\ walk' = [walk EXCEPT !.at = "page", !.pages = walk.pages + 1, !.total = total]
    BY <1>3 DEF CountPage
  <2>2. walk.route \in Routes /\ walk.offset \in Nat
    BY DEF WalkInv, WalkTyped
  <2>3. total = Cardinality(S)
    BY <2>2, PageFacts
  <2>. HIDE DEF total
  <2>4. /\ WalkTyped' /\ walk'.at = "page" /\ walk'.route = walk.route /\ walk'.total = total
        /\ walk'.first = walk.first /\ walk'.seen = walk.seen /\ walk'.more
        /\ walk'.offset = walk.offset /\ walk'.disturbed = walk.disturbed /\ walk'.more = walk.more
    BY <2>1 DEF WalkInv, WalkTyped
  <2>5. Shown(walk.route.kind)' = S
    BY <1>0, <2>4 DEF Shown
  <2>6. ~walk.disturbed => ToCome
    BY <2>1 DEF WalkInv
  <2>. HIDE DEF S
  <2>7. ~walk'.disturbed => ToCome'
    BY <2>3, <2>4, <2>5, <2>6 DEF ToCome, S
  <2>. QED BY <1>0, <2>1, <2>4, <2>7 DEF WalkInv
<1>4. CASE FetchPage
  <2>. DEFINE items == ListRoute(walk.route, Owners, Tags, PageSize, walk.offset).items
  <2>1. /\ walk.at = "page"
        /\ walk' = [walk EXCEPT !.at = "count", !.seen = walk.seen \cup ToSet(items),
                      !.more = HasMore(items, walk.total, PageSize, walk.offset),
                      !.offset = walk.offset + PageSize]
    BY <1>4 DEF FetchPage
  <2>2. walk.route \in Routes /\ walk.offset \in Nat /\ PageSize \in Nat /\ PageSize # 0
    BY PageAssumption DEF WalkInv, WalkTyped
  <2>3. /\ Cardinality(S) \in Nat
        /\ \A d \in S : Rank(d, S) \in Nat /\ Rank(d, S) < Cardinality(S)
        /\ \A d \in S : walk.offset <= Rank(d, S) /\ Rank(d, S) < walk.offset + PageSize =>
             d \in ToSet(items)
        /\ walk.offset + PageSize < Cardinality(S) => Len(items) = PageSize
    BY <2>2, PageFacts
  <2>. HIDE DEF items
  <2>. DEFINE more == HasMore(items, walk.total, PageSize, walk.offset)
              seen == walk.seen \cup ToSet(items)
              next == walk.offset + PageSize
  <2>4. /\ WalkTyped' /\ walk'.at = "count" /\ walk'.route = walk.route
        /\ walk'.first = walk.first /\ walk'.seen = seen /\ walk'.more = more
        /\ walk'.offset = next /\ walk'.disturbed = walk.disturbed
    <3>1. next \in Nat
      BY <2>2
    <3>2. walk' = [walk EXCEPT !.at = "count", !.seen = seen, !.more = more, !.offset = next]
      BY <2>1
    <3>. HIDE DEF more, seen, next
    <3>. QED BY <3>1, <3>2 DEF WalkInv, WalkTyped
  <2>5. Shown(walk.route.kind)' = S
    BY <1>0, <2>4 DEF Shown
  <2>6. ~walk.disturbed => ToCome
    BY <2>1 DEF WalkInv
  <2>7. ASSUME ~walk'.disturbed PROVE ToCome'
    <3>1. /\ \A d \in walk.first \cap S : d \in walk.seen \/ walk.offset <= Rank(d, S)
          /\ walk.total = Cardinality(S)
      BY <2>1, <2>4, <2>6, <2>7 DEF ToCome
    <3>. HIDE DEF S
    <3>2. ASSUME NEW d \in walk.first \cap S
          PROVE  d \in walk'.seen \/ (walk'.more /\ walk'.offset <= Rank(d, S))
      <4>1. CASE d \in walk.seen
        BY <2>4, <4>1
      <4>2. CASE walk.offset <= Rank(d, S) /\ Rank(d, S) < walk.offset + PageSize
        BY <2>3, <2>4, <4>2
      <4>3. CASE walk.offset + PageSize <= Rank(d, S)
        <5>1. Rank(d, S) \in Nat /\ Rank(d, S) < Cardinality(S) /\ Cardinality(S) \in Nat
          BY <2>3
        <5>2. walk.offset + PageSize < Cardinality(S)
          BY <2>2, <4>3, <5>1
        <5>3. HasMore(items, walk.total, PageSize, walk.offset)
          BY <2>2, <2>3, <3>1, <5>2 DEF HasMore
        <5>. QED BY <2>4, <4>3, <5>3
      <4>4. Rank(d, S) \in Nat
        BY <2>3
      <4>. QED BY <2>2, <3>1, <4>1, <4>2, <4>3, <4>4
    <3>3. Shown(walk'.route.kind) = S
      BY <2>4 DEF S
    <3>. QED BY <2>4, <2>5, <3>2 DEF ToCome
  <2>. QED BY <1>0, <2>1, <2>4, <2>7 DEF WalkInv
<1>. QED BY <1>1, <1>2, <1>3, <1>4

\* Posts write one document, and everything else reads or writes as above.
LEMMA WalkNext ==
  ASSUME StoreInv, WalkInv, [ApiNext]_ApiVars PROVE StoreInv' /\ WalkInv'
<1>1. CASE UNCHANGED ApiVars \/ CountPage \/ FetchPage \/ AnswerPost \/ \E r \in Routes : StartWalk(r)
  <2>1. /\ UNCHANGED storeVars
        /\ CountPage \/ FetchPage \/ (\E r \in Routes : StartWalk(r)) \/ UNCHANGED walk
    BY <1>1 DEF ApiVars, apiVars, CountPage, FetchPage, AnswerPost, StartWalk
  <2>. QED BY <2>1, WalkReads, StoreInvNext
<1>2. CASE OthersWrite
  BY <1>2, StoreMoves, StoreInvNext, WalkWrite DEF OthersWrite
<1>3. ASSUME NEW i \in Ids, NEW t \in Tags, PostTaskSpec(i, t) PROVE StoreInv' /\ WalkInv'
  <2>1. Disturb /\ UpsertTaskSpec(i, t) /\ i \in Nat
    BY <1>3, StoreAssumption DEF PostTaskSpec
  <2>2. StoreMoved
    BY <2>1, SimpleMoves DEF UpsertTaskSpec, LatestKinds, UserKinds, OwnedKinds, CopiedKinds
  <2>. QED BY <2>1, <2>2, StoreInvNext, WalkWrite
<1>4. ASSUME NEW o \in Owners, NEW t \in Tags, PostPlanDraft(o, t) PROVE StoreInv' /\ WalkInv'
  <2>1. Disturb /\ SavePlanDraft(o, t)
    BY <1>4 DEF PostPlanDraft
  <2>2. StoreMoved
    BY <2>1, SimpleMoves DEF SavePlanDraft, LatestKinds, UserKinds, OwnedKinds, CopiedKinds
  <2>. QED BY <2>1, <2>2, StoreInvNext, WalkWrite
<1>. QED BY <1>1, <1>2, <1>3, <1>4 DEF ApiNext

LEMMA WalkInit == ASSUME ApiInit PROVE StoreInv /\ WalkInv
<1>1. Route("task_spec", {}, {}, "read_back", TRUE) \in Routes
  BY DEF Routes, TaskSpecRoutes
<1>2. (CHOOSE r \in Routes : TRUE) \in Routes
  BY <1>1
<1>3. WalkInv
  BY <1>2 DEF ApiInit, NoWalk, WalkInv, WalkTyped
<1>. QED BY <1>3, StoreInvInit DEF ApiInit

(***************************************************************************)
(* A client that pages through a list until has_more is false has seen     *)
(* every document that was there when it began and is there still: a       *)
(* document only moves away from the start of the list, and the count that *)
(* has_more is told from is that of the page (HasMore, _list_by_prefix).    *)
(* For every page size, with and without an index that lags behind.        *)
(***************************************************************************)
THEOREM WalksSeeAll == ApiSpec => []WalkSeesAll
<1>1. ApiInit => StoreInv /\ WalkInv
  BY WalkInit
<1>2. StoreInv /\ WalkInv /\ [ApiNext]_ApiVars => (StoreInv /\ WalkInv)'
  BY WalkNext
<1>3. StoreInv /\ WalkInv => WalkSeesAll
  BY DEF WalkInv, ToCome, WalkSeesAll, Shown
<1>. QED BY <1>1, <1>2, <1>3, PTL DEF ApiSpec

-----------------------------------------------------------------------------
(***************************************************************************)
(* What the routes answer.                                                 *)
(***************************************************************************)
Found(kind, owners) == {d \in Visible : d.kind = kind /\ d.owner \in owners}

\* A list without a limit holds what its prefix and its filter ask for.
LEMMA ScanHolds ==
  ASSUME StoreInv, NEW kind, kind \notin LatestKinds, NEW owners
  PROVE  LET list == Scan(kind, owners, 0, 0)
         IN /\ ToSet(list.items) = Found(kind, owners)
            /\ list.total = Cardinality(Found(kind, owners))
            /\ Found(kind, owners) # {} => list.items # <<>>
<1>. DEFINE S == Found(kind, owners)
            s == InOrder(S)
<1>1. S \subseteq Shown(kind)
  BY DEF Found, Shown
<1>2. /\ s \in Seq(S) /\ Len(s) = Cardinality(S) /\ ToSet(s) = S
  BY <1>1, ShownSorts, InOrderFacts
<1>3. Scan(kind, owners, 0, 0) = [items |-> s, total |-> Len(s)]
  BY DEF Scan, ListByPrefix, Page, Found
<1>4. S # {} => s # <<>>
  <2>1. ToSet(<<>>) = {}
    BY DEF ToSet
  <2>. HIDE DEF S, s
  <2>. QED BY <1>2, <2>1
<1>. HIDE DEF S, s
<1>. QED BY <1>2, <1>3, <1>4 DEF S

LEMMA FilteredHolds ==
  ASSUME StoreInv, NEW kind, kind \notin LatestKinds, NEW owners, NEW tags
  PROVE  ToSet(Filtered(Scan(kind, owners, 0, 0), tags).items) =
           {d \in Found(kind, owners) : d.tag \in tags}
<1>. DEFINE S == Found(kind, owners)
            list == Scan(kind, owners, 0, 0)
            K == {d \in ToSet(list.items) : d.tag \in tags}
<1>1. ToSet(list.items) = S
  BY ScanHolds
<1>2. CASE tags = Tags
  <2>1. \A d \in S : d.tag \in Tags
    BY DEF StoreInv, Wellformed, Found, Visible
  <2>2. Filtered(list, tags) = list
    BY <1>2 DEF Filtered
  <2>. QED BY <1>1, <1>2, <2>1, <2>2
<1>3. CASE tags # Tags
  <2>1. Filtered(list, tags) = [items |-> InOrder(K), total |-> Len(InOrder(K))]
    BY <1>3 DEF Filtered
  <2>2. K \subseteq Shown(kind)
    BY <1>1 DEF Found, Shown
  <2>3. ToSet(InOrder(K)) = K
    BY <2>2, ShownSorts, InOrderFacts
  <2>. HIDE DEF K, list, S
  <2>. QED BY <1>1, <2>1, <2>3 DEF K, S, list
<1>. QED BY <1>2, <1>3

\* A list of decisions about one plan is that of the index unless that is empty,
\* and then it is not empty if there is a copy of the latest decision.
LEMMA DecisionsHold ==
  ASSUME StoreInv, NEW kind \in {"human_approval", "ethics_check"}, NEW p
  PROVE  /\ Found(kind, {p}) # {} =>
              ToSet(WithLatest(kind, {p}, 0, 0).items) = Found(kind, {p})
         /\ (\E d \in docs : d.kind = LatestKind(kind) /\ d.owner = p) =>
              WithLatest(kind, {p}, 0, 0).items # <<>>
<1>. DEFINE list == Scan(kind, {p}, 0, 0)
            latest == UNION {GetRaw(LatestKind(kind), q, 0) : q \in {p}}
            n == Cardinality(latest)
            s == SetToSeq(latest)
<1>1. kind \notin LatestKinds /\ LatestKind(kind) \in LatestKinds
  BY DEF LatestKinds, LatestKind
<1>2. /\ ToSet(list.items) = Found(kind, {p})
      /\ Found(kind, {p}) # {} => list.items # <<>>
  BY <1>1, ScanHolds
<1>3. WithLatest(kind, {p}, 0, 0) =
        IF list.items # <<>> THEN list ELSE [items |-> s, total |-> n]
  BY FS_Singleton DEF WithLatest
<1>4. ASSUME NEW d \in docs, d.kind = LatestKind(kind), d.owner = p PROVE s # <<>>
  <2>1. d \in latest
    BY <1>1, <1>4 DEF GetRaw, StoreInv, Wellformed
  <2>2. IsFiniteSet(latest)
    <3>1. latest \subseteq docs
      BY DEF GetRaw
    <3>. QED BY <3>1, FS_Subset DEF StoreInv
  <2>. HIDE DEF latest
  <2>3. n \in Nat /\ n # 0 /\ ExistsBijection(1..n, latest)
    BY <2>1, <2>2, FS_CardinalityType, FS_EmptySet
  <2>4. \E f \in [1..n -> latest] : IsInjective(f)
    BY <2>3 DEF ExistsBijection, Bijection, Injection
  <2>5. s \in [1..n -> latest]
    BY <2>4 DEF SetToSeq
  <2>6. 1 \in DOMAIN s /\ DOMAIN <<>> = {}
    BY <2>3, <2>5
  <2>. HIDE DEF s
  <2>. QED BY <2>6
<1>5. (\E d \in docs : d.kind = LatestKind(kind) /\ d.owner = p) => s # <<>>
  BY <1>4
<1>. HIDE DEF list, s, n
<1>6. Found(kind, {p}) # {} => WithLatest(kind, {p}, 0, 0) = list
  BY <1>2, <1>3
<1>7. s # <<>> => WithLatest(kind, {p}, 0, 0).items # <<>>
  BY <1>3
<1>. QED BY <1>2, <1>5, <1>6, <1>7

LEMMA DecisionsVisible == StoreInv => DecisionVisible
<1>. SUFFICES ASSUME StoreInv PROVE DecisionVisible
  OBVIOUS
<1>1. ASSUME NEW p \in Owners, NEW kind \in {"human_approval", "ethics_check"},
             \E d \in docs : d.kind = LatestKind(kind) /\ d.owner = p
      PROVE  WithLatest(kind, {p}, 0, 0).items # <<>>
  BY <1>1, DecisionsHold
<1>2. ASSUME NEW d \in docs, d.kind \in CopiedKinds, Pair(d) \notin torn
      PROVE  \/ \E s \in saving : Pair(s) = Pair(d) /\ s.at = d.at
             \/ \E e \in GetRaw(LatestKind(d.kind), d.owner, 0) : e.at >= d.at
  BY <1>2 DEF StoreInv, CopiesHold, HasCopy, GetRaw
<1>3. ASSUME NEW d \in Visible
      PROVE  LET found == CASE d.kind = "decision" -> ListDecisionRecords({d.owner}, {d.tag}, 0, 0)
                            [] d.kind = "topology_outcome" -> ListTopologyOutcomes({d.tag}, 0, 0)
                            [] d.kind = "coalition_outcome" -> ListCoalitionOutcomes({d.tag}, 0, 0)
                            [] OTHER -> [items |-> <<d>>]
             IN d \in ToSet(found.items)
  <2>0. d \in docs \cup indexed
    BY DEF Visible
  <2>1. CASE d.kind = "decision"
    <3>1. d \in ToSet(ListDecisionRecords({d.owner}, {d.tag}, 0, 0).items)
      BY <2>1, FilteredHolds DEF ListDecisionRecords, LatestKinds, Found
    <3>. QED BY <2>1, <3>1
  <2>2. CASE d.kind = "topology_outcome"
    <3>1. d.owner \in Owners
      BY <2>0, <2>2 DEF StoreInv, Wellformed, OwnedKinds
    <3>2. d \in ToSet(ListTopologyOutcomes({d.tag}, 0, 0).items)
      BY <2>2, <3>1, FilteredHolds DEF ListTopologyOutcomes, LatestKinds, Found
    <3>. QED BY <2>2, <3>2
  <2>3. CASE d.kind = "coalition_outcome"
    <3>1. d.owner \in Owners
      BY <2>0, <2>3 DEF StoreInv, Wellformed, OwnedKinds
    <3>2. d \in ToSet(ListCoalitionOutcomes({d.tag}, 0, 0).items)
      BY <2>3, <3>1, FilteredHolds DEF ListCoalitionOutcomes, LatestKinds, Found
    <3>. QED BY <2>3, <3>2
  <2>4. CASE d.kind \notin {"decision", "topology_outcome", "coalition_outcome"}
    <3>1. d \in ToSet(<<d>>)
      BY DEF ToSet
    <3>. QED BY <2>4, <3>1
  <2>. QED BY <2>1, <2>2, <2>3, <2>4
<1>. QED BY <1>1, <1>2, <1>3 DEF DecisionVisible

\* What a route makes of its parameters, and which documents it fetches.
NoPrefix == {"task_spec", "plan_draft", "plan_suggestion", "ethics_policy", "cnp_cycle"}
NoFilter ==
  {"task_spec", "plan_revision", "human_approval", "ethics_check", "ethics_policy", "strategy",
   "execution", "audit", "escalation"}

LEMMA RouteParameters ==
  \A r \in Routes : /\ r.prefix = {} <=> r.kind \in NoPrefix
                    /\ r.filters = {} <=> r.kind \in NoFilter
                    /\ r.one => r.kind \notin {"affordance", "reservation"}
BY DEF Routes, TaskSpecRoutes, MarkerRoutes, BidRoutes, PlanRoutes,
     SuggestionRoutes, ContractRoutes, DecisionRoutes, PolicyRoutes, ExecutionRoutes,
     AuditRoutes, CycleRoutes, Route, NoPrefix, NoFilter

\* A list with parameters and no limit holds what the list without them holds
\* for them.
LEMMA ParametersSelect ==
  ASSUME StoreInv, NEW r \in Routes, NEW d \in Shown(r.kind)
  PROVE  ToSet(ListRoute(r, {d.owner}, {d.tag}, 0, 0).items) =
           {e \in Shown(r.kind) : /\ r.prefix # {} => e.owner = d.owner
                                  /\ r.filters # {} => e.tag = d.tag}
<1>. DEFINE k == r.kind
            os == IF r.prefix = {} THEN Owners ELSE {d.owner}
            asked == IF r.filters = {} THEN Tags ELSE {d.tag}
            R == {e \in Shown(k) : /\ r.prefix # {} => e.owner = d.owner
                                   /\ r.filters # {} => e.tag = d.tag}
<1>1. k \in RouteKinds /\ k \notin LatestKinds
  BY RouteKindsAre DEF RouteKinds, LatestKinds
<1>2. \A e \in Shown(k) : e.tag \in Tags /\ (k \in UserKinds => e.owner = "user")
                                        /\ (k \in OwnedKinds => e.owner \in Owners)
  BY DEF Shown, Visible, StoreInv, Wellformed
<1>3. \A e : e \in Found(k, os) <=> e \in Shown(k) /\ e.owner \in os
  BY DEF Found, Shown
<1>4. k \in OwnedKinds => {e \in Found(k, os) : e.tag \in asked} = R
  BY <1>2, <1>3
<1>5. r.prefix = {} /\ k \in UserKinds => {e \in Found(k, {"user"}) : e.tag \in asked} = R
  BY <1>2 DEF Found, Shown
<1>6. /\ k \in OwnedKinds /\ k \in NoFilter => Found(k, os) = R
      /\ k \in UserKinds /\ k \in NoPrefix /\ k \in NoFilter => Found(k, {"user"}) = R
  BY <1>2, <1>3, RouteParameters DEF Found, Shown
<1>7. /\ ToSet(Scan(k, os, 0, 0).items) = Found(k, os)
      /\ ToSet(Scan(k, {"user"}, 0, 0).items) = Found(k, {"user"})
  BY <1>1, ScanHolds
<1>8. /\ ToSet(Filtered(Scan(k, os, 0, 0), asked).items) = {e \in Found(k, os) : e.tag \in asked}
      /\ ToSet(Filtered(Scan(k, {"user"}, 0, 0), asked).items) =
           {e \in Found(k, {"user"}) : e.tag \in asked}
  <2>. HIDE DEF k, os, asked
  <2>1. \A o : ToSet(Filtered(Scan(k, o, 0, 0), asked).items) = {e \in Found(k, o) : e.tag \in asked}
    BY <1>1, FilteredHolds
  <2>. QED BY <2>1
<1>9. k \in OwnedKinds /\ k \notin NoPrefix => os = {d.owner} /\ os # Owners
  BY RouteParameters, StoreAssumption, FS_Singleton
<1>10. k \in NoPrefix => os = Owners /\ r.prefix = {}
  BY RouteParameters
<1>11. k \in {"human_approval", "ethics_check"} => ToSet(WithLatest(k, os, 0, 0).items) = Found(k, os)
  <2>1. k \in {"human_approval", "ethics_check"} => os = {d.owner} /\ d \in Found(k, os)
    BY <1>3, <1>9 DEF OwnedKinds, NoPrefix
  <2>. QED BY <2>1, DecisionsHold
<1>12. ListRoute(r, {d.owner}, {d.tag}, 0, 0) =
         CASE k = "task_spec"       -> ListTaskSpecs(0, 0)
           [] k = "affordance"      -> ListAffordanceMarkers(os, asked, 0, 0)
           [] k = "reservation"     -> ListReservationMarkers(os, asked, 0, 0)
           [] k = "bid"             -> ListBids(os, asked, 0, 0)
           [] k = "plan_draft"      -> ListPlanDrafts(asked, 0, 0)
           [] k = "plan_revision"   -> ListPlanRevisions(os, 0, 0)
           [] k = "plan_suggestion" -> ListPlanSuggestions(asked, 0, 0)
           [] k = "cfp"             -> ListCfps(os, asked, 0, 0)
           [] k = "award"           -> ListContractAwards(os, asked, 0, 0)
           [] k = "human_approval"  -> ListHumanApprovals(os, 0, 0)
           [] k = "ethics_check"    -> ListEthicsChecks(os, 0, 0)
           [] k = "ethics_policy"   -> ListEthicsPolicies(0, 0)
           [] k = "strategy"        -> ListStrategyPlans(os, 0, 0)
           [] k = "execution"       -> ListExecutionReports(os, 0, 0)
           [] k = "audit"           -> ListAuditLogs(os, 0, 0)
           [] k = "escalation"      -> ListEscalationNotices(os, 0, 0)
           [] k = "cnp_cycle"       -> ListCnpCycles(asked, 0, 0)
  BY DEF ListRoute
<1>. HIDE DEF k, os, asked, R
<1>13. CASE k \in {"task_spec", "ethics_policy"}
  <2>1. ListRoute(r, {d.owner}, {d.tag}, 0, 0) = Scan(k, {"user"}, 0, 0)
    BY <1>12, <1>13 DEF ListTaskSpecs, ListEthicsPolicies
  <2>2. Found(k, {"user"}) = R
    BY <1>6, <1>13 DEF UserKinds, NoPrefix, NoFilter
  <2>. QED BY <1>7, <2>1, <2>2 DEF R, k
<1>14. CASE k \in {"plan_suggestion", "cnp_cycle"}
  <2>1. ListRoute(r, {d.owner}, {d.tag}, 0, 0) = Filtered(Scan(k, {"user"}, 0, 0), asked)
    BY <1>12, <1>14 DEF ListPlanSuggestions, ListCnpCycles
  <2>2. {e \in Found(k, {"user"}) : e.tag \in asked} = R
    BY <1>5, <1>10, <1>14 DEF UserKinds, NoPrefix
  <2>. QED BY <1>8, <2>1, <2>2 DEF R, k
<1>15. CASE k \in {"affordance", "reservation", "bid", "plan_draft", "cfp", "award"}
  <2>1. ListRoute(r, {d.owner}, {d.tag}, 0, 0) = Filtered(Scan(k, os, 0, 0), asked)
    BY <1>9, <1>10, <1>12, <1>15
       DEF ListAffordanceMarkers, ListReservationMarkers, ListBids, ListPlanDrafts, ListCfps,
           ListContractAwards, OwnedKinds, NoPrefix
  <2>2. {e \in Found(k, os) : e.tag \in asked} = R
    BY <1>4, <1>15 DEF OwnedKinds
  <2>. QED BY <1>8, <2>1, <2>2 DEF R, k
<1>16. CASE k \in {"plan_revision", "strategy", "execution", "audit", "escalation"}
  <2>1. ListRoute(r, {d.owner}, {d.tag}, 0, 0) = Scan(k, os, 0, 0)
    BY <1>12, <1>16
       DEF ListPlanRevisions, ListStrategyPlans, ListExecutionReports, ListAuditLogs,
           ListEscalationNotices
  <2>2. Found(k, os) = R
    BY <1>6, <1>16 DEF OwnedKinds, NoFilter
  <2>. QED BY <1>7, <2>1, <2>2 DEF R, k
<1>17. CASE k \in {"human_approval", "ethics_check"}
  <2>1. ListRoute(r, {d.owner}, {d.tag}, 0, 0) = WithLatest(k, os, 0, 0)
    BY <1>12, <1>17 DEF ListHumanApprovals, ListEthicsChecks
  <2>2. Found(k, os) = R
    BY <1>6, <1>17 DEF OwnedKinds, NoFilter
  <2>. QED BY <1>11, <1>17, <2>1, <2>2 DEF R, k
<1>. QED BY <1>1, <1>13, <1>14, <1>15, <1>16, <1>17, RouteKindsAre

\* Documents other than markers keep their keys, and so does the one that a
\* POST is about to read back.
KeyStays(P, p) ==
  \E d \in P : d.kind = p.kind /\ d.owner = p.owner /\ d.id = p.id
PostInv ==
  /\ post = [kind |-> post.kind, owner |-> post.owner, id |-> post.id, at |-> post.at,
             status |-> post.status]
  /\ post.status \in {0, 102, 201}
  /\ post.status = 102 => post.kind \in {"task_spec", "plan_draft"} /\ KeyStays(docs, post)

LEMMA KeysStay ==
  ASSUME StoreMoved, NEW p, p.kind \notin {"affordance", "reservation"}, KeyStays(docs, p)
  PROVE  KeyStays(docs', p)
<1>1. PICK d \in docs : d.kind = p.kind /\ d.owner = p.owner /\ d.id = p.id
  BY DEF KeyStays
<1>2. ASSUME NEW e, docs' = Put(docs, e) PROVE KeyStays(docs', p)
  BY <1>1, <1>2 DEF Put, SameKey, KeyStays
<1>4. ASSUME NEW x \in docs, docs' = docs \ {x}, x.kind \in {"affordance", "reservation"}
      PROVE  KeyStays(docs', p)
  BY <1>1, <1>4 DEF KeyStays
<1>5. ASSUME docs' = docs PROVE KeyStays(docs', p)
  BY <1>5
<1>. QED BY <1>2, <1>4, <1>5
         DEF StoreMoved, Wrote, Copied, SaveCut, ExpireMarker, Index, Unindex

LEMMA AnswersHold == ASSUME StoreInv, PostInv PROVE AnswersAgree
<1>1. post.status # 500
  BY DEF PostInv
<1>2. ASSUME NEW r \in Routes
      PROVE  LET all == ListRoute(r, Owners, Tags, 0, 0)
                 items == ToSet(all.items)
             IN /\ GetGraphStoreStats.counts[r.kind] = all.total
                /\ \A d \in items :
                     /\ r.one => GetOne(r, d.owner, d.id).status = 200
                     /\ ToSet(ListRoute(r, {d.owner}, {d.tag}, 0, 0).items) =
                          {e \in items : /\ r.prefix # {} => e.owner = d.owner
                                         /\ r.filters # {} => e.tag = d.tag}
  <2>. DEFINE all == ListRoute(r, Owners, Tags, 0, 0)
              S == Shown(r.kind)
  <2>1. Sortable(S)
    BY AllSort DEF RouteKinds
  <2>2. all = ListByPrefix(InOrder(S), 0, 0)
    BY RouteShows
  <2>3. ToSet(InOrder(S)) = S /\ Len(InOrder(S)) = Cardinality(S)
    BY <2>1, InOrderFacts
  <2>4. all.items = InOrder(S) /\ all.total = Cardinality(S)
    BY <2>2, <2>3 DEF ListByPrefix, Page
  <2>5. GetGraphStoreStats.counts[r.kind] = Cardinality(S)
    BY DEF GetGraphStoreStats, EntityCounts, Shown
  <2>6. ASSUME NEW d \in S, r.one PROVE GetOne(r, d.owner, d.id).status = 200
    <3>1. d.kind = r.kind /\ d.kind \notin {"affordance", "reservation"} /\ d \in docs \cup indexed
      BY <2>6, RouteParameters DEF Shown, Visible
    <3>2. \E e \in docs : SameKey(e, d)
      BY <3>1 DEF StoreInv, SameKey
    <3>3. GetRaw(r.kind, d.owner, d.id) # {}
      BY <3>1, <3>2 DEF GetRaw, SameKey
    <3>. QED BY <3>3 DEF GetOne
  <2>. HIDE DEF all
  <2>. QED BY <2>3, <2>4, <2>5, <2>6, ParametersSelect DEF all
<1>. QED BY <1>1, <1>2 DEF AnswersAgree

LEMMA PostNext ==
  ASSUME StoreInv, PostInv, [ApiNext]_ApiVars PROVE PostInv'
<1>1. ASSUME StoreMoved, UNCHANGED post PROVE PostInv'
  BY <1>1, KeysStay DEF PostInv
<1>2. CASE OthersWrite
  BY <1>1, <1>2, StoreMoves DEF OthersWrite
<1>3. CASE UNCHANGED ApiVars \/ CountPage \/ FetchPage \/ \E r \in Routes : StartWalk(r)
  <2>1. UNCHANGED <<post, docs>>
    BY <1>3 DEF ApiVars, apiVars, storeVars, CountPage, FetchPage, StartWalk
  <2>. QED BY <2>1 DEF PostInv
<1>4. CASE AnswerPost
  <2>1. ReadBack(post) # {}
    BY <1>4 DEF AnswerPost, PostInv, KeyStays, ReadBack, GetRaw
  <2>2. post' = [post EXCEPT !.status = 201]
    BY <1>4, <2>1 DEF AnswerPost
  <2>. QED BY <2>2 DEF PostInv
<1>5. ASSUME NEW i \in Ids, NEW t \in Tags, PostTaskSpec(i, t) PROVE PostInv'
  <2>1. i # 0 /\ UpsertTaskSpec(i, t)
    BY <1>5, StoreAssumption DEF PostTaskSpec
  <2>2. \E d \in docs' : d.kind = "task_spec" /\ d.owner = "user" /\ d.id = i
    BY <2>1 DEF UpsertTaskSpec, Simple, Save, Put
  <2>3. post' = [kind |-> "task_spec", owner |-> "user", id |-> i, at |-> writes', status |-> 102]
    BY <1>5 DEF PostTaskSpec
  <2>. QED BY <2>2, <2>3 DEF PostInv, KeyStays
<1>6. ASSUME NEW o \in Owners, NEW t \in Tags, PostPlanDraft(o, t) PROVE PostInv'
  <2>1. \E d \in docs' : d.kind = "plan_draft" /\ d.owner = o /\ d.id = 1
    BY <1>6 DEF PostPlanDraft, SavePlanDraft, Simple, Save, Put
  <2>2. post' = [kind |-> "plan_draft", owner |-> o, id |-> 1, at |-> writes', status |-> 102]
    BY <1>6 DEF PostPlanDraft
  <2>. QED BY <2>1, <2>2 DEF PostInv, KeyStays
<1>. QED BY <1>2, <1>3, <1>4, <1>5, <1>6 DEF ApiNext

(***************************************************************************)
(* What is saved can be read, however far the index lags: a decision about *)
(* a plan through the copy of the latest one (list_human_approvals,        *)
(* list_ethics_checks), the active policy through a copy as new as the      *)
(* policies unless saves overlapped or broke off, a document that a POST    *)
(* has just written; and statistics, lists with and without parameters and *)
(* single documents agree.                                                  *)
(***************************************************************************)
THEOREM StoreIsConsistent == ApiSpec => []StoreAnswers
<1>1. ApiInit => StoreInv /\ WalkInv /\ PostInv
  BY WalkInit DEF ApiInit, PostInv
<1>2. StoreInv /\ WalkInv /\ PostInv /\ [ApiNext]_ApiVars => (StoreInv /\ WalkInv /\ PostInv)'
  BY WalkNext, PostNext
<1>3. StoreInv /\ WalkInv /\ PostInv => StoreAnswers
  BY DecisionsVisible, AnswersHold DEF StoreAnswers
<1>. QED BY <1>1, <1>2, <1>3, PTL DEF ApiSpec

-----------------------------------------------------------------------------
(***************************************************************************)
(* Scores and rewards (BidScoring, Learning): arithmetic on integers.      *)
(***************************************************************************)
\* The larger and the smaller of two numbers.
LEMMA MaxTwo ==
  ASSUME NEW a \in Int, NEW b \in Int
  PROVE  Max({a, b}) = IF a >= b THEN a ELSE b
<1>1. PICK m : m = IF a >= b THEN a ELSE b
  OBVIOUS
<1>2. m \in {a, b} /\ \A y \in {a, b} : m >= y
  BY <1>1
<1>3. \A x \in {a, b} : (\A y \in {a, b} : x >= y) => x = m
  BY <1>1
<1>. QED BY <1>1, <1>2, <1>3 DEF Max

\* The smaller of two numbers.
LEMMA MinTwo ==
  ASSUME NEW a \in Int, NEW b \in Int
  PROVE  Min({a, b}) = IF a <= b THEN a ELSE b
<1>1. PICK m : m = IF a <= b THEN a ELSE b
  OBVIOUS
<1>2. m \in {a, b} /\ \A y \in {a, b} : m <= y
  BY <1>1
<1>3. \A x \in {a, b} : (\A y \in {a, b} : x <= y) => x = m
  BY <1>1
<1>. QED BY <1>1, <1>2, <1>3 DEF Min

\* A clamped number is within its bounds, and clamping keeps the order.
LEMMA ClampFacts ==
  ASSUME NEW v \in Int, NEW lo \in Int, NEW hi \in Int, lo <= hi
  PROVE  /\ Clamp(v, lo, hi) \in lo..hi
         /\ \A w \in Int : v <= w => Clamp(v, lo, hi) <= Clamp(w, lo, hi)
<1>1. ASSUME NEW w \in Int
      PROVE  Clamp(w, lo, hi) = IF w < lo THEN lo ELSE IF w > hi THEN hi ELSE w
  <2>1. PICK m : m = Min({w, hi})
    OBVIOUS
  <2>2. m = IF w <= hi THEN w ELSE hi
    BY <2>1, MinTwo
  <2>3. Clamp(w, lo, hi) = Max({lo, m})
    BY <2>1 DEF Clamp
  <2>4. m \in Int
    BY <2>2
  <2>5. Max({lo, m}) = IF lo >= m THEN lo ELSE m
    BY <2>4, MaxTwo
  <2>. QED BY <2>2, <2>3, <2>5
<1>2. Clamp(v, lo, hi) = IF v < lo THEN lo ELSE IF v > hi THEN hi ELSE v
  BY <1>1
<1>3. ASSUME NEW w \in Int, v <= w PROVE Clamp(v, lo, hi) <= Clamp(w, lo, hi)
  BY <1>2, <1>1, <1>3
<1>. QED BY <1>2, <1>3

\* A score is kept within a percentage, in the order of what is scored.
LEMMA InPercent ==
  ASSUME NEW x \in Int, NEW y \in Int
  PROVE  Clamp(x, 0, 100) \in 0..100 /\ (x <= y => Clamp(x, 0, 100) <= Clamp(y, 0, 100))
<1>1. PICK lo \in Int, hi \in Int : lo = 0 /\ hi = 100
  OBVIOUS
<1>2. lo <= hi
  BY <1>1
<1>3. Clamp(x, lo, hi) \in lo..hi /\ (x <= y => Clamp(x, lo, hi) <= Clamp(y, lo, hi))
  BY ONLY <1>2, ClampFacts, Zenon
<1>. QED BY <1>1, <1>3

\* A quotient keeps the order of its dividend, and lies where it should.
LEMMA Quotients ==
  ASSUME NEW a \in Int, NEW k \in Nat \ {0}
  PROVE  /\ a \div k \in Int /\ k * (a \div k) <= a /\ a < k * (a \div k) + k
         /\ \A b \in Int : a <= b => a \div k <= b \div k
         /\ a >= 0 => a \div k \in Nat
<1>1. a \div k \in Int /\ k * (a \div k) <= a /\ a < k * (a \div k) + k
  OBVIOUS
<1>2. ASSUME NEW b \in Int, a <= b PROVE a \div k <= b \div k
  BY <1>2
<1>3. a >= 0 => a \div k \in Nat
  OBVIOUS
<1>. QED BY <1>1, <1>2, <1>3

\* The fields that bids are scored by.
BidTyped(b) ==
  /\ b.trust \in Int /\ b.cost \in Int /\ b.load \in Int /\ b.success \in Int
  /\ b.penalty \in Int /\ b.bias \in Int
  /\ b.capability \in 0..100 /\ b.pheromone \in 0..100

\* Normalising keeps the order.
LEMMA NormFacts ==
  ASSUME NEW v \in Int, NEW lo \in Int, NEW hi \in Int
  PROVE  /\ Norm(v, lo, hi) \in Int
         /\ \A w \in Int : v <= w => Norm(v, lo, hi) <= Norm(w, lo, hi)
<1>1. CASE ~(hi > lo)
  BY <1>1 DEF Norm
<1>2. CASE hi > lo
  <2>1. hi - lo \in Nat \ {0}
    BY <1>2
  <2>2. \A w \in Int : Norm(w, lo, hi) = (100 * (w - lo)) \div (hi - lo)
    BY <1>2 DEF Norm
  <2>3. 100 * (v - lo) \in Int /\ \A w \in Int : v <= w => 100 * (v - lo) <= 100 * (w - lo)
    OBVIOUS
  <2>4. \A w \in Int : 100 * (w - lo) \in Int
    OBVIOUS
  <2>5. PICK k : k = hi - lo
    OBVIOUS
  <2>6. PICK a : a = 100 * (v - lo)
    OBVIOUS
  <2>7. a \in Int /\ k \in Nat \ {0}
    BY <2>1, <2>3, <2>5, <2>6
  <2>8. a \div k \in Int /\ \A b \in Int : a <= b => a \div k <= b \div k
    BY ONLY <2>7, Quotients
  <2>9. ASSUME NEW w \in Int, v <= w PROVE Norm(v, lo, hi) <= Norm(w, lo, hi)
    <3>1. PICK b \in Int : b = 100 * (w - lo) /\ a <= b
      BY <2>3, <2>4, <2>6, <2>9
    <3>2. a \div k <= b \div k
      BY <2>8, <3>1
    <3>3. Norm(v, lo, hi) = a \div k /\ Norm(w, lo, hi) = b \div k
      BY <2>2, <2>5, <2>6, <3>1
    <3>. QED BY <3>2, <3>3
  <2>. QED BY <2>2, <2>5, <2>6, <2>8, <2>9
<1>. QED BY <1>1, <1>2

\* A bid that is worse in no respect scores no less, in a common range.
LEMMA ScoreFacts ==
  ASSUME NEW b, NEW c, BidTyped(b), BidTyped(c),
         NEW tmin \in Int, NEW tmax \in Int, NEW lmin \in Int, NEW lmax \in Int
  PROVE  /\ ScoreBid(b, tmin, tmax, lmin, lmax) \in 0..100
         /\ (/\ b.trust >= c.trust /\ b.success >= c.success /\ b.bias >= c.bias
             /\ b.cost <= c.cost /\ b.load <= c.load /\ b.penalty <= c.penalty)
            => ScoreBid(b, tmin, tmax, lmin, lmax) >= ScoreBid(c, tmin, tmax, lmin, lmax)
<1>. DEFINE W(x) == 60 * x.trust - 60 * Norm(x.cost, tmin, tmax) - 40 * Norm(x.load, lmin, lmax)
                    + 15 * x.success - 25 * x.penalty + 20 * x.bias
<1>1. /\ Norm(b.cost, tmin, tmax) \in Int /\ Norm(c.cost, tmin, tmax) \in Int
      /\ Norm(b.load, lmin, lmax) \in Int /\ Norm(c.load, lmin, lmax) \in Int
      /\ b.cost <= c.cost => Norm(b.cost, tmin, tmax) <= Norm(c.cost, tmin, tmax)
      /\ b.load <= c.load => Norm(b.load, lmin, lmax) <= Norm(c.load, lmin, lmax)
  BY NormFacts DEF BidTyped
<1>2. W(b) \in Int /\ W(c) \in Int
  BY <1>1 DEF BidTyped
<1>3. ASSUME b.trust >= c.trust, b.success >= c.success, b.bias >= c.bias,
             b.cost <= c.cost, b.load <= c.load, b.penalty <= c.penalty
      PROVE  W(c) <= W(b)
  <2>1. PICK nb, nc, mb, mc : /\ nb = Norm(b.cost, tmin, tmax) /\ nc = Norm(c.cost, tmin, tmax)
                              /\ mb = Norm(b.load, lmin, lmax) /\ mc = Norm(c.load, lmin, lmax)
    OBVIOUS
  <2>2. /\ nb \in Int /\ nc \in Int /\ mb \in Int /\ mc \in Int /\ nb <= nc /\ mb <= mc
    BY <1>1, <1>3, <2>1
  <2>3. /\ W(b) = 60 * b.trust - 60 * nb - 40 * mb + 15 * b.success - 25 * b.penalty + 20 * b.bias
        /\ W(c) = 60 * c.trust - 60 * nc - 40 * mc + 15 * c.success - 25 * c.penalty + 20 * c.bias
    BY <2>1
  <2>. HIDE DEF W
  <2>. QED BY <1>3, <2>2, <2>3 DEF BidTyped
<1>4. /\ ScoreBid(b, tmin, tmax, lmin, lmax) = Clamp(50 + W(b) \div 200, 0, 100)
      /\ ScoreBid(c, tmin, tmax, lmin, lmax) = Clamp(50 + W(c) \div 200, 0, 100)
  BY DEF ScoreBid
<1>. HIDE DEF W
<1>5. W(b) \div 200 \in Int /\ W(c) \div 200 \in Int /\ (W(c) <= W(b) => W(c) \div 200 <= W(b) \div 200)
  BY <1>2, Quotients
<1>6. PICK v, w : v = 50 + W(b) \div 200 /\ w = 50 + W(c) \div 200
  OBVIOUS
<1>7. v \in Int /\ w \in Int /\ (W(c) <= W(b) => w <= v)
  BY <1>5, <1>6
<1>. HIDE DEF W
<1>9. Clamp(w, 0, 100) \in 0..100 /\ Clamp(v, 0, 100) \in 0..100
  BY <1>7, InPercent
<1>10. w <= v => Clamp(w, 0, 100) <= Clamp(v, 0, 100)
  BY <1>7, InPercent
<1>. QED BY <1>3, <1>4, <1>6, <1>7, <1>9, <1>10

\* For any two bids: one that is worse in no respect scores no less, and the blend of
\* the inline resolution is a score (score_bid, _resolve_competing_service).
THEOREM BetterBidsScoreNoLess ==
  ASSUME NEW b, NEW c, BidTyped(b), BidTyped(c)
  PROVE  BidScoreSound(b, c)
<1>1. /\ Min({b.cost, c.cost}) \in Int /\ Max({b.cost, c.cost}) \in Int
      /\ Min({b.load, c.load}) \in Int /\ Max({b.load, c.load}) \in Int
  BY MinTwo, MaxTwo DEF BidTyped
<1>2. ASSUME NEW tmax \in Int, NEW lmax \in Int
      PROVE  ScoreBid(b, Min({b.cost, c.cost}), tmax, Min({b.load, c.load}), lmax) \in 0..100
  BY <1>1, <1>2, ScoreFacts
<1>3. InlineScore(b, {b, c}) \in 0..100
  <2>1. {x.cost : x \in {b, c}} = {b.cost, c.cost} /\ {x.load : x \in {b, c}} = {b.load, c.load}
    OBVIOUS
  <2>. DEFINE tmin == Min({b.cost, c.cost})  tmax == Max({b.cost, c.cost})
              lmin == Min({b.load, c.load})  lmax == Max({b.load, c.load})
              t == IF tmax > tmin THEN tmax ELSE tmin + 1
              l == IF lmax > lmin THEN lmax ELSE lmax + 1
              s == ScoreBid(b, tmin, t, lmin, l)
  <2>2. InlineScore(b, {b, c}) = (60 * s + 25 * b.capability + 15 * b.pheromone) \div 100
    BY <2>1, Zenon DEF InlineScore
  <2>3. t \in Int /\ l \in Int
    <3>1. tmin \in Int /\ tmax \in Int /\ lmin \in Int /\ lmax \in Int
      BY <1>1
    <3>. HIDE DEF tmin, tmax, lmin, lmax
    <3>. QED BY <3>1
  <2>4. s \in 0..100
    BY <1>2, <2>3
  <2>. HIDE DEF s
  <2>5. PICK n : n = 60 * s + 25 * b.capability + 15 * b.pheromone
    OBVIOUS
  <2>6. n \in Int /\ 0 <= n /\ n <= 10000
    <3>1. PICK x, y, z : x = s /\ y = b.capability /\ z = b.pheromone
      OBVIOUS
    <3>2. x \in 0..100 /\ y \in 0..100 /\ z \in 0..100
      BY <2>4, <3>1 DEF BidTyped
    <3>3. n = 60 * x + 25 * y + 15 * z
      BY <2>5, <3>1
    <3>. QED BY ONLY <3>2, <3>3
  <2>. QED BY ONLY <2>2, <2>5, <2>6
<1>. QED BY <1>1, <1>3, ScoreFacts DEF BidScoreSound

\* What a reward is computed from.
ExecutionTyped(o) ==
  /\ o.success \in BOOLEAN
  /\ o.retries \in Nat /\ o.latency \in Nat /\ o.cost \in Nat /\ o.blocks \in Nat

\* The reward in terms of what was earned and deducted.
LEMMA RewardFacts ==
  ASSUME NEW o, ExecutionTyped(o)
  PROVE  \E r \in Int, q \in Int :
           /\ q = (100 * o.latency) \div 60 /\ q >= 0
           /\ r = (IF o.success THEN 100 ELSE -100)
                  - 50 * (IF o.retries > 1 THEN o.retries - 1 ELSE 0)
                  - (IF q <= 30 THEN q ELSE 30)
                  - (IF 10 * o.cost <= 20 THEN 10 * o.cost ELSE 20) - 10 * o.blocks
           /\ ComputeReward(o) = IF r > 150 THEN 150 ELSE IF r < -200 THEN -200 ELSE r
<1>1. PICK q : q = (100 * o.latency) \div 60
  OBVIOUS
<1>2. q \in Int /\ q >= 0
  BY <1>1 DEF ExecutionTyped
<1>3. PICK a, b, c : /\ a = Max({0, o.retries - 1}) /\ b = Min({q, 30}) /\ c = Min({10 * o.cost, 20})
  OBVIOUS
<1>4. /\ a = (IF o.retries > 1 THEN o.retries - 1 ELSE 0)
      /\ b = (IF q <= 30 THEN q ELSE 30)
      /\ c = (IF 10 * o.cost <= 20 THEN 10 * o.cost ELSE 20)
  <2>1. o.retries - 1 \in Int /\ 10 * o.cost \in Int
    BY DEF ExecutionTyped
  <2>2. a = IF 0 >= o.retries - 1 THEN 0 ELSE o.retries - 1
    BY <1>3, <2>1, MaxTwo
  <2>3. b = IF q <= 30 THEN q ELSE 30
    BY <1>2, <1>3, MinTwo
  <2>4. c = IF 10 * o.cost <= 20 THEN 10 * o.cost ELSE 20
    BY <1>3, <2>1, MinTwo
  <2>. QED BY <2>2, <2>3, <2>4 DEF ExecutionTyped
<1>5. PICK r : r = (IF o.success THEN 100 ELSE -100) - 50 * a - b - c - 10 * o.blocks
  OBVIOUS
<1>6. r \in Int
  BY <1>2, <1>4, <1>5 DEF ExecutionTyped
<1>7. ComputeReward(o) = Max({Min({r, 150}), -200})
  BY <1>1, <1>3, <1>5, Zenon DEF ComputeReward
<1>8. PICK m : m = Min({r, 150})
  OBVIOUS
<1>9. m = IF r <= 150 THEN r ELSE 150
  BY <1>6, <1>8, MinTwo
<1>10. m \in Int /\ -200 \in Int
  BY <1>6, <1>9
<1>11. Max({m, -200}) = IF m >= -200 THEN m ELSE -200
  BY <1>10, MaxTwo
<1>12. ComputeReward(o) = IF r > 150 THEN 150 ELSE IF r < -200 THEN -200 ELSE r
  BY <1>6, <1>7, <1>8, <1>9, <1>11
<1>. QED BY <1>1, <1>2, <1>4, <1>5, <1>6, <1>12

\* For any two executions: one that went no worse in any respect earns no smaller
\* reward, and a success with nothing to deduct a larger one than any failure
\* (compute_reward).
THEOREM BetterRunsEarnNoLess ==
  ASSUME NEW o, NEW p, ExecutionTyped(o), ExecutionTyped(p)
  PROVE  RewardSound(o, p)
<1>1. PICK r \in Int, q \in Int :
           /\ q = (100 * o.latency) \div 60 /\ q >= 0
           /\ r = (IF o.success THEN 100 ELSE -100)
                  - 50 * (IF o.retries > 1 THEN o.retries - 1 ELSE 0)
                  - (IF q <= 30 THEN q ELSE 30)
                  - (IF 10 * o.cost <= 20 THEN 10 * o.cost ELSE 20) - 10 * o.blocks
           /\ ComputeReward(o) = IF r > 150 THEN 150 ELSE IF r < -200 THEN -200 ELSE r
  BY RewardFacts
<1>2. PICK s \in Int, u \in Int :
           /\ u = (100 * p.latency) \div 60 /\ u >= 0
           /\ s = (IF p.success THEN 100 ELSE -100)
                  - 50 * (IF p.retries > 1 THEN p.retries - 1 ELSE 0)
                  - (IF u <= 30 THEN u ELSE 30)
                  - (IF 10 * p.cost <= 20 THEN 10 * p.cost ELSE 20) - 10 * p.blocks
           /\ ComputeReward(p) = IF s > 150 THEN 150 ELSE IF s < -200 THEN -200 ELSE s
  BY RewardFacts
<1>3. ASSUME p.success => o.success, o.retries <= p.retries, o.latency <= p.latency,
             o.cost <= p.cost, o.blocks <= p.blocks
      PROVE  ComputeReward(o) >= ComputeReward(p)
  <2>1. q <= u
    <3>1. 100 * o.latency \in Int /\ 100 * p.latency \in Int /\ 100 * o.latency <= 100 * p.latency
      BY <1>3 DEF ExecutionTyped
    <3>2. PICK v \in Int, w \in Int : v = 100 * o.latency /\ w = 100 * p.latency
      BY <3>1
    <3>3. v <= w /\ q = v \div 60 /\ u = w \div 60 /\ 60 \in Nat \ {0}
      BY ONLY <1>1, <1>2, <3>1, <3>2
    <3>4. v \div 60 <= w \div 60
      BY ONLY <3>3, Quotients
    <3>. QED BY ONLY <3>3, <3>4
  <2>2. PICK a, b : /\ a = (IF o.retries > 1 THEN o.retries - 1 ELSE 0)
                    /\ b = (IF p.retries > 1 THEN p.retries - 1 ELSE 0)
    OBVIOUS
  <2>3. PICK c, d : /\ c = (IF q <= 30 THEN q ELSE 30) /\ d = (IF u <= 30 THEN u ELSE 30)
    OBVIOUS
  <2>4. PICK e, f : /\ e = (IF 10 * o.cost <= 20 THEN 10 * o.cost ELSE 20)
                    /\ f = (IF 10 * p.cost <= 20 THEN 10 * p.cost ELSE 20)
    OBVIOUS
  <2>5. PICK g, h : g = (IF o.success THEN 100 ELSE -100) /\ h = (IF p.success THEN 100 ELSE -100)
    OBVIOUS
  <2>6. a \in Int /\ b \in Int /\ a <= b
    BY <1>3, <2>2 DEF ExecutionTyped
  <2>7. c \in Int /\ d \in Int /\ c <= d
    BY <2>1, <2>3
  <2>8. e \in Int /\ f \in Int /\ e <= f
    BY <1>3, <2>4 DEF ExecutionTyped
  <2>9. g \in Int /\ h \in Int /\ g >= h
    BY <1>3, <2>5 DEF ExecutionTyped
  <2>10. r = g - 50 * a - c - e - 10 * o.blocks /\ s = h - 50 * b - d - f - 10 * p.blocks
    <3>1. r = g - 50 * a - c - e - 10 * o.blocks
      BY ONLY <1>1, <2>2, <2>3, <2>4, <2>5
    <3>2. s = h - 50 * b - d - f - 10 * p.blocks
      BY ONLY <1>2, <2>2, <2>3, <2>4, <2>5
    <3>. QED BY <3>1, <3>2
  <2>11. PICK x \in Nat, y \in Nat : x = o.blocks /\ y = p.blocks /\ x <= y
    BY <1>3 DEF ExecutionTyped
  <2>12. r >= s
    BY ONLY <2>6, <2>7, <2>8, <2>9, <2>10, <2>11
  <2>. QED BY <1>1, <1>2, <2>12
<1>4. ASSUME o.success, o.retries <= 1, o.blocks = 0, ~p.success
      PROVE  ComputeReward(o) > ComputeReward(p)
  <2>1. r >= 50 /\ r <= 100
    BY <1>1, <1>4 DEF ExecutionTyped
  <2>2. s <= -100
    BY <1>2, <1>4 DEF ExecutionTyped
  <2>. QED BY <1>1, <1>2, <2>1, <2>2
<1>. QED BY <1>3, <1>4 DEF RewardSound

\* What a coalition agrees on, and how its steps go.
ContractTyped(contract, run) ==
  /\ \E A : contract.members \in Seq(A)
  /\ contract.steps \in Nat /\ contract.maxHandoffs \in Nat /\ run.lateFrom \in Int

\* Hand-overs are counted, and more steps have no fewer of them.
LEMMA HandoffFacts ==
  ASSUME NEW contract, NEW i \in Nat
  PROVE  /\ Handoffs(contract, i) \in Nat
         /\ i <= 1 => Handoffs(contract, i) = 0
         /\ \A k \in Nat : i <= k => Handoffs(contract, i) <= Handoffs(contract, k)
<1>. DEFINE H(k) == {j \in 2..k : MemberOf(contract, j) # MemberOf(contract, j - 1)}
<1>1. \A k \in Nat : IsFiniteSet(2..k) /\ H(k) \subseteq 2..k
  BY FS_Interval
<1>2. \A k \in Nat : IsFiniteSet(H(k)) /\ Cardinality(H(k)) \in Nat
  BY <1>1, FS_Subset, FS_CardinalityType
<1>3. ASSUME NEW k \in Nat, i <= k PROVE Cardinality(H(i)) <= Cardinality(H(k))
  <2>1. H(i) \subseteq H(k)
    BY <1>3
  <2>. HIDE DEF H
  <2>. QED BY <1>2, <2>1, FS_Subset
<1>4. i <= 1 => H(i) = {}
  OBVIOUS
<1>. HIDE DEF H
<1>5. \A k : Handoffs(contract, k) = Cardinality(H(k))
  BY DEF Handoffs, H
<1>. QED BY <1>2, <1>3, <1>4, <1>5, FS_EmptySet

\* For any members, steps and failures: a coalition that reports success did all its
\* steps or fell back on one agent, hands over no more often than allowed, and reports
\* a failure only of a step that was tried (execute_coalition).
THEOREM CoalitionsReportTruly ==
  ASSUME NEW contract, NEW run, ContractTyped(contract, run)
  PROVE  CoalitionRunSound(contract, run)
<1>. SUFFICES ASSUME contract.members # <<>> PROVE CoalitionRunSound(contract, run)
  BY DEF CoalitionRunSound
<1>. DEFINE n == IF contract.steps = 0 THEN Len(contract.members) ELSE contract.steps
            late(k) == k >= run.lateFrom
            tooMany(k) == Handoffs(contract, k) > contract.maxHandoffs
            ends == {k \in 1..n : late(k) \/ tooMany(k) \/ k \in run.failing}
            i == Min(ends)
            out == ExecuteCoalition(contract, run)
            tried == out.done + (IF out.state \in {"FALLBACK_TO_SOLO", "COALITION_ABORTED"} THEN 1 ELSE 0)
            alone == contract.fallback = "degrade_to_solo" /\ contract.preferred # "none" /\ run.solo
<1>1. n \in Nat /\ n >= 1
  <2>1. PICK A : contract.members \in Seq(A)
    BY DEF ContractTyped
  <2>. QED BY <2>1 DEF ContractTyped
<1>2. ends \subseteq 1..n /\ ends \in SUBSET Nat
  BY <1>1
<1>3. /\ ends = {} => out = Outcome(TRUE, n, 0, 0, "none")
      /\ ends # {} /\ late(i) => out = Outcome(FALSE, i - 1, 0, 0, "PARTNER_TIMEOUT")
      /\ ends # {} /\ ~late(i) /\ tooMany(i)
           => out = Outcome(FALSE, i - 1, 0, 1, "HANDOFF_VALIDATION_FAILED")
      /\ ends # {} /\ ~late(i) /\ ~tooMany(i) /\ alone
           => out = Outcome(TRUE, i - 1, 1, 1, "FALLBACK_TO_SOLO")
      /\ ends # {} /\ ~late(i) /\ ~tooMany(i) /\ ~alone
           => out = Outcome(FALSE, i - 1, 0, 1, "COALITION_ABORTED")
  BY Zenon DEF ExecuteCoalition
<1>4. CoalitionRunSound(contract, run) <=>
       /\ out.success <=> (out.done = n \/ out.retries = 1)
       /\ Handoffs(contract, Min({tried, n})) <= contract.maxHandoffs
       /\ (run.failing = {} /\ run.lateFrom > n) =>
            (out.success <=> Handoffs(contract, n) <= contract.maxHandoffs)
       /\ out.state = "COALITION_ABORTED" => tried \in run.failing
       /\ \A j \in 1..out.done : j \notin run.failing /\ j < run.lateFrom
  BY DEF CoalitionRunSound
<1>5. ends # {} => i \in 1..n /\ i \in ends /\ \A k \in ends : i <= k
  BY <1>2, LeastPlace
<1>6. \A k \in 1..n : k \notin ends => ~late(k) /\ ~tooMany(k) /\ k \notin run.failing
  OBVIOUS
<1>7. \A k \in 1..n : k \in ends => late(k) \/ tooMany(k) \/ k \in run.failing
  OBVIOUS
<1>. HIDE DEF ends, i, out
<1>8. CASE ends = {}
  <2>1. out = Outcome(TRUE, n, 0, 0, "none")
    BY <1>3, <1>8
  <2>2. out.success = TRUE /\ out.done = n /\ out.retries = 0 /\ out.state = "none"
    BY <2>1 DEF Outcome
  <2>. HIDE DEF n
  <2>3. tried = n
    BY <1>1, <2>2
  <2>4. Handoffs(contract, n) <= contract.maxHandoffs /\ Handoffs(contract, n) \in Nat
    BY <1>1, <1>6, <1>8, HandoffFacts DEF ContractTyped
  <2>5. Min({n, n}) = n
    BY <1>1, MinTwo
  <2>6. \A j \in 1..n : j \notin run.failing /\ j < run.lateFrom
    BY <1>1, <1>6, <1>8 DEF ContractTyped
  <2>. QED BY <1>4, <2>2, <2>3, <2>4, <2>5, <2>6
<1>9. CASE ends # {}
  <2>. HIDE DEF n
  <2>1. /\ i \in Nat /\ i >= 1 /\ i <= n /\ i - 1 \in Nat /\ i - 1 < n
    BY <1>1, <1>5, <1>9
  <2>2. \A k \in 1..(i - 1) : k \in 1..n /\ k \notin ends
    BY <1>1, <1>5, <1>9, <2>1
  <2>3. \A k \in 1..(i - 1) : k \notin run.failing /\ k < run.lateFrom
    BY <1>6, <2>1, <2>2 DEF ContractTyped
  <2>4. Handoffs(contract, i - 1) \in Nat /\ Handoffs(contract, i) \in Nat /\ Handoffs(contract, n) \in Nat
    BY <1>1, <2>1, HandoffFacts
  <2>5. Handoffs(contract, i - 1) <= contract.maxHandoffs
    <3>1. CASE i = 1
      <4>1. Handoffs(contract, i - 1) = 0
        BY <2>1, <3>1, HandoffFacts
      <4>. QED BY <4>1 DEF ContractTyped
    <3>2. CASE i # 1
      <4>1. i - 1 \in 1..(i - 1)
        BY <2>1, <3>2
      <4>2. ~tooMany(i - 1)
        BY <1>6, <2>2, <4>1
      <4>. QED BY <2>4, <4>2 DEF ContractTyped
    <3>. QED BY <3>1, <3>2
  <2>6. Min({i - 1, n}) = i - 1 /\ Min({i, n}) = i
    BY <1>1, <2>1, MinTwo
  <2>7. Handoffs(contract, i) <= Handoffs(contract, n)
    BY <1>1, <2>1, HandoffFacts
  <2>8. run.failing = {} /\ run.lateFrom > n => ~late(i) /\ tooMany(i)
    BY <1>1, <1>5, <1>7, <1>9, <2>1 DEF ContractTyped
  <2>9. tooMany(i) => ~(Handoffs(contract, n) <= contract.maxHandoffs)
    BY <2>4, <2>7 DEF ContractTyped
  <2>10. CASE late(i)
    <3>1. out = Outcome(FALSE, i - 1, 0, 0, "PARTNER_TIMEOUT")
      BY <1>3, <1>9, <2>10
    <3>2. out.success = FALSE /\ out.done = i - 1 /\ out.retries = 0 /\ out.state = "PARTNER_TIMEOUT"
      BY <3>1 DEF Outcome
    <3>3. tried = i - 1
      BY <2>1, <3>2
    <3>. HIDE DEF late, tooMany, tried
    <3>. QED BY <1>4, <2>1, <2>3, <2>5, <2>6, <2>8, <2>10, <3>2, <3>3
  <2>11. CASE ~late(i) /\ tooMany(i)
    <3>1. out = Outcome(FALSE, i - 1, 0, 1, "HANDOFF_VALIDATION_FAILED")
      BY <1>3, <1>9, <2>11
    <3>2. /\ out.success = FALSE /\ out.done = i - 1 /\ out.retries = 0
          /\ out.state = "HANDOFF_VALIDATION_FAILED"
      BY <3>1 DEF Outcome
    <3>3. tried = i - 1
      BY <2>1, <3>2
    <3>. HIDE DEF late, tooMany, tried
    <3>. QED BY <1>4, <2>1, <2>3, <2>5, <2>6, <2>9, <2>11, <3>2, <3>3
  <2>12. CASE ~late(i) /\ ~tooMany(i)
    <3>1. Handoffs(contract, i) <= contract.maxHandoffs
      BY <2>4, <2>12 DEF ContractTyped
    <3>2. i \in run.failing
      BY <1>5, <1>7, <1>9, <2>12
    <3>3. CASE alone
      <4>1. out = Outcome(TRUE, i - 1, 1, 1, "FALLBACK_TO_SOLO")
        BY <1>3, <1>9, <2>12, <3>3
      <4>2. /\ out.success = TRUE /\ out.done = i - 1 /\ out.retries = 1
            /\ out.state = "FALLBACK_TO_SOLO"
        BY <4>1 DEF Outcome
      <4>3. tried = i
        BY <2>1, <4>2
      <4>. HIDE DEF late, tooMany, tried
      <4>. QED BY <1>4, <2>3, <2>6, <2>8, <2>12, <3>1, <4>2, <4>3
    <3>4. CASE ~alone
      <4>1. out = Outcome(FALSE, i - 1, 0, 1, "COALITION_ABORTED")
        BY <1>3, <1>9, <2>12, <3>4
      <4>2. /\ out.success = FALSE /\ out.done = i - 1 /\ out.retries = 0
            /\ out.state = "COALITION_ABORTED"
        BY <4>1 DEF Outcome
      <4>3. tried = i
        BY <2>1, <4>2
      <4>. HIDE DEF late, tooMany, tried
      <4>. QED BY <1>4, <2>1, <2>3, <2>6, <2>8, <2>12, <3>1, <3>2, <4>2, <4>3
    <3>. QED BY <3>3, <3>4
  <2>. QED BY <2>10, <2>11, <2>12
<1>. QED BY <1>8, <1>9

\* Agents as the registry describes them: numbers, and finitely many capabilities.
AgentTyped(a) ==
  /\ IsFiniteSet(a.caps) /\ a.trust \in Int /\ a.load \in Int /\ a.maxload \in Int
  /\ a.joint \in Int /\ a.friction \in Int

\* The signals in force are numbers.
SigTyped(sig) == sig.trust \in Int /\ sig.friction \in Int

\* Compatibility is a percentage.
LEMMA CompatibilityType ==
  ASSUME NEW p, NEW a, NEW sig, AgentTyped(p), AgentTyped(a), SigTyped(sig)
  PROVE  Compatibility(p, a, sig) \in 0..100
<1>. DEFINE c == Cardinality(a.caps \ p.caps)
            k == Max({Cardinality(a.caps), 1})
            t == Min({p.trust, a.trust})
            m == Max({a.maxload, 1})
            u == (1000 * a.load) \div m
            w == 25 * sig.trust + 15 * t - 10 * sig.friction - u
            x == (40 * c) \div k
            y == w \div 100
<1>1. Compatibility(p, a, sig) = Clamp(x + y, 0, 100)
  BY DEF Compatibility
<1>2. c \in Nat /\ Cardinality(a.caps) \in Nat
  <2>1. IsFiniteSet(a.caps \ p.caps)
    BY FS_Subset DEF AgentTyped
  <2>. QED BY <2>1, FS_CardinalityType DEF AgentTyped
<1>3. k \in Nat \ {0}
  BY <1>2, MaxTwo
<1>4. t \in Int /\ m \in Nat \ {0}
  BY MinTwo, MaxTwo DEF AgentTyped
<1>. HIDE DEF c, k, t, m
<1>5. u \in Int
  <2>1. 1000 * a.load \in Int
    BY DEF AgentTyped
  <2>. QED BY <1>4, <2>1, Quotients
<1>6. x \in Int
  <2>1. 40 * c \in Int
    BY <1>2
  <2>. QED BY <1>3, <2>1, Quotients
<1>. HIDE DEF u
<1>7. w \in Int
  BY <1>4, <1>5 DEF SigTyped
<1>. HIDE DEF w, x
<1>8. y \in Int
  BY <1>7, Quotients
<1>. HIDE DEF y
<1>9. x + y \in Int
  BY <1>6, <1>8
<1>. QED BY <1>1, <1>9, InPercent

\* The function that BestPartner defines by recursion, and that it exists.
Looked(f, primary, agents, n) ==
  f = [k \in 0..n |-> IF k = 0 THEN [sig |-> NoSignals, compat |-> 0, partner |-> NoPartner]
                      ELSE Consider(primary, f[k - 1], agents[k])]

\* Induction up to n, over a set of numbers.
LEMMA CountUp ==
  ASSUME NEW n \in Nat, NEW G, 0 \in G,
         \A m \in 0..n : m \in G /\ m + 1 <= n => m + 1 \in G
  PROVE  \A m \in 0..n : m \in G
<1>. SUFFICES ASSUME NEW x \in 0..n, x \notin G PROVE FALSE
  OBVIOUS
<1>1. PICK T : T = {m \in 0..n : m \notin G}
  OBVIOUS
<1>2. T \in SUBSET Nat /\ T # {}
  BY <1>1
<1>3. PICK m \in T : \A i \in T : m <= i
  BY <1>2, LeastPlace
<1>4. m \in 0..n /\ m \notin G /\ m # 0
  BY <1>1, <1>3
<1>5. m - 1 \in 0..n
  BY <1>4
<1>6. m - 1 \in G
  <2>1. m - 1 \notin T
    BY <1>3, <1>4
  <2>. QED BY <1>1, <1>5, <2>1
<1>7. (m - 1) + 1 \in G
  BY <1>4, <1>5, <1>6
<1>. QED BY <1>4, <1>7

\* There is such a function for every number of agents.
LEMMA LookedExists ==
  ASSUME NEW primary, NEW agents, NEW n \in Nat
  PROVE  \E f : Looked(f, primary, agents, n)
<1>. DEFINE start == [sig |-> NoSignals, compat |-> 0, partner |-> NoPartner]
<1>1. PICK G : G = {m \in 0..n : \E f : Looked(f, primary, agents, m)}
  OBVIOUS
<1>2. \A m \in 0..n : m \in G <=> \E f : Looked(f, primary, agents, m)
  BY <1>1
<1>3. 0 \in G
  <2>1. PICK f : f = [k \in 0..0 |-> start]
    OBVIOUS
  <2>2. Looked(f, primary, agents, 0)
    BY <2>1 DEF Looked
  <2>. QED BY <1>2, <2>2
<1>4. ASSUME NEW m \in 0..n, m \in G, m + 1 <= n PROVE m + 1 \in G
  <2>1. PICK f : Looked(f, primary, agents, m)
    BY <1>2, <1>4
  <2>2. PICK last : last = Consider(primary, f[m], agents[m + 1])
    OBVIOUS
  <2>3. PICK g : g = [k \in 0..(m + 1) |-> IF k = m + 1 THEN last ELSE f[k]]
    OBVIOUS
  <2>4. \A k \in 0..m : g[k] = f[k]
    BY <2>3
  <2>5. g[m + 1] = last /\ m + 1 # 0 /\ (m + 1) - 1 = m /\ m \in 0..m
    BY <2>3
  <2>6. \A k \in 0..m : f[k] = IF k = 0 THEN start ELSE Consider(primary, f[k - 1], agents[k])
    BY <2>1 DEF Looked
  <2>7. \A k \in 0..m : k # 0 => k - 1 \in 0..m
    OBVIOUS
  <2>8. \A k \in 0..m : g[k] = IF k = 0 THEN start ELSE Consider(primary, g[k - 1], agents[k])
    BY ONLY <2>4, <2>6, <2>7, Zenon
  <2>9. g[m + 1] = Consider(primary, g[m], agents[m + 1])
    BY <2>2, <2>4, <2>5
  <2>10. \A k \in 0..(m + 1) : k \in 0..m \/ k = m + 1
    OBVIOUS
  <2>11. ASSUME NEW k \in 0..(m + 1)
         PROVE  g[k] = IF k = 0 THEN start ELSE Consider(primary, g[k - 1], agents[k])
    <3>1. CASE k \in 0..m
      BY <2>8, <3>1, Zenon
    <3>2. CASE k = m + 1
      BY <2>5, <2>9, <3>2
    <3>. QED BY <2>10, <3>1, <3>2
  <2>12. Looked(g, primary, agents, m + 1)
    BY <2>3, <2>11 DEF Looked
  <2>13. m + 1 \in 0..n
    BY <1>4
  <2>. QED BY <1>2, <2>12, <2>13
<1>5. \A m \in 0..n : m \in G /\ m + 1 <= n => m + 1 \in G
  BY <1>4
<1>6. \A m \in 0..n : m \in G
  BY <1>3, <1>5, CountUp
<1>. QED BY <1>2, <1>6

\* The verifiers among the agents, how well each fits with its own signals, and
\* whether each has them.
Verifiers(primary, agents) ==
  {k \in DOMAIN agents : agents[k].id # primary.id /\ IsVerifierCandidate(agents[k])}
Fit(primary, a) == Compatibility(primary, a, [trust |-> a.joint, friction |-> a.friction])
OwnSignals(primary, agents) ==
  \A k \in Verifiers(primary, agents) : agents[k].joint >= 0 /\ agents[k].friction >= 0

\* What BestPartner knows after k agents: the partner is the first of the best.
SoFar(primary, agents, acc, k) ==
  LET V == Verifiers(primary, agents)
      F(i) == Fit(primary, agents[i])
      own == OwnSignals(primary, agents)
  IN /\ acc = [sig |-> acc.sig, compat |-> acc.compat, partner |-> acc.partner]
     /\ SigTyped(acc.sig) /\ acc.compat \in Nat
     /\ \/ acc.partner = NoPartner /\ acc.compat = 0
        \/ \E i \in V : /\ i <= k /\ acc.partner = agents[i]
                        /\ own => acc.compat = F(i) /\ \A j \in V : j < i => F(j) < F(i)
     /\ own => \A j \in V : j <= k => F(j) <= acc.compat

\* One more agent keeps that true.
LEMMA SoFarNext ==
  ASSUME NEW A, NEW primary, NEW agents \in Seq(A), AgentTyped(primary),
         \A k \in DOMAIN agents : AgentTyped(agents[k]),
         NEW k \in Nat, k + 1 <= Len(agents), NEW acc, SoFar(primary, agents, acc, k)
  PROVE  SoFar(primary, agents, Consider(primary, acc, agents[k + 1]), k + 1)
<1>. DEFINE V == Verifiers(primary, agents)
            F(i) == Fit(primary, agents[i])
            own == OwnSignals(primary, agents)
            a == agents[k + 1]
            sig == WithSignals(acc.sig, a)
            compat == Compatibility(primary, a, sig)
            new == Consider(primary, acc, a)
<1>1. /\ k + 1 \in DOMAIN agents /\ V \subseteq 1..Len(agents) /\ DOMAIN agents = 1..Len(agents)
      /\ Len(agents) \in Nat /\ k + 1 \in Nat
  BY DEF Verifiers
<1>2. AgentTyped(a)
  BY <1>1
<1>3. SigTyped(sig)
  BY <1>2 DEF SoFar, SigTyped, WithSignals, AgentTyped
<1>4. compat \in 0..100
  BY <1>2, <1>3, CompatibilityType
<1>5. k + 1 \in V <=> ~(a.id = primary.id \/ ~IsVerifierCandidate(a))
  BY <1>1 DEF Verifiers
<1>6. own /\ k + 1 \in V => compat = F(k + 1)
  <2>. SUFFICES ASSUME own, k + 1 \in V PROVE sig = [trust |-> a.joint, friction |-> a.friction]
    BY DEF Fit
  <2>1. a.joint >= 0 /\ a.friction >= 0
    BY DEF OwnSignals
  <2>. QED BY <2>1 DEF WithSignals
<1>7. \A j \in V : F(j) \in 0..100
  <2>. SUFFICES ASSUME NEW j \in V PROVE F(j) \in 0..100
    OBVIOUS
  <2>1. AgentTyped(agents[j])
    BY <1>1
  <2>2. PICK s : s = [trust |-> agents[j].joint, friction |-> agents[j].friction]
    OBVIOUS
  <2>3. SigTyped(s)
    BY <2>1, <2>2 DEF SigTyped, AgentTyped
  <2>. QED BY <2>1, <2>2, <2>3, CompatibilityType DEF Fit
<1>8. /\ acc = [sig |-> acc.sig, compat |-> acc.compat, partner |-> acc.partner]
      /\ SigTyped(acc.sig) /\ acc.compat \in Nat
      /\ \/ acc.partner = NoPartner /\ acc.compat = 0
         \/ \E i \in V : /\ i <= k /\ acc.partner = agents[i]
                         /\ own => acc.compat = F(i) /\ \A j \in V : j < i => F(j) < F(i)
      /\ own => \A j \in V : j <= k => F(j) <= acc.compat
  BY Zenon DEF SoFar
<1>. SUFFICES
      /\ new = [sig |-> new.sig, compat |-> new.compat, partner |-> new.partner]
      /\ SigTyped(new.sig) /\ new.compat \in Nat
      /\ \/ new.partner = NoPartner /\ new.compat = 0
         \/ \E i \in V : /\ i <= k + 1 /\ new.partner = agents[i]
                         /\ own => new.compat = F(i) /\ \A j \in V : j < i => F(j) < F(i)
      /\ own => \A j \in V : j <= k + 1 => F(j) <= new.compat
  BY Zenon DEF SoFar
<1>. HIDE DEF F, own
<1>9. \A j \in V : j \in Nat /\ (j <= k + 1 <=> j <= k \/ j = k + 1) /\ (j < k + 1 <=> j <= k)
  BY <1>1
<1>10. CASE k + 1 \notin V
  <2>1. new = acc
    BY <1>5, <1>10 DEF Consider
  <2>2. \A j \in V : j <= k + 1 <=> j <= k
    BY <1>9, <1>10
  <2>. HIDE DEF V, new
  <2>. QED BY <1>8, <2>1, <2>2
<1>11. CASE k + 1 \in V /\ compat > acc.compat
  <2>1. new = [sig |-> sig, compat |-> compat, partner |-> a]
    BY <1>5, <1>11 DEF Consider, Better
  <2>2. new.sig = sig /\ new.compat = compat /\ new.partner = a
    BY <2>1
  <2>. HIDE DEF V, new, sig, compat
  <2>3. ASSUME own, NEW j \in V, j < k + 1 PROVE F(j) < F(k + 1)
    <3>1. F(j) <= acc.compat
      BY <1>8, <1>9, <2>3, Zenon
    <3>2. F(k + 1) = compat /\ compat > acc.compat
      BY <1>6, <1>11, <2>3, Zenon
    <3>3. F(j) \in 0..100 /\ compat \in 0..100 /\ acc.compat \in Nat
      BY <1>4, <1>7, <1>8, <2>3, Zenon
    <3>4. PICK x, y, z : x = F(j) /\ y = F(k + 1) /\ z = acc.compat
      OBVIOUS
    <3>5. x <= z /\ y > z /\ x \in 0..100 /\ y \in 0..100 /\ z \in Nat
      BY <3>1, <3>2, <3>3, <3>4, Zenon
    <3>6. x < y
      BY ONLY <3>5
    <3>. QED BY <3>4, <3>6, Zenon
  <2>4. ASSUME own, NEW j \in V, j <= k + 1 PROVE F(j) <= compat
    <3>1. F(k + 1) = compat
      BY <1>6, <1>11, <2>4, Zenon
    <3>2. j < k + 1 \/ j = k + 1
      BY <1>9, <2>4, Zenon
    <3>3. F(j) \in 0..100 /\ compat \in 0..100
      BY <1>4, <1>7, <2>4, Zenon
    <3>4. j < k + 1 => F(j) < F(k + 1)
      BY <2>3, <2>4, Zenon
    <3>5. PICK x, y : x = F(j) /\ y = compat
      OBVIOUS
    <3>6. (x < y \/ x = y) /\ x \in 0..100 /\ y \in 0..100
      BY <3>1, <3>2, <3>3, <3>4, <3>5, Zenon
    <3>7. x <= y
      BY ONLY <3>6
    <3>. QED BY <3>5, <3>7, Zenon
  <2>5. k + 1 <= k + 1 /\ compat \in Nat
    BY <1>4
  <2>. QED BY <1>3, <1>6, <1>11, <2>1, <2>2, <2>3, <2>4, <2>5
<1>12. CASE k + 1 \in V /\ ~(compat > acc.compat)
  <2>1. new = [acc EXCEPT !.sig = sig]
    BY <1>5, <1>12 DEF Consider, Better
  <2>2. new = [sig |-> sig, compat |-> acc.compat, partner |-> acc.partner]
    BY <1>8, <2>1
  <2>3. new.sig = sig /\ new.compat = acc.compat /\ new.partner = acc.partner
    BY <2>2
  <2>. HIDE DEF V, new, sig, compat
  <2>4. ASSUME own, NEW j \in V, j <= k + 1 PROVE F(j) <= acc.compat
    <3>1. F(k + 1) = compat
      BY <1>6, <1>12, <2>4, Zenon
    <3>2. j <= k \/ j = k + 1
      BY <1>9, <2>4, Zenon
    <3>3. j <= k => F(j) <= acc.compat
      BY <1>8, <2>4, Zenon
    <3>4. compat \in 0..100 /\ acc.compat \in Nat /\ ~(compat > acc.compat)
      BY <1>4, <1>8, <1>12, Zenon
    <3>. QED BY ONLY <3>1, <3>2, <3>3, <3>4
  <2>5. \A j \in V : j <= k => j <= k + 1
    BY <1>9
  <2>. QED BY <1>3, <1>8, <2>2, <2>3, <2>4, <2>5
<1>. QED BY <1>10, <1>11, <1>12

\* For any agents: the partner of a coalition is the most compatible verifier, the
\* first among equals and never the primary agent, when each has signals of its own,
\* and a policy that bars coalitions yields only to a task that requires one
\* (assemble_coalition).
THEOREM BestVerifierWins ==
  ASSUME NEW A, NEW primary, NEW agents \in Seq(A), AgentTyped(primary),
         \A k \in DOMAIN agents : AgentTyped(agents[k]),
         NEW mode \in {"enabled", "discouraged", "disabled"}, NEW coord
  PROVE  PartnerIsBest(mode, coord, primary, agents)
<1>. DEFINE n == Len(agents)
            V == Verifiers(primary, agents)
            F(i) == Fit(primary, agents[i])
            own == OwnSignals(primary, agents)
            start == [sig |-> NoSignals, compat |-> 0, partner |-> NoPartner]
<1>1. n \in Nat /\ DOMAIN agents = 1..n
  OBVIOUS
<1>2. PICK f : Looked(f, primary, agents, n) /\ BestPartner(primary, agents) = f[n]
  <2>1. \E f : Looked(f, primary, agents, n)
    BY <1>1, LookedExists
  <2>2. PICK f : f = CHOOSE g : Looked(g, primary, agents, n)
    OBVIOUS
  <2>3. Looked(f, primary, agents, n)
    BY <2>1, <2>2
  <2>4. BestPartner(primary, agents) = f[n]
    BY <2>2 DEF BestPartner, Looked
  <2>. QED BY <2>3, <2>4
<1>3. \A k \in 0..n : f[k] = IF k = 0 THEN start ELSE Consider(primary, f[k - 1], agents[k])
  BY <1>2, Zenon DEF Looked
<1>4. SoFar(primary, agents, f[0], 0)
  <2>1. f[0] = start /\ \A j \in V : ~(j <= 0)
    BY <1>1, <1>3 DEF Verifiers
  <2>. QED BY <2>1 DEF SoFar, SigTyped, NoSignals
<1>5. ASSUME NEW k \in 0..n, SoFar(primary, agents, f[k], k), k + 1 <= n
      PROVE  SoFar(primary, agents, f[k + 1], k + 1)
  <2>1. k + 1 \in 0..n /\ k + 1 # 0 /\ (k + 1) - 1 = k /\ k \in Nat
    BY <1>1, <1>5
  <2>2. f[k + 1] = Consider(primary, f[k], agents[k + 1])
    BY <1>3, <2>1
  <2>. QED BY <1>5, <2>1, <2>2, SoFarNext
<1>6. SoFar(primary, agents, f[n], n)
  <2>1. PICK G : G = {k \in 0..n : SoFar(primary, agents, f[k], k)}
    OBVIOUS
  <2>2. \A k \in 0..n : k \in G <=> SoFar(primary, agents, f[k], k)
    BY <2>1
  <2>3. 0 \in G
    BY <1>1, <1>4, <2>2
  <2>4. \A k \in 0..n : k \in G /\ k + 1 <= n => k + 1 \in G
    <3>. SUFFICES ASSUME NEW k \in 0..n, k \in G, k + 1 <= n PROVE k + 1 \in G
      OBVIOUS
    <3>1. SoFar(primary, agents, f[k + 1], k + 1)
      BY <1>5, <2>2
    <3>2. k + 1 \in 0..n
      BY <1>1
    <3>. QED BY <2>2, <3>1, <3>2
  <2>5. \A k \in 0..n : k \in G
    BY <1>1, <2>3, <2>4, CountUp
  <2>6. n \in 0..n
    BY <1>1
  <2>. QED BY <2>2, <2>5, <2>6
<1>7. PICK best : best = f[n] /\ best = BestPartner(primary, agents)
  BY <1>2
<1>8. PICK partner : partner = AssembleCoalition(mode, coord, primary, agents)
  OBVIOUS
<1>9. partner # NoPartner => /\ partner = best.partner
                             /\ mode # "enabled" => coord = "coalition_required"
  BY <1>7, <1>8 DEF AssembleCoalition
<1>10. ASSUME partner # NoPartner
       PROVE  \E i \in V : /\ partner = agents[i]
                           /\ own => \A j \in V : F(i) > F(j) \/ (F(i) = F(j) /\ i <= j)
  <2>1. PICK i \in V : /\ partner = agents[i]
                       /\ own => best.compat = F(i) /\ \A j \in V : j < i => F(j) < F(i)
    BY <1>6, <1>7, <1>9, <1>10, Zenon DEF SoFar
  <2>2. own => \A j \in V : j <= n => F(j) <= best.compat
    BY <1>6, <1>7, Zenon DEF SoFar
  <2>3. \A j \in V : j \in Nat /\ j <= n
    BY <1>1 DEF Verifiers
  <2>4. \A j \in V : F(j) \in Nat
    <3>. SUFFICES ASSUME NEW j \in V PROVE F(j) \in Nat
      OBVIOUS
    <3>1. AgentTyped(agents[j])
      BY DEF Verifiers
    <3>2. PICK s : s = [trust |-> agents[j].joint, friction |-> agents[j].friction]
      OBVIOUS
    <3>3. SigTyped(s)
      BY <3>1, <3>2 DEF SigTyped, AgentTyped
    <3>4. Compatibility(primary, agents[j], s) \in 0..100
      BY <3>1, <3>3, CompatibilityType
    <3>5. PICK x : x = Compatibility(primary, agents[j], s)
      OBVIOUS
    <3>6. x \in 0..100
      BY <3>4, <3>5, Zenon
    <3>7. x \in Nat
      BY ONLY <3>6
    <3>. QED BY <3>2, <3>5, <3>7, Zenon DEF Fit
  <2>. HIDE DEF V, F, own, n
  <2>5. own => \A j \in V : F(i) > F(j) \/ (F(i) = F(j) /\ i <= j)
    BY <2>1, <2>2, <2>3, <2>4
  <2>. QED BY <2>1, <2>5
<1>11. \A i \in V : agents[i].id # primary.id
  BY DEF Verifiers
<1>12. partner # NoPartner => partner.id # primary.id
  BY <1>10, <1>11
<1>13. (partner # NoPartner /\ own) =>
          \E k \in V : partner = agents[k] /\ \A j \in V : F(k) > F(j) \/ (F(k) = F(j) /\ k <= j)
  BY <1>10
<1>. QED BY <1>8, <1>9, <1>12, <1>13, Zenon DEF PartnerIsBest, Verifiers, OwnSignals, Fit

\* What a bid is made from.
CountsTyped(record) ==
  record.received \in Nat /\ record.acquired \in Nat /\ record.completed \in Nat
CandidateTyped(agent, spec) ==
  /\ IsFiniteSet(agent.caps) /\ IsFiniteSet(agent.tags)
  /\ IsFiniteSet(spec.req) /\ IsFiniteSet(spec.tags)
  /\ agent.fresh \in Int /\ agent.decay \in Int

\* The share that one finite set has in another.
LEMMA ShareType ==
  ASSUME NEW S, NEW T, IsFiniteSet(S), IsFiniteSet(T), T # {}
  PROVE  Share(S, T) \in Int
<1>1. PICK c \in Nat, d \in Nat \ {0} : c = Cardinality(S \cap T) /\ d = Cardinality(T)
  <2>1. IsFiniteSet(S \cap T)
    BY FS_Intersection
  <2>. QED BY <2>1, FS_CardinalityType, FS_EmptySet
<1>2. 100 * c \in Int
  OBVIOUS
<1>3. (100 * c) \div d \in Int
  BY <1>2, Quotients
<1>. QED BY <1>1, <1>3, Zenon DEF Share

\* Scores, trust and capability stay within their scales (score_agent_for_task,
\* trust_score, capability_value), a cost is a number (estimate_cost).
LEMMA ScoreType ==
  ASSUME NEW agent, NEW spec, CandidateTyped(agent, spec)
  PROVE  ScoreAgentForTask(agent, spec) \in 0..100
<1>. DEFINE required == IF spec.req = {} THEN 50 ELSE Share(agent.caps, spec.req)
            tags == IF spec.tags = {} THEN 0 ELSE Share(agent.tags, spec.tags)
            base == 60 * required + 20 * tags + 20 * StatusWeight(agent.status)
            preferred == IF agent.id \in spec.preferred THEN 1000 ELSE 0
            product == (base + preferred) * PolicyFactor(agent)
            score == product \div 10000
<1>1. ScoreAgentForTask(agent, spec) = Clamp(score, 0, 100)
  BY DEF ScoreAgentForTask
<1>2. required \in Int /\ tags \in Int
  BY ShareType DEF CandidateTyped
<1>3. StatusWeight(agent.status) \in Int
  BY DEF StatusWeight
<1>4. preferred \in Int
  OBVIOUS
<1>5. PolicyFactor(agent) \in Int
  <2>1. PICK x \in Int : x = 25 * agent.fresh * agent.decay
    BY DEF CandidateTyped
  <2>2. x \div 10000 \in Int
    OBVIOUS
  <2>. QED BY <2>1, <2>2 DEF PolicyFactor
<1>. HIDE DEF required, tags, preferred
<1>6. base + preferred \in Int
  BY <1>2, <1>3, <1>4
<1>. HIDE DEF base
<1>7. product \in Int
  BY <1>5, <1>6
<1>. HIDE DEF product
<1>8. score \in Int
  BY <1>7
<1>. HIDE DEF score
<1>. QED BY <1>1, <1>8, InPercent

\* Trust is a percentage.
LEMMA TrustType == ASSUME NEW s, CountsTyped(s) PROVE TrustScore(s) \in 0..100
<1>1. CASE s.received <= 0
  BY <1>1 DEF TrustScore
<1>2. CASE ~(s.received <= 0)
  <2>. DEFINE y1 == (100 * s.acquired) \div s.received
              y2 == IF s.acquired = 0 THEN 0 ELSE (100 * s.completed) \div s.acquired
              y == (y1 + y2) \div 2
  <2>1. TrustScore(s) = Clamp(y, 0, 100)
    BY <1>2 DEF TrustScore
  <2>2. s.received \in Nat \ {0} /\ 100 * s.acquired \in Int /\ 100 * s.completed \in Int
    BY <1>2 DEF CountsTyped
  <2>3. y1 \in Int
    BY <2>2, Quotients
  <2>4. y2 \in Int
    <3>1. CASE s.acquired = 0
      BY <3>1
    <3>2. CASE s.acquired # 0
      <4>1. s.acquired \in Nat \ {0}
        BY <3>2 DEF CountsTyped
      <4>. QED BY <2>2, <3>2, <4>1, Quotients
    <3>. QED BY <3>1, <3>2
  <2>. HIDE DEF y1, y2
  <2>5. y \in Int
    BY <2>3, <2>4
  <2>. HIDE DEF y
  <2>. QED BY <2>1, <2>5, InPercent
<1>. QED BY <1>1, <1>2

\* Capability stays within its bounds.
LEMMA CapabilityType == ASSUME NEW score \in Int PROVE CapabilityValue(score) \in 1..60
<1>1. PICK v \in Int : v = (60 * score) \div 100
  OBVIOUS
<1>2. PICK lo \in Int, hi \in Int : lo = 1 /\ hi = 60 /\ lo <= hi
  OBVIOUS
<1>3. Clamp(v, lo, hi) \in lo..hi
  BY ONLY <1>2, ClampFacts, Zenon
<1>. QED BY <1>1, <1>2, <1>3 DEF CapabilityValue

\* Costs are whole numbers.
LEMMA CostType ==
  ASSUME NEW r \in Int, NEW c \in Int, NEW l \in Int, NEW m \in Int
  PROVE  EstimateCost(r, c, l, m) \in Int
<1>1. PICK x \in Nat \ {0}, y \in Nat \ {0} : x = Max({c, 1}) /\ y = Max({m, 1})
  BY MaxTwo
<1>2. x * y \in Nat \ {0}
  OBVIOUS
<1>3. 10 * r * (y + l) \in Int
  OBVIOUS
<1>4. PICK p \in Int, q \in Nat \ {0} : p = 10 * r * (y + l) /\ q = x * y
  BY <1>2, <1>3
<1>5. p \div q \in Int
  BY Quotients
<1>. QED BY <1>1, <1>4, <1>5, Zenon DEF EstimateCost

\* The greatest number of a finite set: a smallest set without one would lose none
\* of its numbers without getting one.
LEMMA MaxIsGreatest ==
  ASSUME NEW S \in SUBSET Nat, IsFiniteSet(S), S # {}
  PROVE  Max(S) \in S /\ \A y \in S : Max(S) >= y
<1>. DEFINE HasMax(A) == \E x \in A : \A y \in A : x >= y
            T == {Cardinality(A) : A \in {B \in SUBSET S : B # {} /\ ~HasMax(B)}}
<1>. SUFFICES ASSUME ~HasMax(S) PROVE FALSE
  BY DEF Max
<1>1. \A A \in SUBSET S : IsFiniteSet(A) /\ Cardinality(A) \in Nat
  BY FS_Subset, FS_CardinalityType
<1>2. T \in SUBSET Nat /\ T # {}
  BY <1>1
<1>3. PICK n \in T : \A k \in T : n <= k
  <2>. HIDE DEF T
  <2>. QED BY <1>2, LeastPlace
<1>4. PICK A \in SUBSET S : A # {} /\ ~HasMax(A) /\ n = Cardinality(A)
  OBVIOUS
<1>5. PICK r \in A : TRUE
  BY <1>4
<1>6. Cardinality(A \ {r}) = n - 1 /\ n \in Nat
  BY <1>1, <1>4, FS_RemoveElement
<1>7. A \ {r} # {}
  BY <1>4, <1>5
<1>8. HasMax(A \ {r})
  <2>. SUFFICES ASSUME ~HasMax(A \ {r}) PROVE FALSE
    OBVIOUS
  <2>1. Cardinality(A \ {r}) \in T
    BY <1>7
  <2>2. n <= n - 1
    <3>. HIDE DEF T
    <3>. QED BY <1>3, <1>6, <2>1
  <2>. QED BY <1>6, <2>2
<1>9. PICK x \in A \ {r} : \A y \in A \ {r} : x >= y
  BY <1>8
<1>10. HasMax(A)
  <2>1. CASE x >= r
    BY <1>9, <2>1
  <2>2. CASE ~(x >= r)
    <3>1. \A y \in A : r >= y
      BY <1>9, <2>2
    <3>. QED BY <3>1
  <2>. QED BY <2>1, <2>2
<1>. QED BY <1>4, <1>10

\* A penalty is at most 80 (failure_surface_penalty).
LEMMA PenaltyType ==
  ASSUME NEW counts \in Seq(Nat \ {0}) PROVE FailureSurfacePenalty(counts) \in 0..80
<1>1. CASE counts = <<>>
  BY <1>1 DEF FailureSurfacePenalty
<1>2. CASE counts # <<>>
  <2>. DEFINE worst == Max(ToSet(counts))
              p == Min({worst, Len(Saturation)})
              raw == Saturation[p]
              more == Min({10 * (Len(counts) - 1), 20})
  <2>1. FailureSurfacePenalty(counts) = Min({raw + more, 80})
    BY <1>2 DEF FailureSurfacePenalty
  <2>2. Len(counts) \in Nat /\ Len(counts) >= 1 /\ DOMAIN counts = 1..Len(counts)
    BY <1>2
  <2>3. ToSet(counts) \in SUBSET (Nat \ {0}) /\ ToSet(counts) # {} /\ IsFiniteSet(ToSet(counts))
    <3>1. ToSet(counts) = {counts[i] : i \in 1..Len(counts)}
      BY <2>2 DEF ToSet
    <3>2. IsFiniteSet(1..Len(counts))
      BY <2>2, FS_Interval
    <3>3. counts \in Surjection(1..Len(counts), ToSet(counts))
      BY <2>2, <3>1 DEF Surjection
    <3>4. IsFiniteSet(ToSet(counts))
      BY <3>2, <3>3, FS_Surjection
    <3>. QED BY <2>2, <3>1, <3>4
  <2>4. worst \in Nat \ {0}
    BY <2>3, MaxIsGreatest
  <2>. HIDE DEF worst
  <2>5. Len(Saturation) = 8 /\ \A i \in 1..8 : Saturation[i] \in 0..80
    <3>1. Saturation = <<23, 40, 52, 60, 66, 70, 73, 75>>
      BY DEF Saturation
    <3>. QED BY <3>1
  <2>6. p \in 1..8
    <3>1. PICK v \in Int : v = 8 /\ v = Len(Saturation)
      BY <2>5
    <3>2. p = Min({worst, v})
      BY <3>1, Zenon
    <3>. HIDE DEF p
    <3>3. Min({worst, v}) = IF worst <= v THEN worst ELSE v
      BY <2>4, MinTwo
    <3>4. PICK u, w : u = worst /\ w = p
      OBVIOUS
    <3>5. (w = IF u <= v THEN u ELSE v) /\ u \in Nat \ {0} /\ v = 8
      BY <2>4, <3>1, <3>2, <3>3, <3>4, Zenon
    <3>6. w \in 1..8
      BY ONLY <3>5
    <3>. QED BY <3>4, <3>6, Zenon
  <2>. HIDE DEF p
  <2>7. raw \in 0..80
    BY <2>5, <2>6
  <2>. HIDE DEF raw
  <2>8. \A n, v \in Nat : Min({n, v}) \in 0..v
    <3>. SUFFICES ASSUME NEW n \in Nat, NEW v \in Nat PROVE Min({n, v}) \in 0..v
      OBVIOUS
    <3>1. Min({n, v}) = IF n <= v THEN n ELSE v
      BY MinTwo
    <3>. QED BY <3>1
  <2>9. more \in 0..20
    <3>1. PICK n \in Nat, v \in Nat : n = 10 * (Len(counts) - 1) /\ v = 20
      BY <2>2
    <3>. QED BY <2>8, <3>1
  <2>. HIDE DEF more
  <2>10. PICK s \in Nat, v \in Nat : s = raw + more /\ v = 80
    BY <2>7, <2>9
  <2>. QED BY <2>1, <2>8, <2>10
<1>. QED BY <1>1, <1>2

\* A bid as the bidder makes it is one that scores can be computed from.
LEMMA BidsAreTyped ==
  ASSUME NEW i, NEW status, NEW load \in Int, NEW record, CountsTyped(record),
         NEW fails \in Seq(Nat \ {0}), NEW bias \in Int, NEW pheromone \in 0..100
  PROVE  BidTyped(Bid(i, status, load, record, fails, bias, pheromone))
<1>. DEFINE b == Bid(i, status, load, record, fails, bias, pheromone)
            score == ScoreAgentForTask(Candidate(i, status), Spec1)
            capability == CapabilityValue(score)
            reward == TaskParams(2).reward
            cost == EstimateCost(reward, capability, load, 2)
            penalty == FailureSurfacePenalty(fails)
            trust == TrustScore(record)
<1>1. b = [trust |-> trust, load |-> load, success |-> 50, cost |-> cost, penalty |-> penalty,
           bias |-> bias, capability |-> capability, pheromone |-> pheromone]
  BY DEF Bid
<1>2. CandidateTyped(Candidate(i, status), Spec1)
  <2>1. /\ IsFiniteSet({"plan"}) /\ IsFiniteSet({"t"}) /\ IsFiniteSet({"plan", "write"})
        /\ IsFiniteSet({})
    <3>1. IsFiniteSet({"plan"}) /\ IsFiniteSet({"t"}) /\ IsFiniteSet({})
      BY FS_Singleton, FS_EmptySet
    <3>2. {"plan", "write"} = {"plan"} \cup {"write"}
      OBVIOUS
    <3>. QED BY <3>1, <3>2, FS_AddElement
  <2>. QED BY <2>1 DEF CandidateTyped, Candidate, Spec1
<1>3. score \in 0..100
  BY <1>2, ScoreType, Zenon
<1>. HIDE DEF score
<1>4. capability \in 1..60
  <2>1. score \in Int
    BY <1>3
  <2>. QED BY <2>1, CapabilityType
<1>. HIDE DEF capability
<1>5. reward \in Int
  <2>1. PICK x \in Int, lo \in Int, hi \in Int :
          lo = 1 /\ hi = 60 /\ lo <= hi /\ x = 1 + 10 * Clamp(2, 1, 5)
    <3>1. PICK x \in Int, lo \in Int, hi \in Int : x = 2 /\ lo = 1 /\ hi = 5 /\ lo <= hi
      OBVIOUS
    <3>2. Clamp(x, lo, hi) \in lo..hi
      BY ONLY <3>1, ClampFacts, Zenon
    <3>3. Clamp(2, 1, 5) \in Int
      BY <3>1, <3>2
    <3>. QED BY <3>3
  <2>2. Clamp(x, lo, hi) \in lo..hi
    BY ONLY <2>1, ClampFacts, Zenon
  <2>3. reward = Clamp(x, lo, hi)
    BY <2>1, Zenon DEF TaskParams
  <2>. QED BY <2>2, <2>3
<1>. HIDE DEF reward
<1>6. cost \in Int
  BY <1>4, <1>5, CostType
<1>7. penalty \in 0..80 /\ trust \in 0..100
  BY PenaltyType, TrustType
<1>. HIDE DEF cost, penalty, trust
<1>8. /\ b.trust = trust /\ b.load = load /\ b.success = 50 /\ b.cost = cost /\ b.penalty = penalty
      /\ b.bias = bias /\ b.capability = capability /\ b.pheromone = pheromone
  BY <1>1
<1>. HIDE DEF b
<1>9. BidTyped(b)
  BY <1>4, <1>6, <1>7, <1>8 DEF BidTyped
<1>. QED BY <1>9 DEF b

\* What the inputs of the runs are.
LEMMA InputsAreTyped ==
  /\ \A b \in Bids : BidTyped(b)
  /\ AgentTyped(Primary) /\ \A i : \A p \in Partners(i) : AgentTyped(p)
  /\ \A e \in Executions : ExecutionTyped(e)
  /\ \A c \in Contracts, r \in CoalitionRuns : ContractTyped(c, r)
<1>1. ASSUME NEW b \in Bids PROVE BidTyped(b)
  <2>1. PICK i \in {"a", "b"}, status \in {"idle", "busy", "offline"}, load \in {0, 2}, r \in Records,
             f \in {<<>>, <<1>>, <<2, 9>>}, bias \in {0, 50}, ph \in {0, 100} :
             b = Bid(i, status, load, r, f, bias, ph)
    BY <1>1 DEF Bids
  <2>2. CountsTyped(r)
    BY DEF Records, CountsTyped
  <2>3. f \in Seq(Nat \ {0})
    <3>1. f = <<>> \/ f = <<1>> \/ f = <<2, 9>>
      OBVIOUS
    <3>2. \A x, y \in Nat \ {0} :
            <<>> \in Seq(Nat \ {0}) /\ <<x>> \in Seq(Nat \ {0}) /\ <<x, y>> \in Seq(Nat \ {0})
      OBVIOUS
    <3>3. 1 \in Nat \ {0} /\ 2 \in Nat \ {0} /\ 9 \in Nat \ {0}
      OBVIOUS
    <3>4. CASE f = <<>>
      BY <3>2, <3>3, <3>4
    <3>5. CASE f = <<1>>
      BY <3>5
    <3>6. CASE f = <<2, 9>>
      BY <3>6
    <3>. QED BY <3>1, <3>4, <3>5, <3>6
  <2>4. load \in Int /\ bias \in Int /\ ph \in 0..100
    OBVIOUS
  <2>. QED BY <2>1, <2>2, <2>3, <2>4, BidsAreTyped
<1>2. ASSUME NEW i, NEW p \in Partners(i) PROVE AgentTyped(p)
  <2>1. PICK cs \in {{"plan"}, {"validate"}, {"plan", "validate"}}, load \in {0, 2},
             joint \in {-1, 0, 100}, friction \in {-1, 100} :
             p = Agent(i, cs, 50, load, joint, friction)
    BY <1>2 DEF Partners
  <2>2. IsFiniteSet(cs)
    <3>1. IsFiniteSet({"plan"}) /\ IsFiniteSet({"validate"})
      BY FS_Singleton
    <3>2. {"plan", "validate"} = {"plan"} \cup {"validate"}
      OBVIOUS
    <3>3. IsFiniteSet({"plan", "validate"})
      BY <3>1, <3>2, FS_AddElement
    <3>. QED BY <3>1, <3>3, Zenon
  <2>. QED BY <2>1, <2>2 DEF Agent, AgentTyped
<1>3. AgentTyped(Primary)
  <2>1. PICK t : t = TrustScore([received |-> 2, acquired |-> 2, completed |-> 1])
    OBVIOUS
  <2>2. t \in Int
    <3>1. CountsTyped([received |-> 2, acquired |-> 2, completed |-> 1])
      BY DEF CountsTyped
    <3>. QED BY <2>1, <3>1, TrustType
  <2>3. Primary = Agent("a", {"plan"}, t, 0, -1, -1)
    BY <2>1 DEF Primary
  <2>4. IsFiniteSet({"plan"})
    BY FS_Singleton
  <2>. QED BY <2>2, <2>3, <2>4 DEF Agent, AgentTyped
<1>4. \A e \in Executions : ExecutionTyped(e)
  BY DEF Executions, ExecutionTyped
<1>5. ASSUME NEW c \in Contracts, NEW r \in CoalitionRuns PROVE ContractTyped(c, r)
  <2>1. /\ c.members \in {<<>>, <<"a">>, <<"a", "b">>, <<"a", "b", "b">>} /\ c.steps \in 0..5
        /\ c.maxHandoffs \in 0..2 /\ r.lateFrom \in {2, 3, 9}
    BY <1>5 DEF Contracts, CoalitionRuns
  <2>2. c.members \in Seq({"a", "b"})
    <3>1. \A x, y, z \in {"a", "b"} :
            {<<>>, <<x>>, <<x, y>>, <<x, y, z>>} \subseteq Seq({"a", "b"})
      OBVIOUS
    <3>2. "a" \in {"a", "b"} /\ "b" \in {"a", "b"}
      OBVIOUS
    <3>. QED BY <2>1, <3>1, <3>2, Zenon
  <2>. QED BY <2>1, <2>2 DEF ContractTyped
<1>. QED BY <1>1, <1>2, <1>3, <1>4, <1>5

\* Members that trust each other more and rub each other less do not make a coalition
\* less useful.
LEMMA UtilityGrows ==
  ASSUME NEW t \in Int, NEW u \in Int, NEW f \in Int, NEW g \in Int, t >= u, f <= g,
         CompareSoloVsCoalition(56, CoalitionUtility(80, u, 20, 20, g)) = "coalition"
  PROVE  CompareSoloVsCoalition(56, CoalitionUtility(80, t, 20, 20, f)) = "coalition"
<1>1. PICK v \in Int, w \in Int :
        /\ v = 30 * 80 + 20 * t - 15 * 20 - 10 * 20 - 10 * f
        /\ w = 30 * 80 + 20 * u - 15 * 20 - 10 * 20 - 10 * g
        /\ w <= v
  OBVIOUS
<1>2. PICK x \in Int, y \in Int : x = 50 + v \div 200 /\ y = 50 + w \div 200 /\ y <= x
  BY <1>1, Quotients
<1>3. PICK p, q : p = Clamp(x, 0, 100) /\ q = Clamp(y, 0, 100)
  OBVIOUS
<1>4. p \in 0..100 /\ q \in 0..100 /\ q <= p
  BY <1>2, <1>3, InPercent
<1>5. /\ CoalitionUtility(80, t, 20, 20, f) = p /\ CoalitionUtility(80, u, 20, 20, g) = q
  BY <1>1, <1>2, <1>3, Zenon DEF CoalitionUtility
<1>6. q >= 56 + 6
  BY <1>5 DEF CompareSoloVsCoalition
<1>. QED BY <1>4, <1>5, <1>6 DEF CompareSoloVsCoalition

\* Scores of bids, choice of a partner, reports of coalitions and rewards are sound on
\* every input that the run of the services evaluates them on (score_bid,
\* assemble_coalition, compare_solo_vs_coalition, execute_coalition, compute_reward).
THEOREM ScoresAreSound == ServicesSpec => []ScoringSound
<1>1. ServicesInit => ScoringSound
  <2>. SUFFICES ASSUME ServicesInit PROVE ScoringSound
    OBVIOUS
  <2>1. input \in Input
    BY DEF ServicesInit
  <2>2. ASSUME which = "contracts" PROVE CoalitionRunSound(input[1], input[2])
    <3>1. input \in Contracts \X CoalitionRuns
      BY <2>1, <2>2 DEF Input
    <3>. QED BY <3>1, InputsAreTyped, CoalitionsReportTruly
  <2>3. ASSUME which = "rewards" PROVE RewardSound(input[1], input[2])
    <3>1. input \in Executions \X Executions
      BY <2>1, <2>3 DEF Input
    <3>. QED BY <3>1, InputsAreTyped, BetterRunsEarnNoLess
  <2>4. ASSUME which = "bids" PROVE BidScoreSound(input[1], input[2])
    <3>1. input \in Bids \X {b \in Bids : b.pheromone = 0 /\ b.bias = 0 /\ b.load = 0}
      BY <2>1, <2>4 DEF Input
    <3>2. input[1] \in Bids /\ input[2] \in Bids
      BY <3>1
    <3>. QED BY <3>2, InputsAreTyped, BetterBidsScoreNoLess
  <2>5. ASSUME which = "coalitions"
        PROVE  /\ PartnerIsBest(input[1], input[2], Primary, <<Primary, input[3], input[4]>>)
               /\ LET U(p) == CoalitionUtility(80, p.joint, 20, 20, p.friction)
                  IN (/\ input[3].joint >= input[4].joint
                      /\ input[3].friction <= input[4].friction
                      /\ CompareSoloVsCoalition(56, U(input[4])) = "coalition")
                     => CompareSoloVsCoalition(56, U(input[3])) = "coalition"
    <3>1. input \in {"enabled", "discouraged"} \X {"solo", "coalition_allowed", "coalition_required"}
                      \X Partners("b") \X {p \in Partners("c") : p.load = 0}
      BY <2>1, <2>5 DEF Input
    <3>2. /\ input[1] \in {"enabled", "discouraged", "disabled"}
          /\ AgentTyped(input[3]) /\ AgentTyped(input[4])
      BY <3>1, InputsAreTyped
    <3>3. PICK agents, A : /\ agents = <<Primary, input[3], input[4]>>
                           /\ A = {Primary, input[3], input[4]}
      OBVIOUS
    <3>4. agents \in Seq(A) /\ \A k \in DOMAIN agents : AgentTyped(agents[k])
      BY <3>2, <3>3, InputsAreTyped
    <3>5. PartnerIsBest(input[1], input[2], Primary, agents)
      BY <3>2, <3>4, InputsAreTyped, BestVerifierWins
    <3>6. /\ input[3].joint \in Int /\ input[3].friction \in Int
          /\ input[4].joint \in Int /\ input[4].friction \in Int
      BY <3>2 DEF AgentTyped
    <3>. QED BY <3>3, <3>5, <3>6, UtilityGrows
  <2>. QED BY <2>2, <2>3, <2>4, <2>5 DEF ScoringSound
<1>2. ScoringSound /\ [ServicesNext]_servicesVars => ScoringSound'
  <2>1. [ServicesNext]_servicesVars => UNCHANGED <<which, input>>
    BY DEF ServicesNext, DedupeStep, LearningStep, StoreStep, servicesVars
  <2>. SUFFICES ASSUME ScoringSound, UNCHANGED <<which, input>> PROVE ScoringSound'
    BY <2>1
  <2>. QED BY DEF ScoringSound
<1>. QED BY <1>1, <1>2, PTL DEF ServicesSpec
=============================================================================
