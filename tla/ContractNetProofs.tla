------------------------- MODULE ContractNetProofs --------------------------
(***************************************************************************)
(* Proofs about ContractNet, for every set of tasks, agents and processes: *)
(* types, the graph builder's single award, the agreement of plan and      *)
(* evaluation sequence, and how far bidders that race can go.              *)
(***************************************************************************)
EXTENDS ContractNet, FiniteSetTheorems, SequenceTheorems, WellFoundedInduction, TLAPS

(***************************************************************************)
(* Numbers and finite sets.                                                *)
(***************************************************************************)

\* Every non-empty set of natural numbers has a least element.
LEMMA LeastNumber ==
  ASSUME NEW S \in SUBSET Nat, S # {}
  PROVE  /\ \E x \in S : \A y \in S : x <= y
         /\ Min(S) \in S /\ \A y \in S : Min(S) <= y
<1>0. \A x, y \in Nat : <<y, x>> \in OpToRel(<, Nat) <=> y < x
  BY DEF OpToRel
<1>1. PICK R : IsWellFoundedOn(R, Nat) /\ \A x, y \in Nat : <<y, x>> \in R <=> y < x
  BY <1>0, NatLessThanWellFounded, Zenon
<1>2. PICK x \in S : \A y \in S : ~(<<y, x>> \in R)
  BY <1>1, WFMin
<1>3. \A y \in S : x <= y
  <2>1. \A y \in S : ~(y < x)
    BY <1>1, <1>2, Zenon
  <2>. QED BY <2>1
<1>. QED BY <1>3 DEF Min

\* Of two numbers, Max and Min are the larger and the smaller.
LEMMA OfTwo ==
  ASSUME NEW x \in Int, NEW y \in Int
  PROVE  /\ Max({x, y}) = IF x >= y THEN x ELSE y
         /\ Min({x, y}) = IF x <= y THEN x ELSE y
BY DEF Max, Min

\* A numbering of a finite set has a greatest number.
LEMMA Best ==
  ASSUME NEW Q, IsFiniteSet(Q), Q # {}, NEW f \in [Q -> Nat]
  PROVE  \E x \in Q : \A y \in Q : f[x] >= f[y]
<1>. DEFINE HasBest(R) == \E x \in R : \A y \in R : f[x] >= f[y]
            T == {Cardinality(R) : R \in {A \in SUBSET Q : A # {} /\ ~HasBest(A)}}
<1>. SUFFICES ASSUME ~HasBest(Q) PROVE FALSE
  OBVIOUS
<1>0. \A R \in SUBSET Q : IsFiniteSet(R) /\ Cardinality(R) \in Nat
  BY FS_Subset, FS_CardinalityType
<1>1. T \in SUBSET Nat /\ Cardinality(Q) \in T
  BY <1>0
<1>2. PICK n \in T : \A k \in T : n <= k
  <2>. HIDE DEF T
  <2>. QED BY <1>1, LeastNumber
<1>3. PICK A \in SUBSET Q : A # {} /\ ~HasBest(A) /\ n = Cardinality(A)
  OBVIOUS
<1>4. PICK r \in A : TRUE
  BY <1>3
<1>5. Cardinality(A \ {r}) = n - 1 /\ n \in Nat
  BY <1>0, <1>3, FS_RemoveElement
<1>6. A \ {r} # {}
  BY <1>3, <1>4
<1>7. HasBest(A \ {r})
  <2>. SUFFICES ASSUME ~HasBest(A \ {r}) PROVE FALSE
    OBVIOUS
  <2>1. Cardinality(A \ {r}) \in T
    BY <1>6
  <2>2. n <= n - 1
    <3>. HIDE DEF T
    <3>. QED BY <1>2, <1>5, <2>1
  <2>. QED BY <1>5, <2>2
<1>8. PICK x \in A \ {r} : \A y \in A \ {r} : f[x] >= f[y]
  BY <1>7
<1>9. f[x] \in Nat /\ f[r] \in Nat /\ \A y \in A : f[y] \in Nat
  OBVIOUS
<1>10. CASE f[x] >= f[r]
  BY <1>3, <1>8, <1>10
<1>11. CASE ~(f[x] >= f[r])
  <2>1. \A y \in A : f[r] >= f[y]
    BY <1>8, <1>9, <1>11
  <2>. QED BY <1>3, <2>1
<1>. QED BY <1>10, <1>11

\* The greatest of a finite set of natural numbers is one of them.
LEMMA GreatestNumber ==
  ASSUME NEW S \in SUBSET Nat, IsFiniteSet(S), S # {}
  PROVE  Max(S) \in S
<1>1. PICK f : f = [x \in S |-> x]
  OBVIOUS
<1>2. f \in [S -> Nat] /\ \A x \in S : f[x] = x
  BY <1>1
<1>3. PICK x \in S : \A y \in S : f[x] >= f[y]
  BY <1>2, Best
<1>. QED BY <1>2, <1>3 DEF Max

\* Induction up to n, over a set of numbers.
LEMMA UpTo ==
  ASSUME NEW n \in Nat, NEW G, n >= 1 => 1 \in G,
         \A m \in 1..n : m \in G /\ m + 1 <= n => m + 1 \in G
  PROVE  \A m \in 1..n : m \in G
<1>. SUFFICES ASSUME NEW x \in 1..n, x \notin G PROVE FALSE
  OBVIOUS
<1>1. PICK T : T = {m \in 1..n : m \notin G}
  OBVIOUS
<1>2. T \in SUBSET Nat /\ T # {}
  BY <1>1
<1>3. PICK m \in T : \A i \in T : m <= i
  BY <1>2, LeastNumber
<1>4. m \in 1..n /\ m \notin G /\ m # 1
  BY <1>1, <1>3
<1>5. m - 1 \in 1..n
  BY <1>4
<1>6. m - 1 \in G
  <2>1. m - 1 \notin T
    BY <1>3, <1>4
  <2>. QED BY <1>1, <1>5, <2>1
<1>7. (m - 1) + 1 \in G
  BY <1>4, <1>5, <1>6
<1>. QED BY <1>4, <1>7

\* before orders Q: before[x] are the elements ahead of x.
Orders(before, Q) ==
  /\ before \in [Q -> SUBSET Q]
  /\ \A x \in Q : x \notin before[x] /\ \A y \in before[x] : before[y] \subseteq before[x]
  /\ \A x, y \in Q : x = y \/ y \in before[x] \/ x \in before[y]

\* Some element of a non-empty part of a finite ordered set is ahead of the others.
LEMMA FirstOf ==
  ASSUME NEW Q, IsFiniteSet(Q), NEW before, Orders(before, Q), NEW U \in SUBSET Q, U # {}
  PROVE  \E x \in U : before[x] \cap U = {}
<1>0. before \in [Q -> SUBSET Q]
  BY DEF Orders
<1>1. PICK S : S = {Cardinality(before[x]) : x \in U}
  OBVIOUS
<1>2. \A x \in Q : IsFiniteSet(before[x]) /\ Cardinality(before[x]) \in Nat
  BY <1>0, FS_Subset, FS_CardinalityType
<1>3. S \in SUBSET Nat /\ S # {}
  BY <1>1, <1>2
<1>4. PICK m \in S : \A k \in S : m <= k
  BY <1>3, LeastNumber
<1>5. PICK x \in U : m = Cardinality(before[x])
  BY <1>1
<1>6. ASSUME NEW y \in before[x], y \in U PROVE FALSE
  <2>1. before[y] \subseteq before[x] /\ y \in before[x] /\ y \notin before[y]
    BY <1>0, <1>6 DEF Orders
  <2>2. Cardinality(before[y]) <= Cardinality(before[x]) /\ Cardinality(before[y]) # Cardinality(before[x])
    BY <1>2, <2>1, FS_Subset
  <2>3. m <= Cardinality(before[y])
    BY <1>1, <1>4, <1>6
  <2>. QED BY <1>2, <1>5, <1>6, <2>2, <2>3
<1>. QED BY <1>6

\* A finite ordered set has a k-th element for every k up to its size.
LEMMA KthOf ==
  ASSUME NEW Q, IsFiniteSet(Q), NEW before, Orders(before, Q), NEW k \in 1..Cardinality(Q)
  PROVE  \E x \in Q : Cardinality(before[x]) = k - 1
<1>0. Cardinality(Q) \in Nat /\ before \in [Q -> SUBSET Q]
  BY FS_CardinalityType DEF Orders
<1>1. PICK G : G = {m \in 1..Cardinality(Q) : \E x \in Q : Cardinality(before[x]) = m - 1}
  OBVIOUS
<1>2. \A m \in 1..Cardinality(Q) : m \in G <=> \E x \in Q : Cardinality(before[x]) = m - 1
  BY <1>1
<1>3. Cardinality(Q) >= 1 => 1 \in G
  <2>. SUFFICES ASSUME Cardinality(Q) >= 1 PROVE 1 \in G
    OBVIOUS
  <2>1. Q # {} /\ Q \in SUBSET Q
    BY FS_EmptySet
  <2>2. PICK x \in Q : before[x] \cap Q = {}
    BY ONLY IsFiniteSet(Q), Orders(before, Q), <2>1, FirstOf
  <2>3. before[x] = {}
    BY <1>0, <2>2
  <2>4. Cardinality(before[x]) = 1 - 1
    BY <2>3, FS_EmptySet
  <2>5. 1 \in 1..Cardinality(Q)
    BY <1>0
  <2>. QED BY <1>2, <2>4, <2>5
<1>4. ASSUME NEW m \in 1..Cardinality(Q), m \in G, m + 1 <= Cardinality(Q) PROVE m + 1 \in G
  <2>1. PICK r \in Q : Cardinality(before[r]) = m - 1
    BY <1>2, <1>4
  <2>2. PICK L, U : L = before[r] /\ U = {j \in Q : r \in before[j]}
    OBVIOUS
  <2>3. IsFiniteSet(L) /\ L \subseteq Q /\ r \notin L /\ Cardinality(L) = m - 1
    BY <1>0, <2>1, <2>2, FS_Subset DEF Orders
  <2>4. Cardinality(L \cup {r}) = m
    <3>1. Cardinality(L \cup {r}) = Cardinality(L) + 1
      BY <2>3, FS_AddElement
    <3>. QED BY <1>0, <1>4, <2>3, <3>1
  <2>5. \A j \in Q : j = r \/ j \in L \/ j \in U
    BY <2>2 DEF Orders
  <2>6. U \in SUBSET Q /\ U # {}
    <3>1. U \in SUBSET Q
      BY <2>2
    <3>2. ASSUME U = {} PROVE FALSE
      <4>1. Q = L \cup {r}
        BY <2>3, <2>5, <3>2
      <4>. QED BY <1>0, <1>4, <2>4, <4>1
    <3>. QED BY <3>1, <3>2
  <2>7. PICK x \in U : before[x] \cap U = {}
    BY ONLY IsFiniteSet(Q), Orders(before, Q), <2>6, FirstOf
  <2>8. x \in Q /\ r \in before[x]
    BY <2>2, <2>7
  <2>9. before[x] = L \cup {r}
    <3>1. before[x] \subseteq L \cup {r}
      BY <1>0, <2>5, <2>7, <2>8
    <3>2. L \subseteq before[x]
      BY <2>2, <2>8 DEF Orders
    <3>. QED BY <2>8, <3>1, <3>2
  <2>10. Cardinality(before[x]) = (m + 1) - 1
    BY <1>4, <2>4, <2>9
  <2>11. m + 1 \in 1..Cardinality(Q)
    BY <1>0, <1>4
  <2>. QED BY <1>2, <2>8, <2>10, <2>11
<1>5. \A m \in 1..Cardinality(Q) : m \in G
  <2>1. \A m \in 1..Cardinality(Q) : m \in G /\ m + 1 <= Cardinality(Q) => m + 1 \in G
    BY <1>4
  <2>. QED BY <1>0, <1>3, <2>1, UpTo
<1>. QED BY <1>2, <1>5

\* A finite set of numbers has a k-th one for every k up to its size.
LEMMA NthIn ==
  ASSUME NEW F \in SUBSET Nat, IsFiniteSet(F), NEW k \in 1..Cardinality(F)
  PROVE  Nth(F, k) \in F
<1>1. PICK before : before = [r \in F |-> {j \in F : j < r}]
  OBVIOUS
<1>2. Orders(before, F)
  <2>1. \A x \in F : x \notin before[x] /\ before[x] \subseteq F
    BY <1>1
  <2>2. ASSUME NEW x \in F, NEW y \in before[x] PROVE before[y] \subseteq before[x]
    <3>1. \A z \in F : before[z] = {j \in F : j < z}
      BY <1>1
    <3>2. y \in F /\ y < x
      BY <2>2, <3>1
    <3>3. x \in Nat /\ y \in Nat /\ \A z \in F : z \in Nat
      BY <3>2
    <3>4. \A z \in F : z < y => z < x
      BY <3>2, <3>3
    <3>. QED BY <3>1, <3>2, <3>4
  <2>3. \A x, y \in F : x = y \/ y \in before[x] \/ x \in before[y]
    BY <1>1
  <2>. QED BY <1>1, <2>1, <2>2, <2>3 DEF Orders
<1>3. PICK x \in F : Cardinality(before[x]) = k - 1
  BY <1>2, KthOf
<1>4. \E r \in F : Cardinality({j \in F : j < r}) = k - 1
  BY <1>1, <1>3
<1>. QED BY <1>4 DEF Nth

\* A list shows elements of the sequence, and all of them in their order when it
\* does not lag.
LEMMA PartType ==
  ASSUME NEW S, NEW s \in Seq(S), NEW K \in SUBSET DOMAIN s
  PROVE  Part(s, K) \in Seq(S)
<1>1. IsFiniteSet(K) /\ K \in SUBSET Nat /\ Cardinality(K) \in Nat
  <2>1. DOMAIN s = 1..Len(s) /\ Len(s) \in Nat
    OBVIOUS
  <2>2. IsFiniteSet(1..Len(s)) /\ K \in SUBSET (1..Len(s))
    BY <2>1, FS_Interval
  <2>3. IsFiniteSet(K)
    BY <2>2, FS_Subset
  <2>. QED BY <2>1, <2>2, <2>3, FS_CardinalityType
<1>2. ASSUME NEW k \in 1..Cardinality(K) PROVE s[Nth(K, k)] \in S
  <2>1. Nth(K, k) \in K
    BY <1>1, NthIn
  <2>. QED BY <2>1
<1>. QED BY <1>1, <1>2 DEF Part

LEMMA PartWhole == ASSUME NEW S, NEW s \in Seq(S) PROVE Part(s, DOMAIN s) = s
<1>1. PICK n \in Nat : n = Len(s) /\ DOMAIN s = 1..n
  OBVIOUS
<1>2. Cardinality(1..n) = n
  <2>1. 1 \in Int /\ n \in Int /\ (1 > n <=> n = 0) /\ n - 1 + 1 = n
    OBVIOUS
  <2>2. Cardinality(1..n) = (IF 1 > n THEN 0 ELSE n - 1 + 1)
    BY <2>1, FS_Interval
  <2>. QED BY <2>1, <2>2
<1>3. ASSUME NEW r \in 1..n PROVE Cardinality({j \in 1..n : j < r}) = r - 1
  <2>1. {j \in 1..n : j < r} = 1..(r - 1)
    OBVIOUS
  <2>2. Cardinality(1..(r - 1)) = r - 1
    BY FS_Interval
  <2>. QED BY <2>1, <2>2
<1>4. ASSUME NEW k \in 1..n PROVE Nth(1..n, k) = k
  <2>1. \E r \in 1..n : Cardinality({j \in 1..n : j < r}) = k - 1
    BY <1>3
  <2>2. PICK x : x = Nth(1..n, k)
    OBVIOUS
  <2>3. x \in 1..n /\ Cardinality({j \in 1..n : j < x}) = k - 1
    BY <2>1, <2>2 DEF Nth
  <2>. QED BY <1>3, <2>2, <2>3
<1>5. Part(s, 1..n) = [k \in 1..n |-> s[k]]
  BY <1>2, <1>4 DEF Part
<1>6. s = [k \in 1..n |-> s[k]]
  BY <1>1
<1>. QED BY <1>1, <1>5, <1>6

\* Two sequences of a type, one after the other, are a sequence of the type.
LEMMA JoinType ==
  ASSUME NEW B, NEW s \in Seq(B), NEW t \in Seq(B) PROVE s \o t \in Seq(B)
OBVIOUS

\* A function that joins the first sequences of X, by recursion.
Joins(f, X, m) == f = [i \in 1..m |-> IF i = 1 THEN X[i] ELSE f[i-1] \o X[i]]

\* Such a function exists.
LEMMA JoinsExist ==
  ASSUME NEW B, NEW n \in Nat \ {0}, NEW X \in [1..n -> Seq(B)]
  PROVE  \E f : Joins(f, X, n)
<1>1. PICK G : G = {m \in 1..n : \E f : Joins(f, X, m)}
  OBVIOUS
<1>2. \A m \in 1..n : m \in G <=> \E f : Joins(f, X, m)
  BY <1>1
<1>3. 1 \in G
  <2>1. PICK f : f = [i \in 1..1 |-> X[1]]
    OBVIOUS
  <2>2. Joins(f, X, 1)
    BY <2>1 DEF Joins
  <2>. QED BY <1>2, <2>2
<1>4. ASSUME NEW m \in 1..n, m \in G, m + 1 <= n PROVE m + 1 \in G
  <2>1. PICK f : Joins(f, X, m)
    BY <1>2, <1>4
  <2>2. PICK last : last = f[m] \o X[m+1]
    OBVIOUS
  <2>3. PICK g : g = [i \in 1..(m+1) |-> IF i = m + 1 THEN last ELSE f[i]]
    OBVIOUS
  <2>4. \A i \in 1..m : g[i] = f[i]
    BY <2>3
  <2>5. g[m+1] = last /\ m + 1 # 1 /\ (m + 1) - 1 = m /\ m \in 1..m
    BY <2>3
  <2>6. \A i \in 1..m : f[i] = IF i = 1 THEN X[i] ELSE f[i-1] \o X[i]
    BY <2>1 DEF Joins
  <2>7. \A i \in 1..m : i # 1 => i - 1 \in 1..m
    OBVIOUS
  <2>8. \A i \in 1..m : g[i] = IF i = 1 THEN X[i] ELSE g[i-1] \o X[i]
    BY ONLY <2>4, <2>6, <2>7, Zenon
  <2>9. g[m+1] = g[m] \o X[m+1]
    BY <2>2, <2>4, <2>5
  <2>10. \A i \in 1..(m+1) : i \in 1..m \/ i = m + 1
    OBVIOUS
  <2>11. ASSUME NEW i \in 1..(m+1) PROVE g[i] = IF i = 1 THEN X[i] ELSE g[i-1] \o X[i]
    <3>1. CASE i \in 1..m
      BY <2>8, <3>1, Zenon
    <3>2. CASE i = m + 1
      BY <2>5, <2>9, <3>2
    <3>. QED BY <2>10, <3>1, <3>2
  <2>12. Joins(g, X, m + 1)
    BY <2>3, <2>11 DEF Joins
  <2>13. m + 1 \in 1..n
    BY <1>4
  <2>. QED BY <1>2, <2>12, <2>13
<1>5. n \in G
  <2>1. \A m \in 1..n : m \in G /\ m + 1 <= n => m + 1 \in G
    BY <1>4
  <2>2. \A m \in 1..n : m \in G
    BY <1>3, <2>1, UpTo
  <2>. QED BY <2>2
<1>. QED BY <1>2, <1>5

\* Flattening joins all sequences of X.
Joined(c, X, n) == \A i \in 1..n : c[i] = IF i = 1 THEN X[i] ELSE c[i-1] \o X[i]

LEMMA FlattenJoins ==
  ASSUME NEW B, NEW n \in Nat \ {0}, NEW X \in [1..n -> Seq(B)]
  PROVE  \E c : FlattenSeq(X) = c[n] /\ Joined(c, X, n)
<1>0. Len(X) = n
  OBVIOUS
<1>1. PICK c : c = CHOOSE g : g = [i \in 1..n |-> IF i = 1 THEN X[i] ELSE g[i-1] \o X[i]]
  OBVIOUS
<1>2. Joins(c, X, n)
  <2>1. \E g : g = [i \in 1..n |-> IF i = 1 THEN X[i] ELSE g[i-1] \o X[i]]
    BY JoinsExist, ZenonT(40) DEF Joins
  <2>2. c = [i \in 1..n |-> IF i = 1 THEN X[i] ELSE c[i-1] \o X[i]]
    BY ONLY <1>1, <2>1, Zenon
  <2>. QED BY <2>2 DEF Joins
<1>3. Joined(c, X, n)
  BY <1>2 DEF Joins, Joined
<1>4. FlattenSeq(X) = c[n]
  BY <1>0, <1>1, Zenon DEF FlattenSeq
<1>. QED BY <1>3, <1>4

\* Flattening keeps the type of the elements.
LEMMA FlattenType ==
  ASSUME NEW B, NEW n \in Nat \ {0}, NEW X \in [1..n -> Seq(B)]
  PROVE  FlattenSeq(X) \in Seq(B)
<1>0. PICK c : FlattenSeq(X) = c[n] /\ Joined(c, X, n)
  BY FlattenJoins
<1>1. FlattenSeq(X) = c[n] /\ \A i \in 1..n : c[i] = IF i = 1 THEN X[i] ELSE c[i-1] \o X[i]
  BY <1>0 DEF Joined
<1>2. PICK G : G = {i \in 1..n : c[i] \in Seq(B)}
  OBVIOUS
<1>3. 1 \in G
  BY <1>1, <1>2
<1>4. ASSUME NEW m \in 1..n, m \in G, m + 1 <= n PROVE m + 1 \in G
  <2>1. m + 1 \in 1..n /\ m + 1 # 1 /\ (m + 1) - 1 = m
    BY <1>4
  <2>2. c[m+1] = c[m] \o X[m+1]
    BY <1>1, <2>1
  <2>3. c[m] \in Seq(B) /\ X[m+1] \in Seq(B)
    BY <1>2, <1>4, <2>1
  <2>4. c[m] \o X[m+1] \in Seq(B)
    BY ONLY <2>3, JoinType, Zenon
  <2>. QED BY <1>2, <2>1, <2>2, <2>4
<1>5. \A m \in 1..n : m \in G /\ m + 1 <= n => m + 1 \in G
  BY <1>4
<1>6. \A m \in 1..n : m \in G
  BY <1>3, <1>5, UpTo
<1>. QED BY <1>1, <1>2, <1>6

(***************************************************************************)
(* Types.                                                                  *)
(***************************************************************************)
Bidder   == Agents \cup {System}
BidUpTo(n) == [bidder : Bidder, cfp : 0..n, score : Scores \cup PostedScores, scoped : BOOLEAN]
AnyBid   == [bidder : Bidder, cfp : Nat, score : Scores \cup PostedScores, scoped : BOOLEAN]
Cfp      == [round : Nat \ {0}, status : {"open", "expired", "no_bids", "awarded"}]
Award    == [bidder : Bidder, by : {"builder", "inline", "reforward"}]
Sequence == [cands : Seq(Bidder), idx : Nat]
CycleStatus == {"bidding", "awarding", "completed", "failed"}

Proc == [pc : {"idle", "look", "open", "place", "bidden", "read", "award", "save", "seed", "dead"},
         cycle : Nat, round : Nat, todo : SUBSET Tasks, task : Tasks \cup {NoOne},
         seen : Seq(AnyBid), open : SUBSET (Nat \cup (Tasks \X Nat)),
         mine : {<<>>} \cup [Tasks -> Seq(AnyBid)], has : SUBSET Tasks]

BoardOK ==
  /\ cfps \in [Tasks -> Seq(Cfp)]
  /\ bids \in [Tasks -> Seq(AnyBid)]
  /\ \A t \in Tasks : bids[t] \in Seq(BidUpTo(Len(cfps[t])))

AwardsOK == awards \in [Tasks -> Seq(Award)]

\* Every sequence under plan n is one of a saved plan or the inline one.
SeqsOK ==
  /\ seqs = [t \in Tasks |-> [n \in DOMAIN seqs[t] |-> seqs[t][n]]]
  /\ \A t \in Tasks : \A n \in DOMAIN seqs[t] :
       n \in 0..Len(plans) /\ seqs[t][n] \in Sequence /\ seqs[t][n].idx < Len(seqs[t][n].cands)

PlansOK == plans \in Seq([Tasks -> Bidder \cup {NoOne}])

\* A process works on the calls of its task that were open, and plans with the
\* bids it has read.
Fits(r) ==
  /\ r.round <= MaxRounds /\ r.cycle <= Len(cycles)
  /\ r.pc \in {"open", "place"} => r.task \in Tasks /\ r.open \subseteq DOMAIN cfps[r.task]
  /\ r.pc \in {"award", "save"} => r.mine \in [Tasks -> Seq(AnyBid)]

ProcsOK == proc \in [Bidders -> Proc] /\ \A p \in Bidders : Fits(proc[p])

CyclesOK == cycles \in Seq(CycleStatus)

BehindOK == behind \in [Tasks -> [look : Nat, plan : Nat]]

Typed == BoardOK /\ AwardsOK /\ SeqsOK /\ PlansOK /\ ProcsOK /\ CyclesOK /\ BehindOK

\* The constants, and the records the handlers write.
LEMMA CnpConstants ==
  /\ IsFiniteSet(Agents) /\ Agents \subseteq Bidder /\ System \in Bidder /\ NoOne \notin Bidder
  /\ MaxRounds \in Nat \ {0} /\ MaxBids \in Nat \ {0} /\ MinScore \in Nat
  /\ Scores \subseteq Nat /\ PostedScores \subseteq Nat
BY CnpAssumption DEF Bidder

\* A bid on one of the first calls is a bid on one of more calls.
LEMMA BidsLater ==
  ASSUME NEW m \in Nat, NEW n \in Nat, m <= n
  PROVE  /\ Seq(BidUpTo(m)) \subseteq Seq(BidUpTo(n)) /\ Seq(BidUpTo(m)) \subseteq Seq(AnyBid)
<1>1. BidUpTo(m) \subseteq BidUpTo(n) /\ BidUpTo(m) \subseteq AnyBid
  BY DEF BidUpTo, AnyBid
<1>2. \A A, B : A \subseteq B => Seq(A) \subseteq Seq(B)
  OBVIOUS
<1>. QED BY ONLY <1>1, <1>2, Zenon

\* Closing calls keeps their number and their rounds.
LEMMA CloseType ==
  ASSUME NEW cs \in Seq(Cfp), NEW X, NEW reason \in {"expired", "no_bids", "awarded"}
  PROVE  /\ Close(cs, X, reason) \in Seq(Cfp) /\ Len(Close(cs, X, reason)) = Len(cs)
         /\ LastRound(cs) \in Nat
<1>1. ASSUME NEW i \in DOMAIN cs PROVE cs[i] \in Cfp /\ [cs[i] EXCEPT !.status = reason] \in Cfp
  <2>1. PICK c \in Cfp : c = cs[i]
    OBVIOUS
  <2>2. [c EXCEPT !.status = reason] \in Cfp
    BY DEF Cfp
  <2>. QED BY <2>1, <2>2
<1>2. PICK d : d = Close(cs, X, reason)
  OBVIOUS
<1>3. d = [i \in 1..Len(cs) |-> IF i \in X THEN [cs[i] EXCEPT !.status = reason] ELSE cs[i]]
  BY <1>2 DEF Close
<1>4. \A i \in 1..Len(cs) : d[i] \in Cfp
  BY <1>1, <1>3
<1>5. d \in Seq(Cfp) /\ Len(d) = Len(cs)
  BY <1>3, <1>4
<1>6. PICK R : R = {cs[i].round : i \in DOMAIN cs}
  OBVIOUS
<1>7. IsFiniteSet(R)
  <2>1. IsFiniteSet(DOMAIN cs)
    BY FS_Interval
  <2>2. PICK f : f = [i \in DOMAIN cs |-> cs[i].round]
    OBVIOUS
  <2>3. f \in Surjection(DOMAIN cs, R)
    BY <1>6, <2>2 DEF Surjection
  <2>. QED BY <2>1, <2>3, FS_Surjection
<1>8. R \subseteq Nat
  BY <1>1, <1>6 DEF Cfp
<1>9. IsFiniteSet({0} \cup R)
  BY <1>7, FS_AddElement, SMTT(30)
<1>10. LastRound(cs) \in Nat
  <2>1. PICK S : S = {0} \cup R
    OBVIOUS
  <2>2. Max(S) \in S
    BY <1>8, <1>9, <2>1, GreatestNumber
  <2>. QED BY <1>6, <1>8, <2>1, <2>2 DEF LastRound
<1>. QED BY <1>2, <1>5, <1>10

\* A ranking is a sequence of candidates.
LEMMA RankingType ==
  ASSUME NEW C, IsFiniteSet(C), C # {}, NEW score, NEW rank \in Rankings(C, score)
  PROVE  Cardinality(C) \in Nat \ {0} /\ rank \in [1..Cardinality(C) -> C]
<1>1. PICK n : n = Cardinality(C)
  OBVIOUS
<1>2. n \in Nat \ {0}
  BY <1>1, FS_CardinalityType, FS_EmptySet
<1>3. PICK sorted : sorted = {s \in [1..Cardinality(C) -> C] :
          /\ \A i, j \in 1..Cardinality(C) : i # j => s[i] # s[j]
          /\ \A i \in 1..(Cardinality(C)-1) : score[s[i]] >= score[s[i+1]]}
  OBVIOUS
<1>4. rank \in sorted \cup {[s EXCEPT ![1] = s[k], ![k] = s[1]] :
                               s \in sorted, k \in 1..Cardinality(C)}
  BY <1>3 DEF Rankings
<1>5. rank \in [1..n -> C]
  <2>1. sorted \subseteq [1..n -> C]
    BY <1>1, <1>3
  <2>2. CASE rank \in sorted
    BY <2>1, <2>2
  <2>3. CASE rank \notin sorted
    <3>1. PICK s \in sorted, k \in 1..n : rank = [s EXCEPT ![1] = s[k], ![k] = s[1]]
      BY <1>1, <1>4, <2>3
    <3>2. s \in [1..n -> C]
      BY <2>1
    <3>3. s[1] \in C /\ s[k] \in C
      BY <1>2, <3>2
    <3>. QED BY <3>1, <3>2, <3>3
  <2>. QED BY <2>2, <2>3
<1>. QED BY <1>1, <1>2, <1>5

\* How many of the bids s are on call i.
LEMMA CountType ==
  ASSUME NEW s \in Seq(AnyBid), NEW i
  PROVE  /\ CfpCount(s, i) \in Nat /\ CfpCount(s, i) <= Len(s)
         /\ (\A j \in DOMAIN s : s[j].cfp # i) => CfpCount(s, i) = 0
<1>1. IsFiniteSet(DOMAIN s) /\ Cardinality(DOMAIN s) = Len(s)
  <2>1. DOMAIN s = 1..Len(s) /\ Len(s) \in Nat
    OBVIOUS
  <2>2. IsFiniteSet(1..Len(s)) /\ Cardinality(1..Len(s)) = Len(s)
    BY <2>1, FS_Interval
  <2>. QED BY <2>1, <2>2
<1>2. PICK K : K = {j \in DOMAIN s : s[j].cfp = i}
  OBVIOUS
<1>3. Cardinality(K) \in Nat /\ Cardinality(K) <= Len(s)
  BY <1>1, <1>2, FS_Subset, FS_CardinalityType
<1>4. K = {} => Cardinality(K) = 0
  BY FS_EmptySet
<1>. QED BY <1>2, <1>3, <1>4 DEF CfpCount

\* What a bidder that has seen these bids may add on call i.
Slots(seen, i) == Max({0, MaxBids - CfpCount(seen, i)})

LEMMA SlotsType ==
  ASSUME NEW seen \in Seq(AnyBid), NEW i
  PROVE  /\ Slots(seen, i) \in Nat
         /\ Slots(seen, i) = 0 \/ Slots(seen, i) + CfpCount(seen, i) = MaxBids
<1>1. PICK y : y = MaxBids - CfpCount(seen, i)
  OBVIOUS
<1>2. y \in Int /\ CfpCount(seen, i) \in Nat
  BY <1>1, CountType, CnpConstants
<1>3. Max({0, y}) = IF 0 >= y THEN 0 ELSE y
  BY <1>2, OfTwo
<1>4. Slots(seen, i) = IF 0 >= y THEN 0 ELSE y
  BY ONLY <1>1, <1>3, Zenon DEF Slots
<1>. QED BY <1>1, <1>2, <1>4, CnpConstants

\* The bids that a bidder places on one call.
Fill(b, seen, i) == Len(b) <= Slots(seen, i) /\ \A k \in DOMAIN b : b[k].cfp = i

LEMMA NewBidsType ==
  ASSUME NEW C \in SUBSET Bidder, NEW n \in Nat, NEW rank \in [1..n -> C], NEW score \in [C -> Scores],
         NEW seen \in Seq(AnyBid), NEW N \in Nat, NEW i \in 0..N
  PROVE  /\ NewBids(rank, score, seen, i) \in Seq(BidUpTo(N))
         /\ Fill(NewBids(rank, score, seen, i), seen, i)
<1>1. PICK F : F = {r \in DOMAIN rank : /\ score[rank[r]] >= MinScore
                                        /\ rank[r] \notin CfpBidders(seen, i)}
  OBVIOUS
<1>2. F \subseteq 1..n /\ F \in SUBSET Nat /\ IsFiniteSet(F) /\ Cardinality(F) \in Nat
  <2>1. F \subseteq 1..n /\ F \in SUBSET Nat /\ IsFiniteSet(1..n)
    BY <1>1, FS_Interval
  <2>2. IsFiniteSet(F)
    BY <2>1, FS_Subset
  <2>. QED BY <2>1, <2>2, FS_CardinalityType
<1>3. PICK slots : slots = Slots(seen, i)
  OBVIOUS
<1>4. slots \in Nat
  BY <1>3, SlotsType
<1>5. PICK m : m = Min({slots, Cardinality(F)})
  OBVIOUS
<1>6. m \in 0..Cardinality(F) /\ m <= slots
  <2>1. slots \in Int /\ Cardinality(F) \in Int
    BY <1>2, <1>4
  <2>2. m = IF slots <= Cardinality(F) THEN slots ELSE Cardinality(F)
    BY ONLY <1>5, <2>1, OfTwo, Zenon
  <2>. QED BY <1>2, <1>4, <2>2
<1>7. PICK b : b = NewBids(rank, score, seen, i)
  OBVIOUS
<1>8. b = [k \in 1..m |-> [bidder |-> rank[Nth(F, k)], cfp |-> i, score |-> score[rank[Nth(F, k)]],
                           scoped |-> FALSE]]
  BY <1>1, <1>3, <1>5, <1>7 DEF NewBids, BidsOf, Slots
<1>9. ASSUME NEW k \in 1..m PROVE b[k] \in BidUpTo(N)
  <2>1. Nth(F, k) \in F
    BY <1>2, <1>6, NthIn
  <2>2. rank[Nth(F, k)] \in C
    BY <1>2, <2>1
  <2>3. score[rank[Nth(F, k)]] \in Scores
    BY <2>2
  <2>. QED BY <1>8, <2>2, <2>3 DEF BidUpTo
<1>10. m \in Nat
  BY <1>2, <1>6
<1>11. b \in Seq(BidUpTo(N)) /\ Len(b) = m
  BY <1>8, <1>9, <1>10
<1>12. \A k \in DOMAIN b : b[k].cfp = i
  BY <1>8
<1>13. Fill(b, seen, i)
  BY <1>3, <1>6, <1>11, <1>12 DEF Fill
<1>. QED BY <1>7, <1>11, <1>13

\* The bids that a bidder places on all calls of a task.
LEMMA BidsOnType ==
  ASSUME NEW C \in SUBSET Bidder, NEW m \in Nat, NEW rank \in [1..m -> C], NEW score \in [C -> Scores],
         NEW seen \in Seq(AnyBid), NEW n \in Nat \ {0}, NEW N \in Nat, NEW S, \A i \in S : i <= N
  PROVE  BidsOn(rank, score, seen, S, n) \in Seq(BidUpTo(N))
<1>1. PICK X : X = [i \in 1..n |-> IF i \in S THEN NewBids(rank, score, seen, i) ELSE <<>>]
  OBVIOUS
<1>2. ASSUME NEW i \in 1..n PROVE X[i] \in Seq(BidUpTo(N))
  <2>1. CASE i \in S
    <3>1. i \in 0..N
      BY <2>1
    <3>2. NewBids(rank, score, seen, i) \in Seq(BidUpTo(N))
      BY <3>1, NewBidsType
    <3>. QED BY <1>1, <2>1, <3>2
  <2>2. CASE i \notin S
    BY <1>1, <2>2
  <2>. QED BY <2>1, <2>2
<1>3. X \in [1..n -> Seq(BidUpTo(N))]
  BY <1>1, <1>2
<1>4. FlattenSeq(X) \in Seq(BidUpTo(N))
  BY <1>3, FlattenType
<1>. QED BY <1>1, <1>4 DEF BidsOn

(***************************************************************************)
(* The board: calls for proposals and bids.                                *)
(***************************************************************************)
Grows == \A t \in Tasks : DOMAIN cfps[t] \subseteq DOMAIN cfps'[t]

\* The calls of a task are changed, and bids on them are added.
LEMMA BoardStep ==
  ASSUME BoardOK, NEW t \in Tasks, NEW cs \in Seq(Cfp), Len(cs) >= Len(cfps[t]),
         NEW bs \in Seq(BidUpTo(Len(cs))),
         cfps' = [cfps EXCEPT ![t] = cs], bids' = [bids EXCEPT ![t] = bids[t] \o bs]
  PROVE  BoardOK' /\ Grows
<1>0. /\ cfps \in [Tasks -> Seq(Cfp)] /\ bids \in [Tasks -> Seq(AnyBid)]
      /\ \A u \in Tasks : bids[u] \in Seq(BidUpTo(Len(cfps[u])))
  BY DEF BoardOK
<1>1. cfps' \in [Tasks -> Seq(Cfp)] /\ cfps'[t] = cs /\ \A u \in Tasks \ {t} : cfps'[u] = cfps[u]
  BY <1>0
<1>2. bids[t] \o bs \in Seq(BidUpTo(Len(cs))) /\ bids[t] \o bs \in Seq(AnyBid)
  <2>1. Len(cfps[t]) \in Nat /\ Len(cs) \in Nat /\ bids[t] \in Seq(BidUpTo(Len(cfps[t])))
    BY <1>0
  <2>2. bids[t] \in Seq(BidUpTo(Len(cs)))
    BY <2>1, BidsLater
  <2>3. bids[t] \o bs \in Seq(BidUpTo(Len(cs)))
    BY ONLY <2>2, bs \in Seq(BidUpTo(Len(cs))), JoinType
  <2>. QED BY <2>1, <2>3, BidsLater
<1>3. /\ bids' \in [Tasks -> Seq(AnyBid)] /\ bids'[t] = bids[t] \o bs
      /\ \A u \in Tasks \ {t} : bids'[u] = bids[u]
  BY <1>0, <1>2
<1>4. \A u \in Tasks : bids'[u] \in Seq(BidUpTo(Len(cfps'[u])))
  BY <1>0, <1>1, <1>2, <1>3
<1>5. Grows
  <2>1. ASSUME NEW u \in Tasks PROVE Len(cfps[u]) <= Len(cfps'[u])
    BY <1>0, <1>1
  <2>. QED BY <1>0, <1>1, <2>1 DEF Grows
<1>. QED BY <1>1, <1>3, <1>4, <1>5 DEF BoardOK

\* Only calls are changed.
LEMMA BoardCalls ==
  ASSUME BoardOK, NEW t \in Tasks, NEW cs \in Seq(Cfp), Len(cs) >= Len(cfps[t]),
         cfps' = [cfps EXCEPT ![t] = cs], UNCHANGED bids
  PROVE  BoardOK' /\ Grows
<1>1. <<>> \in Seq(BidUpTo(Len(cs))) /\ bids[t] \o <<>> = bids[t] /\ bids = [bids EXCEPT ![t] = bids[t]]
  BY DEF BoardOK
<1>2. bids' = [bids EXCEPT ![t] = bids[t] \o <<>>]
  BY <1>1
<1>. QED BY <1>1, <1>2, BoardStep

\* Only bids are added.
LEMMA BoardBids ==
  ASSUME BoardOK, NEW t \in Tasks, NEW bs \in Seq(BidUpTo(Len(cfps[t]))),
         UNCHANGED cfps, bids' = [bids EXCEPT ![t] = bids[t] \o bs]
  PROVE  BoardOK' /\ Grows
<1>1. /\ cfps[t] \in Seq(Cfp) /\ Len(cfps[t]) >= Len(cfps[t]) /\ cfps = [cfps EXCEPT ![t] = cfps[t]]
  BY DEF BoardOK
<1>2. cfps' = [cfps EXCEPT ![t] = cfps[t]]
  BY <1>1
<1>. QED BY <1>1, <1>2, BoardStep

\* Nothing changes.
LEMMA BoardSame == ASSUME BoardOK, UNCHANGED boardVars PROVE BoardOK' /\ Grows
BY DEF BoardOK, Grows, boardVars

(***************************************************************************)
(* The actions that write a document; every other one leaves it alone.     *)
(***************************************************************************)
\* The calls and the bids.
BoardMoves ==
  \/ \E p \in Bidders : OpenCfps(p) \/ Place(p)
  \/ \E p \in Managers : CloseCfps(p)
  \/ \E t \in Tasks : ResolveCompetingService(t) \/ \E a \in Agents : PostBid(t, a)

\* The awards.
AwardMoves ==
  \/ \E p \in Managers, t \in Tasks : AwardTask(p, t)
  \/ \E t \in Tasks : ResolveCompetingService(t) \/ \E n \in DOMAIN seqs[t] : Reforward(t, n)

\* The evaluation sequences and the plans.
PlanMoves ==
  \/ \E p \in Managers : SavePlan(p)
  \/ \E t \in Tasks : ResolveCompetingService(t) \/ \E n \in DOMAIN seqs[t] : Reforward(t, n)

\* The cycles.
CycleMoves == \E p \in Managers : StartCycle(p) \/ EndRound(p) \/ Finish(p) \/ PlanFails(p)

\* The processes.
ProcMoves ==
  \/ \E p \in Bidders : \/ \E t \in Tasks : Look(p, t)
                        \/ OpenCfps(p) \/ Place(p) \/ ApiDone(p) \/ BidderFails(p) \/ ApiBid(p)
  \/ \E p \in Managers : \/ StartCycle(p) \/ EndRound(p) \/ Finish(p)
                         \/ ReadForPlan(p) \/ CloseCfps(p) \/ SavePlan(p)
                         \/ \E t \in Tasks : AwardTask(p, t)
                         \/ PlanFails(p) \/ CycleRaises(p) \/ Restart(p) \/ ManagerCrash(p)

\* The counts of lists that lagged.
LagMoves ==
  \/ \E p \in Bidders, t \in Tasks : Look(p, t)
  \/ \E p \in Managers : ReadForPlan(p)

LEMMA Movers ==
  ASSUME [CnpNext]_cnpVars
  PROVE  /\ BoardMoves \/ UNCHANGED boardVars
         /\ AwardMoves \/ UNCHANGED awards
         /\ PlanMoves \/ UNCHANGED <<seqs, plans>>
         /\ CycleMoves \/ UNCHANGED cycles
         /\ ProcMoves \/ UNCHANGED proc
         /\ LagMoves \/ UNCHANGED behind
<1>. DEFINE Goal == /\ BoardMoves \/ UNCHANGED boardVars
                    /\ AwardMoves \/ UNCHANGED awards
                    /\ PlanMoves \/ UNCHANGED <<seqs, plans>>
                    /\ CycleMoves \/ UNCHANGED cycles
                    /\ ProcMoves \/ UNCHANGED proc
                    /\ LagMoves \/ UNCHANGED behind
<1>1. ASSUME NEW p \in Bidders, NEW t \in Tasks, Look(p, t) PROVE Goal
  <2>1. UNCHANGED <<boardVars, awardVars, cycles>>
    BY <1>1 DEF Look, cycleVars
  <2>. QED BY <1>1, <2>1 DEF awardVars, ProcMoves, LagMoves
<1>2. ASSUME NEW p \in Bidders, OpenCfps(p) PROVE Goal
  <2>1. UNCHANGED <<awardVars, cycles, behind>>
    BY <1>2 DEF OpenCfps, cycleVars
  <2>. QED BY <1>2, <2>1 DEF awardVars, ProcMoves, BoardMoves
<1>3. ASSUME NEW p \in Bidders, Place(p) PROVE Goal
  <2>1. UNCHANGED <<awardVars, cycleVars, behind>>
    BY <1>3 DEF Place
  <2>. QED BY <1>3, <2>1 DEF awardVars, cycleVars, ProcMoves, BoardMoves
<1>4. ASSUME NEW p \in Bidders, ApiDone(p) \/ BidderFails(p) \/ ApiBid(p) PROVE Goal
  <2>1. UNCHANGED <<boardVars, awardVars, cycleVars, behind>>
    BY <1>4 DEF ApiDone, BidderFails, ApiBid
  <2>. QED BY <1>4, <2>1 DEF awardVars, cycleVars, ProcMoves
<1>5. ASSUME NEW p \in Managers, StartCycle(p) \/ EndRound(p) \/ Finish(p) \/ PlanFails(p) PROVE Goal
  <2>1. UNCHANGED <<boardVars, awardVars, behind>>
    BY <1>5 DEF StartCycle, EndRound, Finish, PlanFails
  <2>. QED BY <1>5, <2>1 DEF boardVars, awardVars, ProcMoves, CycleMoves
<1>6. ASSUME NEW p \in Managers, CycleRaises(p) \/ Restart(p) \/ ManagerCrash(p) PROVE Goal
  <2>1. UNCHANGED <<boardVars, awardVars, cycles, behind>>
    BY <1>6 DEF CycleRaises, Restart, ManagerCrash, cycleVars
  <2>. QED BY <1>6, <2>1 DEF awardVars, ProcMoves
<1>r. ASSUME NEW p \in Managers, ReadForPlan(p) PROVE Goal
  <2>1. UNCHANGED <<boardVars, awardVars, cycleVars>>
    BY <1>r DEF ReadForPlan
  <2>. QED BY <1>r, <2>1 DEF awardVars, cycleVars, ProcMoves, LagMoves
<1>7. ASSUME NEW p \in Managers, CloseCfps(p) PROVE Goal
  <2>1. UNCHANGED <<awardVars, cycleVars, behind>>
    BY <1>7 DEF CloseCfps
  <2>. QED BY <1>7, <2>1 DEF awardVars, cycleVars, ProcMoves, BoardMoves
<1>8. ASSUME NEW p \in Managers, SavePlan(p) PROVE Goal
  <2>1. UNCHANGED <<boardVars, awards, cycleVars, behind>>
    BY <1>8 DEF SavePlan
  <2>. QED BY <1>8, <2>1 DEF cycleVars, ProcMoves, PlanMoves
<1>9. ASSUME NEW p \in Managers, NEW t \in Tasks, AwardTask(p, t) PROVE Goal
  <2>1. UNCHANGED <<boardVars, seqs, plans, cycleVars, behind>>
    BY <1>9 DEF AwardTask
  <2>. QED BY <1>9, <2>1 DEF cycleVars, ProcMoves, AwardMoves
<1>10. ASSUME NEW t \in Tasks, ResolveCompetingService(t) PROVE Goal
  <2>1. UNCHANGED <<cfps, plans, proc, cycleVars, behind>>
    BY <1>10 DEF ResolveCompetingService
  <2>. QED BY <1>10, <2>1 DEF cycleVars, BoardMoves, AwardMoves, PlanMoves
<1>11. ASSUME NEW t \in Tasks, NEW a \in Agents, PostBid(t, a) PROVE Goal
  <2>1. UNCHANGED <<cfps, awardVars, proc, cycleVars, behind>>
    BY <1>11 DEF PostBid
  <2>. QED BY <1>11, <2>1 DEF cycleVars, BoardMoves, awardVars
<1>12. ASSUME NEW t \in Tasks, NEW n \in DOMAIN seqs[t], Reforward(t, n) PROVE Goal
  <2>1. UNCHANGED <<boardVars, plans, proc, cycleVars, behind>>
    BY <1>12 DEF Reforward
  <2>. QED BY <1>12, <2>1 DEF cycleVars, AwardMoves, PlanMoves
<1>13. ASSUME UNCHANGED cnpVars PROVE Goal
  BY <1>13 DEF cnpVars, boardVars
<1>14. ASSUME CnpNext PROVE Goal
  <2>. HIDE DEF Goal
  <2>. QED BY <1>1, <1>2, <1>3, <1>4, <1>5, <1>6, <1>r, <1>7, <1>8, <1>9, <1>10, <1>11, <1>12, <1>14
          DEF CnpNext, BidStep, CycleStep, PlanStep
<1>. QED BY <1>13, <1>14

(***************************************************************************)
(* The board.                                                              *)
(***************************************************************************)
\* The calls of cs with X closed, and a new one, one round after the last that was seen.
WithCall(cs, X, reason, last) ==
  Append(Close(cs, X, reason), [round |-> last + 1, status |-> "open"])

LEMMA NextCall ==
  ASSUME NEW cs \in Seq(Cfp), NEW X, NEW reason \in {"expired", "no_bids"}, NEW last \in Nat
  PROVE  WithCall(cs, X, reason, last) \in Seq(Cfp) /\ Len(WithCall(cs, X, reason, last)) = Len(cs) + 1
<1>1. PICK closed : closed = Close(cs, X, reason)
  OBVIOUS
<1>2. closed \in Seq(Cfp) /\ Len(closed) = Len(cs)
  BY <1>1, CloseType
<1>3. [round |-> last + 1, status |-> "open"] \in Cfp
  BY DEF Cfp
<1>. QED BY <1>1, <1>2, <1>3 DEF WithCall

LEMMA SeenType == ASSUME NEW cs \in Seq(Cfp), NEW lag \in BOOLEAN PROVE SeenRounds(cs, lag) \subseteq Nat
BY CloseType DEF SeenRounds

\* Candidates place bids on the calls T of task t, with n calls to go through.
PlacedOn(t, seen, T, n) ==
  \E C \in SUBSET Bidder, m \in Nat : \E score \in [C -> Scores], rank \in [1..m -> C] :
    bids' = [bids EXCEPT ![t] = bids[t] \o BidsOn(rank, score, seen, T, n)]

\* What Place writes: bids on some calls T of the task, and a closed or a new call.
Placed(p, t, n) ==
  \E T, cs : /\ PlacedOn(t, proc[p].seen, T, n) /\ cfps' = [cfps EXCEPT ![t] = cs]
            /\ \/ cs = cfps[t] \/ cs = Close(cfps[t], proc[p].open, "no_bids")
               \/ \E last \in Nat : cs = WithCall(cfps[t], proc[p].open, "no_bids", last)
            /\ cs \in Seq(Cfp) /\ Len(cs) \in {Len(cfps[t]), n} /\ T \subseteq DOMAIN cs

LEMMA PlaceShape ==
  ASSUME Typed, NEW p \in Bidders, Place(p), NEW t, t = proc[p].task, NEW n, n = Len(cfps[t]) + 1
  PROVE  /\ t \in Tasks /\ proc[p].open \subseteq DOMAIN cfps[t] /\ proc[p].seen \in Seq(AnyBid)
         /\ Placed(p, t, n)
<1>. DEFINE u == proc[p].task
            O == proc[p].open
            cl == Close(cfps[u], O, "no_bids")
            nw(last) == Append(cl, [round |-> last + 1, status |-> "open"])
            ok == {a \in Agents : Max({Stimulus(cfps[u][i].round) : i \in O}) >= Threshold[a]}
            B(T, C) == \E score \in [C -> Scores] : \E rank \in Rankings(C, score) :
              bids' = [bids EXCEPT ![u] = @ \o BidsOn(rank, score, proc[p].seen, T, Len(cfps[u]) + 1)]
            Seen(lag) == SeenRounds(cfps[u], lag)
            Others(lag) == IF lag THEN SUBSET DOMAIN cfps[u] ELSE {Open(u) \ O}
<1>1. \/ \E C \in (SUBSET ok) \ {{}} : B(O, C) /\ UNCHANGED cfps
      \/ \E lag \in Lags : \E last \in Seen(lag) :
           \/ B(O, {System}) /\ UNCHANGED cfps
           \/ \E others \in Others(lag) :
                \/ B(others, {System}) /\ cfps' = [cfps EXCEPT ![u] = cl]
                \/ B({Len(cl) + 1}, {System}) /\ cfps' = [cfps EXCEPT ![u] = nw(last)]
  <2>1. Place(p)
    OBVIOUS
  <2>. QED BY ONLY <2>1, ZenonT(60) DEF Place
<1>2. PICK S, seen, closed : /\ S = proc[p].open /\ seen = proc[p].seen
          /\ closed = Close(cfps[t], S, "no_bids")
  OBVIOUS
<1>3. /\ t \in Tasks /\ S \subseteq DOMAIN cfps[t] /\ seen \in Seq(AnyBid)
      /\ cfps[t] \in Seq(Cfp) /\ cfps \in [Tasks -> Seq(Cfp)]
  <2>1. proc[p].pc = "place" /\ proc[p] \in Proc /\ Fits(proc[p])
    BY DEF Place, Typed, ProcsOK
  <2>2. t \in Tasks /\ S \subseteq DOMAIN cfps[t]
    BY <1>2, <2>1 DEF Fits
  <2>. QED BY <1>2, <2>1, <2>2 DEF Proc, Typed, BoardOK
<1>4. closed \in Seq(Cfp) /\ Len(closed) = Len(cfps[t]) /\ DOMAIN closed = DOMAIN cfps[t]
  BY <1>2, <1>3, CloseType
<1>5. ASSUME NEW last \in Nat
      PROVE  /\ WithCall(cfps[t], S, "no_bids", last) \in Seq(Cfp)
             /\ Len(WithCall(cfps[t], S, "no_bids", last)) = Len(cfps[t]) + 1
  BY <1>3, NextCall
<1>. DEFINE On(T, C) == \E score \in [C -> Scores] : \E rank \in Rankings(C, score) :
              bids' = [bids EXCEPT ![t] = bids[t] \o BidsOn(rank, score, seen, T, n)]
<1>6. \A T, C : B(T, C) <=> On(T, C)
  BY <1>2
<1>7. u = t /\ O = S /\ cl = closed
  BY <1>2
<1>n. \A last : nw(last) = WithCall(cfps[t], S, "no_bids", last)
  BY <1>2 DEF WithCall
<1>8. ok \in SUBSET Agents
  OBVIOUS
<1>l. \A lag \in Lags : lag \in BOOLEAN
  BY DEF Lags
<1>s. \A lag \in Lags : Seen(lag) \subseteq Nat /\ Others(lag) \subseteq SUBSET DOMAIN cfps[t]
  <2>1. Open(u) \ O \subseteq DOMAIN cfps[u]
    BY DEF Open
  <2>. QED BY <1>3, <1>7, <1>l, <2>1, SeenType
<1>. HIDE DEF B, On, u, O, cl, nw, ok, Seen, Others
<1>9. \/ \E C \in (SUBSET Agents) \ {{}} : On(S, C) /\ UNCHANGED cfps
      \/ On(S, {System}) /\ UNCHANGED cfps
      \/ \E others \in SUBSET DOMAIN cfps[t] :
            On(others, {System}) /\ cfps' = [cfps EXCEPT ![t] = closed]
      \/ \E last \in Nat : /\ On({Len(closed) + 1}, {System})
                           /\ cfps' = [cfps EXCEPT ![t] = WithCall(cfps[t], S, "no_bids", last)]
  BY ONLY <1>1, <1>6, <1>7, <1>n, <1>8, <1>s
<1>10. ASSUME NEW T, NEW C \in SUBSET Bidder, IsFiniteSet(C), C # {}, On(T, C)
       PROVE  PlacedOn(t, seen, T, n)
  <2>1. PICK score \in [C -> Scores] : \E rank \in Rankings(C, score) :
                bids' = [bids EXCEPT ![t] = bids[t] \o BidsOn(rank, score, seen, T, n)]
    BY <1>10 DEF On
  <2>2. PICK rank \in Rankings(C, score) :
                bids' = [bids EXCEPT ![t] = bids[t] \o BidsOn(rank, score, seen, T, n)]
    BY <2>1
  <2>3. Cardinality(C) \in Nat /\ rank \in [1..Cardinality(C) -> C]
    BY <1>10, RankingType
  <2>. QED BY <2>2, <2>3 DEF PlacedOn
<1>11. \A C \in SUBSET Agents : C \in SUBSET Bidder /\ IsFiniteSet(C)
  BY CnpConstants, FS_Subset
<1>12. {System} \in SUBSET Bidder /\ IsFiniteSet({System}) /\ {System} # {}
  BY CnpConstants, FS_Singleton
<1>13. cfps = [cfps EXCEPT ![t] = cfps[t]]
  BY <1>3
<1>. DEFINE Wrote(T, cs) == PlacedOn(t, seen, T, n) /\ cfps' = [cfps EXCEPT ![t] = cs]
            OneOf(cs) == \/ cs = cfps[t] \/ cs = closed
                         \/ \E last \in Nat : cs = WithCall(cfps[t], S, "no_bids", last)
<1>14. \E T, cs : /\ Wrote(T, cs) /\ OneOf(cs)
                  /\ cs \in Seq(Cfp) /\ Len(cs) \in {Len(cfps[t]), n} /\ T \subseteq DOMAIN cs
  <2>1. CASE \E C \in (SUBSET Agents) \ {{}} : On(S, C) /\ UNCHANGED cfps
    <3>1. Wrote(S, cfps[t])
      BY <1>10, <1>11, <1>13, <2>1
    <3>. QED BY <1>3, <3>1
  <2>2. CASE On(S, {System}) /\ UNCHANGED cfps
    <3>1. Wrote(S, cfps[t])
      BY <1>10, <1>12, <1>13, <2>2
    <3>. QED BY <1>3, <3>1
  <2>3. CASE \E others \in SUBSET DOMAIN cfps[t] :
               On(others, {System}) /\ cfps' = [cfps EXCEPT ![t] = closed]
    <3>1. PICK others \in SUBSET DOMAIN cfps[t] : Wrote(others, closed)
      BY <1>10, <1>12, <2>3
    <3>. QED BY <1>4, <3>1
  <2>4. CASE \E last \in Nat : /\ On({Len(closed) + 1}, {System})
                             /\ cfps' = [cfps EXCEPT ![t] = WithCall(cfps[t], S, "no_bids", last)]
    <3>1. PICK last \in Nat : Wrote({Len(closed) + 1}, WithCall(cfps[t], S, "no_bids", last))
      BY <1>10, <1>12, <2>4
    <3>2. PICK cs : cs = WithCall(cfps[t], S, "no_bids", last)
      OBVIOUS
    <3>3. cs \in Seq(Cfp) /\ Len(cs) = Len(cfps[t]) + 1
      BY <1>5, <3>2
    <3>4. {Len(closed) + 1} \subseteq DOMAIN cs
      BY <1>3, <1>4, <3>3
    <3>5. Wrote({Len(closed) + 1}, cs) /\ OneOf(cs)
      BY <3>1, <3>2
    <3>6. Len(cs) \in {Len(cfps[t]), n}
      BY <3>3
    <3>. HIDE DEF Wrote, OneOf
    <3>. QED BY ONLY <3>3, <3>4, <3>5, <3>6
  <2>. HIDE DEF Wrote, OneOf
  <2>. QED BY <1>9, <2>1, <2>2, <2>3, <2>4
<1>15. PICK T, cs : /\ PlacedOn(t, seen, T, n) /\ cfps' = [cfps EXCEPT ![t] = cs]
                    /\ \/ cs = cfps[t] \/ cs = closed
                       \/ \E last \in Nat : cs = WithCall(cfps[t], S, "no_bids", last)
                    /\ cs \in Seq(Cfp) /\ Len(cs) \in {Len(cfps[t]), n} /\ T \subseteq DOMAIN cs
  BY <1>14
<1>. QED BY <1>2, <1>3, <1>15 DEF Placed

\* What OpenCfps writes: calls X of the process closed, and a new one if none is left.
Opened(p, t) ==
  \E X \in SUBSET proc[p].open, last \in Nat : \E O, cs :
    /\ cfps' = [cfps EXCEPT ![t] = cs]
    /\ proc' = [proc EXCEPT ![p].pc = "place", ![p].open = O]
    /\ \/ O = proc[p].open \ X /\ cs = Close(cfps[t], X, "expired")
       \/ /\ X = proc[p].open /\ O = {Len(cfps[t]) + 1} /\ cs = WithCall(cfps[t], X, "expired", last)

LEMMA OpenShape ==
  ASSUME Typed, NEW p \in Bidders, OpenCfps(p)
  PROVE  proc[p].task \in Tasks /\ proc[p].pc = "open" /\ Opened(p, proc[p].task)
<1>1. PICK t, Q : t = proc[p].task /\ Q = proc[p].open
  OBVIOUS
<1>2. proc[p].pc = "open" /\ t \in Tasks /\ cfps[t] \in Seq(Cfp)
  <2>1. proc[p].pc = "open" /\ Fits(proc[p])
    BY DEF OpenCfps, Typed, ProcsOK
  <2>. QED BY <1>1, <2>1 DEF Fits, Typed, BoardOK
<1>. DEFINE cl(X) == Close(cfps[t], X, "expired")
            nw(X, last) == Append(cl(X), [round |-> last + 1, status |-> "open"])
            One(X) == /\ cfps' = [cfps EXCEPT ![t] = cl(X)]
                      /\ proc' = [proc EXCEPT ![p].pc = "place", ![p].open = Q \ X]
            Other(X, last) == /\ Q \ X = {}
                              /\ cfps' = [cfps EXCEPT ![t] = nw(X, last)]
                              /\ proc' = [proc EXCEPT ![p].pc = "place", ![p].open = {Len(cl(X)) + 1}]
<1>3. \E X \in SUBSET Q, lag \in Lags : One(X) \/ \E last \in SeenRounds(cl(X), lag) : Other(X, last)
  <2>1. OpenCfps(p)
    OBVIOUS
  <2>. QED BY ONLY <1>1, <2>1, ZenonT(60) DEF OpenCfps
<1>4. PICK X \in SUBSET Q, last \in Nat : One(X) \/ Other(X, last)
  <2>1. \A X : \A lag \in Lags : SeenRounds(cl(X), lag) \subseteq Nat
    BY <1>2, CloseType, SeenType DEF Lags
  <2>2. 0 \in Nat
    OBVIOUS
  <2>. HIDE DEF One, Other, cl
  <2>. QED BY ONLY <1>3, <2>1, <2>2
<1>5. Len(cl(X)) = Len(cfps[t]) /\ nw(X, last) = WithCall(cfps[t], X, "expired", last)
  BY <1>2, CloseType DEF WithCall
<1>6. Opened(p, t)
  <2>1. CASE One(X)
    <3>1. PICK O, cs : O = Q \ X /\ cs = cl(X)
      OBVIOUS
    <3>2. /\ cfps' = [cfps EXCEPT ![t] = cs]
          /\ proc' = [proc EXCEPT ![p].pc = "place", ![p].open = O]
      BY ONLY <2>1, <3>1
    <3>. QED BY ONLY <1>1, <3>1, <3>2, X \in SUBSET Q, last \in Nat, Zenon DEF Opened
  <2>2. CASE Other(X, last)
    <3>1. X = Q
      BY <2>2
    <3>2. PICK O, cs : O = {Len(cl(X)) + 1} /\ cs = nw(X, last)
      OBVIOUS
    <3>3. O = {Len(cfps[t]) + 1} /\ cs = WithCall(cfps[t], X, "expired", last)
      BY <1>5, <3>2
    <3>4. /\ cfps' = [cfps EXCEPT ![t] = cs]
          /\ proc' = [proc EXCEPT ![p].pc = "place", ![p].open = O]
      BY ONLY <2>2, <3>2
    <3>. QED BY ONLY <1>1, <3>1, <3>3, <3>4, X \in SUBSET Q, last \in Nat, Zenon DEF Opened
  <2>. QED BY <1>4, <2>1, <2>2
<1>. QED BY <1>1, <1>2, <1>6

\* What the forwarder and the API write: bids with their pipeline.
Posted(t, N) ==
  \E bs \in Seq(BidUpTo(N)) : /\ bids' = [bids EXCEPT ![t] = bids[t] \o bs]
                             /\ \A k \in DOMAIN bs : bs[k].scoped

LEMMA PostedBids ==
  ASSUME BoardOK, NEW t \in Tasks, NEW N, N = Len(cfps[t]),
         ResolveCompetingService(t) \/ \E a \in Agents : PostBid(t, a)
  PROVE  UNCHANGED cfps /\ Posted(t, N)
<1>0. N \in Nat /\ bids[t] \in Seq(AnyBid)
  BY DEF BoardOK
<1>1. ASSUME ResolveCompetingService(t) PROVE UNCHANGED cfps /\ Posted(t, N)
  <2>1. PICK C \in SUBSET Agents : Cardinality(C) > 1 /\
          \E score \in [C -> Scores] : \E rank \in Rankings(C, score) :
            bids' = [bids EXCEPT ![t] = bids[t] \o [k \in DOMAIN rank |->
              [bidder |-> rank[k], cfp |-> 0, score |-> score[rank[k]], scoped |-> TRUE]]]
    BY <1>1, ZenonT(40) DEF ResolveCompetingService
  <2>2. PICK score \in [C -> Scores] : \E rank \in Rankings(C, score) :
            bids' = [bids EXCEPT ![t] = bids[t] \o [k \in DOMAIN rank |->
              [bidder |-> rank[k], cfp |-> 0, score |-> score[rank[k]], scoped |-> TRUE]]]
    BY <2>1
  <2>3. PICK rank \in Rankings(C, score) :
            bids' = [bids EXCEPT ![t] = bids[t] \o [k \in DOMAIN rank |->
              [bidder |-> rank[k], cfp |-> 0, score |-> score[rank[k]], scoped |-> TRUE]]]
    BY <2>2
  <2>4. IsFiniteSet(C) /\ C \subseteq Bidder /\ C # {}
    BY <2>1, CnpConstants, FS_Subset, FS_EmptySet
  <2>5. PICK m \in Nat : rank \in [1..m -> C]
    BY <2>4, RankingType
  <2>6. PICK bs : bs = [k \in 1..m |->
              [bidder |-> rank[k], cfp |-> 0, score |-> score[rank[k]], scoped |-> TRUE]]
    OBVIOUS
  <2>7. ASSUME NEW k \in 1..m PROVE bs[k] \in BidUpTo(N)
    <3>1. rank[k] \in C /\ score[rank[k]] \in Scores /\ 0 \in 0..N
      BY <1>0, <2>5
    <3>. QED BY <2>4, <2>6, <3>1 DEF BidUpTo
  <2>8. bs \in Seq(BidUpTo(N)) /\ \A k \in DOMAIN bs : bs[k].scoped
    BY <2>6, <2>7
  <2>9. bids' = [bids EXCEPT ![t] = bids[t] \o bs] /\ UNCHANGED cfps
    BY <1>1, <2>3, <2>5, <2>6 DEF ResolveCompetingService
  <2>. QED BY <2>8, <2>9 DEF Posted
<1>2. ASSUME NEW a \in Agents, PostBid(t, a) PROVE UNCHANGED cfps /\ Posted(t, N)
  <2>1. PICK i \in 0..N, s \in PostedScores :
          bids' = [bids EXCEPT ![t] = Append(bids[t], [bidder |-> a, cfp |-> i, score |-> s, scoped |-> TRUE])]
    BY <1>2 DEF PostBid
  <2>2. PICK b : b = [bidder |-> a, cfp |-> i, score |-> s, scoped |-> TRUE]
    OBVIOUS
  <2>3. b \in BidUpTo(N) /\ b.scoped
    BY <2>2, CnpConstants DEF BidUpTo
  <2>4. PICK bs : bs = <<b>>
    OBVIOUS
  <2>5. Append(bids[t], b) = bids[t] \o bs /\ bs \in Seq(BidUpTo(N)) /\ \A k \in DOMAIN bs : bs[k].scoped
    BY <1>0, <2>3, <2>4
  <2>6. bids' = [bids EXCEPT ![t] = bids[t] \o bs] /\ UNCHANGED cfps
    BY <1>2, <2>1, <2>2, <2>5 DEF PostBid
  <2>. QED BY <2>5, <2>6 DEF Posted
<1>. QED BY <1>1, <1>2

\* Every step keeps the board's type; calls are closed and added, never removed.
LEMMA BoardNext == ASSUME Typed, [CnpNext]_cnpVars PROVE BoardOK' /\ Grows
<1>. USE DEF Typed
<1>0. /\ cfps \in [Tasks -> Seq(Cfp)] /\ bids \in [Tasks -> Seq(AnyBid)]
      /\ \A u \in Tasks : Len(cfps[u]) \in Nat /\ bids[u] \in Seq(BidUpTo(Len(cfps[u])))
  BY DEF BoardOK
<1>p. \A p \in Bidders : proc[p] \in Proc /\ Fits(proc[p])
  BY DEF ProcsOK
<1>1. ASSUME NEW p \in Bidders, OpenCfps(p) PROVE BoardOK' /\ Grows
  <2>0. PICK t : t = proc[p].task
    OBVIOUS
  <2>1. t \in Tasks /\ UNCHANGED bids
    BY <1>1, <1>p, <2>0 DEF OpenCfps, Fits
  <2>2. PICK X \in SUBSET proc[p].open, last \in Nat : \/ cfps' = [cfps EXCEPT ![t] = Close(cfps[t], X, "expired")]
                              \/ cfps' = [cfps EXCEPT ![t] = WithCall(cfps[t], X, "expired", last)]
    <3>1. Opened(p, t)
      BY <1>1, <2>0, OpenShape
    <3>2. 0 \in Nat
      OBVIOUS
    <3>. QED BY ONLY <3>1, <3>2 DEF Opened
  <2>3. PICK closed : closed = Close(cfps[t], X, "expired")
    OBVIOUS
  <2>4. PICK new : new = WithCall(cfps[t], X, "expired", last)
    OBVIOUS
  <2>5. closed \in Seq(Cfp) /\ Len(closed) = Len(cfps[t])
    BY <1>0, <2>1, <2>3, CloseType
  <2>6. new \in Seq(Cfp) /\ Len(new) = Len(cfps[t]) + 1
    BY <1>0, <2>1, <2>4, NextCall
  <2>7. CASE cfps' = [cfps EXCEPT ![t] = closed]
    <3>1. Len(closed) >= Len(cfps[t])
      BY <1>0, <2>1, <2>5
    <3>. QED BY ONLY BoardOK, <2>1, <2>5, <2>7, <3>1, BoardCalls, Zenon
  <2>8. CASE cfps' = [cfps EXCEPT ![t] = new]
    <3>1. Len(new) >= Len(cfps[t])
      BY <1>0, <2>1, <2>6
    <3>. QED BY ONLY BoardOK, <2>1, <2>6, <2>8, <3>1, BoardCalls, Zenon
  <2>. QED BY ONLY <2>2, <2>3, <2>4, <2>7, <2>8
<1>2. ASSUME NEW p \in Bidders, Place(p) PROVE BoardOK' /\ Grows
  <2>0. PICK t, seen, n : t = proc[p].task /\ seen = proc[p].seen /\ n = Len(cfps[t]) + 1
    OBVIOUS
  <2>1. t \in Tasks /\ seen \in Seq(AnyBid) /\ n \in Nat \ {0}
    <3>1. t \in Tasks /\ seen \in Seq(AnyBid)
      BY <1>2, <2>0, PlaceShape
    <3>. QED BY <1>0, <2>0, <3>1
  <2>p. Placed(p, t, n)
    BY <1>2, <2>0, PlaceShape
  <2>s. PICK T, cs :
          /\ PlacedOn(t, proc[p].seen, T, n) /\ cfps' = [cfps EXCEPT ![t] = cs]
          /\ cs \in Seq(Cfp) /\ Len(cs) \in {Len(cfps[t]), n} /\ T \subseteq DOMAIN cs
    BY ONLY <2>p, Zenon DEF Placed
  <2>2. /\ PlacedOn(t, seen, T, n) /\ cfps' = [cfps EXCEPT ![t] = cs]
        /\ cs \in Seq(Cfp) /\ Len(cs) \in {Len(cfps[t]), n} /\ T \subseteq DOMAIN cs
    BY ONLY <2>0, <2>s
  <2>c. PICK C \in SUBSET Bidder, m \in Nat : \E score \in [C -> Scores], rank \in [1..m -> C] :
          bids' = [bids EXCEPT ![t] = bids[t] \o BidsOn(rank, score, seen, T, n)]
    BY <2>2 DEF PlacedOn
  <2>3. PICK score \in [C -> Scores], rank \in [1..m -> C] :
          bids' = [bids EXCEPT ![t] = bids[t] \o BidsOn(rank, score, seen, T, n)]
    BY <2>c
  <2>4. Len(cs) \in Nat /\ Len(cs) >= Len(cfps[t]) /\ \A i \in T : i <= Len(cs)
    BY <1>0, <2>0, <2>1, <2>2
  <2>5. PICK bs : bs = BidsOn(rank, score, seen, T, n)
    OBVIOUS
  <2>6. bs \in Seq(BidUpTo(Len(cs)))
    BY ONLY <2>1, <2>4, <2>5, C \in SUBSET Bidder, m \in Nat, score \in [C -> Scores],
            rank \in [1..m -> C], BidsOnType
  <2>. QED BY ONLY BoardOK, <2>1, <2>2, <2>3, <2>4, <2>5, <2>6, BoardStep, Zenon
<1>3. ASSUME NEW p \in Managers, CloseCfps(p) PROVE BoardOK' /\ Grows
  <2>1. PICK E, A : cfps' = [t \in Tasks |-> Close(Close(cfps[t], E[t], "expired"), A[t], "awarded")]
    <3>1. PICK X \in SUBSET proc[p].open :
            cfps' = [t \in Tasks |-> Close(Close(cfps[t],
              {i \in DOMAIN cfps[t] : <<t, i>> \in X}, "expired"),
              {i \in DOMAIN cfps[t] : <<t, i>> \in proc[p].open \ X
                  /\ \E k \in ScopedBids(proc[p].mine[t]) : proc[p].mine[t][k].cfp = i}, "awarded")]
      BY <1>3 DEF CloseCfps
    <3>2. PICK E : E = [t \in Tasks |-> {i \in DOMAIN cfps[t] : <<t, i>> \in X}]
      OBVIOUS
    <3>3. PICK A : A = [t \in Tasks |-> {i \in DOMAIN cfps[t] : <<t, i>> \in proc[p].open \ X
                  /\ \E k \in ScopedBids(proc[p].mine[t]) : proc[p].mine[t][k].cfp = i}]
      OBVIOUS
    <3>4. cfps' = [t \in Tasks |-> Close(Close(cfps[t], E[t], "expired"), A[t], "awarded")]
      BY <3>1, <3>2, <3>3
    <3>. QED BY <3>4
  <2>2. ASSUME NEW t \in Tasks
        PROVE  cfps'[t] \in Seq(Cfp) /\ Len(cfps'[t]) = Len(cfps[t])
    <3>1. PICK one : one = Close(cfps[t], E[t], "expired")
      OBVIOUS
    <3>2. one \in Seq(Cfp) /\ Len(one) = Len(cfps[t])
      BY <1>0, <3>1, CloseType
    <3>3. PICK two : two = Close(one, A[t], "awarded")
      OBVIOUS
    <3>4. two \in Seq(Cfp) /\ Len(two) = Len(one)
      BY <3>2, <3>3, CloseType
    <3>. QED BY <2>1, <3>1, <3>2, <3>3, <3>4
  <2>3. UNCHANGED bids
    BY <1>3 DEF CloseCfps
  <2>4. DOMAIN cfps' = Tasks /\ cfps' = [t \in Tasks |-> cfps'[t]]
    BY <2>1
  <2>. QED BY <1>0, <2>2, <2>3, <2>4 DEF BoardOK, Grows
<1>4. ASSUME NEW t \in Tasks, ResolveCompetingService(t) \/ \E a \in Agents : PostBid(t, a)
      PROVE  BoardOK' /\ Grows
  <2>1. PICK N : N = Len(cfps[t])
    OBVIOUS
  <2>2. UNCHANGED cfps /\ Posted(t, N)
    BY <1>0, <1>4, <2>1, PostedBids
  <2>3. PICK bs \in Seq(BidUpTo(N)) : bids' = [bids EXCEPT ![t] = bids[t] \o bs]
    BY <2>2 DEF Posted
  <2>. QED BY ONLY BoardOK, t \in Tasks, <2>1, <2>2, <2>3, bs \in Seq(BidUpTo(N)), BoardBids, Zenon
<1>6. CASE BoardMoves
  BY <1>1, <1>2, <1>3, <1>4, <1>6 DEF BoardMoves
<1>7. CASE UNCHANGED boardVars
  BY <1>7, BoardSame
<1>. QED BY <1>6, <1>7, Movers

(***************************************************************************)
(* Awards, sequences, plans and cycles.                                    *)
(***************************************************************************)
\* The bids that count are positions of the bids that were read.
LEMMA QualifyingType ==
  ASSUME NEW p, NEW t \in Tasks, proc[p].mine \in [Tasks -> Seq(AnyBid)]
  PROVE  /\ Qualifying(p, t) \subseteq DOMAIN proc[p].mine[t]
         /\ Qualifying(p, t) \in SUBSET Nat /\ IsFiniteSet(Qualifying(p, t))
         /\ \A i \in Qualifying(p, t) : /\ proc[p].mine[t][i] \in AnyBid
                                       /\ proc[p].mine[t][i].score \in Nat
                                       /\ proc[p].mine[t][i].bidder \in Bidder
<1>1. PICK b : b = proc[p].mine[t]
  OBVIOUS
<1>2. b \in Seq(AnyBid)
  BY <1>1
<1>3. DOMAIN b = 1..Len(b) /\ Len(b) \in Nat
  BY <1>2
<1>4. IsFiniteSet(1..Len(b))
  BY <1>3, FS_Interval
<1>5. Qualifying(p, t) \subseteq DOMAIN b
  BY <1>1 DEF Qualifying, ScopedBids
<1>6. IsFiniteSet(Qualifying(p, t)) /\ Qualifying(p, t) \in SUBSET Nat
  BY <1>3, <1>4, <1>5, FS_Subset
<1>7. ASSUME NEW i \in DOMAIN b PROVE b[i] \in AnyBid /\ b[i].score \in Nat /\ b[i].bidder \in Bidder
  <2>1. b[i] \in AnyBid
    BY <1>2
  <2>. QED BY <2>1, CnpConstants DEF AnyBid
<1>. QED BY <1>1, <1>5, <1>6, <1>7

\* The best bid is the first of those with the highest score.
LEMMA BestBid ==
  ASSUME NEW p, NEW t \in Tasks, proc[p].mine \in [Tasks -> Seq(AnyBid)], Qualifying(p, t) # {}
  PROVE  \E i \in Qualifying(p, t) :
           /\ BestBids(p, t) = proc[p].mine[t][i]
           /\ \A j \in Qualifying(p, t) :
                /\ proc[p].mine[t][i].score >= proc[p].mine[t][j].score
                /\ proc[p].mine[t][j].score >= proc[p].mine[t][i].score => i <= j
<1>1. PICK q, b : q = Qualifying(p, t) /\ b = proc[p].mine[t]
  OBVIOUS
<1>2. q \in SUBSET Nat /\ IsFiniteSet(q) /\ q # {} /\ \A i \in q : b[i].score \in Nat
  BY <1>1, QualifyingType
<1>3. PICK f : f = [i \in q |-> b[i].score]
  OBVIOUS
<1>4. f \in [q -> Nat] /\ \A i \in q : f[i] = b[i].score
  BY <1>2, <1>3
<1>5. \E i \in q : \A j \in q : f[i] >= f[j]
  BY ONLY <1>2, <1>4, Best, Zenon
<1>6. PICK M : M = {i \in q : \A j \in q : b[i].score >= b[j].score}
  OBVIOUS
<1>7. M \in SUBSET Nat /\ M # {}
  BY <1>2, <1>4, <1>5, <1>6
<1>8. Min(M) \in M /\ \A y \in M : Min(M) <= y
  BY ONLY <1>7, LeastNumber
<1>9. BestBids(p, t) = b[Min(M)]
  BY <1>1, <1>6 DEF BestBids
<1>10. PICK i : i = Min(M)
  OBVIOUS
<1>11. i \in q /\ \A j \in q : b[i].score >= b[j].score
  BY <1>6, <1>8, <1>10
<1>12. ASSUME NEW j \in q, b[j].score >= b[i].score PROVE i <= j
  <2>1. \A k \in q : b[j].score >= b[k].score
    BY <1>2, <1>11, <1>12
  <2>. QED BY <1>6, <1>8, <1>10, <2>1
<1>. QED BY <1>1, <1>9, <1>10, <1>11, <1>12

\* The bids that count are ranked by score and, with one score, by age.
LEMMA RankedBid ==
  ASSUME NEW p, NEW t \in Tasks, proc[p].mine \in [Tasks -> Seq(AnyBid)],
         NEW k \in 1..Cardinality(Qualifying(p, t))
  PROVE  \E i \in Qualifying(p, t) :
           /\ RankedBids(p, t)[k] = proc[p].mine[t][i].bidder
           /\ k = 1 => \A j \in Qualifying(p, t) :
                /\ ~(proc[p].mine[t][j].score > proc[p].mine[t][i].score)
                /\ ~(proc[p].mine[t][j].score = proc[p].mine[t][i].score /\ j < i)
<1>. DEFINE q == Qualifying(p, t)
            b == proc[p].mine[t]
<1>2. q \in SUBSET Nat /\ IsFiniteSet(q) /\ \A i \in q : b[i].score \in Nat
  BY QualifyingType
<1>. DEFINE Before(i, j) == b[i].score > b[j].score \/ (b[i].score = b[j].score /\ i < j)
<1>3. PICK before : before = [i \in q |-> {j \in q : Before(j, i)}]
  OBVIOUS
<1>4. \A i \in q : before[i] = {j \in q : Before(j, i)}
  BY <1>3
<1>5. Orders(before, q)
  <2>1. before \in [q -> SUBSET q]
    BY <1>3
  <2>2. \A x \in q : x \notin before[x]
    BY <1>2, <1>4
  <2>3. ASSUME NEW x \in q, NEW y \in before[x], NEW z \in before[y] PROVE z \in before[x]
    <3>1. y \in q /\ Before(y, x)
      BY <1>4, <2>3
    <3>2. z \in q /\ Before(z, y)
      BY <1>4, <2>3, <3>1
    <3>3. /\ x \in Nat /\ y \in Nat /\ z \in Nat
          /\ b[x].score \in Nat /\ b[y].score \in Nat /\ b[z].score \in Nat
      BY <1>2, <3>1, <3>2
    <3>4. PICK u, v, w : u = b[x].score /\ v = b[y].score /\ w = b[z].score
      OBVIOUS
    <3>5. (v > u \/ (v = u /\ y < x)) /\ (w > v \/ (w = v /\ z < y))
      BY <3>1, <3>2, <3>4
    <3>6. w > u \/ (w = u /\ z < x)
      BY ONLY <3>3, <3>4, <3>5
    <3>7. Before(z, x)
      BY <3>4, <3>6
    <3>. QED BY <1>4, <3>2, <3>7
  <2>4. ASSUME NEW x \in q, NEW y \in q, x # y PROVE y \in before[x] \/ x \in before[y]
    <3>1. x \in Nat /\ y \in Nat /\ b[x].score \in Nat /\ b[y].score \in Nat
      BY <1>2
    <3>2. Before(x, y) \/ Before(y, x)
      BY <2>4, <3>1
    <3>. QED BY <1>4, <3>2
  <2>. QED BY <2>1, <2>2, <2>3, <2>4 DEF Orders
<1>6. PICK r : r = [n \in 1..Cardinality(q) |->
                      b[CHOOSE i \in q : Cardinality({j \in q : Before(j, i)}) = n - 1].bidder]
  OBVIOUS
<1>7. RankedBids(p, t) = r
  BY <1>6, Zenon DEF RankedBids
<1>8. k \in 1..Cardinality(q)
  OBVIOUS
<1>9. PICK i : i = CHOOSE m \in q : Cardinality({j \in q : Before(j, m)}) = k - 1
  OBVIOUS
<1>10. r[k] = b[i].bidder
  BY <1>6, <1>8, <1>9
<1>11. \E x \in q : Cardinality(before[x]) = k - 1
  BY ONLY <1>2, <1>5, <1>8, KthOf, Zenon
<1>12. \E x \in q : Cardinality({j \in q : Before(j, x)}) = k - 1
  BY <1>4, <1>11
<1>13. i \in q /\ Cardinality({j \in q : Before(j, i)}) = k - 1
  BY ONLY <1>9, <1>12, Zenon
<1>14. ASSUME k = 1, NEW j \in q PROVE ~Before(j, i)
  <2>1. PICK S : S = {y \in q : Before(y, i)}
    OBVIOUS
  <2>a. k - 1 = 0
    BY <1>14
  <2>2. S \in SUBSET q /\ Cardinality(S) = 0
    BY <1>13, <2>1, <2>a, ZenonT(40)
  <2>3. IsFiniteSet(S)
    BY <1>2, <2>2, FS_Subset
  <2>4. S = {}
    BY <2>2, <2>3, FS_EmptySet
  <2>. QED BY <2>1, <2>4
<1>15. \A j \in q : k = 1 => /\ ~(b[j].score > b[i].score)
                          /\ ~(b[j].score = b[i].score /\ j < i)
  BY <1>14
<1>. QED BY <1>7, <1>10, <1>13, <1>15

\* The candidates of a sequence are bidders.
LEMMA RankedType ==
  ASSUME NEW p, NEW t \in Tasks, proc[p].mine \in [Tasks -> Seq(AnyBid)]
  PROVE  RankedBids(p, t) \in Seq(Bidder) /\ Len(RankedBids(p, t)) = Cardinality(Qualifying(p, t))
<1>1. PICK r, n : r = RankedBids(p, t) /\ n = Cardinality(Qualifying(p, t))
  OBVIOUS
<1>2. n \in Nat
  BY <1>1, QualifyingType, FS_CardinalityType
<1>3. r = [k \in 1..n |-> r[k]]
  <2>. DEFINE q == Qualifying(p, t)
              b == proc[p].mine[t]
              Before(i, j) == b[i].score > b[j].score \/ (b[i].score = b[j].score /\ i < j)
              Ranked(k) == b[CHOOSE i \in q : Cardinality({j \in q : Before(j, i)}) = k - 1].bidder
  <2>1. PICK f : f = [k \in 1..Cardinality(q) |-> Ranked(k)]
    OBVIOUS
  <2>2. RankedBids(p, t) = f
    BY <2>1, Zenon DEF RankedBids
  <2>. HIDE DEF Ranked
  <2>3. f = [k \in 1..Cardinality(q) |-> f[k]]
    BY <2>1
  <2>. QED BY <1>1, <2>2, <2>3
<1>4. ASSUME NEW k \in 1..n PROVE r[k] \in Bidder
  <2>1. k \in 1..Cardinality(Qualifying(p, t))
    BY <1>1
  <2>2. \E i \in Qualifying(p, t) : RankedBids(p, t)[k] = proc[p].mine[t][i].bidder
    BY <2>1, RankedBid
  <2>3. PICK i \in Qualifying(p, t) : r[k] = proc[p].mine[t][i].bidder
    BY <1>1, <2>2
  <2>. QED BY <2>3, QualifyingType
<1>5. r \in [1..n -> Bidder]
  BY <1>3, <1>4
<1>. QED BY <1>1, <1>2, <1>5, SMTT(30)

\* The first candidate of the sequence and the best bid are one.
LEMMA FirstIsBest ==
  ASSUME NEW p, NEW t \in Tasks, proc[p].mine \in [Tasks -> Seq(AnyBid)], Qualifying(p, t) # {}
  PROVE  RankedBids(p, t)[1] = BestBids(p, t).bidder
<1>1. PICK q, b : q = Qualifying(p, t) /\ b = proc[p].mine[t]
  OBVIOUS
<1>2. q \in SUBSET Nat /\ IsFiniteSet(q) /\ \A i \in q : b[i].score \in Nat
  BY <1>1, QualifyingType
<1>3. Cardinality(q) \in Nat /\ Cardinality(q) # 0
  BY <1>1, <1>2, FS_CardinalityType, FS_EmptySet
<1>4. PICK i \in q : /\ BestBids(p, t) = b[i]
                     /\ \A j \in q : b[i].score >= b[j].score /\ (b[j].score >= b[i].score => i <= j)
  BY <1>1, BestBid
<1>5. 1 \in 1..Cardinality(Qualifying(p, t))
  BY <1>1, <1>3
<1>6. PICK m \in q : /\ RankedBids(p, t)[1] = b[m].bidder
                     /\ \A j \in q : ~(b[j].score > b[m].score) /\ ~(b[j].score = b[m].score /\ j < m)
  BY <1>1, <1>5, RankedBid
<1>7. b[i].score \in Nat /\ b[m].score \in Nat /\ i \in Nat /\ m \in Nat
  BY <1>2
<1>8. b[i].score = b[m].score
  BY <1>4, <1>6, <1>7
<1>9. i <= m /\ m <= i
  BY <1>4, <1>6, <1>7, <1>8
<1>10. i = m
  BY <1>7, <1>9
<1>. QED BY <1>4, <1>6, <1>10

\* What an inline resolution writes.
LEMMA InlineType ==
  ASSUME NEW t \in Tasks, ResolveCompetingService(t)
  PROVE  \E rank \in Seq(Bidder) :
           /\ Len(rank) > 0 /\ rank[1] \in Bidder
           /\ seqs' = [seqs EXCEPT ![t] = SaveSequence(seqs[t], InlinePlan, rank)]
           /\ awards' = [awards EXCEPT ![t] = Append(awards[t], [bidder |-> rank[1], by |-> "inline"])]
<1>1. PICK C \in SUBSET Agents : Cardinality(C) > 1 /\
        \E score \in [C -> Scores] : \E rank \in Rankings(C, score) :
          /\ seqs' = [seqs EXCEPT ![t] = SaveSequence(seqs[t], InlinePlan, rank)]
          /\ awards' = [awards EXCEPT ![t] = Append(awards[t], [bidder |-> rank[1], by |-> "inline"])]
  BY DEF ResolveCompetingService, AddAward
<1>2. PICK score, rank : rank \in Rankings(C, score)
          /\ seqs' = [seqs EXCEPT ![t] = SaveSequence(seqs[t], InlinePlan, rank)]
          /\ awards' = [awards EXCEPT ![t] = Append(awards[t], [bidder |-> rank[1], by |-> "inline"])]
  BY <1>1
<1>3. IsFiniteSet(C) /\ C \subseteq Bidder /\ C # {}
  BY <1>1, CnpConstants, FS_Subset, FS_EmptySet
<1>4. PICK m \in Nat \ {0} : rank \in [1..m -> C]
  BY <1>2, <1>3, RankingType
<1>5. rank \in Seq(Bidder) /\ Len(rank) > 0 /\ rank[1] \in Bidder
  BY <1>3, <1>4
<1>. QED BY ONLY <1>2, <1>5, Zenon

LEMMA AwardsNext == ASSUME Typed, [CnpNext]_cnpVars PROVE AwardsOK'
<1>0. awards \in [Tasks -> Seq(Award)]
  BY DEF Typed, AwardsOK
<1>1. ASSUME NEW t \in Tasks, NEW a \in Bidder, NEW by \in {"builder", "inline", "reforward"},
             awards' = [awards EXCEPT ![t] = Append(awards[t], [bidder |-> a, by |-> by])]
      PROVE  AwardsOK'
  <2>1. PICK w : w = [bidder |-> a, by |-> by]
    OBVIOUS
  <2>2. w \in Award
    BY <2>1 DEF Award
  <2>3. Append(awards[t], w) \in Seq(Award)
    BY <1>0, <2>2
  <2>. QED BY <1>0, <1>1, <2>1, <2>3 DEF AwardsOK
<1>2. ASSUME NEW p \in Managers, NEW t \in Tasks, AwardTask(p, t) PROVE AwardsOK'
  <2>1. proc[p].mine \in [Tasks -> Seq(AnyBid)]
    BY <1>2 DEF AwardTask, Typed, ProcsOK, Fits, Bidders
  <2>2. CASE UNCHANGED awards
    BY <1>0, <2>2 DEF AwardsOK
  <2>3. CASE ~UNCHANGED awards
    <3>1. Qualifying(p, t) # {}
      BY <1>2, <2>3 DEF AwardTask
    <3>2. awards' = [awards EXCEPT ![t] = Append(awards[t],
                       [bidder |-> BestBids(p, t).bidder, by |-> "builder"])]
      BY <1>2, <2>3 DEF AwardTask, AddAward
    <3>3. BestBids(p, t).bidder \in Bidder
      BY <2>1, <3>1, BestBid, QualifyingType
    <3>. QED BY <1>1, <3>2, <3>3
  <2>. QED BY <2>2, <2>3
<1>3. ASSUME NEW t \in Tasks, ResolveCompetingService(t) PROVE AwardsOK'
  BY <1>1, <1>3, InlineType
<1>4. ASSUME NEW t \in Tasks, NEW n \in DOMAIN seqs[t], Reforward(t, n) PROVE AwardsOK'
  <2>1. PICK sq : sq = seqs[t][n]
    OBVIOUS
  <2>2. sq.cands \in Seq(Bidder) /\ sq.idx \in Nat /\ sq.idx + 1 < Len(sq.cands)
    BY <1>4, <2>1 DEF Typed, SeqsOK, Sequence, Reforward
  <2>3. sq.cands[sq.idx + 1 + 1] \in Bidder
    BY <2>2
  <2>4. awards' = [awards EXCEPT ![t] = Append(awards[t],
                     [bidder |-> sq.cands[sq.idx + 1 + 1], by |-> "reforward"])]
    BY <1>4, <2>1 DEF Reforward, AddAward
  <2>. QED BY <1>1, <2>3, <2>4
<1>5. CASE AwardMoves
  BY <1>2, <1>3, <1>4, <1>5 DEF AwardMoves
<1>6. CASE UNCHANGED awards
  BY <1>0, <1>6 DEF AwardsOK
<1>. QED BY <1>5, <1>6, Movers

\* The sequences of one task under the plans up to N.
SeqOK(sq, N) ==
  /\ sq = [n \in DOMAIN sq |-> sq[n]]
  /\ \A n \in DOMAIN sq : n \in 0..N /\ sq[n] \in Sequence /\ sq[n].idx < Len(sq[n].cands)

LEMMA SeqsEach ==
  ASSUME SeqsOK, NEW t \in Tasks PROVE SeqOK(seqs[t], Len(plans))
<1>1. seqs[t] = [n \in DOMAIN seqs[t] |-> seqs[t][n]]
  BY DEF SeqsOK
<1>. QED BY <1>1 DEF SeqsOK, SeqOK

\* Saving a sequence replaces the one under the plan.
LEMMA SavedSequence ==
  ASSUME NEW N \in Nat, NEW sq, SeqOK(sq, N), NEW n \in Nat, NEW M \in Nat, N <= M, n <= M,
         NEW cands \in Seq(Bidder), Len(cands) > 0
  PROVE  SeqOK(SaveSequence(sq, n, cands), M)
<1>1. PICK new : new = SaveSequence(sq, n, cands)
  OBVIOUS
<1>2. new = [k \in DOMAIN sq \cup {n} |-> IF k = n THEN [cands |-> cands, idx |-> 0] ELSE sq[k]]
  BY <1>1 DEF SaveSequence
<1>3. DOMAIN new = DOMAIN sq \cup {n} /\ new = [k \in DOMAIN new |-> new[k]]
  BY <1>2
<1>4. PICK one : one = [cands |-> cands, idx |-> 0]
  OBVIOUS
<1>5. one \in Sequence /\ one.idx < Len(one.cands)
  BY <1>4 DEF Sequence
<1>6. ASSUME NEW k \in DOMAIN new
      PROVE  k \in 0..M /\ new[k] \in Sequence /\ new[k].idx < Len(new[k].cands)
  <2>1. CASE k = n
    BY <1>2, <1>4, <1>5, <2>1
  <2>2. CASE k # n
    <3>1. k \in DOMAIN sq /\ new[k] = sq[k]
      BY <1>2, <1>3, <2>2
    <3>2. k \in 0..N /\ sq[k] \in Sequence /\ sq[k].idx < Len(sq[k].cands)
      BY <3>1 DEF SeqOK
    <3>. QED BY <3>1, <3>2
  <2>. QED BY <2>1, <2>2
<1>. QED BY <1>1, <1>3, <1>6 DEF SeqOK

\* The sequences are of the type when those of each task are.
LEMMA SeqsAll ==
  ASSUME NEW S, NEW N, S = [t \in Tasks |-> S[t]], \A t \in Tasks : SeqOK(S[t], N),
         seqs' = S, Len(plans') = N
  PROVE  SeqsOK'
<1>1. \A t \in Tasks : S[t] = [n \in DOMAIN S[t] |-> S[t][n]]
  BY DEF SeqOK
<1>2. S = [t \in Tasks |-> [n \in DOMAIN S[t] |-> S[t][n]]]
  BY <1>1
<1>3. \A t \in Tasks : \A n \in DOMAIN S[t] :
        n \in 0..N /\ S[t][n] \in Sequence /\ S[t][n].idx < Len(S[t][n].cands)
  BY DEF SeqOK
<1>. QED BY <1>2, <1>3 DEF SeqsOK

\* A re-forward moves the sequence on.
LEMMA MovedSequence ==
  ASSUME Typed, NEW t \in Tasks, NEW n \in DOMAIN seqs[t], Reforward(t, n)
  PROVE  \E sq : /\ seqs' = [seqs EXCEPT ![t] = sq] /\ SeqOK(sq, Len(plans))
                 /\ DOMAIN sq = DOMAIN seqs[t]
                 /\ \A k \in DOMAIN sq : sq[k].cands = seqs[t][k].cands
<1>1. SeqOK(seqs[t], Len(plans)) /\ seqs[t][n] \in Sequence
  BY SeqsEach DEF Typed, SeqOK
<1>2. PICK idx : idx = seqs[t][n].idx + 1
  OBVIOUS
<1>3. idx < Len(seqs[t][n].cands) /\ seqs' = [seqs EXCEPT ![t][n].idx = idx]
  BY <1>2 DEF Reforward
<1>4. PICK old \in Sequence : old = seqs[t][n]
  BY <1>1
<1>5. PICK new : new = [old EXCEPT !.idx = idx]
  OBVIOUS
<1>6. new \in Sequence /\ new.idx = idx /\ new.cands = old.cands
  BY <1>2, <1>4, <1>5 DEF Sequence
<1>7. PICK sq : sq = [seqs[t] EXCEPT ![n] = new]
  OBVIOUS
<1>8. seqs' = [seqs EXCEPT ![t] = sq]
  BY <1>3, <1>4, <1>5, <1>7
<1>9. seqs[t] = [k \in DOMAIN seqs[t] |-> seqs[t][k]]
  BY <1>1 DEF SeqOK
<1>10. DOMAIN sq = DOMAIN seqs[t] /\ sq = [k \in DOMAIN sq |-> sq[k]]
  BY <1>7, <1>9
<1>11. \A k \in DOMAIN sq : sq[k] = IF k = n THEN new ELSE seqs[t][k]
  BY <1>7, <1>9
<1>12. ASSUME NEW k \in DOMAIN sq
       PROVE  /\ k \in 0..Len(plans) /\ sq[k] \in Sequence /\ sq[k].idx < Len(sq[k].cands)
              /\ sq[k].cands = seqs[t][k].cands
  <2>1. CASE k = n
    BY <1>1, <1>3, <1>4, <1>6, <1>10, <1>11, <2>1 DEF SeqOK
  <2>2. CASE k # n
    BY <1>1, <1>10, <1>11, <2>2 DEF SeqOK
  <2>. QED BY <2>1, <2>2
<1>. QED BY <1>8, <1>10, <1>12 DEF SeqOK

LEMMA PlansNext == ASSUME Typed, [CnpNext]_cnpVars PROVE SeqsOK' /\ PlansOK'
<1>0. /\ plans \in Seq([Tasks -> Bidder \cup {NoOne}]) /\ Len(plans) \in Nat
      /\ seqs = [t \in Tasks |-> seqs[t]]
  BY DEF Typed, PlansOK, SeqsOK
<1>s. \A t \in Tasks : SeqOK(seqs[t], Len(plans))
  BY SeqsEach DEF Typed
<1>1. ASSUME NEW p \in Managers, SavePlan(p) PROVE SeqsOK' /\ PlansOK'
  <2>1. proc[p].mine \in [Tasks -> Seq(AnyBid)]
    BY <1>1 DEF SavePlan, Typed, ProcsOK, Fits, Bidders
  <2>2. PICK n : n = Len(plans) + 1
    OBVIOUS
  <2>3. PICK S : S = [t \in Tasks |-> IF Len(RankedBids(p, t)) > 1
                       THEN SaveSequence(seqs[t], n, RankedBids(p, t)) ELSE seqs[t]]
    OBVIOUS
  <2>4. ASSUME NEW t \in Tasks PROVE SeqOK(S[t], n)
    <3>1. CASE Len(RankedBids(p, t)) > 1
      <4>1. PICK c : c = RankedBids(p, t)
        OBVIOUS
      <4>2. c \in Seq(Bidder) /\ Len(c) > 0
        BY <2>1, <3>1, <4>1, RankedType
      <4>3. Len(plans) \in Nat /\ n \in Nat /\ Len(plans) <= n /\ n <= n /\ SeqOK(seqs[t], Len(plans))
        BY <1>0, <1>s, <2>2
      <4>4. SeqOK(SaveSequence(seqs[t], n, c), n)
        BY ONLY <4>2, <4>3, SavedSequence
      <4>. QED BY <2>3, <3>1, <4>1, <4>4
    <3>2. CASE ~(Len(RankedBids(p, t)) > 1)
      <4>1. SeqOK(seqs[t], Len(plans)) /\ Len(plans) \in Nat
        BY <1>0, <1>s
      <4>2. SeqOK(seqs[t], n)
        BY <2>2, <4>1 DEF SeqOK
      <4>. QED BY <2>3, <3>2, <4>2
    <3>. QED BY <3>1, <3>2
  <2>5. PICK plan : plan = [t \in Tasks |-> IF Qualifying(p, t) = {} THEN NoOne
                                            ELSE BestBids(p, t).bidder]
    OBVIOUS
  <2>6. plan \in [Tasks -> Bidder \cup {NoOne}]
    <3>1. ASSUME NEW t \in Tasks PROVE plan[t] \in Bidder \cup {NoOne}
      <4>1. CASE Qualifying(p, t) = {}
        BY <2>5, <4>1
      <4>2. CASE Qualifying(p, t) # {}
        <5>1. BestBids(p, t).bidder \in Bidder
          BY <2>1, <4>2, BestBid, QualifyingType
        <5>. QED BY <2>5, <4>2, <5>1
      <4>. QED BY <4>1, <4>2
    <3>. QED BY <2>5, <3>1
  <2>7. plans' = Append(plans, plan) /\ seqs' = S
    BY <1>1, <2>2, <2>3, <2>5 DEF SavePlan
  <2>8. PlansOK' /\ Len(plans') = n
    BY <1>0, <2>2, <2>6, <2>7 DEF PlansOK
  <2>9. S = [t \in Tasks |-> S[t]]
    BY <2>3
  <2>10. SeqsOK'
    BY ONLY <2>4, <2>7, <2>8, <2>9, SeqsAll
  <2>. QED BY <2>8, <2>10
<1>2. ASSUME NEW t \in Tasks, NEW sq, SeqOK(sq, Len(plans)), seqs' = [seqs EXCEPT ![t] = sq],
             UNCHANGED plans
      PROVE  SeqsOK' /\ PlansOK'
  <2>1. PICK S : S = [seqs EXCEPT ![t] = sq]
    OBVIOUS
  <2>2. S = [u \in Tasks |-> S[u]] /\ \A u \in Tasks : S[u] = IF u = t THEN sq ELSE seqs[u]
    BY <1>0, <2>1
  <2>3. \A u \in Tasks : SeqOK(S[u], Len(plans))
    BY <1>s, <1>2, <2>2
  <2>4. SeqsOK'
    <3>1. seqs' = S /\ Len(plans') = Len(plans)
      BY <1>2, <2>1
    <3>. QED BY ONLY <2>2, <2>3, <3>1, SeqsAll
  <2>. QED BY <1>0, <1>2, <2>4 DEF PlansOK
<1>3. ASSUME NEW t \in Tasks, ResolveCompetingService(t) PROVE SeqsOK' /\ PlansOK'
  <2>1. PICK rank \in Seq(Bidder) :
          Len(rank) > 0 /\ seqs' = [seqs EXCEPT ![t] = SaveSequence(seqs[t], InlinePlan, rank)]
    BY <1>3, InlineType
  <2>2. SeqOK(SaveSequence(seqs[t], InlinePlan, rank), Len(plans))
    <3>1. Len(plans) <= Len(plans) /\ InlinePlan <= Len(plans) /\ InlinePlan \in Nat
          /\ SeqOK(seqs[t], Len(plans))
      BY <1>0, <1>s DEF InlinePlan
    <3>. QED BY ONLY <1>0, <2>1, <3>1, SavedSequence
  <2>3. UNCHANGED plans
    BY <1>3 DEF ResolveCompetingService
  <2>. QED BY <1>2, <2>1, <2>2, <2>3
<1>4. ASSUME NEW t \in Tasks, NEW n \in DOMAIN seqs[t], Reforward(t, n) PROVE SeqsOK' /\ PlansOK'
  <2>1. UNCHANGED plans
    BY <1>4 DEF Reforward
  <2>. QED BY <1>2, <1>4, <2>1, MovedSequence
<1>5. CASE PlanMoves
  BY <1>1, <1>3, <1>4, <1>5 DEF PlanMoves
<1>6. CASE UNCHANGED <<seqs, plans>>
  BY <1>6 DEF Typed, SeqsOK, PlansOK
<1>. QED BY <1>5, <1>6, Movers

LEMMA CyclesNext == ASSUME Typed, [CnpNext]_cnpVars PROVE CyclesOK' /\ Len(cycles) <= Len(cycles')
<1>0. cycles \in Seq(CycleStatus) /\ Len(cycles) \in Nat
  BY DEF Typed, CyclesOK
<1>1. ASSUME NEW c, NEW status \in CycleStatus, SetCycle(c, status)
      PROVE  CyclesOK' /\ Len(cycles) <= Len(cycles')
  <2>1. cycles' = [cycles EXCEPT ![c] = status]
    BY <1>1 DEF SetCycle
  <2>2. cycles' \in Seq(CycleStatus) /\ Len(cycles') = Len(cycles)
    <3>1. PICK n \in Nat : n = Len(cycles) /\ cycles \in [1..n -> CycleStatus]
      BY <1>0
    <3>2. cycles' \in [1..n -> CycleStatus]
      BY <2>1, <3>1
    <3>. QED BY <3>1, <3>2
  <2>. QED BY <1>0, <2>2 DEF CyclesOK
<1>2. ASSUME NEW p \in Managers, StartCycle(p) PROVE CyclesOK' /\ Len(cycles) <= Len(cycles')
  <2>1. cycles' = Append(cycles, "bidding") /\ "bidding" \in CycleStatus
    BY <1>2 DEF StartCycle, CycleStatus
  <2>. QED BY <1>0, <2>1 DEF CyclesOK
<1>3. CASE UNCHANGED cycles
  BY <1>0, <1>3 DEF CyclesOK
<1>4. ASSUME NEW p \in Managers, EndRound(p) \/ Finish(p) \/ PlanFails(p)
      PROVE  CyclesOK' /\ Len(cycles) <= Len(cycles')
  <2>1. (\E status \in CycleStatus : SetCycle(proc[p].cycle, status)) \/ UNCHANGED cycles
    BY <1>4 DEF EndRound, Finish, PlanFails, CycleStatus
  <2>. QED BY <1>1, <1>3, <2>1
<1>5. CASE CycleMoves
  BY <1>2, <1>4, <1>5 DEF CycleMoves
<1>. QED BY <1>3, <1>5, Movers

\* The lists that lagged are counted.
LEMMA BehindNext == ASSUME Typed, [CnpNext]_cnpVars PROVE BehindOK'
<1>0. behind \in [Tasks -> [look : Nat, plan : Nat]]
  BY DEF Typed, BehindOK
<1>1. ASSUME NEW p \in Bidders, NEW t \in Tasks, Look(p, t) PROVE BehindOK'
  <2>1. PICK lag : behind' = [behind EXCEPT ![t].look = IF lag THEN @ + 1 ELSE @]
    BY <1>1 DEF Look
  <2>. QED BY <1>0, <2>1 DEF BehindOK
<1>2. ASSUME NEW p \in Managers, ReadForPlan(p) PROVE BehindOK'
  <2>1. PICK missed : behind' = [t \in Tasks |->
               IF t \in missed THEN [behind[t] EXCEPT !.plan = @ + 1] ELSE behind[t]]
    <3>1. \E lag \in Lags : \E missed \in IF lag THEN SUBSET AlreadyAwarded ELSE {{}} :
            behind' = [t \in Tasks |->
               IF t \in missed THEN [behind[t] EXCEPT !.plan = @ + 1] ELSE behind[t]]
      BY <1>2, Zenon DEF ReadForPlan
    <3>. QED BY <3>1
  <2>2. ASSUME NEW t \in Tasks PROVE behind'[t] \in [look : Nat, plan : Nat]
    <3>1. PICK b \in [look : Nat, plan : Nat] : b = behind[t]
      BY <1>0
    <3>2. [b EXCEPT !.plan = @ + 1] \in [look : Nat, plan : Nat]
      OBVIOUS
    <3>. QED BY <2>1, <3>1, <3>2
  <2>. QED BY <2>1, <2>2 DEF BehindOK
<1>3. CASE UNCHANGED behind
  BY <1>0, <1>3 DEF BehindOK
<1>. QED BY <1>1, <1>2, <1>3, Movers DEF LagMoves

\* They only grow, and a bidder's only while it looks at the task.
LEMMA LagNext ==
  ASSUME Typed, [CnpNext]_cnpVars, NEW t \in Tasks
  PROVE  /\ behind[t].plan <= behind'[t].plan
         /\ (\A p \in Bidders : ~Look(p, t)) => behind'[t].look = behind[t].look
<1>. DEFINE Goal == /\ behind[t].plan <= behind'[t].plan
                    /\ (\A p \in Bidders : ~Look(p, t)) => behind'[t].look = behind[t].look
<1>0. behind \in [Tasks -> [look : Nat, plan : Nat]]
  BY DEF Typed, BehindOK
<1>b. PICK b \in [look : Nat, plan : Nat] : b = behind[t]
  BY <1>0
<1>1. ASSUME NEW p \in Bidders, NEW u \in Tasks, Look(p, u) PROVE Goal
  <2>1. PICK lag : behind' = [behind EXCEPT ![u].look = IF lag THEN @ + 1 ELSE @]
    BY <1>1 DEF Look
  <2>2. CASE u = t
    <3>1. behind'[t].plan = b.plan
      BY <1>0, <1>b, <2>1, <2>2
    <3>. QED BY <1>b, <1>1, <2>2, <3>1
  <2>3. CASE u # t
    BY <1>0, <1>b, <2>1, <2>3
  <2>. QED BY <2>2, <2>3
<1>2. ASSUME NEW p \in Managers, ReadForPlan(p) PROVE Goal
  <2>1. PICK missed : behind' = [u \in Tasks |->
               IF u \in missed THEN [behind[u] EXCEPT !.plan = @ + 1] ELSE behind[u]]
    <3>1. \E lag \in Lags : \E missed \in IF lag THEN SUBSET AlreadyAwarded ELSE {{}} :
            behind' = [u \in Tasks |->
               IF u \in missed THEN [behind[u] EXCEPT !.plan = @ + 1] ELSE behind[u]]
      BY <1>2, Zenon DEF ReadForPlan
    <3>. QED BY <3>1
  <2>2. behind'[t] = b \/ behind'[t] = [b EXCEPT !.plan = b.plan + 1]
    BY <1>b, <2>1
  <2>3. PICK c : c = [b EXCEPT !.plan = b.plan + 1]
    OBVIOUS
  <2>4. c.look = b.look /\ c.plan = b.plan + 1 /\ b.plan \in Nat
    BY <2>3
  <2>5. behind'[t].look = b.look /\ b.plan <= behind'[t].plan
    BY <2>2, <2>3, <2>4
  <2>. QED BY <1>b, <2>5
<1>3. ASSUME UNCHANGED behind PROVE Goal
  BY <1>b, <1>3
<1>4. Goal
  <2>. HIDE DEF Goal
  <2>. QED BY <1>1, <1>2, <1>3, Movers DEF LagMoves
<1>. QED BY <1>4

(***************************************************************************)
(* The processes.                                                          *)
(***************************************************************************)
\* What a bidder and the builder have read.
Looked(q, t, s, O) == [q EXCEPT !.pc = "open", !.task = t, !.todo = @ \ {t}, !.seen = s, !.open = O]
Looks(p, t, shown, found) ==
  proc' = [proc EXCEPT ![p] = Looked(@, t, Part(bids[t], shown), found)]
LookLags(t) == behind' = [behind EXCEPT ![t].look = @ + 1]
PlanRead(q, B, O, H) ==
  [q EXCEPT !.pc = "award", !.todo = Tasks, !.mine = B, !.open = O, !.has = H]

LEMMA LookShape ==
  ASSUME Typed, NEW p \in Bidders, NEW t \in Tasks, Look(p, t)
  PROVE  /\ UNCHANGED boardVars
         /\ \E shown \in SUBSET DOMAIN bids[t], found \in SUBSET DOMAIN cfps[t] :
              /\ Looks(p, t, shown, found)
              /\ \/ LookLags(t)
                 \/ UNCHANGED behind /\ shown = DOMAIN bids[t] /\ found = Open(t)
<1>. DEFINE Read(shown, found) ==
       proc' = [proc EXCEPT ![p].pc = "open", ![p].task = t, ![p].todo = @ \ {t},
                            ![p].seen = Part(bids[t], shown), ![p].open = found]
<1>0. behind = [behind EXCEPT ![t].look = @] /\ Open(t) \subseteq DOMAIN cfps[t]
  BY DEF Typed, BehindOK, Open
<1>1. PICK lag \in Lags : /\ behind' = [behind EXCEPT ![t].look = IF lag THEN @ + 1 ELSE @]
            /\ \E shown \in IF lag THEN SUBSET DOMAIN bids[t] ELSE {DOMAIN bids[t]} :
               \E found \in IF lag THEN SUBSET DOMAIN cfps[t] ELSE {Open(t)} : Read(shown, found)
  <2>1. Look(p, t)
    OBVIOUS
  <2>. QED BY ONLY <2>1, ZenonT(30) DEF Look
<1>2. UNCHANGED boardVars
  BY DEF Look
<1>5. ASSUME NEW shown, NEW found, Read(shown, found)
      PROVE  Looks(p, t, shown, found)
  <2>1. PICK q \in Proc : q = proc[p]
    BY DEF Typed, ProcsOK
  <2>2. PICK s : s = Part(bids[t], shown)
    OBVIOUS
  <2>. QED BY <1>5, <2>1, <2>2 DEF Looks, Looked, Proc, Typed, ProcsOK
<1>. HIDE DEF Read
<1>3. CASE lag
  <2>1. LookLags(t)
    BY <1>1, <1>3 DEF LookLags
  <2>2. PICK shown \in SUBSET DOMAIN bids[t], found \in SUBSET DOMAIN cfps[t] : Read(shown, found)
    BY <1>1, <1>3
  <2>. QED BY <1>2, <1>5, <2>1, <2>2
<1>4. CASE ~lag
  <2>1. UNCHANGED behind
    BY <1>0, <1>1, <1>4
  <2>2. PICK shown, found : shown = DOMAIN bids[t] /\ found = Open(t) /\ Read(shown, found)
    BY <1>1, <1>4
  <2>. QED BY <1>0, <1>2, <1>5, <2>1, <2>2
<1>. QED BY <1>3, <1>4

LEMMA ReadShape ==
  ASSUME Typed, NEW p \in Bidders, ReadForPlan(p)
  PROVE  \E missed \in SUBSET AlreadyAwarded, mine \in [Tasks -> Seq(AnyBid)],
            open \in SUBSET (Tasks \X Nat) :
           /\ behind' = [t \in Tasks |->
                IF t \in missed THEN [behind[t] EXCEPT !.plan = @ + 1] ELSE behind[t]]
           /\ proc' = [proc EXCEPT ![p] = PlanRead(@, mine, open, AlreadyAwarded \ missed)]
<1>. DEFINE calls == UNION {{<<t, i>> : i \in Open(t)} : t \in Tasks}
            all == UNION {{<<t, i>> : i \in DOMAIN cfps[t]} : t \in Tasks}
            read(shown) == [t \in Tasks |-> Part(bids[t], shown[t] \cap DOMAIN bids[t])]
            Counts(missed) == behind' = [t \in Tasks |->
                IF t \in missed THEN [behind[t] EXCEPT !.plan = @ + 1] ELSE behind[t]]
            Reads(mine, open, missed) ==
              proc' = [proc EXCEPT ![p].pc = "award", ![p].todo = Tasks, ![p].mine = mine,
                                   ![p].open = open, ![p].has = AlreadyAwarded \ missed]
<1>1. \E lag \in Lags : \E missed \in IF lag THEN SUBSET AlreadyAwarded ELSE {{}} :
         /\ Counts(missed)
         /\ \E shown \in IF lag THEN [Tasks -> SUBSET UNION {DOMAIN bids[t] : t \in Tasks}]
                          ELSE {[t \in Tasks |-> DOMAIN bids[t]]} :
              \E found \in IF lag THEN SUBSET all ELSE {calls} : Reads(read(shown), found, missed)
  <2>1. ReadForPlan(p)
    OBVIOUS
  <2>. QED BY ONLY <2>1, ZenonT(30) DEF ReadForPlan
<1>2. calls \subseteq Tasks \X Nat /\ all \subseteq Tasks \X Nat
  <2>1. \A t \in Tasks : DOMAIN cfps[t] \subseteq Nat /\ Open(t) \subseteq Nat
    BY DEF Typed, BoardOK, Open
  <2>. QED BY <2>1
<1>3. ASSUME NEW shown PROVE read(shown) \in [Tasks -> Seq(AnyBid)]
  <2>1. ASSUME NEW t \in Tasks PROVE Part(bids[t], shown[t] \cap DOMAIN bids[t]) \in Seq(AnyBid)
    <3>1. bids[t] \in Seq(AnyBid)
      BY DEF Typed, BoardOK
    <3>. QED BY <3>1, PartType
  <2>. QED BY <2>1
<1>8. ASSUME NEW mine, NEW open, NEW missed, Reads(mine, open, missed)
      PROVE  proc' = [proc EXCEPT ![p] = PlanRead(@, mine, open, AlreadyAwarded \ missed)]
  <2>1. PICK q \in Proc : q = proc[p]
    BY DEF Typed, ProcsOK
  <2>2. PICK H : H = AlreadyAwarded \ missed
    OBVIOUS
  <2>. QED BY <1>8, <2>1, <2>2 DEF PlanRead, Proc, Typed, ProcsOK
<1>. HIDE DEF calls, all, read, Counts, Reads
<1>4. PICK lag \in Lags : \E missed \in IF lag THEN SUBSET AlreadyAwarded ELSE {{}} :
         /\ Counts(missed)
         /\ \E shown \in IF lag THEN [Tasks -> SUBSET UNION {DOMAIN bids[t] : t \in Tasks}]
                          ELSE {[t \in Tasks |-> DOMAIN bids[t]]} :
              \E found \in IF lag THEN SUBSET all ELSE {calls} : Reads(read(shown), found, missed)
  BY <1>1
<1>5. PICK missed \in SUBSET AlreadyAwarded : /\ Counts(missed)
         /\ \E shown \in IF lag THEN [Tasks -> SUBSET UNION {DOMAIN bids[t] : t \in Tasks}]
                          ELSE {[t \in Tasks |-> DOMAIN bids[t]]} :
              \E found \in IF lag THEN SUBSET all ELSE {calls} : Reads(read(shown), found, missed)
  BY <1>4
<1>6. PICK shown, found : found \subseteq Tasks \X Nat /\ Reads(read(shown), found, missed)
  BY <1>2, <1>5
<1>7. PICK mine : mine = read(shown) /\ mine \in [Tasks -> Seq(AnyBid)]
  BY <1>3
<1>9. Reads(mine, found, missed)
  BY <1>6, <1>7
<1>10. proc' = [proc EXCEPT ![p] = PlanRead(@, mine, found, AlreadyAwarded \ missed)]
  BY <1>8, <1>9, Zenon
<1>11. Counts(missed)
  BY <1>5
<1>. QED BY <1>6, <1>7, <1>10, <1>11, Zenon DEF Counts

\* A process moves to a record that fits; the others keep fitting.
LEMMA ProcUpdate ==
  ASSUME Typed, BoardOK', Grows, CyclesOK', Len(cycles) <= Len(cycles'), NEW p \in Bidders, NEW r \in Proc,
         proc' = [proc EXCEPT ![p] = r], Fits(r)'
  PROVE  ProcsOK'
<1>0. proc \in [Bidders -> Proc] /\ \A u \in Bidders : Fits(proc[u])
  BY DEF Typed, ProcsOK
<1>1. proc' \in [Bidders -> Proc] /\ proc'[p] = r /\ \A u \in Bidders \ {p} : proc'[u] = proc[u]
  BY <1>0
<1>2. Len(cycles) \in Nat /\ Len(cycles') \in Nat
  BY DEF Typed, CyclesOK
<1>3. ASSUME NEW q \in Proc, Fits(q) PROVE Fits(q)'
  <2>1. q.cycle \in Nat /\ q.cycle <= Len(cycles')
    BY <1>2, <1>3 DEF Fits, Proc
  <2>. QED BY <1>3, <2>1 DEF Fits, Grows
<1>4. ASSUME NEW u \in Bidders PROVE Fits(proc[u])'
  <2>1. CASE u = p
    <3>1. proc'[u] = r
      BY <1>1, <2>1
    <3>. QED BY <3>1 DEF Fits
  <2>2. CASE u # p
    <3>1. PICK q \in Proc : q = proc[u]
      BY <1>0
    <3>2. Fits(q) /\ proc'[u] = q
      BY <1>0, <1>1, <2>2, <3>1
    <3>3. Fits(q)'
      BY <1>3, <3>2
    <3>. QED BY <3>2, <3>3 DEF Fits
  <2>. QED BY <2>1, <2>2
<1>. QED BY <1>1, <1>4 DEF ProcsOK

\* The idle record fits.
LEMMA IdleType == Idle \in Proc /\ Fits(Idle)'
BY CnpConstants DEF Idle, Proc, Fits

LEMMA ProcsNext ==
  ASSUME Typed, [CnpNext]_cnpVars, BoardOK', Grows, CyclesOK', Len(cycles) <= Len(cycles')
  PROVE  ProcsOK'
<1>0. /\ proc \in [Bidders -> Proc] /\ \A u \in Bidders : proc[u] \in Proc /\ Fits(proc[u])
      /\ bids \in [Tasks -> Seq(AnyBid)]
      /\ Len(cycles) \in Nat /\ Len(cycles') \in Nat /\ MaxRounds \in Nat \ {0}
  BY CnpConstants DEF Typed, ProcsOK, BoardOK, CyclesOK
<1>b. Managers \subseteq Bidders
  BY DEF Bidders
<1>c. \A t \in Tasks : /\ cfps[t] \in Seq(Cfp) /\ cfps'[t] \in Seq(Cfp)
                      /\ DOMAIN cfps[t] \subseteq DOMAIN cfps'[t] /\ DOMAIN cfps[t] \subseteq Nat
  BY DEF Typed, BoardOK, Grows
<1>f. ASSUME NEW u \in Bidders PROVE Fits(proc[u]) /\ proc[u].cycle <= Len(cycles')
  <2>1. proc[u].cycle \in Nat /\ proc[u].cycle <= Len(cycles)
    BY <1>0 DEF Fits, Proc
  <2>. QED BY <1>0, <2>1
<1>e. <<>> \in Seq(AnyBid)
  OBVIOUS
<1>u. ASSUME NEW p \in Bidders, NEW r \in Proc, proc' = [proc EXCEPT ![p] = r], Fits(r)'
      PROVE  ProcsOK'
  BY <1>u, ProcUpdate
<1>1. ASSUME NEW p \in Bidders, NEW t \in Tasks, Look(p, t) PROVE ProcsOK'
  <2>1. PICK q \in Proc : q = proc[p]
    BY <1>0
  <2>2. PICK shown \in SUBSET DOMAIN bids[t], O \in SUBSET DOMAIN cfps[t] : Looks(p, t, shown, O)
    BY <1>1, LookShape
  <2>p. PICK s : s = Part(bids[t], shown)
    OBVIOUS
  <2>3. O \subseteq DOMAIN cfps[t] /\ O \subseteq Nat /\ s \in Seq(AnyBid)
    BY <1>0, <1>c, <2>p, PartType
  <2>4. PICK r : r = Looked(q, t, s, O)
    OBVIOUS
  <2>5. r \in Proc
    BY <2>3, <2>4 DEF Proc, Looked
  <2>6. proc' = [proc EXCEPT ![p] = r]
    BY <2>1, <2>2, <2>4, <2>p DEF Looks
  <2>7. /\ r.pc = "open" /\ r.task = t /\ r.open = O /\ r.cycle = q.cycle /\ r.round = q.round
    BY <2>4 DEF Proc, Looked
  <2>8. Fits(r)'
    BY <1>c, <1>f, <2>1, <2>3, <2>7 DEF Fits
  <2>. QED BY <1>u, <2>5, <2>6, <2>8
<1>2. ASSUME NEW p \in Bidders, OpenCfps(p) PROVE ProcsOK'
  <2>1. PICK q \in Proc : q = proc[p]
    BY <1>0
  <2>2. PICK t : t = q.task
    OBVIOUS
  <2>3. t \in Tasks /\ q.open \subseteq DOMAIN cfps[t]
    BY <1>2, <1>f, <2>1, <2>2 DEF OpenCfps, Fits
  <2>4. \E O \in SUBSET DOMAIN cfps'[t] : proc' = [proc EXCEPT ![p].pc = "place", ![p].open = O]
    <3>1. PICK X \in SUBSET q.open, last \in Nat : \E O, cs :
            /\ cfps' = [cfps EXCEPT ![t] = cs]
            /\ proc' = [proc EXCEPT ![p].pc = "place", ![p].open = O]
            /\ \/ O = q.open \ X
               \/ O = {Len(cfps[t]) + 1} /\ cs = WithCall(cfps[t], X, "expired", last)
      <4>1. Opened(p, t)
        BY <1>2, <2>1, <2>2, OpenShape
      <4>. QED BY <2>1, <4>1 DEF Opened
    <3>2. PICK O, cs : /\ cfps' = [cfps EXCEPT ![t] = cs]
            /\ proc' = [proc EXCEPT ![p].pc = "place", ![p].open = O]
            /\ \/ O = q.open \ X
               \/ O = {Len(cfps[t]) + 1} /\ cs = WithCall(cfps[t], X, "expired", last)
      BY <3>1
    <3>6. CASE O = q.open \ X
      <4>1. q.open \ X \in SUBSET DOMAIN cfps'[t]
        BY <1>c, <2>3
      <4>. QED BY <3>2, <3>6, <4>1
    <3>7. CASE O = {Len(cfps[t]) + 1} /\ cs = WithCall(cfps[t], X, "expired", last)
      <4>1. cs \in Seq(Cfp) /\ Len(cs) = Len(cfps[t]) + 1
        BY <1>c, <2>3, <3>7, NextCall
      <4>2. cfps'[t] = cs
        BY <2>3, <3>2 DEF Typed, BoardOK
      <4>3. Len(cfps[t]) + 1 \in DOMAIN cs
        BY <1>c, <2>3, <4>1
      <4>4. O \in SUBSET DOMAIN cfps'[t]
        BY <3>7, <4>2, <4>3
      <4>. QED BY <3>2, <4>4
    <3>. QED BY <3>2, <3>6, <3>7
  <2>5. PICK O \in SUBSET DOMAIN cfps'[t] : proc' = [proc EXCEPT ![p].pc = "place", ![p].open = O]
    BY <2>4
  <2>6. O \subseteq Nat
    BY <1>c, <2>3
  <2>7. PICK r : r = [q EXCEPT !.pc = "place", !.open = O]
    OBVIOUS
  <2>8. r \in Proc
    BY <2>6, <2>7 DEF Proc
  <2>9. proc' = [proc EXCEPT ![p] = r]
    BY <2>1, <2>5, <2>7
  <2>10. r.pc = "place" /\ r.task = t /\ r.open = O /\ r.cycle = q.cycle /\ r.round = q.round
    BY <2>2, <2>7 DEF Proc
  <2>11. Fits(r)'
    BY <1>f, <2>1, <2>3, <2>5, <2>10 DEF Fits
  <2>. QED BY <1>u, <2>8, <2>9, <2>11
\* The other steps of a process leave open what Fits asks for, or go on with it.
<1>3. ASSUME NEW p \in Bidders, NEW r \in Proc, proc' = [proc EXCEPT ![p] = r],
             r.pc \notin {"open", "place"}, r.cycle <= Len(cycles'), r.round <= MaxRounds,
             r.pc \in {"award", "save"} => r.mine \in [Tasks -> Seq(AnyBid)]
      PROVE  ProcsOK'
  <2>1. Fits(r)'
    BY <1>3 DEF Fits
  <2>. QED BY <1>3, <1>u, <2>1
<1>4. ASSUME NEW p \in Bidders, Place(p) \/ BidderFails(p) \/ ApiBid(p) PROVE ProcsOK'
  <2>1. PICK q \in Proc : q = proc[p]
    BY <1>0
  <2>2. /\ q.cycle \in Nat /\ q.cycle <= Len(cycles') /\ q.round <= MaxRounds
    BY <1>f, <2>1 DEF Fits, Proc
  <2>3. CASE Place(p)
    <3>1. PICK pc \in {"bidden", "look"} :
            proc' = [proc EXCEPT ![p].pc = pc, ![p].task = NoOne, ![p].seen = <<>>, ![p].open = {}]
      <4>. DEFINE next == IF proc[p].todo = {} THEN "bidden" ELSE "look"
      <4>1. proc' = [proc EXCEPT ![p].pc = next, ![p].task = NoOne, ![p].seen = <<>>, ![p].open = {}]
        BY ONLY <2>3, Zenon DEF Place
      <4>2. next \in {"bidden", "look"}
        OBVIOUS
      <4>. HIDE DEF next
      <4>. QED BY <4>1, <4>2
    <3>2. PICK r : r = [q EXCEPT !.pc = pc, !.task = NoOne, !.seen = <<>>, !.open = {}]
      OBVIOUS
    <3>3. /\ r \in Proc /\ r.pc = pc /\ r.cycle = q.cycle /\ r.round = q.round
      BY <1>e, <3>2 DEF Proc
    <3>4. proc' = [proc EXCEPT ![p] = r]
      BY <2>1, <3>1, <3>2
    <3>. QED BY <1>3, <2>2, <3>1, <3>3, <3>4
  <2>4. CASE BidderFails(p)
    <3>2. PICK r : r = [q EXCEPT !.pc = "bidden", !.todo = {}, !.task = NoOne, !.seen = <<>>, !.open = {}]
      OBVIOUS
    <3>3. /\ r \in Proc /\ r.pc = "bidden" /\ r.cycle = q.cycle /\ r.round = q.round
      BY <1>e, <3>2 DEF Proc
    <3>4. proc' = [proc EXCEPT ![p] = r]
      BY <2>1, <2>4, <3>2 DEF BidderFails
    <3>. QED BY <1>3, <2>2, <3>3, <3>4
  <2>5. CASE ApiBid(p)
    <3>2. PICK r : r = [q EXCEPT !.pc = "look", !.todo = Tasks]
      OBVIOUS
    <3>3. /\ r \in Proc /\ r.pc = "look" /\ r.cycle = q.cycle /\ r.round = q.round
      BY <3>2 DEF Proc
    <3>4. proc' = [proc EXCEPT ![p] = r]
      BY <2>1, <2>5, <3>2 DEF ApiBid
    <3>. QED BY <1>3, <2>2, <3>3, <3>4
  <2>. QED BY <1>4, <2>3, <2>4, <2>5
<1>5. ASSUME NEW p \in Bidders, proc' = [proc EXCEPT ![p] = Idle] PROVE ProcsOK'
  BY <1>5, <1>u, IdleType
<1>6. ASSUME NEW p \in Managers, StartCycle(p) PROVE ProcsOK'
  <2>1. PICK c : c = Len(cycles) + 1
    OBVIOUS
  <2>2. cycles' = Append(cycles, "bidding") /\ proc' = [proc EXCEPT ![p] =
          [Idle EXCEPT !.pc = "look", !.todo = Tasks, !.cycle = c, !.round = 1]]
    BY <1>6, <2>1 DEF StartCycle
  <2>q. PICK idle \in Proc : idle = Idle
    BY IdleType
  <2>3. PICK r : r = [idle EXCEPT !.pc = "look", !.todo = Tasks, !.cycle = c, !.round = 1]
    OBVIOUS
  <2>4. c \in Nat /\ c <= Len(cycles')
    BY <1>0, <2>1, <2>2 DEF Typed, CyclesOK
  <2>5. r \in Proc /\ r.pc = "look" /\ r.cycle = c /\ r.round = 1
    BY <2>3, <2>4 DEF Proc
  <2>6. proc' = [proc EXCEPT ![p] = r]
    BY <2>2, <2>3, <2>q
  <2>7. r.pc \notin {"open", "place"} /\ r.cycle <= Len(cycles') /\ r.round <= MaxRounds
        /\ r.pc \notin {"award", "save"}
    BY <1>0, <2>4, <2>5
  <2>. QED BY <1>3, <1>b, <2>5, <2>6, <2>7
<1>7. ASSUME NEW p \in Managers, EndRound(p) PROVE ProcsOK'
  <2>1. PICK q \in Proc : q = proc[p]
    BY <1>0, <1>b
  <2>2. /\ q.cycle \in Nat /\ q.cycle <= Len(cycles') /\ q.round \in Nat /\ q.round <= MaxRounds
    BY <1>b, <1>f, <2>1 DEF Fits, Proc
  <2>3. CASE proc' = [proc EXCEPT ![p].pc = "read"]
    <3>2. PICK r : r = [q EXCEPT !.pc = "read"]
      OBVIOUS
    <3>3. /\ r \in Proc /\ r.pc = "read" /\ r.cycle = q.cycle /\ r.round = q.round
      BY <3>2 DEF Proc
    <3>4. proc' = [proc EXCEPT ![p] = r]
      BY <2>1, <2>3, <3>2
    <3>. QED BY <1>3, <1>b, <2>2, <3>3, <3>4
  <2>4. CASE ~RoundsOver(proc[p]) /\ proc' = [proc EXCEPT ![p] = NextRound(@)]
    <3>1. PICK n : n = q.round + 1
      OBVIOUS
    <3>2. PICK r : r = [q EXCEPT !.pc = "look", !.todo = Tasks, !.round = n]
      OBVIOUS
    <3>3. n \in Nat /\ n <= MaxRounds
      BY <1>0, <2>1, <2>2, <2>4, <3>1 DEF RoundsOver
    <3>4. /\ r \in Proc /\ r.pc = "look" /\ r.cycle = q.cycle /\ r.round = n
      BY <3>2, <3>3 DEF Proc
    <3>5. proc' = [proc EXCEPT ![p] = r]
      BY <2>1, <2>4, <3>1, <3>2 DEF NextRound
    <3>. QED BY <1>3, <1>b, <2>2, <3>3, <3>4, <3>5
  <2>. QED BY <1>7, <2>3, <2>4 DEF EndRound
<1>8. ASSUME NEW p \in Managers, ReadForPlan(p) PROVE ProcsOK'
  <2>1. PICK q \in Proc : q = proc[p]
    BY <1>0, <1>b
  <2>2. /\ q.cycle \in Nat /\ q.cycle <= Len(cycles') /\ q.round <= MaxRounds
    BY <1>b, <1>f, <2>1 DEF Fits, Proc
  <2>3. PICK missed \in SUBSET AlreadyAwarded, B \in [Tasks -> Seq(AnyBid)], O \in SUBSET (Tasks \X Nat) :
          proc' = [proc EXCEPT ![p] = PlanRead(@, B, O, AlreadyAwarded \ missed)]
    BY <1>8, <1>b, ReadShape
  <2>4. PICK H : H = AlreadyAwarded \ missed /\ H \subseteq Tasks
    BY DEF AlreadyAwarded
  <2>6. PICK r : r = PlanRead(q, B, O, H)
    OBVIOUS
  <2>8. r \in Proc /\ r.pc = "award" /\ r.cycle = q.cycle /\ r.round = q.round /\ r.mine = B
    BY <2>4, <2>6 DEF Proc, PlanRead
  <2>9. proc' = [proc EXCEPT ![p] = r]
    BY <2>1, <2>3, <2>4, <2>6
  <2>. QED BY <1>3, <1>b, <2>2, <2>8, <2>9
<1>9. ASSUME NEW p \in Managers, NEW t \in Tasks, AwardTask(p, t) PROVE ProcsOK'
  <2>1. PICK q \in Proc : q = proc[p]
    BY <1>0, <1>b
  <2>2. /\ q.cycle \in Nat /\ q.cycle <= Len(cycles') /\ q.round <= MaxRounds
        /\ q.mine \in [Tasks -> Seq(AnyBid)]
    BY <1>9, <1>b, <1>f, <2>1 DEF Fits, Proc, AwardTask
  <2>3. PICK r : r = [q EXCEPT !.todo = @ \ {t}]
    OBVIOUS
  <2>4. /\ r \in Proc /\ r.pc = q.pc /\ r.cycle = q.cycle /\ r.round = q.round /\ r.mine = q.mine
    BY <2>3 DEF Proc
  <2>5. proc' = [proc EXCEPT ![p] = r] /\ q.pc = "award"
    BY <1>9, <2>1, <2>3 DEF AwardTask
  <2>. QED BY <1>3, <1>b, <2>2, <2>4, <2>5
<1>10. ASSUME NEW p \in Managers, CloseCfps(p) \/ SavePlan(p) PROVE ProcsOK'
  <2>1. PICK q \in Proc : q = proc[p]
    BY <1>0, <1>b
  <2>2. /\ q.cycle \in Nat /\ q.cycle <= Len(cycles') /\ q.round <= MaxRounds
        /\ q.mine \in [Tasks -> Seq(AnyBid)]
    BY <1>10, <1>b, <1>f, <2>1 DEF Fits, Proc, CloseCfps, SavePlan
  <2>3. PICK pc \in {"save", "seed"} : proc' = [proc EXCEPT ![p].pc = pc]
    BY <1>10 DEF CloseCfps, SavePlan
  <2>4. PICK r : r = [q EXCEPT !.pc = pc]
    OBVIOUS
  <2>5. /\ r \in Proc /\ r.pc = pc /\ r.cycle = q.cycle /\ r.round = q.round /\ r.mine = q.mine
    BY <2>4 DEF Proc
  <2>6. proc' = [proc EXCEPT ![p] = r]
    BY <2>1, <2>3, <2>4
  <2>. QED BY <1>3, <1>b, <2>2, <2>3, <2>5, <2>6
<1>11. CASE ProcMoves
  <2>1. ASSUME NEW p \in Bidders,
               ApiDone(p) \/ Finish(p) \/ PlanFails(p) \/ Restart(p) \/ ManagerCrash(p)
        PROVE  ProcsOK'
    BY <1>5, <2>1 DEF ApiDone, Finish, PlanFails, Restart, ManagerCrash
  <2>2. ASSUME NEW p \in Bidders, CycleRaises(p) PROVE ProcsOK'
    <3>1. PICK idle \in Proc : idle = Idle
      BY IdleType
    <3>2. PICK r : r = [idle EXCEPT !.pc = "dead"]
      OBVIOUS
    <3>3. r \in Proc /\ r.pc = "dead" /\ r.cycle = 0 /\ r.round = 0
      BY <3>1, <3>2 DEF Proc, Idle
    <3>4. proc' = [proc EXCEPT ![p] = r]
      BY <2>2, <3>1, <3>2 DEF CycleRaises
    <3>5. r.cycle <= Len(cycles') /\ r.round <= MaxRounds
      BY <1>0, <3>3
    <3>. QED BY <1>3, <3>3, <3>4, <3>5
  <2>. QED BY <1>1, <1>2, <1>4, <1>6, <1>7, <1>8, <1>9, <1>10, <1>11, <1>b, <2>1, <2>2 DEF ProcMoves
<1>12. CASE UNCHANGED proc
  <2>1. ASSUME NEW u \in Bidders PROVE Fits(proc[u])'
    BY <1>12, <1>c, <1>f DEF Fits
  <2>. QED BY <1>0, <1>12, <2>1 DEF ProcsOK
<1>. QED BY <1>11, <1>12, Movers

LEMMA CnpStart == CnpInit => Typed
<1>. SUFFICES ASSUME CnpInit PROVE Typed
  OBVIOUS
<1>1. BoardOK /\ AwardsOK /\ SeqsOK /\ PlansOK /\ CyclesOK /\ BehindOK
  BY DEF CnpInit, BoardOK, AwardsOK, SeqsOK, PlansOK, CyclesOK, BehindOK
<1>2. Idle \in Proc
  BY IdleType
<1>3. Fits(Idle)
  BY CnpConstants, <1>1 DEF CnpInit, Idle, Fits
<1>4. proc = [p \in Bidders |-> Idle]
  BY DEF CnpInit
<1>. QED BY <1>1, <1>2, <1>3, <1>4 DEF Typed, ProcsOK

LEMMA CnpSteps == Typed /\ [CnpNext]_cnpVars => Typed'
<1>. SUFFICES ASSUME Typed, [CnpNext]_cnpVars PROVE Typed'
  OBVIOUS
<1>. QED BY BoardNext, AwardsNext, PlansNext, CyclesNext, ProcsNext, BehindNext DEF Typed

LEMMA CnpTyped == CnpSpec => []Typed
BY CnpStart, CnpSteps, PTL DEF CnpSpec

LEMMA TypedIsType == Typed => CnpTypeOK
<1>. SUFFICES ASSUME Typed PROVE CnpTypeOK
  OBVIOUS
<1>1. ASSUME NEW t \in Tasks
      PROVE  /\ cfps[t] \in Seq([round : Nat \ {0}, status : {"open", "expired", "no_bids", "awarded"}])
             /\ awards[t] \in Seq([bidder : Agents \cup {System}, by : {"builder", "inline", "reforward"}])
             /\ \A n \in DOMAIN seqs[t] : seqs[t][n].idx < Len(seqs[t][n].cands)
  BY DEF Typed, BoardOK, AwardsOK, SeqsOK, Cfp, Award, Bidder
<1>2. ASSUME NEW t \in Tasks, NEW i \in DOMAIN bids[t]
      PROVE  bids[t][i] \in [bidder : Agents \cup {System}, cfp : 0..Len(cfps[t]),
                              score : Scores \cup PostedScores, scoped : BOOLEAN]
  <2>1. bids[t] \in Seq(BidUpTo(Len(cfps[t])))
    BY DEF Typed, BoardOK
  <2>2. bids[t][i] \in BidUpTo(Len(cfps[t]))
    BY <2>1
  <2>. QED BY <2>2 DEF BidUpTo, Bidder
<1>3. cycles \in Seq({"bidding", "awarding", "completed", "failed"}) /\ Len(cycles) \in Nat
  BY DEF Typed, CyclesOK, CycleStatus
<1>4. ASSUME NEW p \in Bidders PROVE proc[p].cycle \in 0..Len(cycles) /\ proc[p].round \in 0..MaxRounds
  <2>1. proc[p] \in Proc /\ Fits(proc[p])
    BY DEF Typed, ProcsOK
  <2>. QED BY <1>3, <2>1, CnpConstants DEF Proc, Fits
<1>. QED BY <1>1, <1>2, <1>3, <1>4 DEF CnpTypeOK

\* Documents, processes and the writes they prepare stay of their types: every
\* bid that blueprint_bidder.run, the API or the forwarder stores is of a known
\* call, and every sequence's index stays inside its candidates.
THEOREM CnpTypeCorrect == CnpSpec => []CnpTypeOK
BY CnpTyped, TypedIsType, PTL

(***************************************************************************)
(* The plan and its evaluation sequences.                                  *)
(***************************************************************************)
LEMMA PlanSteps == Typed /\ PlanMatchesSequence /\ [CnpNext]_cnpVars => PlanMatchesSequence'
<1>. SUFFICES ASSUME Typed, PlanMatchesSequence, [CnpNext]_cnpVars PROVE PlanMatchesSequence'
  OBVIOUS
<1>0. /\ plans \in Seq([Tasks -> Bidder \cup {NoOne}]) /\ Len(plans) \in Nat
      /\ seqs = [t \in Tasks |-> seqs[t]]
  BY DEF Typed, PlansOK, SeqsOK
<1>s. \A t \in Tasks : SeqOK(seqs[t], Len(plans))
  BY SeqsEach DEF Typed
<1>d. DOMAIN plans = 1..Len(plans)
  BY <1>0
<1>1. ASSUME NEW p \in Managers, SavePlan(p) PROVE PlanMatchesSequence'
  <2>1. proc[p].mine \in [Tasks -> Seq(AnyBid)]
    BY <1>1 DEF SavePlan, Typed, ProcsOK, Fits, Bidders
  <2>2. PICK n : n = Len(plans) + 1
    OBVIOUS
  <2>3. PICK plan : plan = [t \in Tasks |-> IF Qualifying(p, t) = {} THEN NoOne
                                            ELSE BestBids(p, t).bidder]
    OBVIOUS
  <2>4. plans' = Append(plans, plan)
    BY <1>1, <2>3 DEF SavePlan
  <2>5. DOMAIN plans' = 1..n /\ plans'[n] = plan /\ \A m \in 1..n : m # n => plans'[m] = plans[m]
    BY <1>0, <2>2, <2>4
  <2>6. ASSUME NEW m \in 1..n, NEW t \in Tasks, m \in DOMAIN seqs'[t]
        PROVE  seqs'[t][m].cands[1] = plans'[m][t]
    <3>1. CASE Len(RankedBids(p, t)) > 1
      <4>1. PICK c : c = RankedBids(p, t)
        OBVIOUS
      <4>2. seqs'[t] = [k \in DOMAIN seqs[t] \cup {n} |->
                          IF k = n THEN [cands |-> c, idx |-> 0] ELSE seqs[t][k]]
        BY <1>1, <2>2, <3>1, <4>1 DEF SavePlan, SaveSequence
      <4>3. CASE m = n
        <5>1. seqs'[t][m].cands = c
          BY <2>6, <4>2, <4>3
        <5>2. Qualifying(p, t) # {}
          <6>1. Cardinality(Qualifying(p, t)) > 1
            BY <2>1, <3>1, RankedType
          <6>2. Cardinality({}) = 0
            BY FS_EmptySet
          <6>. QED BY <6>1, <6>2
        <5>3. c[1] = BestBids(p, t).bidder
          BY <2>1, <4>1, <5>2, FirstIsBest
        <5>. QED BY <2>3, <2>5, <4>3, <5>1, <5>2, <5>3
      <4>4. CASE m # n
        <5>1. m \in DOMAIN seqs[t] /\ seqs'[t][m] = seqs[t][m]
          BY <2>6, <4>2, <4>4
        <5>2. m \in DOMAIN plans
          BY <1>0, <1>d, <2>2, <4>4
        <5>. QED BY <2>5, <4>4, <5>1, <5>2 DEF PlanMatchesSequence
      <4>. QED BY <4>3, <4>4
    <3>2. CASE ~(Len(RankedBids(p, t)) > 1)
      <4>1. seqs'[t] = seqs[t]
        BY <1>1, <3>2 DEF SavePlan
      <4>2. m \in 0..Len(plans)
        BY <1>s, <2>6, <4>1 DEF SeqOK
      <4>3. m \in DOMAIN plans /\ m # n
        BY <1>0, <1>d, <2>2, <4>2
      <4>. QED BY <2>5, <2>6, <4>1, <4>3 DEF PlanMatchesSequence
    <3>. QED BY <3>1, <3>2
  <2>. QED BY <2>5, <2>6 DEF PlanMatchesSequence
<1>2. ASSUME UNCHANGED plans,
             \A t \in Tasks : \A k \in DOMAIN seqs'[t] : k # InlinePlan =>
               k \in DOMAIN seqs[t] /\ seqs'[t][k].cands = seqs[t][k].cands
      PROVE  PlanMatchesSequence'
  <2>1. \A n \in DOMAIN plans : n # InlinePlan
    BY <1>d DEF InlinePlan
  <2>. QED BY <1>2, <2>1 DEF PlanMatchesSequence
<1>3. ASSUME NEW t \in Tasks, ResolveCompetingService(t) PROVE PlanMatchesSequence'
  <2>1. PICK rank : seqs' = [seqs EXCEPT ![t] = SaveSequence(seqs[t], InlinePlan, rank)]
    BY <1>3, InlineType
  <2>2. PICK sq : sq = SaveSequence(seqs[t], InlinePlan, rank)
    OBVIOUS
  <2>3. \A k \in DOMAIN sq : k # InlinePlan => k \in DOMAIN seqs[t] /\ sq[k].cands = seqs[t][k].cands
    BY <2>2 DEF SaveSequence
  <2>4. UNCHANGED plans
    BY <1>3 DEF ResolveCompetingService
  <2>5. seqs'[t] = sq /\ \A u \in Tasks \ {t} : seqs'[u] = seqs[u]
    BY <1>0, <2>1, <2>2
  <2>. QED BY <1>2, <2>3, <2>4, <2>5
<1>4. ASSUME NEW t \in Tasks, NEW n \in DOMAIN seqs[t], Reforward(t, n) PROVE PlanMatchesSequence'
  <2>1. UNCHANGED plans
    BY <1>4 DEF Reforward
  <2>2. PICK sq : /\ seqs' = [seqs EXCEPT ![t] = sq] /\ DOMAIN sq = DOMAIN seqs[t]
                  /\ \A k \in DOMAIN sq : sq[k].cands = seqs[t][k].cands
    BY <1>4, MovedSequence
  <2>3. seqs'[t] = sq /\ \A u \in Tasks \ {t} : seqs'[u] = seqs[u]
    BY <1>0, <2>2
  <2>. QED BY <1>2, <2>1, <2>2, <2>3
<1>5. CASE PlanMoves
  BY <1>1, <1>3, <1>4, <1>5 DEF PlanMoves
<1>6. CASE UNCHANGED <<seqs, plans>>
  BY <1>6 DEF PlanMatchesSequence
<1>. QED BY <1>5, <1>6, Movers

\* The agent a plan assigns (_best_bids) is the first candidate of the task's
\* evaluation sequence (_ranked_bids), for any scores, number of bids and
\* candidates, with any number of managers, inline resolutions and re-forwards.
THEOREM AssignedIsFirst == CnpSpec => []PlanMatchesSequence
<1>1. CnpInit => PlanMatchesSequence
  BY DEF CnpInit, PlanMatchesSequence
<1>. QED BY <1>1, CnpTyped, PlanSteps, PTL DEF CnpSpec

(***************************************************************************)
(* One award of the graph builder.                                         *)
(***************************************************************************)
OneManager == \A p, q \in Managers : p = q

\* The awards of a task that are the builder's.
Builders(t) == {i \in DOMAIN awards[t] : awards[t][i].by = "builder"}

\* The builder goes on to award what it has not awarded yet, but for the lists that
\* did not show its award.
NothingYet ==
  \A p \in Managers : proc[p].pc = "award" =>
    \A t \in proc[p].todo \ proc[p].has : Cardinality(Builders(t)) <= behind[t].plan

AwardInv == AwardOnce /\ NothingYet

\* Only Look and OpenCfps lead to work on a task, only reading the plan's inputs and
\* awarding a task to the award phase.
Quiet == {"idle", "look", "bidden", "read", "save", "seed", "dead"}
Moves(p) ==
  \/ (\E t \in Tasks : Look(p, t)) \/ OpenCfps(p)
  \/ p \in Managers /\ (ReadForPlan(p) \/ \E t \in Tasks : AwardTask(p, t))

LEMMA Moved ==
  ASSUME Typed, [CnpNext]_cnpVars
  PROVE  \A p \in Bidders : proc'[p] = proc[p] \/ proc'[p].pc \in Quiet \/ Moves(p)
<1>0. proc \in [Bidders -> Proc] /\ Managers \subseteq Bidders
  BY DEF Typed, ProcsOK, Bidders
<1>. DEFINE Others(u) == \A v \in Bidders \ {u} : proc'[v] = proc[v]
            Goal == \A p \in Bidders : proc'[p] = proc[p] \/ proc'[p].pc \in Quiet \/ Moves(p)
<1>1. ASSUME NEW u \in Bidders, (\E t \in Tasks : Look(u, t)) \/ OpenCfps(u) PROVE Goal
  <2>1. Others(u)
    <3>1. ASSUME NEW t \in Tasks, Look(u, t) PROVE Others(u)
      <4>1. PICK shown, O : Looks(u, t, shown, O)
        BY <3>1, LookShape
      <4>2. PICK r : r = Looked(proc[u], t, Part(bids[t], shown), O)
        OBVIOUS
      <4>. QED BY <1>0, <4>1, <4>2 DEF Looks
    <3>2. CASE OpenCfps(u)
      <4>1. PICK O : proc' = [proc EXCEPT ![u].pc = "place", ![u].open = O]
        BY <3>2, OpenShape DEF Opened
      <4>. QED BY <1>0, <4>1
    <3>. QED BY <1>1, <3>1, <3>2
  <2>. QED BY <1>1, <2>1 DEF Moves
<1>2. ASSUME NEW u \in Managers, ReadForPlan(u) \/ \E t \in Tasks : AwardTask(u, t) PROVE Goal
  <2>1. Others(u)
    <3>1. CASE ReadForPlan(u)
      <4>1. PICK missed, B, O : proc' = [proc EXCEPT ![u] = PlanRead(@, B, O, AlreadyAwarded \ missed)]
        BY <1>0, <3>1, ReadShape
      <4>2. PICK r : r = PlanRead(proc[u], B, O, AlreadyAwarded \ missed)
        OBVIOUS
      <4>. QED BY <1>0, <4>1, <4>2
    <3>2. CASE \E t \in Tasks : AwardTask(u, t)
      BY <1>0, <3>2 DEF AwardTask
    <3>. QED BY <1>2, <3>1, <3>2
  <2>. QED BY <1>2, <2>1 DEF Moves
<1>3. ASSUME NEW u \in Bidders, Place(u) \/ BidderFails(u) \/ ApiBid(u) PROVE proc'[u].pc \in Quiet /\ Others(u)
  <2>1. proc[u] \in Proc
    BY <1>0
  <2>2. CASE Place(u)
    <3>. DEFINE next == IF proc[u].todo = {} THEN "bidden" ELSE "look"
    <3>1. proc' = [proc EXCEPT ![u].pc = next, ![u].task = NoOne, ![u].seen = <<>>, ![u].open = {}]
      BY ONLY <2>2, Zenon DEF Place
    <3>2. next \in Quiet
      BY DEF Quiet
    <3>. HIDE DEF next
    <3>. QED BY <1>0, <2>1, <3>1, <3>2 DEF Proc
  <2>3. CASE BidderFails(u) \/ ApiBid(u)
    BY <1>0, <2>1, <2>3 DEF BidderFails, ApiBid, Proc, Quiet
  <2>. QED BY <1>3, <2>2, <2>3
<1>4. ASSUME NEW u \in Managers, EndRound(u) \/ CloseCfps(u) \/ SavePlan(u) \/ StartCycle(u)
      PROVE  proc'[u].pc \in Quiet /\ Others(u)
  <2>1. proc[u] \in Proc
    BY <1>0
  <2>2. CASE EndRound(u)
    BY <1>0, <2>1, <2>2 DEF EndRound, NextRound, Proc, Quiet
  <2>3. CASE CloseCfps(u) \/ SavePlan(u)
    <3>1. proc' = [proc EXCEPT ![u].pc = "save"] \/ proc' = [proc EXCEPT ![u].pc = "seed"]
      BY <2>3 DEF CloseCfps, SavePlan
    <3>. QED BY <1>0, <2>1, <3>1 DEF Proc, Quiet
  <2>4. CASE StartCycle(u)
    BY <1>0, <2>1, <2>4, IdleType DEF StartCycle, Proc, Quiet
  <2>. QED BY <1>4, <2>2, <2>3, <2>4
<1>5. ASSUME NEW u \in Bidders,
             ApiDone(u) \/ Finish(u) \/ PlanFails(u) \/ CycleRaises(u) \/ Restart(u) \/ ManagerCrash(u)
      PROVE  proc'[u].pc \in Quiet /\ Others(u)
  <2>1. proc' = [proc EXCEPT ![u] = Idle] \/ proc' = [proc EXCEPT ![u] = [Idle EXCEPT !.pc = "dead"]]
    BY <1>5 DEF ApiDone, Finish, PlanFails, CycleRaises, Restart, ManagerCrash
  <2>2. Idle.pc \in Quiet /\ [Idle EXCEPT !.pc = "dead"].pc \in Quiet
    BY DEF Idle, Quiet
  <2>. QED BY <1>0, <2>1, <2>2
<1>6. CASE ProcMoves
  <2>1. ASSUME NEW u \in Bidders, proc'[u].pc \in Quiet, Others(u) PROVE Goal
    BY <2>1
  <2>. HIDE DEF Goal, Others
  <2>2. Goal
    BY <1>0, <1>1, <1>2, <1>3, <1>4, <1>5, <1>6, <2>1 DEF ProcMoves
  <2>. QED BY <2>2 DEF Goal
<1>. QED BY <1>6, Movers

LEMMA AwardSteps == ASSUME OneManager PROVE Typed /\ AwardInv /\ [CnpNext]_cnpVars => AwardInv'
<1>. SUFFICES ASSUME Typed, AwardInv, [CnpNext]_cnpVars PROVE AwardInv'
  OBVIOUS
<1>0. /\ awards \in [Tasks -> Seq(Award)] /\ proc \in [Bidders -> Proc] /\ Managers \subseteq Bidders
  BY DEF Typed, AwardsOK, ProcsOK, Bidders
<1>b. ASSUME NEW t \in Tasks
      PROVE  /\ behind[t].plan \in Nat /\ behind'[t].plan \in Nat /\ behind[t].plan <= behind'[t].plan
             /\ IsFiniteSet(Builders(t)) /\ Cardinality(Builders(t)) \in Nat
  <2>1. PICK s \in Seq(Award) : s = awards[t]
    BY <1>0
  <2>2. IsFiniteSet(DOMAIN s) /\ Builders(t) \in SUBSET DOMAIN s
    BY <2>1, FS_Interval DEF Builders
  <2>3. behind \in [Tasks -> [look : Nat, plan : Nat]] /\ behind' \in [Tasks -> [look : Nat, plan : Nat]]
    BY BehindNext DEF Typed, BehindOK
  <2>. QED BY <2>2, <2>3, LagNext, FS_Subset, FS_CardinalityType
<1>o. AwardOnce <=> \A t \in Tasks : Cardinality(Builders(t)) <= 1 + behind[t].plan
  BY DEF AwardOnce, Builders
<1>p. ASSUME \A t \in Tasks : Cardinality(Builders(t)') <= 1 + behind'[t].plan PROVE AwardOnce'
  BY <1>p DEF AwardOnce, Builders
\* While no award of the builder is added, only what it goes on to award matters.
<1>k. ASSUME \A t \in Tasks : Builders(t)' \in SUBSET Builders(t)
      PROVE  /\ AwardOnce'
             /\ \A t \in Tasks : Cardinality(Builders(t)') \in Nat
             /\ \A t \in Tasks : Cardinality(Builders(t)) <= behind[t].plan
                                => Cardinality(Builders(t)') <= behind'[t].plan
  <2>1. ASSUME NEW t \in Tasks
        PROVE  Cardinality(Builders(t)') \in Nat /\ Cardinality(Builders(t)') <= Cardinality(Builders(t))
    BY <1>b, <1>k, FS_Subset, FS_CardinalityType
  <2>2. ASSUME NEW t \in Tasks
        PROVE  /\ Cardinality(Builders(t)') <= 1 + behind'[t].plan
               /\ Cardinality(Builders(t)) <= behind[t].plan
                                => Cardinality(Builders(t)') <= behind'[t].plan
    <3>1. Cardinality(Builders(t)) <= 1 + behind[t].plan
      BY <1>o DEF AwardInv
    <3>. QED BY <1>b, <2>1, <3>1
  <2>. QED BY <1>p, <2>1, <2>2
<1>1. ASSUME NEW t \in Tasks, NEW a, NEW by, AddAward(t, a, by)
      PROVE  /\ \A u \in Tasks \ {t} : awards'[u] = awards[u]
             /\ Len(awards[t]) \in Nat /\ DOMAIN awards[t] = 1..Len(awards[t])
             /\ DOMAIN awards'[t] = 1..(Len(awards[t]) + 1)
             /\ \A i \in DOMAIN awards[t] : awards'[t][i] = awards[t][i]
             /\ awards'[t][Len(awards[t]) + 1].by = by
  <2>1. PICK w, s : w = [bidder |-> a, by |-> by] /\ s = awards[t]
    OBVIOUS
  <2>2. s \in Seq(Award) /\ awards' = [awards EXCEPT ![t] = Append(s, w)]
    BY <1>0, <1>1, <2>1 DEF AddAward
  <2>3. awards'[t] = Append(s, w) /\ \A u \in Tasks \ {t} : awards'[u] = awards[u]
    BY <1>0, <2>2
  <2>4. /\ DOMAIN s = 1..Len(s) /\ Len(s) \in Nat /\ DOMAIN Append(s, w) = 1..(Len(s) + 1)
        /\ \A i \in DOMAIN s : Append(s, w)[i] = s[i]
        /\ Append(s, w)[Len(s) + 1] = w
    BY <2>2
  <2>. QED BY <2>1, <2>3, <2>4
\* An award by others takes nothing from the invariant.
<1>2. ASSUME NEW t \in Tasks, NEW a, NEW by, by # "builder", AddAward(t, a, by), UNCHANGED proc
      PROVE  AwardInv'
  <2>1. ASSUME NEW u \in Tasks, NEW i \in DOMAIN awards'[u], awards'[u][i].by = "builder"
        PROVE  i \in DOMAIN awards[u] /\ awards[u][i].by = "builder"
    <3>1. CASE u = t
      <4>1. i # Len(awards[t]) + 1
        BY <1>1, <1>2, <2>1, <3>1
      <4>2. i \in DOMAIN awards[t]
        BY <1>1, <1>2, <2>1, <3>1, <4>1
      <4>. QED BY <1>1, <1>2, <2>1, <3>1, <4>2
    <3>2. CASE u # t
      BY <1>1, <1>2, <2>1, <3>2
    <3>. QED BY <3>1, <3>2
  <2>2. \A u \in Tasks : Builders(u)' \in SUBSET Builders(u)
    BY <2>1 DEF Builders
  <2>3. NothingYet'
    <3>1. ASSUME NEW p \in Managers, proc[p].pc = "award", NEW u \in proc[p].todo \ proc[p].has
          PROVE  Cardinality(Builders(u)') <= behind'[u].plan
      <4>1. u \in Tasks
        BY <1>0, <3>1 DEF Proc
      <4>. QED BY <1>k, <2>2, <3>1, <4>1 DEF AwardInv, NothingYet
    <3>. QED BY <1>2, <3>1 DEF NothingYet
  <2>. QED BY <1>k, <2>2, <2>3 DEF AwardInv
<1>3. ASSUME NEW p \in Managers, NEW t \in Tasks, AwardTask(p, t) PROVE AwardInv'
  <2>1. /\ proc[p].pc = "award" /\ t \in proc[p].todo /\ proc' = [proc EXCEPT ![p].todo = @ \ {t}]
        /\ UNCHANGED behind
    BY <1>3 DEF AwardTask
  <2>2. proc[p] \in Proc /\ \A q \in Managers : q = p
    BY <1>0 DEF OneManager
  <2>3. proc'[p].pc = "award" /\ proc'[p].todo = proc[p].todo \ {t} /\ proc'[p].has = proc[p].has
    BY <1>0, <2>1, <2>2 DEF Proc
  <2>4. proc[p].todo \subseteq Tasks
    BY <2>2 DEF Proc
  <2>n. ASSUME NEW u \in proc'[p].todo \ proc'[p].has PROVE u # t /\ Cardinality(Builders(u)) <= behind[u].plan
    BY <2>1, <2>3, <2>n DEF AwardInv, NothingYet
  <2>5. CASE UNCHANGED awards
    <3>1. \A u \in Tasks : Builders(u)' = Builders(u)
      BY <2>5 DEF Builders
    <3>2. NothingYet'
      BY <2>1, <2>2, <2>n, <3>1, <2>3, <2>4 DEF NothingYet
    <3>. QED BY <1>k, <3>1, <3>2 DEF AwardInv
  <2>6. CASE ~UNCHANGED awards
    <3>1. t \notin proc[p].has /\ \E a : AddAward(t, a, "builder")
      BY <1>3, <2>6 DEF AwardTask
    <3>2. PICK a : AddAward(t, a, "builder")
      BY <3>1
    <3>3. Cardinality(Builders(t)) <= behind[t].plan
      BY <2>1, <3>1 DEF AwardInv, NothingYet
    <3>4. Builders(t)' = Builders(t) \cup {Len(awards[t]) + 1} /\ Len(awards[t]) + 1 \notin Builders(t)
      BY <1>1, <3>2 DEF Builders
    <3>5. Cardinality(Builders(t)') = Cardinality(Builders(t)) + 1
      BY <1>b, <3>4, FS_AddElement
    <3>6. \A u \in Tasks \ {t} : Builders(u)' = Builders(u)
      BY <1>1, <3>2 DEF Builders
    <3>7. AwardOnce'
      <4>1. ASSUME NEW u \in Tasks PROVE Cardinality(Builders(u)') <= 1 + behind'[u].plan
        <5>1. CASE u = t
          BY <1>b, <2>1, <3>3, <3>5, <5>1
        <5>2. CASE u # t
          BY <1>o, <2>1, <3>6, <5>2 DEF AwardInv
        <5>. QED BY <5>1, <5>2
      <4>. QED BY <1>p, <4>1
    <3>8. NothingYet'
      BY <2>1, <2>2, <2>3, <2>4, <2>n, <3>6 DEF NothingYet
    <3>. QED BY <3>7, <3>8 DEF AwardInv
  <2>. QED BY <2>5, <2>6
<1>4. ASSUME NEW p \in Managers, ReadForPlan(p) PROVE AwardInv'
  <2>1. PICK missed \in SUBSET AlreadyAwarded, B \in [Tasks -> Seq(AnyBid)], O \in SUBSET (Tasks \X Nat) :
           /\ behind' = [t \in Tasks |->
                IF t \in missed THEN [behind[t] EXCEPT !.plan = @ + 1] ELSE behind[t]]
           /\ proc' = [proc EXCEPT ![p] = PlanRead(@, B, O, AlreadyAwarded \ missed)]
    BY <1>0, <1>4, ReadShape
  <2>2. proc'[p].has = AlreadyAwarded \ missed /\ proc'[p].todo = Tasks
    <3>1. PICK q \in Proc : q = proc[p]
      BY <1>0
    <3>2. proc'[p] = PlanRead(q, B, O, AlreadyAwarded \ missed)
      BY <1>0, <2>1, <3>1
    <3>. QED BY <3>2 DEF PlanRead, Proc
  <2>3. UNCHANGED awards
    BY <1>4 DEF ReadForPlan, awardVars
  <2>4. \A t \in Tasks : Builders(t)' = Builders(t)
    BY <2>3 DEF Builders
  <2>5. ASSUME NEW t \in Tasks, t \notin AlreadyAwarded \ missed
        PROVE  Cardinality(Builders(t)') <= behind'[t].plan
    <3>1. CASE t \in missed
      <4>1. behind'[t].plan = behind[t].plan + 1
        <5>1. PICK b \in [look : Nat, plan : Nat] : b = behind[t]
          BY DEF Typed, BehindOK
        <5>2. behind'[t] = [b EXCEPT !.plan = b.plan + 1]
          BY <2>1, <3>1, <5>1
        <5>. QED BY <5>1, <5>2
      <4>. QED BY <1>b, <1>o, <2>4, <4>1 DEF AwardInv
    <3>2. CASE t \notin missed
      <4>1. Builders(t) = {}
        BY <2>5, <3>2 DEF AlreadyAwarded, Builders
      <4>. QED BY <1>b, <2>4, <4>1, FS_EmptySet
    <3>. QED BY <3>1, <3>2
  <2>6. \A q \in Managers : q = p
    BY DEF OneManager
  <2>7. NothingYet'
    BY <2>2, <2>5, <2>6 DEF NothingYet
  <2>. QED BY <1>k, <2>4, <2>7 DEF AwardInv
<1>5. ASSUME UNCHANGED awards, \A p \in Managers : ~ReadForPlan(p) /\ \A t \in Tasks : ~AwardTask(p, t)
      PROVE  AwardInv'
  <2>1. \A p \in Managers : proc'[p].pc = "award" => proc'[p] = proc[p]
    <3>. SUFFICES ASSUME NEW p \in Managers, proc'[p].pc = "award" PROVE proc'[p] = proc[p]
      OBVIOUS
    <3>1. p \in Bidders /\ proc[p] \in Proc
      BY <1>0
    <3>2. proc'[p].pc \notin Quiet
      BY DEF Quiet
    <3>3. ~(\E t \in Tasks : Look(p, t))
      <4>1. ASSUME NEW t \in Tasks, Look(p, t) PROVE FALSE
        <5>1. PICK shown, O : Looks(p, t, shown, O)
          BY <3>1, <4>1, LookShape
        <5>2. PICK r \in Proc : r = proc[p]
          BY <3>1
        <5>3. proc'[p] = Looked(r, t, Part(bids[t], shown), O)
          BY <1>0, <3>1, <5>1, <5>2 DEF Looks
        <5>4. proc'[p].pc = "open"
          BY <5>3 DEF Proc, Looked
        <5>. QED BY <5>4
      <4>. QED BY <4>1
    <3>4. ~OpenCfps(p)
      <4>1. ASSUME OpenCfps(p) PROVE FALSE
        <5>1. PICK O : proc' = [proc EXCEPT ![p].pc = "place", ![p].open = O]
          BY <3>1, <4>1, OpenShape DEF Opened
        <5>. QED BY <1>0, <3>1, <5>1 DEF Proc
      <4>. QED BY <4>1
    <3>. QED BY <1>5, <3>1, <3>2, <3>3, <3>4, Moved DEF Moves
  <2>2. \A t \in Tasks : Builders(t)' = Builders(t)
    BY <1>5 DEF Builders
  <2>3. NothingYet'
    <3>1. ASSUME NEW p \in Managers, proc'[p].pc = "award", NEW u \in proc'[p].todo \ proc'[p].has
          PROVE  Cardinality(Builders(u)') <= behind'[u].plan
      <4>1. proc'[p] = proc[p] /\ u \in Tasks
        BY <1>0, <2>1, <3>1 DEF Proc
      <4>. QED BY <1>k, <2>2, <3>1, <4>1 DEF AwardInv, NothingYet
    <3>. QED BY <3>1 DEF NothingYet
  <2>. QED BY <1>k, <2>2, <2>3 DEF AwardInv
<1>6. ASSUME NEW t \in Tasks, ResolveCompetingService(t) PROVE AwardInv'
  <2>1. UNCHANGED proc /\ \E a : AddAward(t, a, "inline")
    BY <1>6 DEF ResolveCompetingService
  <2>. QED BY <1>2, <2>1
<1>7. ASSUME NEW t \in Tasks, NEW n \in DOMAIN seqs[t], Reforward(t, n) PROVE AwardInv'
  <2>1. UNCHANGED proc /\ \E a : AddAward(t, a, "reforward")
    BY <1>7 DEF Reforward
  <2>. QED BY <1>2, <2>1
<1>8. CASE AwardMoves
  BY <1>3, <1>6, <1>7, <1>8 DEF AwardMoves
<1>. QED BY <1>3, <1>4, <1>5, <1>8, Movers

\* While one manager runs the cycle, build_plan_draft awards a task at most once,
\* through crashes, repeated commands, inline awards and re-forwards, and once more
\* for every list of awards that did not show its award: it reads the awards before
\* it goes on, and nobody else writes one in its name.
THEOREM BuilderAwardsOnce == ASSUME OneManager PROVE CnpSpec => []AwardOnce
<1>1. CnpInit => AwardInv
  <2>. SUFFICES ASSUME CnpInit PROVE AwardInv
    OBVIOUS
  <2>1. \A t \in Tasks : awards[t] = <<>> /\ behind[t].plan = 0
    BY DEF CnpInit
  <2>2. AwardOnce
    <3>1. ASSUME NEW t \in Tasks
          PROVE  Cardinality({i \in DOMAIN awards[t] : awards[t][i].by = "builder"}) <= 1 + behind[t].plan
      <4>1. {i \in DOMAIN awards[t] : awards[t][i].by = "builder"} = {}
        BY <2>1
      <4>2. Cardinality({}) = 0 /\ 0 <= 1 + behind[t].plan
        BY <2>1, FS_EmptySet
      <4>. QED BY <4>1, <4>2
    <3>. QED BY <3>1 DEF AwardOnce
  <2>3. NothingYet
    BY DEF CnpInit, NothingYet, Idle, Bidders
  <2>. QED BY <2>2, <2>3 DEF AwardInv
<1>2. AwardInv => AwardOnce
  BY DEF AwardInv
<1>. QED BY <1>1, <1>2, CnpTyped, AwardSteps, PTL DEF CnpSpec

(***************************************************************************)
(* How far bidders that race can go.                                       *)
(***************************************************************************)
\* A set of numbers whose elements have owners of at most m elements each has at
\* most m elements for every owner.
LEMMA OwnersBound ==
  ASSUME NEW K \in SUBSET Nat, IsFiniteSet(K), NEW W, IsFiniteSet(W), NEW m \in Nat,
         NEW g \in [K -> W], \A w \in W : Cardinality({k \in K : g[k] = w}) <= m
  PROVE  Cardinality(K) <= m * Cardinality(W)
<1>. DEFINE Upto(k) == {j \in K : g[j] = g[k] /\ j <= k}
<1>1. PICK f : f = [k \in K |-> <<g[k], Cardinality(Upto(k))>>]
  OBVIOUS
<1>2. ASSUME NEW k \in K
      PROVE  IsFiniteSet(Upto(k)) /\ Cardinality(Upto(k)) \in 1..m
  <2>1. PICK A : A = {j \in K : g[j] = g[k]}
    OBVIOUS
  <2>2. IsFiniteSet(A) /\ Cardinality(A) \in Nat /\ Cardinality(A) <= m
    <3>1. A \in SUBSET K
      BY <2>1
    <3>2. IsFiniteSet(A)
      BY <3>1, FS_Subset
    <3>3. g[k] \in W
      OBVIOUS
    <3>. QED BY <2>1, <3>2, <3>3, FS_CardinalityType
  <2>3. Upto(k) \in SUBSET A /\ k \in Upto(k)
    BY <2>1
  <2>. HIDE DEF Upto
  <2>4. IsFiniteSet(Upto(k)) /\ Cardinality(Upto(k)) <= Cardinality(A)
    BY <2>2, <2>3, FS_Subset
  <2>5. Cardinality(Upto(k)) \in Nat /\ Cardinality(Upto(k)) # 0
    BY <2>3, <2>4, FS_CardinalityType, FS_EmptySet
  <2>. QED BY <2>2, <2>4, <2>5
<1>3. ASSUME NEW j \in K, NEW k \in K, g[j] = g[k], j < k
      PROVE  Cardinality(Upto(j)) # Cardinality(Upto(k))
  <2>1. Upto(j) \in SUBSET Upto(k)
    <3>1. \A x \in K : x \in Nat /\ (x <= j => x <= k)
      BY <1>3
    <3>. QED BY <1>3, <3>1
  <2>2. k \in Upto(k) /\ k \notin Upto(j)
    BY <1>3
  <2>3. IsFiniteSet(Upto(k))
    BY <1>2
  <2>. HIDE DEF Upto
  <2>. QED BY <2>1, <2>2, <2>3, FS_Subset
<1>. HIDE DEF Upto
<1>4. f \in Injection(K, W \X (1..m))
  <2>1. f \in [K -> W \X (1..m)]
    BY <1>1, <1>2
  <2>2. ASSUME NEW j \in K, NEW k \in K, f[j] = f[k] PROVE j = k
    <3>1. g[j] = g[k] /\ Cardinality(Upto(j)) = Cardinality(Upto(k))
      BY <1>1, <2>2
    <3>2. ~(j < k) /\ ~(k < j)
      BY <1>3, <3>1
    <3>. QED BY <3>2
  <2>. QED BY <2>1, <2>2 DEF Injection, IsInjective
<1>5. IsFiniteSet(1..m) /\ Cardinality(1..m) = m
  BY FS_Interval
<1>6. /\ IsFiniteSet(W \X (1..m))
      /\ Cardinality(W \X (1..m)) = Cardinality(W) * m
  BY <1>5, FS_Product
<1>7. Cardinality(K) <= Cardinality(W) * m
  BY <1>4, <1>6, FS_Injection
<1>8. Cardinality(W) \in Nat
  BY FS_CardinalityType
<1>. QED BY <1>7, <1>8

\* Appended bids are counted once.
LEMMA CountNew ==
  ASSUME NEW s \in Seq(AnyBid), NEW new \in Seq(AnyBid), NEW i,
         NEW K \in SUBSET DOMAIN (s \o new),
         \A k \in K : k \notin DOMAIN s /\ (s \o new)[k].cfp = i
  PROVE  IsFiniteSet(K) /\ Cardinality(K) \in Nat /\ Cardinality(K) <= CfpCount(new, i)
<1>1. PICK T : T = {j \in DOMAIN new : new[j].cfp = i}
  OBVIOUS
<1>2. IsFiniteSet(T)
  <2>1. IsFiniteSet(DOMAIN new) /\ T \in SUBSET DOMAIN new
    BY <1>1, FS_Interval
  <2>. QED BY <2>1, FS_Subset
<1>3. PICK f : f = [k \in K |-> k - Len(s)]
  OBVIOUS
<1>4. \A k \in K : k - Len(s) \in T
  <2>1. ASSUME NEW k \in K PROVE k - Len(s) \in DOMAIN new /\ (s \o new)[k] = new[k - Len(s)]
    <3>1. k \in 1..(Len(s) + Len(new)) /\ k \notin 1..Len(s)
      OBVIOUS
    <3>. QED BY <3>1
  <2>. QED BY <1>1, <2>1
<1>5. f \in Injection(K, T)
  <2>1. f \in [K -> T]
    BY <1>3, <1>4
  <2>2. \A j, k \in K : f[j] = f[k] => j = k
    BY <1>3
  <2>. QED BY <2>1, <2>2 DEF Injection, IsInjective
<1>6. IsFiniteSet(K) /\ Cardinality(K) <= Cardinality(T)
  BY <1>2, <1>5, FS_Injection
<1>. QED BY <1>1, <1>6, FS_CardinalityType DEF CfpCount

LEMMA CountJoin ==
  ASSUME NEW s \in Seq(AnyBid), NEW new \in Seq(AnyBid), NEW i
  PROVE  CfpCount(s \o new, i) <= CfpCount(s, i) + CfpCount(new, i)
<1>1. PICK A, B : /\ A = {j \in DOMAIN s : s[j].cfp = i}
                  /\ B = {j \in DOMAIN (s \o new) : j \notin DOMAIN s /\ (s \o new)[j].cfp = i}
  OBVIOUS
<1>2. IsFiniteSet(A) /\ Cardinality(A) = CfpCount(s, i) /\ CfpCount(s, i) \in Nat
  <2>1. IsFiniteSet(DOMAIN s) /\ A \in SUBSET DOMAIN s
    BY <1>1, FS_Interval
  <2>. QED BY <1>1, <2>1, FS_Subset, CountType DEF CfpCount
<1>3. IsFiniteSet(B) /\ Cardinality(B) \in Nat /\ Cardinality(B) <= CfpCount(new, i)
  <2>1. B \in SUBSET DOMAIN (s \o new) /\ \A k \in B : k \notin DOMAIN s /\ (s \o new)[k].cfp = i
    BY <1>1
  <2>. QED BY <2>1, CountNew
<1>4. {j \in DOMAIN (s \o new) : (s \o new)[j].cfp = i} = A \cup B
  <2>1. \A j \in DOMAIN s : j \in DOMAIN (s \o new) /\ (s \o new)[j] = s[j]
    OBVIOUS
  <2>. QED BY <1>1, <2>1
<1>5. CfpCount(s \o new, i) = Cardinality(A \cup B)
  BY <1>4 DEF CfpCount
<1>6. Cardinality(A \cup B) = Cardinality(A) + Cardinality(B) - Cardinality(A \cap B)
  BY <1>2, <1>3, FS_Union
<1>7. Cardinality(A \cap B) \in Nat
  <2>1. A \cap B \in SUBSET A
    OBVIOUS
  <2>. QED BY <1>2, <2>1, FS_Subset, FS_CardinalityType
<1>8. CfpCount(new, i) \in Nat
  BY CountType
<1>. QED BY <1>2, <1>3, <1>5, <1>6, <1>7, <1>8

\* All the bids that a bidder places on a call fit in the slots it has seen.
LEMMA BidsOnCount ==
  ASSUME NEW C \in SUBSET Bidder, NEW m \in Nat, NEW rank \in [1..m -> C], NEW score \in [C -> Scores],
         NEW seen \in Seq(AnyBid), NEW n \in Nat \ {0}, NEW S, NEW i
  PROVE  /\ BidsOn(rank, score, seen, S, n) \in Seq(AnyBid)
         /\ CfpCount(BidsOn(rank, score, seen, S, n), i) <= Slots(seen, i)
<1>1. PICK X : X = [j \in 1..n |-> IF j \in S THEN NewBids(rank, score, seen, j) ELSE <<>>]
  OBVIOUS
<1>2. PICK slots : slots = Slots(seen, i)
  OBVIOUS
<1>3. slots \in Nat
  BY <1>2, SlotsType
<1>4. ASSUME NEW j \in 1..n
      PROVE  X[j] \in Seq(AnyBid) /\ CfpCount(X[j], i) <= slots /\ (j # i => CfpCount(X[j], i) = 0)
  <2>1. CASE j \in S
    <3>1. PICK b : b = NewBids(rank, score, seen, j)
      OBVIOUS
    <3>2. b \in Seq(BidUpTo(n)) /\ Len(b) <= Slots(seen, j) /\ \A k \in DOMAIN b : b[k].cfp = j
      <4>1. j \in 0..n /\ n \in Nat
        OBVIOUS
      <4>2. b \in Seq(BidUpTo(n)) /\ Fill(b, seen, j)
        BY <3>1, <4>1, NewBidsType
      <4>. QED BY <4>2 DEF Fill
    <3>3. b \in Seq(AnyBid)
      BY <3>2, BidsLater
    <3>4. CfpCount(b, i) \in Nat /\ CfpCount(b, i) <= Len(b) /\ (j # i => CfpCount(b, i) = 0)
      BY <3>2, <3>3, CountType
    <3>5. X[j] = b
      BY <1>1, <2>1, <3>1
    <3>6. CfpCount(b, i) <= slots
      BY <1>2, <1>3, <3>2, <3>3, <3>4
    <3>. QED BY <3>3, <3>4, <3>5, <3>6
  <2>2. CASE j \notin S
    <3>1. <<>> \in Seq(AnyBid) /\ DOMAIN <<>> = {}
      OBVIOUS
    <3>2. CfpCount(<<>>, i) = 0
      BY <3>1, CountType
    <3>3. X[j] = <<>>
      BY <1>1, <2>2
    <3>. QED BY <1>3, <3>1, <3>2, <3>3
  <2>. QED BY <2>1, <2>2
<1>5. X \in [1..n -> Seq(AnyBid)]
  BY <1>1, <1>4
<1>6. PICK c : FlattenSeq(X) = c[n] /\ Joined(c, X, n)
  BY <1>5, FlattenJoins
<1>7. PICK G : G = {k \in 1..n : /\ c[k] \in Seq(AnyBid) /\ CfpCount(c[k], i) <= slots
                                 /\ (k < i \/ i \notin 1..n) => CfpCount(c[k], i) = 0}
  OBVIOUS
<1>8. 1 \in G
  <2>1. c[1] = X[1] /\ 1 \in 1..n
    BY <1>6 DEF Joined
  <2>2. (1 < i \/ i \notin 1..n) => 1 # i
    OBVIOUS
  <2>. QED BY <1>4, <1>7, <2>1, <2>2
<1>9. ASSUME NEW k \in 1..n, k \in G, k + 1 <= n PROVE k + 1 \in G
  <2>1. k + 1 \in 1..n /\ k + 1 # 1 /\ (k + 1) - 1 = k
    BY <1>9
  <2>2. PICK a, b : a = c[k] /\ b = X[k+1]
    OBVIOUS
  <2>3. c[k+1] = a \o b
    BY <1>6, <2>1, <2>2 DEF Joined
  <2>4. /\ a \in Seq(AnyBid) /\ CfpCount(a, i) <= slots
        /\ (k < i \/ i \notin 1..n) => CfpCount(a, i) = 0
    BY <1>7, <1>9, <2>2
  <2>5. b \in Seq(AnyBid) /\ CfpCount(b, i) <= slots /\ (k + 1 # i => CfpCount(b, i) = 0)
    BY <1>4, <2>1, <2>2
  <2>6. CfpCount(a, i) \in Nat /\ CfpCount(b, i) \in Nat /\ CfpCount(a \o b, i) \in Nat
    <3>1. a \o b \in Seq(AnyBid)
      BY ONLY <2>4, <2>5, JoinType
    <3>. QED BY <2>4, <2>5, <3>1, CountType
  <2>7. CfpCount(a \o b, i) <= CfpCount(a, i) + CfpCount(b, i)
    BY <2>4, <2>5, CountJoin
  <2>. DEFINE r == CfpCount(c[k+1], i)
  <2>10. c[k+1] \in Seq(AnyBid) /\ r = CfpCount(a \o b, i)
    BY ONLY <2>3, <2>4, <2>5, JoinType
  <2>11. ASSUME r <= slots, (k + 1 < i \/ i \notin 1..n) => r = 0 PROVE k + 1 \in G
    BY <1>7, <2>1, <2>10, <2>11
  <2>. HIDE DEF r
  <2>8. CASE k + 1 = i
    <3>1. CfpCount(a, i) = 0
      BY <2>4, <2>8
    <3>2. CfpCount(a \o b, i) <= slots
      BY <1>3, <2>5, <2>6, <2>7, <3>1
    <3>. QED BY <2>1, <2>8, <2>10, <2>11, <3>2
  <2>9. CASE k + 1 # i
    <3>1. CfpCount(a \o b, i) <= CfpCount(a, i)
      BY <2>5, <2>6, <2>7, <2>9
    <3>2. CfpCount(a \o b, i) <= slots
      BY <1>3, <2>4, <2>6, <3>1
    <3>3. (k + 1 < i \/ i \notin 1..n) => k < i \/ i \notin 1..n
      OBVIOUS
    <3>4. (k + 1 < i \/ i \notin 1..n) => CfpCount(a \o b, i) = 0
      BY <2>4, <2>6, <3>1, <3>3
    <3>. QED BY <2>10, <2>11, <3>2, <3>4
  <2>. QED BY <2>8, <2>9
<1>10. \A k \in 1..n : k \in G /\ k + 1 <= n => k + 1 \in G
  BY <1>9
<1>11. \A k \in 1..n : k \in G
  BY <1>8, <1>10, UpTo
<1>12. c[n] \in Seq(AnyBid) /\ CfpCount(c[n], i) <= slots
  BY <1>7, <1>11
<1>. QED BY <1>1, <1>2, <1>6, <1>12 DEF BidsOn

\* Closing calls closes them, and a new call is open.
OpenIn(cs) == {i \in DOMAIN cs : cs[i].status = "open"}

LEMMA CloseOpen ==
  ASSUME NEW cs \in Seq(Cfp), NEW X, NEW reason \in {"expired", "no_bids", "awarded"}
  PROVE  OpenIn(Close(cs, X, reason)) = OpenIn(cs) \ X
<1>1. PICK d : d = Close(cs, X, reason)
  OBVIOUS
<1>2. d \in Seq(Cfp) /\ Len(d) = Len(cs) /\ DOMAIN d = DOMAIN cs
  BY <1>1, CloseType
<1>3. \A i \in DOMAIN cs : d[i] = IF i \in X THEN [cs[i] EXCEPT !.status = reason] ELSE cs[i]
  BY <1>1 DEF Close
<1>4. ASSUME NEW i \in DOMAIN cs PROVE d[i].status = IF i \in X THEN reason ELSE cs[i].status
  <2>1. PICK c \in Cfp : c = cs[i]
    OBVIOUS
  <2>2. [c EXCEPT !.status = reason].status = reason
    BY DEF Cfp
  <2>. QED BY <1>3, <2>1, <2>2
<1>5. OpenIn(d) = OpenIn(cs) \ X
  BY <1>2, <1>4 DEF OpenIn
<1>. QED BY <1>1, <1>5

LEMMA CallOpen ==
  ASSUME NEW cs \in Seq(Cfp), NEW X, NEW reason \in {"expired", "no_bids"}, NEW last \in Nat
  PROVE  OpenIn(WithCall(cs, X, reason, last)) = (OpenIn(cs) \ X) \cup {Len(cs) + 1}
<1>1. PICK d : d = Close(cs, X, reason)
  OBVIOUS
<1>2. d \in Seq(Cfp) /\ Len(d) = Len(cs) /\ OpenIn(d) = OpenIn(cs) \ X
  BY <1>1, CloseType, CloseOpen
<1>3. PICK w : w = WithCall(cs, X, reason, last)
  OBVIOUS
<1>4. PICK r : r = [round |-> last + 1, status |-> "open"]
  OBVIOUS
<1>5. w = Append(d, r) /\ r.status = "open"
  BY <1>1, <1>3, <1>4 DEF WithCall
<1>6. /\ DOMAIN w = DOMAIN d \cup {Len(cs) + 1} /\ w[Len(cs) + 1] = r
      /\ \A i \in DOMAIN d : w[i] = d[i] /\ i # Len(cs) + 1
  BY <1>2, <1>5
<1>7. OpenIn(w) = OpenIn(d) \cup {Len(cs) + 1}
  BY <1>5, <1>6 DEF OpenIn
<1>. QED BY <1>2, <1>3, <1>7

\* A bidder that works on a task knows call i of it if it found the call open or
\* opened it, and it has seen bid k.
Working(p, t) == proc[p].pc \in {"open", "place"} /\ proc[p].task = t
Knows(p, t, i) == Working(p, t) => i \in proc[p].open
Saw(p, t, k) == Working(p, t) => k \in DOMAIN proc[p].seen /\ proc[p].seen[k] = bids[t][k]

\* No step but a look makes a bidder know less of the calls that are open and the
\* bids that are there.
LEMMA KnowsNext ==
  ASSUME Typed, [CnpNext]_cnpVars, NEW p \in Bidders, NEW t \in Tasks, ~Look(p, t),
         \A k \in DOMAIN bids[t] : bids'[t][k] = bids[t][k]
  PROVE  /\ \A i \in Open(t) : Knows(p, t, i) /\ i \in OpenIn(cfps'[t]) => Knows(p, t, i)'
         /\ \A k \in DOMAIN bids[t] : Saw(p, t, k) => Saw(p, t, k)'
<1>. DEFINE Goal == /\ \A i \in Open(t) : Knows(p, t, i) /\ i \in OpenIn(cfps'[t]) => Knows(p, t, i)'
                    /\ \A k \in DOMAIN bids[t] : Saw(p, t, k) => Saw(p, t, k)'
<1>0. proc \in [Bidders -> Proc] /\ proc[p] \in Proc
  BY DEF Typed, ProcsOK
<1>1. ASSUME proc'[p] = proc[p] PROVE Goal
  BY <1>1 DEF Knows, Saw, Working
<1>2. ASSUME proc'[p].pc \notin {"open", "place"} PROVE Goal
  BY <1>2 DEF Knows, Saw, Working
<1>3. ASSUME NEW u \in Tasks, Look(p, u) PROVE Goal
  <2>1. PICK shown, O : Looks(p, u, shown, O)
    BY <1>3, LookShape
  <2>2. PICK r \in Proc : r = proc[p]
    BY <1>0
  <2>3. proc'[p] = Looked(r, u, Part(bids[u], shown), O)
    BY <1>0, <2>1, <2>2 DEF Looks
  <2>4. proc'[p].task = u
    BY <2>3 DEF Proc, Looked
  <2>. QED BY <1>3, <2>4 DEF Knows, Saw, Working
<1>4. ASSUME OpenCfps(p) PROVE Goal
  <2>1. PICK u : u = proc[p].task /\ u \in Tasks /\ proc[p].pc = "open" /\ Opened(p, u)
    BY <1>4, OpenShape
  <2>a2. PICK X \in SUBSET proc[p].open, last \in Nat : \E O, cs :
          /\ cfps' = [cfps EXCEPT ![u] = cs]
          /\ proc' = [proc EXCEPT ![p].pc = "place", ![p].open = O]
          /\ \/ O = proc[p].open \ X /\ cs = Close(cfps[u], X, "expired")
             \/ /\ X = proc[p].open /\ O = {Len(cfps[u]) + 1} /\ cs = WithCall(cfps[u], X, "expired", last)
    BY <2>1 DEF Opened
  <2>2. PICK O, cs :
          /\ cfps' = [cfps EXCEPT ![u] = cs]
          /\ proc' = [proc EXCEPT ![p].pc = "place", ![p].open = O]
          /\ \/ O = proc[p].open \ X /\ cs = Close(cfps[u], X, "expired")
             \/ /\ X = proc[p].open /\ O = {Len(cfps[u]) + 1} /\ cs = WithCall(cfps[u], X, "expired", last)
    BY <2>a2
  <2>3. PICK r \in Proc : r = proc[p]
    BY <1>0
  <2>4. proc'[p].task = u /\ proc'[p].seen = proc[p].seen /\ proc'[p].open = O
    BY <1>0, <2>1, <2>2, <2>3 DEF Proc
  <2>5. \A k \in DOMAIN bids[t] : Saw(p, t, k) => Saw(p, t, k)'
    BY <2>1, <2>4 DEF Saw, Working
  <2>6. cfps \in [Tasks -> Seq(Cfp)]
    BY DEF Typed, BoardOK
  <2>7. ASSUME t = u, NEW i \in Open(t), Knows(p, t, i), i \in OpenIn(cfps'[t]) PROVE i \in O
    <3>1. i \in proc[p].open /\ cfps'[t] = cs /\ cfps[t] \in Seq(Cfp)
      BY <2>1, <2>2, <2>6, <2>7 DEF Knows, Working
    <3>2. i \notin X
      <4>1. i # Len(cfps[t]) + 1
        BY <2>7, <3>1 DEF Open
      <4>2. CASE cs = Close(cfps[u], X, "expired")
        BY <2>7, <3>1, <4>2, CloseOpen
      <4>3. CASE cs = WithCall(cfps[u], X, "expired", last)
        <5>1. PICK d \in Seq(Cfp) : d = cfps[t]
          BY <3>1
        <5>2. OpenIn(WithCall(d, X, "expired", last)) = (OpenIn(d) \ X) \cup {Len(d) + 1}
          BY CallOpen
        <5>. QED BY <2>7, <3>1, <4>1, <4>3, <5>1, <5>2
      <4>. QED BY <2>2, <4>2, <4>3
    <3>. QED BY <2>2, <3>1, <3>2
  <2>8. \A i \in Open(t) : Knows(p, t, i) /\ i \in OpenIn(cfps'[t]) => Knows(p, t, i)'
    BY <2>4, <2>7 DEF Knows, Working
  <2>. QED BY <2>5, <2>8
<1>5. ASSUME p \in Managers, ReadForPlan(p) PROVE proc'[p].pc = "award"
  <2>1. PICK missed, B, O : proc' = [proc EXCEPT ![p] = PlanRead(@, B, O, AlreadyAwarded \ missed)]
    BY <1>5, ReadShape
  <2>2. PICK r \in Proc : r = proc[p]
    BY <1>0
  <2>3. proc'[p] = PlanRead(r, B, O, AlreadyAwarded \ missed)
    BY <1>0, <2>1, <2>2
  <2>. QED BY <2>3 DEF PlanRead, Proc
<1>6. ASSUME p \in Managers, NEW u \in Tasks, AwardTask(p, u) PROVE proc'[p].pc = "award"
  <2>1. proc[p].pc = "award" /\ proc' = [proc EXCEPT ![p].todo = @ \ {u}]
    BY <1>6 DEF AwardTask
  <2>2. PICK r \in Proc : r = proc[p]
    BY <1>0
  <2>. QED BY <1>0, <2>1, <2>2 DEF Proc
<1>7. proc'[p].pc \in Quiet => proc'[p].pc \notin {"open", "place"}
  BY DEF Quiet
<1>8. Goal
  <2>. HIDE DEF Goal
  <2>. QED BY <1>1, <1>2, <1>3, <1>4, <1>5, <1>6, <1>7, Moved DEF Moves
<1>. QED BY <1>8

\* A bidder that has placed its bids works on the task no more.
LEMMA PlaceLeaves ==
  ASSUME Typed, NEW p \in Bidders, Place(p)
  PROVE  proc[p].pc = "place" /\ proc'[p].pc \notin {"open", "place"}
<1>. DEFINE next == IF proc[p].todo = {} THEN "bidden" ELSE "look"
<1>1. Place(p) /\ proc \in [Bidders -> Proc]
  BY DEF Typed, ProcsOK
<1>2. /\ proc[p].pc = "place"
      /\ proc' = [proc EXCEPT ![p].pc = next, ![p].task = NoOne, ![p].seen = <<>>, ![p].open = {}]
  BY ONLY <1>1, Zenon DEF Place
<1>3. next \notin {"open", "place"}
  OBVIOUS
<1>4. PICK r \in Proc : r = proc[p]
  BY <1>1
<1>. HIDE DEF next
<1>. QED BY <1>1, <1>2, <1>3, <1>4 DEF Proc

\* A step opens at most one call of a task, by a process that knows only calls it
\* closes.
Kept(t) == OpenIn(cfps'[t]) \subseteq Open(t)
Fresh(t) ==
  \E p \in Bidders : \E n : /\ Working(p, t) /\ n \notin Open(t) /\ Knows(p, t, n)'
                            /\ OpenIn(cfps'[t]) \subseteq (Open(t) \ proc[p].open) \cup {n}

LEMMA CallsMove ==
  ASSUME Typed, [CnpNext]_cnpVars, NEW t \in Tasks PROVE Kept(t) \/ Fresh(t)
<1>0. /\ cfps \in [Tasks -> Seq(Cfp)] /\ \A u \in Tasks : Open(u) = OpenIn(cfps[u])
      /\ proc \in [Bidders -> Proc]
  BY DEF Typed, BoardOK, ProcsOK, Open, OpenIn
<1>1. cfps'[t] = cfps[t] => Kept(t)
  BY <1>0 DEF Kept
<1>2. ASSUME NEW p \in Bidders, OpenCfps(p) PROVE Kept(t) \/ Fresh(t)
  <2>1. PICK u : u = proc[p].task /\ u \in Tasks /\ proc[p].pc = "open" /\ Opened(p, u)
    BY <1>2, OpenShape
  <2>a2. PICK X \in SUBSET proc[p].open, last \in Nat : \E O, cs :
          /\ cfps' = [cfps EXCEPT ![u] = cs]
          /\ proc' = [proc EXCEPT ![p].pc = "place", ![p].open = O]
          /\ \/ O = proc[p].open \ X /\ cs = Close(cfps[u], X, "expired")
             \/ /\ X = proc[p].open /\ O = {Len(cfps[u]) + 1} /\ cs = WithCall(cfps[u], X, "expired", last)
    BY <2>1 DEF Opened
  <2>2. PICK O, cs :
          /\ cfps' = [cfps EXCEPT ![u] = cs]
          /\ proc' = [proc EXCEPT ![p].pc = "place", ![p].open = O]
          /\ \/ O = proc[p].open \ X /\ cs = Close(cfps[u], X, "expired")
             \/ /\ X = proc[p].open /\ O = {Len(cfps[u]) + 1} /\ cs = WithCall(cfps[u], X, "expired", last)
    BY <2>a2
  <2>3. CASE t # u
    BY <1>0, <1>1, <2>1, <2>2, <2>3
  <2>4. CASE t = u /\ cs = Close(cfps[u], X, "expired")
    BY <1>0, <2>2, <2>4, CloseOpen DEF Kept
  <2>5. CASE t = u /\ X = proc[p].open /\ O = {Len(cfps[u]) + 1} /\ cs = WithCall(cfps[u], X, "expired", last)
    <3>1. OpenIn(cfps'[t]) = (Open(t) \ proc[p].open) \cup {Len(cfps[t]) + 1}
      <4>1. PICK d \in Seq(Cfp) : d = cfps[t]
        BY <1>0
      <4>2. OpenIn(WithCall(d, X, "expired", last)) = (OpenIn(d) \ X) \cup {Len(d) + 1}
        BY CallOpen
      <4>. QED BY <1>0, <2>2, <2>5, <4>1, <4>2
    <3>2. PICK n : n = Len(cfps[t]) + 1
      OBVIOUS
    <3>3. n \notin Open(t)
      BY <1>0, <3>2 DEF Open
    <3>4. Knows(p, t, n)'
      <4>1. PICK r \in Proc : r = proc[p]
        BY <1>0
      <4>2. proc'[p].open = O
        BY <1>0, <2>2, <4>1 DEF Proc
      <4>. QED BY <2>5, <3>2, <4>2 DEF Knows
    <3>5. Working(p, t)
      BY <2>1, <2>5 DEF Working
    <3>. QED BY <3>1, <3>2, <3>3, <3>4, <3>5 DEF Fresh
  <2>. QED BY <2>2, <2>3, <2>4, <2>5
<1>3. ASSUME NEW p \in Bidders, Place(p) PROVE Kept(t) \/ Fresh(t)
  <2>1. PICK u, m : u = proc[p].task /\ m = Len(cfps[u]) + 1
    OBVIOUS
  <2>2. u \in Tasks /\ Placed(p, u, m)
    BY <1>3, <2>1, PlaceShape
  <2>3. PICK cs : /\ cfps' = [cfps EXCEPT ![u] = cs]
                  /\ \/ cs = cfps[u] \/ cs = Close(cfps[u], proc[p].open, "no_bids")
                     \/ \E last \in Nat : cs = WithCall(cfps[u], proc[p].open, "no_bids", last)
    BY <2>2 DEF Placed
  <2>4. proc[p].pc = "place" /\ proc'[p].pc \notin {"open", "place"}
    BY <1>3, PlaceLeaves
  <2>5. CASE t # u \/ cs = cfps[u]
    BY <1>0, <1>1, <2>2, <2>3, <2>5
  <2>6. CASE t = u /\ cs = Close(cfps[u], proc[p].open, "no_bids")
    BY <1>0, <2>3, <2>6, CloseOpen DEF Kept
  <2>7. CASE t = u /\ \E last \in Nat : cs = WithCall(cfps[u], proc[p].open, "no_bids", last)
    <3>0. PICK last \in Nat : cs = WithCall(cfps[u], proc[p].open, "no_bids", last)
      BY <2>7
    <3>1. OpenIn(cfps'[t]) = (Open(t) \ proc[p].open) \cup {Len(cfps[t]) + 1}
      <4>1. PICK d \in Seq(Cfp) : d = cfps[t]
        BY <1>0
      <4>3. PICK X : X = proc[p].open
        OBVIOUS
      <4>2. OpenIn(WithCall(d, X, "no_bids", last)) = (OpenIn(d) \ X) \cup {Len(d) + 1}
        BY CallOpen
      <4>. QED BY <1>0, <2>3, <2>7, <3>0, <4>1, <4>2, <4>3
    <3>2. PICK n : n = Len(cfps[t]) + 1
      OBVIOUS
    <3>3. n \notin Open(t)
      BY <1>0, <3>2 DEF Open
    <3>4. Knows(p, t, n)'
      BY <2>4 DEF Knows, Working
    <3>5. Working(p, t)
      BY <2>1, <2>4, <2>7 DEF Working
    <3>. QED BY <3>1, <3>2, <3>3, <3>4, <3>5 DEF Fresh
  <2>. QED BY <2>3, <2>5, <2>6, <2>7
<1>4. ASSUME NEW p \in Managers, CloseCfps(p) PROVE Kept(t)
  <2>1. PICK E, B : cfps'[t] = Close(Close(cfps[t], E, "expired"), B, "awarded")
    BY <1>4 DEF CloseCfps
  <2>2. PICK d : d = Close(cfps[t], E, "expired")
    OBVIOUS
  <2>3. d \in Seq(Cfp) /\ OpenIn(d) = OpenIn(cfps[t]) \ E
    BY <1>0, <2>2, CloseType, CloseOpen
  <2>4. OpenIn(cfps'[t]) = OpenIn(d) \ B
    BY <2>1, <2>2, <2>3, CloseOpen
  <2>. QED BY <1>0, <2>3, <2>4 DEF Kept
<1>5. ASSUME NEW u \in Tasks, ResolveCompetingService(u) \/ \E a \in Agents : PostBid(u, a)
      PROVE  Kept(t)
  <2>1. UNCHANGED cfps
    BY <1>5 DEF ResolveCompetingService, PostBid
  <2>. QED BY <1>1, <2>1
<1>6. UNCHANGED boardVars => Kept(t)
  BY <1>1 DEF boardVars
<1>. QED BY <1>2, <1>3, <1>4, <1>5, <1>6, Movers DEF BoardMoves

\* A step adds bids of other sources to a task, or those of one bidder that was working
\* on it, no more for a call than fit in the slots it saw.
Longer(t) == \A k \in DOMAIN bids[t] : k \in DOMAIN bids'[t] /\ bids'[t][k] = bids[t][k]
Added(t) == \A k \in DOMAIN bids'[t] \ DOMAIN bids[t] : bids'[t][k].scoped
News(t, i) == {k \in DOMAIN bids'[t] \ DOMAIN bids[t] : bids'[t][k].cfp = i}
Filled(t) ==
  \E p \in Bidders : /\ Working(p, t) /\ ~Working(p, t)'
                     /\ \A i : /\ IsFiniteSet(News(t, i)) /\ Cardinality(News(t, i)) \in Nat
                              /\ Cardinality(News(t, i)) <= Slots(proc[p].seen, i)

LEMMA BidsMove ==
  ASSUME Typed, [CnpNext]_cnpVars, NEW t \in Tasks PROVE Longer(t) /\ (Added(t) \/ Filled(t))
<1>. DEFINE Goal == Longer(t) /\ (Added(t) \/ Filled(t))
<1>0. /\ BoardOK /\ bids \in [Tasks -> Seq(AnyBid)] /\ proc \in [Bidders -> Proc]
      /\ \A u \in Tasks : Len(cfps[u]) \in Nat
  BY DEF Typed, BoardOK, ProcsOK
<1>1. bids'[t] = bids[t] => Goal
  BY DEF Longer, Added
<1>2. ASSUME NEW bs \in Seq(AnyBid), bids'[t] = bids[t] \o bs
      PROVE  /\ Longer(t) /\ ((\A k \in DOMAIN bs : bs[k].scoped) => Added(t))
             /\ \A i : /\ IsFiniteSet(News(t, i)) /\ Cardinality(News(t, i)) \in Nat
                      /\ Cardinality(News(t, i)) <= CfpCount(bs, i)
  <2>1. PICK s, w : s = bids[t] /\ w = s \o bs
    OBVIOUS
  <2>2. s \in Seq(AnyBid) /\ bids'[t] = w
    BY <1>0, <1>2, <2>1
  <2>3. \A k \in DOMAIN s : k \in DOMAIN w /\ w[k] = s[k]
    BY <2>1, <2>2
  <2>4. \A k \in DOMAIN w \ DOMAIN s : k - Len(s) \in DOMAIN bs /\ w[k] = bs[k - Len(s)]
    BY <2>1, <2>2
  <2>5. Longer(t) /\ ((\A k \in DOMAIN bs : bs[k].scoped) => Added(t))
    BY <2>1, <2>2, <2>3, <2>4 DEF Longer, Added
  <2>6. ASSUME NEW i
        PROVE  /\ IsFiniteSet(News(t, i)) /\ Cardinality(News(t, i)) \in Nat
               /\ Cardinality(News(t, i)) <= CfpCount(bs, i)
    <3>1. PICK K : K = News(t, i)
      OBVIOUS
    <3>2. K \in SUBSET DOMAIN (s \o bs) /\ \A k \in K : k \notin DOMAIN s /\ (s \o bs)[k].cfp = i
      BY <2>1, <2>2, <3>1 DEF News
    <3>. QED BY <2>2, <3>1, <3>2, CountNew
  <2>. QED BY <2>5, <2>6
<1>3. ASSUME NEW p \in Bidders, Place(p) PROVE Goal
  <2>1. PICK u, n, seen : u = proc[p].task /\ n = Len(cfps[u]) + 1 /\ seen = proc[p].seen
    OBVIOUS
  <2>2. u \in Tasks /\ seen \in Seq(AnyBid) /\ Placed(p, u, n)
    BY <1>3, <2>1, PlaceShape
  <2>3. PICK T : PlacedOn(u, seen, T, n)
    BY <2>1, <2>2 DEF Placed
  <2>4. PICK C \in SUBSET Bidder, m \in Nat : \E score \in [C -> Scores], rank \in [1..m -> C] :
          bids' = [bids EXCEPT ![u] = bids[u] \o BidsOn(rank, score, seen, T, n)]
    BY <2>3 DEF PlacedOn
  <2>5. PICK score \in [C -> Scores], rank \in [1..m -> C] :
          bids' = [bids EXCEPT ![u] = bids[u] \o BidsOn(rank, score, seen, T, n)]
    BY <2>4
  <2>6. PICK bs : bs = BidsOn(rank, score, seen, T, n)
    OBVIOUS
  <2>7. n \in Nat \ {0}
    BY <1>0, <2>1, <2>2
  <2>8. bs \in Seq(AnyBid) /\ \A i : CfpCount(bs, i) \in Nat /\ CfpCount(bs, i) <= Slots(seen, i)
    BY <2>2, <2>6, <2>7, BidsOnCount, CountType
  <2>9. proc[p].pc = "place" /\ proc'[p].pc \notin {"open", "place"}
    BY <1>3, PlaceLeaves
  <2>10. CASE t # u
    BY <1>0, <1>1, <2>5, <2>10
  <2>11. CASE t = u
    <3>1. bids'[t] = bids[t] \o bs
      BY <1>0, <2>5, <2>6, <2>11
    <3>2. /\ Longer(t)
          /\ \A i : /\ IsFiniteSet(News(t, i)) /\ Cardinality(News(t, i)) \in Nat
                   /\ Cardinality(News(t, i)) <= CfpCount(bs, i)
      BY <1>2, <2>8, <3>1
    <3>3. Working(p, t) /\ ~Working(p, t)'
      BY <2>1, <2>9, <2>11 DEF Working
    <3>4. ASSUME NEW i PROVE Cardinality(News(t, i)) <= Slots(seen, i)
      <4>1. /\ Cardinality(News(t, i)) \in Nat /\ Cardinality(News(t, i)) <= CfpCount(bs, i)
            /\ CfpCount(bs, i) \in Nat /\ CfpCount(bs, i) <= Slots(seen, i) /\ Slots(seen, i) \in Nat
        BY <2>2, <2>8, <3>2, SlotsType
      <4>. QED BY <4>1
    <3>. QED BY <2>1, <3>2, <3>3, <3>4 DEF Filled
  <2>. QED BY <2>10, <2>11
<1>4. ASSUME NEW u \in Tasks, ResolveCompetingService(u) \/ \E a \in Agents : PostBid(u, a) PROVE Goal
  <2>1. PICK N : N = Len(cfps[u]) /\ N \in Nat
    BY <1>0
  <2>2. Posted(u, N)
    BY <1>0, <1>4, <2>1, PostedBids
  <2>3. PICK bs \in Seq(BidUpTo(N)) : /\ bids' = [bids EXCEPT ![u] = bids[u] \o bs]
                                     /\ \A k \in DOMAIN bs : bs[k].scoped
    BY <2>2 DEF Posted
  <2>4. bs \in Seq(AnyBid)
    BY <2>1, BidsLater
  <2>5. CASE t # u
    BY <1>0, <1>1, <2>3, <2>5
  <2>6. CASE t = u
    <3>1. bids'[t] = bids[t] \o bs
      BY <1>0, <2>3, <2>6
    <3>. QED BY <1>2, <2>3, <2>4, <3>1
  <2>. QED BY <2>5, <2>6
<1>5. ASSUME UNCHANGED bids PROVE Goal
  BY <1>1, <1>5
<1>6. ASSUME NEW p \in Bidders, OpenCfps(p) PROVE UNCHANGED bids
  BY <1>6 DEF OpenCfps
<1>7. ASSUME NEW p \in Managers, CloseCfps(p) PROVE UNCHANGED bids
  BY <1>7 DEF CloseCfps
<1>8. UNCHANGED boardVars => UNCHANGED bids
  BY DEF boardVars
<1>9. Goal
  <2>. HIDE DEF Goal
  <2>. QED BY <1>3, <1>4, <1>5, <1>6, <1>7, <1>8, Movers DEF BoardMoves
<1>. QED BY <1>9

\* Who is responsible for the calls and the bids of a task: every bidder, and every
\* look at a list that lagged.
Owners(n) == (Bidders \X {0}) \cup ({NoOne} \X (1..n))

\* As whom a bidder works: it is itself, or the look that lagged; no two are the same.
Tokens(c, W) ==
  /\ c \in [Bidders -> W]
  /\ \A p \in Bidders : c[p][2] = 0 => c[p] = <<p, 0>>
  /\ \A p, q \in Bidders : c[p] = c[q] => p = q

\* Every open call has an owner of its own that knows it while it works on the task;
\* every bid a bidder placed has an owner that has seen it when it works on the task
\* again, and no owner has more than MaxBids of one call.
CallsOwned(t, c, W) ==
  \E f \in [Open(t) -> W] :
    \A i \in Open(t) : /\ \A p \in Bidders : f[i] = c[p] => Knows(p, t, i)
                       /\ \A j \in Open(t) : f[i] = f[j] => i = j
Mine(s, g, w, i) == {k \in DOMAIN s : ~s[k].scoped /\ s[k].cfp = i /\ g[k] = w}
BidsOwned(t, c, W) ==
  \E g \in [Nat -> W \cup {NoOne}] :
    /\ \A k \in DOMAIN bids[t] : ~bids[t][k].scoped =>
         g[k] \in W /\ \A p \in Bidders : g[k] = c[p] => Saw(p, t, k)
    /\ \A w \in W : \A i : Cardinality(Mine(bids[t], g, w, i)) <= MaxBids
Owned(t, W) == \E c : Tokens(c, W) /\ CallsOwned(t, c, W) /\ BidsOwned(t, c, W)
Races(t) == Owned(t, Owners(behind[t].look))
RaceInv == \A t \in Tasks : Races(t)

LEMMA RaceStart == CnpInit => RaceInv
<1>. SUFFICES ASSUME CnpInit, NEW t \in Tasks PROVE Races(t)
  BY DEF RaceInv
<1>1. cfps[t] = <<>> /\ bids[t] = <<>> /\ behind[t].look = 0
  BY DEF CnpInit
<1>w. PICK W : W = Owners(behind[t].look)
  OBVIOUS
<1>c. PICK c : c = [p \in Bidders |-> <<p, 0>>]
  OBVIOUS
<1>t. Tokens(c, W)
  BY <1>c, <1>w DEF Tokens, Owners
<1>2. CallsOwned(t, c, W)
  <2>1. Open(t) = {}
    BY <1>1 DEF Open
  <2>2. PICK f : f = [i \in Open(t) |-> NoOne]
    OBVIOUS
  <2>3. f \in [Open(t) -> W] /\ \A i \in Open(t) : FALSE
    BY <2>1, <2>2
  <2>. QED BY ONLY <2>3, Zenon DEF CallsOwned
<1>3. BidsOwned(t, c, W)
  <2>1. PICK g : g = [k \in Nat |-> NoOne]
    OBVIOUS
  <2>2. \A w, i : Mine(bids[t], g, w, i) = {}
    BY <1>1 DEF Mine
  <2>3. Cardinality({}) = 0
    BY FS_EmptySet
  <2>4. \A w, i : Cardinality(Mine(bids[t], g, w, i)) <= MaxBids
    BY <2>2, <2>3, CnpConstants
  <2>. QED BY <1>1, <2>1, <2>4 DEF BidsOwned
<1>. QED BY <1>2, <1>3, <1>t, <1>w DEF Races, Owned

LEMMA CallsOwnedNext ==
  ASSUME Typed, [CnpNext]_cnpVars, NEW t \in Tasks, \A p \in Bidders : ~Look(p, t),
         NEW c, NEW W, Tokens(c, W), CallsOwned(t, c, W)
  PROVE  CallsOwned(t, c, W)'
<1>1. PICK f \in [Open(t) -> W] :
        \A i \in Open(t) : /\ \A p \in Bidders : f[i] = c[p] => Knows(p, t, i)
                           /\ \A j \in Open(t) : f[i] = f[j] => i = j
  BY DEF CallsOwned
<1>2. PICK S : S = OpenIn(cfps'[t]) /\ Open(t)' = S
  BY DEF Open, OpenIn
<1>3. ASSUME NEW i \in Open(t), i \in S, NEW p \in Bidders, f[i] = c[p] PROVE Knows(p, t, i)'
  <2>1. Knows(p, t, i)
    BY <1>1, <1>3
  <2>2. \A k \in DOMAIN bids[t] : bids'[t][k] = bids[t][k]
    BY BidsMove DEF Longer
  <2>. QED BY <1>2, <1>3, <2>1, <2>2, KnowsNext
<1>4. ASSUME NEW h \in [S -> W],
             \A i \in S : /\ \A p \in Bidders : h[i] = c[p] => Knows(p, t, i)'
                          /\ \A j \in S : h[i] = h[j] => i = j
      PROVE  CallsOwned(t, c, W)'
  BY <1>2, <1>4 DEF CallsOwned
<1>5. CASE Kept(t)
  <2>1. S \subseteq Open(t)
    BY <1>2, <1>5 DEF Kept
  <2>2. PICK h : h = [i \in S |-> f[i]]
    OBVIOUS
  <2>3. h \in [S -> W] /\ \A i \in S : h[i] = f[i]
    BY <1>1, <2>1, <2>2
  <2>. QED BY <1>1, <1>3, <1>4, <2>1, <2>3
<1>6. CASE Fresh(t)
  <2>a1. PICK p \in Bidders : \E n :
          /\ Working(p, t) /\ n \notin Open(t) /\ Knows(p, t, n)'
          /\ S \subseteq (Open(t) \ proc[p].open) \cup {n}
    BY <1>2, <1>6 DEF Fresh
  <2>1. PICK n :
          /\ Working(p, t) /\ n \notin Open(t) /\ Knows(p, t, n)'
          /\ S \subseteq (Open(t) \ proc[p].open) \cup {n}
    BY <2>a1
  <2>2. PICK h : h = [i \in S |-> IF i = n THEN c[p] ELSE f[i]]
    OBVIOUS
  <2>3. \A i \in S \ {n} : i \in Open(t) /\ f[i] # c[p]
    BY <1>1, <2>1 DEF Knows
  <2>4. h \in [S -> W]
    BY <1>1, <2>2, <2>3 DEF Tokens
  <2>5. ASSUME NEW i \in S, NEW q \in Bidders, h[i] = c[q] PROVE Knows(q, t, i)'
    <3>1. CASE i = n
      <4>1. q = p
        BY <2>2, <2>5, <3>1 DEF Tokens
      <4>. QED BY <2>1, <3>1, <4>1 DEF Knows, Working
    <3>2. CASE i # n
      <4>1. f[i] = c[q]
        BY <2>2, <2>5, <3>2
      <4>. QED BY <1>3, <2>3, <3>2, <4>1
    <3>. QED BY <3>1, <3>2
  <2>6. \A i, j \in S : h[i] = h[j] => i = j
    BY <1>1, <2>2, <2>3
  <2>. QED BY <1>4, <2>4, <2>5, <2>6
<1>. QED BY <1>5, <1>6, CallsMove

LEMMA BidsOwnedNext ==
  ASSUME Typed, [CnpNext]_cnpVars, BoardOK', NEW t \in Tasks, \A p \in Bidders : ~Look(p, t),
         NEW c, NEW W, Tokens(c, W), BidsOwned(t, c, W)
  PROVE  BidsOwned(t, c, W)'
<1>0. bids[t] \in Seq(AnyBid) /\ bids'[t] \in Seq(AnyBid) /\ MaxBids \in Nat
  BY CnpConstants DEF Typed, BoardOK
<1>1. PICK g \in [Nat -> W \cup {NoOne}] :
    /\ \A k \in DOMAIN bids[t] : ~bids[t][k].scoped =>
         g[k] \in W /\ \A p \in Bidders : g[k] = c[p] => Saw(p, t, k)
    /\ \A w \in W : \A i : Cardinality(Mine(bids[t], g, w, i)) <= MaxBids
  BY DEF BidsOwned
<1>2. PICK s, w : s = bids[t] /\ w = bids'[t]
  OBVIOUS
<1>3. s \in Seq(AnyBid) /\ w \in Seq(AnyBid) /\ \A k \in DOMAIN s : k \in DOMAIN w /\ w[k] = s[k]
  BY <1>0, <1>2, BidsMove DEF Longer
<1>4. ASSUME NEW k \in DOMAIN s, ~s[k].scoped
      PROVE  g[k] \in W /\ \A p \in Bidders : g[k] = c[p] => Saw(p, t, k)'
  <2>1. g[k] \in W /\ \A p \in Bidders : g[k] = c[p] => Saw(p, t, k)
    BY <1>1, <1>2, <1>4
  <2>2. \A j \in DOMAIN bids[t] : bids'[t][j] = bids[t][j]
    BY BidsMove DEF Longer
  <2>3. ASSUME NEW p \in Bidders, g[k] = c[p] PROVE Saw(p, t, k)'
    BY <1>2, <2>1, <2>2, <2>3, KnowsNext
  <2>. QED BY <2>1, <2>3
<1>5. ASSUME NEW h \in [Nat -> W \cup {NoOne}],
             \A k \in DOMAIN w : ~w[k].scoped =>
               h[k] \in W /\ \A p \in Bidders : h[k] = c[p] => Saw(p, t, k)',
             \A o \in W : \A i : Cardinality(Mine(w, h, o, i)) <= MaxBids
      PROVE  BidsOwned(t, c, W)'
  BY <1>2, <1>5 DEF BidsOwned
<1>6. CASE Added(t)
  <2>1. \A k \in DOMAIN w : ~w[k].scoped => k \in DOMAIN s
    BY <1>2, <1>6 DEF Added
  <2>2. \A o, i : Mine(w, g, o, i) = Mine(s, g, o, i)
    BY <1>3, <2>1 DEF Mine
  <2>3. \A k \in DOMAIN w : ~w[k].scoped =>
          g[k] \in W /\ \A p \in Bidders : g[k] = c[p] => Saw(p, t, k)'
    BY <1>3, <1>4, <2>1
  <2>4. \A o \in W : \A i : Cardinality(Mine(w, g, o, i)) <= MaxBids
    BY <1>1, <1>2, <2>2
  <2>. QED BY <1>5, <2>3, <2>4
<1>7. CASE Filled(t)
  <2>1. PICK p \in Bidders :
          /\ Working(p, t) /\ ~Working(p, t)'
          /\ \A i : /\ IsFiniteSet(News(t, i)) /\ Cardinality(News(t, i)) \in Nat
                   /\ Cardinality(News(t, i)) <= Slots(proc[p].seen, i)
    BY <1>7 DEF Filled
  <2>o. PICK o \in W : o = c[p] /\ \A q \in Bidders : c[q] = o => q = p
    BY DEF Tokens
  <2>2. PICK h : h = [k \in Nat |-> IF k \in DOMAIN s THEN g[k] ELSE o]
    OBVIOUS
  <2>3. h \in [Nat -> W \cup {NoOne}]
    BY <2>2
  <2>4. \A k \in DOMAIN w : k \in Nat
    BY <1>3
  <2>5. ASSUME NEW k \in DOMAIN w, ~w[k].scoped
        PROVE  h[k] \in W /\ \A q \in Bidders : h[k] = c[q] => Saw(q, t, k)'
    <3>1. CASE k \in DOMAIN s
      <4>1. h[k] = g[k] /\ ~s[k].scoped
        BY <1>3, <2>2, <2>4, <2>5, <3>1
      <4>. QED BY <1>4, <3>1, <4>1
    <3>2. CASE k \notin DOMAIN s
      <4>1. h[k] = o
        BY <2>2, <2>4, <3>2
      <4>2. ASSUME NEW q \in Bidders, h[k] = c[q] PROVE Saw(q, t, k)'
        <5>1. q = p
          BY <2>o, <4>1, <4>2
        <5>. QED BY <2>1, <5>1 DEF Saw, Working
      <4>. QED BY <4>1, <4>2
    <3>. QED BY <3>1, <3>2
  <2>6. ASSUME NEW q \in W, NEW i PROVE Cardinality(Mine(w, h, q, i)) <= MaxBids
    <3>1. \A k \in DOMAIN s : k \in Nat /\ h[k] = g[k]
      BY <1>3, <2>2, <2>4
    <3>2. \A k \in DOMAIN w \ DOMAIN s : h[k] = o
      BY <2>2, <2>4
    <3>3. CASE q # o
      <4>1. Mine(w, h, q, i) = Mine(s, g, q, i)
        BY <1>3, <3>1, <3>2, <3>3 DEF Mine
      <4>. QED BY <1>1, <1>2, <4>1
    <3>4. CASE q = o
      <4>1. PICK A, B, M : A = Mine(s, g, o, i) /\ B = News(t, i) /\ M = Mine(w, h, o, i)
        OBVIOUS
      <4>2. M \in SUBSET (A \cup B)
        BY <1>2, <1>3, <3>1, <4>1 DEF Mine, News
      <4>3. PICK seen : seen = proc[p].seen /\ seen \in Seq(AnyBid)
        BY DEF Typed, ProcsOK, Proc
      <4>4. PICK D : D = {j \in DOMAIN seen : seen[j].cfp = i}
        OBVIOUS
      <4>5. A \in SUBSET D
        <5>1. ASSUME NEW k \in A PROVE k \in D
          <6>1. k \in DOMAIN s /\ ~s[k].scoped /\ s[k].cfp = i /\ g[k] = o
            BY <4>1 DEF Mine
          <6>2. Saw(p, t, k)
            BY <1>1, <1>2, <2>o, <6>1
          <6>3. k \in DOMAIN seen /\ seen[k] = s[k]
            BY <1>2, <2>1, <4>3, <6>2 DEF Saw
          <6>. QED BY <4>4, <6>1, <6>3
        <5>. QED BY <5>1
      <4>6. IsFiniteSet(D) /\ Cardinality(D) = CfpCount(seen, i)
        <5>1. DOMAIN seen = 1..Len(seen) /\ Len(seen) \in Nat /\ D \in SUBSET DOMAIN seen
          BY <4>3, <4>4
        <5>2. IsFiniteSet(DOMAIN seen)
          BY <5>1, FS_Interval
        <5>3. IsFiniteSet(D)
          BY <5>1, <5>2, FS_Subset
        <5>. QED BY <4>4, <5>3 DEF CfpCount
      <4>7. IsFiniteSet(A) /\ Cardinality(A) \in Nat /\ Cardinality(A) <= CfpCount(seen, i)
        BY <4>5, <4>6, FS_Subset, FS_CardinalityType
      <4>8. IsFiniteSet(B) /\ Cardinality(B) \in Nat /\ Cardinality(B) <= Slots(seen, i)
        BY <2>1, <4>1, <4>3
      <4>9. Cardinality(M) <= Cardinality(A) + Cardinality(B)
        <5>1. /\ IsFiniteSet(A \cup B)
              /\ Cardinality(A \cup B) = Cardinality(A) + Cardinality(B) - Cardinality(A \cap B)
          BY <4>7, <4>8, FS_Union
        <5>2. Cardinality(A \cap B) \in Nat
          <6>1. A \cap B \in SUBSET A
            OBVIOUS
          <6>. QED BY <4>7, <6>1, FS_Subset, FS_CardinalityType
        <5>3. IsFiniteSet(M) /\ Cardinality(M) <= Cardinality(A \cup B)
          BY <4>2, <5>1, FS_Subset
        <5>4. Cardinality(M) \in Nat
          BY <5>3, FS_CardinalityType
        <5>. QED BY <4>7, <4>8, <5>1, <5>2, <5>3, <5>4
      <4>10. Cardinality(A) <= MaxBids
        BY <1>1, <1>2, <4>1
      <4>11. /\ Slots(seen, i) \in Nat /\ CfpCount(seen, i) \in Nat
             /\ Slots(seen, i) = 0 \/ Slots(seen, i) + CfpCount(seen, i) = MaxBids
        BY <4>3, SlotsType, CountType
      <4>12. Cardinality(M) \in Int
        <5>1. IsFiniteSet(A \cup B)
          BY <4>7, <4>8, FS_Union
        <5>. QED BY <4>2, <5>1, FS_Subset, FS_CardinalityType
      <4>13. Cardinality(M) <= MaxBids
        BY <1>0, <4>7, <4>8, <4>9, <4>10, <4>11, <4>12
      <4>. QED BY <3>4, <4>1, <4>13
    <3>. QED BY <3>3, <3>4
  <2>. QED BY <1>5, <2>3, <2>5, <2>6
<1>. QED BY <1>6, <1>7, BidsMove

\* A bidder that looks becomes itself again, and knows all; or, when its lists lag,
\* becomes an owner that nothing belongs to yet.
LEMMA LookOwned ==
  ASSUME Typed, NEW t \in Tasks, NEW p \in Bidders, Look(p, t), NEW c, NEW W, NEW o, NEW V,
         Tokens(c, W), CallsOwned(t, c, W), BidsOwned(t, c, W), W \subseteq V, o \in V,
         \A q \in Bidders \ {p} : c[q] # o, o[2] = 0 => o = <<p, 0>>,
         \/ o \notin W
         \/ V = W /\ proc'[p].seen = bids[t] /\ proc'[p].open = Open(t)
  PROVE  Owned(t, V)'
<1>1. UNCHANGED boardVars /\ \A q \in Bidders \ {p} : proc'[q] = proc[q]
  <2>1. UNCHANGED boardVars /\ \E shown, O : Looks(p, t, shown, O)
    BY LookShape
  <2>2. PICK shown, O : Looks(p, t, shown, O)
    BY <2>1
  <2>3. PICK r : r = Looked(proc[p], t, Part(bids[t], shown), O)
    OBVIOUS
  <2>. QED BY <2>1, <2>2, <2>3 DEF Looks, Typed, ProcsOK
<1>2. PICK d : d = [q \in Bidders |-> IF q = p THEN o ELSE c[q]]
  OBVIOUS
<1>3. Tokens(d, V)
  BY <1>2 DEF Tokens
<1>4. CallsOwned(t, d, V)'
  <2>1. PICK f \in [Open(t) -> W] :
          \A i \in Open(t) : /\ \A q \in Bidders : f[i] = c[q] => Knows(q, t, i)
                             /\ \A j \in Open(t) : f[i] = f[j] => i = j
    BY DEF CallsOwned
  <2>2. Open(t)' = Open(t)
    BY <1>1 DEF boardVars, Open
  <2>3. ASSUME NEW i \in Open(t), NEW q \in Bidders, f[i] = d[q] PROVE Knows(q, t, i)'
    <3>1. CASE q = p
      <4>1. proc'[p].open = Open(t)
        BY <1>2, <2>1, <2>3, <3>1
      <4>. QED BY <3>1, <4>1 DEF Knows
    <3>2. CASE q # p
      <4>1. Knows(q, t, i)
        BY <1>2, <2>1, <2>3, <3>2
      <4>. QED BY <1>1, <3>2, <4>1 DEF Knows, Working
    <3>. QED BY <3>1, <3>2
  <2>4. f \in [Open(t) -> V]
    BY <2>1
  <2>. QED BY <2>1, <2>2, <2>3, <2>4 DEF CallsOwned
<1>5. BidsOwned(t, d, V)'
  <2>1. PICK g \in [Nat -> W \cup {NoOne}] :
          /\ \A k \in DOMAIN bids[t] : ~bids[t][k].scoped =>
               g[k] \in W /\ \A q \in Bidders : g[k] = c[q] => Saw(q, t, k)
          /\ \A w \in W : \A i : Cardinality(Mine(bids[t], g, w, i)) <= MaxBids
    BY DEF BidsOwned
  <2>2. bids'[t] = bids[t]
    BY <1>1 DEF boardVars
  <2>3. ASSUME NEW k \in DOMAIN bids[t], ~bids[t][k].scoped, NEW q \in Bidders, g[k] = d[q]
        PROVE  Saw(q, t, k)'
    <3>1. CASE q = p
      <4>1. proc'[p].seen = bids[t]
        BY <1>2, <2>1, <2>3, <3>1
      <4>. QED BY <2>2, <2>3, <3>1, <4>1 DEF Saw
    <3>2. CASE q # p
      <4>1. Saw(q, t, k)
        BY <1>2, <2>1, <2>3, <3>2
      <4>. QED BY <1>1, <2>2, <3>2, <4>1 DEF Saw, Working
    <3>. QED BY <3>1, <3>2
  <2>4. ASSUME NEW w \in V, NEW i PROVE Cardinality(Mine(bids[t], g, w, i)) <= MaxBids
    <3>1. CASE w \in W
      BY <2>1, <3>1
    <3>2. CASE w \notin W
      <4>1. Mine(bids[t], g, w, i) = {}
        BY <2>1, <3>2 DEF Mine
      <4>2. Cardinality({}) = 0
        BY FS_EmptySet
      <4>. QED BY <4>1, <4>2, CnpConstants
    <3>. QED BY <3>1, <3>2
  <2>5. g \in [Nat -> V \cup {NoOne}]
    BY <2>1
  <2>. QED BY <2>1, <2>2, <2>3, <2>4, <2>5 DEF BidsOwned
<1>. QED BY <1>3, <1>4, <1>5 DEF Owned

LEMMA OwnedNext ==
  ASSUME Typed, Typed', [CnpNext]_cnpVars, NEW t \in Tasks, Races(t) PROVE Races(t)'
<1>0. PICK n \in Nat : n = behind[t].look
  BY DEF Typed, BehindOK
<1>1. PICK W : W = Owners(n)
  OBVIOUS
<1>2. PICK c : Tokens(c, W) /\ CallsOwned(t, c, W) /\ BidsOwned(t, c, W)
  BY <1>0, <1>1 DEF Races, Owned
<1>3. CASE \A p \in Bidders : ~Look(p, t)
  <2>1. behind'[t].look = n
    BY <1>0, <1>3, LagNext
  <2>2. CallsOwned(t, c, W)' /\ BidsOwned(t, c, W)'
    BY <1>2, <1>3, CallsOwnedNext, BidsOwnedNext DEF Typed
  <2>3. Owned(t, W)'
    BY <1>2, <2>2 DEF Owned
  <2>. QED BY <1>1, <2>1, <2>3 DEF Races
<1>4. ASSUME NEW p \in Bidders, Look(p, t) PROVE Races(t)'
  <2>1. PICK shown \in SUBSET DOMAIN bids[t], O \in SUBSET DOMAIN cfps[t] :
          /\ Looks(p, t, shown, O)
          /\ \/ LookLags(t)
             \/ UNCHANGED behind /\ shown = DOMAIN bids[t] /\ O = Open(t)
    BY <1>4, LookShape
  <2>2. CASE LookLags(t)
    <3>1. behind'[t].look = n + 1
      BY <1>0, <2>2 DEF LookLags, Typed, BehindOK
    <3>2. PICK V, o : V = Owners(n + 1) /\ o = <<NoOne, n + 1>>
      OBVIOUS
    <3>3. W \subseteq V /\ o \in V /\ o \notin W /\ o[2] # 0
      BY <1>1, <3>2 DEF Owners
    <3>4. \A q \in Bidders \ {p} : c[q] # o
      BY <1>2, <3>3 DEF Tokens
    <3>5. Owned(t, V)'
      BY <1>2, <1>4, <3>3, <3>4, LookOwned
    <3>. QED BY <3>1, <3>2, <3>5 DEF Races
  <2>3. CASE UNCHANGED behind /\ shown = DOMAIN bids[t] /\ O = Open(t)
    <3>1. behind'[t].look = n
      BY <1>0, <2>3
    <3>2. PICK o : o = <<p, 0>>
      OBVIOUS
    <3>3. o \in W /\ o[2] = 0
      BY <1>1, <3>2 DEF Owners
    <3>4. \A q \in Bidders \ {p} : c[q] # o
      <4>1. ASSUME NEW q \in Bidders, q # p, c[q] = o PROVE FALSE
        <5>1. o = <<q, 0>>
          BY <1>2, <3>3, <4>1 DEF Tokens
        <5>. QED BY <3>2, <4>1, <5>1
      <4>. QED BY <4>1
    <3>5. PICK s \in Seq(AnyBid) : s = bids[t] /\ Part(bids[t], shown) = s
      <4>1. bids[t] \in Seq(AnyBid)
        BY DEF Typed, BoardOK
      <4>. QED BY <2>3, <4>1, PartWhole
    <3>6. proc'[p].seen = bids[t] /\ proc'[p].open = Open(t)
      <4>1. PICK q \in Proc : q = proc[p]
        BY DEF Typed, ProcsOK
      <4>2. proc'[p] = Looked(q, t, s, O)
        BY <2>1, <3>5, <4>1 DEF Looks, Typed, ProcsOK
      <4>. QED BY <2>3, <3>5, <4>2 DEF Looked, Proc
    <3>7. Owned(t, W)'
      BY <1>2, <1>4, <3>2, <3>3, <3>4, <3>6, LookOwned
    <3>. QED BY <1>1, <3>1, <3>7 DEF Races
  <2>. QED BY <2>1, <2>2, <2>3
<1>. QED BY <1>3, <1>4

\* With finitely many bidders, an owner for every call and every bid bounds both.
LEMMA OwnersCount ==
  ASSUME IsFiniteSet(Bidders), NEW n \in Nat
  PROVE  IsFiniteSet(Owners(n)) /\ Cardinality(Owners(n)) = Cardinality(Bidders) + n
<1>1. PICK A, B : A = Bidders \X {0} /\ B = {NoOne} \X (1..n) /\ Owners(n) = A \cup B
  BY DEF Owners
<1>2. IsFiniteSet({0}) /\ Cardinality({0}) = 1 /\ IsFiniteSet({NoOne}) /\ Cardinality({NoOne}) = 1
  BY FS_Singleton
<1>3. IsFiniteSet(1..n) /\ Cardinality(1..n) = n
  BY FS_Interval
<1>4. Cardinality(Bidders) \in Nat
  BY FS_CardinalityType
<1>5. IsFiniteSet(A) /\ Cardinality(A) = Cardinality(Bidders) * 1
  BY <1>1, <1>2, FS_Product
<1>6. IsFiniteSet(B) /\ Cardinality(B) = 1 * n
  BY <1>1, <1>2, <1>3, FS_Product
<1>7. A \cap B = {}
  BY <1>1
<1>8. IsFiniteSet(A \cup B) /\ Cardinality(A \cup B) = Cardinality(A) + Cardinality(B) - Cardinality({})
  BY <1>5, <1>6, <1>7, FS_Union
<1>9. Cardinality({}) = 0
  BY FS_EmptySet
<1>. QED BY <1>1, <1>4, <1>5, <1>6, <1>8, <1>9

LEMMA RaceBound == ASSUME IsFiniteSet(Bidders), Typed, RaceInv PROVE RacesBounded
<1>. SUFFICES ASSUME NEW t \in Tasks
     PROVE  LET fillings == Cardinality(Bidders) + behind[t].look
            IN /\ Cardinality(Open(t)) <= fillings
               /\ \A i \in DOMAIN cfps[t] :
                    Cardinality({k \in DOMAIN bids[t] \ ScopedBids(bids[t]) : bids[t][k].cfp = i})
                      <= MaxBids * fillings
  BY DEF RacesBounded
<1>0. PICK n \in Nat : n = behind[t].look
  BY DEF Typed, BehindOK
<1>w. PICK W : W = Owners(n) /\ IsFiniteSet(W) /\ Cardinality(W) = Cardinality(Bidders) + n
  BY OwnersCount
<1>c. PICK c : CallsOwned(t, c, W) /\ BidsOwned(t, c, W)
  BY <1>0, <1>w DEF RaceInv, Races, Owned
<1>1. Cardinality(Open(t)) <= Cardinality(W)
  <2>1. PICK f \in [Open(t) -> W] : \A i, j \in Open(t) : f[i] = f[j] => i = j
    BY <1>c DEF CallsOwned
  <2>2. f \in Injection(Open(t), W)
    BY <2>1 DEF Injection, IsInjective
  <2>. QED BY <1>w, <2>2, FS_Injection
<1>2. ASSUME NEW i
      PROVE  Cardinality({k \in DOMAIN bids[t] \ ScopedBids(bids[t]) : bids[t][k].cfp = i})
               <= MaxBids * Cardinality(W)
  <2>1. PICK g \in [Nat -> W \cup {NoOne}] :
    /\ \A k \in DOMAIN bids[t] : ~bids[t][k].scoped => g[k] \in W
    /\ \A w \in W : Cardinality(Mine(bids[t], g, w, i)) <= MaxBids
    BY <1>c DEF BidsOwned
  <2>2. PICK K : K = {k \in DOMAIN bids[t] \ ScopedBids(bids[t]) : bids[t][k].cfp = i}
    OBVIOUS
  <2>3. DOMAIN bids[t] = 1..Len(bids[t]) /\ Len(bids[t]) \in Nat
    BY DEF Typed, BoardOK
  <2>4. IsFiniteSet(K) /\ K \in SUBSET Nat
    <3>1. IsFiniteSet(1..Len(bids[t])) /\ K \in SUBSET (1..Len(bids[t]))
      BY <2>2, <2>3, FS_Interval
    <3>2. K \in SUBSET Nat
      BY <2>3, <3>1
    <3>. QED BY <3>1, <3>2, FS_Subset
  <2>5. PICK h : h = [k \in K |-> g[k]]
    OBVIOUS
  <2>6. h \in [K -> W]
    BY <2>1, <2>2, <2>5 DEF ScopedBids
  <2>7. \A w \in W : {k \in K : h[k] = w} = Mine(bids[t], g, w, i)
    BY <2>2, <2>5 DEF Mine, ScopedBids
  <2>8. \A w \in W : Cardinality({k \in K : h[k] = w}) <= MaxBids
    BY <2>1, <2>7
  <2>. QED BY <1>w, <2>2, <2>4, <2>6, <2>8, OwnersBound, CnpConstants
<1>. QED BY <1>0, <1>1, <1>2, <1>w

\* However bidders race between reading the board and writing to it, each leaves at
\* most one open call and MaxBids bids per call behind, and each list that lagged as
\* many again: a bidder whose lists show all has seen what it wrote (a bound the code
\* never states, for any number of replicas).
THEOREM RacesStayBounded == ASSUME IsFiniteSet(Bidders) PROVE CnpSpec => []RacesBounded
<1>1. Typed /\ Typed' /\ RaceInv /\ [CnpNext]_cnpVars => RaceInv'
  <2>. SUFFICES ASSUME Typed, Typed', RaceInv, [CnpNext]_cnpVars PROVE RaceInv'
    OBVIOUS
  <2>1. \A t \in Tasks : Races(t)
    BY DEF RaceInv
  <2>2. \A t \in Tasks : Races(t)'
    BY <2>1, OwnedNext
  <2>. QED BY <2>2 DEF RaceInv
<1>2. Typed /\ RaceInv => RacesBounded
  BY RaceBound
<1>. QED BY <1>1, <1>2, RaceStart, CnpTyped, PTL DEF CnpSpec

=============================================================================
