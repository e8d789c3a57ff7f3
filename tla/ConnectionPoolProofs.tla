------------------------- MODULE ConnectionPoolProofs -------------------------
(***************************************************************************)
(* Proofs about ConnectionPool, for any numbers of threads and bundles and *)
(* any sizes of the pool.                                                  *)
(***************************************************************************)
EXTENDS ConnectionPool, FiniteSetTheorems, TLAPS

(***************************************************************************)
(* Typing, with what the later arguments need of it: a thread has at most  *)
(* one bundle, only sleepers are woken, and a pool whose constructor has   *)
(* not returned has nothing.                                               *)
(***************************************************************************)
BundleType ==
  /\ legacy \in BOOLEAN
  /\ idle \in SUBSET Bundle /\ stale \in SUBSET idle /\ open \in SUBSET Bundle
  /\ total \in Nat
  /\ held \in [Thread -> SUBSET Bundle]
  /\ waiting \in SUBSET Thread /\ woken \in SUBSET waiting
  /\ pool \in {"new", "running", "closed", "failed"}
  /\ attempt \in Nat /\ poolFaults \in Nat

HoldsOne == \A t \in Thread : held[t] # {} => \E b \in Bundle : held[t] = {b}

NotYetCreated ==
  pool \in {"new", "failed"} =>
    /\ idle = {} /\ open = {} /\ total = 0 /\ waiting = {}
    /\ \A t \in Thread : held[t] = {}

AmqpType ==
  /\ rabbit \in {"none", "up"}
  /\ tries \in [Thread -> Nat]
  /\ pausing \in SUBSET Thread
  /\ sockets \in Nat

PoolTypeOK == BundleType /\ HoldsOne /\ NotYetCreated /\ AmqpType

\* The steps of the AMQP connection leave the pool alone.
AmqpStep ==
  \/ ChannelFails
  \/ \E t \in Thread : GetConnection(t) \/ ConnectReturns(t) \/ ConnectFails(t) \/ ConnectAgain(t)

\* At the start the variables have their types.
LEMMA PoolTypeInit == PoolInit => PoolTypeOK
BY DEF PoolInit, PoolTypeOK, BundleType, HoldsOne, NotYetCreated, AmqpType

\* What the AMQP steps do to the rest.
LEMMA AmqpStepFrame ==
  ASSUME PoolTypeOK, AmqpStep
  PROVE  /\ UNCHANGED <<legacy, idle, stale, total, held, waiting, woken, open, pool, attempt>>
         /\ poolFaults' \in Nat /\ poolFaults <= poolFaults'
         /\ AmqpType'
<1>. USE DEF PoolTypeOK, AmqpType, BundleType
<1>1. UNCHANGED <<legacy, idle, stale, total, held, waiting, woken, open, pool, attempt>>
  BY DEF AmqpStep, ChannelFails, GetConnection, ConnectReturns, ConnectFails, ConnectAgain
<1>2. poolFaults' \in Nat /\ poolFaults <= poolFaults'
  BY DEF AmqpStep, ChannelFails, GetConnection, ConnectReturns, ConnectFails, ConnectAgain
<1>3. AmqpType'
  <2>1. CASE ChannelFails
    BY <2>1 DEF ChannelFails
  <2>2. ASSUME NEW t \in Thread, GetConnection(t) PROVE AmqpType'
    BY <2>2 DEF GetConnection
  <2>3. ASSUME NEW t \in Thread, ConnectReturns(t) PROVE AmqpType'
    BY <2>3 DEF ConnectReturns
  <2>4. ASSUME NEW t \in Thread, ConnectFails(t) PROVE AmqpType'
    BY <2>4 DEF ConnectFails
  <2>5. ASSUME NEW t \in Thread, ConnectAgain(t) PROVE AmqpType'
    BY <2>5 DEF ConnectAgain
  <2>. QED BY <2>1, <2>2, <2>3, <2>4, <2>5 DEF AmqpStep
<1>. QED BY <1>1, <1>2, <1>3

\* The reaper removes stale bundles, no more than are counted.
LEMMA ReaperFacts ==
  ASSUME PoolTypeOK, Reaper
  PROVE  \E B \in SUBSET stale :
           /\ Cardinality(B) \in Nat /\ Cardinality(B) <= total - MinSize
           /\ idle' = idle \ B /\ open' = open \ B /\ stale' = stale \ B
           /\ total' = total - Cardinality(B) /\ total' \in Nat
           /\ poolFaults' \in Nat /\ poolFaults <= poolFaults'
<1>1. PICK B \in SUBSET stale :
        /\ Cardinality(B) <= total - MinSize
        /\ Reaped(B)
        /\ poolFaults' = IF B = stale \/ Cardinality(B) = total - MinSize THEN poolFaults
                                                                          ELSE poolFaults + 1
  BY DEF Reaper
<1>2. B \subseteq Bundle
  BY DEF PoolTypeOK, BundleType
<1>3. IsFiniteSet(B) /\ Cardinality(B) \in Nat
  BY <1>2, FiniteAssumption, FS_Subset, FS_CardinalityType
<1>4. total \in Nat /\ poolFaults \in Nat /\ MinSize \in Nat
  BY SizeAssumption DEF PoolTypeOK, BundleType
<1>5. total - Cardinality(B) \in Nat
  BY <1>1, <1>3, <1>4
<1>. QED BY <1>1, <1>3, <1>4, <1>5 DEF Reaped

\* Every step of the pool keeps the types.
LEMMA BundleTypeStep ==
  ASSUME PoolTypeOK, PoolNext, ~AmqpStep
  PROVE  BundleType' /\ AmqpType'
<1>. USE DEF PoolTypeOK, BundleType
<1>0. UNCHANGED amqpVars => AmqpType'
  BY DEF AmqpType, amqpVars
<1>1. CASE CreatePool
  BY <1>0, <1>1, SizeAssumption DEF CreatePool, NotYetCreated
<1>2. CASE CreateFails
  BY <1>0, <1>2 DEF CreateFails
<1>3. CASE GrowStale
  BY <1>0, <1>3 DEF GrowStale
<1>4. CASE Reaper
  <2>1. UNCHANGED <<legacy, held, waiting, woken, pool, attempt, amqpVars>>
    BY <1>4 DEF Reaper
  <2>. QED BY <1>0, <1>4, <2>1, ReaperFacts
<1>5. CASE CloseAll
  BY <1>0, <1>5 DEF CloseAll
<1>6. ASSUME NEW t \in Thread, AcquireIdle(t) PROVE BundleType' /\ AmqpType'
  BY <1>0, <1>6 DEF AcquireIdle, Awake
<1>7. ASSUME NEW t \in Thread, AcquireNew(t) PROVE BundleType' /\ AmqpType'
  BY <1>0, <1>7 DEF AcquireNew, Awake
<1>8. ASSUME NEW t \in Thread, AcquireFails(t) PROVE BundleType' /\ AmqpType'
  BY <1>0, <1>8 DEF AcquireFails, Awake
<1>9. ASSUME NEW t \in Thread, AcquireWaits(t) PROVE BundleType' /\ AmqpType'
  BY <1>0, <1>9 DEF AcquireWaits
<1>10. ASSUME NEW t \in Thread, AcquireTimesOut(t) PROVE BundleType' /\ AmqpType'
  BY <1>0, <1>10 DEF AcquireTimesOut, Awake
<1>11. ASSUME NEW t \in Thread, Release(t) PROVE BundleType' /\ AmqpType'
  <2>1. woken' \in SUBSET waiting
    BY <1>11 DEF Release, Notify
  <2>. QED BY <1>0, <1>11, <2>1 DEF Release
<1>. QED BY <1>1, <1>2, <1>3, <1>4, <1>5, <1>6, <1>7, <1>8, <1>9, <1>10, <1>11
         DEF PoolNext, AmqpStep

\* Threads keep at most one bundle, and a pool that was never created nothing.
LEMMA HoldsOneStep ==
  ASSUME PoolTypeOK, PoolNext, ~AmqpStep
  PROVE  HoldsOne' /\ NotYetCreated'
<1>. USE DEF PoolTypeOK, BundleType, HoldsOne, NotYetCreated
<1>1. CASE CreatePool \/ CreateFails \/ GrowStale \/ CloseAll
  BY <1>1 DEF CreatePool, CreateFails, GrowStale, CloseAll
<1>2. CASE Reaper
  BY <1>2 DEF Reaper
<1>3. ASSUME NEW t \in Thread,
             \/ AcquireFails(t) \/ AcquireWaits(t) \/ AcquireTimesOut(t)
      PROVE  HoldsOne' /\ NotYetCreated'
  BY <1>3 DEF AcquireFails, AcquireWaits, AcquireTimesOut, MayTry
<1>4. ASSUME NEW t \in Thread, AcquireIdle(t) PROVE HoldsOne' /\ NotYetCreated'
  BY <1>4 DEF AcquireIdle, MayTry
<1>5. ASSUME NEW t \in Thread, AcquireNew(t) PROVE HoldsOne' /\ NotYetCreated'
  BY <1>5 DEF AcquireNew, MayTry
<1>6. ASSUME NEW t \in Thread, Release(t) PROVE HoldsOne' /\ NotYetCreated'
  BY <1>6 DEF Release
<1>. QED BY <1>1, <1>2, <1>3, <1>4, <1>5, <1>6 DEF PoolNext, AmqpStep

\* Every step keeps the typing invariant.
LEMMA PoolTypeNext ==
  ASSUME PoolTypeOK, [PoolNext]_poolVars
  PROVE  PoolTypeOK'
<1>1. CASE UNCHANGED poolVars
  BY <1>1 DEF poolVars, PoolTypeOK, BundleType, HoldsOne, NotYetCreated, AmqpType
<1>2. CASE AmqpStep
  BY <1>2, AmqpStepFrame DEF PoolTypeOK, BundleType, HoldsOne, NotYetCreated
<1>3. CASE PoolNext /\ ~AmqpStep
  BY <1>3, BundleTypeStep, HoldsOneStep DEF PoolTypeOK
<1>. QED BY <1>1, <1>2, <1>3

-----------------------------------------------------------------------------
(***************************************************************************)
(* The count of a running pool.                                            *)
(***************************************************************************)
Partition ==
  /\ \A b : b \in open <=> b \in idle \/ \E t \in Thread : b \in held[t]
  /\ \A t \in Thread : held[t] \cap idle = {} /\ \A u \in Thread \ {t} : held[t] \cap held[u] = {}

Slack == IF legacy THEN 0 ELSE poolFaults

Counting ==
  /\ Cardinality(open) <= total /\ total <= MaxSize
  /\ total - Cardinality(open) <= Slack

\* The parts of PoolAccounts.
LEMMA PoolAccountsParts == PoolAccounts <=> (pool = "running" => Partition /\ Counting)
BY DEF PoolAccounts, Partition, Counting, Slack

\* Sets of bundles and of threads are finite.
LEMMA PoolFinite ==
  ASSUME PoolTypeOK
  PROVE  /\ IsFiniteSet(idle) /\ IsFiniteSet(open) /\ IsFiniteSet(waiting) /\ IsFiniteSet(woken)
         /\ Cardinality(idle) \in Nat /\ Cardinality(open) \in Nat
         /\ Cardinality(waiting) \in Nat /\ Cardinality(woken) \in Nat
<1>1. idle \in SUBSET Bundle /\ open \in SUBSET Bundle
      /\ waiting \in SUBSET Thread /\ woken \in SUBSET Thread
  BY DEF PoolTypeOK, BundleType
<1>2. IsFiniteSet(idle) /\ IsFiniteSet(open) /\ IsFiniteSet(waiting) /\ IsFiniteSet(woken)
  BY <1>1, FiniteAssumption, FS_Subset
<1>. QED BY <1>2, FS_CardinalityType

\* A bundle moves between the idle ones and a thread, or enters or leaves with
\* the open ones: the two lists stay apart and complete.
LEMMA PartitionStep ==
  ASSUME PoolTypeOK, PoolAccounts, PoolNext, ~AmqpStep, pool' = "running"
  PROVE  Partition'
<1>. USE DEF PoolTypeOK, BundleType
<1>1. CASE CreatePool
  <2>1. held' = held /\ idle' = open'
    BY <1>1 DEF CreatePool, NotYetCreated
  <2>2. \A t \in Thread : held[t] = {}
    BY <1>1 DEF CreatePool, NotYetCreated
  <2>. QED BY <2>1, <2>2 DEF Partition
<1>2. CASE pool = "running"
  <2>0. Partition
    BY <1>2, PoolAccountsParts
  <2>1. CASE Reaper
    <3>1. PICK B \in SUBSET stale : idle' = idle \ B /\ open' = open \ B
      BY <2>1, ReaperFacts
    <3>2. held' = held
      BY <2>1 DEF Reaper
    <3>. QED BY <2>0, <3>1, <3>2 DEF Partition
  <2>2. CASE GrowStale
    BY <2>0, <2>2 DEF GrowStale, Partition
  <2>3. ASSUME NEW t \in Thread, AcquireFails(t) \/ AcquireWaits(t) \/ AcquireTimesOut(t)
        PROVE  Partition'
    BY <2>0, <2>3 DEF AcquireFails, AcquireWaits, AcquireTimesOut, Partition
  <2>4. ASSUME NEW t \in Thread, AcquireIdle(t) PROVE Partition'
    <3>1. PICK b \in idle : idle' = idle \ {b} /\ held' = [held EXCEPT ![t] = {b}]
      BY <2>4 DEF AcquireIdle
    <3>2. open' = open /\ held[t] = {}
      BY <2>4 DEF AcquireIdle, MayTry
    <3>3. held'[t] = {b} /\ \A u \in Thread \ {t} : held'[u] = held[u]
      BY <3>1
    <3>. QED BY <2>0, <3>1, <3>2, <3>3 DEF Partition
  <2>5. ASSUME NEW t \in Thread, AcquireNew(t) PROVE Partition'
    <3>1. PICK b \in Bundle \ open : open' = open \cup {b} /\ held' = [held EXCEPT ![t] = {b}]
      BY <2>5 DEF AcquireNew
    <3>2. idle' = idle /\ idle = {} /\ held[t] = {}
      BY <2>5 DEF AcquireNew, MayTry
    <3>3. held'[t] = {b} /\ \A u \in Thread \ {t} : held'[u] = held[u]
      BY <3>1
    <3>. QED BY <2>0, <3>1, <3>2, <3>3 DEF Partition
  <2>6. ASSUME NEW t \in Thread, Release(t) PROVE Partition'
    <3>1. idle' = idle \cup held[t] /\ open' = open
      BY <2>6 DEF Release
    <3>2. held'[t] = {} /\ \A u \in Thread \ {t} : held'[u] = held[u]
      BY <2>6 DEF Release
    <3>. QED BY <2>0, <3>1, <3>2 DEF Partition
  <2>7. ~CreatePool /\ ~CreateFails /\ ~CloseAll
    BY <1>2 DEF CreatePool, CreateFails, CloseAll
  <2>. QED BY <2>1, <2>2, <2>3, <2>4, <2>5, <2>6, <2>7 DEF PoolNext, AmqpStep
<1>3. pool = "running" \/ CreatePool
  BY DEF PoolNext, AmqpStep, CreateFails, GrowStale, Reaper, CloseAll, AcquireIdle, AcquireNew,
         AcquireFails, AcquireWaits, AcquireTimesOut, Release
<1>. QED BY <1>1, <1>2, <1>3

\* Every step that opens or closes a bundle counts it, and a failed opening
\* takes at most one slot.
LEMMA CountingStep ==
  ASSUME PoolTypeOK, PoolAccounts, PoolNext, ~AmqpStep, pool' = "running"
  PROVE  Counting'
<1>. USE SizeAssumption DEF PoolTypeOK, BundleType
<1>0. /\ IsFiniteSet(open) /\ Cardinality(open) \in Nat /\ poolFaults \in Nat /\ total \in Nat
      /\ Slack \in Nat
  BY PoolFinite DEF Slack
<1>1. CASE CreatePool
  <2>1. open = {} /\ legacy' = legacy /\ poolFaults' = poolFaults
    BY <1>1 DEF CreatePool, NotYetCreated
  <2>2. total' = MinSize /\ Cardinality(open') = MinSize
    BY <1>1, <2>1 DEF CreatePool
  <2>. QED BY <1>0, <2>1, <2>2 DEF Counting, Slack
<1>2. CASE pool = "running"
  <2>0. Counting
    BY <1>2, PoolAccountsParts
  <2>1. CASE Reaper
    <3>1. PICK B \in SUBSET stale :
            /\ Cardinality(B) \in Nat /\ Cardinality(B) <= total - MinSize
            /\ open' = open \ B
            /\ total' = total - Cardinality(B)
            /\ poolFaults' \in Nat /\ poolFaults <= poolFaults'
      BY <2>1, ReaperFacts
    <3>2. B \subseteq open
      BY <1>2 DEF PoolAccounts
    <3>3. Cardinality(open') = Cardinality(open) - Cardinality(B)
      <4>1. open \cap B = B
        BY <3>2
      <4>. QED BY <1>0, <3>1, <4>1, FS_Difference
    <3>4. legacy' = legacy
      BY <2>1 DEF Reaper
    <3>. QED BY <1>0, <2>0, <3>1, <3>3, <3>4 DEF Counting, Slack
  <2>2. CASE UNCHANGED <<open, total, legacy, poolFaults>>
    BY <2>0, <2>2 DEF Counting, Slack
  <2>3. ASSUME NEW t \in Thread, AcquireFails(t) PROVE Counting'
    BY <1>0, <2>0, <2>3 DEF AcquireFails, HasRoom, Counting, Slack
  <2>4. ASSUME NEW t \in Thread, AcquireNew(t) PROVE Counting'
    <3>1. PICK b \in Bundle \ open : open' = open \cup {b}
      BY <2>4 DEF AcquireNew
    <3>2. Cardinality(open') = Cardinality(open) + 1
      BY <1>0, <3>1, FS_AddElement
    <3>3. total' = total + 1 /\ total < MaxSize /\ legacy' = legacy /\ poolFaults' = poolFaults
      BY <2>4 DEF AcquireNew, HasRoom
    <3>. QED BY <1>0, <2>0, <3>2, <3>3 DEF Counting, Slack
  <2>5. ASSUME NEW t \in Thread, \/ AcquireIdle(t) \/ AcquireWaits(t) \/ AcquireTimesOut(t)
                                 \/ Release(t)
        PROVE  UNCHANGED <<open, total, legacy, poolFaults>>
    BY <2>5 DEF AcquireIdle, AcquireWaits, AcquireTimesOut, Release
  <2>6. CASE GrowStale
    BY <2>2, <2>6 DEF GrowStale
  <2>7. ~CreatePool /\ ~CreateFails /\ ~CloseAll
    BY <1>2 DEF CreatePool, CreateFails, CloseAll
  <2>. QED BY <2>1, <2>2, <2>3, <2>4, <2>5, <2>6, <2>7 DEF PoolNext, AmqpStep
<1>3. pool = "running" \/ CreatePool
  BY DEF PoolNext, AmqpStep, CreateFails, GrowStale, Reaper, CloseAll, AcquireIdle, AcquireNew,
         AcquireFails, AcquireWaits, AcquireTimesOut, Release
<1>. QED BY <1>1, <1>2, <1>3

\* Every step keeps the count right.
LEMMA PoolAccountsNext ==
  ASSUME PoolTypeOK, PoolAccounts, [PoolNext]_poolVars
  PROVE  PoolAccounts'
<1>1. CASE UNCHANGED poolVars
  BY <1>1 DEF poolVars, PoolAccounts
<1>2. CASE AmqpStep
  <2>1. /\ UNCHANGED <<legacy, idle, total, held, open, pool>>
        /\ poolFaults \in Nat /\ poolFaults' \in Nat /\ poolFaults <= poolFaults'
        /\ total \in Nat /\ Cardinality(open) \in Nat
    BY <1>2, AmqpStepFrame, PoolFinite DEF PoolTypeOK, BundleType
  <2>. QED BY <2>1 DEF PoolAccounts
<1>3. CASE PoolNext /\ ~AmqpStep
  <2>1. pool' = "running" => Partition' /\ Counting'
    BY <1>3, PartitionStep, CountingStep
  <2>. QED BY <2>1 DEF PoolAccounts, Partition, Counting, Slack
<1>. QED BY <1>1, <1>2, <1>3

-----------------------------------------------------------------------------
(***************************************************************************)
(* Wake-ups.  NoLostWakeup is not inductive: with two bundles idle and one *)
(* sleeper woken, that one takes a bundle and leaves the other to no one.  *)
(* What is: there are as many woken sleepers as idle bundles, or all are.  *)
(***************************************************************************)
EnoughWoken == Cardinality(idle) <= Cardinality(woken) \/ woken = waiting

\* Every step keeps enough sleepers woken: only release adds an idle bundle,
\* and it notifies.
LEMMA EnoughWokenNext ==
  ASSUME PoolTypeOK, EnoughWoken, [PoolNext]_poolVars
  PROVE  EnoughWoken'
<1>. USE DEF EnoughWoken
<1>0. /\ IsFiniteSet(idle) /\ Cardinality(idle) \in Nat
      /\ IsFiniteSet(woken) /\ Cardinality(woken) \in Nat
      /\ woken \subseteq waiting
  BY PoolFinite DEF PoolTypeOK, BundleType
<1>1. CASE UNCHANGED poolVars
  BY <1>1 DEF poolVars
<1>2. CASE AmqpStep
  BY <1>2, AmqpStepFrame
<1>3. ASSUME idle' = {}, IsFiniteSet(woken') PROVE EnoughWoken'
  BY <1>3, FS_EmptySet, FS_CardinalityType
<1>4. CASE CreatePool
  <2>1. waiting = {} /\ UNCHANGED <<waiting, woken>>
    BY <1>4 DEF CreatePool, PoolTypeOK, NotYetCreated
  <2>. QED BY <1>0, <2>1
<1>5. CASE CreateFails \/ GrowStale
  BY <1>5 DEF CreateFails, GrowStale
<1>6. CASE Reaper
  <2>1. PICK B : idle' = idle \ B
    BY <1>6, ReaperFacts
  <2>2. Cardinality(idle') <= Cardinality(idle) /\ Cardinality(idle') \in Nat
    BY <1>0, <2>1, FS_Subset, FS_CardinalityType
  <2>3. UNCHANGED <<waiting, woken>>
    BY <1>6 DEF Reaper
  <2>. QED BY <1>0, <2>2, <2>3
<1>7. CASE CloseAll
  BY <1>7 DEF CloseAll
<1>8. ASSUME NEW t \in Thread,
             \/ AcquireNew(t) \/ AcquireFails(t) \/ AcquireWaits(t) \/ AcquireTimesOut(t)
      PROVE  EnoughWoken'
  <2>1. idle' = {} /\ woken' = woken \ {t}
    BY <1>8 DEF AcquireNew, AcquireFails, AcquireWaits, AcquireTimesOut, Awake
  <2>. QED BY <1>0, <1>3, <2>1, FS_RemoveElement
<1>9. ASSUME NEW t \in Thread, AcquireIdle(t) PROVE EnoughWoken'
  <2>1. PICK b \in idle : idle' = idle \ {b}
    BY <1>9 DEF AcquireIdle
  <2>2. waiting' = waiting \ {t} /\ woken' = woken \ {t}
    BY <1>9 DEF AcquireIdle, Awake
  <2>3. Cardinality(idle') = Cardinality(idle) - 1
    BY <1>0, <2>1, FS_RemoveElement
  <2>4. Cardinality(woken') \in {Cardinality(woken), Cardinality(woken) - 1}
    BY <1>0, <2>2, FS_RemoveElement
  <2>. QED BY <1>0, <2>2, <2>3, <2>4
<1>10. ASSUME NEW t \in Thread, Release(t) PROVE EnoughWoken'
  <2>1. PICK b \in Bundle : held[t] = {b}
    BY <1>10 DEF Release, PoolTypeOK, HoldsOne
  <2>2. idle' = idle \cup {b} /\ waiting' = waiting
    BY <1>10, <2>1 DEF Release
  <2>3. Cardinality(idle') \in {Cardinality(idle), Cardinality(idle) + 1}
    BY <1>0, <2>2, FS_AddElement
  <2>4. CASE waiting \ woken = {}
    BY <1>0, <1>10, <2>2, <2>4 DEF Release, Notify
  <2>5. CASE waiting \ woken # {}
    <3>1. PICK u \in waiting \ woken : woken' = woken \cup {u}
      BY <1>10, <2>5 DEF Release, Notify
    <3>2. Cardinality(woken') = Cardinality(woken) + 1
      BY <1>0, <3>1, FS_AddElement
    <3>. QED BY <1>0, <2>3, <2>5, <3>2
  <2>. QED BY <2>4, <2>5
<1>. QED BY <1>1, <1>2, <1>4, <1>5, <1>6, <1>7, <1>8, <1>9, <1>10 DEF PoolNext, AmqpStep

\* Enough woken sleepers means at least one.
LEMMA WokenFacts == ASSUME PoolTypeOK, EnoughWoken PROVE NoLostWakeup
<1>1. idle # {} => Cardinality(idle) # 0
  BY PoolFinite, FS_EmptySet
<1>2. woken = {} => Cardinality(woken) = 0
  BY FS_EmptySet
<1>. QED BY <1>1, <1>2, PoolFinite DEF NoLostWakeup, EnoughWoken

-----------------------------------------------------------------------------
(***************************************************************************)
(* The AMQP connections.  While there is one nobody starts to connect, so  *)
(* every coroutine that is still connecting pays for its own socket; when  *)
(* the connection is forgotten, a failure pays for all of them.            *)
(***************************************************************************)
Connecting == {t \in Thread : tries[t] > 0}

SocketBudget ==
  LET n == Cardinality(Thread)
  IN  /\ rabbit = "none" => sockets <= n * poolFaults
      /\ rabbit = "up" => sockets > 0 /\ sockets + Cardinality(Connecting) <= n * poolFaults + n

\* The coroutines are finitely many.
LEMMA ConnectingFacts ==
  /\ Cardinality(Thread) \in Nat
  /\ IsFiniteSet(Connecting) /\ Cardinality(Connecting) \in Nat
  /\ Cardinality(Connecting) <= Cardinality(Thread)
<1>1. IsFiniteSet(Thread) /\ Connecting \in SUBSET Thread
  BY FiniteAssumption DEF Connecting
<1>. QED BY <1>1, FS_Subset, FS_CardinalityType

\* One more failure pays for one more socket of every coroutine.
LEMMA BudgetGrows ==
  ASSUME NEW n \in Nat, NEW f \in Nat
  PROVE  n * f \in Nat /\ n * (f + 1) = n * f + n
OBVIOUS

\* Every step stays within the budget.
LEMMA SocketBudgetNext ==
  ASSUME PoolTypeOK, SocketBudget, [PoolNext]_poolVars
  PROVE  SocketBudget'
<1>. DEFINE n == Cardinality(Thread)
            k == Cardinality(Connecting)
            paid == n * poolFaults
<1>. USE DEF SocketBudget
<1>0. /\ n \in Nat /\ k \in Nat /\ k <= n /\ IsFiniteSet(Connecting)
      /\ poolFaults \in Nat /\ sockets \in Nat /\ tries \in [Thread -> Nat]
      /\ rabbit \in {"none", "up"}
      /\ paid \in Nat /\ n * (poolFaults + 1) = paid + n
  BY ConnectingFacts, BudgetGrows DEF PoolTypeOK, BundleType, AmqpType
<1>. HIDE DEF n
<1>1. /\ rabbit = "none" => sockets <= paid
      /\ rabbit = "up" => sockets > 0 /\ sockets + k <= paid + n
  BY DEF n
<1>2. ASSUME UNCHANGED <<rabbit, sockets>>, Cardinality(Connecting') \in Nat,
             Cardinality(Connecting') <= k,
             poolFaults' \in {poolFaults, poolFaults + 1}
      PROVE  SocketBudget'
  <2>. DEFINE due == n * poolFaults'
  <2>1. due \in {paid, paid + n}
    <3>1. CASE poolFaults' = poolFaults
      BY <3>1
    <3>2. CASE poolFaults' = poolFaults + 1
      BY <1>0, <3>2
    <3>. QED BY <1>2, <3>1, <3>2
  <2>2. UNCHANGED <<rabbit, sockets>> /\ Cardinality(Connecting') \in Nat /\ Cardinality(Connecting') <= k
    BY <1>2
  <2>. HIDE DEF k, paid, due
  <2>3. /\ rabbit' = "none" => sockets' <= due
        /\ rabbit' = "up" => sockets' > 0 /\ sockets' + Cardinality(Connecting') <= due + n
    BY <1>0, <1>1, <2>1, <2>2
  <2>. QED BY <2>3 DEF n, due
<1>3. ASSUME UNCHANGED amqpVars, poolFaults' \in {poolFaults, poolFaults + 1}
      PROVE  SocketBudget'
  BY <1>0, <1>2, <1>3 DEF amqpVars, Connecting
<1>4. CASE UNCHANGED poolVars
  BY <1>3, <1>4 DEF poolVars, amqpVars
<1>5. CASE PoolNext /\ ~AmqpStep
  <2>1. UNCHANGED amqpVars
    BY <1>5 DEF PoolNext, AmqpStep, CreatePool, CreateFails, GrowStale, Reaper, CloseAll,
                AcquireIdle, AcquireNew, AcquireFails, AcquireWaits, AcquireTimesOut, Release
  <2>2. poolFaults' \in {poolFaults, poolFaults + 1}
    BY <1>5 DEF PoolNext, AmqpStep, CreatePool, CreateFails, GrowStale, Reaper, CloseAll,
                AcquireIdle, AcquireNew, AcquireFails, AcquireWaits, AcquireTimesOut, Release
  <2>. QED BY <1>3, <2>1, <2>2
<1>6. CASE ChannelFails
  <2>1. rabbit = "up" /\ rabbit' = "none" /\ sockets' = sockets /\ poolFaults' = poolFaults + 1
    BY <1>6 DEF ChannelFails
  <2>2. sockets <= paid + n
    BY <1>0, <1>1, <2>1
  <2>. QED BY <1>0, <2>1, <2>2 DEF n
<1>7. ASSUME NEW t \in Thread, GetConnection(t) PROVE SocketBudget'
  BY <1>1, <1>7 DEF GetConnection, n
<1>8. ASSUME NEW t \in Thread, ConnectReturns(t) PROVE SocketBudget'
  <2>1. /\ rabbit' = "up" /\ sockets' = sockets + 1 /\ poolFaults' = poolFaults
        /\ t \in Connecting
    BY <1>8 DEF ConnectReturns, Connecting
  <2>2. Connecting' = Connecting \ {t}
    BY <1>0, <1>8 DEF ConnectReturns, Connecting
  <2>3. Cardinality(Connecting') = k - 1
    BY <1>0, <2>1, <2>2, FS_RemoveElement
  <2>. HIDE DEF k, paid
  <2>4. sockets + k <= paid + n
    BY <1>0, <1>1
  <2>5. sockets' > 0 /\ sockets' + Cardinality(Connecting') <= paid + n
    BY <1>0, <2>1, <2>3, <2>4
  <2>. QED BY <2>1, <2>5 DEF n, paid
<1>9. ASSUME NEW t \in Thread, ConnectFails(t) \/ ConnectAgain(t) PROVE SocketBudget'
  <2>1. UNCHANGED <<rabbit, sockets>> /\ poolFaults' \in {poolFaults, poolFaults + 1}
    BY <1>9 DEF ConnectFails, ConnectAgain
  <2>2. Connecting' \subseteq Connecting
    BY <1>0, <1>9 DEF ConnectFails, ConnectAgain, Connecting
  <2>3. Cardinality(Connecting') \in Nat /\ Cardinality(Connecting') <= k
    BY <1>0, <2>2, FS_Subset, FS_CardinalityType
  <2>. QED BY <1>2, <2>1, <2>3
<1>. QED BY <1>4, <1>5, <1>6, <1>7, <1>8, <1>9 DEF AmqpStep

\* The budget bounds the sockets.
LEMMA SocketFacts == ASSUME PoolTypeOK, SocketBudget PROVE SocketsBounded
<1>. DEFINE n == Cardinality(Thread)
            k == Cardinality(Connecting)
<1>0. n \in Nat /\ k \in Nat /\ poolFaults \in Nat /\ sockets \in Nat /\ rabbit \in {"none", "up"}
  BY ConnectingFacts DEF PoolTypeOK, BundleType, AmqpType
<1>1. /\ rabbit = "none" => sockets <= n * poolFaults
      /\ rabbit = "up" => sockets > 0 /\ sockets + k <= n * poolFaults + n
  BY DEF SocketBudget
<1>. HIDE DEF n, k
<1>2. n * poolFaults \in Nat /\ n * (1 + poolFaults) = n * poolFaults + n
  BY <1>0
<1>3. sockets <= n * (1 + poolFaults)
  BY <1>0, <1>1, <1>2
<1>. QED BY <1>1, <1>3 DEF SocketsBounded, n

-----------------------------------------------------------------------------
PoolInv == PoolTypeOK /\ PoolAccounts /\ EnoughWoken /\ SocketBudget

\* A pool that was not created satisfies the invariant.
LEMMA PoolStart == PoolInit => PoolInv
<1>. SUFFICES ASSUME PoolInit PROVE PoolInv
  OBVIOUS
<1>1. PoolAccounts /\ EnoughWoken
  BY DEF PoolInit, PoolAccounts, EnoughWoken
<1>2. SocketBudget
  BY ConnectingFacts DEF PoolInit, SocketBudget
<1>. QED BY <1>1, <1>2, PoolTypeInit DEF PoolInv

\* In both pools, for any sizes and any number of threads: the open bundles are
\* the idle and the held ones and all of them are counted within MaxSize, no
\* thread sleeps in acquire through an idle bundle unless another was woken for
\* it, and the AMQP manager opens at most one connection per coroutine and
\* failure (acquire, release, _reaper, close_all; get_connection, get_channel).
THEOREM PoolIsSound == PoolSpec => []PoolSound
<1>1. PoolInv /\ [PoolNext]_poolVars => PoolInv'
  BY PoolTypeNext, PoolAccountsNext, EnoughWokenNext, SocketBudgetNext DEF PoolInv
<1>2. PoolInv => PoolSound
  BY WokenFacts, SocketFacts DEF PoolInv, PoolSound
<1>. QED BY PoolStart, <1>1, <1>2, PTL DEF PoolSpec
=============================================================================
