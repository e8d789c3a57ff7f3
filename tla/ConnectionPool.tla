---------------------------- MODULE ConnectionPool ----------------------------
(***************************************************************************)
(* The pools of Couchbase bundles and the shared RabbitMQ connection.      *)
(*                                                                         *)
(* Two classes are called DynamicCouchbaseConnectionPool, that of the      *)
(* stores and an older one (legacy) of the pipeline orchestrator.  They    *)
(* differ in when a bundle is counted, in what a failing close does and in *)
(* what close_all forgets.  Their locks make acquire, release, the         *)
(* reaper's pass and close_all single steps, except that a thread sleeps   *)
(* inside acquire.                                                         *)
(***************************************************************************)
EXTENDS Naturals, FiniteSets

CONSTANTS
  Thread,         \* the threads that use a pool, and the coroutines of a loop
  Bundle,         \* connection bundles, enough for the ones opened
  MinSize, MaxSize,
  InitRetries,    \* CB_POOL_INIT_RETRIES
  ConnectRetries, \* RabbitMQConnectionManager._max_retries
  MaxPoolFaults   \* bound on connections that fail to open or to close

ASSUME SizeAssumption == MinSize \in Nat /\ MaxSize \in Nat \ {0} /\ MinSize <= MaxSize
ASSUME RetryBounds == InitRetries \in Nat \ {0} /\ ConnectRetries \in Nat \ {0} /\ MaxPoolFaults \in Nat
ASSUME FiniteAssumption == IsFiniteSet(Thread) /\ IsFiniteSet(Bundle)

VARIABLES
  legacy,    \* which of the two pools this is
  idle,      \* idle bundles
  stale,     \* the idle bundles that have been idle longer than idle_timeout
  total,     \* _total
  held,      \* the bundle each thread has
  waiting,   \* threads asleep in acquire
  woken,     \* those of them that were notified
  open,      \* bundles whose cluster connection is open
  pool,      \* "new", "running", "closed", "failed"
  attempt,   \* attempts of _init_cb_pool
  rabbit,    \* the shared AMQP connection: "none", "up"
  tries,     \* the attempt each coroutine's get_connection is at; 0: none
  pausing,   \* coroutines that sleep between two attempts
  sockets,   \* AMQP connections opened and not closed
  poolFaults

poolVars == <<legacy, idle, stale, total, held, waiting, woken, open, pool, attempt, rabbit, tries,
              pausing, sockets, poolFaults>>
amqpVars == <<rabbit, tries, pausing, sockets>>

PoolInit ==
  /\ legacy \in BOOLEAN
  /\ idle = {} /\ stale = {} /\ total = 0
  /\ held = [t \in Thread |-> {}]
  /\ waiting = {} /\ woken = {} /\ open = {}
  /\ pool = "new" /\ attempt = 1
  /\ rabbit = "none" /\ tries = [t \in Thread |-> 0]
  /\ pausing = {} /\ sockets = 0
  /\ poolFaults = 0

Fault == poolFaults < MaxPoolFaults

\* The constructor opens MinSize bundles.
CreatePool ==
  /\ pool = "new"
  /\ \E B \in SUBSET Bundle :
       /\ Cardinality(B) = MinSize
       /\ idle' = B /\ open' = open \cup B
  /\ total' = MinSize /\ pool' = "running"
  /\ UNCHANGED <<legacy, stale, held, waiting, woken, attempt, amqpVars, poolFaults>>

\* _init_cb_pool: one of them cannot be opened, which leaves the ones before it
\* open in an object nobody has; try again, or give up and raise.
CreateFails ==
  /\ pool = "new" /\ Fault
  /\ poolFaults' = poolFaults + 1
  /\ attempt' = attempt + 1
  /\ pool' = IF attempt < InitRetries THEN "new" ELSE "failed"
  /\ UNCHANGED <<legacy, idle, stale, total, held, waiting, woken, open, amqpVars>>

\* A thread enters acquire, or wakes up in it.
MayTry(t) ==
  /\ pool \in {"running", "closed"} /\ held[t] = {}
  /\ t \in waiting => t \in woken

Awake(t) == waiting' = waiting \ {t} /\ woken' = woken \ {t}

\* An idle bundle is taken.
AcquireIdle(t) ==
  /\ MayTry(t)
  /\ \E b \in idle :
       /\ idle' = idle \ {b} /\ stale' = stale \ {b}
       /\ held' = [held EXCEPT ![t] = {b}]
  /\ Awake(t)
  /\ UNCHANGED <<legacy, total, open, pool, attempt, amqpVars, poolFaults>>

\* There is room for another bundle.
HasRoom == total < MaxSize

\* None is idle and the pool is not full: a new one is opened.
AcquireNew(t) ==
  /\ MayTry(t) /\ idle = {} /\ HasRoom
  /\ \E b \in Bundle \ open :
       /\ open' = open \cup {b}
       /\ held' = [held EXCEPT ![t] = {b}]
  /\ total' = total + 1
  /\ Awake(t)
  /\ UNCHANGED <<legacy, idle, stale, pool, attempt, amqpVars, poolFaults>>

\* Opening fails and acquire raises.  The bundle was counted before it was
\* opened and stays counted; the legacy pool counts only what it has.
AcquireFails(t) ==
  /\ MayTry(t) /\ idle = {} /\ HasRoom /\ Fault
  /\ poolFaults' = poolFaults + 1
  /\ total' = IF legacy THEN total ELSE total + 1
  /\ Awake(t)
  /\ UNCHANGED <<legacy, idle, stale, held, open, pool, attempt, amqpVars>>

\* The pool is full: sleep.
AcquireWaits(t) ==
  /\ MayTry(t) /\ idle = {} /\ ~HasRoom
  /\ waiting' = waiting \cup {t} /\ woken' = woken \ {t}
  /\ UNCHANGED <<legacy, idle, stale, total, held, open, pool, attempt, amqpVars, poolFaults>>

\* The deadline passes: the loop looks once more before it raises.
AcquireTimesOut(t) ==
  /\ t \in waiting /\ idle = {} /\ ~HasRoom
  /\ Awake(t)
  /\ UNCHANGED <<legacy, idle, stale, total, held, open, pool, attempt, amqpVars, poolFaults>>

\* Condition.notify wakes one of the sleepers.
Notify == IF waiting \ woken = {} THEN UNCHANGED woken
                                  ELSE \E t \in waiting \ woken : woken' = woken \cup {t}

\* release, also at the end of collections(), cluster(), transactions() and the
\* pings; a closed pool takes the bundle back all the same.
Release(t) ==
  /\ held[t] # {}
  /\ idle' = idle \cup held[t]
  /\ held' = [held EXCEPT ![t] = {}]
  /\ Notify
  /\ UNCHANGED <<legacy, stale, total, waiting, open, pool, attempt, amqpVars, poolFaults>>

\* A bundle has been idle for idle_timeout, which is longer than anyone waits.
GrowStale ==
  /\ waiting = {}
  /\ \E b \in idle \ stale : stale' = stale \cup {b}
  /\ UNCHANGED <<legacy, idle, total, held, waiting, woken, open, pool, attempt, amqpVars, poolFaults>>

\* Faulty variant: the reaper forgets the count.
ReapUncounted(B) ==
  /\ idle' = idle \ B /\ open' = open \ B /\ stale' = stale \ B
  /\ UNCHANGED total

\* What a pass removes, as long as more than MinSize are counted.
Reaped(B) ==
  /\ idle' = idle \ B /\ open' = open \ B /\ stale' = stale \ B
  /\ total' = total - Cardinality(B)

\* One pass of _reaper.  A bundle whose close fails is dropped; the legacy pool
\* keeps it.
Reaper ==
  /\ pool = "running"
  /\ \E B \in SUBSET stale :
       /\ B # {} /\ Cardinality(B) <= total - MinSize
       /\ B = stale \/ Cardinality(B) = total - MinSize \/ (legacy /\ Fault)
       /\ Reaped(B)
       /\ poolFaults' = IF B = stale \/ Cardinality(B) = total - MinSize THEN poolFaults ELSE poolFaults + 1
  /\ UNCHANGED <<legacy, held, waiting, woken, pool, attempt, amqpVars>>

\* close_all closes the idle bundles and wakes everyone.  The pool forgets how
\* many bundles are still out; the legacy pool goes on counting all it opened.
CloseAll ==
  /\ pool = "running"
  /\ pool' = "closed"
  /\ open' = open \ idle /\ idle' = {} /\ stale' = {}
  /\ total' = IF legacy THEN total ELSE 0
  /\ woken' = waiting
  /\ UNCHANGED <<legacy, held, waiting, attempt, amqpVars, poolFaults>>

-----------------------------------------------------------------------------
\* get_connection: reuse the connection, or connect and wait.  Two coroutines
\* that find none both connect, and the later one's connection is kept.
GetConnection(t) ==
  /\ tries[t] = 0 /\ rabbit = "none"
  /\ tries' = [tries EXCEPT ![t] = 1]
  /\ UNCHANGED <<legacy, idle, stale, total, held, waiting, woken, open, pool, attempt, rabbit,
                 pausing, sockets, poolFaults>>

ConnectReturns(t) ==
  /\ tries[t] > 0 /\ t \notin pausing
  /\ tries' = [tries EXCEPT ![t] = 0]
  /\ rabbit' = "up" /\ sockets' = sockets + 1
  /\ UNCHANGED <<legacy, idle, stale, total, held, waiting, woken, open, pool, attempt, pausing, poolFaults>>

\* An attempt fails; the last one raises, the others are followed by a pause.
ConnectFails(t) ==
  /\ tries[t] > 0 /\ t \notin pausing /\ Fault
  /\ poolFaults' = poolFaults + 1
  /\ tries' = [tries EXCEPT ![t] = IF @ < ConnectRetries THEN @ + 1 ELSE 0]
  /\ pausing' = IF tries[t] < ConnectRetries THEN pausing \cup {t} ELSE pausing
  /\ UNCHANGED <<legacy, idle, stale, total, held, waiting, woken, open, pool, attempt, rabbit, sockets>>

\* The next attempt takes the connection another coroutine has made meanwhile.
ConnectAgain(t) ==
  /\ t \in pausing /\ pausing' = pausing \ {t}
  /\ tries' = [tries EXCEPT ![t] = IF rabbit = "up" THEN 0 ELSE @]
  /\ UNCHANGED <<legacy, idle, stale, total, held, waiting, woken, open, pool, attempt, rabbit,
                 sockets, poolFaults>>

\* get_channel could not open a channel: the connection is forgotten, not closed,
\* and another is made.
ChannelFails ==
  /\ rabbit = "up" /\ Fault
  /\ poolFaults' = poolFaults + 1
  /\ rabbit' = "none"
  /\ UNCHANGED <<legacy, idle, stale, total, held, waiting, woken, open, pool, attempt, tries,
                 pausing, sockets>>

PoolNext ==
  \/ CreatePool \/ CreateFails \/ GrowStale \/ Reaper \/ CloseAll \/ ChannelFails
  \/ \E t \in Thread :
       \/ AcquireIdle(t) \/ AcquireNew(t) \/ AcquireFails(t) \/ AcquireWaits(t) \/ AcquireTimesOut(t)
       \/ Release(t)
       \/ GetConnection(t) \/ ConnectReturns(t) \/ ConnectFails(t) \/ ConnectAgain(t)

PoolSpec == PoolInit /\ [][PoolNext]_poolVars

-----------------------------------------------------------------------------
(***************************************************************************)
(* Properties.                                                             *)
(***************************************************************************)

\* While the pool runs its count is right: the open bundles are the idle and the
\* held ones, each of them in one place, they and the slots lost to failed
\* openings are what is counted, and that is never more than MaxSize, whatever
\* the threads, the reaper and the failures do in between.
PoolAccounts ==
  pool = "running" =>
    /\ open = idle \cup UNION {held[t] : t \in Thread}
    /\ \A t \in Thread : held[t] \cap idle = {} /\ \A u \in Thread \ {t} : held[t] \cap held[u] = {}
    /\ Cardinality(open) <= total /\ total <= MaxSize
    /\ total - Cardinality(open) <= (IF legacy THEN 0 ELSE poolFaults)

\* Nobody sleeps through a bundle: while one is idle and threads sleep in
\* acquire, one of them has been woken.
NoLostWakeup == idle # {} /\ waiting # {} => woken # {}

\* However many coroutines find no AMQP connection at the same time, each of them
\* leaves at most one behind, and one more for every failure.
SocketsBounded ==
  /\ sockets <= Cardinality(Thread) * (1 + poolFaults)
  /\ rabbit = "up" => sockets > 0

\* The pools count their bundles right and wake their waiters, and connecting
\* to the broker comes to an end.
PoolSound == PoolAccounts /\ NoLostWakeup /\ SocketsBounded
=============================================================================
