----------------------------- MODULE AnchorPool -----------------------------
(***************************************************************************)
(* The worker pool of the iacp service that writes envelopes to the chain  *)
(* as memos: a bounded queue in memory, a fixed number of submissions in   *)
(* flight, and retries that come back to the head of the queue when their  *)
(* timer fires. An item is the envelope it anchors.                        *)
(***************************************************************************)
EXTENDS Naturals, Sequences, FiniteSets

CONSTANTS
    Items,          \* envelopes that can be anchored
    Workers,        \* IACP_ANCHOR_WORKERS
    QueueCap,       \* IACP_ANCHOR_QUEUE_CAP
    MaxRetries      \* IACP_ANCHOR_MAX_RETRIES

ASSUME AnchorAssumption ==
    Workers \in Nat \ {0} /\ QueueCap \in Nat \ {0} /\ MaxRetries \in Nat \ {0}

VARIABLES
    queue,      \* items that wait for a worker
    inFlight,   \* items whose submission is awaited
    timers,     \* items that wait for their retry
    attempts,   \* failed attempts of each item the pool holds
    running

poolVars == <<queue, inFlight, timers, attempts, running>>

Queued(i) == \E k \in 1..Len(queue) : queue[k] = i
InPool(i) == i \in inFlight \cup timers \/ Queued(i)

PoolTypeOK ==
    /\ queue \in Seq(Items)
    /\ inFlight \subseteq Items /\ timers \subseteq Items
    /\ attempts \in [Items -> 0..MaxRetries]
    /\ running \in BOOLEAN

PoolInit ==
    /\ queue = <<>> /\ inFlight = {} /\ timers = {}
    /\ attempts = [i \in Items |-> 0]
    /\ running = TRUE

\* maybeStart: while a worker is free and the queue is not empty, its head is
\* submitted. q and busy are the queue and the submissions before it.
MaybeStart(q, busy) ==
    LET free == IF running THEN Workers - Cardinality(busy) ELSE 0
        n == IF Len(q) < free THEN Len(q) ELSE free IN
    /\ inFlight' = busy \cup {q[k] : k \in 1..n}
    /\ queue' = SubSeq(q, n + 1, Len(q))

\* enqueue of an envelope on a task topic: dropped when the pool is stopped or its
\* queue is full.
Enqueue(i) ==
    /\ IF running /\ Len(queue) < QueueCap
       THEN MaybeStart(Append(queue, i), inFlight)
       ELSE UNCHANGED <<queue, inFlight>>
    /\ UNCHANGED <<timers, attempts, running>>

\* The submission of i is confirmed.
Submitted(i) ==
    /\ i \in inFlight
    /\ attempts' = [attempts EXCEPT ![i] = 0]
    /\ MaybeStart(queue, inFlight \ {i})
    /\ UNCHANGED <<timers, running>>

\* The submission of i throws. The item is given up after its last attempt and gets
\* a timer before that.
SubmitFailed(i) ==
    /\ i \in inFlight
    /\ \/ /\ attempts[i] + 1 >= MaxRetries
          /\ attempts' = [attempts EXCEPT ![i] = 0]
          /\ UNCHANGED timers
       \/ /\ attempts[i] + 1 < MaxRetries
          /\ attempts' = [attempts EXCEPT ![i] = @ + 1]
          /\ timers' = timers \cup {i}
    /\ MaybeStart(queue, inFlight \ {i})
    /\ UNCHANGED running

\* Fault: the item is put back and no worker is started for it.
RetryIdle(i) ==
    /\ i \in timers
    /\ timers' = timers \ {i}
    /\ IF running THEN queue' = <<i>> \o queue ELSE UNCHANGED queue
    /\ UNCHANGED <<inFlight, attempts, running>>

\* The retry timer of i fires: i goes to the head of the queue, which may be full.
\* A pool that was stopped drops it.
Retry(i) ==
    /\ i \in timers
    /\ timers' = timers \ {i}
    /\ IF running THEN MaybeStart(<<i>> \o queue, inFlight) ELSE UNCHANGED <<queue, inFlight>>
    /\ UNCHANGED <<attempts, running>>

\* stop: what is in flight may still finish, nothing is started any more.
StopPool ==
    /\ running /\ running' = FALSE
    /\ UNCHANGED <<queue, inFlight, timers, attempts>>

\* The process is gone with everything the pool held, and starts again empty.
PoolRestart ==
    /\ queue' = <<>> /\ inFlight' = {} /\ timers' = {}
    /\ attempts' = [i \in Items |-> 0]
    /\ running' = TRUE

\* Submissions end (they wait for a confirmation until the blockhash expires) and
\* timers fire.
PoolFairness ==
    \A i \in Items : WF_poolVars(Submitted(i) \/ SubmitFailed(i)) /\ WF_poolVars(Retry(i))

-----------------------------------------------------------------------------
\* While the pool runs, every envelope it accepted leaves it, submitted or given up:
\* a retry that overtakes a full queue, or an item that waits behind retries, is not
\* forgotten.
AnchorSettles == \A i \in Items : InPool(i) ~> (~InPool(i) \/ ~running)
=============================================================================
