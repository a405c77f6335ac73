------------------------------ MODULE IacpBus ------------------------------
(***************************************************************************)
(* The iacp service: agents hold websockets, subscribe to topics and       *)
(* publish envelopes; an envelope is added to the Redis stream of its      *)
(* topic, and a pump reads the streams through one consumer group and      *)
(* hands every entry to the sockets that subscribe to its topic. Handlers  *)
(* are split at their awaits of Redis. Envelopes on task topics also go to *)
(* the pool of AnchorPool.                                                 *)
(*                                                                         *)
(* An entry of a stream is its topic and its position. The checks of an    *)
(* envelope (sender, limits, freshness, signature, lifetime, recipient)    *)
(* only decide whether it is published; a refused one is only answered.    *)
(***************************************************************************)
EXTENDS AnchorPool, Integers, SequencesExt, FiniteSetsExt

CONSTANTS
    Sockets,        \* websockets; one is used once
    Rest,           \* the origin of what comes through POST /publish
    Topics,
    TaskTopics,     \* topics that start with task.
    MaySubscribe,   \* [Sockets -> SUBSET Topics], an inbox is its owner's
    MAX_QUEUE,      \* frames a socket may have unsent
    ReadCount,      \* COUNT of a read
    RingCap,        \* IACP_RING_CAP
    MaxEntries,     \* bound: [Topics -> Nat], entries of each topic
    Publishers,     \* bound: origins that publish, of Sockets and Rest
    MaxFailures     \* bound: restarts, shutdowns and Redis errors

ASSUME BusAssumption ==
    /\ IsFiniteSet(Topics) /\ TaskTopics \subseteq Topics /\ Rest \notin Sockets
    /\ ReadCount \in Nat \ {0} /\ MAX_QUEUE \in Nat /\ RingCap \in Nat \ {0}

VARIABLES
    socket,         \* state of each socket and its unsent frames
    topics,         \* session.topics of each socket
    subscribers,    \* topicSubscribers: the topics that have an entry, and the sockets
    joining,        \* <<socket, topic>> whose sub awaits ensureGroup
    publishing,     \* <<origin, topic>> of the publishes that await XADD
    stream,         \* Redis: entries added to each stream
    group,          \* Redis: last entry delivered to the group
    pending,        \* Redis: entries delivered to a consumer and not acknowledged
    batch,          \* entries the pump has read and not finished
    awaitingAck,    \* the pump awaits the XACK of the first of them
    ring,           \* last entries of each topic, for /topics/:id/recent
    received,       \* history: entries sent to each socket
    dispatched,     \* history: entries handed to the subscribers
    pumping,        \* the flag of the pump's loop, cleared by a shutdown
    failures

busVars == <<socket, topics, subscribers, joining, publishing, stream, group,
             pending, batch, awaitingAck, ring, received, dispatched, pumping, failures>>
vars == <<busVars, poolVars>>

Positions == Nat \ {0}
NoGroup == -1
Known == DOMAIN subscribers
Open(s) == socket[s].state \in {"open", "closing"}

TypeOK ==
    /\ socket \in [Sockets -> [state : {"new", "open", "closing", "closed"}, unsent : 0..MAX_QUEUE]]
    /\ topics \in [Sockets -> SUBSET Topics]
    /\ Known \subseteq Topics /\ \A t \in Known : subscribers[t] \subseteq Sockets
    /\ joining \subseteq Sockets \X Topics
    /\ publishing \subseteq Publishers \X Topics
    /\ \A t \in Topics : stream[t] \in 0..MaxEntries[t]
    /\ group \in [Topics -> Nat \cup {NoGroup}]
    /\ pending \in [Topics -> SUBSET Positions]
    /\ batch \in Seq(Topics \X Positions) /\ awaitingAck \in BOOLEAN
    /\ ring \in [Topics -> Seq(Positions)]
    /\ pumping \in BOOLEAN /\ failures \in 0..MaxFailures
    /\ PoolTypeOK

Init ==
    /\ socket = [s \in Sockets |-> [state |-> "new", unsent |-> 0]]
    /\ topics = [s \in Sockets |-> {}]
    /\ subscribers = <<>> /\ joining = {}
    /\ publishing = {}
    /\ stream = [t \in Topics |-> 0]
    /\ group = [t \in Topics |-> NoGroup]
    /\ pending = [t \in Topics |-> {}]
    /\ batch = <<>> /\ awaitingAck = FALSE
    /\ ring = [t \in Topics |-> <<>>]
    /\ received = [s \in Sockets |-> <<>>]
    /\ dispatched = {}
    /\ pumping = TRUE /\ failures = 0
    /\ PoolInit

redisVars == <<publishing, stream, group, pending>>
pumpVars == <<batch, awaitingAck, ring, received, dispatched, pumping>>

-----------------------------------------------------------------------------
(* Sockets *)

\* onConnection.
Connect(s) ==
    /\ socket[s].state = "new" /\ pumping
    /\ socket' = [socket EXCEPT ![s].state = "open"]
    /\ UNCHANGED <<topics, subscribers, joining, redisVars, pumpVars, failures, poolVars>>

\* XGROUP CREATE ... $ MKSTREAM: a new group starts behind what the stream holds; a
\* group that exists is left alone.
EnsureGroup(t) ==
    group' = [group EXCEPT ![t] = IF @ = NoGroup THEN stream[t] ELSE @]

\* Fault: only the gateway's own table is prepared.
SubNoGroup(s, t) ==
    /\ socket[s].state = "open" /\ t \in MaySubscribe[s]
    /\ topics' = [topics EXCEPT ![s] = @ \cup {t}]
    /\ subscribers' = [u \in Known \cup {t} |->
         (IF u \in Known THEN subscribers[u] ELSE {}) \cup (IF u = t THEN {s} ELSE {})]
    /\ UNCHANGED <<socket, joining, redisVars, pumpVars, failures, poolVars>>

\* The frame sub. The first subscriber of a topic makes its entry, which the pump
\* sees at once, and awaits the group before it is entered itself; a later one is
\* entered at once.
Sub(s, t) ==
    /\ socket[s].state = "open" /\ t \in MaySubscribe[s]
    /\ topics' = [topics EXCEPT ![s] = @ \cup {t}]
    /\ \/ /\ t \notin Known
          /\ subscribers' = [u \in Known \cup {t} |-> IF u = t THEN {} ELSE subscribers[u]]
          /\ joining' = joining \cup {<<s, t>>}
       \/ /\ t \in Known
          /\ subscribers' = [subscribers EXCEPT ![t] = @ \cup {s}]
          /\ UNCHANGED joining
    /\ UNCHANGED <<socket, redisVars, pumpVars, failures, poolVars>>

\* The group is there: the socket is entered, closed or not.
Joined(s, t) ==
    /\ <<s, t>> \in joining
    /\ joining' = joining \ {<<s, t>>}
    /\ EnsureGroup(t)
    /\ subscribers' = [subscribers EXCEPT ![t] = @ \cup {s}]
    /\ UNCHANGED <<socket, topics, publishing, stream, pending, pumpVars, failures, poolVars>>

\* The frame unsub.
Unsub(s, t) ==
    /\ socket[s].state = "open" /\ t \in topics[s]
    /\ topics' = [topics EXCEPT ![s] = @ \ {t}]
    /\ subscribers' = [u \in Known |-> IF u = t THEN subscribers[u] \ {s} ELSE subscribers[u]]
    /\ UNCHANGED <<socket, joining, redisVars, pumpVars, failures, poolVars>>

\* The event close, of the peer or after a close of the server.
Close(s) ==
    /\ Open(s)
    /\ socket' = [socket EXCEPT ![s] = [state |-> "closed", unsent |-> 0]]
    /\ subscribers' = [t \in Known |-> IF t \in topics[s] THEN subscribers[t] \ {s} ELSE subscribers[t]]
    /\ topics' = [topics EXCEPT ![s] = {}]
    /\ UNCHANGED <<joining, redisVars, pumpVars, failures, poolVars>>

\* The callback of a send: the frame has left the server.
Sent(s) ==
    /\ Open(s) /\ socket[s].unsent > 0
    /\ socket' = [socket EXCEPT ![s].unsent = @ - 1]
    /\ UNCHANGED <<topics, subscribers, joining, redisVars, pumpVars, failures, poolVars>>

\* send: a frame for s is queued, or s is closed because its queue is full.
Send(s) ==
    socket' = [socket EXCEPT ![s] =
        IF @.unsent >= MAX_QUEUE THEN [@ EXCEPT !.state = IF @ = "open" THEN "closing" ELSE @]
        ELSE IF @.state \in {"open", "closing"} THEN [@ EXCEPT !.unsent = @ + 1]
        ELSE @]

\* A frame that is answered at once: ping, a frame that does not parse, a topic that
\* is somebody else's inbox, an envelope that is refused.
Answer(s) ==
    /\ socket[s].state = "open"
    /\ Send(s)
    /\ UNCHANGED <<topics, subscribers, joining, redisVars, pumpVars, failures, poolVars>>

-----------------------------------------------------------------------------
(* Publishing *)

\* An envelope from a socket or from POST /publish has passed its checks and the
\* group of its topic is ensured.
Publish(o, t) ==
    /\ o \in Sockets => socket[o].state = "open"
    /\ <<o, t>> \notin publishing
    /\ stream[t] + Cardinality({p \in publishing : p[2] = t}) < MaxEntries[t]
    /\ EnsureGroup(t)
    /\ publishing' = publishing \cup {<<o, t>>}
    /\ UNCHANGED <<socket, topics, subscribers, joining, stream, pending, pumpVars,
                   failures, poolVars>>

\* XADD, the anchoring of an envelope on a task topic (a socket can give it a type
\* that is not anchored), and the ack frame to a socket.
XAdd(o, t) ==
    /\ <<o, t>> \in publishing
    /\ publishing' = publishing \ {<<o, t>>}
    /\ stream' = [stream EXCEPT ![t] = @ + 1]
    /\ \/ t \in TaskTopics /\ Enqueue(<<t, stream[t] + 1>>)
       \/ (t \notin TaskTopics \/ o # Rest) /\ UNCHANGED poolVars
    /\ IF o = Rest THEN UNCHANGED socket ELSE Send(o)
    /\ UNCHANGED <<topics, subscribers, joining, group, pending, pumpVars, failures>>

\* The connection breaks after Redis did the XADD: the client library sends it again.
XAddResent(o, t) ==
    /\ failures < MaxFailures /\ <<o, t>> \in publishing
    /\ stream[t] + Cardinality({p \in publishing : p[2] = t}) < MaxEntries[t]
    /\ failures' = failures + 1
    /\ stream' = [stream EXCEPT ![t] = @ + 1]
    /\ UNCHANGED <<socket, topics, subscribers, joining, publishing, group, pending, pumpVars, poolVars>>

-----------------------------------------------------------------------------
(* The pump *)

\* The next entries of t for the group.
Unread(t) ==
    {i \in 1..stream[t] : group[t] < i /\ i <= group[t] + ReadCount}

\* XREADGROUP > over every topic that has an entry in topicSubscribers: Redis moves
\* the group past the entries and lists them as pending. It fails for all topics when
\* one has no group; the pump then waits and asks again.
ReadGroup ==
    /\ pumping /\ batch = <<>>
    /\ \A t \in Known : group[t] # NoGroup
    /\ \E t \in Known : Unread(t) # {}
    /\ group' = [t \in Topics |-> IF t \in Known /\ Unread(t) # {} THEN Max(Unread(t)) ELSE group[t]]
    /\ pending' = [t \in Topics |-> IF t \in Known THEN pending[t] \cup Unread(t) ELSE pending[t]]
    /\ UNCHANGED <<socket, topics, subscribers, joining, publishing, stream, 
                   awaitingAck, ring, received, dispatched, pumping, poolVars>>

\* The entries of a reply come stream by stream, each in its order.
Replies ==
    {b \in SetToSeqs(UNION {{t} \X Unread(t) : t \in Known}) :
        \A j, k \in DOMAIN b : (j < k /\ b[j][1] = b[k][1]) =>
            b[j][2] < b[k][2] /\ \A m \in j..k : b[m][1] = b[j][1]}

\* The reply reaches the pump.
PumpRead ==
    /\ ReadGroup
    /\ batch' \in Replies
    /\ UNCHANGED failures

\* The connection breaks under the reply: the client library sends the command again,
\* which asks for what is new.
ReadLost ==
    /\ failures < MaxFailures
    /\ failures' = failures + 1
    /\ ReadGroup
    /\ UNCHANGED batch

\* dispatch: the entry goes to the ring and to every subscriber that has a session.
\* One whose queue is full is closed instead.
Dispatch ==
    LET e == Head(batch)
        t == e[1]
        to == IF t \in Known THEN {s \in subscribers[t] : Open(s)} ELSE {}
        full == {s \in to : socket[s].unsent >= MAX_QUEUE} IN
    /\ batch # <<>> /\ ~awaitingAck
    /\ ring' = [ring EXCEPT ![t] =
         LET r == Append(@, e[2]) IN
         IF Len(r) > RingCap THEN Tail(r) ELSE r]
    /\ dispatched' = dispatched \cup {e}
    /\ received' = [s \in Sockets |->
         IF s \in to \ full /\ socket[s].state = "open" THEN Append(received[s], e) ELSE received[s]]
    /\ socket' = [s \in Sockets |->
         IF s \in full THEN [socket[s] EXCEPT !.state = "closing"]
         ELSE IF s \in to THEN [socket[s] EXCEPT !.unsent = @ + 1]
         ELSE socket[s]]
    /\ awaitingAck' = TRUE
    /\ UNCHANGED <<topics, subscribers, joining, redisVars, batch, pumping, failures, poolVars>>

\* XACK returned: on to the next entry.
Acked ==
    /\ awaitingAck
    /\ pending' = [pending EXCEPT ![Head(batch)[1]] = @ \ {Head(batch)[2]}]
    /\ batch' = Tail(batch) /\ awaitingAck' = FALSE
    /\ UNCHANGED <<socket, topics, subscribers, joining, publishing, stream, group,
                   ring, received, dispatched, pumping, failures, poolVars>>

\* Fault: after an error the pump starts over with the entries that are pending.
AckFailedReread ==
    /\ awaitingAck /\ failures < MaxFailures
    /\ failures' = failures + 1
    /\ awaitingAck' = FALSE
    /\ UNCHANGED <<socket, topics, subscribers, joining, redisVars, batch, ring, received, dispatched,
                   pumping, poolVars>>

\* Fault: the whole batch is acknowledged.
AckFailedAcksAll ==
    /\ awaitingAck /\ failures < MaxFailures
    /\ failures' = failures + 1
    /\ batch' = <<>> /\ awaitingAck' = FALSE
    /\ pending' = [t \in Topics |-> pending[t] \ {batch[k][2] : k \in 1..Len(batch)}]
    /\ UNCHANGED <<socket, topics, subscribers, joining, publishing, stream, group,
                   ring, received, dispatched, pumping, poolVars>>

\* Redis answers XACK with an error: the pump logs it and reads again, for what is
\* new. The rest of the batch is not dispatched and stays pending.
AckFailed ==
    /\ awaitingAck /\ failures < MaxFailures
    /\ failures' = failures + 1
    /\ batch' = <<>> /\ awaitingAck' = FALSE
    /\ UNCHANGED <<socket, topics, subscribers, joining, redisVars, ring, received, dispatched,
                   pumping, poolVars>>

-----------------------------------------------------------------------------
(* The process *)

\* SIGTERM: the loop of the pump is told to end and the server takes no more
\* connections.
Stop ==
    /\ pumping /\ pumping' = FALSE
    /\ failures < MaxFailures
    /\ failures' = failures + 1
    /\ UNCHANGED <<socket, topics, subscribers, joining, redisVars, batch, awaitingAck, ring,
                   received, dispatched, poolVars>>

\* app.close has returned, which takes until the last socket is gone: the pool is
\* stopped before the process exits.
AnchorStop ==
    /\ ~pumping /\ \A s \in Sockets : ~Open(s)
    /\ StopPool
    /\ UNCHANGED busVars

\* The process ends, killed or stopped, or through a rejected promise of a socket
\* handler, and starts again with a new consumer name: sockets, subscriptions and
\* everything in memory are gone.
Restart ==
    /\ failures < MaxFailures
    /\ failures' = failures + 1
    /\ socket' = [s \in Sockets |-> IF socket[s].state = "new" THEN socket[s]
                                    ELSE [state |-> "closed", unsent |-> 0]]
    /\ topics' = [s \in Sockets |-> {}]
    /\ subscribers' = <<>> /\ joining' = {}
    /\ publishing' = {}
    /\ batch' = <<>> /\ awaitingAck' = FALSE /\ pumping' = TRUE
    /\ ring' = [t \in Topics |-> <<>>]
    /\ PoolRestart
    /\ UNCHANGED <<stream, group, pending, received, dispatched>>

Next ==
    \/ \E s \in Sockets : Connect(s) \/ Close(s) \/ Sent(s) \/ Answer(s)
    \/ \E s \in Sockets, t \in Topics : Sub(s, t) \/ Joined(s, t) \/ Unsub(s, t)
    \/ \E o \in Publishers, t \in Topics : Publish(o, t) \/ XAdd(o, t) \/ XAddResent(o, t)
    \/ PumpRead \/ ReadLost \/ Dispatch \/ Acked \/ AckFailed
    \/ \E i \in Items : (Submitted(i) \/ SubmitFailed(i) \/ Retry(i)) /\ UNCHANGED busVars
    \/ Stop \/ AnchorStop \/ Restart

\* Redis answers; the pump is a loop that only a shutdown ends.
Fairness ==
    /\ \A s \in Sockets, t \in Topics : WF_vars(Joined(s, t))
    /\ WF_vars(PumpRead) /\ WF_vars(Dispatch) /\ WF_vars(Acked \/ AckFailed)
    /\ PoolFairness

Spec == Init /\ [][Next]_vars /\ Fairness

-----------------------------------------------------------------------------
(* Properties *)

\* A socket gets the entries of a topic in the order of its stream and none of them
\* twice, over errors of the acknowledgement, subscribing again and restarts.
PerTopicOrder ==
    \A s \in Sockets : \A j, k \in 1..Len(received[s]) :
        (j < k /\ received[s][j][1] = received[s][k][1]) => received[s][j][2] < received[s][k][2]

\* Redis is told that an entry is done only after it went to the subscribers: what
\* the group has delivered was dispatched or is still pending in the group.
DeliveredIsDispatchedOrPending ==
    \A t \in Topics : \A i \in 1..stream[t] :
        (group[t] # NoGroup /\ i <= group[t])
            => <<t, i>> \in dispatched \/ i \in pending[t]

\* The pump never gets stuck: once a topic has an entry in the table, what its stream
\* holds is read in the end, also while the group of another topic is not created yet
\* and after errors, unless the process is shut down or starts again.
StreamsDrained ==
    \A t \in Topics : (t \in Known /\ Unread(t) # {})
        ~> (t \notin Known \/ Unread(t) = {} \/ ~pumping)

=============================================================================
