----------------------------- MODULE WebhookHub -----------------------------
(***************************************************************************)
(* The webhooks of the discovery service. A producer polls the indexer's   *)
(* table program_events behind a cursor and emits each row as an event;    *)
(* the hub makes a delivery for every subscription that wants the event,   *)
(* posts it, and retries with a timer until the endpoint takes it or       *)
(* maxAttempts is reached. Subscriptions, events and deliveries are kept   *)
(* in memory and rewritten to one file after every change (persistState),  *)
(* the cursor is a row of the database, timers and requests in flight are  *)
(* only in memory. Handlers are split at their awaits.                     *)
(*                                                                         *)
(* A row is its id; a subscription its place in the order of creation; a   *)
(* delivery its place in the order of creation. The store file is          *)
(* configured, and writing it succeeds; the producer is enabled. Changing  *)
(* a secret, its versions and the reads are left out.                      *)
(***************************************************************************)
EXTENDS Naturals, Sequences, FiniteSets, SequencesExt, FiniteSetsExt

CONSTANTS
    Rows,           \* bound: ids of the rows the indexer commits, 1..n
    ApiEvents,      \* bound: events that POST /webhooks/events brings
    IdOf,           \* ids of the events: the caller chooses those of ApiEvents
    Types,          \* event types
    TypeOf,         \* [Rows \cup ApiEvents -> Types \cup {Malformed}]
    Malformed,      \* a row whose data mapEventRow does not understand
    MaxRequests,    \* bound: requests that emit or replay an event
    MaxDeliveries,  \* the deliveries that these bounds allow
    Interest,       \* bound: the types each subscription asks for, by its place
    BatchSize,      \* LIMIT of the producer's query
    MaxAttempts,    \* maxAttempts of the hub
    MaxFailures     \* bound: crashes and failed cursor updates

MaxSubs == Len(Interest)
Ids == Rows \cup ApiEvents
LiveStates == {"pending", "retrying"}

\* The schema takes any id from the API, the id of a row too; the hub's constructor
\* makes maxAttempts at least one.
ASSUME HubAssumption ==
    /\ IsFiniteSet(Rows) /\ Rows = 1..Cardinality(Rows)
    /\ Rows \cap ApiEvents = {}
    /\ IdOf \in [Ids -> Ids] /\ \A r \in Rows : IdOf[r] = r
    /\ TypeOf \in [Ids -> Types \cup {Malformed}] /\ Malformed \notin Types
    /\ Interest \in Seq(SUBSET Types)
    /\ BatchSize \in Nat \ {0} /\ MaxAttempts \in Nat \ {0}
    /\ MaxRequests \in Nat /\ MaxFailures \in Nat

VARIABLES
    committed,      \* rows in program_events: 1..committed
    cursor,         \* last_event_id of webhook_event_cursor
    subs,           \* set of types each subscription wants
    events,         \* the map of events
    deliveries,     \* [sub, ev, state, attempts]
    saved,          \* events in the file; subs and deliveries are always written
    up,
    started,        \* the producer is started
    timers,         \* deliveries with a timer
    inFlight,       \* deliveries whose POST is awaited
    running,        \* the producer's flag: a tick is under way
    batch,          \* rows of the tick that are not emitted yet
    latest,         \* last row of the tick
    awaited,        \* deliveries whose first POST the tick's emit awaits
    requests,
    subsAt,         \* history: number of subscriptions when a row was committed
    shadowed,       \* history: rows passed over because an event of the API has their id
    failures

tableVars == <<committed, cursor, subsAt>>
producerVars == <<started, running, batch, latest, awaited, shadowed>>
hubVars == <<subs, events, deliveries, saved, timers, inFlight, requests>>
vars == <<tableVars, producerVars, hubVars, up, failures>>

Delivery == [sub : 1..MaxSubs, ev : Ids, state : LiveStates \cup {"delivered", "dead_letter"},
             attempts : Nat]

TypeOK ==
    /\ committed \in 0..Cardinality(Rows) /\ cursor \in 0..committed
    /\ subs \in Seq(SUBSET Types) /\ Len(subs) <= MaxSubs
    /\ saved \subseteq events /\ events \subseteq Ids
    /\ deliveries \in Seq(Delivery) /\ Len(deliveries) <= MaxDeliveries
    /\ timers \subseteq DOMAIN deliveries /\ inFlight \subseteq DOMAIN deliveries
    /\ batch \in Seq(Rows) /\ awaited \subseteq inFlight
    /\ up \in BOOLEAN /\ started \in BOOLEAN /\ running \in BOOLEAN /\ shadowed \subseteq Rows
    /\ failures \in 0..MaxFailures

Init ==
    /\ committed = 0 /\ cursor = 0 /\ subsAt = <<>>
    /\ subs = <<>> /\ events = {} /\ deliveries = <<>> /\ saved = {}
    /\ timers = {} /\ inFlight = {} /\ requests = 0
    /\ running = FALSE /\ batch = <<>> /\ latest = 0 /\ awaited = {} /\ shadowed = {}
    /\ up = FALSE /\ started = FALSE /\ failures = 0

-----------------------------------------------------------------------------
(* The table *)

\* The indexer commits the next row.
CommitRow ==
    /\ committed + 1 \in Rows
    /\ committed' = committed + 1
    /\ subsAt' = Append(subsAt, Len(subs))
    /\ UNCHANGED <<cursor, producerVars, hubVars, up, failures>>

-----------------------------------------------------------------------------
(* The hub *)

\* createSubscription.
CreateSubscription ==
    /\ up /\ Len(subs) < MaxSubs
    /\ subs' = Append(subs, Interest[Len(subs) + 1])
    /\ saved' = events
    /\ UNCHANGED <<events, deliveries, timers, inFlight, requests, tableVars, producerVars, up, failures>>

\* Subscriptions that want an event.
Wanting(e) == {k \in 1..Len(subs) : TypeOf[e] \in subs[k]}

\* The list of them in the order of the map, as the set of such lists: it has one.
Matching(e) ==
    {to \in [1..Cardinality(Wanting(e)) -> Wanting(e)] :
        /\ \A i, j \in DOMAIN to : i < j => to[i] < to[j]
        /\ \A k \in Wanting(e) : \E i \in DOMAIN to : to[i] = k}

\* createDelivery for each subscription of to, and the part of dispatch before its
\* await: the attempt is counted and the POST sent.
Posted(e, to) ==
    [k \in 1..Len(to) |-> [sub |-> to[k], ev |-> e, state |-> "pending", attempts |-> 1]]

NewDeliveries(to) == Len(deliveries) + 1 .. Len(deliveries) + Len(to)

Deliver(e, to) ==
    /\ deliveries' = deliveries \o Posted(e, to)
    /\ inFlight' = inFlight \cup NewDeliveries(to)
    /\ UNCHANGED <<subs, timers>>

\* The map holds an event with the id of e.
Known(e) == \E f \in events : IdOf[f] = IdOf[e]

\* emit of an event whose id the map does not hold, for the subscriptions of to. Without
\* one nothing is written.
EmitNew(e, to) ==
    /\ ~Known(e)
    /\ events' = events \cup {e}
    /\ Deliver(e, to)
    /\ saved' = IF to = <<>> THEN saved ELSE events'

\* POST /webhooks/events; an id that is known is answered as a duplicate.
EmitApi(e) ==
    /\ up /\ requests < MaxRequests
    /\ requests' = requests + 1
    /\ \E to \in Matching(e) : EmitNew(e, to)
    /\ UNCHANGED <<tableVars, producerVars, up, failures>>

\* POST /webhooks/replay of one event for one subscription; a request for more of them
\* is as many of these.
Replay(e, k) ==
    /\ up /\ e \in events /\ requests < MaxRequests
    /\ requests' = requests + 1
    /\ k \in DOMAIN subs /\ TypeOf[e] \in subs[k]
    /\ Deliver(e, <<k>>)
    /\ saved' = events
    /\ UNCHANGED <<events, tableVars, producerVars, up, failures>>

\* The POST of d is answered with a 2xx.
FetchOk(d) ==
    /\ d \in inFlight
    /\ inFlight' = inFlight \ {d}
    /\ awaited' = awaited \ {d}
    /\ deliveries' = [deliveries EXCEPT ![d].state = "delivered"]
    /\ saved' = events
    /\ UNCHANGED <<subs, events, timers, requests, tableVars, up, failures>>
    /\ UNCHANGED <<started, running, batch, latest, shadowed>>

\* It is answered with another status, or fails: dead letter after the last attempt,
\* a timer before that.
FetchFailed(d) ==
    /\ d \in inFlight
    /\ inFlight' = inFlight \ {d}
    /\ awaited' = awaited \ {d}
    /\ \/ /\ deliveries[d].attempts >= MaxAttempts
          /\ deliveries' = [deliveries EXCEPT ![d].state = "dead_letter"]
          /\ UNCHANGED timers
       \/ /\ deliveries[d].attempts < MaxAttempts
          /\ deliveries' = [deliveries EXCEPT ![d].state = "retrying"]
          /\ timers' = timers \cup {d}
    /\ saved' = events
    /\ UNCHANGED <<subs, events, requests, tableVars, up, failures>>
    /\ UNCHANGED <<started, running, batch, latest, shadowed>>

\* A timer fires: dispatch, which counts the attempt in the file before it posts.
TimerFires(d) ==
    /\ d \in timers
    /\ timers' = timers \ {d}
    /\ inFlight' = inFlight \cup {d}
    /\ deliveries' = [deliveries EXCEPT ![d].attempts = @ + 1]
    /\ saved' = events
    /\ UNCHANGED <<subs, events, requests, tableVars, producerVars, up, failures>>

-----------------------------------------------------------------------------
(* The producer *)

\* Fault: the cursor is moved when the rows have been read.
ProducerReadAdvances ==
    /\ up /\ started /\ ~running
    /\ cursor < committed
    /\ running' = TRUE
    /\ batch' = SubSeq([r \in 1..committed |-> r], cursor + 1,
                       IF cursor + BatchSize < committed THEN cursor + BatchSize ELSE committed)
    /\ latest' = Last(batch') /\ awaited' = {}
    /\ cursor' = latest'
    /\ UNCHANGED <<committed, subsAt, started, shadowed, hubVars, up, failures>>

\* A tick that finds rows behind the cursor. Rows of other events do not match the
\* query and are not modelled.
ProducerRead ==
    /\ up /\ started /\ ~running
    /\ cursor < committed
    /\ running' = TRUE
    /\ batch' = SubSeq([r \in 1..committed |-> r], cursor + 1,
                       IF cursor + BatchSize < committed THEN cursor + BatchSize ELSE committed)
    /\ latest' = cursor /\ awaited' = {}
    /\ UNCHANGED <<tableVars, started, shadowed, hubVars, up, failures>>

\* Fault: a malformed row ends the tick with an error.
ProducerEmitThrows ==
    /\ batch # <<>> /\ awaited = {}
    /\ LET e == Head(batch) IN
       \/ /\ TypeOf[e] # Malformed
          /\ batch' = Tail(batch) /\ latest' = e
          /\ \/ \E to \in Matching(e) : EmitNew(e, to) /\ awaited' = NewDeliveries(to)
             \/ Known(e) /\ UNCHANGED <<subs, events, deliveries, saved, timers, inFlight, awaited>>
          /\ UNCHANGED running
       \/ /\ TypeOf[e] = Malformed
          /\ running' = FALSE /\ batch' = <<>>
          /\ UNCHANGED <<subs, events, deliveries, saved, timers, inFlight, awaited, latest>>
    /\ UNCHANGED <<requests, tableVars, started, shadowed, up, failures>>

\* The next row of the tick, once the POSTs of the one before have ended: a malformed
\* row and a duplicate are passed over.
ProducerEmit ==
    /\ batch # <<>> /\ awaited = {}
    /\ batch' = Tail(batch) /\ latest' = Head(batch)
    /\ LET e == Head(batch) IN
       \/ /\ TypeOf[e] # Malformed
          /\ \E to \in Matching(e) : EmitNew(e, to) /\ awaited' = NewDeliveries(to)
          /\ UNCHANGED shadowed
       \/ /\ TypeOf[e] = Malformed \/ Known(e)
          /\ shadowed' = IF Known(e) /\ e \notin events THEN shadowed \cup {e} ELSE shadowed
          /\ UNCHANGED <<subs, events, deliveries, saved, timers, inFlight, awaited>>
    /\ UNCHANGED <<requests, tableVars, started, running, up, failures>>

\* The cursor is moved once, after the whole batch.
ProducerAdvance ==
    /\ running /\ batch = <<>> /\ awaited = {}
    /\ cursor' = latest
    /\ running' = FALSE
    /\ UNCHANGED <<committed, subsAt, started, batch, latest, awaited, shadowed, hubVars, up, failures>>

\* The update of the cursor fails: the tick ends and the next one reads the same rows.
ProducerFailed ==
    /\ running /\ batch = <<>> /\ awaited = {} /\ failures < MaxFailures
    /\ failures' = failures + 1
    /\ running' = FALSE
    /\ UNCHANGED <<tableVars, started, batch, latest, awaited, shadowed, hubVars, up>>

-----------------------------------------------------------------------------
(* The process *)

\* What is gone with the process.
Gone ==
    /\ up /\ up' = FALSE
    /\ failures < MaxFailures /\ failures' = failures + 1
    /\ timers' = {} /\ inFlight' = {}
    /\ started' = FALSE /\ running' = FALSE /\ batch' = <<>> /\ latest' = 0 /\ awaited' = {}
    /\ UNCHANGED <<tableVars, subs, shadowed>>

\* The process ends between two handlers: the file is as the last one left it.
Crash ==
    /\ Gone
    /\ events' = saved
    /\ UNCHANGED <<deliveries, saved, requests>>

\* It ends inside an emit or a replay of e: the file holds the first k of the new
\* deliveries, and of these the first n with their attempt counted.
KilledIn(e, to) ==
    \E k \in 1..Len(to), n \in 0..Len(to) :
        /\ n > 0 => k = Len(to)
        /\ deliveries' = deliveries \o
             [j \in 1..k |-> [sub |-> to[j], ev |-> e, state |-> "pending",
                              attempts |-> IF j <= n THEN 1 ELSE 0]]
        /\ saved' = events \cup {e} /\ events' = events \cup {e}

CrashInEmit ==
    /\ Gone
    /\ \/ /\ requests < MaxRequests /\ requests' = requests + 1
          /\ \/ \E e \in ApiEvents : ~Known(e) /\ \E to \in Matching(e) : KilledIn(e, to)
             \/ \E e \in events, k \in DOMAIN subs : TypeOf[e] \in subs[k] /\ KilledIn(e, <<k>>)
       \/ /\ UNCHANGED requests
          /\ batch # <<>> /\ awaited = {}
          /\ TypeOf[Head(batch)] # Malformed /\ ~Known(Head(batch))
          /\ \E to \in Matching(Head(batch)) : KilledIn(Head(batch), to)

\* The producer starts, or the process goes on without it because ensureSchema failed.
StartProducer ==
    /\ up' = TRUE /\ started' \in BOOLEAN
    /\ UNCHANGED <<running, batch, latest, awaited, shadowed>>
    /\ UNCHANGED <<tableVars, subs, events, deliveries, saved, inFlight, requests, failures>>

\* Fault: only what waits for a retry is resumed.
StartRetrying ==
    /\ ~up
    /\ timers' = {d \in DOMAIN deliveries : deliveries[d].state = "retrying"}
    /\ StartProducer

\* Fault: everything is resumed.
StartAll ==
    /\ ~up
    /\ timers' = DOMAIN deliveries
    /\ StartProducer

\* The process starts, for the first time or again: the hub loads the file and gives
\* every live delivery a timer.
Start ==
    /\ ~up
    /\ timers' = {d \in DOMAIN deliveries : deliveries[d].state \in LiveStates}
    /\ StartProducer

Next ==
    \/ CommitRow
    \/ CreateSubscription
    \/ \E e \in ApiEvents : EmitApi(e)
    \/ \E e \in Ids, k \in 1..MaxSubs : Replay(e, k)
    \/ \E d \in DOMAIN deliveries : FetchOk(d) \/ FetchFailed(d) \/ TimerFires(d)
    \/ ProducerRead \/ ProducerEmit \/ ProducerAdvance \/ ProducerFailed
    \/ Crash \/ CrashInEmit \/ Start

\* A request ends, if need be with the timeout that fetch has by default (the hub sets
\* none); timers fire; a producer that was started ticks every few seconds; the process is
\* started again.
Fairness ==
    /\ \A d \in 1..MaxDeliveries :
        /\ WF_vars(d \in DOMAIN deliveries /\ (FetchOk(d) \/ FetchFailed(d)))
        /\ WF_vars(d \in DOMAIN deliveries /\ TimerFires(d))
    /\ WF_vars(ProducerRead) /\ WF_vars(ProducerEmit) /\ WF_vars(ProducerAdvance \/ ProducerFailed)
    /\ WF_vars(Start)

Spec == Init /\ [][Next]_vars /\ Fairness

-----------------------------------------------------------------------------
(* Properties *)

\* Every delivery the hub has made ends delivered or as a dead letter, also when the
\* process dies before its first POST, while a POST is awaited or before a retry.
DeliverySettles ==
    \A d \in 1..MaxDeliveries :
        (d \in DOMAIN deliveries) ~> (d \in DOMAIN deliveries /\ deliveries[d].state \notin LiveStates)

\* An endpoint sees a delivery at most maxAttempts times, and once more for each failure
\* so far (a failed update of the cursor is counted with the crashes); one that is
\* settled is never posted again.
AttemptsBounded ==
    \A d \in DOMAIN deliveries :
        /\ deliveries[d].attempts <= MaxAttempts + failures
        /\ deliveries[d].state \notin LiveStates => d \notin timers \cup inFlight

\* Served(r, k): subscription k has a delivery of row r.
Served(r, k) == \E d \in DOMAIN deliveries : deliveries[d].ev = r /\ deliveries[d].sub = k

\* Subscriptions that were there when r was committed and want it.
Due(r) == {k \in 1..subsAt[r] : TypeOf[r] \in subs[k]}

\* The cursor does not pass a row that no subscriber got: whenever the process dies,
\* the oldest subscription that wanted the row has a delivery of it. Only a row whose id
\* an event of the API held when the producer came to it is passed over.
FirstSubscriberServed ==
    \A r \in (1..cursor) \ shadowed : Due(r) # {} => Served(r, Min(Due(r)))

\* The comment of the producer: at-least-once. Every subscription that wanted the row
\* when it was committed has a delivery once the cursor has passed it.
EverySubscriberServed ==
    \A r \in (1..cursor) \ shadowed : \A k \in Due(r) : Served(r, k)

\* A row that maps to an event does not wait for ever, whatever the rows before it are
\* (malformed, duplicates, or rows with an endpoint that is down) and however often the
\* process died, unless it runs for good without its producer.
RowsConsumed ==
    \A r \in {r \in Rows : TypeOf[r] # Malformed} :
        (committed >= r) ~> (cursor >= r \/ [](up /\ ~started))
=============================================================================
