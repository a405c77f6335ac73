---------------------------- MODULE WebhookProofs ----------------------------
(***************************************************************************)
(* Proofs about WebhookHub for any rows, events, subscriptions, sizes of a *)
(* batch, numbers of attempts and failures.                                *)
(***************************************************************************)
EXTENDS WebhookHub, FiniteSetTheorems, TLAPS

\* The types of what the proofs use.
HubTypes ==
    /\ committed \in Nat /\ (committed = 0 \/ committed \in Rows) /\ cursor \in 0..committed
    /\ subsAt \in Seq(Nat) /\ Len(subsAt) = committed
    /\ \A r \in 1..committed : subsAt[r] <= Len(subs)
    /\ subs \in Seq(SUBSET Types) /\ Len(subs) <= MaxSubs
    /\ saved \subseteq events /\ events \subseteq Ids
    /\ deliveries \in Seq(Delivery)
    /\ timers \subseteq DOMAIN deliveries /\ inFlight \subseteq DOMAIN deliveries
    /\ up \in BOOLEAN /\ running \in BOOLEAN /\ batch \in Seq(Nat) /\ latest \in Nat
    /\ failures \in Nat

\* A dead process has nothing under way, and only a tick has rows.
Quiet ==
    /\ ~up => timers = {} /\ inFlight = {} /\ ~running
    /\ ~running => batch = <<>>

\* A delivery has a timer or a POST that is awaited, not both, and only while it is
\* live.
PostsLive ==
    /\ timers \cap inFlight = {}
    /\ \A d \in timers \cup inFlight : deliveries[d].state \in LiveStates

\* What waits for a timer has an attempt left, and so has everything a crash leaves.
AttemptsLeft ==
    /\ \A d \in timers : deliveries[d].attempts < MaxAttempts + failures
    /\ ~up => \A d \in DOMAIN deliveries : deliveries[d].attempts < MaxAttempts + failures

\* The oldest subscription that wanted row r has a delivery of it, or an event of the
\* API had its id.
Handled(r) == r \notin shadowed /\ Due(r) # {} => Served(r, Min(Due(r)))

\* The rows of a tick follow the ones it has passed without a gap.
BatchFollows ==
    running => /\ cursor <= latest /\ latest + Len(batch) <= committed
               /\ \A k \in 1..Len(batch) : batch[k] = latest + k

\* A row the hub knows of was handled, and so were the rows behind the cursor and
\* those the tick has passed.
EventsHandled == \A r \in events \cap Rows : r <= committed /\ Handled(r)

PassedHandled ==
    /\ \A r \in 1..cursor : Handled(r)
    /\ running => \A r \in 1..latest : Handled(r)

PostInv == HubTypes /\ Quiet /\ PostsLive /\ AttemptsLeft /\ AttemptsBounded
RowInv == BatchFollows /\ EventsHandled /\ PassedHandled

-----------------------------------------------------------------------------
(* Deliveries *)

\* Rows, events and subscriptions are of the types that the code gives them.
LEMMA Constants ==
    /\ Rows \subseteq Nat \ {0} /\ \A r \in Rows : 1..r \subseteq Rows
    /\ MaxSubs \in Nat /\ \A k \in 1..MaxSubs : Interest[k] \subseteq Types
    /\ MaxAttempts \in Nat \ {0} /\ BatchSize \in Nat \ {0}
<1>1. PICK n \in Nat : Rows = 1..n
    BY HubAssumption, FS_CardinalityType
<1> QED BY <1>1, HubAssumption DEF MaxSubs

\* The list of the subscriptions that want e starts with the oldest of them.
LEMMA MatchingList ==
    ASSUME HubTypes, NEW e \in Ids, NEW to \in Matching(e)
    PROVE  /\ to \in Seq(1..Len(subs)) /\ 1..Len(subs) \subseteq 1..MaxSubs
           /\ Wanting(e) # {} => Len(to) > 0 /\ to[1] \in Wanting(e) /\ \A k \in Wanting(e) : to[1] <= k
<1>1. Len(subs) \in Nat /\ Len(subs) <= MaxSubs
    BY DEF HubTypes
<1>2. IsFiniteSet(Wanting(e))
  <2>1. IsFiniteSet(1..Len(subs))
      BY <1>1, FS_Interval
  <2> QED BY <2>1, FS_Subset DEF Wanting
<1>3. PICK n \in Nat : n = Cardinality(Wanting(e))
    BY <1>2, FS_CardinalityType
<1>4. /\ to \in [1..n -> Wanting(e)] /\ DOMAIN to = 1..n
      /\ \A i, j \in 1..n : i < j => to[i] < to[j]
      /\ \A k \in Wanting(e) : \E i \in 1..n : to[i] = k
    BY <1>3 DEF Matching
<1>5. Wanting(e) \subseteq 1..Len(subs)
    BY DEF Wanting
<1>6. to \in Seq(1..Len(subs)) /\ Len(to) = n
    BY <1>4, <1>5
<1>7. ASSUME NEW k \in Wanting(e)
      PROVE  n > 0 /\ to[1] \in Wanting(e) /\ to[1] <= k
  <2>1. PICK i \in 1..n : to[i] = k
      BY <1>4
  <2>2. 1 \in 1..n /\ to[1] \in Wanting(e) /\ to[1] \in Nat /\ k \in Nat
      BY <1>4, <1>5
  <2> QED BY <1>4, <2>1, <2>2
<1>8. 1..Len(subs) \subseteq 1..MaxSubs
    BY <1>1, Constants
<1> QED BY <1>6, <1>7, <1>8

\* What two sequences are together.
LEMMA Concatenated ==
    ASSUME NEW S, NEW s \in Seq(S), NEW t \in Seq(S)
    PROVE  /\ s \o t \in Seq(S) /\ Len(s \o t) = Len(s) + Len(t)
           /\ \A d \in 1..Len(s) : (s \o t)[d] = s[d]
           /\ \A d \in Len(s) + 1 .. Len(s) + Len(t) : (s \o t)[d] = t[d - Len(s)]
OBVIOUS

\* The records that an emit makes, with the attempts of f.
Records(e, n, to, f) ==
    [j \in 1..n |-> [sub |-> to[j], ev |-> e, state |-> "pending", attempts |-> f[j]]]

\* What they are made from, and what they are.
Listed(n, to, f) == \A j \in 1..n : to[j] \in 1..Len(subs) /\ f[j] \in {0, 1}
Recorded(new, e, n, to) ==
    /\ new \in Seq(Delivery) /\ Len(new) = n
    /\ \A j \in 1..n : /\ new[j].state = "pending" /\ new[j].attempts \in {0, 1}
                      /\ new[j].ev = e /\ new[j].sub = to[j]

\* They are deliveries of e.
LEMMA NewRecords ==
    ASSUME HubTypes, NEW e \in Ids, NEW n \in Nat, NEW to, NEW f, Listed(n, to, f)
    PROVE  Recorded(Records(e, n, to, f), e, n, to)
<1>0. PICK new : new = Records(e, n, to, f)
    OBVIOUS
<1>1. Len(subs) \in Nat /\ Len(subs) <= MaxSubs
    BY DEF HubTypes
<1>2. \A j \in 1..n : to[j] \in 1..MaxSubs /\ f[j] \in Nat
    BY <1>1, Constants DEF Listed
<1>3. \A j \in 1..n : /\ new[j] \in Delivery
                      /\ new[j].state = "pending" /\ new[j].attempts \in {0, 1}
                      /\ new[j].ev = e /\ new[j].sub = to[j]
    BY <1>0, <1>2 DEF Listed, Delivery, LiveStates, Records
<1>4. new \in Seq(Delivery) /\ Len(new) = n
  <2>1. DOMAIN new = 1..n /\ new = [j \in 1..n |-> new[j]]
      BY <1>0 DEF Records
  <2>2. new \in [1..n -> Delivery]
      BY <1>3, <2>1
  <2> QED BY <2>2
<1> QED BY <1>0, <1>3, <1>4 DEF Recorded

\* New deliveries are appended: the old ones stay where they are.
LEMMA Appended ==
    ASSUME HubTypes, NEW new \in Seq(Delivery), deliveries' = deliveries \o new
    PROVE  /\ deliveries' \in Seq(Delivery) /\ Len(deliveries') = Len(deliveries) + Len(new)
           /\ \A d \in 1..Len(deliveries) : deliveries'[d] = deliveries[d]
           /\ \A d \in Len(deliveries) + 1 .. Len(deliveries) + Len(new) :
                deliveries'[d] = new[d - Len(deliveries)]
<1>1. deliveries \in Seq(Delivery)
    BY DEF HubTypes
<1> QED BY <1>1, Concatenated

\* The first k of the deliveries of e for the subscriptions of to are new.
Grown(e, to, k) ==
    /\ deliveries' \in Seq(Delivery) /\ Len(deliveries') = Len(deliveries) + k
    /\ \A d \in 1..Len(deliveries) : deliveries'[d] = deliveries[d]
    /\ \A d \in Len(deliveries) + 1 .. Len(deliveries) + k :
        /\ deliveries'[d].state = "pending" /\ deliveries'[d].attempts \in {0, 1}
        /\ deliveries'[d].ev = e /\ deliveries'[d].sub = to[d - Len(deliveries)]

\* An emit or a replay that is not interrupted makes them all and posts them.
LEMMA DeliverGrows ==
    ASSUME HubTypes, NEW e \in Ids, NEW to \in Seq(1..Len(subs)), Deliver(e, to)
    PROVE  /\ Grown(e, to, Len(to)) /\ Len(to) \in Nat
           /\ inFlight' = inFlight \cup (Len(deliveries) + 1 .. Len(deliveries) + Len(to))
           /\ UNCHANGED <<subs, timers>>
<1>1. PICK n \in Nat : n = Len(to)
    OBVIOUS
<1>f. PICK f : f = [j \in 1..n |-> 1]
    OBVIOUS
<1>n. PICK new : new = Records(e, n, to, f)
    OBVIOUS
<1>2. Listed(n, to, f)
    BY <1>1, <1>f DEF Listed
<1>3. deliveries' = deliveries \o new
    BY <1>1, <1>f, <1>n DEF Records, Deliver, Posted
<1>4. Recorded(new, e, n, to)
    BY <1>2, <1>n, NewRecords
<1>5. Grown(e, to, n)
  <2>1. Len(deliveries) \in Nat
      BY DEF HubTypes
  <2>2. \A d \in Len(deliveries) + 1 .. Len(deliveries) + n : d - Len(deliveries) \in 1..n
      BY <2>1
  <2>3. /\ deliveries' \in Seq(Delivery) /\ Len(deliveries') = Len(deliveries) + Len(new)
        /\ \A d \in 1..Len(deliveries) : deliveries'[d] = deliveries[d]
        /\ \A d \in Len(deliveries) + 1 .. Len(deliveries) + Len(new) :
                deliveries'[d] = new[d - Len(deliveries)]
      BY <1>3, <1>4, Appended DEF Recorded
  <2> QED BY <1>4, <2>2, <2>3 DEF Grown, Recorded
<1> QED BY <1>1, <1>5 DEF Deliver, NewDeliveries

\* One that is interrupted makes the first of them, at least one.
LEMMA KilledGrows ==
    ASSUME HubTypes, NEW e \in Ids, NEW to \in Seq(1..Len(subs)), KilledIn(e, to)
    PROVE  /\ \E k \in 1..Len(to) : Grown(e, to, k)
           /\ saved' = events \cup {e} /\ events' = events \cup {e}
<1>1. PICK k \in 1..Len(to), n \in 0..Len(to) :
        /\ deliveries' = deliveries \o
             [j \in 1..k |-> [sub |-> to[j], ev |-> e, state |-> "pending",
                              attempts |-> IF j <= n THEN 1 ELSE 0]]
        /\ saved' = events \cup {e} /\ events' = events \cup {e}
    BY DEF KilledIn
<1>0. Len(to) \in Nat /\ k \in Nat
    BY <1>1
<1>f. PICK f : f = [j \in 1..k |-> IF j <= n THEN 1 ELSE 0]
    OBVIOUS
<1>n. PICK new : new = Records(e, k, to, f)
    OBVIOUS
<1>2. Listed(k, to, f)
    BY <1>0, <1>f DEF Listed
<1>3. deliveries' = deliveries \o new
    BY <1>1, <1>f, <1>n DEF Records
<1>4. Recorded(new, e, k, to)
    BY <1>0, <1>2, <1>n, NewRecords
<1>5. Grown(e, to, k)
  <2>1. Len(deliveries) \in Nat
      BY DEF HubTypes
  <2>2. \A d \in Len(deliveries) + 1 .. Len(deliveries) + k : d - Len(deliveries) \in 1..k
      BY <1>0, <2>1
  <2>3. /\ deliveries' \in Seq(Delivery) /\ Len(deliveries') = Len(deliveries) + Len(new)
        /\ \A d \in 1..Len(deliveries) : deliveries'[d] = deliveries[d]
        /\ \A d \in Len(deliveries) + 1 .. Len(deliveries) + Len(new) :
                deliveries'[d] = new[d - Len(deliveries)]
      BY <1>3, <1>4, Appended DEF Recorded
  <2> QED BY <1>4, <2>2, <2>3 DEF Grown, Recorded
<1> QED BY <1>1, <1>5

-----------------------------------------------------------------------------
(* Attempts *)

\* A delivery, wherever it is.
LEMMA DeliveryFields ==
    ASSUME HubTypes
    PROVE  /\ Len(deliveries) \in Nat /\ DOMAIN deliveries = 1..Len(deliveries)
           /\ \A d \in DOMAIN deliveries : deliveries[d].attempts \in Nat /\ deliveries[d] \in Delivery
<1>1. deliveries \in Seq(Delivery)
    BY DEF HubTypes
<1>2. \A d \in DOMAIN deliveries : deliveries[d] \in Delivery
    BY <1>1
<1> QED BY <1>1, <1>2 DEF Delivery

\* The part of the invariant about posts and attempts.
PostParts ==
    /\ deliveries \in Seq(Delivery)
    /\ timers \subseteq DOMAIN deliveries /\ inFlight \subseteq DOMAIN deliveries
    /\ PostsLive /\ AttemptsLeft /\ AttemptsBounded

\* emit and replay: the new deliveries are posted for the first time.
LEMMA DeliverKeepsPosts ==
    ASSUME PostInv, up, UNCHANGED <<up, failures>>,
           NEW e \in Ids, NEW to \in Seq(1..Len(subs)), Deliver(e, to)
    PROVE  PostParts'
<1> USE DEF PostInv
<1>1. /\ Grown(e, to, Len(to)) /\ Len(to) \in Nat
      /\ inFlight' = inFlight \cup (Len(deliveries) + 1 .. Len(deliveries) + Len(to))
      /\ timers' = timers
    BY DeliverGrows
<1>2. Len(deliveries) \in Nat /\ DOMAIN deliveries = 1..Len(deliveries)
    BY DeliveryFields
<1>3. deliveries' \in Seq(Delivery) /\ DOMAIN deliveries' = 1..(Len(deliveries) + Len(to))
    BY <1>1 DEF Grown
<1>4. \A d \in DOMAIN deliveries' :
        \/ d \in DOMAIN deliveries /\ deliveries'[d] = deliveries[d]
        \/ /\ d \in Len(deliveries) + 1 .. Len(deliveries) + Len(to)
           /\ deliveries'[d].state = "pending" /\ deliveries'[d].attempts \in {0, 1}
    BY <1>1, <1>2, <1>3 DEF Grown
<1>5. DOMAIN deliveries \subseteq DOMAIN deliveries'
    BY <1>1, <1>2, <1>3
<1>6. \A d \in Len(deliveries) + 1 .. Len(deliveries) + Len(to) :
        d \in DOMAIN deliveries' /\ d \notin DOMAIN deliveries
    BY <1>1, <1>2, <1>3
<1>7. timers' \subseteq DOMAIN deliveries' /\ inFlight' \subseteq DOMAIN deliveries'
    BY <1>1, <1>5, <1>6 DEF HubTypes
<1>8. PostsLive'
    BY <1>1, <1>4, <1>5, <1>6, <1>7 DEF HubTypes, PostsLive, LiveStates
<1>9. MaxAttempts \in Nat \ {0} /\ failures \in Nat
    BY Constants DEF HubTypes
<1>10. AttemptsLeft'
    BY <1>1, <1>4, <1>5, <1>6 DEF HubTypes, AttemptsLeft
<1>11. AttemptsBounded'
  <2> SUFFICES ASSUME NEW d \in DOMAIN deliveries'
               PROVE  /\ deliveries'[d].attempts <= MaxAttempts + failures
                      /\ deliveries'[d].state \notin LiveStates => d \notin timers' \cup inFlight'
      BY DEF AttemptsBounded
  <2>1. deliveries'[d].attempts <= MaxAttempts + failures
      BY <1>4, <1>9 DEF AttemptsBounded
  <2>2. deliveries'[d].state \notin LiveStates => d \notin timers' \cup inFlight'
      BY <1>8 DEF PostsLive
  <2> QED BY <2>1, <2>2
<1> QED BY <1>3, <1>7, <1>8, <1>10, <1>11 DEF PostParts

\* A step that changes the record of delivery d keeps its subscription and its event.
Edited(d) ==
    /\ deliveries' \in Seq(Delivery) /\ Len(deliveries') = Len(deliveries)
    /\ \A u \in DOMAIN deliveries \ {d} : deliveries'[u] = deliveries[u]
    /\ deliveries'[d].ev = deliveries[d].ev /\ deliveries'[d].sub = deliveries[d].sub

\* The answer to a POST sets the state, a timer counts an attempt.
LEMMA EditedDelivery ==
    ASSUME HubTypes, NEW d \in DOMAIN deliveries
    PROVE  /\ \A st \in LiveStates \cup {"delivered", "dead_letter"} :
                deliveries' = [deliveries EXCEPT ![d].state = st] =>
                    /\ Edited(d) /\ deliveries'[d].state = st
                    /\ deliveries'[d].attempts = deliveries[d].attempts
           /\ deliveries' = [deliveries EXCEPT ![d].attempts = @ + 1] =>
                    /\ Edited(d) /\ deliveries'[d].state = deliveries[d].state
                    /\ deliveries'[d].attempts = deliveries[d].attempts + 1
<1>1. deliveries \in Seq(Delivery) /\ deliveries[d] \in Delivery
    BY DeliveryFields DEF HubTypes
<1>2. ASSUME NEW r \in Delivery, r.ev = deliveries[d].ev, r.sub = deliveries[d].sub,
             deliveries' = [deliveries EXCEPT ![d] = r]
      PROVE  Edited(d) /\ deliveries'[d] = r
    BY <1>1, <1>2 DEF Edited
<1>3. ASSUME NEW st \in LiveStates \cup {"delivered", "dead_letter"},
             deliveries' = [deliveries EXCEPT ![d].state = st]
      PROVE  /\ Edited(d) /\ deliveries'[d].state = st
             /\ deliveries'[d].attempts = deliveries[d].attempts
  <2>1. PICK r : r = [deliveries[d] EXCEPT !.state = st]
      OBVIOUS
  <2>2. /\ r \in Delivery /\ r.ev = deliveries[d].ev /\ r.sub = deliveries[d].sub
        /\ r.state = st /\ r.attempts = deliveries[d].attempts
      BY <1>1, <2>1 DEF Delivery
  <2>3. deliveries' = [deliveries EXCEPT ![d] = r]
      BY <1>3, <2>1
  <2> QED BY <1>2, <2>2, <2>3
<1>4. ASSUME deliveries' = [deliveries EXCEPT ![d].attempts = @ + 1]
      PROVE  /\ Edited(d) /\ deliveries'[d].state = deliveries[d].state
             /\ deliveries'[d].attempts = deliveries[d].attempts + 1
  <2>0. PICK n \in Nat : n = deliveries[d].attempts + 1
      BY DeliveryFields
  <2>1. PICK r : r = [deliveries[d] EXCEPT !.attempts = n]
      OBVIOUS
  <2>2. /\ r \in Delivery /\ r.ev = deliveries[d].ev /\ r.sub = deliveries[d].sub
        /\ r.state = deliveries[d].state /\ r.attempts = n
      BY <1>1, <2>1 DEF Delivery
  <2>3. deliveries' = [deliveries EXCEPT ![d] = r]
      BY <1>4, <2>0, <2>1
  <2> QED BY <1>2, <2>0, <2>2, <2>3
<1> QED BY <1>3, <1>4

\* An answer takes the delivery out of flight; it gets a timer only with an attempt
\* left. A timer that fires uses one up.
LEMMA PostReturns ==
    ASSUME PostInv, NEW d \in DOMAIN deliveries, FetchOk(d) \/ FetchFailed(d) \/ TimerFires(d)
    PROVE  PostParts' /\ Edited(d) /\ up
<1> USE DEF PostInv
<1>0. /\ MaxAttempts \in Nat \ {0} /\ failures \in Nat /\ deliveries[d].attempts \in Nat
      /\ Len(deliveries) \in Nat /\ DOMAIN deliveries = 1..Len(deliveries)
    BY Constants, DeliveryFields DEF HubTypes
<1>1. up /\ up' = up /\ failures' = failures
    BY DEF FetchOk, FetchFailed, TimerFires, Quiet
<1>2. /\ Edited(d) /\ timers' \subseteq timers \cup {d} /\ inFlight' \subseteq inFlight \cup {d}
      /\ timers' \cap inFlight' = {}
      /\ d \in timers' \cup inFlight' => deliveries'[d].state \in LiveStates
      /\ d \in timers' => deliveries'[d].attempts < MaxAttempts + failures
      /\ deliveries'[d].attempts <= MaxAttempts + failures
  <2>1. CASE FetchOk(d)
    <3>1. /\ d \in inFlight /\ inFlight' = inFlight \ {d} /\ timers' = timers
          /\ deliveries' = [deliveries EXCEPT ![d].state = "delivered"]
        BY <2>1 DEF FetchOk
    <3>2. Edited(d) /\ deliveries'[d].attempts = deliveries[d].attempts
        BY <3>1, EditedDelivery
    <3> QED BY <3>1, <3>2 DEF PostsLive, AttemptsBounded
  <2>2. CASE FetchFailed(d) /\ deliveries[d].attempts >= MaxAttempts
    <3>1. /\ d \in inFlight /\ inFlight' = inFlight \ {d} /\ timers' = timers
          /\ deliveries' = [deliveries EXCEPT ![d].state = "dead_letter"]
        BY <1>0, <2>2 DEF FetchFailed
    <3>2. Edited(d) /\ deliveries'[d].attempts = deliveries[d].attempts
        BY <3>1, EditedDelivery
    <3> QED BY <3>1, <3>2 DEF PostsLive, AttemptsBounded
  <2>3. CASE FetchFailed(d) /\ deliveries[d].attempts < MaxAttempts
    <3>1. /\ d \in inFlight /\ inFlight' = inFlight \ {d} /\ timers' = timers \cup {d}
          /\ deliveries' = [deliveries EXCEPT ![d].state = "retrying"]
        BY <1>0, <2>3 DEF FetchFailed
    <3>2. /\ Edited(d) /\ deliveries'[d].attempts = deliveries[d].attempts
          /\ deliveries'[d].state \in LiveStates
        BY <3>1, EditedDelivery DEF LiveStates
    <3>3. deliveries'[d].attempts < MaxAttempts + failures
        BY <1>0, <2>3, <3>2
    <3> QED BY <1>0, <3>1, <3>2, <3>3 DEF PostsLive
  <2>4. CASE TimerFires(d)
    <3>1. /\ d \in timers /\ timers' = timers \ {d} /\ inFlight' = inFlight \cup {d}
          /\ deliveries' = [deliveries EXCEPT ![d].attempts = @ + 1]
        BY <2>4 DEF TimerFires
    <3>2. /\ Edited(d) /\ deliveries'[d].attempts = deliveries[d].attempts + 1
          /\ deliveries'[d].state = deliveries[d].state
        BY <3>1, EditedDelivery
    <3>3. deliveries'[d].attempts <= MaxAttempts + failures
        BY <1>0, <3>1, <3>2 DEF AttemptsLeft
    <3> QED BY <3>1, <3>2, <3>3 DEF PostsLive
  <2> QED BY <1>0, <2>1, <2>2, <2>3, <2>4
<1>3. deliveries' \in Seq(Delivery) /\ DOMAIN deliveries' = DOMAIN deliveries
    BY <1>0, <1>2 DEF Edited
<1>4. timers' \subseteq DOMAIN deliveries' /\ inFlight' \subseteq DOMAIN deliveries'
    BY <1>2, <1>3 DEF HubTypes
<1>5. PostsLive'
    BY <1>2, <1>3, <1>4 DEF HubTypes, PostsLive, Edited
<1>6. AttemptsLeft'
    BY <1>1, <1>2, <1>3, <1>4 DEF HubTypes, AttemptsLeft, Edited
<1>7. AttemptsBounded'
    BY <1>1, <1>2, <1>3, <1>5 DEF AttemptsBounded, PostsLive, Edited
<1> QED BY <1>1, <1>2, <1>3, <1>4, <1>5, <1>6, <1>7 DEF PostParts

\* The end of the process forgets timers and POSTs. What it leaves has an attempt left,
\* because the failure itself allows one more.
LEMMA GoneKeepsPosts ==
    ASSUME PostInv, Gone, UNCHANGED deliveries \/ \E e, to, k : k \in Nat /\ Grown(e, to, k)
    PROVE  PostParts' /\ Quiet'
<1> USE DEF PostInv
<1>0. /\ MaxAttempts \in Nat \ {0} /\ failures \in Nat
      /\ Len(deliveries) \in Nat /\ DOMAIN deliveries = 1..Len(deliveries)
      /\ \A d \in DOMAIN deliveries : deliveries[d].attempts \in Nat
    BY Constants, DeliveryFields DEF HubTypes
<1>1. timers' = {} /\ inFlight' = {} /\ failures' = failures + 1 /\ ~up' /\ ~running' /\ batch' = <<>>
    BY DEF Gone
<1>2. /\ deliveries' \in Seq(Delivery)
      /\ \A d \in DOMAIN deliveries' :
            \/ d \in DOMAIN deliveries /\ deliveries'[d] = deliveries[d]
            \/ deliveries'[d].attempts \in {0, 1}
  <2>1. CASE UNCHANGED deliveries
      BY <2>1 DEF HubTypes
  <2>2. ASSUME NEW e, NEW to, NEW k, k \in Nat, Grown(e, to, k)
        PROVE  /\ deliveries' \in Seq(Delivery)
               /\ \A d \in DOMAIN deliveries' :
                    \/ d \in DOMAIN deliveries /\ deliveries'[d] = deliveries[d]
                    \/ deliveries'[d].attempts \in {0, 1}
    <3>1. deliveries' \in Seq(Delivery) /\ DOMAIN deliveries' = 1..(Len(deliveries) + k)
        BY <2>2 DEF Grown
    <3>2. \A d \in 1..(Len(deliveries) + k) :
            d \in 1..Len(deliveries) \/ d \in Len(deliveries) + 1 .. Len(deliveries) + k
        BY <1>0, <2>2
    <3> QED BY <1>0, <2>2, <3>1, <3>2 DEF Grown
  <2> QED BY <2>1, <2>2
<1>3. \A d \in DOMAIN deliveries' : deliveries'[d].attempts < MaxAttempts + failures'
    BY <1>0, <1>1, <1>2 DEF AttemptsBounded
<1>4. \A d \in DOMAIN deliveries' : deliveries'[d].attempts <= MaxAttempts + failures'
    BY <1>0, <1>1, <1>2 DEF AttemptsBounded
<1> QED BY <1>1, <1>2, <1>3, <1>4 DEF PostParts, PostsLive, AttemptsLeft, AttemptsBounded, Quiet

\* A start gives a timer to what is live.
LEMMA StartKeepsPosts ==
    ASSUME PostInv, Start
    PROVE  PostParts' /\ Quiet'
<1> USE DEF PostInv
<1>1. /\ ~up /\ up' /\ timers' = {d \in DOMAIN deliveries : deliveries[d].state \in LiveStates}
      /\ inFlight = {} /\ inFlight' = {} /\ deliveries' = deliveries /\ failures' = failures
      /\ running' = running /\ batch' = batch
    BY DEF Start, StartProducer, Quiet
<1> QED BY <1>1 DEF PostParts, PostsLive, AttemptsLeft, AttemptsBounded, Quiet, HubTypes

-----------------------------------------------------------------------------
(* Rows *)

HubInv == PostInv /\ RowInv

\* Subscriptions, deliveries and the records of who subscribed when and of the rows that
\* were shadowed are only added to.
Kept ==
    /\ shadowed \subseteq shadowed'
    /\ \A r \in 1..committed : subsAt'[r] = subsAt[r]
    /\ \A k \in 1..Len(subs) : subs'[k] = subs[k]
    /\ \A d \in DOMAIN deliveries :
        /\ d \in DOMAIN deliveries'
        /\ deliveries'[d].ev = deliveries[d].ev /\ deliveries'[d].sub = deliveries[d].sub

\* The subscriptions that were there when a row was committed are still there.
LEMMA SubscribedThen ==
    ASSUME HubTypes, NEW r \in 1..committed
    PROVE  subsAt[r] \in Nat /\ subsAt[r] <= Len(subs) /\ Len(subs) \in Nat
<1>1. subsAt \in Seq(Nat) /\ Len(subsAt) = committed /\ subsAt[r] <= Len(subs)
    BY DEF HubTypes
<1>2. Len(subs) \in Nat
    BY DEF HubTypes
<1> QED BY <1>1, <1>2

\* So the subscriptions that are due a committed row are always the same,
LEMMA DueStays ==
    ASSUME HubTypes, Kept, NEW r \in 1..committed
    PROVE  Due(r)' = Due(r)
<1>1. subsAt[r] \in Nat /\ subsAt[r] <= Len(subs) /\ Len(subs) \in Nat /\ subsAt'[r] = subsAt[r]
    BY SubscribedThen DEF Kept
<1>2. \A k \in 1..subsAt[r] : subs'[k] = subs[k]
    BY <1>1 DEF Kept
<1> QED BY <1>1, <1>2 DEF Due

\* and a row that was handled stays handled.
LEMMA HandledStays ==
    ASSUME HubTypes, Kept, NEW r \in 1..committed, Handled(r)
    PROVE  Handled(r)'
<1>1. Due(r)' = Due(r)
    BY DueStays
<1>2. PICK S : S = Due(r)
    OBVIOUS
<1>3. r \notin shadowed /\ S # {} => \E d \in DOMAIN deliveries : deliveries[d].ev = r /\ deliveries[d].sub = Min(S)
    BY <1>2 DEF Handled, Served
<1>4. r \notin shadowed' /\ S # {} => \E d \in DOMAIN deliveries' : deliveries'[d].ev = r /\ deliveries'[d].sub = Min(S)
    BY <1>3 DEF Kept
<1> QED BY <1>1, <1>2, <1>4 DEF Handled, Served

\* Nobody asks for a row that is not understood.
LEMMA MalformedIsHandled ==
    ASSUME HubTypes, NEW r \in 1..committed, TypeOf[r] = Malformed
    PROVE  Handled(r)
<1>1. subsAt[r] \in Nat /\ subsAt[r] <= Len(subs) /\ Len(subs) \in Nat
    BY SubscribedThen
<1>2. \A k \in 1..Len(subs) : subs[k] \subseteq Types
    BY DEF HubTypes
<1>3. Malformed \notin Types
    BY HubAssumption
<1>4. Due(r) = {}
    BY <1>1, <1>2, <1>3 DEF Due
<1> QED BY <1>4 DEF Handled

\* An emit that stored at least one delivery, if there is one to store, has handled
\* its row: the first delivery is for the oldest subscription.
LEMMA EmitHandles ==
    ASSUME HubTypes, NEW r \in 1..committed, r \in Ids, NEW to \in Matching(r), NEW k \in 0..Len(to),
           k = 0 => Len(to) = 0, Grown(r, to, k), UNCHANGED <<subs, subsAt>>
    PROVE  Handled(r)'
<1>0. /\ subsAt[r] \in Nat /\ subsAt[r] <= Len(subs) /\ Len(subs) \in Nat
      /\ Len(deliveries) \in Nat
    BY SubscribedThen, DeliveryFields
<1>1. PICK S : S = Due(r)
    OBVIOUS
<1>2. Due(r)' = S
    BY <1>1 DEF Due
<1>3. S \subseteq Wanting(r) /\ S = {j \in Wanting(r) : j <= subsAt[r]} /\ Wanting(r) \subseteq Nat
    BY <1>0, <1>1 DEF Due, Wanting
<1>4. ASSUME S # {} PROVE \E d \in DOMAIN deliveries' : deliveries'[d].ev = r /\ deliveries'[d].sub = Min(S)
  <2>1. PICK m : m = to[1]
      OBVIOUS
  <2>2. to \in Seq(1..Len(subs)) /\ Len(to) > 0 /\ m \in Wanting(r) /\ \A j \in Wanting(r) : m <= j
      BY <1>3, <1>4, <2>1, MatchingList
  <2>3. m \in S /\ \A j \in S : m <= j
      BY <1>0, <1>3, <1>4, <2>2
  <2>4. \A x \in S : (\A j \in S : x <= j) => x = m
      BY <1>3, <2>3
  <2>5. Min(S) = m
      BY <2>3, <2>4 DEF Min
  <2>6. k \in Nat /\ k >= 1
      BY <2>2
  <2>7. PICK d : d = Len(deliveries) + 1
      OBVIOUS
  <2>8. d \in Len(deliveries) + 1 .. Len(deliveries) + k /\ d - Len(deliveries) = 1
      BY <1>0, <2>6, <2>7
  <2>9. d \in DOMAIN deliveries'
      BY <1>0, <2>6, <2>7 DEF Grown
  <2>10. deliveries'[d].ev = r /\ deliveries'[d].sub = m
      BY <2>1, <2>8 DEF Grown
  <2> QED BY <2>5, <2>9, <2>10
<1> QED BY <1>2, <1>4 DEF Handled, Served

\* A step that leaves the cursor and the tick alone, or ends the tick, and brings no
\* event of a row.
LEMMA RowsStay ==
    ASSUME HubInv, Kept, committed' \in Nat, committed <= committed', cursor' = cursor,
           events' \cap Rows \subseteq events,
           running' => running /\ UNCHANGED <<latest, batch>>
    PROVE  RowInv'
<1> USE DEF HubInv, PostInv, RowInv
<1>0. committed \in Nat /\ cursor \in 0..committed /\ latest \in Nat /\ Len(batch) \in Nat
    BY DEF HubTypes
<1>1. BatchFollows'
    BY <1>0 DEF BatchFollows
<1>2. EventsHandled'
  <2> SUFFICES ASSUME NEW r \in events' \cap Rows PROVE r <= committed' /\ Handled(r)'
      BY DEF EventsHandled
  <2>1. r \in events \cap Rows /\ r <= committed /\ Handled(r) /\ r \in Nat \ {0}
      BY Constants DEF EventsHandled
  <2>2. r \in 1..committed
      BY <1>0, <2>1
  <2> QED BY <1>0, <2>1, <2>2, HandledStays
<1>3. \A r \in 1..cursor : Handled(r)'
    BY <1>0, HandledStays DEF PassedHandled
<1>4. running' => \A r \in 1..latest : Handled(r)'
  <2> SUFFICES ASSUME running', NEW r \in 1..latest PROVE Handled(r)'
      OBVIOUS
  <2>1. r \in 1..committed /\ Handled(r)
      BY <1>0 DEF PassedHandled, BatchFollows
  <2> QED BY <2>1, HandledStays
<1>5. PassedHandled'
    BY <1>3, <1>4 DEF PassedHandled
<1> QED BY <1>1, <1>2, <1>5

\* A step that touches neither deliveries nor what is under way.
LEMMA PostsStay ==
    ASSUME PostInv, UNCHANGED <<deliveries, timers, inFlight, up, failures>>
    PROVE  PostParts'
BY DEF PostInv, HubTypes, PostParts, PostsLive, AttemptsLeft, AttemptsBounded

\* Deliveries that are appended or edited keep their subscriptions and events.
LEMMA DeliveriesKept ==
    ASSUME HubTypes, UNCHANGED <<subs, subsAt>>, shadowed \subseteq shadowed',
           \/ UNCHANGED deliveries
           \/ \E e, to, k : k \in Nat /\ Grown(e, to, k)
           \/ \E d \in DOMAIN deliveries : Edited(d)
    PROVE  Kept
<1>0. Len(deliveries) \in Nat /\ DOMAIN deliveries = 1..Len(deliveries)
    BY DeliveryFields
<1>1. CASE UNCHANGED deliveries
    BY <1>1 DEF Kept
<1>2. ASSUME NEW e, NEW to, NEW k, k \in Nat, Grown(e, to, k) PROVE Kept
  <2>1. DOMAIN deliveries' = 1..(Len(deliveries) + k)
      BY <1>2 DEF Grown
  <2>2. \A d \in DOMAIN deliveries : d \in DOMAIN deliveries' /\ deliveries'[d] = deliveries[d]
      BY <1>0, <1>2, <2>1 DEF Grown
  <2> QED BY <2>2 DEF Kept
<1>3. ASSUME NEW d \in DOMAIN deliveries, Edited(d) PROVE Kept
  <2>1. DOMAIN deliveries' = DOMAIN deliveries
      BY <1>0, <1>3 DEF Edited
  <2> QED BY <1>3, <2>1 DEF Kept, Edited
<1> QED BY <1>1, <1>2, <1>3

\* The indexer commits a row.
LEMMA CommitStep == HubInv /\ CommitRow => HubInv'
<1> SUFFICES ASSUME HubInv, CommitRow PROVE HubInv'
    OBVIOUS
<1> USE DEF HubInv, PostInv
<1>1. /\ committed' = committed + 1 /\ committed' \in Rows /\ subsAt' = Append(subsAt, Len(subs))
      /\ UNCHANGED <<cursor, shadowed, running, batch, latest, awaited, subs, events, deliveries, saved, timers,
                     inFlight, requests, up, failures>>
    BY DEF CommitRow, producerVars, hubVars
<1>2. committed \in Nat /\ subsAt \in Seq(Nat) /\ Len(subsAt) = committed /\ Len(subs) \in Nat
    BY DEF HubTypes
<1>3. /\ subsAt' \in Seq(Nat) /\ Len(subsAt') = committed + 1
      /\ \A r \in 1..committed : subsAt'[r] = subsAt[r]
      /\ subsAt'[committed + 1] = Len(subs)
    BY <1>1, <1>2
<1>4. Kept
    BY <1>1, <1>3 DEF Kept
<1>5. RowInv'
    BY <1>1, <1>2, <1>4, RowsStay
<1>6. \A r \in 1..committed' : subsAt'[r] <= Len(subs)
    BY <1>1, <1>2, <1>3 DEF HubTypes
<1>7. cursor' \in 0..committed' /\ committed' \in Nat
    BY <1>1, <1>2 DEF HubTypes
<1>8. HubTypes'
    BY <1>1, <1>3, <1>6, <1>7 DEF HubTypes
<1> QED BY <1>1, <1>5, <1>8, PostsStay DEF PostParts, Quiet

\* A subscription is created.
LEMMA SubscribeStep == HubInv /\ CreateSubscription => HubInv'
<1> SUFFICES ASSUME HubInv, CreateSubscription PROVE HubInv'
    OBVIOUS
<1> USE DEF HubInv, PostInv
<1>1. /\ Len(subs) < MaxSubs /\ subs' = Append(subs, Interest[Len(subs) + 1]) /\ saved' = events
      /\ UNCHANGED <<committed, cursor, shadowed, subsAt, running, batch, latest, awaited, events, deliveries,
                     timers, inFlight, requests, up, failures>>
    BY DEF CreateSubscription, producerVars, tableVars
<1>2. subs \in Seq(SUBSET Types) /\ Len(subs) \in Nat /\ committed \in Nat
    BY DEF HubTypes
<1>3. Interest[Len(subs) + 1] \in SUBSET Types
    BY <1>1, <1>2, Constants
<1>4. /\ subs' \in Seq(SUBSET Types) /\ Len(subs') = Len(subs) + 1
      /\ \A k \in 1..Len(subs) : subs'[k] = subs[k]
    BY <1>1, <1>2, <1>3
<1>5. Kept
    BY <1>1, <1>4 DEF Kept
<1>6. RowInv'
    BY <1>1, <1>2, <1>5, RowsStay
<1>7. Len(subs') <= MaxSubs /\ \A r \in 1..committed : subsAt[r] <= Len(subs')
    BY <1>1, <1>2, <1>4, Constants DEF HubTypes
<1>8. HubTypes'
    BY <1>1, <1>4, <1>7 DEF HubTypes
<1> QED BY <1>1, <1>6, <1>8, PostsStay DEF PostParts, Quiet

\* A request makes deliveries of event e for the subscriptions of to.
Brings(e, to) ==
    /\ Deliver(e, to) /\ up /\ events' \subseteq events \cup {e} /\ saved' \subseteq events'
    /\ e \in ApiEvents \/ e \in events
    /\ UNCHANGED <<committed, cursor, shadowed, subsAt, running, batch, latest, awaited, up, failures>>

\* An event comes from the API, or is replayed.
LEMMA RequestStep ==
    ASSUME HubInv, (\E e \in ApiEvents : EmitApi(e)) \/ (\E e \in Ids, k \in 1..MaxSubs : Replay(e, k))
    PROVE  HubInv'
<1> USE DEF HubInv, PostInv
<1>0. \E e \in Ids, to \in Seq(1..Len(subs)) : Brings(e, to)
  <2>1. ASSUME NEW e \in ApiEvents, EmitApi(e)
        PROVE  \E x \in Ids, to \in Seq(1..Len(subs)) : Brings(x, to)
    <3>1. PICK to \in Matching(e) : EmitNew(e, to)
        BY <2>1 DEF EmitApi
    <3>2. e \in Ids
        BY DEF Ids
    <3>3. to \in Seq(1..Len(subs))
        BY <3>2, MatchingList
    <3>4. saved' \subseteq events' /\ Deliver(e, to) /\ events' = events \cup {e}
        BY <3>1 DEF EmitNew, HubTypes
    <3>5. Brings(e, to)
        BY <2>1, <3>4 DEF Brings, EmitApi, tableVars, producerVars
    <3> QED BY <3>2, <3>3, <3>5
  <2>2. ASSUME NEW e \in Ids, NEW k \in 1..MaxSubs, Replay(e, k)
        PROVE  \E x \in Ids, to \in Seq(1..Len(subs)) : Brings(x, to)
    <3>1. /\ Deliver(e, <<k>>) /\ up /\ events' = events /\ saved' = events /\ e \in events
          /\ k \in DOMAIN subs
          /\ UNCHANGED <<committed, cursor, shadowed, subsAt, running, batch, latest, awaited, up, failures>>
        BY <2>2 DEF Replay, tableVars, producerVars
    <3>2. k \in 1..Len(subs)
        BY <3>1 DEF HubTypes
    <3>3. <<k>> \in Seq(1..Len(subs))
        BY <3>2
    <3>4. Brings(e, <<k>>)
        BY <3>1 DEF Brings
    <3> QED BY <3>3, <3>4
  <2> QED BY <2>1, <2>2
<1>1. PICK e \in Ids, to \in Seq(1..Len(subs)) :
        /\ Deliver(e, to) /\ up /\ events' \subseteq events \cup {e} /\ saved' \subseteq events'
        /\ e \in ApiEvents \/ e \in events
        /\ UNCHANGED <<committed, cursor, shadowed, subsAt, running, batch, latest, awaited, up, failures>>
    BY <1>0 DEF Brings
<1>2. Grown(e, to, Len(to)) /\ Len(to) \in Nat /\ UNCHANGED <<subs, timers>>
    BY <1>1, DeliverGrows
<1>3. Kept
    BY <1>1, <1>2, DeliveriesKept
<1>4. events' \cap Rows \subseteq events
    BY <1>1, HubAssumption
<1>5. RowInv'
    BY <1>1, <1>3, <1>4, RowsStay DEF HubTypes
<1>6. PostParts'
    BY <1>1, DeliverKeepsPosts
<1>7. events' \subseteq Ids
    BY <1>1 DEF HubTypes
<1>8. HubTypes'
    BY <1>1, <1>2, <1>6, <1>7 DEF HubTypes, PostParts
<1> QED BY <1>1, <1>5, <1>6, <1>8 DEF PostParts, Quiet

\* A POST is answered or a timer fires.
LEMMA AnswerStep ==
    ASSUME HubInv, NEW d \in DOMAIN deliveries, FetchOk(d) \/ FetchFailed(d) \/ TimerFires(d)
    PROVE  HubInv'
<1> USE DEF HubInv, PostInv
<1>1. /\ saved' = events
      /\ UNCHANGED <<committed, cursor, shadowed, subsAt, subs, events, running, batch, latest, up, failures>>
    BY DEF FetchOk, FetchFailed, TimerFires, tableVars, producerVars
<1>2. PostParts' /\ Edited(d) /\ up
    BY PostReturns
<1>3. Kept
    BY <1>1, <1>2, DeliveriesKept
<1>4. RowInv'
    BY <1>1, <1>3, RowsStay DEF HubTypes
<1>5. HubTypes'
    BY <1>1, <1>2 DEF HubTypes, PostParts
<1> QED BY <1>1, <1>2, <1>4, <1>5 DEF PostParts, Quiet

-----------------------------------------------------------------------------
(* The producer *)

\* A tick reads the rows that follow the cursor.
LEMMA ReadStep == HubInv /\ ProducerRead => HubInv'
<1> SUFFICES ASSUME HubInv, ProducerRead PROVE HubInv'
    OBVIOUS
<1> USE DEF HubInv, PostInv, RowInv
<1>1. PICK last : last = IF cursor + BatchSize < committed THEN cursor + BatchSize ELSE committed
    OBVIOUS
<1>2. /\ up /\ cursor < committed /\ running' = TRUE /\ latest' = cursor
      /\ batch' = SubSeq([r \in 1..committed |-> r], cursor + 1, last)
      /\ UNCHANGED <<committed, cursor, shadowed, subsAt, subs, events, deliveries, saved, timers, inFlight,
                     requests, up, failures>>
    BY <1>1 DEF ProducerRead, tableVars, hubVars
<1>3. /\ committed \in Nat /\ cursor \in Nat /\ last \in Nat
      /\ cursor < last /\ last <= committed
    BY <1>1, <1>2, Constants DEF HubTypes
<1>4. /\ batch' \in Seq(Nat) /\ Len(batch') = last - cursor
      /\ \A k \in 1..(last - cursor) : batch'[k] = cursor + k
  <2>1. PICK f : f = [r \in 1..committed |-> r]
      OBVIOUS
  <2>2. f \in Seq(Nat) /\ Len(f) = committed /\ \A r \in 1..committed : f[r] = r
      BY <1>3, <2>1
  <2>3. PICK b : b = SubSeq(f, cursor + 1, last)
      OBVIOUS
  <2>4. b \in Seq(Nat) /\ Len(b) = last - cursor /\ \A k \in 1..(last - cursor) : b[k] = f[cursor + k]
      BY <1>3, <2>2, <2>3
  <2>5. \A k \in 1..(last - cursor) : cursor + k \in 1..committed
      BY <1>3
  <2>6. batch' = b
      BY <1>2, <2>1, <2>3
  <2> QED BY <2>2, <2>4, <2>5, <2>6
<1>5. BatchFollows'
    BY <1>2, <1>3, <1>4 DEF BatchFollows
<1>6. Kept
    BY <1>2 DEF Kept
<1>7. \A r \in 1..committed : Handled(r) => Handled(r)'
    BY <1>6, HandledStays
<1>8. EventsHandled'
  <2> SUFFICES ASSUME NEW r \in events \cap Rows PROVE r <= committed /\ Handled(r)'
      BY <1>2 DEF EventsHandled
  <2>1. r <= committed /\ Handled(r) /\ r \in Nat \ {0}
      BY Constants DEF EventsHandled
  <2> QED BY <1>3, <1>7, <2>1
<1>9. \A r \in 1..cursor : Handled(r)'
    BY <1>3, <1>7 DEF PassedHandled
<1>10. PassedHandled'
    BY <1>2, <1>9 DEF PassedHandled
<1>11. HubTypes'
    BY <1>2, <1>3, <1>4 DEF HubTypes
<1> QED BY <1>2, <1>5, <1>8, <1>10, <1>11, PostsStay DEF PostParts, Quiet

\* The row at the head of a tick is the one after the last it passed.
LEMMA NextRow ==
    ASSUME HubInv, batch # <<>>
    PROVE  /\ up /\ running /\ Head(batch) = latest + 1 /\ Head(batch) \in 1..committed
           /\ Head(batch) \in Rows /\ Head(batch) \in Ids
           /\ Tail(batch) \in Seq(Nat) /\ Len(Tail(batch)) = Len(batch) - 1
           /\ \A k \in 1..(Len(batch) - 1) : Tail(batch)[k] = latest + 1 + k
<1> USE DEF HubInv, PostInv, RowInv
<1>1. /\ batch \in Seq(Nat) /\ latest \in Nat /\ committed \in Nat
      /\ committed = 0 \/ committed \in Rows
    BY DEF HubTypes
<1>2. up /\ running
    BY DEF Quiet, HubTypes
<1>3. Len(batch) \in Nat /\ Len(batch) >= 1 /\ Head(batch) = batch[1]
    BY <1>1
<1>4. latest + Len(batch) <= committed /\ \A k \in 1..Len(batch) : batch[k] = latest + k
    BY <1>2 DEF BatchFollows
<1>5. Head(batch) = latest + 1 /\ Head(batch) \in 1..committed
    BY <1>1, <1>3, <1>4
<1>6. committed \in Rows
    BY <1>1, <1>5
<1>7. Head(batch) \in Rows
    BY <1>5, <1>6, Constants
<1>8. /\ Tail(batch) \in Seq(Nat) /\ Len(Tail(batch)) = Len(batch) - 1
      /\ \A k \in 1..(Len(batch) - 1) : Tail(batch)[k] = batch[k + 1]
    BY <1>1, <1>3
<1>9. \A k \in 1..(Len(batch) - 1) : Tail(batch)[k] = latest + 1 + k
    BY <1>1, <1>3, <1>4, <1>8
<1> QED BY <1>2, <1>5, <1>7, <1>8, <1>9 DEF Ids

\* The tick passes a row that is handled now.
LEMMA EmitPasses ==
    ASSUME HubInv, batch # <<>>, Kept, NEW e, e = Head(batch), batch' = Tail(batch), latest' = e,
           UNCHANGED <<committed, cursor, running>>,
           events' \subseteq events \cup {e}, Handled(e)'
    PROVE  RowInv'
<1> USE DEF HubInv, PostInv, RowInv
<1>0. /\ committed \in Nat /\ cursor \in 0..committed /\ latest \in Nat /\ batch \in Seq(Nat)
      /\ Len(batch) \in Nat
    BY DEF HubTypes
<1>1. /\ up /\ running /\ e = latest + 1 /\ e \in 1..committed /\ e \in Rows
      /\ Tail(batch) \in Seq(Nat) /\ Len(Tail(batch)) = Len(batch) - 1
      /\ \A k \in 1..(Len(batch) - 1) : Tail(batch)[k] = latest + 1 + k
    BY NextRow
<1>2. e \in Nat
    BY <1>1
<1>3. \A r \in 1..committed : Handled(r) => Handled(r)'
    BY HandledStays
<1>5. cursor <= latest /\ latest + Len(batch) <= committed
    BY <1>1 DEF BatchFollows
<1>6. BatchFollows'
  <2>1. Len(batch') = Len(batch) - 1 /\ \A k \in 1..Len(batch') : batch'[k] = e + k
      BY <1>1
  <2>2. cursor <= e /\ e + (Len(batch) - 1) <= committed
      BY <1>0, <1>1, <1>5
  <2> QED BY <2>1, <2>2 DEF BatchFollows
<1>7. EventsHandled'
  <2> SUFFICES ASSUME NEW r \in events' \cap Rows PROVE r <= committed /\ Handled(r)'
      BY DEF EventsHandled
  <2>1. CASE r = e
      BY <1>0, <1>1, <2>1
  <2>2. CASE r \in events
    <3>1. r <= committed /\ Handled(r) /\ r \in Nat \ {0}
        BY <2>2, Constants DEF EventsHandled
    <3> QED BY <1>0, <1>3, <3>1
  <2> QED BY <2>1, <2>2
<1>8. \A r \in 1..cursor : Handled(r)'
    BY <1>0, <1>3 DEF PassedHandled
<1>9. \A r \in 1..e : Handled(r)'
  <2> SUFFICES ASSUME NEW r \in 1..e PROVE Handled(r)'
      OBVIOUS
  <2>1. r = e \/ (r \in 1..latest /\ r \in 1..committed)
      BY <1>0, <1>1
  <2> QED BY <1>1, <1>3, <2>1 DEF PassedHandled
<1>10. PassedHandled'
    BY <1>8, <1>9 DEF PassedHandled
<1> QED BY <1>6, <1>7, <1>10

\* One row of a tick.
LEMMA EmitStep == HubInv /\ ProducerEmit => HubInv'
<1> SUFFICES ASSUME HubInv, ProducerEmit PROVE HubInv'
    OBVIOUS
<1> USE DEF HubInv, PostInv
<1>1. PICK e : e = Head(batch)
    OBVIOUS
<1>2. /\ batch # <<>> /\ batch' = Tail(batch) /\ latest' = e
      /\ UNCHANGED <<committed, cursor, subsAt, running, up, failures>>
      /\ \/ shadowed' = shadowed /\ \E to \in Matching(e) : EmitNew(e, to)
         \/ /\ TypeOf[e] = Malformed \/ Known(e)
            /\ shadowed' = IF Known(e) /\ e \notin events THEN shadowed \cup {e} ELSE shadowed
            /\ UNCHANGED <<subs, events, deliveries, saved, timers, inFlight>>
    BY <1>1 DEF ProducerEmit, tableVars
<1>3. /\ up /\ running /\ e = latest + 1 /\ e \in 1..committed /\ e \in Rows /\ e \in Ids
      /\ Tail(batch) \in Seq(Nat) /\ e \in Nat
    BY <1>1, <1>2, NextRow
<1>4. ASSUME shadowed' = shadowed, NEW to \in Matching(e), EmitNew(e, to) PROVE HubInv'
  <2>1. to \in Seq(1..Len(subs)) /\ Len(to) \in Nat
      BY <1>3, MatchingList
  <2>2. events' = events \cup {e} /\ Deliver(e, to) /\ saved' \subseteq events'
      BY <1>4 DEF EmitNew, HubTypes
  <2>3. Grown(e, to, Len(to)) /\ UNCHANGED <<subs, timers>>
      BY <1>3, <2>1, <2>2, DeliverGrows
  <2>4. Handled(e)'
      BY <1>2, <1>3, <2>1, <2>3, EmitHandles
  <2>5. Kept
      BY <1>2, <1>4, <2>1, <2>3, DeliveriesKept
  <2>6. RowInv'
      BY <1>1, <1>2, <1>3, <2>2, <2>4, <2>5, EmitPasses
  <2>7. PostParts'
      BY <1>2, <1>3, <2>1, <2>2, DeliverKeepsPosts
  <2>8. HubTypes'
      BY <1>2, <1>3, <2>2, <2>3, <2>7 DEF HubTypes, PostParts
  <2> QED BY <1>2, <1>3, <2>6, <2>7, <2>8 DEF PostParts, Quiet
<1>5. CASE /\ TypeOf[e] = Malformed \/ Known(e)
           /\ shadowed' = IF Known(e) /\ e \notin events THEN shadowed \cup {e} ELSE shadowed
           /\ UNCHANGED <<subs, events, deliveries, saved, timers, inFlight>>
  <2>1. Kept
      BY <1>2, <1>5 DEF Kept
  <2>2. TypeOf[e] = Malformed \/ e \in events => Handled(e)
      BY <1>3, MalformedIsHandled DEF RowInv, EventsHandled
  <2>3. Handled(e)'
    <3>1. CASE TypeOf[e] = Malformed \/ e \in events
        BY <1>3, <2>1, <2>2, <3>1, HandledStays
    <3>2. CASE e \in shadowed'
        BY <3>2 DEF Handled
    <3> QED BY <1>5, <3>1, <3>2
  <2>4. RowInv'
      BY <1>1, <1>2, <1>3, <1>5, <2>1, <2>3, EmitPasses
  <2>5. HubTypes'
      BY <1>2, <1>3, <1>5 DEF HubTypes
  <2> QED BY <1>2, <1>3, <1>5, <2>4, <2>5, PostsStay DEF PostParts, Quiet
<1> QED BY <1>2, <1>4, <1>5

\* The tick ends: the cursor moves to the last row it passed, or stays.
LEMMA TickEndStep ==
    ASSUME HubInv, ProducerAdvance \/ ProducerFailed
    PROVE  HubInv'
<1> USE DEF HubInv, PostInv
<1>1. CASE ProducerAdvance
  <2>1. /\ running /\ batch = <<>> /\ cursor' = latest /\ running' = FALSE
        /\ UNCHANGED <<committed, shadowed, subsAt, batch, latest, subs, events, deliveries, saved, timers,
                       inFlight, requests, up, failures>>
      BY <1>1 DEF ProducerAdvance, hubVars
  <2>2. latest \in Nat /\ committed \in Nat /\ latest <= committed /\ up
      BY <2>1 DEF HubTypes, RowInv, BatchFollows, Quiet
  <2>3. Kept
      BY <2>1 DEF Kept
  <2>4. \A r \in 1..committed : Handled(r) => Handled(r)'
      BY <2>3, HandledStays
  <2>5. EventsHandled'
    <3> SUFFICES ASSUME NEW r \in events \cap Rows PROVE r <= committed /\ Handled(r)'
        BY <2>1 DEF EventsHandled
    <3>1. r <= committed /\ Handled(r) /\ r \in Nat \ {0}
        BY Constants DEF RowInv, EventsHandled
    <3> QED BY <2>2, <2>4, <3>1
  <2>6. \A r \in 1..latest : Handled(r)'
      BY <2>1, <2>2, <2>4 DEF RowInv, PassedHandled
  <2>7. RowInv'
      BY <2>1, <2>5, <2>6 DEF RowInv, PassedHandled, BatchFollows
  <2>8. HubTypes'
    <3>1. cursor' \in 0..committed' /\ batch' = batch
        BY <2>1, <2>2
    <3>3. running' \in BOOLEAN
        BY <2>1, Zenon
    <3>2. UNCHANGED <<committed, subsAt, latest, subs, events, deliveries, saved, timers, inFlight, up,
                      failures>>
        BY <2>1
    <3> QED BY <3>1, <3>2, <3>3 DEF HubTypes
  <2> QED BY <2>1, <2>2, <2>7, <2>8, PostsStay DEF PostParts, Quiet
<1>2. CASE ProducerFailed
  <2>1. /\ running /\ batch = <<>> /\ running' = FALSE /\ failures' = failures + 1
        /\ UNCHANGED <<committed, cursor, shadowed, subsAt, batch, latest, subs, events, deliveries, saved, timers,
                       inFlight, requests, up>>
      BY <1>2 DEF ProducerFailed, hubVars, tableVars
  <2>2. Kept
      BY <2>1 DEF Kept
  <2>3. RowInv'
      BY <2>1, <2>2, RowsStay DEF HubTypes
  <2>4. HubTypes'
    <3>1. failures' \in Nat /\ batch' = batch
        BY <2>1 DEF HubTypes
    <3>3. running' \in BOOLEAN
        BY <2>1, Zenon
    <3>2. UNCHANGED <<committed, cursor, shadowed, subsAt, latest, subs, events, deliveries, saved, timers,
                      inFlight, up>>
        BY <2>1
    <3> QED BY <3>1, <3>2, <3>3 DEF HubTypes
  <2>5. up
      BY <2>1 DEF Quiet
  <2>6. \A d \in DOMAIN deliveries : deliveries[d].attempts \in Nat
      BY DeliveryFields
  <2>7. MaxAttempts \in Nat /\ failures \in Nat /\ timers \subseteq DOMAIN deliveries
      BY Constants DEF HubTypes
  <2>8. AttemptsLeft' /\ AttemptsBounded'
      BY <2>1, <2>5, <2>6, <2>7 DEF AttemptsLeft, AttemptsBounded
  <2> QED BY <2>1, <2>3, <2>4, <2>5, <2>8 DEF PostsLive, Quiet
<1> QED BY <1>1, <1>2

-----------------------------------------------------------------------------
(* The process *)

\* What a crash leaves of rows and subscriptions.
LEMMA GoneTypes ==
    ASSUME HubInv, Gone, PostParts', saved' \subseteq events', events' \subseteq Ids
    PROVE  HubTypes'
<1> USE DEF HubInv, PostInv
<1>1. /\ latest' = 0 /\ batch' = <<>> /\ failures' = failures + 1
      /\ UNCHANGED <<committed, cursor, shadowed, subsAt, subs>>
    BY DEF Gone, tableVars
<1>2. up' \in BOOLEAN /\ running' \in BOOLEAN
    BY Zenon DEF Gone
<1>3. failures' \in Nat /\ latest' \in Nat /\ batch' \in Seq(Nat)
    BY <1>1 DEF HubTypes
<1> QED BY <1>1, <1>2, <1>3 DEF HubTypes, PostParts

\* The process ends between two handlers: a row the file does not know had nothing
\* to deliver, and is read again.
LEMMA CrashStep == HubInv /\ Crash => HubInv'
<1> SUFFICES ASSUME HubInv, Crash PROVE HubInv'
    OBVIOUS
<1> USE DEF HubInv, PostInv
<1>1. /\ Gone /\ events' = saved /\ ~running'
      /\ UNCHANGED <<committed, cursor, shadowed, subsAt, subs, deliveries, saved>>
    BY DEF Crash, Gone, tableVars
<1>2. PostParts' /\ Quiet'
    BY <1>1, GoneKeepsPosts
<1>3. events' \subseteq events /\ saved' \subseteq events' /\ events' \subseteq Ids
    BY <1>1 DEF HubTypes
<1>4. Kept
    BY <1>1, DeliveriesKept
<1>5. RowInv'
    BY <1>1, <1>3, <1>4, RowsStay DEF HubTypes
<1> QED BY <1>1, <1>2, <1>3, <1>5, GoneTypes DEF PostParts

\* It ends inside an emit or a replay: the file has the event together with its first
\* delivery, never without it.
LEMMA CrashInEmitStep == HubInv /\ CrashInEmit => HubInv'
<1> SUFFICES ASSUME HubInv, CrashInEmit PROVE HubInv'
    OBVIOUS
<1> USE DEF HubInv, PostInv
<1>1. Gone /\ ~running' /\ UNCHANGED <<committed, cursor, shadowed, subsAt, subs>>
    BY DEF CrashInEmit, Gone, tableVars
<1>2. ASSUME NEW e \in Ids, NEW to \in Seq(1..Len(subs)), KilledIn(e, to),
             \/ e \in ApiEvents \/ e \in events
             \/ e \in 1..committed /\ to \in Matching(e)
      PROVE  HubInv'
  <2>1. PICK k \in 1..Len(to) : Grown(e, to, k)
      BY <1>2, KilledGrows
  <2>2. saved' = events \cup {e} /\ events' = events \cup {e} /\ k \in Nat /\ Len(to) \in Nat
      BY <1>2, KilledGrows
  <2>3. PostParts' /\ Quiet'
      BY <1>1, <2>1, <2>2, GoneKeepsPosts
  <2>4. HubTypes'
      BY <1>1, <2>2, <2>3, GoneTypes DEF HubTypes
  <2>5. Kept
      BY <1>1, <2>1, <2>2, DeliveriesKept
  <2>6. CASE e \in ApiEvents \/ e \in events
    <3>1. events' \cap Rows \subseteq events
        BY <2>2, <2>6, HubAssumption
    <3>2. RowInv'
        BY <1>1, <2>5, <3>1, RowsStay DEF HubTypes
    <3> QED BY <2>3, <2>4, <3>2 DEF PostParts
  <2>7. CASE e \in 1..committed /\ to \in Matching(e)
    <3>1. k \in 0..Len(to) /\ k # 0
        BY <2>1, <2>2
    <3>2. Handled(e)'
        BY <1>1, <2>1, <2>7, <3>1, EmitHandles
    <3>3. committed \in Nat /\ cursor \in 0..committed
        BY DEF HubTypes
    <3>4. \A r \in 1..committed : Handled(r) => Handled(r)'
        BY <2>5, HandledStays
    <3>5. EventsHandled'
      <4> SUFFICES ASSUME NEW r \in events' \cap Rows PROVE r <= committed /\ Handled(r)'
          BY <1>1 DEF EventsHandled
      <4>1. CASE r = e
          BY <2>7, <3>2, <3>3, <4>1
      <4>2. CASE r \in events
        <5>1. r <= committed /\ Handled(r) /\ r \in Nat \ {0}
            BY <4>2, Constants DEF RowInv, EventsHandled
        <5> QED BY <3>3, <3>4, <5>1
      <4> QED BY <2>2, <4>1, <4>2
    <3>6. \A r \in 1..cursor : Handled(r)'
        BY <3>3, <3>4 DEF RowInv, PassedHandled
    <3>7. RowInv'
        BY <1>1, <3>5, <3>6 DEF RowInv, PassedHandled, BatchFollows
    <3> QED BY <2>3, <2>4, <3>7 DEF PostParts
  <2> QED BY <1>2, <2>6, <2>7
<1>3. ASSUME NEW e \in ApiEvents, NEW to \in Matching(e), KilledIn(e, to) PROVE HubInv'
  <2>1. e \in Ids /\ to \in Seq(1..Len(subs))
      BY MatchingList DEF Ids
  <2> QED BY <1>2, <1>3, <2>1
<1>4. ASSUME NEW e \in events, NEW k \in DOMAIN subs, KilledIn(e, <<k>>) PROVE HubInv'
  <2>1. e \in Ids /\ k \in 1..Len(subs)
      BY DEF HubTypes
  <2>2. <<k>> \in Seq(1..Len(subs))
      BY <2>1
  <2> QED BY <1>2, <1>4, <2>1, <2>2
<1>5. ASSUME batch # <<>>, NEW to \in Matching(Head(batch)), KilledIn(Head(batch), to) PROVE HubInv'
  <2>1. PICK e : e = Head(batch)
      OBVIOUS
  <2>2. e \in Ids /\ e \in 1..committed
      BY <1>5, <2>1, NextRow
  <2>3. to \in Matching(e) /\ KilledIn(e, to)
      BY <1>5, <2>1
  <2>4. to \in Seq(1..Len(subs))
      BY <2>2, <2>3, MatchingList
  <2> QED BY <1>2, <2>2, <2>3, <2>4
<1> QED BY <1>3, <1>4, <1>5 DEF CrashInEmit

\* The process starts, for the first time or again.
LEMMA StartStep == HubInv /\ Start => HubInv'
<1> SUFFICES ASSUME HubInv, Start PROVE HubInv'
    OBVIOUS
<1> USE DEF HubInv, PostInv
<1>1. UNCHANGED <<committed, cursor, shadowed, subsAt, subs, running, batch, latest, events, deliveries, saved, failures>>
    BY DEF Start, StartProducer, tableVars
<1>2. PostParts' /\ Quiet'
    BY StartKeepsPosts
<1>3. Kept
    BY <1>1 DEF Kept
<1>4. RowInv'
    BY <1>1, <1>3, RowsStay DEF HubTypes
<1>5. up' \in BOOLEAN
    BY Zenon DEF Start, StartProducer
<1>6. HubTypes'
    BY <1>1, <1>2, <1>5 DEF HubTypes, PostParts
<1> QED BY <1>2, <1>4, <1>6 DEF PostParts

\* The invariant holds at the start and every step keeps it.
LEMMA HubInvariant == Spec => []HubInv
<1>1. Init => HubInv
  <2> SUFFICES ASSUME Init PROVE HubInv
      OBVIOUS
  <2>1. Quiet /\ PostsLive /\ AttemptsLeft /\ AttemptsBounded
      BY DEF Init, Quiet, PostsLive, AttemptsLeft, AttemptsBounded
  <2>2. RowInv
      BY DEF Init, RowInv, BatchFollows, EventsHandled, PassedHandled
  <2>3. up \in BOOLEAN /\ running \in BOOLEAN
      BY Zenon DEF Init
  <2>4. HubTypes
      BY <2>3, Constants DEF Init, HubTypes
  <2> QED BY <2>1, <2>2, <2>4 DEF HubInv, PostInv
<1>2. HubInv /\ [Next]_vars => HubInv'
  <2> SUFFICES ASSUME HubInv, [Next]_vars PROVE HubInv'
      OBVIOUS
  <2>1. CASE UNCHANGED vars
    <3>1. UNCHANGED <<committed, cursor, shadowed, subsAt, running, batch, latest, subs, events, deliveries, saved,
                      timers, inFlight, up, failures>>
        BY <2>1 DEF vars, tableVars, producerVars, hubVars
    <3>2. Kept
        BY <3>1 DEF Kept
    <3>3. RowInv'
        BY <3>1, <3>2, RowsStay DEF HubInv, PostInv, HubTypes
    <3>4. PostInv'
        BY <3>1 DEF HubInv, PostInv, HubTypes, Quiet, PostsLive, AttemptsLeft, AttemptsBounded
    <3> QED BY <3>3, <3>4 DEF HubInv
  <2> QED BY <2>1, CommitStep, SubscribeStep, RequestStep, AnswerStep, ReadStep, EmitStep, TickEndStep,
             CrashStep, CrashInEmitStep, StartStep DEF Next
<1> QED BY <1>1, <1>2, PTL DEF Spec

-----------------------------------------------------------------------------
(* Theorems *)

\* However POSTs, retries, timers and crashes interleave, dispatch posts a delivery at
\* most maxAttempts times and once more for each failure, and never again once it is
\* delivered or a dead letter: for any number of subscriptions and deliveries.
THEOREM DeliveriesPostedBoundedly == Spec => []AttemptsBounded
<1>1. HubInv => AttemptsBounded
    BY DEF HubInv, PostInv
<1> QED BY <1>1, HubInvariant, PTL

\* runOnce never moves the cursor past a row whose oldest interested subscriber has no
\* delivery of it, wherever the process dies and whatever is read again, except one whose id
\* an event of the API holds: for any
\* number of rows and subscriptions and any size of a batch.
THEOREM OldestSubscriberServed == Spec => []FirstSubscriberServed
<1>1. HubInv => FirstSubscriberServed
    BY DEF HubInv, RowInv, PassedHandled, Handled, FirstSubscriberServed
<1> QED BY <1>1, HubInvariant, PTL
=============================================================================
