----------------------------- MODULE IacpProofs ------------------------------
(***************************************************************************)
(* Proofs about IacpBus for any sockets, topics, sizes of reads and number *)
(* of failures: the order of the streams, and the anchor pool.             *)
(***************************************************************************)
EXTENDS IacpBus, FiniteSetTheorems, SequenceTheorems, TLAPS

Entries == Topics \X Positions

\* The part of the type invariant that the order of delivery rests on.
StreamTypes ==
    /\ Known \subseteq Topics
    /\ stream \in [Topics -> Nat]
    /\ group \in [Topics -> Nat \cup {NoGroup}]
    /\ pending \in [Topics -> SUBSET Positions]
    /\ batch \in Seq(Entries) /\ awaitingAck \in BOOLEAN
    /\ received \in [Sockets -> Seq(Entries)]
    /\ publishing \subseteq Publishers \X Topics

\* A stream has entries only once its group exists, because every publish ensures
\* the group first, and the group is never ahead of the stream.
GroupBehind ==
    /\ \A t \in Topics : IF group[t] = NoGroup THEN stream[t] = 0 ELSE group[t] <= stream[t]
    /\ \A o \in Publishers, t \in Topics : <<o, t>> \in publishing => group[t] # NoGroup

\* Passed(e): the group has delivered e.
Passed(e) == group[e[1]] # NoGroup /\ e[2] <= group[e[1]]

\* The pump holds entries the group has delivered, each topic in its order, and the
\* one whose XACK it awaits went to the subscribers.
BatchInOrder ==
    /\ \A k \in 1..Len(batch) : Passed(batch[k])
    /\ \A j, k \in 1..Len(batch) :
        (j < k /\ batch[j][1] = batch[k][1]) => batch[j][2] < batch[k][2]
    /\ awaitingAck => batch # <<>> /\ Head(batch) \in dispatched

\* What a socket has received is behind what the pump still has to dispatch.
ReceivedBehind ==
    \A s \in Sockets : \A j \in 1..Len(received[s]) :
        /\ Passed(received[s][j])
        /\ \A k \in 1..Len(batch) :
            (received[s][j][1] = batch[k][1] /\ (awaitingAck => k # 1))
                => received[s][j][2] < batch[k][2]

BusInv ==
    /\ StreamTypes /\ GroupBehind /\ BatchInOrder /\ ReceivedBehind
    /\ PerTopicOrder /\ DeliveredIsDispatchedOrPending

\* A reply is a finite sequence of entries that the group had not delivered.
LEMMA RepliesAreUnread ==
    ASSUME StreamTypes, \A t \in Known : group[t] # NoGroup, NEW b \in Replies
    PROVE  /\ b \in Seq(Entries)
           /\ \A k \in 1..Len(b) : b[k][1] \in Known /\ b[k][2] \in Unread(b[k][1])
           /\ \A j, k \in 1..Len(b) : (j < k /\ b[j][1] = b[k][1]) => b[j][2] < b[k][2]
<1> DEFINE F == [t \in Known |-> {t} \X Unread(t)]
           S == {{t} \X Unread(t) : t \in Known}
           U == UNION S
<1>1. IsFiniteSet(Known)
    BY BusAssumption, FS_Subset DEF StreamTypes
<1>2. F \in Surjection(Known, S)
    BY DEF Surjection
<1>3. IsFiniteSet(S)
    BY <1>1, <1>2, FS_Surjection
<1>4. \A t \in Known : IsFiniteSet({t} \X Unread(t))
  <2> TAKE t \in Known
  <2>1. IsFiniteSet(1..stream[t])
      BY FS_Interval DEF StreamTypes
  <2>2. IsFiniteSet(Unread(t))
      BY <2>1, FS_Subset DEF Unread
  <2>3. IsFiniteSet({t})
      BY FS_Singleton
  <2> QED BY <2>2, <2>3, FS_Product
<1>5. IsFiniteSet(U)
    BY <1>3, <1>4, FS_UNION
<1>6. Cardinality(U) \in Nat
    BY <1>5, FS_CardinalityType
<1>7. U \subseteq Entries /\ \A e \in U : e[1] \in Known /\ e[2] \in Unread(e[1])
    BY DEF Entries, StreamTypes, Unread, Positions
<1>8. /\ b \in [1..Cardinality(U) -> U]
      /\ \A j, k \in DOMAIN b : (j < k /\ b[j][1] = b[k][1]) => b[j][2] < b[k][2]
    BY DEF Replies, SetToSeqs
<1> HIDE DEF U
<1>9. b \in Seq(Entries) /\ Len(b) = Cardinality(U) /\ DOMAIN b = 1..Len(b)
    BY <1>6, <1>7, <1>8
<1> QED BY <1>7, <1>8, <1>9

streamVars == <<stream, group, pending, batch, awaitingAck, received, dispatched, publishing>>

\* Sockets come and go, subscribe and are answered without touching the streams.
LEMMA SocketStep ==
    ASSUME BusInv, UNCHANGED streamVars, Known' \subseteq Topics
    PROVE  BusInv'
BY DEF BusInv, streamVars, StreamTypes, GroupBehind, BatchInOrder, ReceivedBehind, Passed,
   PerTopicOrder, DeliveredIsDispatchedOrPending

\* ensureGroup of a topic: a new group starts at the end of a stream that is empty.
LEMMA EnsureGroupStep ==
    ASSUME BusInv, NEW t \in Topics, EnsureGroup(t),
           UNCHANGED <<stream, pending, batch, awaitingAck, received, dispatched>>,
           Known' \subseteq Topics,
           \A o \in Publishers, u \in Topics : <<o, u>> \in publishing' => u = t \/ <<o, u>> \in publishing,
           publishing' \subseteq Publishers \X Topics
    PROVE  BusInv'
<1> USE DEF BusInv
<1>1. /\ group' \in [Topics -> Nat \cup {NoGroup}] /\ group'[t] # NoGroup
      /\ \A u \in Topics : group[u] # NoGroup => group'[u] = group[u]
      /\ \A u \in Topics : u # t => group'[u] = group[u]
      /\ group[t] = NoGroup => group'[t] = 0 /\ stream[t] = 0
    BY DEF EnsureGroup, StreamTypes, GroupBehind, NoGroup
<1>2. StreamTypes'
    BY <1>1 DEF StreamTypes
<1>3. GroupBehind'
    BY <1>1 DEF GroupBehind, StreamTypes
<1>4. \A e \in Entries : Passed(e) => Passed(e)'
    BY <1>1 DEF Passed, Entries
<1>5. BatchInOrder' /\ ReceivedBehind' /\ PerTopicOrder'
    BY <1>4 DEF BatchInOrder, ReceivedBehind, PerTopicOrder, StreamTypes
<1>6. DeliveredIsDispatchedOrPending'
    BY <1>1 DEF DeliveredIsDispatchedOrPending, StreamTypes
<1> QED BY <1>2, <1>3, <1>5, <1>6

\* XADD: the new entry is ahead of the group.
LEMMA AddStep ==
    ASSUME BusInv, NEW t \in Topics, NEW o \in Publishers, <<o, t>> \in publishing,
           stream' = [stream EXCEPT ![t] = @ + 1], publishing' \subseteq publishing,
           UNCHANGED <<group, pending, batch, awaitingAck, received, dispatched, subscribers>>
    PROVE  BusInv'
<1> USE DEF BusInv
<1>1. group[t] # NoGroup /\ group[t] <= stream[t]
    BY DEF GroupBehind
<1>2. stream' \in [Topics -> Nat] /\ \A u \in Topics \ {t} : stream'[u] = stream[u]
    BY DEF StreamTypes
<1>3. StreamTypes'
    BY <1>2 DEF StreamTypes, Known
<1>4. GroupBehind'
    BY <1>1, <1>2 DEF GroupBehind, StreamTypes, NoGroup
<1>5. BatchInOrder' /\ ReceivedBehind' /\ PerTopicOrder'
    BY DEF BatchInOrder, ReceivedBehind, PerTopicOrder, Passed
<1>6. DeliveredIsDispatchedOrPending'
    BY <1>1 DEF DeliveredIsDispatchedOrPending, StreamTypes, NoGroup, GroupBehind
<1> QED BY <1>3, <1>4, <1>5, <1>6

\* Unread(t) is what is between the group and its new place.
LEMMA UnreadBounds ==
    ASSUME StreamTypes, NEW t \in Topics, group[t] # NoGroup, Unread(t) # {}
    PROVE  /\ Max(Unread(t)) \in Nat /\ Max(Unread(t)) \in Unread(t)
           /\ \A i \in Unread(t) : group[t] < i /\ i <= Max(Unread(t)) /\ i <= stream[t]
           /\ \A i \in 1..stream[t] : (group[t] < i /\ i <= Max(Unread(t))) => i \in Unread(t)
<1> USE BusAssumption
<1>1. group[t] \in Nat /\ stream[t] \in Nat
    BY DEF StreamTypes
<1> DEFINE m == IF stream[t] <= group[t] + ReadCount THEN stream[t] ELSE group[t] + ReadCount
<1>2. m \in Unread(t) /\ \A i \in Unread(t) : i <= m
    BY <1>1 DEF Unread
<1> HIDE DEF m
<1>3. Max(Unread(t)) \in Unread(t) /\ \A i \in Unread(t) : Max(Unread(t)) >= i
    BY <1>1, <1>2 DEF Max, Unread
<1> QED BY <1>1, <1>3 DEF Unread

\* XREADGROUP moves the group and lists what it passes as pending; the pump gets a
\* reply with these entries, or none.
LEMMA ReadStep ==
    ASSUME BusInv, ReadGroup, batch' \in Replies \cup {batch}
    PROVE  BusInv'
<1> USE DEF BusInv
<1>1. batch = <<>> /\ (\A t \in Known : group[t] # NoGroup) /\ Known \subseteq Topics
    BY DEF ReadGroup, StreamTypes
<1>2. UNCHANGED <<subscribers, publishing, stream, awaitingAck, received, dispatched>>
    BY DEF ReadGroup
<1>3. ~awaitingAck
    BY <1>1 DEF BatchInOrder
<1>4. \A t \in Topics :
        /\ group'[t] \in Nat \cup {NoGroup}
        /\ group[t] = NoGroup <=> group'[t] = NoGroup
        /\ group[t] # NoGroup => group[t] <= group'[t] /\ group'[t] <= stream[t]
        /\ t \in Known => \A i \in Unread(t) : group[t] < i /\ i <= group'[t]
        /\ \A i \in 1..stream[t] : (group[t] < i /\ i <= group'[t]) => t \in Known /\ i \in Unread(t)
  <2> TAKE t \in Topics
  <2>1. group[t] \in Nat \cup {NoGroup} /\ stream[t] \in Nat
      BY DEF StreamTypes
  <2>2. group[t] # NoGroup => group[t] <= stream[t]
      BY DEF GroupBehind
  <2>3. CASE t \in Known /\ Unread(t) # {}
    <3>1. group'[t] = Max(Unread(t)) /\ group[t] # NoGroup
        BY <1>1, <2>3 DEF ReadGroup
    <3>2. /\ Max(Unread(t)) \in Nat /\ Max(Unread(t)) \in Unread(t)
          /\ \A i \in Unread(t) : group[t] < i /\ i <= Max(Unread(t)) /\ i <= stream[t]
          /\ \A i \in 1..stream[t] : (group[t] < i /\ i <= Max(Unread(t))) => i \in Unread(t)
        BY <2>3, <3>1, UnreadBounds
    <3> QED BY <2>1, <2>2, <2>3, <3>1, <3>2 DEF NoGroup
  <2>4. CASE ~(t \in Known /\ Unread(t) # {})
    <3>1. group'[t] = group[t]
        BY <2>4 DEF ReadGroup
    <3> QED BY <2>1, <2>2, <2>4, <3>1 DEF NoGroup
  <2> QED BY <2>3, <2>4
<1>5. /\ pending' \in [Topics -> SUBSET Positions]
      /\ \A t \in Topics : pending[t] \subseteq pending'[t]
      /\ \A t \in Known : Unread(t) \subseteq pending'[t]
    BY <1>1 DEF ReadGroup, StreamTypes, Unread, Positions
<1>6. /\ batch' \in Seq(Entries)
      /\ \A k \in 1..Len(batch') : batch'[k][1] \in Known /\ batch'[k][2] \in Unread(batch'[k][1])
      /\ \A j, k \in 1..Len(batch') :
            (j < k /\ batch'[j][1] = batch'[k][1]) => batch'[j][2] < batch'[k][2]
  <2>1. CASE batch' \in Replies
      BY <1>1, <2>1, RepliesAreUnread
  <2>2. CASE batch' = batch
      BY <1>1, <2>2 DEF StreamTypes
  <2> QED BY <2>1, <2>2
<1>7. StreamTypes'
  <2>1. group' \in [Topics -> Nat \cup {NoGroup}]
      BY <1>4 DEF ReadGroup
  <2> QED BY <1>2, <1>5, <1>6, <2>1 DEF StreamTypes, Known
<1>8. GroupBehind'
    BY <1>2, <1>4 DEF GroupBehind
<1>9. \A e \in Entries : Passed(e) => Passed(e)'
    BY <1>4 DEF Passed, Entries, Positions, StreamTypes, NoGroup
<1>10. BatchInOrder'
  <2>1. \A k \in 1..Len(batch') :
            group'[batch'[k][1]] # NoGroup /\ batch'[k][2] <= group'[batch'[k][1]]
      BY <1>1, <1>4, <1>6
  <2> QED BY <1>2, <1>3, <1>6, <2>1 DEF BatchInOrder, Passed
<1>11. ReceivedBehind'
  <2> SUFFICES ASSUME NEW s \in Sockets, NEW j \in 1..Len(received[s])
               PROVE  /\ Passed(received[s][j])'
                      /\ \A k \in 1..Len(batch') :
                            received[s][j][1] = batch'[k][1] => received[s][j][2] < batch'[k][2]
      BY <1>2 DEF ReceivedBehind
  <2>1. received[s][j] \in Entries /\ Passed(received[s][j])
      BY DEF StreamTypes, ReceivedBehind
  <2>2. ASSUME NEW k \in 1..Len(batch'), received[s][j][1] = batch'[k][1]
        PROVE  received[s][j][2] < batch'[k][2]
    <3>1. /\ group[batch'[k][1]] < batch'[k][2] /\ batch'[k][1] \in Topics
          /\ batch'[k] \in Entries
        BY <1>1, <1>4, <1>6
    <3>2. received[s][j][2] <= group[batch'[k][1]] /\ group[batch'[k][1]] # NoGroup
        BY <2>1, <2>2 DEF Passed
    <3>3. group[batch'[k][1]] \in Nat
        BY <3>1, <3>2 DEF StreamTypes
    <3> QED BY <2>1, <3>1, <3>2, <3>3 DEF Entries, Positions
  <2> QED BY <1>2, <1>9, <2>1, <2>2
<1>12. PerTopicOrder'
    BY <1>2 DEF PerTopicOrder
<1>13. DeliveredIsDispatchedOrPending'
  <2> SUFFICES ASSUME NEW t \in Topics, NEW i \in 1..stream[t], group'[t] # NoGroup, i <= group'[t]
               PROVE  <<t, i>> \in dispatched \/ i \in pending'[t]
      BY <1>2 DEF DeliveredIsDispatchedOrPending
  <2>1. CASE i <= group[t]
      BY <1>4, <1>5, <2>1 DEF DeliveredIsDispatchedOrPending
  <2>2. CASE ~(i <= group[t])
    <3>1. group[t] < i
        BY <1>4, <2>2 DEF StreamTypes
    <3> QED BY <1>4, <1>5, <3>1
  <2> QED BY <2>1, <2>2
<1> QED BY <1>7, <1>8, <1>10, <1>11, <1>12, <1>13

\* dispatch: a socket gets the first entry of the batch behind all it has received.
LEMMA DispatchStep == BusInv /\ Dispatch => BusInv'
<1> SUFFICES ASSUME BusInv, Dispatch PROVE BusInv'
    OBVIOUS
<1> USE DEF BusInv
<1> DEFINE e == Head(batch)
<1>1. /\ batch # <<>> /\ ~awaitingAck /\ awaitingAck' /\ dispatched' = dispatched \cup {e}
      /\ UNCHANGED <<subscribers, stream, group, pending, batch, publishing>>
    BY DEF Dispatch, redisVars
<1>2. awaitingAck' \in BOOLEAN
    BY DEF Dispatch
<1>3. received' = [s \in Sockets |-> received'[s]]
      /\ \A s \in Sockets : received'[s] \in {received[s], Append(received[s], e)}
    BY DEF Dispatch
<1>4. e = batch[1] /\ 1 \in 1..Len(batch) /\ e \in Entries
    BY <1>1 DEF StreamTypes
<1> HIDE DEF e
<1>5. \A s \in Sockets :
        /\ received'[s] \in Seq(Entries)
        /\ \A j \in 1..Len(received'[s]) :
            \/ j \in 1..Len(received[s]) /\ received'[s][j] = received[s][j]
            \/ j = Len(received[s]) + 1 /\ received'[s][j] = e
  <2> TAKE s \in Sockets
  <2> DEFINE r == received[s]
  <2>1. r \in Seq(Entries) /\ e \in Entries
      BY <1>4 DEF StreamTypes
  <2>2. received'[s] = r \/ received'[s] = Append(r, e)
      BY <1>3
  <2>3. CASE received'[s] = r
      BY <2>1, <2>3
  <2>4. CASE received'[s] = Append(r, e)
    <3> HIDE DEF r
    <3>1. Append(r, e) \in Seq(Entries) /\ Len(Append(r, e)) = Len(r) + 1
        BY <2>1
    <3>2. /\ \A j \in 1..Len(r) : Append(r, e)[j] = r[j]
          /\ Append(r, e)[Len(r) + 1] = e
        BY <2>1
    <3>3. Len(r) \in Nat
        BY <2>1
    <3>4. \A j \in 1..Len(r) + 1 : j \in 1..Len(r) \/ j = Len(r) + 1
        BY <3>3
    <3> QED BY <2>4, <3>1, <3>2, <3>4 DEF r
  <2> QED BY <2>2, <2>3, <2>4
<1>6. StreamTypes'
  <2>1. received' \in [Sockets -> Seq(Entries)]
      BY <1>3, <1>5
  <2> QED BY <1>1, <1>2, <2>1 DEF StreamTypes, Known
<1>7. GroupBehind'
    BY <1>1 DEF GroupBehind
<1>8. BatchInOrder'
    BY <1>1, <1>2 DEF BatchInOrder, Passed, e
<1>9. ReceivedBehind'
  <2> SUFFICES ASSUME NEW s \in Sockets, NEW j \in 1..Len(received'[s])
               PROVE  /\ Passed(received'[s][j])
                      /\ \A k \in 1..Len(batch) :
                            (received'[s][j][1] = batch[k][1] /\ k # 1)
                                => received'[s][j][2] < batch[k][2]
      BY <1>1 DEF ReceivedBehind, Passed
  <2>1. CASE j \in 1..Len(received[s]) /\ received'[s][j] = received[s][j]
      BY <1>1, <2>1 DEF ReceivedBehind
  <2>2. CASE received'[s][j] = e
      BY <1>4, <2>2 DEF BatchInOrder
  <2> QED BY <1>5, <2>1, <2>2
<1>10. PerTopicOrder'
  <2> SUFFICES ASSUME NEW s \in Sockets, NEW j \in 1..Len(received'[s]), NEW k \in 1..Len(received'[s]),
                      j < k, received'[s][j][1] = received'[s][k][1]
               PROVE  received'[s][j][2] < received'[s][k][2]
      BY DEF PerTopicOrder
  <2>0. received[s] \in Seq(Entries) /\ Len(received[s]) \in Nat
      BY DEF StreamTypes
  <2>1. j \in 1..Len(received[s]) /\ received'[s][j] = received[s][j]
    <3>1. Len(received'[s]) <= Len(received[s]) + 1
        BY <1>3, <1>4, <2>0
    <3>2. k <= Len(received[s]) + 1 /\ j # Len(received[s]) + 1
        BY <2>0, <3>1
    <3> QED BY <1>5, <3>2
  <2>2. CASE k \in 1..Len(received[s]) /\ received'[s][k] = received[s][k]
      BY <2>1, <2>2 DEF PerTopicOrder
  <2>3. CASE received'[s][k] = e
      BY <1>1, <1>4, <2>1, <2>3 DEF ReceivedBehind
  <2> QED BY <1>5, <2>2, <2>3
<1>11. DeliveredIsDispatchedOrPending'
    BY <1>1 DEF DeliveredIsDispatchedOrPending
<1> QED BY <1>6, <1>7, <1>8, <1>9, <1>10, <1>11

\* XACK of the first entry: it was dispatched, and the rest of the batch is ahead of
\* what the sockets have received.
LEMMA AckStep == BusInv /\ Acked => BusInv'
<1> SUFFICES ASSUME BusInv, Acked PROVE BusInv'
    OBVIOUS
<1> USE DEF BusInv
<1> DEFINE e == Head(batch)
<1>1. /\ awaitingAck /\ awaitingAck' = FALSE /\ batch # <<>> /\ e \in dispatched
      /\ batch' = Tail(batch)
      /\ UNCHANGED <<subscribers, publishing, stream, group, received, dispatched>>
    BY DEF Acked, BatchInOrder
<1>2. pending' = [pending EXCEPT ![e[1]] = @ \ {e[2]}]
    BY DEF Acked
<1>3. e = batch[1] /\ e \in Entries
    BY <1>1 DEF StreamTypes
<1> HIDE DEF e
<1>4. /\ batch' \in Seq(Entries)
      /\ \A k \in 1..Len(batch') : k + 1 \in 1..Len(batch) /\ k + 1 # 1 /\ batch'[k] = batch[k + 1]
    BY <1>1 DEF StreamTypes
<1>5. StreamTypes'
  <2>1. pending' \in [Topics -> SUBSET Positions]
      BY <1>2, <1>3 DEF StreamTypes, Entries
  <2> QED BY <1>1, <1>4, <2>1 DEF StreamTypes, Known
<1>6. GroupBehind'
    BY <1>1 DEF GroupBehind
<1>7. BatchInOrder'
  <2>1. \A k \in 1..Len(batch') : Passed(batch[k + 1])
      BY <1>4 DEF BatchInOrder
  <2>2. \A j, k \in 1..Len(batch') :
            (j < k /\ batch'[j][1] = batch'[k][1]) => batch'[j][2] < batch'[k][2]
    <3> TAKE j, k \in 1..Len(batch')
    <3>1. j < k => j + 1 < k + 1
        OBVIOUS
    <3> QED BY <1>4, <3>1 DEF BatchInOrder
  <2> QED BY <1>1, <1>4, <2>1, <2>2 DEF BatchInOrder, Passed
<1>8. ReceivedBehind'
  <2> SUFFICES ASSUME NEW s \in Sockets, NEW j \in 1..Len(received[s])
               PROVE  /\ Passed(received[s][j])
                      /\ \A k \in 1..Len(batch') :
                            received[s][j][1] = batch'[k][1] => received[s][j][2] < batch'[k][2]
      BY <1>1 DEF ReceivedBehind, Passed
  <2> QED BY <1>4 DEF ReceivedBehind
<1>9. PerTopicOrder'
    BY <1>1 DEF PerTopicOrder
<1>10. DeliveredIsDispatchedOrPending'
  <2>1. e = <<e[1], e[2]>>
      BY <1>3 DEF Entries
  <2>2. \A t \in Topics : \A i \in pending[t] : i \in pending'[t] \/ <<t, i>> = e
      BY <1>2, <1>3, <2>1 DEF StreamTypes, Entries
  <2> QED BY <1>1, <2>2 DEF DeliveredIsDispatchedOrPending
<1> QED BY <1>5, <1>6, <1>7, <1>8, <1>9, <1>10

\* A batch that is dropped, after a failed XACK or with the process, leaves its
\* entries pending.
LEMMA DropStep ==
    ASSUME BusInv, batch' = <<>>, awaitingAck' = FALSE, publishing' \in {publishing, {}},
           Known' \subseteq Topics,
           UNCHANGED <<stream, group, pending, received, dispatched>>
    PROVE  BusInv'
<1> USE DEF BusInv
<1>1. StreamTypes'
  <2>1. batch' \in Seq(Entries)
      OBVIOUS
  <2>2. publishing' \subseteq Publishers \X Topics
      BY DEF StreamTypes
  <2> QED BY <2>1, <2>2 DEF StreamTypes
<1>2. GroupBehind' /\ PerTopicOrder' /\ DeliveredIsDispatchedOrPending'
    BY DEF GroupBehind, PerTopicOrder, DeliveredIsDispatchedOrPending
<1>3. Len(batch') = 0
    OBVIOUS
<1>4. BatchInOrder' /\ ReceivedBehind'
    BY <1>3 DEF BatchInOrder, ReceivedBehind, Passed
<1> QED BY <1>1, <1>2, <1>4

\* The invariant holds at the start and every step keeps it.
LEMMA BusInvariant == Spec => []BusInv
<1>1. Init => BusInv
  <2> SUFFICES ASSUME Init PROVE BusInv
      OBVIOUS
  <2>1. StreamTypes
    <3>1. <<>> \in Seq(Entries)
        OBVIOUS
    <3>2. received \in [Sockets -> Seq(Entries)] /\ batch \in Seq(Entries)
        BY <3>1 DEF Init
    <3>3. Known \subseteq Topics
        BY DEF Init, Known
    <3> QED BY <3>2, <3>3 DEF Init, StreamTypes, NoGroup
  <2>2. GroupBehind
      BY DEF Init, GroupBehind
  <2>3. BatchInOrder /\ ReceivedBehind /\ PerTopicOrder
      BY DEF Init, BatchInOrder, ReceivedBehind, PerTopicOrder
  <2>4. DeliveredIsDispatchedOrPending
      BY DEF Init, DeliveredIsDispatchedOrPending
  <2> QED BY <2>1, <2>2, <2>3, <2>4 DEF BusInv
<1>2. BusInv /\ [Next]_vars => BusInv'
  <2> SUFFICES ASSUME BusInv, [Next]_vars PROVE BusInv'
      OBVIOUS
  <2>0. Known \subseteq Topics
      BY DEF BusInv, StreamTypes
  <2>1. ASSUME NEW s \in Sockets, Connect(s) \/ Sent(s) \/ Answer(s)
        PROVE  BusInv'
      BY <2>0, <2>1, SocketStep DEF Connect, Sent, Answer, Known, streamVars, redisVars, pumpVars
  <2>2. ASSUME NEW s \in Sockets, Close(s)
        PROVE  BusInv'
      BY <2>0, <2>2, SocketStep DEF Close, Known, streamVars, redisVars, pumpVars
  <2>3. ASSUME NEW s \in Sockets, NEW t \in Topics, Sub(s, t) \/ Unsub(s, t)
        PROVE  BusInv'
    <3>1. Known' \subseteq Topics
        BY <2>0, <2>3 DEF Sub, Unsub, Known
    <3> QED BY <2>3, <3>1, SocketStep DEF Sub, Unsub, streamVars, redisVars, pumpVars
  <2>4. ASSUME NEW s \in Sockets, NEW t \in Topics, Joined(s, t)
        PROVE  BusInv'
    <3>1. Known' \subseteq Topics
        BY <2>0, <2>4 DEF Joined, Known
    <3> QED BY <2>4, <3>1, EnsureGroupStep DEF Joined, pumpVars, BusInv, StreamTypes
  <2>5. ASSUME NEW o \in Publishers, NEW t \in Topics, Publish(o, t)
        PROVE  BusInv'
    <3>1. Known' \subseteq Topics
        BY <2>0, <2>5 DEF Publish, Known
    <3>2. publishing' = publishing \cup {<<o, t>>} /\ publishing \subseteq Publishers \X Topics
        BY <2>5 DEF Publish, BusInv, StreamTypes
    <3> QED BY <2>5, <3>1, <3>2, EnsureGroupStep DEF Publish, pumpVars
  <2>6. ASSUME NEW o \in Publishers, NEW t \in Topics, XAdd(o, t) \/ XAddResent(o, t)
        PROVE  BusInv'
      BY <2>6, AddStep DEF XAdd, XAddResent, pumpVars
  <2>7. CASE PumpRead \/ ReadLost
      BY <2>7, ReadStep DEF PumpRead, ReadLost
  <2>8. CASE Dispatch \/ Acked
      BY <2>8, DispatchStep, AckStep
  <2>9. CASE AckFailed
    <3>1. Known' \subseteq Topics
        BY <2>0, <2>9 DEF AckFailed, Known
    <3> QED BY <2>9, <3>1, DropStep DEF AckFailed, redisVars
  <2>10. CASE Stop
      BY <2>0, <2>10, SocketStep DEF Stop, Known, streamVars, redisVars
  <2>11. CASE UNCHANGED busVars
      BY <2>0, <2>11, SocketStep DEF busVars, Known, streamVars
  <2>12. CASE Restart
    <3>1. Known' \subseteq Topics
        BY <2>12 DEF Restart, Known
    <3> QED BY <2>12, <3>1, DropStep DEF Restart
  <2> QED BY <2>1, <2>2, <2>3, <2>4, <2>5, <2>6, <2>7, <2>8, <2>9, <2>10, <2>11, <2>12
          DEF Next, AnchorStop, vars
<1> QED BY <1>1, <1>2, PTL DEF Spec

\* iacp, pump and dispatch: over failed acknowledgements, lost replies, overlapping
\* subscriptions and restarts, a socket sees every topic in the order of its stream
\* and no entry twice.
THEOREM TopicsInOrder == Spec => []PerTopicOrder
BY BusInvariant, PTL DEF BusInv

\* iacp, pump: whatever fails, an entry that the consumer group has handed out was
\* dispatched or can still be claimed from the group.
THEOREM NothingSkippedSilently == Spec => []DeliveredIsDispatchedOrPending
BY BusInvariant, PTL DEF BusInv

-----------------------------------------------------------------------------
(* The anchor pool *)

\* What the workers promise: no more than Workers submissions at once, no worker
\* idle while the queue of a running pool holds an item, every item in one place (so
\* that no envelope is submitted by two workers, or waits twice), and no item tried
\* more than MaxRetries times.
PoolSound ==
    /\ Cardinality(inFlight) <= Workers
    /\ (running /\ queue # <<>>) => Cardinality(inFlight) = Workers
    /\ \A j, k \in 1..Len(queue) : queue[j] = queue[k] => j = k
    /\ \A k \in 1..Len(queue) : queue[k] \notin inFlight \cup timers
    /\ inFlight \cap timers = {}
    /\ \A i \in Items : attempts[i] < MaxRetries

\* An envelope that the pool holds was added to its stream. The next one of a topic
\* is therefore a new item.
OfStream(S) == \A i \in S : i \in Entries /\ i[2] <= stream[i[1]]

PoolInv ==
    /\ queue \in Seq(Entries) /\ IsFiniteSet(inFlight) /\ running \in BOOLEAN
    /\ attempts \in [Items -> Nat]
    /\ OfStream(inFlight) /\ OfStream(timers) /\ OfStream({queue[k] : k \in 1..Len(queue)})
    /\ PoolSound

\* n different elements of a sequence are a set of n.
LEMMA HeadsCounted ==
    ASSUME NEW q \in Seq(Entries), \A j, k \in 1..Len(q) : q[j] = q[k] => j = k,
           NEW n \in 0..Len(q)
    PROVE  IsFiniteSet({q[k] : k \in 1..n}) /\ Cardinality({q[k] : k \in 1..n}) = n
<1> DEFINE S == {q[k] : k \in 1..n}
           f == [k \in 1..n |-> q[k]]
<1>0. n \in Nat /\ 1..n \subseteq 1..Len(q)
    OBVIOUS
<1>1. f \in Bijection(1..n, S)
  <2>1. f \in [1..n -> S] /\ \A y \in S : \E k \in 1..n : f[k] = y
      OBVIOUS
  <2>2. \A j, k \in 1..n : f[j] = f[k] => j = k
      BY <1>0
  <2> QED BY <2>1, <2>2 DEF Bijection, Injection, Surjection, IsInjective
<1>2. ExistsBijection(1..n, S)
    BY <1>1 DEF ExistsBijection
<1>3. IsFiniteSet(1..n)
    BY <1>0, FS_Interval
<1> HIDE DEF S
<1>4. IsFiniteSet(S) /\ Cardinality(S) = n
    BY <1>0, <1>2, <1>3, FS_Bijection, FS_CountingElements
<1> QED BY <1>4 DEF S

\* maybeStart: free workers take the head of the queue until there is no worker or no
\* item left; nothing is lost, and nothing is in two places.
LEMMA MaybeStartFills ==
    ASSUME NEW q \in Seq(Entries), NEW busy, IsFiniteSet(busy), Cardinality(busy) <= Workers,
           \A j, k \in 1..Len(q) : q[j] = q[k] => j = k,
           \A k \in 1..Len(q) : q[k] \notin busy,
           running \in BOOLEAN, MaybeStart(q, busy)
    PROVE  /\ queue' \in Seq(Entries) /\ IsFiniteSet(inFlight')
           /\ Cardinality(inFlight') <= Workers
           /\ (running /\ queue' # <<>>) => Cardinality(inFlight') = Workers
           /\ \A j, k \in 1..Len(queue') : queue'[j] = queue'[k] => j = k
           /\ \A k \in 1..Len(queue') : queue'[k] \notin inFlight'
           /\ \A k \in 1..Len(queue') : \E j \in 1..Len(q) : queue'[k] = q[j]
           /\ \A i \in inFlight' : i \in busy \/ \E j \in 1..Len(q) : i = q[j]
<1> DEFINE free == IF running THEN Workers - Cardinality(busy) ELSE 0
           n == IF Len(q) < free THEN Len(q) ELSE free
           S == {q[k] : k \in 1..n}
<1>1. Workers \in Nat /\ Cardinality(busy) \in Nat /\ Len(q) \in Nat
    BY AnchorAssumption, FS_CardinalityType
<1>2. free \in Nat /\ n \in 0..Len(q) /\ n <= free /\ (n = free \/ n = Len(q))
    BY <1>1
<1>3. inFlight' = busy \cup S /\ queue' = SubSeq(q, n + 1, Len(q))
    BY DEF MaybeStart
<1>4. (running => free = Workers - Cardinality(busy)) /\ (~running => free = 0)
    OBVIOUS
<1> HIDE DEF free, n
<1>5. IsFiniteSet(S) /\ Cardinality(S) = n
    BY <1>2, HeadsCounted
<1>6. busy \cap S = {}
    BY <1>2
<1>7. IsFiniteSet(inFlight') /\ Cardinality(inFlight') = Cardinality(busy) + n
  <2>1. Cardinality(busy \cap S) = 0
      BY <1>6, FS_EmptySet
  <2> HIDE DEF S
  <2>2. IsFiniteSet(busy \cup S) /\ Cardinality(busy \cup S) = Cardinality(busy) + n - 0
      BY <1>5, <2>1, FS_Union
  <2> QED BY <1>1, <1>2, <1>3, <2>2
<1>8. Cardinality(inFlight') <= Workers
    BY <1>1, <1>2, <1>4, <1>7
<1>9. /\ queue' \in Seq(Entries) /\ Len(queue') = Len(q) - n
      /\ \A k \in 1..Len(queue') : queue'[k] = q[k + n] /\ k + n \in (n + 1)..Len(q)
  <2>1. \A i \in (n + 1)..Len(q) : q[i] \in Entries
      BY <1>2
  <2>2. n + 1 \in Int /\ Len(q) \in Int
      BY <1>1, <1>2
  <2>3. /\ queue' \in Seq(Entries)
        /\ Len(queue') = IF n + 1 <= Len(q) THEN Len(q) - (n + 1) + 1 ELSE 0
        /\ \A i \in 1..(Len(q) - (n + 1) + 1) : queue'[i] = q[(n + 1) + i - 1]
      BY <1>3, <2>1, <2>2, SubSeqProperties
  <2>4. Len(queue') = Len(q) - n
      BY <1>1, <1>2, <2>3
  <2>5. ASSUME NEW k \in 1..Len(queue')
        PROVE  queue'[k] = q[k + n] /\ k + n \in (n + 1)..Len(q)
    <3>1. k \in 1..(Len(q) - (n + 1) + 1) /\ (n + 1) + k - 1 = k + n
        BY <1>1, <1>2, <2>4
    <3>2. k + n \in (n + 1)..Len(q)
        BY <1>1, <1>2, <2>4
    <3> QED BY <2>3, <3>1, <3>2
  <2> QED BY <2>3, <2>4, <2>5
<1>10. (running /\ queue' # <<>>) => Cardinality(inFlight') = Workers
  <2> SUFFICES ASSUME running, queue' # <<>> PROVE Cardinality(inFlight') = Workers
      OBVIOUS
  <2>1. Len(queue') # 0
      BY <1>9
  <2>2. n = free
      BY <1>1, <1>2, <1>9, <2>1
  <2> QED BY <1>1, <1>4, <1>7, <2>2
<1>11. \A j, k \in 1..Len(queue') : queue'[j] = queue'[k] => j = k
  <2> TAKE j, k \in 1..Len(queue')
  <2>1. j + n \in 1..Len(q) /\ k + n \in 1..Len(q)
      BY <1>1, <1>2, <1>9
  <2>2. q[j + n] = q[k + n] => j + n = k + n
      BY <2>1
  <2> QED BY <1>2, <1>9, <2>2
<1>12. \A k \in 1..Len(queue') : queue'[k] \notin inFlight'
  <2> TAKE k \in 1..Len(queue')
  <2>1. k + n \in 1..Len(q) /\ k + n > n
      BY <1>1, <1>2, <1>9
  <2>2. \A j \in 1..n : q[j] # q[k + n]
      BY <1>2, <2>1
  <2> QED BY <1>3, <1>9, <2>1, <2>2
<1>13. \A k \in 1..Len(queue') : \E j \in 1..Len(q) : queue'[k] = q[j]
    BY <1>1, <1>2, <1>9
<1>14. \A i \in inFlight' : i \in busy \/ \E j \in 1..Len(q) : i = q[j]
    BY <1>2, <1>3
<1> QED BY <1>7, <1>8, <1>9, <1>10, <1>11, <1>12, <1>13, <1>14

\* The steps that hand maybeStart a queue q and submissions busy that are a part of
\* what the pool held, or a new item.
LEMMA PoolMoves ==
    ASSUME NEW q \in Seq(Entries), NEW busy, IsFiniteSet(busy), Cardinality(busy) <= Workers,
           \A j, k \in 1..Len(q) : q[j] = q[k] => j = k,
           \A k \in 1..Len(q) : q[k] \notin busy \cup timers',
           busy \cap timers' = {}, running \in BOOLEAN, running' = running,
           MaybeStart(q, busy),
           \A k \in 1..Len(q) : q[k][2] <= stream'[q[k][1]],
           \A i \in busy : i \in Entries /\ i[2] <= stream'[i[1]], OfStream(timers)',
           attempts' \in [Items -> Nat], \A i \in Items : attempts'[i] < MaxRetries
    PROVE  PoolInv'
<1>1. /\ queue' \in Seq(Entries) /\ IsFiniteSet(inFlight')
      /\ Cardinality(inFlight') <= Workers
      /\ (running /\ queue' # <<>>) => Cardinality(inFlight') = Workers
      /\ \A j, k \in 1..Len(queue') : queue'[j] = queue'[k] => j = k
      /\ \A k \in 1..Len(queue') : queue'[k] \notin inFlight'
      /\ \A k \in 1..Len(queue') : \E j \in 1..Len(q) : queue'[k] = q[j]
      /\ \A i \in inFlight' : i \in busy \/ \E j \in 1..Len(q) : i = q[j]
  <2>1. \A k \in 1..Len(q) : q[k] \notin busy
      OBVIOUS
  <2> QED BY <2>1, MaybeStartFills
<1>2. \A k \in 1..Len(q) : q[k] \in Entries
    OBVIOUS
<1>3. OfStream(inFlight)' /\ OfStream({queue[k] : k \in 1..Len(queue)})'
  <2>1. \A j \in 1..Len(q) : q[j] \in Entries /\ q[j][2] <= stream'[q[j][1]]
      BY <1>2
  <2>2. \A i \in inFlight' : i \in Entries /\ i[2] <= stream'[i[1]]
      BY <1>1, <2>1, Zenon
  <2>3. \A k \in 1..Len(queue') : queue'[k] \in Entries /\ queue'[k][2] <= stream'[queue'[k][1]]
      BY <1>1, <2>1, Zenon
  <2> QED BY <2>2, <2>3 DEF OfStream
<1>4. \A k \in 1..Len(queue') : queue'[k] \notin inFlight' \cup timers'
    BY <1>1
<1>5. inFlight' \cap timers' = {}
    BY <1>1
<1>6. PoolSound'
    BY <1>1, <1>4, <1>5 DEF PoolSound
<1> QED BY <1>1, <1>3, <1>6 DEF PoolInv

\* A step that leaves the pool alone, while streams only grow.
LEMMA PoolAlone ==
    ASSUME PoolInv, StreamTypes, UNCHANGED poolVars,
           \A t \in Topics : stream'[t] \in Nat /\ stream'[t] >= stream[t]
    PROVE  PoolInv'
<1>1. \A S : OfStream(S) => \A i \in S : i \in Entries /\ i[2] <= stream'[i[1]]
    BY DEF OfStream, Entries, Positions, StreamTypes
<1>2. /\ queue' = queue /\ inFlight' = inFlight /\ timers' = timers
      /\ attempts' = attempts /\ running' = running
    BY DEF poolVars
<1>3. OfStream(inFlight)' /\ OfStream(timers)' /\ OfStream({queue[k] : k \in 1..Len(queue)})'
  <2>1. /\ \A i \in inFlight : i \in Entries /\ i[2] <= stream'[i[1]]
        /\ \A i \in timers : i \in Entries /\ i[2] <= stream'[i[1]]
        /\ \A i \in {queue[k] : k \in 1..Len(queue)} : i \in Entries /\ i[2] <= stream'[i[1]]
      BY <1>1 DEF PoolInv
  <2> QED BY <1>2, <2>1 DEF OfStream
<1> QED BY <1>2, <1>3 DEF PoolInv, PoolSound

\* The entry that an XADD appends is not in the pool yet.
LEMMA EnqueueStep ==
    ASSUME PoolInv, StreamTypes, NEW t \in Topics, stream' = [stream EXCEPT ![t] = @ + 1],
           Enqueue(<<t, stream[t] + 1>>)
    PROVE  PoolInv'
<1> DEFINE e == <<t, stream[t] + 1>>
           q == Append(queue, e)
<1>1. /\ e \in Entries /\ e[1] = t /\ e[2] = stream[t] + 1 /\ stream[t] \in Nat
      /\ stream'[t] = stream[t] + 1
      /\ \A u \in Topics : stream'[u] \in Nat /\ stream'[u] >= stream[u]
    BY DEF StreamTypes, Entries, Positions
<1>2. CASE ~(running /\ Len(queue) < QueueCap)
  <2>1. UNCHANGED poolVars
      BY <1>2 DEF Enqueue, poolVars
  <2> QED BY <1>1, <2>1, PoolAlone
<1>3. CASE running /\ Len(queue) < QueueCap
  <2>1. MaybeStart(q, inFlight) /\ timers' = timers /\ attempts' = attempts /\ running' = running
      BY <1>3 DEF Enqueue
  <2> HIDE DEF e
  <2>2. /\ q \in Seq(Entries) /\ Len(q) = Len(queue) + 1 /\ q[Len(queue) + 1] = e
        /\ \A k \in 1..Len(queue) : q[k] = queue[k]
      BY <1>1 DEF PoolInv
  <2>3. Len(queue) \in Nat
      BY DEF PoolInv
  <2> HIDE DEF q
  <2>4. \A S : OfStream(S) => e \notin S /\ \A i \in S : i \in Entries /\ i[2] <= stream'[i[1]]
      BY <1>1 DEF OfStream, Entries, Positions, StreamTypes
  <2>5. /\ e \notin inFlight /\ e \notin timers
        /\ \A k \in 1..Len(queue) : queue[k] # e /\ queue[k][2] <= stream'[queue[k][1]]
        /\ \A i \in inFlight : i \in Entries /\ i[2] <= stream'[i[1]]
        /\ \A i \in timers : i \in Entries /\ i[2] <= stream'[i[1]]
    <3>1. OfStream(inFlight) /\ OfStream(timers) /\ OfStream({queue[k] : k \in 1..Len(queue)})
        BY DEF PoolInv
    <3> QED BY <2>4, <3>1
  <2>6. \A j, k \in 1..Len(q) : q[j] = q[k] => j = k
      BY <2>2, <2>3, <2>5 DEF PoolInv, PoolSound
  <2>7. \A k \in 1..Len(q) : q[k] \notin inFlight \cup timers'
      BY <2>1, <2>2, <2>3, <2>5 DEF PoolInv, PoolSound
  <2>8. \A k \in 1..Len(q) : q[k][2] <= stream'[q[k][1]]
      BY <1>1, <2>2, <2>3, <2>5
  <2>9. OfStream(timers)' /\ \A i \in inFlight : i \in Entries /\ i[2] <= stream'[i[1]]
      BY <2>1, <2>5 DEF OfStream
  <2> QED BY <2>1, <2>2, <2>6, <2>7, <2>8, <2>9, PoolMoves DEF PoolInv, PoolSound
<1> QED BY <1>2, <1>3

\* A submission ends, well or badly: its item leaves the workers, and waits for a
\* timer only if it may be tried again.
LEMMA EndedStep ==
    ASSUME PoolInv, UNCHANGED stream, NEW i \in Items, Submitted(i) \/ SubmitFailed(i)
    PROVE  PoolInv'
<1> DEFINE busy == inFlight \ {i}
<1>1. /\ i \in inFlight /\ MaybeStart(queue, busy) /\ running' = running
      /\ timers' \subseteq timers \cup {i}
    BY DEF Submitted, SubmitFailed
<1>2. attempts' \in [Items -> Nat] /\ \A j \in Items : attempts'[j] < MaxRetries
    BY AnchorAssumption DEF Submitted, SubmitFailed, PoolInv, PoolSound
<1>3. IsFiniteSet(busy) /\ Cardinality(busy) <= Workers
  <2>1. IsFiniteSet(busy) /\ Cardinality(busy) = Cardinality(inFlight) - 1
      BY <1>1, FS_RemoveElement DEF PoolInv
  <2>2. Cardinality(inFlight) \in Nat /\ Workers \in Nat /\ Cardinality(inFlight) <= Workers
      BY AnchorAssumption, FS_CardinalityType DEF PoolInv, PoolSound
  <2> QED BY <2>1, <2>2
<1>4. /\ queue \in Seq(Entries) /\ running \in BOOLEAN
      /\ \A j, k \in 1..Len(queue) : queue[j] = queue[k] => j = k
    BY DEF PoolInv, PoolSound
<1>5. \A k \in 1..Len(queue) : queue[k] \notin busy \cup timers'
    BY <1>1 DEF PoolInv, PoolSound
<1>6. busy \cap timers' = {}
    BY <1>1 DEF PoolInv, PoolSound
<1>7. /\ \A j \in inFlight : j \in Entries /\ j[2] <= stream'[j[1]]
      /\ \A j \in timers : j \in Entries /\ j[2] <= stream'[j[1]]
      /\ \A k \in 1..Len(queue) : queue[k][2] <= stream'[queue[k][1]]
    BY DEF PoolInv, OfStream
<1>8. OfStream(timers)' /\ \A j \in busy : j \in Entries /\ j[2] <= stream'[j[1]]
    BY <1>1, <1>7 DEF OfStream
<1> HIDE DEF busy
<1> QED BY <1>1, <1>2, <1>3, <1>4, <1>5, <1>6, <1>7, <1>8, PoolMoves

\* A retry timer fires: the item goes to the head of the queue, however long it is.
LEMMA RetryStep ==
    ASSUME PoolInv, UNCHANGED stream, NEW i \in Items, Retry(i)
    PROVE  PoolInv'
<1> DEFINE q == <<i>> \o queue
<1>1. /\ i \in timers /\ timers' = timers \ {i} /\ attempts' = attempts /\ running' = running
      /\ running \in BOOLEAN
    BY DEF Retry, PoolInv
<1>2. /\ \A j \in inFlight : j \in Entries /\ j[2] <= stream'[j[1]]
      /\ \A j \in timers : j \in Entries /\ j[2] <= stream'[j[1]]
      /\ \A k \in 1..Len(queue) : queue[k] \in Entries /\ queue[k][2] <= stream'[queue[k][1]]
    BY DEF PoolInv, OfStream
<1>3. OfStream(timers)'
    BY <1>1, <1>2 DEF OfStream
<1>4. CASE ~running
  <2>1. queue' = queue /\ inFlight' = inFlight
      BY <1>4 DEF Retry
  <2>2. OfStream(inFlight)' /\ OfStream({queue[k] : k \in 1..Len(queue)})'
      BY <1>2, <2>1 DEF OfStream
  <2>3. PoolSound'
      BY <1>1, <1>4, <2>1 DEF PoolInv, PoolSound
  <2> QED BY <1>1, <1>3, <2>1, <2>2, <2>3 DEF PoolInv
<1>5. CASE running
  <2>1. MaybeStart(q, inFlight)
      BY <1>5 DEF Retry
  <2>2. /\ q \in Seq(Entries) /\ Len(q) = Len(queue) + 1 /\ q[1] = i
        /\ \A k \in 2..Len(q) : q[k] = queue[k - 1] /\ k - 1 \in 1..Len(queue)
    <3>1. <<i>> \in Seq(Entries) /\ queue \in Seq(Entries)
        BY <1>1, <1>2 DEF PoolInv
    <3> QED BY <3>1
  <2>3. Len(queue) \in Nat
      BY DEF PoolInv
  <2> HIDE DEF q
  <2>4. \A k \in 1..Len(queue) : queue[k] # i
      BY <1>1 DEF PoolInv, PoolSound
  <2>5. \A j, k \in 1..Len(q) : q[j] = q[k] => j = k
    <3> TAKE j, k \in 1..Len(q)
    <3>1. CASE j = 1 /\ k = 1
        BY <3>1
    <3>2. CASE (j = 1 /\ k # 1) \/ (j # 1 /\ k = 1)
        BY <2>2, <2>3, <2>4, <3>2
    <3>3. CASE j # 1 /\ k # 1
      <4>1. j \in 2..Len(q) /\ k \in 2..Len(q)
          BY <2>2, <2>3, <3>3
      <4>2. queue[j - 1] = queue[k - 1] => j - 1 = k - 1
          BY <2>2, <4>1 DEF PoolInv, PoolSound
      <4> QED BY <2>2, <4>1, <4>2
    <3> QED BY <3>1, <3>2, <3>3
  <2>6. \A k \in 1..Len(q) : q[k] \notin inFlight \cup timers'
    <3>1. i \notin inFlight \cup timers'
        BY <1>1 DEF PoolInv, PoolSound
    <3>2. \A k \in 1..Len(queue) : queue[k] \notin inFlight \cup timers'
        BY <1>1 DEF PoolInv, PoolSound
    <3> QED BY <2>2, <2>3, <3>1, <3>2
  <2>7. \A k \in 1..Len(q) : q[k][2] <= stream'[q[k][1]]
      BY <1>1, <1>2, <2>2, <2>3
  <2>8. /\ IsFiniteSet(inFlight) /\ Cardinality(inFlight) <= Workers
        /\ inFlight \cap timers' = {}
        /\ attempts' \in [Items -> Nat] /\ \A j \in Items : attempts'[j] < MaxRetries
      BY <1>1 DEF PoolInv, PoolSound
  <2> QED BY <1>1, <1>2, <1>3, <2>1, <2>2, <2>5, <2>6, <2>7, <2>8, PoolMoves
<1> QED BY <1>1, <1>4, <1>5

\* A pool that starts is sound.
LEMMA EmptyPool ==
    queue = <<>> /\ inFlight = {} /\ timers = {} /\ attempts = [i \in Items |-> 0] /\ running = TRUE
        => PoolInv
<1> SUFFICES ASSUME queue = <<>>, inFlight = {}, timers = {},
                    attempts = [i \in Items |-> 0], running = TRUE
             PROVE  PoolInv
    OBVIOUS
<1>1. queue \in Seq(Entries) /\ Len(queue) = 0
    OBVIOUS
<1>2. IsFiniteSet(inFlight) /\ Cardinality(inFlight) = 0
    BY FS_EmptySet
<1>3. PoolSound
    BY <1>1, <1>2, AnchorAssumption DEF PoolSound
<1>4. OfStream(inFlight) /\ OfStream(timers) /\ OfStream({queue[k] : k \in 1..Len(queue)})
    BY <1>1 DEF OfStream
<1> QED BY <1>1, <1>2, <1>3, <1>4 DEF PoolInv

\* Every step of the service keeps the pool.
LEMMA StepPool == BusInv /\ PoolInv /\ [Next]_vars => PoolInv'
<1> SUFFICES ASSUME BusInv, PoolInv, [Next]_vars PROVE PoolInv'
    OBVIOUS
<1>0. StreamTypes
    BY DEF BusInv
<1>s. stream \in [Topics -> Nat]
    BY <1>0 DEF StreamTypes
<1>1. ASSUME UNCHANGED <<stream, poolVars>> PROVE PoolInv'
  <2>1. \A t \in Topics : stream'[t] \in Nat /\ stream'[t] >= stream[t]
      BY <1>s, <1>1
  <2> QED BY <1>0, <1>1, <2>1, PoolAlone
<1>2. ASSUME NEW s \in Sockets, Connect(s) \/ Close(s) \/ Sent(s) \/ Answer(s)
      PROVE  UNCHANGED <<stream, poolVars>>
    BY <1>2 DEF Connect, Close, Sent, Answer, redisVars
<1>3. ASSUME NEW s \in Sockets, NEW t \in Topics, Sub(s, t) \/ Joined(s, t) \/ Unsub(s, t)
      PROVE  UNCHANGED <<stream, poolVars>>
    BY <1>3 DEF Sub, Joined, Unsub, redisVars
<1>4. ASSUME NEW o \in Publishers, NEW t \in Topics, Publish(o, t)
      PROVE  UNCHANGED <<stream, poolVars>>
    BY <1>4 DEF Publish
<1>5. ASSUME NEW o \in Publishers, NEW t \in Topics, XAdd(o, t) \/ XAddResent(o, t)
      PROVE  PoolInv'
  <2>1. stream' = [stream EXCEPT ![t] = @ + 1]
      BY <1>5 DEF XAdd, XAddResent
  <2>2. UNCHANGED poolVars \/ Enqueue(<<t, stream[t] + 1>>)
      BY <1>5 DEF XAdd, XAddResent
  <2>3. \A u \in Topics : stream'[u] \in Nat /\ stream'[u] >= stream[u]
      BY <1>s, <2>1
  <2>4. CASE UNCHANGED poolVars
      BY <1>0, <2>3, <2>4, PoolAlone
  <2>5. CASE Enqueue(<<t, stream[t] + 1>>)
      BY <1>0, <2>1, <2>5, EnqueueStep
  <2> QED BY <2>2, <2>4, <2>5
<1>6. CASE PumpRead \/ ReadLost \/ Dispatch \/ Acked \/ AckFailed \/ Stop
  <2>1. UNCHANGED <<stream, poolVars>>
      BY <1>6 DEF PumpRead, ReadLost, ReadGroup, Dispatch, Acked, AckFailed, Stop, redisVars
  <2> QED BY <1>1, <2>1
<1>7. ASSUME NEW i \in Items, Submitted(i) \/ SubmitFailed(i) \/ Retry(i), UNCHANGED busVars
      PROVE  PoolInv'
  <2>1. UNCHANGED stream
      BY <1>7 DEF busVars
  <2> QED BY <1>7, <2>1, EndedStep, RetryStep
<1>8. CASE AnchorStop
  <2>1. stream' = stream /\ queue' = queue /\ inFlight' = inFlight /\ timers' = timers
        /\ attempts' = attempts /\ running' = FALSE
      BY <1>8 DEF AnchorStop, StopPool, busVars
  <2>2. PoolSound'
      BY <2>1 DEF PoolInv, PoolSound
  <2>3. OfStream(inFlight)' /\ OfStream(timers)' /\ OfStream({queue[k] : k \in 1..Len(queue)})'
      BY <2>1 DEF PoolInv, OfStream
  <2> QED BY <2>1, <2>2, <2>3 DEF PoolInv
<1>9. CASE Restart
  <2>1. /\ queue' = <<>> /\ inFlight' = {} /\ timers' = {}
        /\ attempts' = [i \in Items |-> 0] /\ running' = TRUE
      BY <1>9 DEF Restart, PoolRestart
  <2>2. (queue = <<>> /\ inFlight = {} /\ timers = {} /\ attempts = [i \in Items |-> 0]
            /\ running = TRUE)' => PoolInv'
      BY EmptyPool, PTL
  <2> QED BY <2>1, <2>2
<1>10. CASE UNCHANGED vars
    BY <1>1, <1>10 DEF vars, busVars
<1> QED BY <1>1, <1>2, <1>3, <1>4, <1>5, <1>6, <1>7, <1>8, <1>9, <1>10 DEF Next

\* iacp, anchor workers: over failures, retries that overtake a full queue, shutdowns
\* and restarts, for any number of workers and any sizes, no more than Workers
\* submissions are in flight, no worker of a running pool idles while an envelope
\* waits, and no envelope is submitted twice at once or tried more than MaxRetries
\* times.
THEOREM AnchorPoolStaysSound == Spec => []PoolSound
<1>1. Init => PoolInv
    BY EmptyPool DEF Init, PoolInit
<1>2. PoolInv => PoolSound
    BY DEF PoolInv
<1> QED BY <1>1, <1>2, BusInvariant, StepPool, PTL DEF Spec
=============================================================================
