------------------------- MODULE ComputeBrokerProofs -------------------------
(***************************************************************************)
(* Proofs about ComputeBroker for any leases, tasks, requests in flight,   *)
(* times and number of restarts.                                           *)
(***************************************************************************)
EXTENDS ComputeBroker, TLAPS

Busy == {s \in Slots : handler[s] # Idle}

\* What a transition makes of the status of a bond.
EndOf == [lock |-> "locked", release |-> "released", slash |-> "slashed",
          cancel |-> "cancelled", expire |-> "expired"]

\* A lock, a release or a slash names the task it is for.
TasksNamed ==
    \A s \in Busy : handler[s].kind \in BondKinds => handler[s].next.task_id \in Tasks

\* What b may be, given what the clients and the indexer were told about lease l.
Faithful(l, b) ==
    /\ \A t \in Tasks : <<"lock", t>> \in told[l] =>
            b.task_id = t /\ b.status \notin {"reserved", "cancelled"}
    /\ \A t \in Tasks : <<"end", t>> \in told[l] => b.status \in {"released", "slashed"}
    /\ snapshot[l] \in Terminal => snapshot[l] = b.status
    /\ snapshot[l] = "locked" => b.status \in {"locked", "released", "slashed", "expired"}

\* A bond belongs to a lease that the provider has handed out, and so does every
\* request except the one that asks for the lease.
BondsHaveLeases ==
    /\ \A l \in Leases : lease[l] = "none" => bonds[l] = NoBond
    /\ \A s \in Busy :
        IF handler[s].kind = "request" /\ handler[s].step = "provider"
        THEN lease[handler[s].lease] = "none"
        ELSE lease[handler[s].lease] # "none"

\* Where requests did not overlap there is at most one in flight; nor do two ask for
\* the same lease.
OneInFlight ==
    \A s, u \in Busy :
        /\ handler[s].lease = handler[u].lease
        /\ handler[s].lease \notin overlapped \/ lease[handler[s].lease] = "none"
        => s = u

\* What the request h on lease l, the only one in flight, knows about its bond.
Fits(h, l) ==
    /\ h.step = "sign" => h.kind = "request" /\ bonds[l] = NoBond
    /\ h.kind = "request" => h.next = [status |-> "reserved", task_id |-> NoTask]
    /\ h.step = "sync" \/ (h.step = "provider" /\ h.kind \in BondKinds) => bonds[l] = h.next
    /\ h.kind \in BondKinds => h.next.status = EndOf[h.kind]
    /\ h.step = "provider" /\ h.kind \in BondKinds => Faithful(l, h.previous)
    /\ h.step = "provider" /\ h.kind = "lock" => h.previous.status \in {"reserved", "locked"}
    /\ h.step = "provider" /\ h.kind = "cancel" /\ l \notin outside => lease[l] # "reclaimed"
    /\ h.step = "sync" /\ h.kind \in {"release", "slash"} /\ l \notin outside => lease[l] = "reclaimed"

HandlersFit == \A s \in Busy : handler[s].lease \notin overlapped => Fits(handler[s], handler[s].lease)

BondsFaithful == \A l \in Leases \ overlapped : Faithful(l, bonds[l])

BrokerInv ==
    /\ TypeOK /\ TasksNamed
    /\ BondsHaveLeases /\ OneInFlight /\ HandlersFit /\ BondsFaithful /\ ToldEndReclaimed

-----------------------------------------------------------------------------
(* Records *)

\* A transition sets the status, and a lock sets the task as well.
LEMMA MovedBond ==
    ASSUME NEW b \in Bond, NEW kind \in Kinds \ {"request"}, NEW t \in Tasks \cup {NoTask}
    PROVE  /\ Moved(b, kind, t) \in Bond
           /\ Moved(b, kind, t).status = EndOf[kind]
           /\ Moved(b, kind, t).task_id = IF kind = "lock" THEN t ELSE b.task_id
BY DEF Moved, Bond, Statuses, Terminal, EndOf, Kinds, BondKinds

\* Two bonds with the same status and task are the same.
LEMMA SameBond ==
    ASSUME NEW b \in Bond, NEW c \in Bond, b.status = c.status, b.task_id = c.task_id
    PROVE  b = c
BY DEF Bond

\* There is no bond with the status of NoBond.
LEMMA NoBondIsNone == NoBond.status = "none" /\ NoBond.task_id = NoTask /\ NoBond \notin Bond
BY DEF NoBond, Bond, Statuses, Terminal

\* What a handler remembers while it waits.
LEMMA WaitingFields ==
    ASSUME NEW h \in Waiting
    PROVE  /\ h # Idle /\ h.step \in {"provider", "sign", "sync"} /\ h.kind \in Kinds /\ h.lease \in Leases
           /\ h.previous \in Bond \cup {NoBond} /\ h.next \in Bond \cup {NoBond}
BY DEF Waiting, Idle, Steps

\* A slot that waits for something holds such a record.
LEMMA BusyWaits ==
    ASSUME TypeOK, NEW s \in Slots
    PROVE  /\ s \in Busy => handler[s] \in Waiting
           /\ handler[s].step \in {"provider", "sign", "sync"} => s \in Busy
BY DEF TypeOK, Busy, Idle

\* The request that starts holds what the code keeps in its variables.
LEMMA EnterHandler ==
    ASSUME TypeOK, NEW s \in Slots, NEW kind \in Kinds, NEW l \in Leases,
           NEW b \in Bond \cup {NoBond}, NEW c \in Bond \cup {NoBond}, NEW at \in {0, SlashableUntil},
           Enter(s, kind, l, b, c, at)
    PROVE  /\ handler[s] = Idle /\ handler' \in [Slots -> Waiting \cup {Idle}]
           /\ Busy' = Busy \cup {s} /\ s \notin Busy
           /\ handler'[s].step = "provider" /\ handler'[s].kind = kind /\ handler'[s].lease = l
           /\ handler'[s].previous = b /\ handler'[s].next = c
           /\ \A u \in Slots \ {s} : handler'[u] = handler[u]
           /\ overlapped \subseteq overlapped' /\ overlapped' \subseteq overlapped \cup {l}
           /\ l \notin overlapped' => \A u \in Busy : handler[u].lease # l
<1> DEFINE h == [step |-> "provider", kind |-> kind, lease |-> l, at |-> at, previous |-> b, next |-> c]
<1>1. h \in Waiting
    BY DEF Waiting, Steps
<1>2. /\ h.step = "provider" /\ h.kind = kind /\ h.lease = l /\ h.previous = b /\ h.next = c
      /\ h # Idle
    BY DEF Idle
<1>3. handler[s] = Idle /\ handler' = [handler EXCEPT ![s] = h]
    BY DEF Enter
<1> HIDE DEF h
<1>4. handler' \in [Slots -> Waiting \cup {Idle}] /\ handler'[s] = h
      /\ \A u \in Slots \ {s} : handler'[u] = handler[u]
    BY <1>1, <1>3 DEF TypeOK
<1>5. Busy' = Busy \cup {s} /\ s \notin Busy
    BY <1>2, <1>3, <1>4 DEF Busy
<1>6. /\ overlapped \subseteq overlapped' /\ overlapped' \subseteq overlapped \cup {l}
      /\ l \notin overlapped' => \A u \in Busy : handler[u].lease # l
    BY DEF Enter, InFlight, Busy
<1> QED BY <1>2, <1>3, <1>4, <1>5, <1>6

\* The handler that goes on to another await keeps its kind and its lease.
LEMMA GotoHandler ==
    ASSUME TypeOK, NEW s \in Busy, NEW step \in {"sign", "sync"}, NEW c \in Bond \cup {NoBond},
           Goto(s, step, c)
    PROVE  /\ handler' \in [Slots -> Waiting \cup {Idle}]
           /\ Busy' = Busy
           /\ handler'[s].step = step /\ handler'[s].kind = handler[s].kind
           /\ handler'[s].lease = handler[s].lease /\ handler'[s].next = c
           /\ \A u \in Slots \ {s} : handler'[u] = handler[u]
<1> DEFINE h == [step |-> step, kind |-> handler[s].kind, lease |-> handler[s].lease,
                 at |-> 0, previous |-> NoBond, next |-> c]
<1>1. handler[s] \in Waiting /\ s \in Slots
    BY BusyWaits DEF Busy
<1>2. handler[s].kind \in Kinds /\ handler[s].lease \in Leases
    BY <1>1, WaitingFields
<1>3. h \in Waiting /\ h # Idle
    BY <1>2 DEF Waiting, Steps, Idle
<1>4. handler' = [handler EXCEPT ![s] = h]
    BY DEF Goto
<1>5. h.step = step /\ h.kind = handler[s].kind /\ h.lease = handler[s].lease /\ h.next = c
    OBVIOUS
<1> HIDE DEF h
<1>6. /\ handler' \in [Slots -> Waiting \cup {Idle}] /\ handler'[s] = h
      /\ \A u \in Slots \ {s} : handler'[u] = handler[u]
    BY <1>1, <1>3, <1>4 DEF TypeOK
<1>7. Busy' = Busy
    BY <1>3, <1>6 DEF Busy
<1> QED BY <1>5, <1>6, <1>7

\* The handler that ends frees its slot.
LEMMA LeaveHandler ==
    ASSUME TypeOK, NEW s \in Slots, Leave(s)
    PROVE  /\ handler' \in [Slots -> Waiting \cup {Idle}]
           /\ Busy' = Busy \ {s}
           /\ \A u \in Slots \ {s} : handler'[u] = handler[u]
BY DEF Leave, TypeOK, Busy

-----------------------------------------------------------------------------
(* Requests that start *)

\* A transition of the SDK never contradicts what was told before.
LEMMA FaithfulMoves ==
    ASSUME TypeOK, NEW l \in Leases, NEW b \in Bond, NEW kind \in Kinds \ {"request"},
           NEW t \in Tasks \cup {NoTask}, NEW at, CanMove(b, kind, t, at), Faithful(l, b)
    PROVE  Faithful(l, Moved(b, kind, t))
<1> DEFINE c == Moved(b, kind, t)
<1>1. /\ c \in Bond /\ c.status = EndOf[kind]
      /\ c.task_id = IF kind = "lock" THEN t ELSE b.task_id
    BY MovedBond
<1>2. CASE b.status = c.status
  <2>1. c = b
      BY <1>1, <1>2, SameBond DEF CanMove, CanLock, CanSettle, CanCancel, CanExpire, EndOf,
         Kinds, BondKinds, Terminal
  <2> QED BY <2>1
<1>3. CASE b.status # c.status
  <2>1. \/ kind \in {"lock", "cancel", "expire"} /\ b.status = "reserved"
        \/ kind \in {"release", "slash", "expire"} /\ b.status = "locked"
      BY <1>1, <1>3 DEF CanMove, CanLock, CanSettle, CanCancel, CanExpire, EndOf, Kinds, BondKinds,
         Bond, Statuses, Terminal
  <2> HIDE DEF c
  <2> SUFFICES Faithful(l, c)
      BY DEF c
  <2>2. CASE b.status = "reserved"
    <3>1. /\ \A u \in Tasks : <<"lock", u>> \notin told[l] /\ <<"end", u>> \notin told[l]
          /\ snapshot[l] \notin Terminal /\ snapshot[l] # "locked"
        BY <2>2 DEF Faithful, Terminal
    <3> QED BY <3>1 DEF Faithful
  <2>3. CASE kind \in {"release", "slash", "expire"} /\ b.status = "locked"
      BY <1>1, <2>3 DEF Faithful, Terminal, EndOf
  <2> QED BY <2>1, <2>2, <2>3
<1> QED BY <1>2, <1>3

\* A request that starts on lease l keeps the invariant.
LEMMA EnterStep ==
    ASSUME BrokerInv, NEW s \in Slots, NEW kind \in Kinds, NEW l \in Leases,
           NEW b \in Bond \cup {NoBond}, NEW c \in Bond \cup {NoBond}, NEW at \in {0, SlashableUntil},
           Enter(s, kind, l, b, c, at),
           IF kind = "request" THEN lease[l] = "none" ELSE lease[l] # "none",
           kind = "request" => \A u \in Busy : handler[u].lease # l,
           kind = "request" => c = [status |-> "reserved", task_id |-> NoTask],
           kind = "cancel" => lease[l] # "reclaimed",
           kind \in BondKinds =>
               /\ bonds'[l] = c /\ b = bonds[l]
               /\ c.status = EndOf[kind] /\ c.task_id \in Tasks
               /\ Faithful(l, b) => Faithful(l, c),
           kind = "lock" => b.status \in {"reserved", "locked"},
           kind \notin BondKinds => bonds'[l] = bonds[l],
           bonds' \in [Leases -> Bond \cup {NoBond}],
           \A m \in Leases \ {l} : bonds'[m] = bonds[m],
           UNCHANGED <<lease, snapshot, now, stray, crashes, told, undone, outside>>
    PROVE  BrokerInv'
<1>0. TypeOK
    BY DEF BrokerInv
<1>1. /\ handler' \in [Slots -> Waiting \cup {Idle}]
      /\ Busy' = Busy \cup {s} /\ s \notin Busy
      /\ handler'[s].step = "provider" /\ handler'[s].kind = kind /\ handler'[s].lease = l
      /\ handler'[s].previous = b /\ handler'[s].next = c
      /\ \A u \in Slots \ {s} : handler'[u] = handler[u]
      /\ overlapped \subseteq overlapped' /\ overlapped' \subseteq overlapped \cup {l}
      /\ l \notin overlapped' => \A u \in Busy : handler[u].lease # l
    BY <1>0, EnterHandler
<1> USE DEF BrokerInv
<1>2. \A u \in Busy : u \in Slots /\ u # s /\ handler'[u] = handler[u] /\ handler[u].lease \in Leases
    BY <1>1, BusyWaits, WaitingFields DEF Busy
<1>3. TypeOK'
    BY <1>1 DEF TypeOK
<1>4. TasksNamed'
    BY <1>1, <1>2 DEF TasksNamed
<1>5. BondsHaveLeases'
    BY <1>1, <1>2 DEF BondsHaveLeases, BondKinds
<1>6. OneInFlight'
    BY <1>1, <1>2 DEF OneInFlight
<1>7. BondsFaithful'
  <2> SUFFICES ASSUME NEW m \in Leases \ overlapped'
               PROVE  Faithful(m, bonds[m])'
      BY DEF BondsFaithful
  <2>1. Faithful(m, bonds[m])
      BY <1>1 DEF BondsFaithful
  <2>2. Faithful(m, bonds'[m])
      BY <2>1
  <2> QED BY <2>2 DEF Faithful
<1>8. HandlersFit'
  <2> SUFFICES ASSUME NEW u \in Busy', handler'[u].lease \notin overlapped'
               PROVE  Fits(handler[u], handler[u].lease)'
      BY DEF HandlersFit
  <2>1. CASE u = s
    <3>1. kind \in BondKinds => Faithful(l, b)
        BY <1>1, <2>1 DEF BondsFaithful
    <3>2. kind \in BondKinds => Faithful(l, handler[u].previous)'
        BY <1>1, <2>1, <3>1 DEF Faithful
    <3> QED BY <1>1, <2>1, <3>2 DEF Fits, BondKinds
  <2>2. CASE u \in Busy
    <3>1. /\ Fits(handler[u], handler[u].lease) /\ handler'[u] = handler[u]
          /\ handler[u].lease # l /\ handler[u].lease \in Leases
        BY <1>1, <1>2, <2>2 DEF HandlersFit
    <3>2. bonds'[handler[u].lease] = bonds[handler[u].lease]
        BY <3>1
    <3> QED BY <3>1, <3>2 DEF Fits, Faithful
  <2> QED BY <1>1, <2>1, <2>2
<1>9. ToldEndReclaimed'
    BY <1>1 DEF ToldEndReclaimed
<1> QED BY <1>3, <1>4, <1>5, <1>6, <1>7, <1>8, <1>9

\* POST /bonds/request, /bonds/lock, /bonds/release, /bonds/slash, /bonds/cancel and
\* the sweep, up to their first await.
LEMMA StartStep ==
    ASSUME BrokerInv, NEW s \in Slots, NEW l \in Leases,
           \/ Request(s, l)
           \/ \E t \in Tasks : Lock(s, l, t) \/ Release(s, l, t) \/ Slash(s, l, t)
           \/ Cancel(s, l)
           \/ \E claimed, at \in {0, SlashableUntil} : Sweep(s, l, claimed, at)
    PROVE  BrokerInv'
<1> USE DEF BrokerInv
<1>1. bonds[l] \in Bond \cup {NoBond} /\ bonds \in [Leases -> Bond \cup {NoBond}]
    BY DEF TypeOK
<1>2. CASE Request(s, l)
  <2> DEFINE c == [status |-> "reserved", task_id |-> NoTask]
  <2>1. c \in Bond
      BY DEF Bond, Statuses
  <2>2. /\ lease[l] = "none" /\ Enter(s, "request", l, NoBond, c, 0)
        /\ UNCHANGED <<bonds, lease, snapshot, now, stray, crashes, told, undone, outside>>
      BY <1>2 DEF Request
  <2>3. \A u \in Busy : handler[u].lease # l
      BY <1>2 DEF Request, InFlight, Busy
  <2> HIDE DEF c
  <2>4. "request" \in Kinds /\ "request" \notin BondKinds
      BY DEF Kinds, BondKinds
  <2> QED BY <1>1, <2>1, <2>2, <2>3, <2>4, EnterStep DEF c
<1>3. ASSUME NEW kind \in BondKinds, NEW t \in Tasks, BondAction(s, kind, l, t)
      PROVE  BrokerInv'
  <2> DEFINE c == Moved(bonds[l], kind, t)
  <2>1. bonds[l] \in Bond /\ kind \in Kinds \ {"request"} /\ CanMove(bonds[l], kind, t, 0)
      BY <1>1, <1>3 DEF BondAction, Kinds, BondKinds
  <2>2. /\ c \in Bond /\ c.status = EndOf[kind]
        /\ c.task_id = IF kind = "lock" THEN t ELSE bonds[l].task_id
      BY <2>1, MovedBond
  <2>3. Faithful(l, bonds[l]) => Faithful(l, c)
      BY <2>1, FaithfulMoves
  <2>4. c.task_id \in Tasks
      BY <2>1, <2>2 DEF CanMove, CanSettle, BondKinds
  <2>5. kind = "lock" => bonds[l].status \in {"reserved", "locked"}
      BY <2>1 DEF CanMove, CanLock
  <2>6. lease[l] # "none"
      BY <1>3 DEF BondAction, BondsHaveLeases
  <2>7. /\ Enter(s, kind, l, bonds[l], c, 0) /\ bonds' = [bonds EXCEPT ![l] = c]
        /\ UNCHANGED <<lease, snapshot, now, stray, crashes, told, undone, outside>>
      BY <1>3 DEF BondAction
  <2> HIDE DEF c
  <2>8. /\ bonds' \in [Leases -> Bond \cup {NoBond}] /\ bonds'[l] = c
        /\ \A m \in Leases \ {l} : bonds'[m] = bonds[m]
      BY <1>1, <2>2, <2>7
  <2>9. kind \notin {"request", "cancel"}
      BY DEF BondKinds
  <2> QED BY <2>1, <2>2, <2>3, <2>4, <2>5, <2>6, <2>7, <2>8, <2>9, EnterStep
<1>4. ASSUME NEW kind \in {"cancel", "expire"}, NEW at \in {0, SlashableUntil},
             Enter(s, kind, l, NoBond, NoBond, at),
             lease[l] # "none", kind = "cancel" => lease[l] # "reclaimed",
             UNCHANGED <<bonds, lease, snapshot, now, stray, crashes, told, undone, outside>>
      PROVE  BrokerInv'
  <2>1. kind \in Kinds /\ kind \notin BondKinds /\ kind \notin {"request", "lock"}
      BY DEF Kinds, BondKinds
  <2> QED BY <1>1, <1>4, <2>1, EnterStep
<1> QED BY <1>2, <1>3, <1>4 DEF Lock, Release, Slash, Cancel, Sweep, BondKinds

-----------------------------------------------------------------------------
(* Calls that return *)

\* When the call of a request returns, the invariant is kept if it is kept for the
\* lease of that request.
LEMMA ReturnStep ==
    ASSUME BrokerInv, NEW s \in Busy, NEW l \in Leases, l = handler[s].lease,
           handler' \in [Slots -> Waiting \cup {Idle}],
           \A u \in Slots \ {s} : handler'[u] = handler[u],
           Busy' \in {Busy, Busy \ {s}},
           s \in Busy' =>
               /\ handler'[s].lease = l /\ handler'[s].step # "provider" /\ lease'[l] # "none"
               /\ handler'[s].kind \in BondKinds => handler'[s].next.task_id \in Tasks
               /\ l \notin overlapped => Fits(handler[s], l)',
           lease' \in [Leases -> LeaseStatuses], bonds' \in [Leases -> Bond \cup {NoBond}],
           told' \in [Leases -> SUBSET ({"lock", "end"} \X Tasks)],
           snapshot' \in [Leases -> Statuses \cup {"none"}],
           \A m \in Leases \ {l} : /\ lease'[m] = lease[m] /\ bonds'[m] = bonds[m]
                                  /\ told'[m] = told[m] /\ snapshot'[m] = snapshot[m],
           lease'[l] = "none" => lease[l] = "none" /\ bonds'[l] = NoBond,
           l \notin overlapped => Faithful(l, bonds[l])',
           l \notin overlapped \cup outside =>
               \A t \in Tasks : <<"end", t>> \in told'[l] => lease'[l] = "reclaimed",
           undone' \in {undone, undone \cup {l}}, UNCHANGED <<now, stray, crashes, overlapped, outside>>
    PROVE  BrokerInv'
<1> USE DEF BrokerInv
<1>1. \A u \in Busy : u \in Slots /\ handler[u].lease \in Leases
    BY BusyWaits, WaitingFields DEF Busy
<1>2. \A u \in Busy' : u = s \/ (u \in Busy /\ u # s /\ handler'[u] = handler[u])
    BY <1>1
<1>3. TypeOK'
    BY DEF TypeOK
<1>4. TasksNamed'
    BY <1>2 DEF TasksNamed
<1>5. BondsHaveLeases'
  <2>1. \A m \in Leases : lease'[m] = "none" => bonds'[m] = NoBond
      BY DEF BondsHaveLeases
  <2>2. ASSUME NEW u \in Busy'
        PROVE  IF handler'[u].kind = "request" /\ handler'[u].step = "provider"
               THEN lease'[handler'[u].lease] = "none"
               ELSE lease'[handler'[u].lease] # "none"
    <3>1. CASE u = s
        BY <2>2, <3>1
    <3>2. CASE u \in Busy /\ u # s /\ handler'[u] = handler[u]
      <4>1. CASE handler[u].lease = l
        <5>1. lease[l] # "none"
            BY <3>2, <4>1 DEF OneInFlight
        <5> QED BY <3>2, <4>1, <5>1 DEF BondsHaveLeases
      <4>2. CASE handler[u].lease # l
          BY <1>1, <3>2, <4>2 DEF BondsHaveLeases
      <4> QED BY <4>1, <4>2
    <3> QED BY <1>2, <3>1, <3>2
  <2> QED BY <2>1, <2>2 DEF BondsHaveLeases
<1>6. OneInFlight'
  <2> SUFFICES ASSUME NEW u \in Busy', NEW v \in Busy', handler'[u].lease = handler'[v].lease,
                      handler'[u].lease \notin overlapped \/ lease'[handler'[u].lease] = "none"
               PROVE  u = v
      BY DEF OneInFlight
  <2>1. /\ u \in Busy /\ v \in Busy
        /\ handler'[u].lease = handler[u].lease /\ handler'[v].lease = handler[v].lease
      BY <1>2
  <2>2. lease'[handler[u].lease] = "none" => lease[handler[u].lease] = "none"
      BY <1>1, <2>1
  <2>3. /\ handler[u].lease = handler[v].lease
        /\ handler[u].lease \notin overlapped \/ lease[handler[u].lease] = "none"
      BY <2>1, <2>2
  <2>4. \A x, y \in Busy :
            (/\ handler[x].lease = handler[y].lease
             /\ handler[x].lease \notin overlapped \/ lease[handler[x].lease] = "none") => x = y
      BY DEF OneInFlight
  <2> QED BY <2>1, <2>3, <2>4
<1>7. BondsFaithful'
  <2> SUFFICES ASSUME NEW m \in Leases \ overlapped
               PROVE  Faithful(m, bonds[m])'
      BY DEF BondsFaithful
  <2>1. CASE m = l
      BY <2>1
  <2>2. CASE m # l
    <3>1. /\ Faithful(m, bonds[m])
          /\ bonds'[m] = bonds[m] /\ told'[m] = told[m] /\ snapshot'[m] = snapshot[m]
        BY <2>2 DEF BondsFaithful
    <3> QED BY <3>1 DEF Faithful
  <2> QED BY <2>1, <2>2
<1>8. HandlersFit'
  <2> SUFFICES ASSUME NEW u \in Busy', handler'[u].lease \notin overlapped
               PROVE  Fits(handler[u], handler[u].lease)'
      BY DEF HandlersFit
  <2>1. CASE u = s
      BY <2>1
  <2>2. CASE u \in Busy /\ u # s /\ handler'[u] = handler[u]
    <3>1. Fits(handler[u], handler[u].lease) /\ handler[u].lease # l /\ handler[u].lease \in Leases
        BY <1>1, <2>2 DEF HandlersFit, OneInFlight
    <3>m. PICK m \in Leases : m = handler[u].lease
        BY <3>1
    <3>2. /\ lease'[m] = lease[m] /\ bonds'[m] = bonds[m]
          /\ told'[m] = told[m] /\ snapshot'[m] = snapshot[m]
        BY <3>1, <3>m
    <3>3. \A b : Faithful(m, b) => Faithful(m, b)'
        BY <3>2 DEF Faithful
    <3>4. handler'[u] = handler[u] /\ Fits(handler[u], m)
        BY <2>2, <3>1, <3>m
    <3> QED BY <3>2, <3>3, <3>4, <3>m DEF Fits
  <2> QED BY <1>2, <2>1, <2>2
<1>9. ToldEndReclaimed'
    BY DEF ToldEndReclaimed
<1> QED BY <1>3, <1>4, <1>5, <1>6, <1>7, <1>8, <1>9

\* What is known of a request whose call returns.
LEMMA Returning ==
    ASSUME BrokerInv, NEW s \in Slots, handler[s].step \in {"provider", "sign", "sync"}
    PROVE  /\ s \in Busy /\ handler[s] \in Waiting
           /\ handler[s].kind \in Kinds /\ handler[s].lease \in Leases
           /\ handler[s].previous \in Bond \cup {NoBond} /\ handler[s].next \in Bond \cup {NoBond}
           /\ handler[s].kind \in BondKinds => handler[s].next.task_id \in Tasks
           /\ handler[s].lease \notin overlapped =>
                 /\ Fits(handler[s], handler[s].lease)
                 /\ Faithful(handler[s].lease, bonds[handler[s].lease])
           /\ lease[handler[s].lease] = "none" =>
                 handler[s].kind = "request" /\ bonds[handler[s].lease] = NoBond
           /\ bonds[handler[s].lease] \in Bond \cup {NoBond}
<1>1. s \in Busy /\ handler[s] \in Waiting
    BY BusyWaits DEF BrokerInv
<1>2. /\ handler[s].kind \in Kinds /\ handler[s].lease \in Leases
      /\ handler[s].previous \in Bond \cup {NoBond} /\ handler[s].next \in Bond \cup {NoBond}
    BY <1>1, WaitingFields
<1> QED BY <1>1, <1>2 DEF BrokerInv, TypeOK, TasksNamed, HandlersFit, BondsFaithful, BondsHaveLeases

\* What the provider does to a lease for a request that waits for it: a client that
\* was told of an end is not contradicted.
LEMMA EffectStep ==
    ASSUME BrokerInv, NEW s \in Slots, handler[s].step = "provider", NEW l \in Leases, l = handler[s].lease
    PROVE  /\ [lease EXCEPT ![l] = Effect(handler[s].kind)] \in [Leases -> LeaseStatuses]
           /\ Effect(handler[s].kind) # "none"
           /\ handler[s].kind \in {"release", "slash", "expire"} => Effect(handler[s].kind) = "reclaimed"
           /\ l \notin overlapped \cup outside =>
                 \A t \in Tasks : <<"end", t>> \in told[l] => Effect(handler[s].kind) = "reclaimed"
<1>1. /\ handler[s].kind \in Kinds /\ s \in Busy
      /\ l \notin overlapped => Fits(handler[s], l)
    BY Returning
<1>2. Effect(handler[s].kind) \in LeaseStatuses \ {"none"}
    BY <1>1 DEF Effect, Kinds, BondKinds, LeaseStatuses
<1>3. handler[s].kind \in {"release", "slash", "expire"} => Effect(handler[s].kind) = "reclaimed"
    BY DEF Effect
<1>4. ASSUME l \notin overlapped \cup outside, NEW t \in Tasks, <<"end", t>> \in told[l]
      PROVE  handler[s].kind \in {"release", "slash", "expire"}
  <2>1. lease[l] = "reclaimed" /\ Fits(handler[s], l)
      BY <1>1, <1>4 DEF BrokerInv, ToldEndReclaimed
  <2>2. handler[s].kind # "request"
      BY <1>1, <2>1 DEF BrokerInv, BondsHaveLeases
  <2>3. handler[s].kind # "cancel"
      BY <1>4, <2>1 DEF Fits
  <2>4. handler[s].kind # "lock"
      BY <1>4, <2>1 DEF Fits, Faithful, BondKinds
  <2> QED BY <1>1, <2>2, <2>3, <2>4 DEF Kinds, BondKinds
<1>5. lease \in [Leases -> LeaseStatuses]
    BY DEF BrokerInv, TypeOK
<1> QED BY <1>2, <1>3, <1>4, <1>5

\* The provider has handed out a lease, or has done what a lock, a release or a slash
\* asked for.
LEMMA CallOkStep ==
    ASSUME BrokerInv, NEW s \in Slots, LeaseGranted(s) \/ BondCallOk(s)
    PROVE  BrokerInv'
<1>0. /\ handler[s].step = "provider" /\ s \in Busy
      /\ handler[s].lease \in Leases /\ handler[s].kind \in BondKinds \cup {"request"}
    BY Returning DEF LeaseGranted, BondCallOk
<1>1. PICK l \in Leases, k \in BondKinds \cup {"request"}, c \in Bond \cup {NoBond} :
        l = handler[s].lease /\ k = handler[s].kind /\ c = handler[s].next
    BY <1>0, Returning
<1> DEFINE step == IF k = "request" THEN "sign" ELSE "sync"
<1>2. /\ k \in BondKinds => c.task_id \in Tasks
      /\ l \notin overlapped => Fits(handler[s], l) /\ Faithful(l, bonds[l])
    BY <1>0, <1>1, Returning
<1>3. /\ lease' = [lease EXCEPT ![l] = Effect(k)] /\ Goto(s, step, c)
      /\ UNCHANGED <<bonds, snapshot, now, stray, crashes, told, overlapped, undone, outside>>
    BY <1>1 DEF LeaseGranted, BondCallOk, BondKinds
<1>4. TypeOK
    BY DEF BrokerInv
<1>5. /\ handler' \in [Slots -> Waiting \cup {Idle}] /\ Busy' = Busy
      /\ handler'[s].step = step /\ handler'[s].kind = k
      /\ handler'[s].lease = l /\ handler'[s].next = c
      /\ \A u \in Slots \ {s} : handler'[u] = handler[u]
    BY <1>0, <1>1, <1>3, <1>4, GotoHandler
<1>6. /\ lease' \in [Leases -> LeaseStatuses] /\ lease'[l] # "none"
      /\ \A m \in Leases \ {l} : lease'[m] = lease[m]
      /\ k \in {"release", "slash"} => lease'[l] = "reclaimed"
      /\ l \notin overlapped \cup outside =>
                 \A t \in Tasks : <<"end", t>> \in told[l] => lease'[l] = "reclaimed"
    BY <1>0, <1>1, <1>3, <1>4, EffectStep DEF TypeOK
<1>7. k = "request" => bonds[l] = NoBond
    BY <1>0, <1>1 DEF BrokerInv, BondsHaveLeases
<1>8. l \notin overlapped => Fits(handler[s], l)'
    BY <1>0, <1>1, <1>2, <1>3, <1>5, <1>6, <1>7 DEF Fits, BondKinds
<1>9. l \notin overlapped => Faithful(l, bonds[l])'
    BY <1>2, <1>3 DEF Faithful
<1>10. /\ bonds' \in [Leases -> Bond \cup {NoBond}]
       /\ told' \in [Leases -> SUBSET ({"lock", "end"} \X Tasks)]
       /\ snapshot' \in [Leases -> Statuses \cup {"none"}]
    BY <1>3, <1>4 DEF TypeOK
<1> QED BY <1>0, <1>1, <1>2, <1>3, <1>5, <1>6, <1>8, <1>9, <1>10, ReturnStep

\* A request that ends keeps the invariant if it is kept for its lease.
LEMMA LeaveStep ==
    ASSUME BrokerInv, NEW s \in Busy, NEW l \in Leases, l = handler[s].lease, Leave(s),
           lease' \in [Leases -> LeaseStatuses], bonds' \in [Leases -> Bond \cup {NoBond}],
           told' \in [Leases -> SUBSET ({"lock", "end"} \X Tasks)],
           snapshot' \in [Leases -> Statuses \cup {"none"}],
           \A m \in Leases \ {l} : /\ lease'[m] = lease[m] /\ bonds'[m] = bonds[m]
                                  /\ told'[m] = told[m] /\ snapshot'[m] = snapshot[m],
           lease'[l] = "none" => lease[l] = "none" /\ bonds'[l] = NoBond,
           l \notin overlapped => Faithful(l, bonds[l])',
           l \notin overlapped \cup outside =>
               \A t \in Tasks : <<"end", t>> \in told'[l] => lease'[l] = "reclaimed",
           undone' \in {undone, undone \cup {l}}, UNCHANGED <<now, stray, crashes, overlapped, outside>>
    PROVE  BrokerInv'
<1>1. s \in Slots /\ TypeOK
    BY DEF Busy, BrokerInv
<1>2. /\ handler' \in [Slots -> Waiting \cup {Idle}] /\ Busy' = Busy \ {s}
      /\ \A u \in Slots \ {s} : handler'[u] = handler[u]
    BY <1>1, LeaveHandler
<1> QED BY <1>2, ReturnStep

\* The provider has cancelled or reclaimed a lease: its bond follows if its record
\* allows that.
LEMMA EndCallOkStep ==
    ASSUME BrokerInv, NEW s \in Slots, EndCallOk(s)
    PROVE  BrokerInv'
<1>0. /\ handler[s].step = "provider" /\ handler[s].kind \in {"cancel", "expire"}
      /\ s \in Busy /\ handler[s].lease \in Leases
    BY Returning DEF EndCallOk
<1>1. PICK l \in Leases, k \in {"cancel", "expire"} : l = handler[s].lease /\ k = handler[s].kind
    BY <1>0
<1> DEFINE b == bonds[l]
           tracked == b # NoBond /\ CanMove(b, k, NoTask, handler[s].at)
<1>2. /\ lease' = [lease EXCEPT ![l] = Effect(k)]
      /\ \/ /\ tracked
            /\ bonds' = [bonds EXCEPT ![l] = Moved(b, k, NoTask)]
            /\ Goto(s, "sync", bonds'[l])
         \/ ~tracked /\ Leave(s) /\ UNCHANGED bonds
      /\ UNCHANGED <<snapshot, now, stray, crashes, told, overlapped, undone, outside>>
    BY <1>1 DEF EndCallOk
<1>3. TypeOK /\ b \in Bond \cup {NoBond} /\ bonds \in [Leases -> Bond \cup {NoBond}]
    BY DEF BrokerInv, TypeOK
<1>4. /\ lease' \in [Leases -> LeaseStatuses] /\ lease'[l] # "none"
      /\ \A m \in Leases \ {l} : lease'[m] = lease[m]
      /\ l \notin overlapped \cup outside =>
                 \A t \in Tasks : <<"end", t>> \in told[l] => lease'[l] = "reclaimed"
    BY <1>0, <1>1, <1>2, <1>3, EffectStep DEF TypeOK
<1>5. /\ told' \in [Leases -> SUBSET ({"lock", "end"} \X Tasks)]
      /\ snapshot' \in [Leases -> Statuses \cup {"none"}]
    BY <1>2, <1>3 DEF TypeOK
<1>6. l \notin overlapped => Faithful(l, b)
    BY DEF BrokerInv, BondsFaithful
<1>7. CASE tracked /\ bonds' = [bonds EXCEPT ![l] = Moved(b, k, NoTask)] /\ Goto(s, "sync", bonds'[l])
  <2> DEFINE c == Moved(b, k, NoTask)
  <2>1. b \in Bond /\ k \in Kinds \ {"request"}
      BY <1>3, <1>7 DEF Kinds, BondKinds
  <2>2. c \in Bond
      BY <2>1, MovedBond
  <2>3. l \notin overlapped => Faithful(l, c)
      BY <1>3, <1>6, <1>7, <2>1, FaithfulMoves
  <2> HIDE DEF c
  <2>4. /\ bonds' \in [Leases -> Bond \cup {NoBond}] /\ bonds'[l] = c
        /\ \A m \in Leases \ {l} : bonds'[m] = bonds[m]
      BY <1>3, <1>7, <2>2 DEF c
  <2>5. Goto(s, "sync", c)
      BY <1>7, <2>4
  <2>6. /\ handler' \in [Slots -> Waiting \cup {Idle}] /\ Busy' = Busy
        /\ handler'[s].step = "sync" /\ handler'[s].kind = k
        /\ handler'[s].lease = l /\ handler'[s].next = c
        /\ \A u \in Slots \ {s} : handler'[u] = handler[u]
      BY <1>0, <1>1, <1>3, <2>2, <2>5, GotoHandler
  <2>7. l \notin overlapped => Faithful(l, bonds[l])'
      BY <1>2, <2>3, <2>4 DEF Faithful
  <2>8. l \notin overlapped => Fits(handler[s], l)'
      BY <1>2, <2>4, <2>6 DEF Fits, BondKinds
  <2>9. k \notin BondKinds
      BY DEF BondKinds
  <2> QED BY <1>0, <1>1, <1>2, <1>4, <1>5, <2>4, <2>6, <2>7, <2>8, <2>9, ReturnStep
<1>8. CASE Leave(s) /\ UNCHANGED bonds
  <2>1. l \notin overlapped => Faithful(l, bonds[l])'
      BY <1>2, <1>6, <1>8 DEF Faithful
  <2> QED BY <1>0, <1>1, <1>2, <1>3, <1>4, <1>5, <1>8, <2>1, LeaveStep
<1> QED BY <1>2, <1>7, <1>8

\* The call failed, before or after it took effect: the rollback restores a record
\* that nothing told since contradicts.
LEMMA ProviderErrorStep ==
    ASSUME BrokerInv, NEW s \in Slots, ProviderError(s)
    PROVE  BrokerInv'
<1>0. /\ handler[s].step = "provider" /\ s \in Busy
      /\ handler[s].lease \in Leases /\ handler[s].kind \in Kinds
    BY Returning DEF ProviderError
<1>1. PICK l \in Leases, k \in Kinds, b \in Bond \cup {NoBond} :
        l = handler[s].lease /\ k = handler[s].kind /\ b = handler[s].previous
    BY <1>0, Returning
<1>2. /\ lease' \in {lease, [lease EXCEPT ![l] = Effect(k)]}
      /\ bonds' = IF k \in BondKinds THEN [bonds EXCEPT ![l] = b] ELSE bonds
      /\ Leave(s)
      /\ undone' \in {undone, undone \cup {l}}
      /\ UNCHANGED <<snapshot, now, stray, crashes, told, overlapped, outside>>
    BY <1>1 DEF ProviderError
<1>3. TypeOK /\ bonds \in [Leases -> Bond \cup {NoBond}]
    BY DEF BrokerInv, TypeOK
<1>4. /\ lease' \in [Leases -> LeaseStatuses]
      /\ lease'[l] = "none" => lease[l] = "none"
      /\ \A m \in Leases \ {l} : lease'[m] = lease[m]
      /\ l \notin overlapped \cup outside =>
                 \A t \in Tasks : <<"end", t>> \in told[l] => lease'[l] = "reclaimed"
    BY <1>0, <1>1, <1>2, <1>3, EffectStep DEF TypeOK, BrokerInv, ToldEndReclaimed
<1>5. /\ told' \in [Leases -> SUBSET ({"lock", "end"} \X Tasks)]
      /\ snapshot' \in [Leases -> Statuses \cup {"none"}]
    BY <1>2, <1>3 DEF TypeOK
<1>6. /\ l \notin overlapped => Fits(handler[s], l) /\ Faithful(l, bonds[l])
      /\ lease[l] = "none" => k = "request" /\ bonds[l] = NoBond
    BY <1>0, <1>1, Returning
<1>7. /\ bonds' \in [Leases -> Bond \cup {NoBond}]
      /\ bonds'[l] = IF k \in BondKinds THEN b ELSE bonds[l]
      /\ \A m \in Leases \ {l} : bonds'[m] = bonds[m]
    BY <1>2, <1>3
<1>8. l \notin overlapped => Faithful(l, bonds'[l])
    BY <1>0, <1>1, <1>6, <1>7 DEF Fits
<1>9. l \notin overlapped => Faithful(l, bonds[l])'
    BY <1>2, <1>8 DEF Faithful
<1>10. lease'[l] = "none" => lease[l] = "none" /\ bonds'[l] = NoBond
    BY <1>4, <1>6, <1>7 DEF BondKinds
<1> QED BY <1>0, <1>1, <1>2, <1>4, <1>5, <1>7, <1>9, <1>10, LeaveStep

\* The attestation is signed and the first record of the bond stored, or not.
LEMMA SignedStep ==
    ASSUME BrokerInv, NEW s \in Slots, Signed(s)
    PROVE  BrokerInv'
<1>0. handler[s].step = "sign" /\ s \in Busy /\ handler[s].lease \in Leases
    BY Returning DEF Signed
<1>1. PICK l \in Leases, c \in Bond \cup {NoBond} : l = handler[s].lease /\ c = handler[s].next
    BY <1>0, Returning
<1>2. /\ \/ /\ bonds' = [bonds EXCEPT ![l] = IF @ = NoBond THEN c ELSE @]
            /\ Goto(s, "sync", c)
         \/ UNCHANGED bonds /\ Leave(s)
      /\ UNCHANGED <<lease, snapshot, now, stray, crashes, told, overlapped, undone, outside>>
    BY <1>1 DEF Signed
<1>3. TypeOK /\ bonds \in [Leases -> Bond \cup {NoBond}]
    BY DEF BrokerInv, TypeOK
<1>4. /\ lease' \in [Leases -> LeaseStatuses]
      /\ told' \in [Leases -> SUBSET ({"lock", "end"} \X Tasks)]
      /\ snapshot' \in [Leases -> Statuses \cup {"none"}]
      /\ l \notin overlapped \cup outside =>
                 \A t \in Tasks : <<"end", t>> \in told[l] => lease'[l] = "reclaimed"
    BY <1>2, <1>3 DEF TypeOK, BrokerInv, ToldEndReclaimed
<1>5. /\ l \notin overlapped => Fits(handler[s], l) /\ Faithful(l, bonds[l])
      /\ handler[s].kind \in BondKinds => c.task_id \in Tasks
    BY <1>0, <1>1, Returning
<1>6. lease[l] # "none"
    BY <1>0, <1>1 DEF BrokerInv, BondsHaveLeases
<1>7. CASE bonds' = [bonds EXCEPT ![l] = IF @ = NoBond THEN c ELSE @] /\ Goto(s, "sync", c)
  <2>1. /\ bonds' \in [Leases -> Bond \cup {NoBond}]
        /\ bonds'[l] = IF bonds[l] = NoBond THEN c ELSE bonds[l]
        /\ \A m \in Leases \ {l} : bonds'[m] = bonds[m]
      BY <1>3, <1>7
  <2>2. /\ handler' \in [Slots -> Waiting \cup {Idle}] /\ Busy' = Busy
        /\ handler'[s].step = "sync" /\ handler'[s].kind = handler[s].kind
        /\ handler'[s].lease = l /\ handler'[s].next = c
        /\ \A u \in Slots \ {s} : handler'[u] = handler[u]
      BY <1>0, <1>1, <1>3, <1>7, GotoHandler
  <2>3. ASSUME l \notin overlapped
        PROVE  Fits(handler[s], l)' /\ Faithful(l, bonds[l])'
    <3>1. /\ handler[s].kind = "request" /\ bonds[l] = NoBond
          /\ c = [status |-> "reserved", task_id |-> NoTask]
        BY <1>0, <1>1, <1>5, <2>3 DEF Fits
    <3>2. bonds'[l] = c
        BY <2>1, <3>1
    <3>3. Fits(handler[s], l)'
        BY <2>2, <3>1, <3>2 DEF Fits, BondKinds
    <3>4. /\ \A t \in Tasks : <<"lock", t>> \notin told[l] /\ <<"end", t>> \notin told[l]
          /\ snapshot[l] \notin Terminal /\ snapshot[l] # "locked"
        BY <1>5, <2>3, <3>1, NoBondIsNone, BrokerAssumption DEF Faithful, Terminal
    <3>5. Faithful(l, bonds[l])'
        BY <1>2, <3>4 DEF Faithful
    <3> QED BY <3>3, <3>5
  <2> QED BY <1>0, <1>1, <1>2, <1>4, <1>5, <1>6, <2>1, <2>2, <2>3, ReturnStep
<1>8. CASE UNCHANGED bonds /\ Leave(s)
  <2>1. l \notin overlapped => Faithful(l, bonds[l])'
      BY <1>2, <1>5, <1>8 DEF Faithful
  <2> QED BY <1>0, <1>1, <1>2, <1>3, <1>4, <1>6, <1>8, <2>1, LeaveStep
<1> QED BY <1>2, <1>7, <1>8

\* The indexer has the record or not, and the client is told of success.
LEMMA SyncedStep ==
    ASSUME BrokerInv, NEW s \in Slots, Synced(s)
    PROVE  BrokerInv'
<1>0. handler[s].step = "sync" /\ s \in Busy /\ handler[s].lease \in Leases /\ handler[s].kind \in Kinds
    BY Returning DEF Synced
<1>1. PICK l \in Leases, k \in Kinds, c \in Bond \cup {NoBond} :
        l = handler[s].lease /\ k = handler[s].kind /\ c = handler[s].next
    BY <1>0, Returning
<1> DEFINE word == IF k = "lock" THEN "lock" ELSE "end"
<1>2. /\ snapshot' \in {snapshot, [snapshot EXCEPT ![l] = c.status]}
      /\ told' = IF k \in BondKinds THEN [told EXCEPT ![l] = @ \cup {<<word, c.task_id>>}] ELSE told
      /\ Leave(s)
      /\ UNCHANGED <<bonds, lease, now, stray, crashes, overlapped, undone, outside>>
    BY <1>1 DEF Synced, Tell
<1>3. TypeOK /\ lease \in [Leases -> LeaseStatuses] /\ bonds \in [Leases -> Bond \cup {NoBond}]
    BY DEF BrokerInv, TypeOK
<1>4. /\ l \notin overlapped => Fits(handler[s], l) /\ Faithful(l, bonds[l])
      /\ k \in BondKinds => c.task_id \in Tasks
    BY <1>0, <1>1, Returning
<1>5. /\ snapshot' \in [Leases -> Statuses \cup {"none"}]
      /\ snapshot'[l] \in {snapshot[l], c.status}
      /\ \A m \in Leases \ {l} : snapshot'[m] = snapshot[m]
  <2>1. c.status \in Statuses \cup {"none"}
      BY NoBondIsNone DEF Bond
  <2> QED BY <1>2, <1>3, <2>1 DEF TypeOK
<1>6. /\ told' \in [Leases -> SUBSET ({"lock", "end"} \X Tasks)]
      /\ \A m \in Leases \ {l} : told'[m] = told[m]
      /\ told'[l] = told[l] \cup (IF k \in BondKinds THEN {<<word, c.task_id>>} ELSE {})
    BY <1>2, <1>3, <1>4 DEF TypeOK
<1>7. lease[l] # "none"
    BY <1>0, <1>1 DEF BrokerInv, BondsHaveLeases
<1>8. ASSUME l \notin overlapped
      PROVE  Faithful(l, bonds[l])'
  <2>1. /\ bonds[l] = c /\ Faithful(l, c)
        /\ k \in BondKinds => c.status = EndOf[k]
      BY <1>0, <1>1, <1>4, <1>8 DEF Fits
  <2>2. k \in BondKinds =>
            IF word = "lock" THEN c.status = "locked" ELSE c.status \in {"released", "slashed"}
      BY <2>1 DEF BondKinds, EndOf
  <2>3. \A t \in Tasks : <<"lock", t>> \in told'[l] =>
            c.task_id = t /\ c.status \notin {"reserved", "cancelled"}
      BY <1>6, <2>1, <2>2 DEF Faithful
  <2>4. \A t \in Tasks : <<"end", t>> \in told'[l] => c.status \in {"released", "slashed"}
      BY <1>6, <2>1, <2>2 DEF Faithful
  <2>5. /\ snapshot'[l] \in Terminal => snapshot'[l] = c.status
        /\ snapshot'[l] = "locked" => c.status \in {"locked", "released", "slashed", "expired"}
      BY <1>5, <2>1 DEF Faithful
  <2> QED BY <1>2, <2>1, <2>3, <2>4, <2>5 DEF Faithful
<1>9. ASSUME l \notin overlapped \cup outside, NEW t \in Tasks, <<"end", t>> \in told'[l]
      PROVE  lease'[l] = "reclaimed"
  <2>1. CASE <<"end", t>> \in told[l]
      BY <1>2, <1>9, <2>1 DEF BrokerInv, ToldEndReclaimed
  <2>2. CASE k \in BondKinds /\ word = "end"
      BY <1>0, <1>1, <1>2, <1>4, <1>9, <2>2 DEF Fits, BondKinds
  <2> QED BY <1>6, <1>9, <2>1, <2>2
<1> HIDE DEF word
<1> QED BY <1>0, <1>1, <1>2, <1>3, <1>5, <1>6, <1>7, <1>8, <1>9, LeaveStep

-----------------------------------------------------------------------------
(* What is around the requests *)

\* A restart forgets the requests and seeds the indexer with the bonds, or not.
LEMMA RestartStep == BrokerInv /\ Restart => BrokerInv'
<1> SUFFICES ASSUME BrokerInv, Restart PROVE BrokerInv'
    OBVIOUS
<1> USE DEF BrokerInv
<1>1. /\ handler' = [s \in Slots |-> Idle] /\ crashes' = crashes + 1 /\ crashes < MaxCrashes
      /\ UNCHANGED <<bonds, lease, now, told, overlapped, undone, outside>>
    BY DEF Restart
<1>10. stray' \subseteq Leases \X (Kinds \ {"request"})
  <2>1. PICK calls \in SUBSET {u \in Slots : handler[u].step = "provider" /\ handler[u].kind # "request"} :
            stray' = stray \cup {<<handler[s].lease, handler[s].kind>> : s \in calls}
      BY DEF Restart
  <2>2. \A s \in calls : handler[s].lease \in Leases /\ handler[s].kind \in Kinds \ {"request"}
      BY BusyWaits, WaitingFields
  <2>3. stray \subseteq Leases \X (Kinds \ {"request"})
      BY DEF TypeOK
  <2> QED BY <2>1, <2>2, <2>3
<1>2. Busy' = {}
    BY <1>1 DEF Busy
<1>3. \A l \in Leases : snapshot'[l] \in {snapshot[l], bonds[l].status}
    BY DEF Restart
<1>4. \A l \in Leases : bonds[l].status \in Statuses \cup {"none"}
    BY NoBondIsNone DEF TypeOK, Bond
<1>5. snapshot' \in [Leases -> Statuses \cup {"none"}]
    BY <1>4 DEF Restart, TypeOK
<1>6. TypeOK'
    BY <1>1, <1>5, <1>10, BrokerAssumption DEF TypeOK
<1>7. TasksNamed' /\ OneInFlight' /\ HandlersFit'
    BY <1>2 DEF TasksNamed, OneInFlight, HandlersFit
<1>8. BondsHaveLeases' /\ ToldEndReclaimed'
    BY <1>1, <1>2 DEF BondsHaveLeases, ToldEndReclaimed
<1>9. BondsFaithful'
    BY <1>1, <1>3 DEF BondsFaithful, Faithful, Terminal
<1> QED BY <1>6, <1>7, <1>8, <1>9

\* The provider is driven past the requests in flight, and the clock runs.
LEMMA AroundStep ==
    ASSUME BrokerInv,
           \/ Tick
           \/ \E l \in Leases, to \in {"active", "reclaimed"} : ManualLease(l, to)
           \/ \E l \in Leases, kind \in Kinds \ {"request"} : Land(l, kind)
    PROVE  BrokerInv'
<1> USE DEF BrokerInv
<1>1. CASE Tick
  <2>1. TypeOK'
      BY <1>1, BrokerAssumption DEF Tick, TypeOK
  <2>2. UNCHANGED <<bonds, lease, snapshot, handler, stray, told, overlapped, undone, outside>>
      BY <1>1 DEF Tick
  <2> QED BY <2>1, <2>2 DEF Busy, TasksNamed, OneInFlight, HandlersFit, Fits, Faithful, BondsHaveLeases,
             BondsFaithful, ToldEndReclaimed
<1>2. ASSUME NEW l \in Leases, NEW to \in LeaseStatuses \ {"none"},
             lease[l] # "none", lease' = [lease EXCEPT ![l] = to], outside' = outside \cup {l},
             stray' \subseteq stray, UNCHANGED <<bonds, snapshot, handler, now, crashes, told, overlapped, undone>>
      PROVE  BrokerInv'
  <2>1. /\ lease[l] # "none" /\ lease' = [lease EXCEPT ![l] = to] /\ outside' = outside \cup {l}
        /\ stray' \subseteq stray /\ UNCHANGED <<bonds, snapshot, handler, now, crashes, told, overlapped, undone>>
      BY <1>2
  <2>2. /\ lease' \in [Leases -> LeaseStatuses] /\ lease'[l] # "none"
        /\ \A m \in Leases \ {l} : lease'[m] = lease[m]
      BY <2>1 DEF TypeOK, LeaseStatuses
  <2>3. Busy' = Busy /\ \A u \in Busy : handler[u].lease \in Leases
      BY <2>1, BusyWaits, WaitingFields DEF Busy
  <2>4. TypeOK' /\ TasksNamed'
      BY <2>1, <2>2, <2>3 DEF TypeOK, TasksNamed
  <2>5. BondsHaveLeases' /\ OneInFlight'
      BY <2>1, <2>2, <2>3 DEF BondsHaveLeases, OneInFlight
  <2>6. BondsFaithful' /\ ToldEndReclaimed'
      BY <2>1, <2>2 DEF BondsFaithful, Faithful, ToldEndReclaimed
  <2>7. HandlersFit'
      BY <2>1, <2>2, <2>3 DEF HandlersFit, Fits, Faithful
  <2> QED BY <2>4, <2>5, <2>6, <2>7
<1>3. ASSUME NEW l \in Leases, NEW to \in {"active", "reclaimed"}, ManualLease(l, to)
      PROVE  BrokerInv'
  <2>1. to \in LeaseStatuses \ {"none"}
      BY DEF LeaseStatuses
  <2> QED BY <1>2, <1>3, <2>1 DEF ManualLease
<1>4. ASSUME NEW l \in Leases, NEW kind \in Kinds \ {"request"}, Land(l, kind)
      PROVE  BrokerInv'
  <2>1. Effect(kind) \in LeaseStatuses \ {"none"}
      BY DEF Effect, Kinds, BondKinds, LeaseStatuses
  <2> QED BY <1>2, <1>4, <2>1 DEF Land
<1> QED BY <1>1, <1>3, <1>4

\* The invariant holds at the start and every step keeps it.
LEMMA BrokerInvariant == Spec => []BrokerInv
<1>1. Init => BrokerInv
  <2> SUFFICES ASSUME Init PROVE BrokerInv
      OBVIOUS
  <2>1. Busy = {}
      BY DEF Init, Busy
  <2>2. TypeOK
      BY BrokerAssumption DEF Init, TypeOK, LeaseStatuses
  <2> QED BY <2>1, <2>2 DEF Init, BrokerInv, TasksNamed, OneInFlight, HandlersFit, BondsHaveLeases,
             BondsFaithful, Faithful, ToldEndReclaimed, Terminal
<1>2. BrokerInv /\ [Next]_vars => BrokerInv'
  <2> SUFFICES ASSUME BrokerInv, [Next]_vars PROVE BrokerInv'
      OBVIOUS
  <2>1. CASE UNCHANGED vars
      BY <2>1 DEF vars, BrokerInv, TypeOK, Busy, TasksNamed, OneInFlight, HandlersFit, Fits, Faithful,
         BondsHaveLeases, BondsFaithful, ToldEndReclaimed
  <2> QED BY <2>1, StartStep, CallOkStep, EndCallOkStep, ProviderErrorStep, SignedStep, SyncedStep,
             RestartStep, AroundStep DEF Next
<1> QED BY <1>1, <1>2, PTL DEF Spec

-----------------------------------------------------------------------------
(* Bonds that have ended *)

\* A transition the SDK allows from an end repeats that end.
LEMMA TerminalStays ==
    ASSUME NEW b \in Bond, NEW kind \in Kinds \ {"request"}, NEW t \in Tasks \cup {NoTask},
           NEW at, CanMove(b, kind, t, at), b.status \in Terminal
    PROVE  Moved(b, kind, t) = b
<1>1. b.status = EndOf[kind] /\ kind # "lock"
    BY DEF CanMove, CanLock, CanSettle, CanCancel, CanExpire, EndOf, Terminal, Kinds, BondKinds
<1> QED BY <1>1, MovedBond, SameBond

\* An end is kept if the bond is, and if every request on the lease that was not
\* there before found the end or has nothing to roll back.
LEMMA SettledKept ==
    ASSUME BrokerInv, NEW l \in Leases, Settled(l), bonds'[l] = bonds[l],
           \A u \in Busy' :
               \/ u \in Busy /\ handler'[u] = handler[u]
               \/ handler'[u].lease # l
               \/ handler'[u].step = "sync"
               \/ handler'[u].kind \notin BondKinds
               \/ handler'[u].previous = bonds[l]
    PROVE  bonds'[l] = bonds[l] /\ Settled(l)'
BY DEF Settled, InFlight, Busy

\* A request that starts finds the end, and can only repeat it.
LEMMA StartKeepsEnds ==
    ASSUME BrokerInv, NEW s \in Slots, NEW m \in Leases, NEW l \in Leases, Settled(l),
           \/ Request(s, m)
           \/ \E t \in Tasks : Lock(s, m, t) \/ Release(s, m, t) \/ Slash(s, m, t)
           \/ Cancel(s, m)
           \/ \E claimed, at \in {0, SlashableUntil} : Sweep(s, m, claimed, at)
    PROVE  bonds'[l] = bonds[l] /\ Settled(l)'
<1>1. /\ TypeOK /\ bonds[l] \in Bond /\ bonds[l].status \in Terminal /\ lease[l] # "none"
      /\ bonds[m] \in Bond \cup {NoBond} /\ bonds \in [Leases -> Bond \cup {NoBond}]
    BY NoBondIsNone DEF BrokerInv, TypeOK, Settled, Terminal, BondsHaveLeases
<1>2. ASSUME NEW kind \in Kinds, NEW b \in Bond \cup {NoBond}, NEW c \in Bond \cup {NoBond},
             NEW at \in {0, SlashableUntil},
             Enter(s, kind, m, b, c, at), m # l \/ b = bonds[l] \/ kind \notin BondKinds, bonds'[l] = bonds[l]
      PROVE  bonds'[l] = bonds[l] /\ Settled(l)'
  <2>1. /\ Busy' = Busy \cup {s} /\ handler'[s].lease = m /\ handler'[s].previous = b
        /\ handler'[s].kind = kind
        /\ \A u \in Slots \ {s} : handler'[u] = handler[u]
        /\ s \notin Busy
      BY <1>1, <1>2, EnterHandler
  <2>2. \A u \in Busy : u \in Slots /\ u # s
      BY <2>1 DEF Busy
  <2> QED BY <1>2, <2>1, <2>2, SettledKept
<1>3. CASE Request(s, m)
  <2> DEFINE c == [status |-> "reserved", task_id |-> NoTask]
  <2>1. c \in Bond /\ "request" \in Kinds
      BY DEF Bond, Statuses, Kinds
  <2>2. lease[m] = "none" /\ Enter(s, "request", m, NoBond, c, 0) /\ bonds' = bonds
      BY <1>3 DEF Request
  <2> HIDE DEF c
  <2> QED BY <1>1, <1>2, <2>1, <2>2
<1>4. ASSUME NEW kind \in BondKinds, NEW t \in Tasks, BondAction(s, kind, m, t)
      PROVE  bonds'[l] = bonds[l] /\ Settled(l)'
  <2> DEFINE c == Moved(bonds[m], kind, t)
  <2>1. bonds[m] \in Bond /\ kind \in Kinds \ {"request"} /\ CanMove(bonds[m], kind, t, 0)
      BY <1>1, <1>4 DEF BondAction, Kinds, BondKinds
  <2>2. c \in Bond
      BY <2>1, MovedBond
  <2>3. m = l => c = bonds[l]
      BY <1>1, <2>1, TerminalStays
  <2>4. Enter(s, kind, m, bonds[m], c, 0) /\ bonds' = [bonds EXCEPT ![m] = c]
      BY <1>4 DEF BondAction
  <2> HIDE DEF c
  <2>5. bonds'[l] = bonds[l]
      BY <1>1, <2>3, <2>4
  <2> QED BY <1>1, <1>2, <2>1, <2>2, <2>4, <2>5
<1>5. CASE Cancel(s, m) \/ \E claimed, at \in {0, SlashableUntil} : Sweep(s, m, claimed, at)
  <2>1. PICK kind \in {"cancel", "expire"}, at \in {0, SlashableUntil} :
            Enter(s, kind, m, NoBond, NoBond, at) /\ bonds' = bonds
      BY <1>5 DEF Cancel, Sweep
  <2>2. kind \in Kinds /\ kind \notin BondKinds
      BY DEF Kinds, BondKinds
  <2> QED BY <1>1, <1>2, <2>1, <2>2
<1> QED BY <1>3, <1>4, <1>5 DEF Lock, Release, Slash, BondKinds

\* A request that goes on leaves the end alone: a rollback puts back the end that
\* the request found.
LEMMA ReturnKeepsEnds ==
    ASSUME BrokerInv, NEW s \in Slots, NEW l \in Leases, Settled(l),
           \/ LeaseGranted(s) \/ BondCallOk(s) \/ EndCallOk(s)
           \/ ProviderError(s) \/ Signed(s) \/ Synced(s)
    PROVE  bonds'[l] = bonds[l] /\ Settled(l)'
<1>1. /\ TypeOK /\ bonds[l] \in Bond /\ bonds[l].status \in Terminal /\ lease[l] # "none"
      /\ bonds \in [Leases -> Bond \cup {NoBond}]
    BY NoBondIsNone DEF BrokerInv, TypeOK, Settled, Terminal, BondsHaveLeases
<1>2. handler[s].step \in {"provider", "sign", "sync"} /\ s \in Busy /\ handler[s] \in Waiting
    BY <1>1, BusyWaits DEF LeaseGranted, BondCallOk, EndCallOk, ProviderError, Signed, Synced
<1>3. PICK m \in Leases, k \in Kinds, b \in Bond \cup {NoBond}, n \in Bond \cup {NoBond} :
        m = handler[s].lease /\ k = handler[s].kind /\ b = handler[s].previous /\ n = handler[s].next
    BY <1>2, WaitingFields
<1>4. ASSUME bonds'[l] = bonds[l], Leave(s)
      PROVE  bonds'[l] = bonds[l] /\ Settled(l)'
  <2>1. Busy' = Busy \ {s} /\ \A u \in Slots \ {s} : handler'[u] = handler[u]
      BY <1>1, <1>4, LeaveHandler
  <2>2. \A u \in Busy' : u \in Busy /\ handler'[u] = handler[u]
      BY <2>1 DEF Busy
  <2> QED BY <1>4, <2>2, SettledKept
<1>5. ASSUME NEW step \in {"sign", "sync"}, NEW c \in Bond \cup {NoBond},
             bonds'[l] = bonds[l], Goto(s, step, c), m # l \/ step = "sync"
      PROVE  bonds'[l] = bonds[l] /\ Settled(l)'
  <2>1. /\ Busy' = Busy /\ \A u \in Slots \ {s} : handler'[u] = handler[u]
        /\ handler'[s].step = step /\ handler'[s].lease = m
      BY <1>1, <1>2, <1>3, <1>5, GotoHandler
  <2>2. \A u \in Busy : u \in Slots
      BY DEF Busy
  <2> QED BY <1>5, <2>1, <2>2, SettledKept
<1>6. CASE LeaseGranted(s)
  <2>1. m # l
      BY <1>1, <1>2, <1>3, <1>6 DEF LeaseGranted, BrokerInv, BondsHaveLeases
  <2>2. Goto(s, "sign", n) /\ bonds' = bonds
      BY <1>3, <1>6 DEF LeaseGranted
  <2> QED BY <1>5, <2>1, <2>2
<1>7. CASE BondCallOk(s)
  <2>1. Goto(s, "sync", n) /\ bonds' = bonds
      BY <1>3, <1>7 DEF BondCallOk
  <2> QED BY <1>5, <2>1
<1>8. CASE EndCallOk(s)
  <2>1. /\ k \in {"cancel", "expire"}
        /\ \/ /\ bonds[m] # NoBond /\ CanMove(bonds[m], k, NoTask, handler[s].at)
              /\ bonds' = [bonds EXCEPT ![m] = Moved(bonds[m], k, NoTask)]
              /\ Goto(s, "sync", bonds'[m])
           \/ Leave(s) /\ UNCHANGED bonds
      BY <1>3, <1>8 DEF EndCallOk
  <2>2. CASE Leave(s) /\ UNCHANGED bonds
      BY <1>4, <2>2
  <2>3. CASE /\ bonds[m] # NoBond /\ CanMove(bonds[m], k, NoTask, handler[s].at)
             /\ bonds' = [bonds EXCEPT ![m] = Moved(bonds[m], k, NoTask)]
             /\ Goto(s, "sync", bonds'[m])
    <3> DEFINE c == Moved(bonds[m], k, NoTask)
    <3>1. bonds[m] \in Bond /\ k \in Kinds \ {"request"}
        BY <1>1, <2>1, <2>3 DEF Kinds
    <3>2. c \in Bond /\ (m = l => c = bonds[l])
        BY <1>1, <2>3, <3>1, MovedBond, TerminalStays
    <3>3. bonds' = [bonds EXCEPT ![m] = c] /\ Goto(s, "sync", bonds'[m])
        BY <2>3
    <3> HIDE DEF c
    <3>4. bonds'[l] = bonds[l] /\ bonds'[m] = c
        BY <1>1, <3>2, <3>3
    <3>5. Goto(s, "sync", c)
        BY <3>3, <3>4
    <3> QED BY <1>5, <3>2, <3>4, <3>5
  <2> QED BY <2>1, <2>2, <2>3
<1>9. CASE ProviderError(s)
  <2>1. /\ bonds' = IF k \in BondKinds THEN [bonds EXCEPT ![m] = b] ELSE bonds
        /\ Leave(s) /\ handler[s].step = "provider"
      BY <1>3, <1>9 DEF ProviderError
  <2>2. m = l /\ k \in BondKinds => b = bonds[l]
      BY <1>2, <1>3, <2>1 DEF Settled, InFlight, Busy
  <2>3. bonds'[l] = bonds[l]
      BY <1>1, <2>1, <2>2
  <2> QED BY <1>4, <2>1, <2>3
<1>10. CASE Signed(s)
  <2>1. \/ /\ bonds' = [bonds EXCEPT ![m] = IF @ = NoBond THEN n ELSE @]
           /\ Goto(s, "sync", n)
        \/ UNCHANGED bonds /\ Leave(s)
      BY <1>3, <1>10 DEF Signed
  <2>2. bonds'[l] = bonds[l]
      BY <1>1, <2>1, NoBondIsNone
  <2> QED BY <1>4, <1>5, <2>1, <2>2
<1>11. CASE Synced(s)
    BY <1>4, <1>11 DEF Synced
<1> QED BY <1>6, <1>7, <1>8, <1>9, <1>10, <1>11

-----------------------------------------------------------------------------
(* The one task of a bond *)

\* The bond of lease l is taken by task t.
Bound(l, t) == bonds[l].task_id = t /\ bonds[l].status \notin {"reserved", "none"}

\* What the request h on lease l knows of the task: a lock found the bond free or taken
\* by its own task, and a rollback changes the task only to make the bond free again.
Agrees(h, l) ==
    /\ h.kind = "lock" => Bound(l, h.next.task_id)
    /\ h.step = "provider" /\ h.kind \in BondKinds =>
        /\ bonds[l].status \notin {"reserved", "none"} /\ h.previous.status # "none"
        /\ h.previous.status = "reserved" => h.kind = "lock"
        /\ h.previous.status # "reserved" => h.previous.task_id = bonds[l].task_id

ToldBound(l) == \A t \in Tasks : <<"lock", t>> \in told[l] => Bound(l, t)

BindInv ==
    \A l \in Leases \ undone :
        ToldBound(l) /\ \A s \in Busy : handler[s].lease = l => Agrees(handler[s], l)

\* Requests that do not move the task of a lease keep what the others know.
LEMMA BindKept ==
    ASSUME BindInv, undone \subseteq undone', NEW l \in Leases \ undone',
           bonds'[l].task_id = bonds[l].task_id,
           bonds[l].status \notin {"reserved", "none"} => bonds'[l].status \notin {"reserved", "none"},
           \A t \in Tasks : <<"lock", t>> \in told'[l] => <<"lock", t>> \in told[l] \/ Bound(l, t),
           NEW s, \A u \in Busy' : u = s \/ (u \in Busy /\ handler'[u] = handler[u]),
           s \in Busy' /\ handler'[s].lease = l => Agrees(handler[s], l)'
    PROVE  ToldBound(l)' /\ \A u \in Busy' : handler'[u].lease = l => Agrees(handler[u], l)'
<1>1. /\ ToldBound(l)
      /\ \A u \in Busy : handler[u].lease = l => Agrees(handler[u], l)
    BY DEF BindInv
<1>2. ASSUME NEW t, Bound(l, t)
      PROVE  bonds'[l].task_id = t /\ bonds'[l].status \notin {"reserved", "none"}
    BY <1>2 DEF Bound
<1>3. ToldBound(l)'
    BY <1>1, <1>2 DEF ToldBound, Bound
<1>4. ASSUME NEW u \in Busy', handler'[u].lease = l
      PROVE  Agrees(handler[u], l)'
  <2>1. CASE u = s
      BY <1>4, <2>1
  <2>2. CASE u \in Busy /\ handler'[u] = handler[u]
      BY <1>1, <1>2, <1>4, <2>2 DEF Agrees, Bound
  <2> QED BY <2>1, <2>2
<1> QED BY <1>3, <1>4

\* A lease without requests, of which no client was told that it is locked.
LEMMA BindFree ==
    ASSUME NEW l \in Leases, \A t \in Tasks : <<"lock", t>> \notin told'[l],
           \A u \in Busy' : handler'[u].lease # l
    PROVE  ToldBound(l)' /\ \A u \in Busy' : handler'[u].lease = l => Agrees(handler[u], l)'
BY DEF ToldBound

\* A lock, a release or a slash that starts.
LEMMA BindAction ==
    ASSUME BrokerInv, BindInv, NEW s \in Slots, NEW kind \in BondKinds, NEW m \in Leases, NEW v \in Tasks,
           BondAction(s, kind, m, v)
    PROVE  BindInv'
<1> SUFFICES ASSUME NEW l \in Leases \ undone
             PROVE  ToldBound(l)' /\ \A u \in Busy' : handler'[u].lease = l => Agrees(handler[u], l)'
    BY DEF BindInv, BondAction
<1> DEFINE b == bonds[m]
           c == Moved(b, kind, v)
<1>1. /\ TypeOK /\ bonds \in [Leases -> Bond \cup {NoBond}]
      /\ told' = told /\ undone' = undone /\ bonds' = [bonds EXCEPT ![m] = c]
      /\ b \in Bond /\ kind \in Kinds \ {"request"} /\ CanMove(b, kind, v, 0)
      /\ Enter(s, kind, m, b, c, 0)
    BY DEF BrokerInv, TypeOK, BondAction, Kinds, BondKinds
<1>2. /\ c \in Bond /\ c.status = EndOf[kind]
      /\ c.task_id = IF kind = "lock" THEN v ELSE b.task_id
    BY <1>1, MovedBond
<1>3. /\ b.status # "none" /\ c.status \notin {"reserved", "none"}
      /\ b.status = "reserved" => kind = "lock"
      /\ b.status # "reserved" => c.task_id = b.task_id
    BY <1>1, <1>2 DEF CanMove, CanLock, CanSettle, EndOf, Bond, Statuses, Terminal, Kinds, BondKinds
<1>4. /\ Busy' = Busy \cup {s} /\ handler'[s].step = "provider" /\ handler'[s].kind = kind
      /\ handler'[s].lease = m /\ handler'[s].previous = b /\ handler'[s].next = c
      /\ \A u \in Slots \ {s} : handler'[u] = handler[u]
      /\ s \notin Busy
    BY <1>1, <1>2, EnterHandler
<1>5. \A u \in Busy' : u = s \/ (u \in Busy /\ handler'[u] = handler[u])
    BY <1>4 DEF Busy
<1>6. bonds'[m] = c /\ \A k \in Leases \ {m} : bonds'[k] = bonds[k]
    BY <1>1, <1>2
<1> HIDE DEF c
<1>7. CASE l # m
    BY <1>1, <1>4, <1>5, <1>6, <1>7, BindKept
<1>8. Agrees(handler[s], m)'
    BY <1>2, <1>3, <1>4, <1>6 DEF Agrees, Bound
<1>9. CASE l = m /\ b.status # "reserved"
    BY <1>1, <1>3, <1>4, <1>5, <1>6, <1>8, <1>9, BindKept
<1>10. CASE l = m /\ b.status = "reserved"
  <2>1. \A t \in Tasks : <<"lock", t>> \notin told[l]
      BY <1>10 DEF BindInv, ToldBound, Bound
  <2>2. \A u \in Busy : handler[u].lease = l => Agrees(handler[u], l)
      BY DEF BindInv
  <2>3. ASSUME NEW u \in Busy, handler[u].lease = l
        PROVE  handler[u].kind # "lock" /\ ~(handler[u].step = "provider" /\ handler[u].kind \in BondKinds)
      BY <1>10, <2>2, <2>3 DEF Agrees, Bound
  <2>4. ASSUME NEW u \in Busy', handler'[u].lease = l
        PROVE  Agrees(handler[u], l)'
    <3>1. CASE u = s
        BY <1>8, <1>10, <3>1
    <3>2. CASE u \in Busy /\ handler'[u] = handler[u]
        BY <2>3, <2>4, <3>2 DEF Agrees
    <3> QED BY <1>5, <3>1, <3>2
  <2> QED BY <1>1, <2>1, <2>4 DEF ToldBound
<1> QED BY <1>7, <1>9, <1>10

\* The other requests that start do not move a bond.
LEMMA BindStart ==
    ASSUME BrokerInv, BindInv, NEW s \in Slots, NEW m \in Leases,
           \/ Request(s, m) \/ Cancel(s, m)
           \/ \E claimed, at \in {0, SlashableUntil} : Sweep(s, m, claimed, at)
    PROVE  BindInv'
<1>1. PICK kind \in {"request", "cancel", "expire"}, c \in Bond \cup {NoBond}, at \in {0, SlashableUntil} :
        Enter(s, kind, m, NoBond, c, at) /\ bonds' = bonds /\ told' = told /\ undone' = undone
  <2>1. [status |-> "reserved", task_id |-> NoTask] \in Bond
      BY DEF Bond, Statuses
  <2> QED BY <2>1 DEF Request, Cancel, Sweep
<1>2. TypeOK /\ kind \in Kinds /\ kind \notin BondKinds
    BY DEF BrokerInv, Kinds, BondKinds
<1>3. /\ Busy' = Busy \cup {s} /\ handler'[s].kind = kind
      /\ \A u \in Slots \ {s} : handler'[u] = handler[u]
      /\ s \notin Busy
    BY <1>1, <1>2, EnterHandler
<1>4. \A u \in Busy' : u = s \/ (u \in Busy /\ handler'[u] = handler[u])
    BY <1>3 DEF Busy
<1>5. \A l \in Leases : Agrees(handler[s], l)'
    BY <1>2, <1>3 DEF Agrees, BondKinds
<1> SUFFICES ASSUME NEW l \in Leases \ undone'
             PROVE  ToldBound(l)' /\ \A u \in Busy' : handler'[u].lease = l => Agrees(handler[u], l)'
    BY DEF BindInv
<1> QED BY <1>1, <1>4, <1>5, BindKept

\* A request that goes on.
LEMMA BindReturn ==
    ASSUME BrokerInv, BindInv, NEW s \in Slots,
           \/ LeaseGranted(s) \/ BondCallOk(s) \/ EndCallOk(s)
           \/ ProviderError(s) \/ Signed(s) \/ Synced(s)
    PROVE  BindInv'
<1> SUFFICES ASSUME NEW l \in Leases \ undone'
             PROVE  ToldBound(l)' /\ \A u \in Busy' : handler'[u].lease = l => Agrees(handler[u], l)'
    BY DEF BindInv
<1>1. TypeOK /\ bonds \in [Leases -> Bond \cup {NoBond}] /\ told \in [Leases -> SUBSET ({"lock", "end"} \X Tasks)]
    BY DEF BrokerInv, TypeOK
<1>2. handler[s].step \in {"provider", "sign", "sync"} /\ s \in Busy
    BY <1>1, BusyWaits DEF LeaseGranted, BondCallOk, EndCallOk, ProviderError, Signed, Synced
<1>3. PICK m \in Leases, k \in Kinds, b \in Bond \cup {NoBond}, n \in Bond \cup {NoBond} :
        m = handler[s].lease /\ k = handler[s].kind /\ b = handler[s].previous /\ n = handler[s].next
    BY <1>2, Returning
<1>4. undone \subseteq undone' /\ l \notin undone
    BY DEF LeaseGranted, BondCallOk, EndCallOk, ProviderError, Signed, Synced
<1>5. /\ ToldBound(l)
      /\ m = l => Agrees(handler[s], l)
    BY <1>2, <1>3, <1>4 DEF BindInv
<1>6. ASSUME NEW step \in {"sign", "sync"}, NEW c \in Bond \cup {NoBond}, Goto(s, step, c), told' = told,
             bonds'[l].task_id = bonds[l].task_id,
             bonds[l].status \notin {"reserved", "none"} => bonds'[l].status \notin {"reserved", "none"},
             k = "lock" => c = n
      PROVE  ToldBound(l)' /\ \A u \in Busy' : handler'[u].lease = l => Agrees(handler[u], l)'
  <2>1. /\ Busy' = Busy /\ \A u \in Slots \ {s} : handler'[u] = handler[u]
        /\ handler'[s].step = step /\ handler'[s].kind = k /\ handler'[s].lease = m /\ handler'[s].next = c
      BY <1>1, <1>2, <1>3, <1>6, GotoHandler
  <2>2. \A u \in Busy' : u = s \/ (u \in Busy /\ handler'[u] = handler[u])
      BY <2>1 DEF Busy
  <2>3. m = l => Agrees(handler[s], l)'
      BY <1>3, <1>5, <1>6, <2>1 DEF Agrees, Bound
  <2> QED BY <1>4, <1>6, <2>1, <2>2, <2>3, BindKept
<1>7. ASSUME Leave(s), bonds'[l].task_id = bonds[l].task_id,
             bonds[l].status \notin {"reserved", "none"} => bonds'[l].status \notin {"reserved", "none"},
             \A t \in Tasks : <<"lock", t>> \in told'[l] => <<"lock", t>> \in told[l] \/ Bound(l, t)
      PROVE  ToldBound(l)' /\ \A u \in Busy' : handler'[u].lease = l => Agrees(handler[u], l)'
  <2>1. Busy' = Busy \ {s} /\ \A u \in Slots \ {s} : handler'[u] = handler[u]
      BY <1>1, <1>7, LeaveHandler
  <2>2. /\ s \notin Busy'
        /\ \A u \in Busy' : u = s \/ (u \in Busy /\ handler'[u] = handler[u])
      BY <2>1 DEF Busy
  <2> QED BY <1>4, <1>7, <2>2, BindKept
<1>8. CASE LeaseGranted(s)
  <2>1. Goto(s, "sign", n) /\ bonds' = bonds /\ told' = told
      BY <1>3, <1>8 DEF LeaseGranted
  <2> QED BY <1>6, <2>1
<1>9. CASE BondCallOk(s)
  <2>1. Goto(s, "sync", n) /\ bonds' = bonds /\ told' = told
      BY <1>3, <1>9 DEF BondCallOk
  <2> QED BY <1>6, <2>1
<1>10. CASE EndCallOk(s)
  <2> DEFINE c == Moved(bonds[m], k, NoTask)
  <2>1. /\ k \in {"cancel", "expire"} /\ told' = told
        /\ \/ /\ bonds[m] # NoBond /\ bonds' = [bonds EXCEPT ![m] = c]
              /\ Goto(s, "sync", bonds'[m])
           \/ Leave(s) /\ UNCHANGED bonds
      BY <1>3, <1>10 DEF EndCallOk
  <2>2. CASE Leave(s) /\ UNCHANGED bonds
      BY <1>7, <2>1, <2>2
  <2>3. CASE bonds[m] # NoBond /\ bonds' = [bonds EXCEPT ![m] = c] /\ Goto(s, "sync", bonds'[m])
    <3>1. bonds[m] \in Bond /\ k \in Kinds \ {"request"} /\ k # "lock"
        BY <1>1, <2>1, <2>3 DEF Kinds
    <3>2. c \in Bond /\ c.status = EndOf[k] /\ c.task_id = bonds[m].task_id
        BY <3>1, MovedBond
    <3>3. c.status \notin {"reserved", "none"}
        BY <2>1, <3>2 DEF EndOf
    <3>4. bonds' = [bonds EXCEPT ![m] = c] /\ Goto(s, "sync", bonds'[m])
        BY <2>3
    <3> HIDE DEF c
    <3>5. bonds'[m] = c /\ \A j \in Leases \ {m} : bonds'[j] = bonds[j]
        BY <1>1, <3>4
    <3>6. Goto(s, "sync", c)
        BY <3>4, <3>5
    <3>7. /\ bonds'[l].task_id = bonds[l].task_id
          /\ bonds[l].status \notin {"reserved", "none"} => bonds'[l].status \notin {"reserved", "none"}
        BY <3>2, <3>3, <3>5
    <3> QED BY <1>6, <2>1, <3>1, <3>2, <3>6, <3>7
  <2> QED BY <2>1, <2>2, <2>3
<1>11. CASE ProviderError(s)
  <2>1. /\ bonds' = IF k \in BondKinds THEN [bonds EXCEPT ![m] = b] ELSE bonds
        /\ Leave(s) /\ handler[s].step = "provider" /\ told' = told
        /\ undone' = IF Undoes(s) THEN undone \cup {m} ELSE undone
      BY <1>3, <1>11 DEF ProviderError
  <2>2. CASE k \notin BondKinds \/ m # l
    <3>1. bonds'[l] = bonds[l]
        BY <1>1, <2>1, <2>2
    <3> QED BY <1>7, <2>1, <3>1
  <2>3. CASE k \in BondKinds /\ m = l /\ b.status # "reserved"
    <3>1. bonds'[l] = b
        BY <1>1, <2>1, <2>3
    <3>2. b.status # "none" /\ b.task_id = bonds[l].task_id
        BY <1>3, <1>5, <2>1, <2>3 DEF Agrees
    <3> QED BY <1>7, <2>1, <2>3, <3>1, <3>2
  <2>4. CASE k \in BondKinds /\ m = l /\ b.status = "reserved"
    <3>1. k = "lock"
        BY <1>3, <1>5, <2>1, <2>4 DEF Agrees
    <3>2. ~Undoes(s)
        BY <2>1, <2>4
    <3>3. /\ InFlight(l) = {s}
          /\ \A t \in Tasks : <<"lock", t>> \notin told[l]
        BY <1>3, <2>4, <3>1, <3>2 DEF Undoes
    <3>4. Busy' = Busy \ {s} /\ \A u \in Slots \ {s} : handler'[u] = handler[u]
        BY <1>1, <2>1, LeaveHandler
    <3>5. \A u \in Busy' : handler'[u].lease # l
        BY <3>3, <3>4 DEF InFlight, Busy
    <3> QED BY <2>1, <3>3, <3>5, BindFree
  <2> QED BY <2>2, <2>3, <2>4
<1>12. CASE Signed(s)
  <2>1. /\ told' = told
        /\ \/ /\ bonds' = [bonds EXCEPT ![m] = IF @ = NoBond THEN n ELSE @]
              /\ Goto(s, "sync", n)
           \/ UNCHANGED bonds /\ Leave(s)
      BY <1>3, <1>12 DEF Signed
  <2>2. CASE UNCHANGED bonds /\ Leave(s)
      BY <1>7, <2>1, <2>2
  <2>3. CASE bonds' = [bonds EXCEPT ![m] = IF @ = NoBond THEN n ELSE @] /\ Goto(s, "sync", n)
    <3>1. /\ bonds'[m] = IF bonds[m] = NoBond THEN n ELSE bonds[m]
          /\ \A j \in Leases \ {m} : bonds'[j] = bonds[j]
        BY <1>1, <2>3
    <3>2. CASE m # l \/ bonds[l] # NoBond
      <4>1. bonds'[l] = bonds[l]
          BY <3>1, <3>2
      <4> QED BY <1>6, <2>1, <2>3, <4>1
    <3>3. CASE m = l /\ bonds[l] = NoBond
      <4>1. /\ Busy' = Busy /\ \A u \in Slots \ {s} : handler'[u] = handler[u]
            /\ handler'[s].step = "sync" /\ handler'[s].kind = k
          BY <1>1, <1>2, <1>3, <2>3, GotoHandler
      <4>2. \A u \in Busy : handler[u].lease = l => Agrees(handler[u], l)
          BY <1>4 DEF BindInv
      <4>3. ASSUME NEW u \in Busy, handler[u].lease = l
            PROVE  handler[u].kind # "lock" /\ ~(handler[u].step = "provider" /\ handler[u].kind \in BondKinds)
          BY <3>3, <4>2, <4>3, NoBondIsNone DEF Agrees, Bound
      <4>4. \A t \in Tasks : <<"lock", t>> \notin told'[l]
          BY <1>5, <2>1, <3>3, NoBondIsNone DEF ToldBound, Bound
      <4>5. ASSUME NEW u \in Busy', handler'[u].lease = l
            PROVE  Agrees(handler[u], l)'
        <5>1. CASE u = s
            BY <1>2, <1>3, <3>3, <4>1, <4>3, <5>1 DEF Agrees
        <5>2. CASE u # s
          <6>1. u \in Busy /\ handler'[u] = handler[u]
              BY <4>1, <5>2 DEF Busy
          <6> QED BY <4>3, <4>5, <6>1 DEF Agrees
        <5> QED BY <5>1, <5>2
      <4> QED BY <4>4, <4>5 DEF ToldBound
    <3> QED BY <3>2, <3>3
  <2> QED BY <2>1, <2>2, <2>3
<1>13. CASE Synced(s)
  <2>1. /\ bonds' = bonds /\ Leave(s) /\ told' = Tell(handler[s])
      BY <1>13 DEF Synced
  <2>2. ASSUME NEW t \in Tasks, <<"lock", t>> \in told'[l], <<"lock", t>> \notin told[l]
        PROVE  m = l /\ k = "lock" /\ n.task_id = t
      BY <1>1, <1>3, <2>1, <2>2 DEF Tell
  <2>3. \A t \in Tasks : <<"lock", t>> \in told'[l] => <<"lock", t>> \in told[l] \/ Bound(l, t)
      BY <1>3, <1>5, <2>2 DEF Agrees
  <2> QED BY <1>7, <2>1, <2>3
<1> QED BY <1>8, <1>9, <1>10, <1>11, <1>12, <1>13

\* The task of a bond is followed through every step.
LEMMA BindInvariant == Spec => []BindInv
<1>1. Init => BindInv
  <2> SUFFICES ASSUME Init PROVE BindInv
      OBVIOUS
  <2>1. Busy = {}
      BY DEF Init, Busy
  <2> QED BY <2>1 DEF Init, BindInv, ToldBound
<1>2. BrokerInv /\ BindInv /\ [Next]_vars => BindInv'
  <2> SUFFICES ASSUME BrokerInv, BindInv, [Next]_vars PROVE BindInv'
      OBVIOUS
  <2>1. CASE UNCHANGED <<bonds, handler, told, undone>>
      BY <2>1 DEF BindInv, ToldBound, Bound, Agrees, Busy
  <2>2. CASE Restart
    <3>1. bonds' = bonds /\ told' = told /\ undone' = undone /\ Busy' = {}
        BY <2>2 DEF Restart, Busy
    <3> QED BY <3>1 DEF BindInv, ToldBound, Bound
  <2>3. CASE \/ UNCHANGED vars \/ Tick
             \/ \E m \in Leases, to \in {"active", "reclaimed"} : ManualLease(m, to)
             \/ \E m \in Leases, kind \in Kinds \ {"request"} : Land(m, kind)
      BY <2>1, <2>3 DEF vars, Tick, ManualLease, Land
  <2>4. ASSUME NEW s \in Slots, NEW l \in Leases, NEW t \in Tasks, Lock(s, l, t) \/ Release(s, l, t) \/ Slash(s, l, t)
        PROVE  BindInv'
      BY <2>4, BindAction DEF Lock, Release, Slash, BondKinds
  <2> QED BY <2>2, <2>3, <2>4, BindStart, BindReturn DEF Next
<1> QED BY <1>1, <1>2, BrokerInvariant, PTL DEF Spec

-----------------------------------------------------------------------------
(* Theorems *)

\* A bond is promised to one task only, however many requests on its lease are in flight
\* at once, fail, lose their answer, are repeated, rolled back or cut off by a restart: a
\* lock is let in when the bond is free or taken by its own task, and a rollback frees
\* the bond only when nobody counts on the lock, unless the lease is in undone.
THEOREM OneTaskPerBond == Spec => []SingleBind
<1>1. BindInv => SingleBind
    BY DEF BindInv, ToldBound, Bound, SingleBind
<1> QED BY <1>1, BindInvariant, PTL

\* Nothing is undone where the requests on a lease come one after the other.
UndoneOverlaps == undone \subseteq overlapped

\* The rollback that OneTaskPerBond excuses needs requests that overlap: where they come
\* one after the other a told lock is never rolled back.
THEOREM UndoneOnlyByOverlap == Spec => []UndoneOverlaps
<1>1. Init => UndoneOverlaps
    BY DEF Init, UndoneOverlaps
<1>2. BrokerInv /\ UndoneOverlaps /\ [Next]_vars => UndoneOverlaps'
  <2> SUFFICES ASSUME BrokerInv, UndoneOverlaps, [Next]_vars PROVE UndoneOverlaps'
      OBVIOUS
  <2>1. CASE undone' = undone /\ overlapped \subseteq overlapped'
      BY <2>1 DEF UndoneOverlaps
  <2>2. ASSUME NEW s \in Slots, ProviderError(s)
        PROVE  UndoneOverlaps'
    <3>1. /\ handler[s].step = "provider" /\ overlapped' = overlapped
          /\ undone' = IF Undoes(s) THEN undone \cup {handler[s].lease} ELSE undone
        BY <2>2 DEF ProviderError
    <3>2. s \in Busy /\ handler[s] \in Waiting /\ handler[s].lease \in Leases
        BY <3>1, Returning
    <3>3. ASSUME Undoes(s), handler[s].lease \notin overlapped
          PROVE  FALSE
      <4> DEFINE l == handler[s].lease
      <4>1. Fits(handler[s], l)
          BY <3>2, <3>3 DEF BrokerInv, HandlersFit
      <4>2. handler[s].kind = "lock" /\ handler[s].previous.status = "reserved"
          BY <3>3 DEF Undoes
      <4>3. \A t \in Tasks : <<"lock", t>> \notin told[l]
          BY <3>1, <4>1, <4>2 DEF Fits, Faithful, BondKinds
      <4>4. \A u \in Busy : handler[u].lease = l => u = s
          BY <3>2, <3>3 DEF BrokerInv, OneInFlight
      <4>5. InFlight(l) = {s}
          BY <3>2, <4>4 DEF InFlight, Busy
      <4> QED BY <3>3, <4>3, <4>5 DEF Undoes
    <3> QED BY <3>1, <3>3 DEF UndoneOverlaps
  <2>3. CASE UNCHANGED <<undone, overlapped>>
      BY <2>1, <2>3
  <2>4. ASSUME NEW s \in Slots, NEW l \in Leases,
               \/ Request(s, l) \/ Cancel(s, l)
               \/ \E t \in Tasks : Lock(s, l, t) \/ Release(s, l, t) \/ Slash(s, l, t)
               \/ \E claimed, at \in {0, SlashableUntil} : Sweep(s, l, claimed, at)
        PROVE  UndoneOverlaps'
    <3>1. undone' = undone /\ overlapped \subseteq overlapped'
        BY <2>4 DEF Request, Lock, Release, Slash, BondAction, Cancel, Sweep, Enter
    <3> QED BY <2>1, <3>1
  <2>5. CASE \/ UNCHANGED vars \/ Restart \/ Tick
             \/ \E s \in Slots : LeaseGranted(s) \/ BondCallOk(s) \/ EndCallOk(s) \/ Signed(s) \/ Synced(s)
             \/ \E l \in Leases, to \in {"active", "reclaimed"} : ManualLease(l, to)
             \/ \E l \in Leases, kind \in Kinds \ {"request"} : Land(l, kind)
      BY <2>3, <2>5 DEF vars, Restart, Tick, LeaseGranted, BondCallOk, EndCallOk, Signed, Synced, ManualLease, Land
  <2> QED BY <2>2, <2>4, <2>5 DEF Next
<1> QED BY <1>1, <1>2, BrokerInvariant, PTL DEF Spec

\* When a client was told of a release or a slash the provider has reclaimed the
\* lease, although an answer can be lost after the call took effect and a request can
\* be repeated: for any history without overlaps and outside calls.
THEOREM EndsToldAreReclaimed == Spec => []ToldEndReclaimed
<1>1. BrokerInv => ToldEndReclaimed
    BY DEF BrokerInv
<1> QED BY <1>1, BrokerInvariant, PTL

\* The indexer shows no end and no lock that the registry does not have, although
\* pushes fail and the registry rolls back: where requests do not overlap a record is
\* only pushed once it cannot be rolled back any more.
THEOREM IndexerNeverAhead == Spec => []SnapshotNeverAhead
<1>1. BrokerInv => SnapshotNeverAhead
    BY DEF BrokerInv, BondsFaithful, Faithful, SnapshotNeverAhead
<1> QED BY <1>1, BrokerInvariant, PTL

\* Once a bond has ended and no older request on its lease still waits for the
\* provider, no request, no rollback and no restart changes it again, overlaps
\* included.
THEOREM EndedBondsAreFinal == Spec => SettledBondStays
<1>1. BrokerInv /\ [Next]_vars =>
        [\A l \in Leases : Settled(l) => bonds'[l] = bonds[l] /\ Settled(l)']_vars
  <2> SUFFICES ASSUME BrokerInv, Next, NEW l \in Leases, Settled(l)
               PROVE  bonds'[l] = bonds[l] /\ Settled(l)'
      OBVIOUS
  <2>1. CASE Restart
    <3>1. bonds' = bonds /\ Busy' = {}
        BY <2>1 DEF Restart, Busy
    <3> QED BY <3>1, SettledKept
  <2>2. CASE \/ Tick
             \/ \E m \in Leases, to \in {"active", "reclaimed"} : ManualLease(m, to)
             \/ \E m \in Leases, kind \in Kinds \ {"request"} : Land(m, kind)
    <3>1. bonds' = bonds /\ handler' = handler
        BY <2>2 DEF Tick, ManualLease, Land
    <3> QED BY <3>1 DEF Settled, InFlight
  <2> QED BY <2>1, <2>2, StartKeepsEnds, ReturnKeepsEnds DEF Next
<1> QED BY <1>1, BrokerInvariant, PTL DEF Spec, SettledBondStays
=============================================================================
