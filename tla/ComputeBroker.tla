--------------------------- MODULE ComputeBroker ---------------------------
(***************************************************************************)
(* The compute-broker service: leases of GPU time reserved at a provider,  *)
(* the bond the broker keeps for each, and the copy of it the indexer      *)
(* serves. A request handler runs until it awaits a call (to the provider, *)
(* to the signer, to the indexer) and goes on when the call returns; other *)
(* handlers run in between. So a request is one action for its code up to  *)
(* the first await and one for each return, with a slot that remembers     *)
(* what the handler holds in its local variables.                          *)
(*                                                                         *)
(* The registry writes its file in the same synchronous step that changes  *)
(* the map, so the bonds survive a crash and the handlers do not: the      *)
(* store file, which is optional, is taken as configured. A call that was  *)
(* sent to the provider before a crash can still arrive after it. A time   *)
(* is a number of ticks; ids, prices and signatures are left out.          *)
(***************************************************************************)
EXTENDS Naturals, FiniteSets

CONSTANTS
    Leases,             \* lease ids the provider can hand out
    Tasks,
    NoTask,
    Slots,              \* bound: requests in flight at the same time
    ExpiresAt,          \* expires_at of every lease
    SlashableUntil,     \* expires_at + bondSlashWindowSecs
    MaxTime,            \* bound: the clock stops here
    MaxCrashes,         \* bound: restarts of the broker
    MaxStray            \* bound: calls of dead brokers that are still on their way

ASSUME BrokerAssumption ==
    /\ NoTask \notin Tasks
    /\ ExpiresAt \in Nat /\ SlashableUntil \in Nat /\ MaxTime \in Nat /\ MaxCrashes \in Nat
    /\ ExpiresAt <= SlashableUntil

VARIABLES
    bonds,      \* ComputeBondRegistry: lease id -> bond, as in its file
    lease,      \* what the provider holds under each lease id
    snapshot,   \* the status the indexer stores for each lease id
    handler,    \* what the request in each slot waits for
    stray,      \* calls to the provider whose broker has died
    now,
    crashes,
    told,       \* history: the outcomes that clients were told, per lease
    overlapped, \* history: leases that had two requests in flight at once
    undone,     \* history: leases whose lock was rolled back under another request
    outside     \* history: leases that a call changed past the requests in flight

vars == <<bonds, lease, snapshot, handler, stray, now, crashes, told, overlapped, undone, outside>>

Terminal == {"released", "slashed", "cancelled", "expired"}
Statuses == {"reserved", "locked"} \cup Terminal
Bond == [status : Statuses, task_id : Tasks \cup {NoTask}]
NoBond == [status |-> "none", task_id |-> NoTask]
LeaseStatuses == {"none", "reserved", "active", "cancelled", "reclaimed"}

BondKinds == {"lock", "release", "slash"}
Kinds == BondKinds \cup {"request", "cancel", "expire"}
Steps == {"idle", "provider", "sign", "sync"}
Idle == [step |-> "idle"]
Waiting == [step : Steps \ {"idle"}, kind : Kinds, lease : Leases, at : {0, SlashableUntil},
            previous : Bond \cup {NoBond}, next : Bond \cup {NoBond}]
InFlight(l) == {s \in Slots : handler[s] # Idle /\ handler[s].lease = l}

TypeOK ==
    /\ bonds \in [Leases -> Bond \cup {NoBond}]
    /\ lease \in [Leases -> LeaseStatuses]
    /\ snapshot \in [Leases -> Statuses \cup {"none"}]
    /\ handler \in [Slots -> Waiting \cup {Idle}]
    /\ stray \subseteq Leases \X (Kinds \ {"request"})
    /\ now \in 0..MaxTime /\ crashes \in 0..MaxCrashes
    /\ told \in [Leases -> SUBSET ({"lock", "end"} \X Tasks)]
    /\ overlapped \subseteq Leases /\ undone \subseteq Leases /\ outside \subseteq Leases

Init ==
    /\ bonds = [l \in Leases |-> NoBond]
    /\ lease = [l \in Leases |-> "none"]
    /\ snapshot = [l \in Leases |-> "none"]
    /\ handler = [s \in Slots |-> Idle] /\ stray = {}
    /\ now = 0 /\ crashes = 0
    /\ told = [l \in Leases |-> {}]
    /\ overlapped = {} /\ undone = {} /\ outside = {}

-----------------------------------------------------------------------------
(* The rules of the SDK for the life of a bond *)

\* Fault: a locked bond is locked again for any task.
CanLockAgain(b, t) == b.status = "locked" \/ (b.status = "reserved" /\ now < ExpiresAt)

\* A transition is valid from the status it belongs to, or as a repetition of one
\* that was made already.
CanLock(b, t) ==
    \/ b.status = "locked" /\ b.task_id = t
    \/ b.status = "reserved" /\ b.task_id \in {NoTask, t} /\ now < ExpiresAt

CanSettle(b, end, t) == b.status \in {"locked", end} /\ b.task_id = t

CanCancel(b) == b.status \in {"reserved", "cancelled"}

\* Fault: the end of the slash window expires every bond.
CanExpireAny(b, at) == at >= SlashableUntil

\* The time of an expiry is the one its caller gave.
CanExpire(b, at) ==
    \/ b.status = "expired"
    \/ b.status \notin Terminal /\ at >= SlashableUntil

CanMove(b, kind, t, at) ==
    \/ kind = "lock" /\ CanLock(b, t)
    \/ kind = "release" /\ CanSettle(b, "released", t)
    \/ kind = "slash" /\ CanSettle(b, "slashed", t)
    \/ kind = "cancel" /\ CanCancel(b)
    \/ kind = "expire" /\ CanExpire(b, at)

Moved(b, kind, t) ==
    CASE kind = "lock"    -> [status |-> "locked", task_id |-> t]
      [] kind = "release" -> [b EXCEPT !.status = "released"]
      [] kind = "slash"   -> [b EXCEPT !.status = "slashed"]
      [] kind = "cancel"  -> [b EXCEPT !.status = "cancelled"]
      [] kind = "expire"  -> [b EXCEPT !.status = "expired"]

-----------------------------------------------------------------------------
(* Requests up to their first await *)

Enter(s, kind, l, previous, next, at) ==
    /\ handler[s] = Idle
    /\ handler' = [handler EXCEPT ![s] =
         [step |-> "provider", kind |-> kind, lease |-> l, at |-> at,
          previous |-> previous, next |-> next]]
    /\ overlapped' = IF InFlight(l) = {} THEN overlapped ELSE overlapped \cup {l}

\* POST /bonds/request: the provider is asked for a lease. It hands out an id
\* that nobody has seen.
Request(s, l) ==
    /\ lease[l] = "none" /\ InFlight(l) = {}
    /\ Enter(s, "request", l, NoBond, [status |-> "reserved", task_id |-> NoTask], 0)
    /\ UNCHANGED <<bonds, lease, snapshot, stray, now, crashes, told, undone, outside>>

\* Fault: the indexer is told before the provider has answered.
BondActionPushedEarly(s, kind, l, t) ==
    /\ bonds[l] # NoBond
    /\ CanMove(bonds[l], kind, t, 0)
    /\ Enter(s, kind, l, bonds[l], Moved(bonds[l], kind, t), 0)
    /\ bonds' = [bonds EXCEPT ![l] = Moved(bonds[l], kind, t)]
    /\ snapshot' = [snapshot EXCEPT ![l] = bonds'[l].status]
    /\ UNCHANGED <<lease, stray, now, crashes, told, undone, outside>>

\* POST /bonds/lock, /bonds/release and /bonds/slash move the bond first and
\* call the provider afterwards, keeping the record they found for a rollback.
BondAction(s, kind, l, t) ==
    /\ bonds[l] # NoBond
    /\ CanMove(bonds[l], kind, t, 0)
    /\ Enter(s, kind, l, bonds[l], Moved(bonds[l], kind, t), 0)
    /\ bonds' = [bonds EXCEPT ![l] = Moved(bonds[l], kind, t)]
    /\ UNCHANGED <<lease, snapshot, stray, now, crashes, told, undone, outside>>

Lock(s, l, t) == BondAction(s, "lock", l, t)
Release(s, l, t) == BondAction(s, "release", l, t)
Slash(s, l, t) == BondAction(s, "slash", l, t)

\* POST /bonds/cancel, signed by the agent: the lease is looked up at the
\* provider, and refused there only when it is already given back. The bond is
\* not looked at before the provider has cancelled.
Cancel(s, l) ==
    /\ lease[l] \notin {"none", "cancelled", "reclaimed"}
    /\ Enter(s, "cancel", l, NoBond, NoBond, 0)
    /\ UNCHANGED <<bonds, lease, snapshot, stray, now, crashes, told, undone, outside>>

\* POST /leases/expire-sweep for one lease. The end of its slash window and the
\* time are both the caller's: the first test compares the two, and the bond's own
\* record is compared with that time when the lease has been reclaimed.
Sweep(s, l, claimed, at) ==
    /\ lease[l] # "none"
    /\ claimed <= at
    /\ Enter(s, "expire", l, NoBond, NoBond, at)
    /\ UNCHANGED <<bonds, lease, snapshot, stray, now, crashes, told, undone, outside>>

\* POST /leases/activate and POST /leases/reclaim drive the provider past the
\* registry. Bound: once per lease.
ManualLease(l, to) ==
    /\ lease[l] # "none" /\ l \notin outside
    /\ lease' = [lease EXCEPT ![l] = to]
    /\ outside' = outside \cup {l}
    /\ UNCHANGED <<bonds, snapshot, handler, stray, now, crashes, told, overlapped, undone>>

-----------------------------------------------------------------------------
(* The provider's answers *)

\* What the provider's lease becomes through the call of a handler.
Effect(kind) ==
    CASE kind = "request" -> "reserved"
      [] kind = "lock" -> "active"
      [] kind \in {"release", "slash", "expire"} -> "reclaimed"
      [] kind = "cancel" -> "cancelled"

\* The handler goes on to another await. The record it found is not used again.
Goto(s, step, next) ==
    handler' = [handler EXCEPT ![s] =
         [step |-> step, kind |-> @.kind, lease |-> @.lease, at |-> 0,
          previous |-> NoBond, next |-> next]]
Leave(s) == handler' = [handler EXCEPT ![s] = Idle]

\* The client of handler h is told that it succeeded.
Tell(h) ==
    IF h.kind \in BondKinds
    THEN [told EXCEPT ![h.lease] =
            @ \cup {<<IF h.kind = "lock" THEN "lock" ELSE "end", h.next.task_id>>}]
    ELSE told

\* The provider has handed out the lease; the attestation is to be signed.
LeaseGranted(s) ==
    /\ handler[s].step = "provider" /\ handler[s].kind = "request"
    /\ lease' = [lease EXCEPT ![handler[s].lease] = Effect("request")]
    /\ Goto(s, "sign", handler[s].next)
    /\ UNCHANGED <<bonds, snapshot, stray, now, crashes, told, overlapped, undone, outside>>

\* The provider did what a lock, a release or a slash asked for.
BondCallOk(s) ==
    /\ handler[s].step = "provider" /\ handler[s].kind \in BondKinds
    /\ lease' = [lease EXCEPT ![handler[s].lease] = Effect(handler[s].kind)]
    /\ Goto(s, "sync", handler[s].next)
    /\ UNCHANGED <<bonds, snapshot, stray, now, crashes, told, overlapped, undone, outside>>

\* The provider has cancelled or reclaimed the lease. Only now the bond is moved,
\* if there is one and its record still allows it: if not, the request ends with an
\* error although the lease is gone.
EndCallOk(s) ==
    LET h == handler[s]
        l == h.lease
        tracked == bonds[l] # NoBond /\ CanMove(bonds[l], h.kind, NoTask, h.at) IN
    /\ h.step = "provider" /\ h.kind \in {"cancel", "expire"}
    /\ lease' = [lease EXCEPT ![l] = Effect(h.kind)]
    /\ \/ /\ tracked
          /\ bonds' = [bonds EXCEPT ![l] = Moved(@, h.kind, NoTask)]
          /\ Goto(s, "sync", bonds'[l])
       \/ ~tracked /\ Leave(s) /\ UNCHANGED bonds
    /\ UNCHANGED <<snapshot, stray, now, crashes, told, overlapped, undone, outside>>

\* Fault: a failed call is answered like one that succeeded.
ProviderErrorHidden(s) ==
    /\ handler[s].step = "provider"
    /\ lease' \in {lease, [lease EXCEPT ![handler[s].lease] = Effect(handler[s].kind)]}
    /\ told' = Tell(handler[s])
    /\ Leave(s)
    /\ UNCHANGED <<bonds, snapshot, stray, now, crashes, overlapped, undone, outside>>

\* The rollback of the lock in slot s makes the bond reserved again although another
\* request is in flight, which saw the lock, or a client was told of one.
Undoes(s) ==
    LET h == handler[s] IN
    /\ h.kind = "lock" /\ h.previous.status = "reserved"
    /\ InFlight(h.lease) # {s} \/ \E t \in Tasks : <<"lock", t>> \in told[h.lease]

\* The call failed, or its answer was lost after it took effect. Lock, release and
\* slash put the record back that they found when they started.
ProviderError(s) ==
    LET h == handler[s] IN
    /\ h.step = "provider"
    /\ lease' \in {lease, [lease EXCEPT ![h.lease] = Effect(h.kind)]}
    /\ bonds' = IF h.kind \in BondKinds
                THEN [bonds EXCEPT ![h.lease] = h.previous]
                ELSE bonds
    /\ undone' = IF Undoes(s) THEN undone \cup {h.lease} ELSE undone
    /\ Leave(s)
    /\ UNCHANGED <<snapshot, stray, now, crashes, told, overlapped, outside>>

-----------------------------------------------------------------------------
(* The rest of the handlers, and what is around them *)

\* The attestation is signed and the bond stored, unless signing fails: then the
\* provider keeps a lease that has no bond.
Signed(s) ==
    /\ handler[s].step = "sign"
    /\ \/ /\ bonds' = [bonds EXCEPT ![handler[s].lease] = IF @ = NoBond THEN handler[s].next ELSE @]
          /\ Goto(s, "sync", handler[s].next)
       \/ UNCHANGED bonds /\ Leave(s)
    /\ UNCHANGED <<lease, snapshot, stray, now, crashes, told, overlapped, undone, outside>>

\* The indexer stores the record the handler sent, whatever it stored before, or
\* the push fails and is only logged. Either way the client is told of success.
Synced(s) ==
    LET h == handler[s] IN
    /\ h.step = "sync"
    /\ snapshot' \in {snapshot, [snapshot EXCEPT ![h.lease] = h.next.status]}
    /\ told' = Tell(h)
    /\ Leave(s)
    /\ UNCHANGED <<bonds, lease, stray, now, crashes, overlapped, undone, outside>>

\* The broker dies and starts again: the handlers are gone, the bonds are read
\* back, and the indexer is seeded with all of them unless that push fails. What the
\* handlers had asked of the provider may still arrive there; a lease that is handed
\* out to a dead broker has an id nobody knows.
Restart ==
    /\ crashes < MaxCrashes
    /\ crashes' = crashes + 1
    /\ handler' = [s \in Slots |-> Idle]
    /\ \E calls \in SUBSET {u \in Slots : handler[u].step = "provider" /\ handler[u].kind # "request"} :
        /\ Cardinality(calls) + Cardinality(stray) <= MaxStray
        /\ stray' = stray \cup {<<handler[s].lease, handler[s].kind>> : s \in calls}
    /\ snapshot' \in {snapshot,
         [l \in Leases |-> IF bonds[l] = NoBond THEN snapshot[l] ELSE bonds[l].status]}
    /\ UNCHANGED <<bonds, lease, now, told, overlapped, undone, outside>>

\* A call of a dead broker arrives at the provider.
Land(l, kind) ==
    /\ <<l, kind>> \in stray /\ lease[l] # "none"
    /\ lease' = [lease EXCEPT ![l] = Effect(kind)]
    /\ stray' = stray \ {<<l, kind>>}
    /\ outside' = outside \cup {l}
    /\ UNCHANGED <<bonds, snapshot, handler, now, crashes, told, overlapped, undone>>

Tick ==
    /\ now < MaxTime
    /\ now' = now + 1
    /\ UNCHANGED <<bonds, lease, snapshot, handler, stray, crashes, told, overlapped, undone, outside>>

Next ==
    \/ \E s \in Slots, l \in Leases :
        \/ Request(s, l)
        \/ \E t \in Tasks : Lock(s, l, t) \/ Release(s, l, t) \/ Slash(s, l, t)
        \/ Cancel(s, l)
        \/ \E claimed, at \in {0, SlashableUntil} : Sweep(s, l, claimed, at)
    \/ \E l \in Leases, to \in {"active", "reclaimed"} : ManualLease(l, to)
    \/ \E s \in Slots : LeaseGranted(s) \/ BondCallOk(s) \/ EndCallOk(s) \/ ProviderError(s) \/ Signed(s) \/ Synced(s)
    \/ Restart
    \/ \E l \in Leases, kind \in Kinds \ {"request"} : Land(l, kind)
    \/ Tick

Spec == Init /\ [][Next]_vars

-----------------------------------------------------------------------------
(* Properties *)

\* The bond of l has ended (released, slashed, cancelled, expired), and every
\* request that may still roll it back found it so.
Settled(l) ==
    /\ bonds[l].status \in Terminal
    /\ \A s \in InFlight(l) :
        handler[s].step = "provider" /\ handler[s].kind \in BondKinds => handler[s].previous = bonds[l]

\* A bond that has ended keeps its end and its task for good, whatever is asked of
\* it later and however that fails: only the rollback of a request that was already
\* running when it ended can reopen it.
SettledBondStays == [][\A l \in Leases : Settled(l) => bonds'[l] = bonds[l] /\ Settled(l)']_vars

\* A bond backs one task: clients of two tasks are never both told that they hold the
\* same lease, however requests on it overlap, fail, lose their answer, are repeated or
\* are cut off by a restart. Only one thing breaks it: a lock that fails at the provider
\* after another request was let in on the strength of it.
SingleBind ==
    \A l \in Leases \ undone : \A t, u \in Tasks :
        {<<"lock", t>>, <<"lock", u>>} \subseteq told[l] => t = u

\* When a client was told of a release or a slash, the provider does not run the
\* lease any more, whatever the order of the calls, of errors and of restarts, unless
\* requests overlapped, an operator drove the provider directly, or a call of a broker
\* that died arrived late.
ToldEndReclaimed ==
    \A l \in Leases \ (overlapped \cup outside) : \A t \in Tasks :
        <<"end", t>> \in told[l] => lease[l] = "reclaimed"

\* The indexer shows nothing of a lease that did not happen, although it is told by
\* pushes that can fail and by a copy of everything after a restart: an end it shows
\* is the bond's end, and a lock it shows was not rolled back. Requests that overlap
\* can push their records in the wrong order.
SnapshotNeverAhead ==
    \A l \in Leases \ overlapped :
        /\ snapshot[l] \in Terminal => snapshot[l] = bonds[l].status
        /\ snapshot[l] = "locked" => bonds[l].status \in {"locked", "released", "slashed", "expired"}

=============================================================================
