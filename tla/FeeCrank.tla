------------------------------ MODULE FeeCrank ------------------------------
(***************************************************************************)
(* The fee-crank service over the fee_collector program. Its worker ticks  *)
(* on an interval, one tick at a time; a tick reads the config, then the   *)
(* epoch before next_epoch_id, and harvests and processes it while it is   *)
(* open, burns it while it is split, or, once burnt, takes the snapshot of *)
(* the stakers, commits the root of their shares and saves the leaves in   *)
(* the table epoch_snapshots, from which the proof API serves the claims.  *)
(* A tick is split at its awaits; every error of a transaction is logged   *)
(* and swallowed. The instructions are open to everyone, so others take    *)
(* the same steps of the program between any two awaits.                   *)
(*                                                                         *)
(* The stakers of a snapshot are read from nxs_staking (external): any of  *)
(* Powers. A database is configured, and the crank's key is the authority  *)
(* that may commit a root. The confidential harvest and the snapshot that  *)
(* nxs_staking keeps change no state of this module.                       *)
(***************************************************************************)
EXTENDS FeeCollector

CONSTANTS
    Powers,         \* bound: voting power of the active stakers, as a snapshot finds it
    MaxFailures     \* bound: lost transactions, failed reads or writes, crashes

\* An active stake has a positive amount and nxs_staking weighs it at least once.
ASSUME PowersAssumption ==
    \A p \in Powers : Leaves(p) /\ \A s \in DOMAIN p : p[s] > 0

VARIABLES
    pc,             \* where the tick is; "idle" between ticks
    currentId,      \* epoch of the tick
    seen,           \* the epoch as fetchEpoch returned it
    fees,           \* shares of the snapshot
    db,             \* epoch_snapshots, by epoch
    failures

tickVars == <<pc, currentId, seen, fees>>
vars == <<programVars, tickVars, db, failures>>

Init ==
    /\ ProgramInit
    /\ pc = "idle" /\ currentId = 0 /\ seen = OpenEpoch(0) /\ fees = [s \in {} |-> 0]
    /\ db = [i \in {} |-> 0] /\ failures = 0

SumOf(f) == SumOver(f, DOMAIN f)

\* Mutant: every share is rounded up and the dust is not corrected.
FeeSharesRoundedUp(power, pool) ==
    IF SumOf(power) = 0 THEN {[s \in {} |-> 0]}
    ELSE {[s \in DOMAIN power |-> (power[s] * pool + SumOf(power) - 1) \div SumOf(power)]}

\* The dust goes to the first of the largest shares, in the order of the RPC.
FeeShares(power, pool) ==
    IF SumOf(power) = 0 THEN {[s \in {} |-> 0]}
    ELSE LET share == [s \in DOMAIN power |-> (power[s] * pool) \div SumOf(power)]
             dust == pool - SumOf(share)
         IN  {[share EXCEPT ![m] = @ + dust] :
                 m \in {s \in DOMAIN share : \A t \in DOMAIN share : share[t] <= share[s]}}

-----------------------------------------------------------------------------
\* The end of a tick: nothing of it is kept.
Done == pc' = "idle" /\ currentId' = 0 /\ seen' = OpenEpoch(0) /\ fees' = [s \in {} |-> 0]
Goto(l) == pc' = l /\ UNCHANGED <<currentId, seen, fees>>

TickConfig ==
    /\ pc = "idle"
    /\ ~paused
    /\ pc' = "epoch" /\ currentId' = NextEpochId - 1
    /\ UNCHANGED <<programVars, seen, fees, db, failures>>

\* The branch that the status of the epoch selects.
BranchOf(e) ==
    CASE e.status = "Open" -> "harvest"
      [] e.status = "Splitting" /\ ~e.burnExecuted -> "burn"
      [] e.status = "Splitting" /\ e.burnExecuted -> "snapshot"
      [] OTHER -> "idle"

TickEpoch ==
    /\ pc = "epoch"
    /\ LET e == epoch[currentId]
       IN  IF BranchOf(e) = "idle" THEN Done
           ELSE pc' = BranchOf(e) /\ seen' = e /\ UNCHANGED <<currentId, fees>>
    /\ UNCHANGED <<programVars, db, failures>>

\* After the harvest, whatever came of it: the clock against the epoch that was read.
AfterHarvest ==
    IF now >= seen.started + EpochDuration THEN Goto("process") ELSE Done

TickHarvest ==
    /\ pc = "harvest"
    /\ \/ \E a \in Amounts : HarvestTransferFees(a)
       \/ UNCHANGED programVars     \* nothing withheld, or rejected
    /\ AfterHarvest
    /\ UNCHANGED <<db, failures>>

TickProcess ==
    /\ pc = "process"
    /\ \/ ProcessEpoch(currentId)
       \/ ~CanProcess(currentId) /\ UNCHANGED programVars
    /\ Done
    /\ UNCHANGED <<db, failures>>

TickBurn ==
    /\ pc = "burn"
    /\ \/ ExecuteBurn(currentId)
       \/ ~CanBurn(currentId) /\ UNCHANGED programVars
    /\ Done
    /\ UNCHANGED <<db, failures>>

TickSnapshot ==
    /\ pc = "snapshot"
    /\ \E p \in Powers :
          IF DOMAIN p = {} THEN Done
          ELSE /\ fees' \in FeeShares(p, seen.staker)
               /\ pc' = "commit" /\ UNCHANGED <<currentId, seen>>
    /\ UNCHANGED <<programVars, db, failures>>

TickCommit ==
    /\ pc = "commit"
    /\ \/ CommitDistributionRoot(currentId, fees)
       \/ ~CanCommit(currentId) /\ UNCHANGED programVars
    /\ Goto("save")
    /\ UNCHANGED <<db, failures>>

\* Saved whether the commit landed or not; a later snapshot replaces the row.
TickSave ==
    /\ pc = "save"
    /\ db' = [i \in DOMAIN db \cup {currentId} |-> IF i = currentId THEN fees ELSE db[i]]
    /\ Done
    /\ UNCHANGED <<programVars, failures>>

TickStep == TickConfig \/ TickEpoch \/ TickHarvest \/ TickProcess \/ TickBurn
            \/ TickSnapshot \/ TickCommit \/ TickSave

\* A transaction that does not land is logged, and the tick goes on.
TransactionLost ==
    /\ failures < MaxFailures
    /\ failures' = failures + 1
    /\ \/ pc \in {"process", "burn"} /\ Done
       \/ pc = "commit" /\ Goto("save")
    /\ UNCHANGED <<programVars, db>>

\* Mutant: the flag running is not reset when the tick throws.
TickAbortedRunning ==
    /\ failures < MaxFailures
    /\ failures' = failures + 1
    /\ pc # "idle"
    /\ Goto("running")
    /\ UNCHANGED <<programVars, db>>

\* A failed read or write ends the tick, and so does a crash of the process.
TickAborted ==
    /\ failures < MaxFailures
    /\ failures' = failures + 1
    /\ pc # "idle"
    /\ Done
    /\ UNCHANGED <<programVars, db>>

Others == ProgramNext /\ UNCHANGED <<tickVars, db, failures>>

Next == Others \/ TickConfig \/ TickEpoch \/ TickHarvest \/ TickProcess \/ TickBurn
        \/ TickSnapshot \/ TickCommit \/ TickSave \/ TransactionLost \/ TickAborted

\* The clock runs, and the interval and the event loop run the tick; nobody
\* else has to act.
Spec == Init /\ [][Next]_vars
             /\ WF_vars(Advance /\ UNCHANGED <<tickVars, db, failures>>)
             /\ WF_vars(TickStep)

-----------------------------------------------------------------------------
Closed == {i \in DOMAIN epoch : epoch[i].status # "Open"}
Live == {i \in Closed : epoch[i].status # "Stale"}

\* What the staker vault lacks of the shares that are still owed to stakers of
\* unswept epochs is the fee that the mint withheld when process_epoch filled
\* it: no claim and no sweep takes more than its epoch's part.
StakerVaultShortOnlyByFees ==
    stakerVault + SumOver([i \in DOMAIN epoch |-> TransferFee(epoch[i].staker)], Closed)
        = SumOver([i \in DOMAIN epoch |-> ResidualStaker(i)], Live)

\* When the root on chain is the one whose leaves the proof API serves, what
\* was claimed and what the served leaves still allow make up the staker
\* amount: claim_staker never answers ClaimOverflow to a served leaf, and no
\* dust stays behind.
ServedLeavesFit ==
    \A i \in DOMAIN db :
        epoch[i].status = "DistributionCommitted" /\ epoch[i].root = db[i] =>
            epoch[i].claimed + SumOver(db[i], DOMAIN db[i] \ epoch[i].claims)
                = epoch[i].staker

\* An open epoch whose duration has passed is processed, by the crank if by
\* nobody else, unless the program is paused or its intake vault cannot cover
\* the total.
ElapsedEpochCloses ==
    \A i \in 0..(MaxEpochs - 1) :
        (i \in DOMAIN epoch /\ epoch[i].status = "Open" /\ now >= epoch[i].started + EpochDuration)
            ~> (i \in Closed \/ paused \/ intake < epoch[CurrentEpochId].total)

=============================================================================
