---------------------------- MODULE FeeCollector ----------------------------
(***************************************************************************)
(* The epochs of the fee_collector program: fees enter the intake vault    *)
(* and the open epoch's total, slashes the total only, and their tokens    *)
(* the vault by a transfer of their own; process_epoch closes the epoch    *)
(* and splits the total over the burn vault, the staker vault and the two  *)
(* recipients; execute_burn, commit_distribution_root, claim_staker and,   *)
(* after the claim window and a grace, sweep_stale_epoch follow.           *)
(*                                                                         *)
(* The SAEP mint charges a transfer fee (Token-2022 TransferFee): every    *)
(* transfer takes the whole amount from its source and the destination's   *)
(* balance grows by the amount less the fee, which is withheld there until *)
(* harvest_transfer_fees collects it. Amounts of the two recipients leave  *)
(* the program and are not kept. An instruction is atomic: a transfer that *)
(* its source cannot cover undoes it, so the cover is part of its guard.   *)
(* Signers of registered programs, the merkle proof (a root is the shares  *)
(* its leaves hold) and the confidential harvest, which leaves its tokens  *)
(* at the mint, are left out.                                              *)
(***************************************************************************)
EXTENDS Integers, FiniteSets, Sums

CONSTANTS
    Stakers,
    Roots,              \* bound: distributions the authority may commit
    Amounts,            \* bound: amounts of a harvest, a report or a transfer
    MaxIntakes,         \* bound: number of harvests, reports and transfers
    MaxEpochs,          \* bound: the last epoch that opens
    MaxTime,            \* bound: the clock
    MaxAdminOps,        \* bound: number of set_paused and set_distribution_params
    Shares,             \* bound: bps quadruples that set_distribution_params tries
    InitialShares,
    Caps,               \* the caps of init_config
    EpochDuration, ClaimWindow, MinTotalForBurn,     \* FeeCollectorConfig
    DistributionWindow, SweepGrace,                  \* DISTRIBUTION_WINDOW_SECS, SWEEP_GRACE_SECS
    TransferFeeBps      \* of the SAEP mint

BpsDenominator == 10000
Buckets == {"burn", "staker", "grant", "treasury"}

\* A distribution: the amounts that its leaves hold, by staker.
Leaves(f) == DOMAIN f \subseteq Stakers /\ f \in [DOMAIN f -> Nat]

ASSUME FeeAssumption ==
    /\ {EpochDuration, ClaimWindow, DistributionWindow, SweepGrace, TransferFeeBps} \subseteq Nat
    /\ TransferFeeBps <= BpsDenominator
    /\ IsFiniteSet(Stakers)
    /\ \A r \in Roots : Leaves(r)
    /\ Amounts \subseteq Nat
    /\ Shares \subseteq [Buckets -> Nat]
    /\ InitialShares \in [Buckets -> Nat]

VARIABLES
    now,
    paused,
    shares,         \* bps of each bucket
    epoch,          \* the epoch accounts, by id from 0
    intake, burnVault, stakerVault,     \* balances
    intakes, adminOps

configVars == <<paused, shares, adminOps>>
vaultVars == <<intake, burnVault, stakerVault>>
programVars == <<now, configVars, epoch, vaultVars, intakes>>

\* next_epoch_id: process_epoch raises it with every epoch account it creates.
NextEpochId == Cardinality(DOMAIN epoch)
CurrentEpochId == NextEpochId - 1

OpenEpoch(started) ==
    [status |-> "Open", started |-> started, closed |-> 0, total |-> 0, burn |-> 0,
     staker |-> 0, burnExecuted |-> FALSE, root |-> [s \in {} |-> 0], claims |-> {}, claimed |-> 0]

ProgramInit ==
    /\ now = 0 /\ paused = FALSE /\ shares = InitialShares
    /\ epoch = [i \in {0} |-> OpenEpoch(0)]
    /\ intake = 0 /\ burnVault = 0 /\ stakerVault = 0
    /\ intakes = 0 /\ adminOps = 0

-----------------------------------------------------------------------------
\* The fee that the mint withholds, rounded up.
TransferFee(amount) ==
    (amount * TransferFeeBps + BpsDenominator - 1) \div BpsDenominator
Received(amount) == amount - TransferFee(amount)

\* What the dust leaves is in the treasury's part, total less the other three.
BpsSplit(total) == [b \in {"burn", "staker", "grant"} |-> (total * shares[b]) \div BpsDenominator]

\* The amount is counted in the current epoch.
Counted(amount) ==
    /\ intakes < MaxIntakes
    /\ intakes' = intakes + 1
    /\ epoch[CurrentEpochId].status = "Open"
    /\ epoch' = [epoch EXCEPT ![CurrentEpochId].total = @ + amount]
    /\ UNCHANGED <<now, configVars, burnVault, stakerVault>>

\* Withheld fees of holders are withdrawn from the mint, which charges no fee.
HarvestTransferFees(amount) ==
    /\ ~paused
    /\ Counted(amount)
    /\ intake' = intake + amount

\* A registered program reports a slash or a forfeit; no tokens move.
RecordIntake(amount) == Counted(amount) /\ UNCHANGED intake

\* Anyone, the reporting program included, transfers tokens to the intake vault.
PayIn(amount) ==
    /\ intakes < MaxIntakes
    /\ intakes' = intakes + 1
    /\ intake' = intake + Received(amount)
    /\ UNCHANGED <<now, configVars, epoch, burnVault, stakerVault>>

CanProcess(i) ==
    /\ ~paused
    /\ epoch[i].status = "Open"
    /\ now >= epoch[i].started + EpochDuration
    /\ intake >= epoch[i].total
    /\ NextEpochId <= MaxEpochs

ProcessEpoch(i) ==
    LET split == BpsSplit(epoch[i].total)
        closed == [epoch[i] EXCEPT !.status = "Splitting", !.closed = now,
                                   !.burn = split["burn"], !.staker = split["staker"]]
    IN  /\ CanProcess(i)
        /\ epoch' = [j \in DOMAIN epoch \cup {NextEpochId} |->
                        IF j = NextEpochId THEN OpenEpoch(now)
                        ELSE IF j = i THEN closed ELSE epoch[j]]
        /\ intake' = intake - epoch[i].total
        /\ burnVault' = burnVault + Received(split["burn"])
        /\ stakerVault' = stakerVault + Received(split["staker"])
        /\ UNCHANGED <<now, configVars, intakes>>

CanBurn(i) ==
    /\ epoch[i].status \in {"Splitting", "DistributionCommitted", "Stale"}
    /\ ~epoch[i].burnExecuted
    /\ epoch[i].total >= MinTotalForBurn
    /\ burnVault >= epoch[i].burn

ExecuteBurn(i) ==
    /\ CanBurn(i)
    /\ epoch' = [epoch EXCEPT ![i].burnExecuted = TRUE]
    /\ burnVault' = burnVault - epoch[i].burn
    /\ UNCHANGED <<now, configVars, intake, stakerVault, intakes>>

CanCommit(i) ==
    /\ epoch[i].status = "Splitting"
    /\ now < epoch[i].closed + DistributionWindow

CommitDistributionRoot(i, root) ==
    /\ CanCommit(i)
    /\ epoch' = [epoch EXCEPT ![i].status = "DistributionCommitted", ![i].root = root]
    /\ UNCHANGED <<now, configVars, vaultVars, intakes>>

\* Mutant: the claim is paid and not counted in staker_claimed_total.
ClaimStakerUncounted(i, s) ==
    /\ epoch[i].status = "DistributionCommitted"
    /\ now < epoch[i].closed + ClaimWindow
    /\ s \in DOMAIN epoch[i].root \ epoch[i].claims
    /\ epoch[i].claimed + epoch[i].root[s] <= epoch[i].staker
    /\ stakerVault >= epoch[i].root[s]
    /\ epoch' = [epoch EXCEPT ![i].claims = @ \cup {s}]
    /\ stakerVault' = stakerVault - epoch[i].root[s]
    /\ UNCHANGED <<now, configVars, intake, burnVault, intakes>>

\* The claim account of a staker is created once; the leaf's amount is paid whole.
ClaimStaker(i, s) ==
    /\ epoch[i].status = "DistributionCommitted"
    /\ now < epoch[i].closed + ClaimWindow
    /\ s \in DOMAIN epoch[i].root \ epoch[i].claims
    /\ epoch[i].claimed + epoch[i].root[s] <= epoch[i].staker
    /\ stakerVault >= epoch[i].root[s]
    /\ epoch' = [epoch EXCEPT ![i].claims = @ \cup {s}, ![i].claimed = @ + epoch[i].root[s]]
    /\ stakerVault' = stakerVault - epoch[i].root[s]
    /\ UNCHANGED <<now, configVars, intake, burnVault, intakes>>

ResidualStaker(i) == epoch[i].staker - epoch[i].claimed
ResidualBurn(i) == IF epoch[i].burnExecuted THEN 0 ELSE epoch[i].burn

\* The residuals go back to the intake vault, and to the total of the next
\* epoch whatever its status.
SweepStaleEpoch(i) ==
    /\ epoch[i].status \in {"Splitting", "DistributionCommitted"}
    /\ now >= epoch[i].closed + ClaimWindow + SweepGrace
    /\ stakerVault >= ResidualStaker(i)
    /\ burnVault >= ResidualBurn(i)
    /\ epoch' = [epoch EXCEPT ![i].status = "Stale",
                              ![i + 1].total = @ + ResidualStaker(i) + ResidualBurn(i)]
    /\ stakerVault' = stakerVault - ResidualStaker(i)
    /\ burnVault' = burnVault - ResidualBurn(i)
    /\ intake' = intake + Received(ResidualStaker(i)) + Received(ResidualBurn(i))
    /\ UNCHANGED <<now, configVars, intakes>>

AdminOp == adminOps < MaxAdminOps /\ adminOps' = adminOps + 1

SetDistributionParams(p) ==
    /\ AdminOp
    /\ SumOver(p, Buckets) = BpsDenominator
    /\ \A b \in Buckets : p[b] <= Caps[b]
    /\ shares' = p
    /\ UNCHANGED <<now, paused, epoch, vaultVars, intakes>>

SetPaused(p) ==
    /\ AdminOp
    /\ paused' = p
    /\ UNCHANGED <<now, shares, epoch, vaultVars, intakes>>

Advance ==
    /\ now < MaxTime
    /\ now' = now + 1
    /\ UNCHANGED <<configVars, epoch, vaultVars, intakes>>

\* What anyone, the authority and the registered programs do.
ProgramNext ==
    \/ \E a \in Amounts : HarvestTransferFees(a) \/ RecordIntake(a) \/ PayIn(a)
    \/ \E i \in DOMAIN epoch :
          \/ ProcessEpoch(i)
          \/ ExecuteBurn(i)
          \/ \E r \in Roots : CommitDistributionRoot(i, r)
          \/ \E s \in Stakers : ClaimStaker(i, s)
          \/ SweepStaleEpoch(i)
    \/ \E p \in Shares : SetDistributionParams(p)
    \/ \E p \in BOOLEAN : SetPaused(p)
    \/ Advance

=============================================================================
