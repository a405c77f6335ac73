------------------------- MODULE DisputeArbitration -------------------------
(***************************************************************************)
(* The dispute_arbitration program: the arbitrator registry, the stake     *)
(* pool, the two rounds of commit-reveal voting on a case, appeals, and    *)
(* slashing under a timelock. Every instruction is one action. Stakes and  *)
(* lock times are what the caller claims, as in the code, which does not   *)
(* read nxs_staking yet; no instruction moves tokens or calls another      *)
(* program.                                                                *)
(***************************************************************************)
EXTENDS ArbitratorSelection, FiniteSets, Sums

CONSTANTS
    Arbitrators,        \* operator keys that may register
    Parties,            \* keys that sign or are named as a party of a case
    PartyChoices,       \* pairs <<client, operator>> for raise_dispute
    MaxCases,           \* bound: cases raised
    ROUND1_SIZE, ROUND2_SIZE,   \* round1_size and round2_size
    ROUND2_WINDOW_SECS,
    MAX_POOL_SIZE,
    Params,             \* parameter records set_params may install
    InitParams,         \* the ones initialize installs
    StakeClaims,        \* stakes register_arbitrator and refresh_stake may claim
    LockClaims,         \* lock lengths register_arbitrator may claim
    PoolChoices,        \* lists of members [arb, stake] for snapshot_pool
    PauseChoices,       \* inputs of set_paused
    MaxSlashes,         \* bound: slash_arbitrator calls
    MaxTime             \* bound: the clock stops here

BPS_DENOMINATOR == 10000
MAX_STRIKES == 255      \* bad_faith_strikes is a u8 that saturates

None == "None"
Verdicts == {"AgentWins", "ClientWins", "Split"}
Cases == 0..(MaxCases - 1)
Rounds == {1, 2}

VARIABLES
    params,     \* the governed fields of DisputeConfig
    paused,     \* DisputeConfig.paused
    nextCase,   \* DisputeConfig.next_case_id
    arb,        \* ArbitratorAccount, with status "Absent" for no account
    pool,       \* DisputePool
    dc,         \* DisputeCase, with status "Absent" for no account
    vote,       \* DisputeVoteRecord, by case, round and arbitrator
    appeal,     \* the appellant of a case's AppealRecord, or None
    pending,    \* PendingSlash, by arbitrator
    slashes,    \* slash_arbitrator calls so far, counted for the bound only
    now         \* the cluster clock

vars == <<params, paused, nextCase, arb, pool, dc, vote, appeal, pending,
          slashes, now>>

-----------------------------------------------------------------------------
(* Account types *)

ParamRecord ==
    [commitWindow : Int, revealWindow : Int, appealWindow : Int,
     appealCollateralBps : Nat, maxSlashBps : Nat, slashTimelock : Int,
     minStake : Nat, minLock : Int, badFaithThreshold : Nat]

ArbitratorStatus == {"Active", "Paused", "Slashed", "Withdrawing"}

ArbitratorAccount ==
    [status : ArbitratorStatus \cup {"Absent"}, stake : Nat, strikes : Nat,
     unlock : Nat]

DisputePool == [arbs : Seq(Arbitrators), cum : Seq(Nat)]

DisputeStatus == {"RequestedVrf", "SelectionReady", "Committing", "Revealing",
                  "Tallied", "Appealed", "Resolved", "Cancelled"}

DisputeCase ==
    [status : DisputeStatus \cup {"Absent"}, round : Rounds,
     client : Parties \cup {None}, operator : Parties \cup {None},
     arbs : SUBSET Arbitrators, commitDeadline : Int, revealDeadline : Int,
     verdict : Verdicts \cup {None}, votes : [Verdicts -> Nat], total : Nat,
     createdAt : Nat]

\* The salted hash binds the verdict and hides it, so the committed verdict
\* itself stands for it.
DisputeVoteRecord ==
    [live : BOOLEAN, commit : Verdicts \cup {None}, revealed : BOOLEAN,
     weight : Nat]

PendingSlash == [live : BOOLEAN, case : Nat, amount : Nat, executableAt : Int]

ASSUME DisputeAssumption ==
    /\ IsFiniteSet(Arbitrators)
    /\ None \notin Parties
    /\ PartyChoices \subseteq Parties \X Parties
    /\ MaxCases \in Nat
    /\ ROUND1_SIZE \in Nat \ {0}
    /\ ROUND2_SIZE \in Nat \ {0}
    /\ ROUND2_WINDOW_SECS \in Nat
    /\ MAX_POOL_SIZE \in Nat
    /\ Params \subseteq ParamRecord
    /\ InitParams \in ParamRecord
    /\ StakeClaims \subseteq Nat
    /\ LockClaims \subseteq Int
    /\ PoolChoices \subseteq Seq([arb : Arbitrators, stake : Nat])
    /\ PauseChoices \subseteq BOOLEAN
    /\ MaxSlashes \in Nat
    /\ MaxTime \in Nat

NoArbitrator == [status |-> "Absent", stake |-> 0, strikes |-> 0, unlock |-> 0]
NoVotes == [v \in Verdicts |-> 0]
NoCase == [status |-> "Absent", round |-> 1, client |-> None, operator |-> None,
           arbs |-> {}, commitDeadline |-> 0, revealDeadline |-> 0,
           verdict |-> None, votes |-> NoVotes, total |-> 0, createdAt |-> 0]
NoVote == [live |-> FALSE, commit |-> None, revealed |-> FALSE, weight |-> 0]
NoSlash == [live |-> FALSE, case |-> 0, amount |-> 0, executableAt |-> 0]

\* initialize, and nothing has been raised or slashed yet.
NothingRaised ==
    /\ params = InitParams
    /\ paused = FALSE
    /\ nextCase = 0
    /\ dc = [c \in Cases |-> NoCase]
    /\ vote = [c \in Cases |-> [r \in Rounds |-> [a \in Arbitrators |-> NoVote]]]
    /\ appeal = [c \in Cases |-> None]
    /\ pending = [a \in Arbitrators |-> NoSlash]
    /\ slashes = 0
    /\ now = 0

Init ==
    /\ NothingRaised
    /\ arb = [a \in Arbitrators |-> NoArbitrator]
    /\ pool = [arbs |-> <<>>, cum |-> <<>>]

-----------------------------------------------------------------------------
(* Arbitrators *)

UnchangedByRegistry ==
    UNCHANGED <<params, paused, nextCase, pool, dc, vote, appeal, pending,
                slashes, now>>

\* register_arbitrator
RegisterArbitrator(a, stake, lockSecs) ==
    /\ arb[a].status = "Absent"
    /\ ~paused
    /\ stake >= params.minStake
    /\ lockSecs >= params.minLock
    /\ arb' = [arb EXCEPT ![a] = [NoArbitrator EXCEPT !.status = "Active",
                                                      !.stake = stake]]
    /\ UnchangedByRegistry

\* refresh_stake: too little stake pauses the arbitrator, whatever its status;
\* enough stake does not make it Active again.
RefreshStake(a, stake) ==
    /\ arb[a].status # "Absent"
    /\ arb' = [arb EXCEPT ![a].stake = stake,
                          ![a].status = IF stake < params.minStake THEN "Paused"
                                                                   ELSE @]
    /\ UnchangedByRegistry

\* begin_withdraw
BeginWithdraw(a) ==
    /\ arb[a].status \in {"Active", "Paused"}
    /\ arb' = [arb EXCEPT ![a].status = "Withdrawing",
                          ![a].unlock = now + ROUND2_WINDOW_SECS]
    /\ UnchangedByRegistry

\* complete_withdraw closes the account, also under a pending slash.
CompleteWithdraw(a) ==
    /\ arb[a].status = "Withdrawing"
    /\ now >= arb[a].unlock
    /\ arb' = [arb EXCEPT ![a] = NoArbitrator]
    /\ UnchangedByRegistry

\* snapshot_pool, signed by the authority, takes members and stakes as given.
SnapshotPool(members) ==
    /\ Len(members) <= MAX_POOL_SIZE
    /\ pool' = [arbs |-> [i \in 1..Len(members) |-> members[i].arb],
                cum |-> CumulativeStakes([i \in 1..Len(members) |-> members[i].stake])]
    /\ UNCHANGED <<params, paused, nextCase, arb, dc, vote, appeal, pending,
                   slashes, now>>

-----------------------------------------------------------------------------
(* Cases *)

UnchangedByCase ==
    UNCHANGED <<params, paused, arb, pool, pending, slashes, now>>

\* raise_dispute: anyone, for any parties.
RaiseDispute(c, client, operator) ==
    /\ c = nextCase
    /\ ~paused
    /\ Len(pool.arbs) >= ROUND1_SIZE
    /\ dc' = [dc EXCEPT ![c] = [NoCase EXCEPT !.status = "RequestedVrf",
                                              !.client = client,
                                              !.operator = operator,
                                              !.createdAt = now]]
    /\ nextCase' = nextCase + 1
    /\ UNCHANGED <<vote, appeal>>
    /\ UnchangedByCase

RoundSize(c) == IF dc[c].round = 1 THEN ROUND1_SIZE ELSE ROUND2_SIZE

\* Fault: the second round starts with the votes of the first.
ConsumeVrfKeepVotes(c) ==
    /\ dc[c].status \in {"RequestedVrf", "Appealed"}
    /\ Len(pool.arbs) >= RoundSize(c)
    /\ \E sel \in Selections(pool.cum, RoundSize(c)) :
          /\ \A i, j \in DOMAIN sel : pool.arbs[sel[i]] = pool.arbs[sel[j]] => i = j
          /\ dc' = [dc EXCEPT ![c].status = "Committing",
                              ![c].arbs = {pool.arbs[sel[i]] : i \in DOMAIN sel},
                              ![c].commitDeadline = now + params.commitWindow,
                              ![c].revealDeadline = now + params.commitWindow
                                                        + params.revealWindow]
    /\ UNCHANGED <<nextCase, vote, appeal>>
    /\ UnchangedByCase

\* consume_vrf, signed by the authority: draws the round's arbitrators from the
\* pool as it is now and opens the commit window with a clean tally.
ConsumeVrf(c) ==
    /\ dc[c].status \in {"RequestedVrf", "Appealed"}
    /\ Len(pool.arbs) >= RoundSize(c)
    /\ \E sel \in Selections(pool.cum, RoundSize(c)) :
          /\ \A i, j \in DOMAIN sel : pool.arbs[sel[i]] = pool.arbs[sel[j]] => i = j
          /\ dc' = [dc EXCEPT ![c].status = "Committing",
                              ![c].arbs = {pool.arbs[sel[i]] : i \in DOMAIN sel},
                              ![c].commitDeadline = now + params.commitWindow,
                              ![c].revealDeadline = now + params.commitWindow
                                                        + params.revealWindow,
                              ![c].votes = NoVotes,
                              ![c].total = 0,
                              ![c].verdict = None]
    /\ UNCHANGED <<nextCase, vote, appeal>>
    /\ UnchangedByCase

\* cancel_stale_vrf, permissionless: a case whose first draw never came.
CancelStaleVrf(c) ==
    /\ dc[c].status = "RequestedVrf"
    /\ now > dc[c].createdAt + params.commitWindow
    /\ dc' = [dc EXCEPT ![c].status = "Cancelled"]
    /\ UNCHANGED <<nextCase, vote, appeal>>
    /\ UnchangedByCase

\* Fault: any registered arbitrator may vote.
CommitVoteAnyone(c, a, v) ==
    /\ ~paused
    /\ dc[c].status = "Committing"
    /\ now <= dc[c].commitDeadline
    /\ arb[a].status # "Absent"
    /\ ~vote[c][dc[c].round][a].live
    /\ vote' = [vote EXCEPT ![c][dc[c].round][a] =
                   [NoVote EXCEPT !.live = TRUE, !.commit = v]]
    /\ UNCHANGED <<nextCase, dc, appeal>>
    /\ UnchangedByCase

\* commit_vote. The record's address contains the round, so an arbitrator
\* commits once per round; its status does not matter.
CommitVote(c, a, v) ==
    /\ ~paused
    /\ dc[c].status = "Committing"
    /\ now <= dc[c].commitDeadline
    /\ a \in dc[c].arbs
    /\ arb[a].status # "Absent"
    /\ ~vote[c][dc[c].round][a].live
    /\ vote' = [vote EXCEPT ![c][dc[c].round][a] =
                   [NoVote EXCEPT !.live = TRUE, !.commit = v]]
    /\ UNCHANGED <<nextCase, dc, appeal>>
    /\ UnchangedByCase

\* reveal_vote: the vote weighs what the arbitrator's stake is now.
RevealVote(c, a) ==
    LET rec == vote[c][dc[c].round][a] IN
    /\ dc[c].status \in {"Committing", "Revealing"}
    /\ now > dc[c].commitDeadline
    /\ now <= dc[c].revealDeadline
    /\ rec.live
    /\ arb[a].status # "Absent"
    /\ ~rec.revealed
    /\ vote' = [vote EXCEPT ![c][dc[c].round][a].revealed = TRUE,
                            ![c][dc[c].round][a].weight = arb[a].stake]
    /\ dc' = [dc EXCEPT ![c].status = "Revealing",
                        ![c].votes[rec.commit] = @ + arb[a].stake,
                        ![c].total = @ + arb[a].stake]
    /\ UNCHANGED <<nextCase, appeal>>
    /\ UnchangedByCase

\* Fault: half of the weight is enough.
WinnersHalf(c) ==
    {v \in Verdicts : dc[c].total > 0 /\ dc[c].votes[v] >= dc[c].total \div 2}

\* The verdicts above half of the revealed weight; at most one.
Winners(c) == {v \in Verdicts : dc[c].votes[v] > dc[c].total \div 2}

\* Fault: a round without a majority cannot be tallied.
TallyRoundMajorityOnly(c) ==
    /\ dc[c].status = "Revealing"
    /\ now > dc[c].revealDeadline
    /\ \E v \in Winners(c) :
          dc' = [dc EXCEPT ![c].verdict = v, ![c].status = "Tallied"]
    /\ UNCHANGED <<nextCase, vote, appeal>>
    /\ UnchangedByCase

\* tally_round, permissionless. Without a majority the first round leads to a
\* second one, and the second ends without a verdict.
TallyRound(c) ==
    /\ dc[c].status = "Revealing"
    /\ now > dc[c].revealDeadline
    /\ \/ \E v \in Winners(c) :
             dc' = [dc EXCEPT ![c].verdict = v, ![c].status = "Tallied"]
       \/ /\ Winners(c) = {}
          /\ dc[c].round = 1
          /\ dc' = [dc EXCEPT ![c].round = 2, ![c].status = "Appealed"]
       \/ /\ Winners(c) = {}
          /\ dc[c].round = 2
          /\ dc' = [dc EXCEPT ![c].verdict = None, ![c].status = "Tallied"]
    /\ UNCHANGED <<nextCase, vote, appeal>>
    /\ UnchangedByCase

AppealDeadline(c) == dc[c].revealDeadline + params.appealWindow

Loser(c, p) == \/ dc[c].verdict = "AgentWins" /\ p = dc[c].client
               \/ dc[c].verdict = "ClientWins" /\ p = dc[c].operator

\* Fault: both parties may appeal.
EscalateAppealEither(c, p) ==
    /\ ~paused
    /\ dc[c].status = "Tallied"
    /\ dc[c].round = 1
    /\ now <= AppealDeadline(c)
    /\ p \in {dc[c].client, dc[c].operator}
    /\ appeal[c] = None
    /\ appeal' = [appeal EXCEPT ![c] = p]
    /\ dc' = [dc EXCEPT ![c].status = "Appealed", ![c].round = 2]
    /\ UNCHANGED <<nextCase, vote>>
    /\ UnchangedByCase

\* Fault: the losing party may appeal the second round too.
EscalateAppealAnyRound(c, p) ==
    /\ ~paused
    /\ dc[c].status = "Tallied"
    /\ now <= AppealDeadline(c)
    /\ Loser(c, p)
    /\ appeal' = [appeal EXCEPT ![c] = p]
    /\ dc' = [dc EXCEPT ![c].status = "Appealed", ![c].round = 2]
    /\ UNCHANGED <<nextCase, vote>>
    /\ UnchangedByCase

\* escalate_appeal, signed by the losing party; nobody lost a Split. The collateral is computed and
\* recorded but not collected.
EscalateAppeal(c, p) ==
    /\ ~paused
    /\ dc[c].status = "Tallied"
    /\ dc[c].round = 1
    /\ now <= AppealDeadline(c)
    /\ Loser(c, p)
    /\ appeal[c] = None
    /\ appeal' = [appeal EXCEPT ![c] = p]
    /\ dc' = [dc EXCEPT ![c].status = "Appealed", ![c].round = 2]
    /\ UNCHANGED <<nextCase, vote>>
    /\ UnchangedByCase

\* resolve_dispute, permissionless: after the appeal window of a first round,
\* at once after a second one, with whatever verdict there is.
ResolveDispute(c) ==
    /\ dc[c].status = "Tallied"
    /\ dc[c].round = 1 => now > AppealDeadline(c)
    /\ dc' = [dc EXCEPT ![c].status = "Resolved"]
    /\ UNCHANGED <<nextCase, vote, appeal>>
    /\ UnchangedByCase

-----------------------------------------------------------------------------
(* Slashing *)

UnchangedBySlash ==
    UNCHANGED <<params, paused, nextCase, pool, dc, vote, appeal, now>>

SlashAmount(a) ==
    LET share == (arb[a].stake * params.maxSlashBps) \div BPS_DENOMINATOR
    IN  IF share < arb[a].stake THEN share ELSE arb[a].stake

\* Fault: the status is left as it is.
SlashArbitratorKeepStatus(a, c) ==
    /\ slashes < MaxSlashes
    /\ dc[c].status = "Resolved"
    /\ arb[a].status # "Absent"
    /\ ~pending[a].live
    /\ pending' = [pending EXCEPT ![a] =
                      [live |-> TRUE, case |-> c, amount |-> SlashAmount(a),
                       executableAt |-> now + params.slashTimelock]]
    /\ arb' = [arb EXCEPT ![a].strikes = IF @ < MAX_STRIKES THEN @ + 1 ELSE @]
    /\ slashes' = slashes + 1
    /\ UnchangedBySlash

\* slash_arbitrator, signed by the authority, for any resolved case and any
\* registered arbitrator.
SlashArbitrator(a, c) ==
    /\ slashes < MaxSlashes
    /\ dc[c].status = "Resolved"
    /\ arb[a].status # "Absent"
    /\ ~pending[a].live
    /\ pending' = [pending EXCEPT ![a] =
                      [live |-> TRUE, case |-> c, amount |-> SlashAmount(a),
                       executableAt |-> now + params.slashTimelock]]
    /\ arb' = [arb EXCEPT ![a].status = "Paused",
                          ![a].strikes = IF @ < MAX_STRIKES THEN @ + 1 ELSE @]
    /\ slashes' = slashes + 1
    /\ UnchangedBySlash

\* execute_slash, permissionless after the timelock; the account must exist.
ExecuteSlash(a) ==
    /\ pending[a].live
    /\ arb[a].status # "Absent"
    /\ now >= pending[a].executableAt
    /\ arb' = [arb EXCEPT ![a].status =
                  IF arb[a].strikes >= params.badFaithThreshold THEN "Slashed" ELSE "Active"]
    /\ pending' = [pending EXCEPT ![a] = NoSlash]
    /\ slashes' = slashes
    /\ UnchangedBySlash

\* cancel_slash, signed by the authority before the timelock is over.
CancelSlash(a) ==
    /\ pending[a].live
    /\ arb[a].status # "Absent"
    /\ now < pending[a].executableAt
    /\ arb' = [arb EXCEPT ![a].status = "Active",
                          ![a].strikes = IF @ > 0 THEN @ - 1 ELSE 0]
    /\ pending' = [pending EXCEPT ![a] = NoSlash]
    /\ slashes' = slashes
    /\ UnchangedBySlash

-----------------------------------------------------------------------------
(* Governance and the clock *)

\* set_params: what is given replaces the old value, and only a rate that is given
\* is compared with its limit. initialize sets the collateral rate above it. The
\* windows may be any i64.
SetParams(p) ==
    /\ p.appealCollateralBps \in {params.appealCollateralBps} \cup 0..BPS_DENOMINATOR
    /\ p.maxSlashBps \in {params.maxSlashBps} \cup 0..BPS_DENOMINATOR
    /\ params' = p
    /\ UNCHANGED <<paused, nextCase, arb, pool, dc, vote, appeal, pending,
                   slashes, now>>

\* set_paused, by the authority or the emergency council.
SetPaused(v) ==
    /\ paused' = v
    /\ UNCHANGED <<params, nextCase, arb, pool, dc, vote, appeal, pending,
                   slashes, now>>

\* The clock stops at the bound MaxTime.
Tick ==
    /\ now' = IF now < MaxTime THEN now + 1 ELSE now
    /\ UNCHANGED <<params, paused, nextCase, arb, pool, dc, vote, appeal,
                   pending, slashes>>

-----------------------------------------------------------------------------
(* Next-state relation *)

ArbitratorStep(a) ==
    \/ \E s \in StakeClaims, l \in LockClaims : RegisterArbitrator(a, s, l)
    \/ \E s \in StakeClaims : RefreshStake(a, s)
    \/ BeginWithdraw(a)
    \/ CompleteWithdraw(a)

CaseStep(c) ==
    \/ \E p \in PartyChoices : RaiseDispute(c, p[1], p[2])
    \/ ConsumeVrf(c)
    \/ CancelStaleVrf(c)
    \/ \E a \in Arbitrators, v \in Verdicts : CommitVote(c, a, v)
    \/ \E a \in Arbitrators : RevealVote(c, a)
    \/ TallyRound(c)
    \/ \E p \in Parties : EscalateAppeal(c, p)
    \/ ResolveDispute(c)

SlashStep(a) ==
    \/ \E c \in Cases : SlashArbitrator(a, c)
    \/ ExecuteSlash(a)
    \/ CancelSlash(a)

GovernanceStep ==
    \/ \E members \in PoolChoices : SnapshotPool(members)
    \/ \E p \in Params : SetParams(p)
    \/ \E v \in PauseChoices : SetPaused(v)

Next ==
    \/ \E a \in Arbitrators : ArbitratorStep(a) \/ SlashStep(a)
    \/ \E c \in Cases : CaseStep(c)
    \/ GovernanceStep
    \/ Tick

Spec == Init /\ [][Next]_vars

-----------------------------------------------------------------------------
(* Safety *)

TypeOK ==
    /\ params \in ParamRecord
    /\ paused \in BOOLEAN
    /\ nextCase \in Nat
    /\ arb \in [Arbitrators -> ArbitratorAccount]
    /\ pool \in DisputePool
    /\ dc \in [Cases -> DisputeCase]
    /\ vote \in [Cases -> [Rounds -> [Arbitrators -> DisputeVoteRecord]]]
    /\ appeal \in [Cases -> Parties \cup {None}]
    /\ pending \in [Arbitrators -> PendingSlash]
    /\ slashes \in Nat
    /\ now \in Nat

Heard == {"Committing", "Revealing", "Tallied", "Resolved"}

\* The three tallies make up the whole revealed weight, and a case that is
\* tallied or resolved with a verdict has a strict majority of it behind that
\* verdict, in the round that counts, although reveals, the reset for the
\* second round and appeals all write these fields.
VerdictHasMajority ==
    \A c \in Cases :
        LET d == dc[c] IN
        /\ d.total = d.votes["AgentWins"] + d.votes["ClientWins"] + d.votes["Split"]
        /\ (d.status \in {"Tallied", "Resolved"} /\ d.verdict # None)
              => 2 * d.votes[d.verdict] > d.total

\* Every vote of the current round was cast by an arbitrator drawn for this
\* round, and a round that waits for its draw has none: re-registering,
\* a new pool or an appeal never lets an outsider's vote in.
VotesFromBench ==
    \A c \in Cases, a \in Arbitrators :
        vote[c][dc[c].round][a].live
            => dc[c].status \in Heard /\ a \in dc[c].arbs

\* The arbitrators who revealed a vote for v in round r, what their votes weigh,
\* and the sum of the weights.
RevealedFor(c, r, v) ==
    {a \in Arbitrators : vote[c][r][a].revealed /\ vote[c][r][a].commit = v}
Weights(c, r) == [a \in Arbitrators |-> vote[c][r][a].weight]
Weight(c, r, v) == SumOver(Weights(c, r), RevealedFor(c, r, v))

\* The tallies of a case are the sums over the vote records of its current
\* round: nothing is counted twice, lost, or carried over from the first round,
\* although stakes change, arbitrators leave and come back and the second round
\* reuses the account.
TallyMatchesVotes ==
    \A c \in Cases : dc[c].status \in Heard =>
        \A v \in Verdicts : dc[c].votes[v] = Weight(c, dc[c].round, v)

LosingParty(c, v) == IF v = "AgentWins" THEN dc[c].client ELSE dc[c].operator

\* Only who lost the first round ever appeals, and for good reason: as long as
\* the appeal is on record, the ballots of the first round show a strict majority
\* against the appellant, whatever the second round does to the case. A Split
\* verdict is appealed by nobody, and a first round is never left without a
\* verdict.
AppealHasGround ==
    \A c \in Cases :
        /\ (dc[c].status = "Tallied" /\ dc[c].round = 1) => dc[c].verdict # None
        /\ appeal[c] # None =>
              /\ dc[c].round = 2
              /\ \E v \in {"AgentWins", "ClientWins"} :
                    /\ appeal[c] = LosingParty(c, v)
                    /\ 2 * Weight(c, 1, v) > Weight(c, 1, "AgentWins")
                                              + Weight(c, 1, "ClientWins")
                                              + Weight(c, 1, "Split")

\* A barred arbitrator gets rid of the status Slashed in two ways only: it claims
\* too little stake, which writes Paused over it, or the authority slashes it once
\* more. No slash that is still pending, cancelled or executed late, and no
\* withdrawal lifts a bar.
BarsHold ==
    [][\A a \in Arbitrators :
          (arb[a].status = "Slashed" /\ arb'[a].status # "Slashed") =>
              /\ arb'[a].status = "Paused"
              /\ \/ arb'[a].stake < params.minStake
                 \/ pending'[a].live /\ ~pending[a].live]_vars

-----------------------------------------------------------------------------
(* Refinement of DisputeOutcome *)

PhaseOf(status) ==
    CASE status = "Absent" -> "None"
      [] status \in {"RequestedVrf", "Committing", "Revealing", "Appealed"} -> "Hearing"
      [] status = "Tallied" -> "Decided"
      [] status \in {"Resolved", "Cancelled"} -> "Closed"

\* An appealed case still carries the verdict of its first round until the
\* second draw clears it; it counts only while the case is tallied or resolved.
Outcome == INSTANCE DisputeOutcome WITH
    NoVerdict <- None,
    phase <- [c \in Cases |-> PhaseOf(dc[c].status)],
    hearing <- [c \in Cases |-> dc[c].round],
    verdict <- [c \in Cases |-> IF dc[c].status \in {"Tallied", "Resolved"}
                                THEN dc[c].verdict ELSE None]

\* The program implements DisputeOutcome: no order of draws, votes, tallies and
\* appeals hears a case three times, decides one round twice or changes a
\* verdict that was resolved.
ImplementsOutcome == Outcome!Spec
=============================================================================
