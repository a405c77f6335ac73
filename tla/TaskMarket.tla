----------------------------- MODULE TaskMarket -----------------------------
(***************************************************************************)
(* The task_market program: task escrow, the task lifecycle and the        *)
(* commit-reveal bidding that can replace the client's declared agent.     *)
(* Every instruction is one action, because a Solana transaction is        *)
(* atomic: an instruction that returns an error leaves no trace.           *)
(* Amounts are token base units of the one payment mint that is modelled.  *)
(* It may withhold a transfer fee, which allow_payment_mint accepts when   *)
(* governance sets it: then an account receives less than was sent. Times  *)
(* are abstract seconds, and an agent stands for its account key and its   *)
(* DID, which determine each other.                                        *)
(***************************************************************************)
EXTENDS Integers, FiniteSets

CONSTANTS
    Tasks,              \* task PDAs, one per (client, task_nonce)
    Agents,             \* agent accounts of agent_registry
    Operators,          \* operator wallets: they bid and are paid
    OperatorOf,         \* [Agents -> Operators], fixed by the agent PDA's seeds
    KeyRank,            \* [Agents -> Nat], the byte order of the account keys
    Client, FeeCollector, SolrepPool,   \* the other token owners
    SlashTargets,       \* accounts that bidders name for a slashed bond
    Capabilities,       \* capability bits
    AgentStates,        \* registry records an agent can be in
    MinStake,           \* registry_global.min_stake
    Attested,           \* operators whose attestation passes enforce_personhood
    Amounts,            \* payment amounts a client may offer
    BidAmounts,         \* amounts a bidder may commit to
    BondBps,            \* bond_bps a client may ask for
    WindowSecs,         \* commit and reveal window lengths
    DeadlineSecs,       \* deadlines a client may ask for, relative to now
    InitMarkets,        \* MarketGlobal records the deployment may start from
    FeeChoices, WindowChoices, PauseChoices, MintChoices, HookPointers,
                        \* inputs of the governance instructions
    HookChoices,        \* values fee_collector's allowlist may take for the mint
    MAX_BIDDERS_PER_TASK, MIN_DEADLINE_SECS, MAX_DEADLINE_SECS,
    CANCEL_GRACE_SECS, EXPIRE_GRACE_SECS, DISPUTE_TIMEOUT_SECS,
    InitialFunds,       \* tokens the client and each operator start with
    MaxTime,            \* bound: the clock stops here
    MaxRounds,          \* bound: open_bidding calls per task
    MaxCreateTime       \* bound: tasks are created no later than this

BPS_DENOM == 10000
MAX_FEE_BPS == 100
MIN_BID_BOND_BPS == 50
MAX_BID_BOND_BPS == 500

Accounts == Operators \cup {Client, FeeCollector, SolrepPool}
None == "none"
NoResult == [by |-> None, provable |-> FALSE]
Results == [by : Agents \cup {None}, provable : BOOLEAN]

VARIABLES
    task,        \* TaskContract, with status "Absent" for no account
    escrow,      \* balance of the task's escrow token account
    book,        \* BidBook, with phase "NoBook" for no account
    bid,         \* Bid accounts, by task and bidder
    bondEscrow,  \* balance of the task's bond escrow token account
    wallet,      \* balances of everyone's own token account
    market,      \* MarketGlobal
    registry,    \* agent_registry's view of each agent
    hookOk,      \* fee_collector's allowlist accepts the mint's transfer hook
    now,         \* the cluster clock
    rounds,      \* open_bidding calls so far, counted for the bound only
    outcome,     \* history: how the payment left the escrow
    reopened,    \* history: tasks whose bidding was opened again after an award
    freeAward,   \* history: tasks awarded to a bid that had no bond in escrow
    net          \* history: bonds paid for a task and not refunded, by bidder

history == <<outcome, reopened, freeAward, net>>
vars == <<task, escrow, book, bid, bondEscrow, wallet, market, registry,
          hookOk, now, rounds, history>>

-----------------------------------------------------------------------------
(* Account types *)

TaskStatus == {"Created", "Funded", "InExecution", "ProofSubmitted", "Verified",
               "Released", "Expired", "Disputed", "Resolved"}

TaskContract ==
    [status : TaskStatus \cup {"Absent"}, agentDid : Agents \cup {None},
     amount : Nat, protocolFee : Nat, solrepFee : Nat, result : Results,
     createdAt : Nat, deadline : Nat, disputeWindowEnd : Nat,
     assigned : Agents \cup {None}, capability : Capabilities \cup {None},
     gated : BOOLEAN]

BidPhase == {"Commit", "Reveal", "Settled", "Cancelled"}

BidBook ==
    [phase : BidPhase \cup {"NoBook"}, commitStart : Nat, commitEnd : Nat,
     revealEnd : Nat, bond : Nat, commitCount : Nat, revealCount : Nat,
     winnerBidder : Operators \cup {None}, winnerAgent : Agents \cup {None},
     winnerAmount : Nat]

Bid ==
    [live : BOOLEAN, agent : Agents \cup {None}, commit : Nat,
     bondPaid : Nat, amount : Nat, revealed : BOOLEAN, refunded : BOOLEAN,
     slashed : BOOLEAN]

MarketGlobal ==
    [protocolBps : Nat, solrepBps : Nat, disputeWindowSecs : Nat,
     mintAllowed : BOOLEAN, mintAccepted : BOOLEAN, paused : BOOLEAN,
     hookWired : BOOLEAN, transferFeeBps : 0..BPS_DENOM]

ASSUME ConstantsAssumption ==
    /\ IsFiniteSet(Operators)
    /\ OperatorOf \in [Agents -> Operators]
    /\ KeyRank \in [Agents -> Nat]
    /\ \A a, b \in Agents : KeyRank[a] = KeyRank[b] => a = b
    /\ None \notin Agents \cup Operators
    /\ SlashTargets \subseteq Accounts
    /\ AgentStates \subseteq [active : BOOLEAN, stake : Nat, caps : SUBSET Capabilities]
    /\ Amounts \subseteq Nat
    /\ BidAmounts \subseteq Nat
    /\ BondBps \subseteq Nat
    /\ WindowSecs \subseteq Int
    /\ DeadlineSecs \subseteq Int
    /\ FeeChoices \subseteq Nat \X Nat
    /\ WindowChoices \subseteq Int
    /\ PauseChoices \subseteq BOOLEAN
    /\ MintChoices \subseteq BOOLEAN
    /\ HookChoices \subseteq BOOLEAN
    /\ MinStake \in Nat
    /\ MAX_BIDDERS_PER_TASK \in Nat
    /\ MIN_DEADLINE_SECS \in Nat
    /\ MAX_DEADLINE_SECS \in Nat
    /\ CANCEL_GRACE_SECS \in Nat
    /\ EXPIRE_GRACE_SECS \in Nat
    /\ DISPUTE_TIMEOUT_SECS \in Nat
    /\ InitMarkets \subseteq MarketGlobal
    /\ None \notin Capabilities
    /\ InitialFunds \in Nat
    /\ MaxTime \in Nat
    /\ MaxRounds \in Nat
    /\ MaxCreateTime \in Nat

NoTask == [status |-> "Absent", agentDid |-> None, amount |-> 0,
           protocolFee |-> 0, solrepFee |-> 0, result |-> NoResult,
           createdAt |-> 0, deadline |-> 0, disputeWindowEnd |-> 0,
           assigned |-> None, capability |-> None, gated |-> FALSE]

NoBook == [phase |-> "NoBook", commitStart |-> 0, commitEnd |-> 0,
           revealEnd |-> 0, bond |-> 0, commitCount |-> 0, revealCount |-> 0,
           winnerBidder |-> None, winnerAgent |-> None, winnerAmount |-> 0]

NoBid == [live |-> FALSE, agent |-> None, commit |-> 0, bondPaid |-> 0,
          amount |-> 0, revealed |-> FALSE, refunded |-> FALSE, slashed |-> FALSE]

\* task.bid_book.is_some(): the pointer is set and cleared together with the
\* book account itself, so the account stands for it.
HasBook(t) == book[t].phase # "NoBook"

-----------------------------------------------------------------------------
(* Arithmetic *)

\* compute_fees: each fee is rounded down, and the pair is rejected unless it
\* leaves something of the payment.
ProtocolFee(amount) == (amount * market.protocolBps) \div BPS_DENOM
SolrepFee(amount) == (amount * market.solrepBps) \div BPS_DENOM
FeesOk(amount) == ProtocolFee(amount) + SolrepFee(amount) < amount

\* compute_bond_amount
BondAmount(amount, bps) == (amount * bps) \div BPS_DENOM

\* The transfer fee of the payment mint, rounded up, and what a transfer of x brings
\* to its destination. Nothing in the program changes the fee; the cap a mint may put
\* on it is left out.
Withheld(x, bps) == (x * bps + BPS_DENOM - 1) \div BPS_DENOM
Received(x) == x - Withheld(x, market.transferFeeBps)
Lossless == market.transferFeeBps = 0

\* bid_beats: lowest amount, then highest stake, then smallest account key.
BidBeats(amount1, stake1, agent1, amount2, stake2, agent2) ==
    IF amount1 # amount2 THEN amount1 < amount2
    ELSE IF stake1 # stake2 THEN stake1 > stake2
    ELSE KeyRank[agent1] < KeyRank[agent2]

-----------------------------------------------------------------------------
(* Init: the state init_global leaves, with its bounds on the parameters *)

ValidFees(p, s) == p <= MAX_FEE_BPS /\ s <= MAX_FEE_BPS

InitGlobal ==
    market \in {m \in InitMarkets : /\ ValidFees(m.protocolBps, m.solrepBps)
                                    /\ m.disputeWindowSecs > 0
                                    /\ ~m.paused
                                    /\ ~m.hookWired}

Init ==
    /\ InitGlobal
    /\ task = [t \in Tasks |-> NoTask]
    /\ escrow = [t \in Tasks |-> 0]
    /\ book = [t \in Tasks |-> NoBook]
    /\ bid = [t \in Tasks |-> [o \in Operators |-> NoBid]]
    /\ bondEscrow = [t \in Tasks |-> 0]
    /\ wallet = [x \in Accounts |->
                    IF x \in Operators \cup {Client} THEN InitialFunds ELSE 0]
    /\ registry \in [Agents -> AgentStates]
    /\ hookOk = TRUE
    /\ now = 0
    /\ rounds = [t \in Tasks |-> 0]
    /\ outcome = [t \in Tasks |-> None]
    /\ reopened = {} /\ freeAward = {}
    /\ net = [t \in Tasks |-> [o \in Operators |-> 0]]

-----------------------------------------------------------------------------
(* Task lifecycle *)

\* create_task. Registry stake and capability are checked here and for a bid,
\* never again; the fees are fixed here from the fee rates of the moment.
CreateTask(t, a, amount, secs, cap, gated) ==
    /\ now <= MaxCreateTime
    /\ task[t].status = "Absent"
    /\ ~market.paused
    /\ market.mintAllowed
    /\ amount > 0
    /\ secs > MIN_DEADLINE_SECS
    /\ secs <= MAX_DEADLINE_SECS
    /\ registry[a].active
    /\ registry[a].stake >= MinStake
    /\ cap \in registry[a].caps
    /\ FeesOk(amount)
    /\ task' = [task EXCEPT ![t] =
                   [NoTask EXCEPT !.status = "Created", !.agentDid = a,
                                  !.amount = amount,
                                  !.protocolFee = ProtocolFee(amount),
                                  !.solrepFee = SolrepFee(amount),
                                  !.createdAt = now, !.deadline = now + secs,
                                  !.capability = cap, !.gated = gated]]
    /\ UNCHANGED <<escrow, book, bid, bondEscrow, wallet, market, registry,
                   hookOk, now, rounds, history>>

\* resolve_hook_allowlist and assert_mint_allowed_at_site: no check until the
\* allowlist pointer is wired.
HookGate == market.hookWired => hookOk

\* fund_task
FundTask(t) ==
    /\ task[t].status = "Created"
    /\ ~market.paused
    /\ HookGate
    /\ wallet[Client] >= task[t].amount
    /\ wallet' = [wallet EXCEPT ![Client] = @ - task[t].amount]
    /\ escrow' = [escrow EXCEPT ![t] = @ + Received(task[t].amount)]
    /\ task' = [task EXCEPT ![t].status = "Funded"]
    /\ UNCHANGED <<book, bid, bondEscrow, market, registry, hookOk, now, rounds, history>>

\* cancel_unfunded_task closes the TaskContract account.
CancelUnfundedTask(t) ==
    /\ task[t].status = "Created"
    /\ now >= task[t].createdAt + CANCEL_GRACE_SECS
    /\ task' = [task EXCEPT ![t] = NoTask]
    /\ UNCHANGED <<escrow, book, bid, bondEscrow, wallet, market, registry,
                   hookOk, now, rounds, history>>

\* The agent check that submit_result, release and expire repeat: the bidding
\* winner while a book exists, the declared agent otherwise.
AgentMatches(t, a) == IF HasBook(t) THEN task[t].assigned = a
                                    ELSE task[t].agentDid = a

\* submit_result, signed by the agent's operator.
SubmitResult(t, a, provable) ==
    /\ task[t].status = "Funded"
    /\ now <= task[t].deadline
    /\ registry[a].active
    /\ AgentMatches(t, a)
    /\ task' = [task EXCEPT ![t].result = [by |-> a, provable |-> provable],
                            ![t].status = "ProofSubmitted"]
    /\ UNCHANGED <<escrow, book, bid, bondEscrow, wallet, market, registry,
                   hookOk, now, rounds, history>>

\* verify_task. The CPI to proof_verifier succeeds exactly for a result that
\* has a proof; its failure fails the instruction. The dispute window counts
\* from the deadline, whenever the verification happens.
VerifyTask(t) ==
    /\ task[t].status = "ProofSubmitted"
    /\ task[t].result.provable
    /\ task' = [task EXCEPT ![t].status = "Verified",
                            ![t].disputeWindowEnd = task[t].deadline
                                                    + market.disputeWindowSecs]
    /\ UNCHANGED <<escrow, book, bid, bondEscrow, wallet, market, registry,
                   hookOk, now, rounds, history>>

\* The three transfers of release, each skipped when its amount is zero.
AgentPayout(t) == task[t].amount - task[t].protocolFee - task[t].solrepFee

ReleaseTotal(t) == AgentPayout(t) + task[t].protocolFee + task[t].solrepFee

ReleasePayments(t, a) ==
    [x \in Accounts |->
        wallet[x] + (IF x = OperatorOf[a] THEN Received(AgentPayout(t)) ELSE 0)
                  + (IF x = FeeCollector THEN Received(task[t].protocolFee) ELSE 0)
                  + (IF x = SolrepPool THEN Received(task[t].solrepFee) ELSE 0)]

\* release: permissionless once the dispute window is over, unless paused. The
\* token program rejects the transfers when the escrow cannot cover them.
Release(t, a) ==
    /\ task[t].status = "Verified"
    /\ ~market.paused
    /\ now >= task[t].disputeWindowEnd
    /\ AgentMatches(t, a)
    /\ HookGate
    /\ escrow[t] >= ReleaseTotal(t)
    /\ task' = [task EXCEPT ![t].status = "Released"]
    /\ wallet' = ReleasePayments(t, a)
    /\ escrow' = [escrow EXCEPT ![t] = @ - ReleaseTotal(t)]
    /\ outcome' = [outcome EXCEPT ![t] = "Paid"]
    /\ UNCHANGED <<book, bid, bondEscrow, market, registry, hookOk, now, rounds,
                   reopened, freeAward, net>>

\* Fault: the refund keeps the fees that were computed at creation.
RefundLessFees(t) ==
    /\ HookGate
    /\ escrow[t] >= task[t].amount
    /\ task' = [task EXCEPT ![t].status = "Expired"]
    /\ wallet' = [wallet EXCEPT ![Client] = @ + AgentPayout(t)]
    /\ escrow' = [escrow EXCEPT ![t] = @ - AgentPayout(t)]
    /\ outcome' = [outcome EXCEPT ![t] = "Refunded"]
    /\ UNCHANGED <<book, bid, bondEscrow, market, registry, hookOk, now, rounds,
                   reopened, freeAward, net>>

\* Both refunds pay the whole payment back to the client.
RefundClient(t) ==
    /\ HookGate
    /\ escrow[t] >= task[t].amount
    /\ task' = [task EXCEPT ![t].status = "Expired"]
    /\ wallet' = [wallet EXCEPT ![Client] = @ + Received(task[t].amount)]
    /\ escrow' = [escrow EXCEPT ![t] = @ - task[t].amount]
    /\ outcome' = [outcome EXCEPT ![t] = "Refunded"]
    /\ UNCHANGED <<book, bid, bondEscrow, market, registry, hookOk, now, rounds,
                   reopened, freeAward, net>>

\* Fault: a verified result expires too.
ExpireVerified(t, a) ==
    /\ task[t].status \in {"Funded", "ProofSubmitted", "Verified"}
    /\ AgentMatches(t, a)
    /\ now > task[t].deadline + EXPIRE_GRACE_SECS
    /\ RefundClient(t)

\* Fault: a submitted result no longer expires.
ExpireFundedOnly(t, a) ==
    /\ task[t].status = "Funded"
    /\ AgentMatches(t, a)
    /\ now > task[t].deadline + EXPIRE_GRACE_SECS
    /\ RefundClient(t)

\* expire: permissionless, but the transaction must name the matching agent.
Expire(t, a) ==
    /\ task[t].status \in {"Funded", "ProofSubmitted"}
    /\ AgentMatches(t, a)
    /\ now > task[t].deadline + EXPIRE_GRACE_SECS
    /\ RefundClient(t)

\* disputed_timeout_refund: permissionless.
DisputedTimeoutRefund(t) ==
    /\ task[t].status = "Disputed"
    /\ now > task[t].disputeWindowEnd + DISPUTE_TIMEOUT_SECS
    /\ RefundClient(t)

\* raise_dispute, signed by the client.
RaiseDispute(t) ==
    /\ task[t].status = "Verified"
    /\ now < task[t].disputeWindowEnd
    /\ task' = [task EXCEPT ![t].status = "Disputed"]
    /\ UNCHANGED <<escrow, book, bid, bondEscrow, wallet, market, registry,
                   hookOk, now, rounds, history>>

-----------------------------------------------------------------------------
(* Commit-reveal bidding *)

\* Fault: bidding opens in any status that holds the payment.
OpenBiddingAnyStatus(t, commitSecs, revealSecs, bps) ==
    /\ rounds[t] < MaxRounds
    /\ escrow[t] > 0
    /\ ~HasBook(t)
    /\ commitSecs > 0
    /\ revealSecs > 0
    /\ book' = [book EXCEPT ![t] =
                   [NoBook EXCEPT !.phase = "Commit", !.commitStart = now,
                                  !.commitEnd = now + commitSecs,
                                  !.revealEnd = now + commitSecs + revealSecs,
                                  !.bond = BondAmount(task[t].amount, bps)]]
    /\ rounds' = [rounds EXCEPT ![t] = @ + 1]
    /\ reopened' = IF task[t].assigned = None THEN reopened ELSE reopened \cup {t}
    /\ UNCHANGED <<task, escrow, bid, bondEscrow, wallet, market, registry,
                   hookOk, now, outcome, freeAward, net>>

\* open_bidding, signed by the client. It leaves assigned_agent as it is.
OpenBidding(t, commitSecs, revealSecs, bps) ==
    /\ rounds[t] < MaxRounds
    /\ ~market.paused
    /\ task[t].status = "Funded"
    /\ ~HasBook(t)
    /\ bps \in MIN_BID_BOND_BPS..MAX_BID_BOND_BPS
    /\ commitSecs > 0
    /\ revealSecs > 0
    /\ now + commitSecs + revealSecs <= task[t].deadline
    /\ book' = [book EXCEPT ![t] =
                   [NoBook EXCEPT !.phase = "Commit", !.commitStart = now,
                                  !.commitEnd = now + commitSecs,
                                  !.revealEnd = now + commitSecs + revealSecs,
                                  !.bond = BondAmount(task[t].amount, bps)]]
    /\ rounds' = [rounds EXCEPT ![t] = @ + 1]
    /\ reopened' = IF task[t].assigned = None THEN reopened ELSE reopened \cup {t}
    /\ UNCHANGED <<task, escrow, bid, bondEscrow, wallet, market, registry,
                   hookOk, now, outcome, freeAward, net>>

\* commit_bid, signed by the agent's operator, whose Bid account must not exist.
\* A commit hash is the amount it hides.
CommitBid(t, a, amount) ==
    LET o == OperatorOf[a] IN
    /\ HasBook(t)
    /\ ~bid[t][o].live
    /\ ~market.paused
    /\ registry[a].active
    /\ task[t].capability \in registry[a].caps
    /\ task[t].gated => o \in Attested
    /\ book[t].phase = "Commit"
    /\ now >= book[t].commitStart
    /\ now < book[t].commitEnd
    /\ book[t].commitCount < MAX_BIDDERS_PER_TASK
    /\ book[t].bond > 0 => HookGate
    /\ wallet[o] >= book[t].bond
    /\ bid' = [bid EXCEPT ![t][o] = [NoBid EXCEPT !.live = TRUE, !.agent = a,
                                                  !.commit = amount,
                                                  !.bondPaid = book[t].bond]]
    /\ book' = [book EXCEPT ![t].commitCount = @ + 1]
    /\ wallet' = [wallet EXCEPT ![o] = @ - book[t].bond]
    /\ bondEscrow' = [bondEscrow EXCEPT ![t] = @ + Received(book[t].bond)]
    /\ net' = [net EXCEPT ![t][o] = @ + book[t].bond]
    /\ UNCHANGED <<task, escrow, market, registry, hookOk, now, rounds,
                   outcome, reopened, freeAward>>

\* The part of reveal_bid before the hash comparison.
RevealAllowed(t, o) ==
    /\ book[t].phase \in {"Commit", "Reveal"}
    /\ now >= book[t].commitEnd
    /\ now < book[t].revealEnd
    /\ bid[t][o].live
    /\ ~bid[t][o].revealed
    /\ ~bid[t][o].slashed

\* reveal_bid with the committed preimage.
RevealBid(t, o) ==
    /\ RevealAllowed(t, o)
    /\ bid[t][o].commit \in 1..task[t].amount
    /\ bid' = [bid EXCEPT ![t][o].amount = bid[t][o].commit,
                          ![t][o].revealed = TRUE]
    /\ book' = [book EXCEPT ![t].phase = "Reveal", ![t].revealCount = @ + 1]
    /\ UNCHANGED <<task, escrow, bondEscrow, wallet, market, registry, hookOk,
                   now, rounds, history>>

\* reveal_bid with any other preimage succeeds and records the mismatch.
RevealMismatch(t, o) ==
    /\ RevealAllowed(t, o)
    /\ bid' = [bid EXCEPT ![t][o].slashed = TRUE]
    /\ book' = [book EXCEPT ![t].phase = "Reveal"]
    /\ UNCHANGED <<task, escrow, bondEscrow, wallet, market, registry, hookOk,
                   now, rounds, history>>

\* The bids the cranker may pass to close_bidding.
Eligible(t) == {o \in Operators : /\ bid[t][o].live
                                  /\ bid[t][o].revealed
                                  /\ ~bid[t][o].slashed}

\* Operator o's bid beats operator p's, with the stakes of this moment.
Beats(t, o, p) ==
    BidBeats(bid[t][o].amount, registry[bid[t][o].agent].stake, bid[t][o].agent,
             bid[t][p].amount, registry[bid[t][p].agent].stake, bid[t][p].agent)

\* What the scan over the passed bids keeps: the bid that beats every other one.
IsBest(t, S, w) == w \in S /\ \A p \in S \ {w} : Beats(t, w, p)

\* Fault: the number of bids passed is not compared with reveal_count.
CloseBiddingSomeBids(t, S) ==
    /\ book[t].phase \in {"Commit", "Reveal"}
    /\ now >= book[t].revealEnd
    /\ S \subseteq Eligible(t)

\* The guards of close_bidding: after the reveal window, with reveal_count
\* distinct bids that are revealed and not slashed.
CloseBiddingAllowed(t, S) ==
    /\ book[t].phase \in {"Commit", "Reveal"}
    /\ now >= book[t].revealEnd
    /\ S \subseteq Eligible(t)
    /\ Cardinality(S) = book[t].revealCount

\* close_bidding with a winner: it becomes both assigned_agent and agent_did.
CloseBiddingSettle(t, S, w) ==
    /\ CloseBiddingAllowed(t, S)
    /\ IsBest(t, S, w)
    /\ book' = [book EXCEPT ![t].phase = "Settled",
                            ![t].winnerBidder = w,
                            ![t].winnerAgent = bid[t][w].agent,
                            ![t].winnerAmount = bid[t][w].amount]
    /\ task' = [task EXCEPT ![t].assigned = bid[t][w].agent,
                            ![t].agentDid = bid[t][w].agent]
    /\ freeAward' = IF bid[t][w].bondPaid > 0 /\ ~bid[t][w].refunded
                    THEN freeAward ELSE freeAward \cup {t}
    /\ UNCHANGED <<escrow, bid, bondEscrow, wallet, market, registry, hookOk,
                   now, rounds, outcome, reopened, net>>

\* close_bidding with no revealed bid: the task's status is set to Funded,
\* whatever it was.
CloseBiddingCancel(t) ==
    /\ CloseBiddingAllowed(t, {})
    /\ book' = [book EXCEPT ![t].phase = "Cancelled",
                            ![t].winnerBidder = None,
                            ![t].winnerAgent = None,
                            ![t].winnerAmount = 0]
    /\ task' = [task EXCEPT ![t].status = "Funded"]
    /\ UNCHANGED <<escrow, bid, bondEscrow, wallet, market, registry, hookOk,
                   now, rounds, history>>

\* cancel_bidding, signed by the client: only an empty book in its commit
\* window, and the token program closes only an empty bond escrow.
CancelBidding(t) ==
    /\ book[t].phase = "Commit"
    /\ book[t].commitCount = 0
    /\ now < book[t].commitEnd
    /\ bondEscrow[t] = 0
    /\ book' = [book EXCEPT ![t] = NoBook]
    /\ UNCHANGED <<task, escrow, bid, bondEscrow, wallet, market, registry,
                   hookOk, now, rounds, history>>

BookOver(t) == book[t].phase \in {"Settled", "Cancelled"}

\* Fault: the winner is refunded like every other bidder that revealed.
ClaimOutcomeWinnerRefunded(t, o) ==
    IF book[t].phase # "Cancelled" /\ (~bid[t][o].revealed \/ bid[t][o].slashed)
    THEN "Slash" ELSE "Refund"

\* Fault: a cancelled round slashes the bids that were not revealed.
ClaimOutcomeCancelledSlashes(t, o) ==
    IF ~bid[t][o].revealed \/ bid[t][o].slashed THEN "Slash"
    ELSE IF book[t].winnerBidder = o THEN "WinnerRetain"
    ELSE "Refund"

\* claim_bond's outcome for the bid of operator o.
ClaimOutcome(t, o) ==
    IF book[t].phase = "Cancelled" THEN "Refund"
    ELSE IF ~bid[t][o].revealed \/ bid[t][o].slashed THEN "Slash"
    ELSE IF book[t].winnerBidder = o THEN "WinnerRetain"
    ELSE "Refund"

\* claim_bond, signed by the bidder. A refund goes to the bidder's account; a
\* slashed bond goes to the account dest that the transaction names, of which
\* only the mint is checked; a winner's bond stays in the bond escrow.
ClaimBond(t, o, dest) ==
    LET claim == ClaimOutcome(t, o)
        moved == IF claim = "WinnerRetain" THEN 0 ELSE bid[t][o].bondPaid
        target == IF claim = "Refund" THEN o ELSE dest
    IN
    /\ BookOver(t)
    /\ bid[t][o].live
    /\ ~bid[t][o].refunded
    /\ moved > 0 => HookGate
    /\ bondEscrow[t] >= moved
    /\ bid' = [bid EXCEPT ![t][o].refunded = TRUE,
                          ![t][o].slashed = @ \/ claim = "Slash"]
    /\ bondEscrow' = [bondEscrow EXCEPT ![t] = @ - moved]
    /\ wallet' = [wallet EXCEPT ![target] = @ + Received(moved)]
    /\ net' = [net EXCEPT ![t][o] = IF claim = "Refund" THEN @ - moved ELSE @]
    /\ UNCHANGED <<task, escrow, book, market, registry, hookOk, now, rounds,
                   outcome, reopened, freeAward>>

\* Anyone may send tokens to a token account, so to the bond escrow too. Bound: only
\* while it is empty, where that makes a difference.
Gift(t) ==
    /\ HasBook(t)
    /\ bondEscrow[t] = 0
    /\ bondEscrow' = [bondEscrow EXCEPT ![t] = 1]
    /\ UNCHANGED <<task, escrow, book, bid, wallet, market, registry, hookOk, now, rounds,
                   history>>

\* close_bid, signed by the bidder, closes a claimed Bid account.
CloseBid(t, o) ==
    /\ BookOver(t)
    /\ bid[t][o].live
    /\ bid[t][o].refunded
    /\ bid' = [bid EXCEPT ![t][o] = NoBid]
    /\ UNCHANGED <<task, escrow, book, bondEscrow, wallet, market, registry,
                   hookOk, now, rounds, history>>

\* Fault: the book is closed over bonds that are not claimed yet.
CloseBidBookUnclaimed(t) ==
    /\ BookOver(t)
    /\ book' = [book EXCEPT ![t] = NoBook]
    /\ UNCHANGED <<task, escrow, bid, bondEscrow, wallet, market, registry,
                   hookOk, now, rounds, history>>

\* close_bid_book, signed by the client, closes the book and its empty escrow
\* and clears task.bid_book. Bid accounts and assigned_agent stay.
CloseBidBook(t) ==
    /\ BookOver(t)
    /\ bondEscrow[t] = 0
    /\ book' = [book EXCEPT ![t] = NoBook]
    /\ UNCHANGED <<task, escrow, bid, bondEscrow, wallet, market, registry,
                   hookOk, now, rounds, history>>

-----------------------------------------------------------------------------
(* Governance, the other programs and the clock *)

UnchangedByGovernance ==
    UNCHANGED <<task, escrow, book, bid, bondEscrow, wallet, registry, now, rounds, history>>

SetPaused(v) ==
    /\ market' = [market EXCEPT !.paused = v]
    /\ hookOk' = hookOk
    /\ UnchangedByGovernance

SetFees(p, s) ==
    /\ ValidFees(p, s)
    /\ market' = [market EXCEPT !.protocolBps = p, !.solrepBps = s]
    /\ hookOk' = hookOk
    /\ UnchangedByGovernance

SetDisputeWindowSecs(w) ==
    /\ w > 0
    /\ market' = [market EXCEPT !.disputeWindowSecs = w]
    /\ hookOk' = hookOk
    /\ UnchangedByGovernance

\* set_allowed_mint overwrites one slot of the list: afterwards the list does
\* or does not hold the payment mint.
SetAllowedMint(v) ==
    /\ market' = [market EXCEPT !.mintAllowed = v]
    /\ hookOk' = hookOk
    /\ UnchangedByGovernance

\* allow_payment_mint creates the mint's MintAcceptRecord, so it succeeds once.
AllowPaymentMint ==
    /\ ~market.mintAccepted
    /\ market' = [market EXCEPT !.mintAccepted = TRUE, !.mintAllowed = TRUE]
    /\ hookOk' = hookOk
    /\ UnchangedByGovernance

\* set_hook_allowlist_ptr wires the allowlist once and for all.
SetHookAllowlistPtr ==
    /\ ~market.hookWired
    /\ market' = [market EXCEPT !.hookWired = TRUE]
    /\ hookOk' = hookOk
    /\ UnchangedByGovernance

\* fee_collector's governance adds or removes the mint's hook program.
UpdateHookAllowlist(v) ==
    /\ hookOk' = v
    /\ market' = market
    /\ UnchangedByGovernance

\* agent_registry changes an agent's status, stake or capabilities.
RegistryStep(a, s) ==
    /\ registry' = [registry EXCEPT ![a] = s]
    /\ UNCHANGED <<task, escrow, book, bid, bondEscrow, wallet, market, hookOk,
                   now, rounds, history>>

\* The clock stops at the bound MaxTime.
Tick ==
    /\ now' = IF now < MaxTime THEN now + 1 ELSE now
    /\ UNCHANGED <<task, escrow, book, bid, bondEscrow, wallet, market,
                   registry, hookOk, rounds, history>>

-----------------------------------------------------------------------------
(* Next-state relation *)

Lifecycle(t) ==
    \/ \E a \in Agents, amount \in Amounts, secs \in DeadlineSecs,
          cap \in Capabilities, gated \in BOOLEAN :
             CreateTask(t, a, amount, secs, cap, gated)
    \/ FundTask(t)
    \/ CancelUnfundedTask(t)
    \/ \E a \in Agents, provable \in BOOLEAN : SubmitResult(t, a, provable)
    \/ VerifyTask(t)
    \/ \E a \in Agents : Release(t, a)
    \/ \E a \in Agents : Expire(t, a)
    \/ DisputedTimeoutRefund(t)
    \/ RaiseDispute(t)

Bidding(t) ==
    \/ \E commitSecs, revealSecs \in WindowSecs, bps \in BondBps :
             OpenBidding(t, commitSecs, revealSecs, bps)
    \/ \E a \in Agents, amount \in BidAmounts : CommitBid(t, a, amount)
    \/ \E o \in Operators : RevealBid(t, o)
    \/ \E o \in Operators : RevealMismatch(t, o)
    \/ \E S \in SUBSET Operators : \E w \in S : CloseBiddingSettle(t, S, w)
    \/ CloseBiddingCancel(t)
    \/ CancelBidding(t)
    \/ \E o \in Operators, dest \in SlashTargets : ClaimBond(t, o, dest)
    \/ Gift(t)
    \/ \E o \in Operators : CloseBid(t, o)
    \/ CloseBidBook(t)

Governance ==
    \/ \E v \in PauseChoices : SetPaused(v)
    \/ \E f \in FeeChoices : SetFees(f[1], f[2])
    \/ \E w \in WindowChoices : SetDisputeWindowSecs(w)
    \/ \E v \in MintChoices : SetAllowedMint(v)
    \/ AllowPaymentMint
    \/ \E p \in HookPointers : SetHookAllowlistPtr
    \/ \E v \in HookChoices : UpdateHookAllowlist(v)
    \/ \E a \in Agents, s \in AgentStates : RegistryStep(a, s)

Next ==
    \/ \E t \in Tasks : Lifecycle(t) \/ Bidding(t)
    \/ Governance
    \/ Tick

Spec == Init /\ [][Next]_vars
-----------------------------------------------------------------------------
(* Safety *)

TypeOK ==
    /\ task \in [Tasks -> TaskContract]
    /\ escrow \in [Tasks -> Nat]
    /\ book \in [Tasks -> BidBook]
    /\ bid \in [Tasks -> [Operators -> Bid]]
    /\ bondEscrow \in [Tasks -> Nat]
    /\ wallet \in [Accounts -> Nat]
    /\ market \in MarketGlobal
    /\ registry \in [Agents -> AgentStates]
    /\ hookOk \in BOOLEAN
    /\ now \in Nat
    /\ rounds \in [Tasks -> Nat]
    /\ outcome \in [Tasks -> {None, "Paid", "Refunded"}]
    /\ reopened \subseteq Tasks /\ freeAward \subseteq Tasks
    /\ net \in [Tasks -> [Operators -> Int]]

Holding == {"Funded", "ProofSubmitted", "Verified", "Disputed"}
BiddingOpen(t) == book[t].phase \in {"Commit", "Reveal"}

\* Where bidding is never opened again after an award: the escrow of a task holds what
\* fund_task brought in until the one instruction that pays the whole payment out or
\* back, and nothing before and after. No order of bidding, disputes, pauses and
\* timeouts pays twice or leaves a residue; a payment that arrived short of a transfer
\* fee is never paid at all.
EscrowBacked ==
    \A t \in Tasks \ reopened :
        escrow[t] = IF task[t].status \in Holding THEN Received(task[t].amount) ELSE 0

\* What the specification of the program says without that condition: the escrow holds
\* the payment exactly while the status says so.
EscrowBalance ==
    \A t \in Tasks : escrow[t] = IF task[t].status \in Holding THEN task[t].amount ELSE 0

\* While bids are collected for the first award the task stays Funded: nobody submits
\* a result, is paid or refunds the client until close_bidding has decided.
BiddingFreezesTask ==
    \A t \in Tasks \ reopened : BiddingOpen(t) => task[t].status = "Funded"

\* Whoever delivered the result is the agent that release will accept and pay,
\* although bidding overwrites agent_did and assigned_agent on the way and
\* close_bid_book switches between the two, unless bidding was opened again after an
\* award.
WorkerIsPayee ==
    \A t \in Tasks \ reopened :
        task[t].status \in {"ProofSubmitted", "Verified", "Disputed"}
            => AgentMatches(t, task[t].result.by)

\* Bidding is opened again after an award only if the winner had no bond in escrow: it
\* rounded to zero, or was claimed in an earlier round whose bid was then revealed. A
\* winner's bond stays in the bond escrow otherwise, and no book is closed over it. (A
\* mint with a transfer fee leaves the bond escrow short of that bond.)
ReopenTakesFreeAward == Lossless => reopened \subseteq freeAward

\* The bids whose bond is still owed by the bond escrow.
Staked(t) == {o \in Operators : /\ bid[t][o].live
                                /\ ~bid[t][o].refunded
                                /\ bid[t][o].bondPaid > 0}

\* The bond escrow covers every bond not yet claimed, in every round and in
\* whatever order bidders claim, for a mint without a transfer fee: all of them were
\* paid at the current book's rate, and there is enough for all of them.
BondsCovered ==
    Lossless => \A t \in Tasks :
        /\ \A o \in Staked(t) : bid[t][o].bondPaid = book[t].bond
        /\ book[t].bond * Cardinality(Staked(t)) <= bondEscrow[t]

\* close_bidding awards the task to a cheapest revealed bid: the cranker that passes
\* the bids can neither leave one out nor pass one of an earlier round instead, unless
\* bidding was opened again after an award.
BestBidWins ==
    \A t \in Tasks \ reopened : book[t].phase = "Settled" =>
        \A o \in Eligible(t) : book[t].winnerAmount <= bid[t][o].amount

\* A bidder that revealed what it committed to and did not win has lost nothing through
\* cancelled rounds and claims in any order: what it paid for bonds on this task and
\* was not refunded is the bond it can still claim.
HonestBidderWhole ==
    \A t \in Tasks \ reopened : HasBook(t) =>
        \A o \in Eligible(t) \ {book[t].winnerBidder} :
            net[t][o] = IF bid[t][o].refunded THEN 0 ELSE bid[t][o].bondPaid

-----------------------------------------------------------------------------
(* Refinement of TaskEscrow *)

DealOf(status) ==
    CASE status = "Absent" -> "None"
      [] status = "Created" -> "Offered"
      [] status \in {"Funded", "ProofSubmitted"} -> "Held"
      [] status = "Verified" -> "Delivered"
      [] status = "Disputed" -> "Contested"
      [] status = "Released" -> "Paid"
      [] status = "Expired" -> "Refunded"

Abstract == INSTANCE TaskEscrow WITH
    deal <- [t \in Tasks |-> IF outcome[t] = None THEN DealOf(task[t].status) ELSE outcome[t]],
    price <- [t \in Tasks |-> task[t].amount],
    held <- escrow

\* The task market implements TaskEscrow: hidden behind bidding, deadlines, pauses,
\* registry changes and re-opened books, every payment is offered, held, and then paid
\* whole or refunded whole at most once, whatever the status of the task says later.
ImplementsEscrow == Abstract!Spec
=============================================================================
