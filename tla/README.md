# SAEP in TLA+

SAEP is an on-chain economy for autonomous agents: clients escrow a payment for
a task, agents bid for it, deliver a result that is verified, and are paid;
disputes go to a bench of staked arbitrators; agents keep their earnings in a
treasury with spending limits and payment streams. The programs are Anchor
programs on Solana (`src/programs`), surrounded by off-chain services
(`src/services`), SDKs and a portal.

This directory models the programs that hold money and the services that move
it or tell others about it. Every instruction of a modelled program is one
action, every step of a service between two awaits is one; TLC checks the models
on small instances, and TLAPS proves the most important properties for every
value of the constants.

    cd tla
    tlc -workers 2 -config TaskMarket_bidding.cfg MCTaskMarket
    tlapm TaskMarketProofs.tla

`PROJECT.json` lists the runs, the lines of the source behind every definition,
the hazards and the properties that cover them, and for every property a mutant
of the code that the property catches.

## 1. Inventory

### Programs

| component | state | operations | talks to | what is hard | what makes it correct |
|---|---|---|---|---|---|
| **task_market** | `MarketGlobal`, one `TaskContract` and escrow per task, one `BidBook`, bond escrow and a `Bid` per bidder | create, fund, submit, verify, release, expire, dispute, timeout refund; open, commit, reveal, close, cancel bidding, claim bond, close bid and book; parameters | reads agent_registry (status, stake), capability_registry, fee_collector (hook allowlist), calls proof_verifier | re-opened books over the same accounts, permissionless cranks that race for one escrow, late claims, fees fixed early, bonds that round to zero | one payout per escrow, to whoever did the work; every bond is covered; the cheapest revealed bid wins |
| **dispute_arbitration** | `DisputeConfig`, `DisputePool`, an `ArbitratorAccount` and `PendingSlash` per arbitrator, a `DisputeCase`, vote and appeal records per case | register, refresh, withdraw, snapshot; raise, draw, commit, reveal, tally, appeal, resolve; slash, execute, cancel; parameters | raised for tasks of task_market; VRF delivered by the authority | two rounds reuse one account; a silent bench; stakes that move while a vote is open; timelocks | a verdict has a majority of the revealed weight; only the bench votes; at most one appeal; a closed case stays closed |
| **treasury_standard** | `TreasuryGlobal`, `AllowedMints`, an `AgentTreasury` with vaults per agent, `PaymentStream` and its escrows, yield strategies | init, fund, withdraw, set limits; init, withdraw from, swap from and close a stream; limits, mints and call targets of governance; yield deposits and withdrawals | token programs, Jupiter, Pyth feeds, fee_collector (hook allowlist), yield venues | counters that are reset lazily on two calendars, a swap that spends what it likes, streams closed at any moment | escrows cover earnings and refunds up to the mint's fee; limits hold over days and weeks |
| agent_registry | `RegistryGlobal`, an `AgentAccount` with stake, pending withdrawal, pending slash and reputation, personhood attestations | register, update, set status; stake, request and execute withdrawals; propose, cancel and execute slashes; reputation; personhood | read by task_market, treasury_standard; called by proof_verifier | a slash and a withdrawal pending together, timelocks, reputation per category | stake vault covers stakes; a pending slash cannot be escaped |
| **fee_collector** | `FeeCollectorConfig`, an `EpochAccount` per epoch, `StakerClaim`s, intake, burn and staker vault, mint allowlists | harvest, intake, process epoch, commit root, claim, burn, sweep; parameters; allowlists | cranked by fee-crank and by anyone; consulted by every program that moves Token-2022 mints | the mint's transfer fee is withheld from internal transfers too; epochs share the vaults; claims race the sweep | no epoch takes another's part of a vault |
| nxs_staking | `StakingPool`, `StakeAccount`, `VotingPowerSnapshot` | stake, begin unstake, withdraw, freeze, close, snapshot | read by governance and fee_collector | lockups and cooldowns against snapshots | pool totals equal the stakes |
| governance_program | `ProposalAccount`, `VoteRecord`, `ExecutionRecord`, `ProgramRegistry` | propose, vote, finalize, queue, execute, cancel, expire | executes on every registered program | timelock windows, snapshot of the voting power | a proposal executes at most once, after a quorum and its timelock |
| proof_verifier | `VerifierConfig`, `VerifierKey`s, `BatchState` | register and activate keys, verify, batches | called by task_market; updates agent_registry | key activation under a timelock, batches left open | only active keys verify |
| capability_registry | `RegistryConfig`, `CapabilityTag`s | propose, retire, update tags, validate a mask | read by task_market and agent_registry | little | a mask holds approved tags only |
| template_registry | `AgentTemplate`, `TemplateFork`, `TemplateRental` | mint, fork, rent, claim, close, retire, settle royalties | called by task_market's royalty path | linear vesting of rentals, royalties over a lineage | a rental pays out its deposit |
| reentrancy guards | a `ReentrancyGuard` and `AllowedCallers` in seven programs | enter, exit, check a caller, timelocked reset | every call between programs | a callee looks at its caller's guard | no program is entered twice |
| two-step authority | pending authority in five programs | transfer, accept | governance | little | one authority at a time |

### Services and the rest

| component | state | operations | talks to | what is hard | what makes it correct |
|---|---|---|---|---|---|
| **fee-crank** | one tick at a time; `epoch_snapshots` | a tick harvests, processes, burns, or takes a snapshot, commits its root and saves the leaves | fee_collector, nxs_staking, a database | others crank the same epochs between its awaits; lost transactions; a restart between commit and save | an elapsed epoch closes; the leaves it serves fit the amount |
| **iacp** | sockets, the table of topics, one stream and group per topic, a ring for replays, the anchor pool | connect, subscribe, publish, read, dispatch, acknowledge; enqueue, submit, retry | Redis streams, the chain (memos) | subscribing awaits the group while the pump runs; failed acknowledgements, resent commands, restarts; a bounded queue with retries | order per topic, nothing lost between group and sockets, the pump and the anchors go on |
| **discovery** | webhook subscriptions, events and deliveries in memory and a file; a cursor in the database | subscribe, emit, replay, dispatch, retry; poll, emit, advance | the indexer's table, subscribers' endpoints | a crash between any two writes; endpoints that fail or are slow; rows that do not parse | bounded attempts, every delivery settles, no row is skipped or read for ever |
| **compute-broker** | bonds in memory and a file, leases at two providers, the indexer's copy | reserve, lock, release, slash, cancel, expire; direct lease calls | GPU providers, the indexer | two requests for one lease; a provider call that fails after the bond changed; restarts | a bond is promised to one task; a client that was told of an end can rely on it |
| **x402-gateway** | nothing outside one request; tasks on the chain | proxy a request, pay a 402, retry, finalize | the upstream, task_market | several payments in one request, transactions that land unseen, expiry under the gateway, a wait of a whole dispute window | the gateway releases only what was served, and answers |
| indexer | cursor per program, events, reorg log; settlement worker on a Redis stream | poll a page, roll back, settle | the chain, a database | the reorg watcher and the poller share the cursor; a page that does not reach the cursor skips what is older (poller.rs:73); a worker that dies before it acknowledges (worker.rs:194) | every finalised event once |
| xrpl-bridge | settlements by hash in Redis | settle a payment | XRPL, task_market | its settlement transaction has no signature of the recipient and no verification, so it can only be simulated | one settlement per payment |
| proof-gen, buyback-bot | a job queue, one periodic swap | enqueue, prove; swap | BullMQ, Jupiter | little of their own | |
| mcp-bridge, telegram-bot, SDKs, portal, circuits, scripts | none of their own | | | stateless, generated, user interface or arithmetic over a field | |

## 2. Modules

| module | what it is |
|---|---|
| `TaskMarket` | the task market program |
| `TaskEscrow` | what the task market promises about a payment: offered, held, then paid or refunded once |
| `MCTaskMarket` | instances, fairness and liveness of the task market |
| `TaskMarketProofs` | its theorems: types; escrow, payee and refinement; bonds and bids; what re-opens an award; honest bidders |
| `ArbitratorSelection` | running sums of stakes and what a seat for an offset is |
| `WeightedSelect`, `MCWeightedSelect` | the loops of `weighted_select`, step by step, and small pools for them |
| `DisputeArbitration` | the dispute program; it uses `ArbitratorSelection` for the draw |
| `DisputeOutcome` | what the dispute program promises about a case |
| `MCDisputeArbitration` | instances, fairness and liveness of the dispute program |
| `DisputeArbitrationProofs` | theorems about both: the draw and its loops; types; verdicts, bench, tallies, appeals, bars, refinement and finality |
| `TreasuryStandard` | the treasury program without the yield strategies |
| `MCTreasuryStandard`, `TreasuryProofs` | its instances and its theorems |
| `Sums` | the sum of a function over a finite set, as a fold |
| `FeeCollector` | the epochs and vaults of the fee collector program |
| `FeeCrank`, `MCFeeCrank`, `FeeCrankProofs` | the fee-crank service composed with `FeeCollector`, its instance and its theorems |
| `AnchorPool` | the bounded pool of the iacp service that writes memos |
| `IacpBus`, `MCIacpBus`, `IacpProofs` | sockets, streams and the pump of the iacp service, composed with `AnchorPool`; theorems about the streams and the pool |
| `WebhookHub`, `MCWebhookHub`, `WebhookProofs` | webhook hub, its file and the event producer of discovery |
| `ComputeBroker`, `MCComputeBroker`, `ComputeBrokerProofs` | bonds, leases and snapshots of the compute broker |
| `X402Gateway`, `MCX402Gateway`, `X402Proofs` | one request of the x402 gateway over the life cycle of its tasks |

Conventions that all modules share:

* A Solana transaction is atomic and its accounts are locked, so an instruction
  is one action. Interleavings are those of transactions; a failed transaction
  changes nothing and is no action.
* An account that does not exist is a record with a status `"Absent"` (or
  `live = FALSE`), so that creation, closing and re-creation are visible.
* Time is the cluster clock `now`, advanced by `Tick` up to `MaxTime`. Windows
  and graces are constants, scaled down; basis points keep their real scale.
* Amounts are natural numbers. Every checked subtraction of the code is a guard
  (or a quantity that an invariant shows to be covered); no sum of the models
  can reach the width of u64.
* A Token-2022 mint may withhold a transfer fee. `Received` is what arrives of an
  amount: the fee in basis points, rounded up, taken from every transfer, those
  between the program's own accounts included. It is a property of the mint
  that stays as it is (`transferFeeBps` of the task market, `FeeBps` of the
  treasury, `TransferFeeBps` of the fee collector); the maximum fee of the
  extension and changes of its rate are not modelled. Without a fee `Received` is
  the identity, and a property that needs it says `Lossless`.
* Signers are part of a guard through who may own the account; where the code
  accepts any account (the destination of a slashed bond, the cranker), the
  model chooses it freely.
* A handler of a service runs alone until it awaits something (JavaScript has
  one thread), so it is one action up to its first await and one per return. A
  call that is awaited can be answered, fail, or take effect and fail to be
  answered. A crash forgets what is in memory and keeps files, databases and
  the chain; `MaxFailures` and `MaxCrashes` bound such events.
* Events, rent, account sizes, PDAs, metrics and logging are left out.

### TaskMarket

`task`, `book` and `bid` are the accounts; `escrow`, `bondEscrow` and `wallet`
are token balances; `market` is `MarketGlobal`; `registry` and `hookOk` are what
the program reads of agent_registry and fee_collector, which change under
`RegistryStep` and `UpdateHookAllowlist`. `rounds` only counts the
`open_bidding` calls for the bound `MaxRounds`. Four variables are history that no
action reads: `outcome`, how the payment of a task has left its escrow;
`reopened`, the tasks whose bidding was opened again after an award;
`freeAward`, the tasks once awarded to a bid without a bond in escrow; and
`net`, what each operator has paid for bonds on a task and was not given back.
The slashed part of a bond goes to any account of the mint, since
`claim_bond` looks at nothing else, and anybody may send a token to an empty bond
escrow (`Gift`).

An agent is known to the code by two fields: `agent_did`, chosen by the client,
and `assigned_agent`, set by `close_bidding`. `AgentMatches` keeps the rule of
the source, which looks at one while a book exists and at the other afterwards;
this is where the hard interleavings are. A commitment is the bid that was
hashed: revealing either presents it (`RevealBid`) or something else
(`RevealMismatch`, which slashes). Proofs are a choice: a result is provable or
it is not. A personhood gate is a Boolean of the task and the set of attested
operators. `close_bidding` takes the bids the cranker passes; the model
quantifies over every subset that the count in the code admits.

`TaskEscrow` has one `deal` per task (offered, held, delivered, contested, then
paid or refunded) and what is held for it; only an uncontested delivery is paid
and only a missing or contested one refunded, each as a whole and at most once. A
delivery can be set aside, which is what a re-opened book does. `DealOf` maps the
status to the stage until the payment has left; from then on `outcome` is the
stage, because the code may write the status of a finished task once more.

### DisputeArbitration

`dc` holds the cases, `vote` the vote records by round, `arb` the arbitrators,
`pool` the snapshot, `pending` the slashes. The program moves no tokens and
takes stakes and locks from its caller, so the model does as well. A VRF
result is an arbitrary draw: `ConsumeVrf` takes any offset for every seat and
probes as the code does, through `ArbitratorSelection`. Windows are integers as in
the code, negative ones included.

`WeightedSelect` has the loops themselves (draw, binary search, probe) with a
program counter. `SelectionExplained` compares its bench with a definition that does
not search: the first member whose running stake reaches the offset.

`DisputeOutcome` has one phase per case, the number of hearings and the verdict.

### TreasuryStandard

`treasury`, `stream`, `targets` and `global` are accounts, `vault`, `escrow` and
`wallet` balances by mint. `Rollover` is the lazy reset of the two counters;
`UnixDay` and `IsoWeek` are the calendar of the source. Withdrawals take a
price feed (price, confidence, age), which is rejected as in the code; decimals
and exponents are one scale, `PriceUnit`. A swap spends any part of what is
claimable and pays at least the minimum the oracle gives. The stream
instructions take a treasury that need not be the one of the stream's agent, and
`close_stream` any token account of the mint for the refund, so the model
quantifies over both. `hooks` and `agentHooks` are the two hook allowlists of
fee_collector. `gifts` and `spent` are history that only a bound reads: what
others sent to the escrow of a stream, and the value that left a treasury
today and this week, at the prices of its withdrawals and before rounding, with the
highest limits in force meanwhile. A treasury stands for its agent,
a stream for its account, which is never reused. That `init_treasury` asks for an
active agent and its operator is left out. `pay_task` always fails in the
code and is left out.

### FeeCollector and FeeCrank

`epoch` holds the `EpochAccount`s with the claims made from them, `intake`,
`burnVault` and `stakerVault` the balances. Every transfer loses the mint's
transfer fee on its way (`Received`), the internal ones too; a transfer that its
source does not cover makes its instruction impossible. `record_intake` only
raises the total, and tokens come in by a transfer of their own (`PayIn`). A merkle root is the
shares its leaves hold. `FeeCrank` extends the program with the tick of the
service: `pc` is its await, `seen` the epoch it fetched, `db` the table the proof
API serves from. Everything the tick does anyone may do in between (`Others`).

### AnchorPool and IacpBus

`stream`, `group` and `pending` are what Redis keeps of a topic (its length, the
last entry delivered to the group, the entries not acknowledged); sockets, the
table `subscribers`, the pump's `batch` and the ring are in memory. `sub`
writes the table, awaits the group and then joins, as in the code, so the pump
sees topics without a group. The pool of anchors is a queue, the submissions in
flight and the timers of retries; `received` and `dispatched` are history.

### WebhookHub

`subs`, `events` and `deliveries` are the hub's maps, `cursor` the row of the
database. The file is written at every call of `persistState`; only events can be
in memory and not yet in the file, so `saved` is the file's events. An emit
writes once per delivery: `CrashInEmit` ends the process between two of these
writes. An event of the API has any id its caller chooses, the id of a row too, and
a start whose `ensureSchema` fails goes on without the producer until the
next one. `subsAt` and `shadowed` are history: the subscriptions when a row
was committed, and the rows whose id an event of the API held when the producer
came to them. The indexer's insertion of a row is taken from its `ingest.rs`.

### ComputeBroker

`bonds` is the registry, written to its file in the step that changes it;
`lease` is what the provider holds, `snapshot` the indexer's copy, `handler`
what each request in flight holds in its local variables, the record it may write
back included, `stray` the calls to the provider whose broker has died and that may
still arrive. The time of a sweep is the one in its request body, on both
sides of the comparison (server.ts:653, 684), so a caller can expire a bond before its
slash window ends. The store file is optional in the code and taken as configured.
`told`, `overlapped`, `undone` and `outside` are history: what clients were told,
the leases with two requests in flight at once, those whose lock was rolled back
under another request, and those a call changed past the requests in flight. Two
requests for one lease that overlap are modelled.

### X402Gateway

`task` and `passed` are the tasks the request has paid and the times of theirs
that are over (a reduction of `TaskMarket` to what the gateway reads); `pc`,
`attempt`, `receipts` are the handler. Others submit and verify results
of recipients whose key the gateway does not hold, release and expire.
`Throws` has every error, with and without the transaction having landed. The
finalization is the straight line of the source: submit, verify and release are tried
at most once each, depending on the status read last, and a read may lag, find no
task or no recipient. `unseen` is history: such a read has happened. Of the
refusals of a request only their being possible is modelled (`Reject`).

## 3. Runs

| run | what it asks | instance |
|---|---|---|
| `task_lifecycle` | Is the escrow paid exactly once while governance and the registry change everything around it, with and without a transfer fee? (`EscrowBacked`, `ImplementsEscrow`) | one task, two agents, payments of 10 and 400, deadlines around both bounds, fees, windows, pauses, mints and hooks that change, a mint with a fee of 0 or 1 percent, no bidding |
| `task_bidding` | Bids, bonds, winners and books that are re-opened, over an award too; does every deposit leave the escrow? (`EscrowBacked`, `WorkerIsPayee`, `ReopenTakesFreeAward`, `BondsCovered`, `BestBidWins`, `HonestBidderWhole`, `ImplementsEscrow`, `EscrowDrains`) | one task, two bidders, bids of 5 and 10, a payment of 400 with a bond of 2 and one of 10 whose bond is 0 (50 bps), two rounds, gifts to the bond escrow |
| `select_draw` | Does the selection seat distinct members, as many as asked and the right ones, and end? (`SelectionExplained`, `SelectionEnds`) | every pool of up to three members with stakes 0 to 2, up to four seats |
| `dispute_cases` | Votes, ties, appeals and second rounds while the arbitrators and the pool change (`VerdictHasMajority`, `VotesFromBench`, `AppealHasGround`, `TallyMatchesVotes`, `ImplementsOutcome`, `BarsHold`, `CasesClose`) | one case, two arbitrators with weight 1 each, one of whom registers, leaves, comes back, changes its stake and is slashed up to twice; benches of one and two; pools of one and two members; a pause and other parameters |
| `treasury_streams` | Streams and limits with two treasuries and a mint with a fee (`EscrowShortOnlyByFee`, `NothingLeftBehind`, `LimitsHold`) | two treasuries, one stream, a mint without and one with 10 bps, a price that is rounded, gifts, from a Sunday to a Tuesday |
| `fee_epochs` | Do epochs keep to their part of the vaults, do the served leaves fit, and does the crank close every elapsed epoch? (`StakerVaultShortOnlyByFees`, `ServedLeavesFit`, `ElapsedEpochCloses`) | three epochs, two intakes of 10, two stakers, the default split, one administrative change, one failure |
| `iacp_bus` | Order and completeness of what sockets see; do the pump and the anchors go on? (`PerTopicOrder`, `DeliveredIsDispatchedOrPending`, `StreamsDrained`, `AnchorSettles`) | one socket and POST /publish, a task topic with two entries and an inbox, one worker and one place in the queue, one failure |
| `webhook_deliveries` | Do deliveries end with bounded attempts, and are rows consumed, over crashes? (`AttemptsBounded`, `FirstSubscriberServed`, `DeliverySettles`, `RowsConsumed`) | a malformed row and a good one, two subscriptions, one event of the API with an id of its own or of a row, two attempts, one failure, starts without the producer |
| `compute_bonds` | Can clients and the indexer rely on what the broker said? (`SingleBind`, `ToldEndReclaimed`, `SnapshotNeverAhead`, `SettledBondStays`) | one lease, two tasks, two requests in flight, one restart, one call that arrives after it, sweeps at any time their caller names |
| `x402_proxy` | Is only served work paid, when is success answered over a full escrow, and is every request answered? (`PaidOnlyAfterService`, `FullEscrowOnlyUnseen`, `RequestAnswered`) | up to three payments, a managed, an unmanaged and a too expensive demand, reads that lag or find nothing, one failure |

Two runs find a statement of the repository that the code does not meet.

`task_escrow_balance` checks what specs/07-program-task-market.md:268 states,
that the escrow holds the payment exactly while the status says so, as
`EscrowBalance`. `close_bidding` without reveals sets the status to `Funded`
whatever it was (close_bidding.rs:178). With a bond that rounds to zero (a
payment of 10 at 50 bps), the book of an awarded task can be closed and
bidding opened again; the earlier winner still passes `release`, or the task `expire`,
and the empty second round then makes a finished task `Funded` over an empty
escrow (specs/07:114 calls these states terminal). `EscrowBacked` of `task_bidding` is
what holds until such a re-opening, `ReopenTakesFreeAward` says what it takes, and
`ImplementsEscrow` that even then no payment is made twice.

`webhook_at_least_once` checks what event-producer.ts:14 says, "At-least-once",
as `EverySubscriberServed`. `emit` writes the file with every delivery it makes;
a crash after the first of two leaves an event the hub knows, so that the
row, emitted again after the restart, is a duplicate and the second subscriber
never gets it. `FirstSubscriberServed` of `webhook_deliveries` is what is left of
the promise.

Further differences between the documents and the code that were met while
modelling; the models follow the code. The first four were found by TLC as
counterexamples to the statement; the formula is given where it is short.

* A case is resolved without a verdict: `resolve_dispute` is open to anyone and
  does not look at the verdict (resolution.rs:113), while voting.rs:257 leaves a
  second round without majority to a review by the authority. Violated:
  `dc[c].status = "Resolved" => dc[c].verdict # None`.
* The weight of a vote is the stake at the reveal (voting.rs:162) and not at
  `commit_vote` (specs/program-dispute-arbitration.md:362); `refresh_stake`
  comes in between. `TallyMatchesVotes` is about the weight that the vote record
  has then.
* One dispute can cost more than `max_slash_bps`
  (specs/program-dispute-arbitration.md:358): after a slash was executed the
  same case can be used for another (slashing.rs:44).
* A pause can trap a stream (specs/04-program-treasury-standard.md:214 says that
  `close_stream` stays available): it needs the agent's vault of the payer mint
  (close_stream.rs:52), which only `fund_treasury` creates, and that is paused.
  Violated: `ENABLED CloseStream(s, ...)` for every active stream of a paused program.
* A result verified late has a dispute window that is already over, because the
  window counts from the deadline (verify_task.rs:156; specs/07:173).
* The winner's bond is not returned by `claim_bond` after an award and stays in
  the bond escrow (claim_bond.rs:114; pre-audit-02:84), so an awarded task with a bond keeps its book.
* A transfer fee is accepted (allow_payment_mint.rs:55, the test at state.rs:722) but
  nothing reckons with it: a payment arrives short, so that `release`, `expire` and
  the timeout refund, which move the whole amount, fail as long as nobody adds what
  is missing (no such gift to a task's escrow is modelled), and the bonds of such a
  mint do not all fit. `EscrowBacked` and
  `HonestBidderWhole` hold with a fee; `BondsCovered` and
  `ReopenTakesFreeAward` say `Lossless`.
* A token sent to the bond escrow of a cancelled round keeps `close_bid_book` from
  closing the book (close_bid_book.rs:52), and with it the refund of the payment, as an unclaimed bond does:
  `Wedged` of `EscrowDrains`.
* The destination of a slashed bond is only checked for its mint
  (claim_bond.rs:57; pre-audit-02:85).
* A pause blocks `release` (release.rs:102; specs/07:288), and an unclaimed
  bond keeps `expire` from the agent of a closed book (expire.rs:100; specs/07:283).
* An offset on the boundary of two running sums belongs to the earlier member
  (state.rs:239; program-dispute-arbitration.md:225).
* A bench that never reveals leaves its case in `Committing` (voting.rs:222;
  :170); an appealed case whose second bench is larger than the pool can neither be
  drawn (dispute.rs:135) nor cancelled (dispute.rs:199); a late tally shortens or
  removes the appeal window (resolution.rs:47; :264); `refresh_stake` with too little
  stake and a further slash write `Paused` over `Slashed` (arbitrator.rs:100,
  slashing.rs:72; :289 calls the bar permanent); a pause does not block `reveal_vote` (:375
  says it does); nobody may appeal a Split (resolution.rs:59).
* A mint with a transfer fee can be allowed without any check
  (allowed_mints.rs:27; specs/04:46 lists SAEP), and then the escrow of a stream lacks the
  fee on the deposit: `close_stream` moves the whole rest and fails until somebody
  gives the escrow the difference. `EscrowShortOnlyByFee` and `NothingLeftBehind`
  say how much.
* `close_stream` takes any treasury (close_stream.rs:122 clears the flag of the one it is
  given), while specs/04:199 has the flag equal to an active stream: closing with
  another treasury pays the agent's earnings into that one's vault, clears that
  one's flag, and leaves the flag of the stream's own treasury set for ever. Violated:
  `treasury[t].streaming => \E s \in Streams : stream[s].agent = t /\
  stream[s].status = "Active"`.
* The price account of `withdraw` is optional, although withdraw.rs:47 has it
  "Required for non-USDC mints", and is not tied to the mint: without it a
  withdrawal counts at its face value. `LimitsHold` is about the values at the
  prices that were given.
* `set_limits` may lower a limit below what was already spent
  (set_limits.rs:34; specs/04:197), which is why `LimitsHold` compares with the
  highest limit of the period; a swap may leave a remainder in the escrow
  (withdraw_earned.rs:224; specs/04:200), which is why `NothingLeftBehind` is
  about streams paid in their own mint; and the agent's own list of call targets is an optional
  account, so that the global list decides when it is omitted (state.rs:255).
* fee_collector: `sweep_stale_epoch` credits the next epoch with the whole
  residual while the intake vault receives it less the transfer fee (10 bps,
  specs/token2022-saep-mint.md), so that the intake no longer covers the total
  and `process_epoch` fails until somebody tops it up
  (specs/program-fee-collector.md:311 has the two equal; TLC violates
  `intake >= epoch[CurrentEpochId].total`). This is the last excuse of
  `ElapsedEpochCloses`. A sweep into an epoch that is closed already strands its
  tokens in the intake vault; `execute_burn` accepts a swept epoch and then burns
  the share of another (:315); burn, commit, claim and sweep ignore a pause
  (:259). For the same reason the last claim or burn of an epoch finds its vault
  short by the fee, which tests/bankrun_fee_epoch_lifecycle.ts:293 tops up by hand.
* fee-crank only looks at the epoch before `next_epoch_id`, which is the open one;
  its burn and snapshot branches (worker.ts:284) run only when somebody else
  processes the epoch between its two reads (specs/program-fee-collector.md:368
  gives it these steps). A snapshot is saved even when its commit failed
  (snapshot.ts:148); `ServedLeavesFit` is therefore about roots that are the
  committed ones.
* x402-gateway: the budget is compared with each payment and not with their sum
  (settlement.ts:602; specs/integration-x402.md:40 "across retries"); a 402 that
  comes on the last attempt is paid although no request presents the receipt
  (server.ts:244); success is answered over a full escrow when a read of the
  finalization finds nothing or lags (settlement.ts:758, 771, 798, 817), and
  `FullEscrowOnlyUnseen` says that this is the only way; error answers leave out the receipts of earlier payments; the
  nonce of a request is signed and not remembered (server.ts:221), so that a
  repeated request pays again.
* compute-broker: of two overlapping locks of one lease the one that fails writes
  the record back that it read before its await (server.ts:464), over the
  other's lock, although specs/compute-bond.md has `locked_to_task` set atomically:
  the leases in `undone`, which `SingleBind` excludes. A sweep takes its time from
  the request (server.ts:653, 684; the test server.test.ts:553 does so), so that a locked
  bond can be expired before its slash window ends. A cancellation refunds the
  lease before it asks whether the bond may be cancelled (server.ts:527): a
  locked bond is left without its machine.
* iacp: entries that were delivered to the group and not acknowledged are never
  read again (server.ts:232; specs/08-iacp-bus.md:94 has them redelivered):
  `DeliveredIsDispatchedOrPending` counts them as pending for good. An XADD that is sent
  again makes a second entry, which `PerTopicOrder` takes for what it is.

### Bounds, and why they are enough

* `MaxTime` is larger than the sum of the windows one task or case goes through
  (commit, reveal, deadline, grace, timeout; commit, reveal, appeal, twice), so
  that every timeout happens, before and after its competitor. `MaxCreateTime`
  and the start of a case at time 0 only fix the origin: handlers compare times
  with times counted from there.
* `MaxRounds` 2 gives one re-opened book. `MaxSlashes` 2 gives a second slash.
* One task and one case: accounts of different tasks and cases share nothing but
  parameters, the arbitrators and wallets. Treasuries share more, since a
  stream instruction accepts any of them, so there are two. The theorems hold for any
  number.
* Two bidders give every order of bids, ties and stale bids; two arbitrators
  with a stake of 1, or of 0 for one of them, give a bench with an outsider, votes
  without weight, an odd weight, an exact half and a second bench of everybody. The
  case is raised at time 0 and only one of the arbitrators changes, which the other's
  changes would mirror.
* Three time steps over a week's end give a change of day with and without a change
  of week. `FewChanges` keeps governance at most one change from its deployed
  state (two with the hook allowlist wired); changes of governance do not
  depend on each other. With two treasuries nothing is withdrawn: limits and
  counters are each treasury's own.
* Sums are chosen around the interesting values: 50 bps of 400 is 2 and of 10
  is 0, both in `task_bidding`; 10 bps of 2 are rounded up to 1; a price of 150
  for a unit of 100 is rounded down; deadlines -1, 2 and 4 are before, between and after the bounds; fees of 101
  bps are refused.
* Symmetry: the two treasuries, the tasks and slots of `compute_bonds`; only with
  safety properties.
* Services: one failure anywhere (a lost answer, an error, a crash) is enough
  for a first recovery from every state. Two entries in a topic and two
  subscriptions of one event give an order and a second one to forget; a queue
  of one and one worker make the queue full; two attempts give a first, a
  retry and a last one; two requests in flight give every overlap of two. Three
  payments in a request give a first, a middle and a last one. Two stakers of
  powers 1 and 2 give shares with dust, three epochs one that is swept into the
  next while a third is open.

### Fairness

`EscrowDrains` assumes that the clock advances, that the permissionless cranks
(`verify_task`, `release`, `expire`, `disputed_timeout_refund`,
`close_bidding`) are sent when they stay possible, and that the client closes a
finished book. The first are sent by whoever gains from them, and the client needs the
book closed to be refunded. Nothing is assumed of the bidders, of the agent's work, of
reveals or of the proof; a cancelled round whose bond escrow is not empty
(`Wedged`) is the one thing that keeps a payment for good. The instance has no
pauses and no transfer fee: under a pause nothing is promised, and a payment that
arrived short stays.

`CasesClose` assumes the clock, the VRF delivery (by the authority) and the
permissionless `cancel_stale_vrf`, `tally_round` and `resolve_dispute`. Nothing is
assumed of the arbitrators. The property names the two states that no crank leads out
of, a bench that stayed silent and an appealed case whose second bench cannot be
drawn, and windows that the bound of the clock cuts off; it says that there is no
other dead end.

`SelectionEnds` only assumes that the loop keeps running.

The services: calls return or fail (fetches have timeouts, Redis and the
database answer), timers fire, a loop or interval runs again, a process that
died is started again (WebhookHub), and the clock runs. A start of WebhookHub may go
without the producer; `RowsConsumed` excuses a process that runs for good like
that. A POST that nobody answers ends with the default timeout of fetch. Nothing is
assumed of
subscribers, upstreams, stakers or other crankers. `StreamsDrained` excuses a
topic without an entry in the table and a pump that was shut down,
`ElapsedEpochCloses` a pause and an intake vault that cannot cover the total.
`ComputeBroker` has safety properties only.

## 4. Theorems

All for every value of the constants, from the named assumptions of the
modules: types of the parameters, finite sets where something is counted,
positive sizes, valid initial settings (`ConstantsAssumption`,
`GovernanceAssumption`, `DisputeAssumption`, `FeeAssumption`,
`PowersAssumption`, `BusAssumption`, `AnchorAssumption`, `HubAssumption`,
`BrokerAssumption`, `GatewayAssumption`). TLC evaluates them on every instance.

| module | theorems | say |
|---|---|---|
| `TaskMarketProofs` | `TypeCorrect`, `BondsAlwaysCovered` | types; every bond still owed is covered |
| | `EscrowAlwaysBacked`, `PayeeDidTheWork`, `CheapestBidAlwaysWins`, `HonestBiddersStayWhole` | of every task whose bidding was not opened again after an award: the escrow holds what came in until it leaves once, the payee did the work, the winner is a cheapest revealed bid, and a bidder that revealed and lost has lost nothing |
| | `OnlyFreeAwardsReopen` | such a re-opening takes a winner without a bond in escrow |
| | `MarketImplementsEscrow` | `TaskMarket` implements `TaskEscrow`, re-opened or not |
| `DisputeArbitrationProofs` | `DrawLandsInPool` | every offset below the total stake has a seat, in the pool |
| | `SelectionAlwaysExplained` | the loops of `weighted_select` fill the seats with different members, each the first free one from the member whose running stake first reaches the offset |
| | `TypeCorrect`, `VerdictAlwaysHasMajority`, `OnlyTheBenchVotes`, `AppealsHaveGround`, `TalliesAlwaysMatch`, `ArbitrationImplementsOutcome` | types, the safety of verdicts and the refinement |
| | `BallotsAreFinal`, `ClosedCasesAreFinal` | action properties: no step changes a committed verdict, a revealed ballot or a closed case |
| | `BarsAlwaysHold` | action property: what lifts a bar |
| `TreasuryProofs` | `TypeCorrect`, `StreamsAlwaysCovered`, `ClosedStreamsAreEmpty`, `LimitsAlwaysHold` | types, the safety of streams and limits |
| | `StreamsKeepTheirTerms` | action property: no step takes more out of an escrow than it books, or changes the terms of a stream or a closed one |
| `FeeCrankProofs` | `VaultLacksOnlyFees`, `ServedLeavesAlwaysFit` | no epoch takes another's part of the staker vault; served leaves add up to what is still owed |
| `X402Proofs` | `PaymentFollowsService`, `FullEscrowTakesUnseenRead` | only served work is paid; success over a full escrow takes a read that missed or lagged |
| `IacpProofs` | `TopicsInOrder`, `NothingSkippedSilently` | order per topic; nothing handed out is lost |
| | `AnchorPoolStaysSound` | the workers of the anchor pool are all busy while something waits, and no envelope is in two places |
| `WebhookProofs` | `DeliveriesPostedBoundedly`, `OldestSubscriberServed` | attempts are bounded; the cursor passes no row nobody got |
| `ComputeBrokerProofs` | `OneTaskPerBond`, `UndoneOnlyByOverlap` | a bond is promised to one task, unless a lock others count on was rolled back, which takes overlapping requests |
| | `EndsToldAreReclaimed`, `IndexerNeverAhead`, `EndedBondsAreFinal` | what clients and the indexer were told of an end holds; an end is final |

**Task market: payments.** Every invariant is a statement about one task, and
`Elsewhere` says that an instruction leaves the other tasks alone. `EscrowInv` has
three parts. `Payment` needs no condition: until the payment has left, the escrow
holds what `fund_task` brought in, whatever the status says later; that is what the
refinement rests on. `Named` says that the two fields that name an agent agree
after an award and that a submitted result has an author. `FirstAward` is what
holds until bidding is opened again after an award (`reopened`): a payment that has
left shows in the status, an open book freezes the task, and `AgentMatches` accepts
the author of the result. `AwardFor` adds for the best bid that reveals are
counted exactly, and that no revealed bid survives a round without an award, which is
what keeps a cranker from leaving one out and a stale bid from winning.

**Task market: bonds.** `BondInv` says that a task without a book has no bonds, that all bonds
still owed are those of the current book, and that the bond escrow is at least
the bond times the number of the bidders it is owed to, for a mint without a fee.
`Kept` is about a task that was awarded to a bid with a bond in escrow: its book
is settled, and the bond escrow holds the winner's bond on top of what the
others are still owed (`Retained`), which `claim_bond` leaves there and for which
`close_bid_book` refuses the book. A winner without a bond in escrow
(`freeAward`) comes about in two ways: the bond rounds to zero for a small payment
(state.rs:238 divides with a floor), or the bid is one of a cancelled round whose
bond was claimed and whose account was not closed, which `reveal_bid` lets in with its
old commitment (reveal_bid.rs:58 asks only whether a bid was revealed or slashed
before). That second way needs three rounds to re-open a book, so `task_bidding`
meets the first one only; it was found in the induction.

**Task market: bidders.** `WholeFor` compares `net`, what a bidder has paid for
bonds on a task, with what it can still claim: before an award they are the
same for everybody, afterwards for the bidders that revealed and lost. It needs no
assumption about other tasks, the client or the mint, since `net` counts what the
bidder paid, not what arrived.

**Disputes.** `Inv` is the type invariant with six facts per case: untouched
cases are empty, rounds happen in order, ballots are those of the current
round, votes come from the bench, an appeal has a ground, and the majority is
the one of the tallies. `CountInv` adds that the tallies are the sums of the
weights revealed for either side. `ImplementsOutcome` follows with the mapping in which a
verdict counts only while the case is tallied or resolved, since the code
overwrites it when a second round starts. `AppealInv` keeps the ballots of the
first round for as long as an appeal is on record: the second round changes the
tallies and not those. `BarInv` is why bars hold: nobody is barred while a
slash is pending, since executing the last one is what bars.
`BallotsAreFinal` rests on `CountInv`: `commit_vote` asks only whether the record
exists, so a revealed ballot is safe from it because a revealed record exists in
every reachable state, and a reveal is by the bench because `BenchVotes` says so of
the commitment. `ClosedCasesAreFinal` rests on `Untouched`: `raise_dispute` writes
whatever case the counter names, which is a new one.

**The draw.** `SelectInv` says of the loops of `weighted_select` that every seat
has its offset, that a filled seat went to the first free position from where the
offset landed, that the probe of the seat under way has met taken positions only,
and that the loop over the seats is left early only when everybody sits, since a
full round of probes visits every position. Where the binary search lands needs the
sums to be ordered (`SumsOrdered`). `DisputeArbitration`
draws its benches from `Selections`, so the two models meet there. `NextFree`
is a least element and not a loop, which is why no induction is needed.

**Sums.** What a fold computes needs induction over the size of a set, which
the provers cannot take from the library. The lemmas about running sums and about
`SumOver` use the least counterexample instead: the set of the sizes for which a
fact fails has a least element because the naturals are well-founded, and the
step below it contradicts it. `DisputeArbitrationProofs` and
`FeeCrankProofs` each have the few lemmas that they need.

**Treasury.** `Inv` has two parts. `StreamInv`: a stream started in the past,
paid at most what was earned, and its escrow together with the fee on the deposit
(`Withheld`) holds at least the deposit less what was withdrawn and what others gave,
exactly that for a stream paid in its own mint; once closed only gifts are
left in such an escrow. `LimitInv`: the counters, rolled over to today, are worth
at least what really left (`Worth`: every priced withdrawal is rounded down by less than a unit),
the limits are at most the peaks, and the dates of the counters are not ahead of the
calendar. `StreamsKeepTheirTerms` compares the two sides of a step and holds
whichever treasury the instructions are called with: a swap may spend
less than what it books, and what it leaves stays in the escrow of the closed
stream for good.

**Fee crank.** `CrankInv` is `ProgramInv`, about the program alone (epochs are
numbered without a gap, claims are counted and distinct, the vault identity), and
`ServiceInv`, about the values the tick holds over its awaits: from the
snapshot on it works on a closed epoch, whose staker amount is what its shares
add up to. The two meet in `ClosedKept`: whatever anyone does, a closed
epoch stays closed and keeps its staker amount. `SharesPayPool` is the
arithmetic of the snapshot: floors by power and the dust to one staker make up
the pool.

**x402.** `GatewayInv` adds `Flow` to the two properties: a payment is read back
only when there is one, finalization works on the last receipt, which was
served, and submits, verifies and releases for managed recipients only, a
transaction it has sent has taken effect when the task is read again, and there is
no answer before the end. Whoever acts, the chain only moves tasks forward
(`TaskStep`).

**IACP.** `BusInv` orders the four places of an entry: what sockets received
comes before what is in the pump's batch, that before what the group has not
delivered, and the batch itself is in order; and what the group has delivered is
dispatched, in the batch, or pending. The first entry of a batch may have been
dispatched already while its acknowledgement is awaited. `PoolInv` is about the
anchor pool: the queue, the workers and the timers hold different items, each of
them an entry that its stream has. That makes the next entry of a topic a new
item, and `maybeStart` fills the workers from different items
(`MaybeStartFills`), which is the counting argument behind "no worker idles". It is
the safety half of `AnchorSettles`. `PoolSound` is not one of the properties of the
run `iacp_bus`; TLC found it to hold on that instance before it was proved.

**Webhooks.** `PostInv` bounds the attempts: a delivery that waits for its timer
has one left, and so has every delivery while the process is down; the bound counts
every failure. `RowInv` says that the rows up to the cursor, and
every row whose event the hub knows, have a delivery for the oldest subscription
that wanted them, unless an event of the API held the row's id, which is why the crash between two deliveries of one event
loses only the later ones.

**Compute broker.** `BindInv` is about all leases but those in `undone`, overlaps
included: a lock that a client was told of is the bond's, and a request in flight
agrees with the bond on the task (`Agrees`), so that its rollback frees a bond only
when nobody counts on the lock. `BrokerInv` says for every lease without overlapping
requests that one request at most is in flight (`OneInFlight`), that the record it may write
back is as good as the current one for everything that was told (`HandlersFit`
with `Faithful`), and so for the bond itself (`BondsFaithful`); and that a bond
that has ended is only touched by a rollback that found it so.

**Only model-checked.** Liveness (`EscrowDrains`, `CasesClose`,
`SelectionEnds`, `ElapsedEpochCloses`, `StreamsDrained`, `AnchorSettles`,
`DeliverySettles`, `RowsConsumed`, `RequestAnswered`), which is out of the prover's
reach. Every safety property that a passing run checks is also proved, as it stands in
the run.

## 5. Not modelled

* The reentrancy guards and the authority hand-over of the modelled programs.
  The guard of a program is set and cleared within one transaction and is only
  visible to programs it calls; it belongs into a module that composes
  programs.
* The yield strategies of the treasury (`yield_automation.rs`); the token bridge
  and the confidential harvest of the fee collector.
* Cryptography: commitments are opaque, proofs and VRF outputs are choices.
* Of the modelled services the read-only endpoints, authentication, signatures
  and rate limits, which only refuse a request, and metrics.
* The programs and services that section 1 does not print in bold; the reasons
  are in `PROJECT.json`.
* Most of the repository's TypeScript: of 92,590 lines, 42,000 are the SDK, 34,000
  of them generated from the programs' interfaces, 20,500 the portal and
  8,000 other user interface, plugins and documentation. None of it keeps state
  of the protocol. The services are 11,700 lines; the five modelled ones are
  8,000, of which half are schemas, configuration, SQL, rendering and metrics. The
  Rust programs, where the protocol's own state is, are not TypeScript and come
  on top.

## 6. Plan

1. `AgentRegistry`: stake, withdrawals, slashes and their timelocks, reputation.
   Properties: the vault covers the stakes, a pending slash cannot be escaped by a
   withdrawal, a request can always be executed in the end.
2. `Indexer`: the poller's cursor and pages, the reorg watcher, the settlement
   worker, with crashes. Property: no finalised event is skipped.
3. `TreasuryYield`: strategies, principal and reported returns.
4. `GovernanceProgram`, `NxsStaking` and `ProofVerifier`: timelocks, snapshots and
   activation.
5. `Guards`: the guard state machine composed with the calls between
   task_market, proof_verifier and agent_registry.
