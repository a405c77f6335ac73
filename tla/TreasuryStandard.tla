-------------------------- MODULE TreasuryStandard --------------------------
(***************************************************************************)
(* The treasury_standard program without its yield instructions: the       *)
(* treasury of an agent with its spending limits, its vaults (one token    *)
(* account per mint), the payment streams clients open to it, and the      *)
(* governance of limits, mints and call targets. Every instruction is one  *)
(* action, because a Solana transaction is atomic. A treasury stands for   *)
(* its agent, a stream for its PDA (agent, client, nonce), which is never  *)
(* closed and therefore never used twice.                                  *)
(*                                                                         *)
(* The stream instructions take the treasury and the stream as separate    *)
(* accounts and do not compare them, so the actions take both as           *)
(* parameters. Every transfer is a transfer_checked of Token-2022: a mint  *)
(* may withhold a fee from what arrives, and add_allowed_mint looks at no  *)
(* extension. A token account takes transfers from anybody.                *)
(***************************************************************************)
EXTENDS Integers, FiniteSets

CONSTANTS
    Treasuries,         \* agent DIDs
    OperatorOf,         \* [Treasuries -> Operators]
    Operators,          \* wallets of the operators
    Clients,            \* wallets that pay for streams and fund treasuries
    Mints,
    Streams,            \* stream PDAs
    Limits,             \* [daily, perTx, weekly] an operator may ask for
    Amounts,            \* amounts of fund_treasury and withdraw
    GiftAmounts,        \* amounts of plain transfers
    Rates, Durations,   \* rate_per_sec and max_duration of init_stream
    FeeBps,             \* [Mints -> 0..BPS_DENOM], the transfer fees
    Feeds,              \* price accounts: [price, conf, age]
    PriceUnit,          \* the price of one base unit
    InitGlobals,        \* TreasuryGlobal records after deployment
    PauseChoices, DailyChoices, DurationChoices, MintChoices, TargetChoices,
    HookChoices, DenyChoices,   \* inputs of the governance instructions
    SECS_PER_DAY,
    MAX_ALLOWED_MINTS,
    InitialFunds,       \* [Mints -> Nat], the tokens every client starts with
    MaxGifts,           \* bound: what an escrow receives as gifts
    MaxBonus,           \* bound: what a route pays above the minimum
    StartTime,          \* the clock when the program is deployed
    MaxTime             \* bound: the clock stops here

MAX_STALENESS_SECS == 60
MAX_CONFIDENCE_BPS == 100
DEFAULT_SLIPPAGE_BPS == 50
BPS_DENOM == 10000

ASSUME ConstantsAssumption ==
    /\ OperatorOf \in [Treasuries -> Operators]
    /\ FeeBps \in [Mints -> 0..BPS_DENOM]
    /\ SECS_PER_DAY \in Nat \ {0}
    /\ PriceUnit \in Nat \ {0}
    /\ InitialFunds \in [Mints -> Nat]
    /\ StartTime \in Nat
    /\ MaxTime \in Nat
    /\ MaxBonus \in Nat
    /\ MAX_ALLOWED_MINTS \in Nat
    /\ Amounts \subseteq Nat
    /\ GiftAmounts \subseteq Nat
    /\ Rates \subseteq Nat
    /\ Durations \subseteq Int
    /\ Limits \subseteq [daily : Nat, perTx : Nat, weekly : Nat]
    /\ Feeds \subseteq [price : Int, conf : Nat, age : Int]
    /\ DailyChoices \subseteq Nat
    /\ DurationChoices \subseteq Int
    /\ PauseChoices \subseteq BOOLEAN
    /\ MintChoices \subseteq Mints
    /\ HookChoices \subseteq SUBSET Mints
    /\ DenyChoices \subseteq BOOLEAN

None == "none"
\* Every token account that is neither a vault nor the escrow at hand is one of
\* these: the clients', the operators' and everybody else's.
Others == "others"
Holders == Clients \cup Operators \cup {Others}
\* The programs treasury_standard calls: the token program and Jupiter.
Targets == {"token", "jupiter"}

VARIABLES
    global,      \* TreasuryGlobal, with allowed_mints
    treasury,    \* AgentTreasury, with live = FALSE for no account
    targets,     \* AllowedTargets of an agent, with live = FALSE for no account
    vaults,      \* mints for which the treasury has a vault account
    vault,       \* balances of the vaults
    stream,      \* PaymentStream, with status "Absent" for no account
    escrow,      \* balances of the stream escrows
    wallet,      \* balances of everyone's own token accounts
    hooks,       \* MintAllowlist of fee_collector
    agentHooks,  \* AgentMintAllowlist of an agent; {} also for no account
    now,         \* the cluster clock
    gifts,       \* history: what an escrow was given by plain transfers
    spent        \* history: the value that left a treasury today and this week
                 \* to the last fraction, the priced withdrawals among it, and
                 \* the highest limits in force in the meantime

vars == <<global, treasury, targets, vaults, vault, stream, escrow, wallet,
          hooks, agentHooks, now, gifts, spent>>

TreasuryGlobal ==
    [paused : BOOLEAN, maxStreamDuration : Int, defaultDaily : Nat,
     maxDaily : Nat, mints : SUBSET Mints, targets : SUBSET Targets,
     hookWired : BOOLEAN]
AgentTreasury ==
    [live : BOOLEAN, daily : Nat, perTx : Nat, weekly : Nat,
     spentToday : Nat, spentWeek : Nat, lastDay : Int, lastWeek : Int,
     streaming : BOOLEAN, counterparty : Clients \cup {None}, rate : Nat]
PaymentStream ==
    [status : {"Absent", "Active", "Closed"}, agent : Treasuries \cup {None},
     client : Clients \cup {None}, payerMint : Mints \cup {None},
     payoutMint : Mints \cup {None}, rate : Nat, start : Nat, duration : Nat,
     deposit : Nat, withdrawn : Nat]
MintAllowlist == [list : SUBSET Mints, deny : BOOLEAN]
History ==
    [today : Nat, week : Nat, pricedToday : Nat, pricedWeek : Nat,
     peakDaily : Nat, peakWeekly : Nat]

ASSUME GovernanceAssumption ==
    /\ InitGlobals \subseteq TreasuryGlobal
    /\ TargetChoices \subseteq SUBSET Targets

NoTreasury ==
    [live |-> FALSE, daily |-> 0, perTx |-> 0, weekly |-> 0, spentToday |-> 0,
     spentWeek |-> 0, lastDay |-> 0, lastWeek |-> 0, streaming |-> FALSE,
     counterparty |-> None, rate |-> 0]
NoStream ==
    [status |-> "Absent", agent |-> None, client |-> None, payerMint |-> None,
     payoutMint |-> None, rate |-> 0, start |-> 0, duration |-> 0,
     deposit |-> 0, withdrawn |-> 0]
NoTargets == [live |-> FALSE, list |-> {}]
NothingSpent ==
    [today |-> 0, week |-> 0, pricedToday |-> 0, pricedWeek |-> 0,
     peakDaily |-> 0, peakWeekly |-> 0]

-----------------------------------------------------------------------------
(* Time, limits and prices *)

\* Day 0 is a Thursday; weeks start on Monday.
UnixDay(ts) == ts \div SECS_PER_DAY
IsoWeek(ts) == (UnixDay(ts) + 3) \div 7

ValidLimits(l) == l.perTx <= l.daily /\ l.daily <= l.weekly

\* Fault: a new day also clears the week.
RolloverClearsBoth(t) ==
    LET newDay == UnixDay(now) > t.lastDay
        newWeek == IsoWeek(now) > t.lastWeek
    IN  [t EXCEPT !.spentToday = IF newDay THEN 0 ELSE @,
                  !.lastDay = IF newDay THEN UnixDay(now) ELSE @,
                  !.spentWeek = IF newDay \/ newWeek THEN 0 ELSE @,
                  !.lastWeek = IF newWeek THEN IsoWeek(now) ELSE @]

\* apply_rollover: the counters are only reset when they are next needed.
Rollover(t) ==
    LET newDay == UnixDay(now) > t.lastDay
        newWeek == IsoWeek(now) > t.lastWeek
    IN  [t EXCEPT !.spentToday = IF newDay THEN 0 ELSE t.spentToday,
                  !.lastDay = IF newDay THEN UnixDay(now) ELSE t.lastDay,
                  !.spentWeek = IF newWeek THEN 0 ELSE t.spentWeek,
                  !.lastWeek = IF newWeek THEN IsoWeek(now) ELSE t.lastWeek]

\* read_oracle and guard_oracle: fresh, positive and narrow.
FeedOk(f) ==
    /\ f.age \in 0..MAX_STALENESS_SECS
    /\ f.price > 0
    /\ (f.conf * BPS_DENOM) \div f.price <= MAX_CONFIDENCE_BPS

\* The price of a withdrawal. The price account is optional, price holds at most
\* one feed of the operator's choice; without it the amount counts as it is.
PriceOf(price) == IF price = {} THEN PriceUnit ELSE (CHOOSE f \in price : TRUE).price

\* normalize_to_base_units, rounded down.
Normalized(amount, price) ==
    IF price = {} THEN amount ELSE (amount * PriceOf(price)) \div PriceUnit

\* The fee a mint withholds, rounded up, and what the receiver gets.
TransferFee(m, amount) == (amount * FeeBps[m] + BPS_DENOM - 1) \div BPS_DENOM
Received(m, amount) == amount - TransferFee(m, amount)

\* compute_swap_min_out
SwapMinOut(claimable, payer, payout) ==
    (((claimable * payer.price) \div payout.price)
        * (BPS_DENOM - DEFAULT_SLIPPAGE_BPS)) \div BPS_DENOM

\* assert_call_target_allowed. The agent's list is an optional account: with it
\* the list decides, without it the global list does.
CallAllowed(t, x) ==
    \/ x \in global.targets
    \/ targets[t].live /\ x \in targets[t].list

\* assert_mint_allowed_at_site, once governance has wired the allowlist: the
\* mint is listed, or it is among the extra mints of the agent where the
\* instruction takes such a list, or the list only warns.
HookGate(m, extra) == global.hookWired /\ hooks.deny => m \in hooks.list \cup extra

\* What the agent has earned, capped by the duration and the deposit.
Earned(s) ==
    LET elapsed == IF now - s.start < s.duration THEN now - s.start ELSE s.duration
    IN  IF s.rate * elapsed < s.deposit THEN s.rate * elapsed ELSE s.deposit

-----------------------------------------------------------------------------
(* Treasuries *)

Init ==
    /\ global \in InitGlobals
    /\ treasury = [t \in Treasuries |-> NoTreasury]
    /\ targets = [t \in Treasuries |-> NoTargets]
    /\ vaults = [t \in Treasuries |-> {}]
    /\ vault = [t \in Treasuries |-> [m \in Mints |-> 0]]
    /\ stream = [s \in Streams |-> NoStream]
    /\ escrow = [s \in Streams |-> 0]
    /\ wallet = [h \in Holders |-> IF h \in Clients THEN InitialFunds ELSE [m \in Mints |-> 0]]
    /\ hooks = [list |-> Mints, deny |-> TRUE]
    /\ agentHooks = [t \in Treasuries |-> {}]
    /\ now = StartTime
    /\ gifts = [s \in Streams |-> 0]
    /\ spent = [t \in Treasuries |-> NothingSpent]

\* The highest limits in force since the day and the week began.
PeaksWith(t, l) ==
    [spent[t] EXCEPT !.peakDaily = IF l.daily > @ THEN l.daily ELSE @,
                     !.peakWeekly = IF l.weekly > @ THEN l.weekly ELSE @]

\* init_treasury. The account of agent_registry that has to name the signer as
\* operator of an active agent is not modelled: its check may pass at any time.
InitTreasury(t, l) ==
    /\ ~global.paused
    /\ ~treasury[t].live
    /\ l.daily <= global.maxDaily
    /\ ValidLimits(l)
    /\ treasury' = [treasury EXCEPT ![t] =
                       [live |-> TRUE, daily |-> l.daily, perTx |-> l.perTx,
                        weekly |-> l.weekly, spentToday |-> 0, spentWeek |-> 0,
                        lastDay |-> UnixDay(now), lastWeek |-> IsoWeek(now),
                        streaming |-> FALSE, counterparty |-> None, rate |-> 0]]
    /\ spent' = [spent EXCEPT ![t] = PeaksWith(t, l)]
    /\ UNCHANGED <<global, targets, vaults, vault, stream, escrow, wallet,
                   hooks, agentHooks, now, gifts>>

SetLimits(t, l) ==
    /\ ~global.paused
    /\ treasury[t].live
    /\ l.daily <= global.maxDaily
    /\ ValidLimits(l)
    /\ treasury' = [treasury EXCEPT ![t] = [@ EXCEPT !.daily = l.daily, !.perTx = l.perTx,
                                                     !.weekly = l.weekly]]
    /\ spent' = [spent EXCEPT ![t] = PeaksWith(t, l)]
    /\ UNCHANGED <<global, targets, vaults, vault, stream, escrow, wallet,
                   hooks, agentHooks, now, gifts>>

\* fund_treasury, permissionless; the only instruction that creates a vault.
FundTreasury(t, h, m, amount) ==
    /\ ~global.paused
    /\ treasury[t].live
    /\ amount > 0
    /\ m \in global.mints
    /\ CallAllowed(t, "token")
    /\ HookGate(m, {})
    /\ wallet[h][m] >= amount
    /\ vaults' = [vaults EXCEPT ![t] = @ \cup {m}]
    /\ vault' = [vault EXCEPT ![t][m] = @ + Received(m, amount)]
    /\ wallet' = [wallet EXCEPT ![h][m] = @ - amount]
    /\ UNCHANGED <<global, treasury, targets, stream, escrow, hooks, agentHooks,
                   now, gifts, spent>>

\* The history of a withdrawal: its value at the price it came with, unrounded.
Spend(h, value, priced) ==
    [h EXCEPT !.today = h.today + value, !.week = h.week + value,
              !.pricedToday = h.pricedToday + priced, !.pricedWeek = h.pricedWeek + priced]

\* withdraw, by the operator and to the operator, within the limits.
Withdraw(t, m, amount, price) ==
    LET r == Rollover(treasury[t])
        n == Normalized(amount, price)
    IN
    /\ ~global.paused
    /\ treasury[t].live
    /\ amount > 0
    /\ m \in vaults[t]
    /\ vault[t][m] >= amount
    /\ \A f \in price : FeedOk(f)
    /\ n <= r.perTx
    /\ r.spentToday + n <= r.daily
    /\ r.spentWeek + n <= r.weekly
    /\ CallAllowed(t, "token")
    /\ HookGate(m, {})
    /\ treasury' = [treasury EXCEPT ![t] =
                       [r EXCEPT !.spentToday = r.spentToday + n,
                                 !.spentWeek = r.spentWeek + n]]
    /\ vault' = [vault EXCEPT ![t][m] = @ - amount]
    /\ wallet' = [wallet EXCEPT ![OperatorOf[t]][m] = @ + Received(m, amount)]
    /\ spent' = [spent EXCEPT ![t] = Spend(spent[t], amount * PriceOf(price),
                                           IF price = {} THEN 0 ELSE 1)]
    /\ UNCHANGED <<global, targets, vaults, stream, escrow, hooks, agentHooks,
                   now, gifts>>

-----------------------------------------------------------------------------
(* Streams *)

\* init_stream: the client deposits rate times duration at once, which is what
\* the stream books, whatever of it arrives in the escrow.
InitStream(s, t, c, payer, payout, rate, duration) ==
    /\ ~global.paused
    /\ treasury[t].live
    /\ stream[s].status = "Absent"
    /\ rate > 0
    /\ duration > 0 /\ duration <= global.maxStreamDuration
    /\ ~treasury[t].streaming
    /\ {payer, payout} \subseteq global.mints
    /\ CallAllowed(t, "token")
    /\ HookGate(payer, {})
    /\ wallet[c][payer] >= rate * duration
    /\ stream' = [stream EXCEPT ![s] =
                     [status |-> "Active", agent |-> t, client |-> c,
                      payerMint |-> payer, payoutMint |-> payout, rate |-> rate,
                      start |-> now, duration |-> duration,
                      deposit |-> rate * duration, withdrawn |-> 0]]
    /\ treasury' = [treasury EXCEPT ![t] = [@ EXCEPT !.streaming = TRUE,
                                             !.counterparty = c, !.rate = rate]]
    /\ escrow' = [escrow EXCEPT ![s] = Received(payer, rate * duration)]
    /\ wallet' = [wallet EXCEPT ![c][payer] = @ - rate * duration]
    /\ UNCHANGED <<global, targets, vaults, vault, hooks, agentHooks, now, gifts,
                   spent>>

\* What withdraw_earned asks for on both of its paths; m is the mint of the
\* vault that is passed.
Withdrawable(s, t, m) ==
    /\ ~global.paused
    /\ treasury[t].live
    /\ stream[s].status = "Active"
    /\ now > stream[s].start
    /\ Earned(stream[s]) > stream[s].withdrawn
    /\ m \in vaults[t]

\* withdraw_earned where payer and payout mint are the same: a transfer, which
\* the token program only makes between accounts of one mint.
WithdrawEarned(s, t, m) ==
    LET claimable == Earned(stream[s]) - stream[s].withdrawn IN
    /\ Withdrawable(s, t, m)
    /\ stream[s].payerMint = stream[s].payoutMint
    /\ m = stream[s].payerMint
    /\ CallAllowed(t, "token")
    /\ HookGate(m, agentHooks[t])
    /\ escrow[s] >= claimable
    /\ stream' = [stream EXCEPT ![s].withdrawn = Earned(stream[s])]
    /\ escrow' = [escrow EXCEPT ![s] = @ - claimable]
    /\ vault' = [vault EXCEPT ![t][m] = @ + Received(m, claimable)]
    /\ UNCHANGED <<global, treasury, targets, vaults, wallet, hooks, agentHooks,
                   now, gifts, spent>>

\* Fault: the route may spend more than what is claimable.
WithdrawEarnedSwapAll(s, t, m, spending, payer, payout, bonus) ==
    /\ Withdrawable(s, t, m)
    /\ stream[s].payerMint # stream[s].payoutMint
    /\ spending \in 0..escrow[s]
    /\ stream' = [stream EXCEPT ![s].withdrawn = Earned(stream[s])]
    /\ escrow' = [escrow EXCEPT ![s] = @ - spending]
    /\ UNCHANGED <<global, treasury, targets, vaults, vault, wallet, hooks,
                   agentHooks, now, gifts, spent>>

\* withdraw_earned with a swap. Jupiter's route decides how much of the escrow
\* it spends, at most the claimable amount; the vault receives at least the
\* amount the two prices give, less the slippage.
WithdrawEarnedSwap(s, t, m, spending, payer, payout, bonus) ==
    LET claimable == Earned(stream[s]) - stream[s].withdrawn IN
    /\ Withdrawable(s, t, m)
    /\ stream[s].payerMint # stream[s].payoutMint
    /\ CallAllowed(t, "jupiter")
    /\ FeedOk(payer) /\ FeedOk(payout)
    /\ HookGate(stream[s].payerMint, agentHooks[t]) /\ HookGate(m, agentHooks[t])
    /\ spending \in 0..claimable
    /\ escrow[s] >= spending
    /\ stream' = [stream EXCEPT ![s].withdrawn = Earned(stream[s])]
    /\ escrow' = [escrow EXCEPT ![s] = @ - spending]
    /\ vault' = [vault EXCEPT ![t][m] = @ + SwapMinOut(claimable, payer, payout) + bonus]
    /\ UNCHANGED <<global, treasury, targets, vaults, wallet, hooks, agentHooks,
                   now, gifts, spent>>

\* Fault: only the client is paid.
CloseStreamRefundsOnly(s, t, dest) ==
    LET p == stream[s].payerMint
        refund == stream[s].deposit - Earned(stream[s])
    IN
    /\ stream[s].status = "Active"
    /\ p \in vaults[t]
    /\ escrow[s] >= refund
    /\ stream' = [stream EXCEPT ![s] = [@ EXCEPT !.status = "Closed",
                                                 !.withdrawn = Earned(stream[s])]]
    /\ treasury' = [treasury EXCEPT ![t] = [@ EXCEPT !.streaming = FALSE,
                                             !.counterparty = None, !.rate = 0]]
    /\ escrow' = [escrow EXCEPT ![s] = @ - refund]
    /\ wallet' = [wallet EXCEPT ![dest][p] = @ + refund]
    /\ UNCHANGED <<global, targets, vaults, vault, hooks, agentHooks, now, gifts,
                   spent>>

\* close_stream, by the client or the operator, paused or not: the agent gets
\* what it earned and did not withdraw, the rest is refunded to dest, the token
\* account of the mint that is passed for the client. Both amounts go by what
\* was booked as deposit: with a fee they are there only after a gift.
CloseStream(s, t, dest) ==
    LET p == stream[s].payerMint
        receipts == Earned(stream[s]) - stream[s].withdrawn
        refund == stream[s].deposit - Earned(stream[s])
    IN
    /\ stream[s].status = "Active"
    /\ treasury[t].live
    /\ p \in vaults[t]
    /\ CallAllowed(t, "token")
    /\ HookGate(p, agentHooks[t])
    /\ escrow[s] >= receipts + refund
    /\ stream' = [stream EXCEPT ![s] = [@ EXCEPT !.status = "Closed",
                                                 !.withdrawn = Earned(stream[s])]]
    /\ treasury' = [treasury EXCEPT ![t] = [@ EXCEPT !.streaming = FALSE,
                                             !.counterparty = None, !.rate = 0]]
    /\ escrow' = [escrow EXCEPT ![s] = @ - receipts - refund]
    /\ vault' = [vault EXCEPT ![t][p] = @ + Received(p, receipts)]
    /\ wallet' = [wallet EXCEPT ![dest][p] = @ + Received(p, refund)]
    /\ UNCHANGED <<global, targets, vaults, hooks, agentHooks, now, gifts, spent>>

\* A plain transfer to the escrow of a stream, by anybody who has tokens.
GiveToEscrow(s, h, amount) ==
    LET m == stream[s].payerMint IN
    /\ stream[s].status # "Absent"
    /\ gifts[s] + Received(m, amount) <= MaxGifts
    /\ wallet[h][m] >= amount
    /\ wallet' = [wallet EXCEPT ![h][m] = @ - amount]
    /\ escrow' = [escrow EXCEPT ![s] = @ + Received(m, amount)]
    /\ gifts' = [gifts EXCEPT ![s] = @ + Received(m, amount)]
    /\ UNCHANGED <<global, treasury, targets, vaults, vault, stream, hooks,
                   agentHooks, now, spent>>

-----------------------------------------------------------------------------
(* Governance, allowlists and the environment *)

UnchangedByGovernance ==
    UNCHANGED <<treasury, vaults, vault, stream, escrow, wallet, now, gifts, spent>>
UnchangedHooks == UNCHANGED <<hooks, agentHooks>>

SetDefaultDailyLimit(d) ==
    /\ d <= global.maxDaily
    /\ global' = [global EXCEPT !.defaultDaily = d]
    /\ UNCHANGED targets /\ UnchangedHooks /\ UnchangedByGovernance

SetMaxDailyLimit(d) ==
    /\ global.defaultDaily <= d
    /\ global' = [global EXCEPT !.maxDaily = d]
    /\ UNCHANGED targets /\ UnchangedHooks /\ UnchangedByGovernance

SetMaxStreamDuration(d) ==
    /\ d > 0
    /\ global' = [global EXCEPT !.maxStreamDuration = d]
    /\ UNCHANGED targets /\ UnchangedHooks /\ UnchangedByGovernance

SetPaused(b) ==
    /\ global' = [global EXCEPT !.paused = b]
    /\ UNCHANGED targets /\ UnchangedHooks /\ UnchangedByGovernance

\* apply_target_mutation: removals first. The caps of 8 and 32 entries are
\* beyond the two targets that are modelled.
MutateTargets(old, add, remove) == (old \ remove) \cup add

SetGlobalCallTargets(add, remove) ==
    /\ global' = [global EXCEPT !.targets = MutateTargets(@, add, remove)]
    /\ UNCHANGED targets /\ UnchangedHooks /\ UnchangedByGovernance

\* The pointer is set once and never again.
SetHookAllowlistPtr ==
    /\ ~global.hookWired
    /\ global' = [global EXCEPT !.hookWired = TRUE]
    /\ UNCHANGED targets /\ UnchangedHooks /\ UnchangedByGovernance

AddAllowedMint(m) ==
    /\ Cardinality(global.mints) < MAX_ALLOWED_MINTS
    /\ m \notin global.mints
    /\ global' = [global EXCEPT !.mints = @ \cup {m}]
    /\ UNCHANGED targets /\ UnchangedHooks /\ UnchangedByGovernance

RemoveAllowedMint(m) ==
    /\ m \in global.mints
    /\ global' = [global EXCEPT !.mints = @ \ {m}]
    /\ UNCHANGED targets /\ UnchangedHooks /\ UnchangedByGovernance

InitAllowedTargets(t, list) ==
    /\ treasury[t].live
    /\ ~targets[t].live
    /\ targets' = [targets EXCEPT ![t] = [live |-> TRUE, list |-> list]]
    /\ UNCHANGED global /\ UnchangedHooks /\ UnchangedByGovernance

UpdateAllowedTargets(t, add, remove) ==
    /\ targets[t].live
    /\ targets' = [targets EXCEPT ![t].list = MutateTargets(@, add, remove)]
    /\ UNCHANGED global /\ UnchangedHooks /\ UnchangedByGovernance

\* update_handler of fee_collector's mint allowlist: mints are added and removed
\* at will, within a cap that is beyond the mints that are modelled.
UpdateHooks(ms) ==
    /\ hooks' = [hooks EXCEPT !.list = ms]
    /\ UNCHANGED <<global, targets, agentHooks>> /\ UnchangedByGovernance

SetDefaultDeny(b) ==
    /\ hooks' = [hooks EXCEPT !.deny = b]
    /\ UNCHANGED <<global, targets, agentHooks>> /\ UnchangedByGovernance

\* init_agent_handler and update_agent_handler: the agent need not have a
\* treasury.
UpdateAgentHooks(t, ms) ==
    /\ agentHooks' = [agentHooks EXCEPT ![t] = ms]
    /\ UNCHANGED <<global, targets, hooks>> /\ UnchangedByGovernance

\* Time passes; the history starts anew with the day and the week.
Tick ==
    LET newDay == UnixDay(now + 1) > UnixDay(now)
        newWeek == IsoWeek(now + 1) > IsoWeek(now)
    IN
    /\ now < MaxTime
    /\ now' = now + 1
    /\ spent' = [t \in Treasuries |->
          [today |-> IF newDay THEN 0 ELSE spent[t].today,
           pricedToday |-> IF newDay THEN 0 ELSE spent[t].pricedToday,
           peakDaily |-> IF newDay THEN treasury[t].daily ELSE spent[t].peakDaily,
           week |-> IF newWeek THEN 0 ELSE spent[t].week,
           pricedWeek |-> IF newWeek THEN 0 ELSE spent[t].pricedWeek,
           peakWeekly |-> IF newWeek THEN treasury[t].weekly ELSE spent[t].peakWeekly]]
    /\ UNCHANGED <<global, treasury, targets, vaults, vault, stream, escrow,
                   wallet, hooks, agentHooks, gifts>>

TreasuryStep(t) ==
    \/ \E l \in Limits : InitTreasury(t, l) \/ SetLimits(t, l)
    \/ \E h \in Clients, m \in Mints, amount \in Amounts : FundTreasury(t, h, m, amount)
    \/ \E m \in Mints, amount \in Amounts, price \in {{}} \cup {{f} : f \in Feeds} :
          Withdraw(t, m, amount, price)
    \/ \E list \in TargetChoices : InitAllowedTargets(t, list)
    \/ \E add, remove \in TargetChoices : UpdateAllowedTargets(t, add, remove)

StreamStep(s, t) ==
    \/ \E c \in Clients, payer, payout \in Mints, r \in Rates, d \in Durations :
          InitStream(s, t, c, payer, payout, r, d)
    \/ \E m \in Mints : WithdrawEarned(s, t, m)
    \/ \E m \in Mints, payer, payout \in Feeds, bonus \in 0..MaxBonus :
          \E spending \in 0..escrow[s] :
              WithdrawEarnedSwap(s, t, m, spending, payer, payout, bonus)
    \/ \E dest \in Holders : CloseStream(s, t, dest)

GovernanceStep ==
    \/ \E d \in DailyChoices : SetDefaultDailyLimit(d) \/ SetMaxDailyLimit(d)
    \/ \E d \in DurationChoices : SetMaxStreamDuration(d)
    \/ \E b \in PauseChoices : SetPaused(b)
    \/ \E add, remove \in TargetChoices : SetGlobalCallTargets(add, remove)
    \/ HookChoices # {} /\ SetHookAllowlistPtr
    \/ \E m \in MintChoices : AddAllowedMint(m) \/ RemoveAllowedMint(m)
    \/ \E ms \in HookChoices : UpdateHooks(ms)
    \/ \E b \in DenyChoices : SetDefaultDeny(b)
    \/ \E t \in Treasuries, ms \in HookChoices : UpdateAgentHooks(t, ms)

Next ==
    \/ \E t \in Treasuries : TreasuryStep(t)
    \/ \E s \in Streams, t \in Treasuries : StreamStep(s, t)
    \/ \E s \in Streams, h \in Holders, amount \in GiftAmounts : GiveToEscrow(s, h, amount)
    \/ GovernanceStep
    \/ Tick

Spec == Init /\ [][Next]_vars

-----------------------------------------------------------------------------
(* Safety *)

\* Every account has the shape of its struct, and no balance, counter or limit
\* ever falls below zero.
TypeOK ==
    /\ global \in TreasuryGlobal
    /\ treasury \in [Treasuries -> AgentTreasury]
    /\ targets \in [Treasuries -> [live : BOOLEAN, list : SUBSET Targets]]
    /\ vaults \in [Treasuries -> SUBSET Mints]
    /\ vault \in [Treasuries -> [Mints -> Nat]]
    /\ stream \in [Streams -> PaymentStream]
    /\ escrow \in [Streams -> Nat]
    /\ wallet \in [Holders -> [Mints -> Nat]]
    /\ hooks \in MintAllowlist
    /\ agentHooks \in [Treasuries -> SUBSET Mints]
    /\ now \in Nat
    /\ gifts \in [Streams -> Nat]
    /\ spent \in [Treasuries -> History]

\* The escrow of an active stream lacks nothing of what its agent has earned and
\* the refund of its client but the fee that was withheld from the deposit,
\* whatever was withdrawn, swapped, given or paused before, and whichever
\* treasuries the instructions were called with; and withdrawn never runs ahead
\* of what the clock has earned. So close_stream finds its tokens with every mint
\* that charges no fee (init_stream, withdraw_earned, close_stream).
EscrowShortOnlyByFee ==
    \A s \in Streams : stream[s].status = "Active" =>
        /\ stream[s].withdrawn <= Earned(stream[s])
        /\ stream[s].deposit - stream[s].withdrawn + gifts[s]
              <= escrow[s] + TransferFee(stream[s].payerMint, stream[s].deposit)

\* A stream that was closed without a swap has paid out its whole deposit, in
\* however many withdrawals: close_stream leaves nothing of it in the escrow,
\* which nothing can be moved out of afterwards. All that is left there was given
\* by others, less the fee on the deposit, for which it had to make up.
NothingLeftBehind ==
    \A s \in Streams :
        (stream[s].status = "Closed" /\ stream[s].payerMint = stream[s].payoutMint)
            => escrow[s] + TransferFee(stream[s].payerMint, stream[s].deposit) = gifts[s]

\* The most that counts as so many base units, in withdrawals of which priced ones
\* were rounded.
Worth(units, priced) == units * PriceUnit + priced * (PriceUnit - 1)

\* The value that left a treasury today and this week, at the prices the
\* withdrawals came with and to the last fraction, exceeds the highest limits
\* that were in force meanwhile by less than one base unit for every priced
\* withdrawal: normalize_to_base_units rounds each of them down, apply_rollover
\* resets the counters lazily and each at its own boundary, and set_limits not at
\* all. Nothing is said of a withdrawal without a price account but its face
\* value, nor of whether the price is that of its mint.
LimitsHold ==
    \A t \in Treasuries :
        /\ spent[t].today <= Worth(spent[t].peakDaily, spent[t].pricedToday)
        /\ spent[t].week <= Worth(spent[t].peakWeekly, spent[t].pricedWeek)
=============================================================================
