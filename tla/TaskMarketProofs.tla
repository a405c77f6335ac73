-------------------------- MODULE TaskMarketProofs --------------------------
(***************************************************************************)
(* Proofs about TaskMarket for every value of its constants: types; the    *)
(* payment of a task, which leaves its escrow once and as a whole, so that *)
(* TaskMarket implements TaskEscrow; the payee; the bonds of bidders,      *)
(* which are covered; the best bid; the only way to a re-opened award; and *)
(* what a bidder keeps that plays by the rules. Each invariant is a        *)
(* statement about one task: the instructions on a task leave the others   *)
(* alone (Elsewhere), so a proof has one case per instruction.             *)
(***************************************************************************)
EXTENDS TaskMarket, FiniteSetTheorems, TLAPS

USE DEF history

-----------------------------------------------------------------------------
(* Types *)

\* Dividing by BPS_DENOM stays in the naturals.
LEMMA BpsShare == \A x, y \in Nat : (x * y) \div BPS_DENOM \in Nat
<1> SUFFICES ASSUME NEW x \in Nat, NEW y \in Nat
             PROVE  (x * y) \div BPS_DENOM \in Nat
    OBVIOUS
<1>1. x * y \in Nat
    OBVIOUS
<1> DEFINE z == x * y
<1>2. z \in Nat
    BY <1>1
<1> HIDE DEF z
<1>3. z \div 10000 \in Nat
    BY <1>2
<1> QED BY <1>3 DEF z, BPS_DENOM

\* A transfer fee withholds no more than is sent.
LEMMA WithheldBound ==
    ASSUME NEW x \in Nat, NEW f \in 0..BPS_DENOM
    PROVE  Withheld(x, f) \in Nat /\ Withheld(x, f) <= x
<1>1. x * f <= x * 10000 /\ x * f \in Nat
  <2>1. f \in Nat /\ f <= 10000
      BY DEF BPS_DENOM
  <2>2. PICK d \in Nat : f + d = 10000
      BY <2>1
  <2>3. x * (f + d) = x * f + x * d /\ x * f \in Nat /\ x * d \in Nat
      BY <2>1, <2>2
  <2> QED BY <2>2, <2>3
<1> DEFINE z == x * f
<1>2. z \in Nat /\ z <= x * 10000
    BY <1>1
<1> HIDE DEF z
<1>3. (z + 9999) \div 10000 \in Nat /\ (z + 9999) \div 10000 <= x
    BY <1>2
<1>4. Withheld(x, f) = (z + 9999) \div 10000
  <2>1. z + 10000 - 1 = z + 9999
      BY <1>2
  <2> QED BY <2>1 DEF Withheld, BPS_DENOM, z
<1> QED BY <1>3, <1>4

\* What a transfer brings is at most what was sent, and all of it without a fee.
LEMMA ReceivedBound ==
    ASSUME TypeOK, NEW x \in Nat
    PROVE  /\ Received(x) \in Nat /\ Received(x) <= x
           /\ Lossless => Received(x) = x
<1>1. market.transferFeeBps \in 0..BPS_DENOM
    BY DEF TypeOK, MarketGlobal
<1>2. Withheld(x, market.transferFeeBps) \in Nat /\ Withheld(x, market.transferFeeBps) <= x
    BY <1>1, WithheldBound
<1>3. Withheld(x, 0) = 0
  <2>1. x * 0 + 10000 - 1 = 9999 /\ 9999 \div 10000 = 0
      OBVIOUS
  <2> QED BY <2>1 DEF Withheld, BPS_DENOM
<1> QED BY <1>2, <1>3 DEF Received, Lossless

\* compute_fees leaves something of the payment, so the payout of release is
\* positive: specs/07 invariant 2, needed for the types of the balances.
FeesBelowAmount ==
    \A t \in Tasks : task[t].protocolFee + task[t].solrepFee <= task[t].amount

TypeInv == TypeOK /\ FeesBelowAmount

LEMMA InitType == Init => TypeInv
<1> SUFFICES ASSUME Init PROVE TypeInv
    OBVIOUS
<1> USE ConstantsAssumption
<1>1. NoTask \in TaskContract
    BY DEF NoTask, TaskContract, NoResult, Results, TaskStatus
<1>2. NoBook \in BidBook
    BY DEF NoBook, BidBook, BidPhase
<1>3. NoBid \in Bid
    BY DEF NoBid, Bid
<1>4. market \in MarketGlobal
    BY DEF Init, InitGlobal
<1>5. FeesBelowAmount
    BY DEF Init, FeesBelowAmount, NoTask
<1>6. wallet \in [Accounts -> Nat]
    BY DEF Init
<1> QED BY <1>1, <1>2, <1>3, <1>4, <1>5, <1>6 DEF Init, TypeInv, TypeOK

\* A step that only changes a task's status keeps its type and its amounts.
LEMMA SetStatus ==
    ASSUME TypeInv, NEW t \in Tasks, NEW s \in TaskStatus,
           task' = [task EXCEPT ![t].status = s]
    PROVE  /\ task' \in [Tasks -> TaskContract]
           /\ FeesBelowAmount'
<1>1. \A r \in TaskContract : [r EXCEPT !.status = s] \in TaskContract
    BY DEF TaskContract
<1>2. task' \in [Tasks -> TaskContract]
    BY <1>1 DEF TypeInv, TypeOK
<1>3. FeesBelowAmount'
    BY DEF TypeInv, TypeOK, TaskContract, FeesBelowAmount
<1> QED BY <1>2, <1>3

\* What an instruction on another task, governance and the clock leave alone.
SameTask(x) ==
    /\ task'[x] = task[x] /\ escrow'[x] = escrow[x] /\ outcome'[x] = outcome[x]
    /\ book'[x] = book[x] /\ bid'[x] = bid[x] /\ bondEscrow'[x] = bondEscrow[x]
    /\ net'[x] = net[x]
    /\ (x \in reopened' <=> x \in reopened) /\ (x \in freeAward' <=> x \in freeAward)

Elsewhere(t) == \A x \in Tasks \ {t} : SameTask(x)

LEMMA LifecycleElsewhere ==
    ASSUME TypeOK, NEW t \in Tasks, Lifecycle(t)
    PROVE  /\ Elsewhere(t) /\ market' = market
           /\ UNCHANGED <<book, bid, bondEscrow, net, reopened, freeAward>>
<1> DEFINE G == /\ Elsewhere(t) /\ market' = market
                /\ UNCHANGED <<book, bid, bondEscrow, net, reopened, freeAward>>
<1> USE DEF Elsewhere, SameTask
<1>f. /\ task \in [Tasks -> TaskContract] /\ escrow \in [Tasks -> Nat]
      /\ outcome \in [Tasks -> {None, "Paid", "Refunded"}]
    BY DEF TypeOK
<1>1. ASSUME NEW a \in Agents, NEW amount \in Amounts, NEW secs \in DeadlineSecs,
             NEW cap \in Capabilities, NEW gated \in BOOLEAN,
             CreateTask(t, a, amount, secs, cap, gated)
      PROVE  G
    BY <1>1, <1>f DEF CreateTask
<1>2. ASSUME FundTask(t) PROVE G
    BY <1>2, <1>f DEF FundTask
<1>3. ASSUME CancelUnfundedTask(t) PROVE G
    BY <1>3, <1>f DEF CancelUnfundedTask
<1>4. ASSUME NEW a \in Agents, NEW provable \in BOOLEAN, SubmitResult(t, a, provable)
      PROVE  G
    BY <1>4, <1>f DEF SubmitResult
<1>5. ASSUME VerifyTask(t) PROVE G
    BY <1>5, <1>f DEF VerifyTask
<1>6. ASSUME NEW a \in Agents, Release(t, a)
      PROVE  G
    BY <1>6, <1>f DEF Release
<1>7. ASSUME RefundClient(t)
      PROVE  G
    BY <1>7, <1>f DEF RefundClient
<1>8. ASSUME RaiseDispute(t) PROVE G
    BY <1>8, <1>f DEF RaiseDispute
<1> HIDE DEF G, Elsewhere, SameTask
<1>9. G
    BY <1>1, <1>2, <1>3, <1>4, <1>5, <1>6, <1>7, <1>8
       DEF Lifecycle, Expire, DisputedTimeoutRefund
<1> QED BY <1>9 DEF G

LEMMA BiddingElsewhere ==
    ASSUME TypeOK, NEW t \in Tasks, Bidding(t)
    PROVE  /\ Elsewhere(t) /\ market' = market
           /\ escrow' = escrow /\ outcome' = outcome /\ reopened \subseteq reopened'
<1> DEFINE G == /\ Elsewhere(t) /\ market' = market
                /\ escrow' = escrow /\ outcome' = outcome /\ reopened \subseteq reopened'
<1> USE DEF Elsewhere, SameTask
<1>f. /\ task \in [Tasks -> TaskContract] /\ book \in [Tasks -> BidBook]
      /\ bid \in [Tasks -> [Operators -> Bid]] /\ bondEscrow \in [Tasks -> Nat]
      /\ net \in [Tasks -> [Operators -> Int]]
    BY DEF TypeOK
<1>1. ASSUME NEW cs \in WindowSecs, NEW rs \in WindowSecs,
             NEW bps \in BondBps, OpenBidding(t, cs, rs, bps)
      PROVE  G
    BY <1>1, <1>f DEF OpenBidding
<1>2. ASSUME NEW a \in Agents, NEW amount \in BidAmounts, CommitBid(t, a, amount)
      PROVE  G
    BY <1>2, <1>f DEF CommitBid
<1>3. ASSUME NEW o \in Operators, RevealBid(t, o)
      PROVE  G
    BY <1>3, <1>f DEF RevealBid
<1>4. ASSUME NEW o \in Operators, RevealMismatch(t, o)
      PROVE  G
    BY <1>4, <1>f DEF RevealMismatch
<1>5. ASSUME NEW S \in SUBSET Operators, NEW w \in S, CloseBiddingSettle(t, S, w)
      PROVE  G
    BY <1>5, <1>f DEF CloseBiddingSettle
<1>6. ASSUME CloseBiddingCancel(t) PROVE G
    BY <1>6, <1>f DEF CloseBiddingCancel
<1>7. ASSUME CancelBidding(t) PROVE G
    BY <1>7, <1>f DEF CancelBidding
<1>8. ASSUME NEW o \in Operators, NEW dest \in SlashTargets, ClaimBond(t, o, dest)
      PROVE  G
    BY <1>8, <1>f DEF ClaimBond
<1>9. ASSUME NEW o \in Operators, CloseBid(t, o)
      PROVE  G
    BY <1>9, <1>f DEF CloseBid
<1>10. ASSUME CloseBidBook(t) PROVE G
    BY <1>10, <1>f DEF CloseBidBook
<1>11. ASSUME Gift(t) PROVE G
    BY <1>11, <1>f DEF Gift
<1> HIDE DEF G, Elsewhere, SameTask
<1>12. G
    BY <1>1, <1>2, <1>3, <1>4, <1>5, <1>6, <1>7, <1>8, <1>9, <1>10, <1>11 DEF Bidding
<1> QED BY <1>12 DEF G

LEMMA QuietSteps ==
    ASSUME Governance \/ Tick \/ UNCHANGED vars
    PROVE  \A x \in Tasks : SameTask(x)
<1>1. UNCHANGED <<task, escrow, book, bid, bondEscrow, outcome, reopened, freeAward, net>>
    BY DEF Governance, SetPaused, SetFees, SetDisputeWindowSecs, SetAllowedMint,
       AllowPaymentMint, SetHookAllowlistPtr, UpdateHookAllowlist, RegistryStep,
       UnchangedByGovernance, Tick, vars
<1> QED BY <1>1 DEF SameTask

\* No instruction changes the transfer fee.
LEMMA FeeFixed ==
    ASSUME TypeOK, [Next]_vars
    PROVE  market'.transferFeeBps = market.transferFeeBps
<1>m. market \in MarketGlobal
    BY DEF TypeOK
<1>1. ASSUME NEW t \in Tasks, Lifecycle(t) \/ Bidding(t)
      PROVE  market' = market
    BY <1>1, LifecycleElsewhere, BiddingElsewhere
<1>3. ASSUME Governance
      PROVE  market'.transferFeeBps = market.transferFeeBps
    BY <1>3, <1>m DEF Governance, SetPaused, SetFees, SetDisputeWindowSecs, SetAllowedMint,
       AllowPaymentMint, SetHookAllowlistPtr, UpdateHookAllowlist, RegistryStep, MarketGlobal
<1>4. ASSUME Tick \/ UNCHANGED vars
      PROVE  market' = market
    BY <1>4 DEF Tick, vars
<1> QED BY <1>1, <1>3, <1>4 DEF Next

\* Every lifecycle instruction keeps the types.
LEMMA LifecycleType ==
    ASSUME TypeInv, NEW t \in Tasks, Lifecycle(t)
    PROVE  TypeInv'
<1> USE ConstantsAssumption
<1>r. \A n \in Nat : Received(n) \in Nat
    BY ReceivedBound DEF TypeInv
<1>1. ASSUME NEW a \in Agents, NEW amount \in Amounts, NEW secs \in DeadlineSecs,
             NEW cap \in Capabilities, NEW gated \in BOOLEAN,
             CreateTask(t, a, amount, secs, cap, gated)
      PROVE  TypeInv'
  <2>1. /\ amount \in Nat /\ secs \in Int /\ now \in Nat
        /\ market.protocolBps \in Nat /\ market.solrepBps \in Nat
      BY DEF TypeInv, TypeOK, MarketGlobal
  <2>2. ProtocolFee(amount) \in Nat /\ SolrepFee(amount) \in Nat
      BY <2>1, BpsShare DEF ProtocolFee, SolrepFee
  <2>3. secs > 0 /\ now + secs \in Nat
      BY <1>1, <2>1 DEF CreateTask
  <2>4. task'[t] \in TaskContract
    <3> DEFINE pf == ProtocolFee(amount)
               sf == SolrepFee(amount)
               end == now + secs
               created == [NoTask EXCEPT !.status = "Created", !.agentDid = a,
                               !.amount = amount, !.protocolFee = pf, !.solrepFee = sf,
                               !.createdAt = now, !.deadline = end, !.capability = cap,
                               !.gated = gated]
    <3>1. task' = [task EXCEPT ![t] = created]
        BY <1>1 DEF CreateTask
    <3>2. pf \in Nat /\ sf \in Nat /\ end \in Nat
        BY <2>2, <2>3
    <3> HIDE DEF pf, sf, end
    <3>3. \A r \in TaskContract :
              [r EXCEPT !.status = "Created", !.agentDid = a, !.amount = amount] \in TaskContract
        BY <2>1 DEF TaskContract, TaskStatus
    <3>4. \A r \in TaskContract :
              [r EXCEPT !.protocolFee = pf, !.solrepFee = sf, !.createdAt = now] \in TaskContract
        BY <2>1, <3>2 DEF TaskContract
    <3>7. \A r \in TaskContract :
              [r EXCEPT !.deadline = end, !.capability = cap, !.gated = gated] \in TaskContract
        BY <3>2 DEF TaskContract
    <3>8. NoTask \in TaskContract
        BY DEF NoTask, TaskContract, NoResult, Results, TaskStatus
    <3> DEFINE named == [NoTask EXCEPT !.status = "Created", !.agentDid = a, !.amount = amount]
               priced == [named EXCEPT !.protocolFee = pf, !.solrepFee = sf, !.createdAt = now]
    <3>9. created = [priced EXCEPT !.deadline = end, !.capability = cap, !.gated = gated]
        OBVIOUS
    <3>5. created \in TaskContract
      <4>1. named \in TaskContract
          BY <3>3, <3>8, Zenon
      <4> HIDE DEF named
      <4>2. priced \in TaskContract
          BY <3>4, <4>1, Zenon
      <4> HIDE DEF priced, created
      <4> QED BY <3>7, <3>9, <4>2, Zenon
    <3> HIDE DEF created
    <3>6. task \in [Tasks -> TaskContract]
        BY DEF TypeInv, TypeOK
    <3> QED BY <3>1, <3>5, <3>6
  <2>5. FeesBelowAmount'
      BY <1>1, <2>1, <2>2 DEF CreateTask, FeesOk, FeesBelowAmount, TypeInv, TypeOK, NoTask
  <2> QED BY <1>1, <2>4, <2>5 DEF CreateTask, TypeInv, TypeOK
<1>2. CASE FundTask(t)
  <2>1. task' \in [Tasks -> TaskContract] /\ FeesBelowAmount'
      BY <1>2, SetStatus DEF FundTask, TypeInv, TaskStatus
  <2>2. task[t].amount \in Nat /\ Received(task[t].amount) \in Nat
      BY <1>r DEF TypeInv, TypeOK, TaskContract
  <2> QED BY <1>2, <2>1, <2>2 DEF FundTask, TypeInv, TypeOK, Accounts
<1>3. CASE CancelUnfundedTask(t)
  BY <1>3 DEF CancelUnfundedTask, TypeInv, TypeOK, FeesBelowAmount, TaskContract, TaskStatus,
     NoTask, NoResult, Results
<1>4. ASSUME NEW a \in Agents, NEW provable \in BOOLEAN, SubmitResult(t, a, provable)
      PROVE  TypeInv'
  <2>0. \A r \in TaskContract, q \in Results, s \in TaskStatus :
            [r EXCEPT !.result = q, !.status = s] \in TaskContract
      BY DEF TaskContract
  <2>1. task'[t] \in TaskContract
      BY <1>4, <2>0 DEF SubmitResult, TypeInv, TypeOK, TaskStatus, Results
  <2>2. FeesBelowAmount'
      BY <1>4 DEF SubmitResult, TypeInv, TypeOK, TaskContract, FeesBelowAmount
  <2> QED BY <1>4, <2>1, <2>2 DEF SubmitResult, TypeInv, TypeOK
<1>5. CASE VerifyTask(t)
  <2>0. \A r \in TaskContract, n \in Nat, s \in TaskStatus :
            [r EXCEPT !.status = s, !.disputeWindowEnd = n] \in TaskContract
      BY DEF TaskContract
  <2>3. task[t].deadline + market.disputeWindowSecs \in Nat
      BY DEF TypeInv, TypeOK, TaskContract, MarketGlobal
  <2>1. task'[t] \in TaskContract
      BY <1>5, <2>0, <2>3 DEF VerifyTask, TypeInv, TypeOK, TaskStatus
  <2>2. FeesBelowAmount'
      BY <1>5 DEF VerifyTask, TypeInv, TypeOK, TaskContract, FeesBelowAmount
  <2> QED BY <1>5, <2>1, <2>2 DEF VerifyTask, TypeInv, TypeOK
<1>6. ASSUME NEW a \in Agents, Release(t, a)
      PROVE  TypeInv'
  <2>1. AgentPayout(t) \in Nat /\ ReleaseTotal(t) \in Nat
      BY DEF AgentPayout, ReleaseTotal, TypeInv, TypeOK, FeesBelowAmount, TaskContract
  <2>r. /\ Received(AgentPayout(t)) \in Nat /\ Received(task[t].protocolFee) \in Nat
        /\ Received(task[t].solrepFee) \in Nat
      BY <1>r, <2>1 DEF TypeInv, TypeOK, TaskContract
  <2>2. wallet' \in [Accounts -> Nat]
      BY <1>6, <2>r DEF Release, ReleasePayments, TypeInv, TypeOK
  <2>3. escrow' \in [Tasks -> Nat]
      BY <1>6, <2>1 DEF Release, TypeInv, TypeOK
  <2>4. task' \in [Tasks -> TaskContract] /\ FeesBelowAmount'
      BY <1>6, SetStatus DEF Release, TypeInv, TaskStatus
  <2>5. outcome' \in [Tasks -> {None, "Paid", "Refunded"}]
      BY <1>6 DEF Release, TypeInv, TypeOK
  <2> QED BY <1>6, <2>2, <2>3, <2>4, <2>5 DEF Release, TypeInv, TypeOK
<1>7. ASSUME RefundClient(t)
      PROVE  TypeInv'
  <2>1. task' \in [Tasks -> TaskContract] /\ FeesBelowAmount'
      BY <1>7, SetStatus DEF RefundClient, TypeInv, TaskStatus
  <2>2. task[t].amount \in Nat /\ Received(task[t].amount) \in Nat
      BY <1>r DEF TypeInv, TypeOK, TaskContract
  <2> QED BY <1>7, <2>1, <2>2 DEF RefundClient, TypeInv, TypeOK, Accounts
<1>8. CASE RaiseDispute(t)
  <2>1. task' \in [Tasks -> TaskContract] /\ FeesBelowAmount'
      BY <1>8, SetStatus DEF RaiseDispute, TypeInv, TaskStatus
  <2> QED BY <1>8, <2>1 DEF RaiseDispute, TypeInv, TypeOK
<1> QED BY <1>1, <1>2, <1>3, <1>4, <1>5, <1>6, <1>7, <1>8
        DEF Lifecycle, Expire, DisputedTimeoutRefund

\* Every bidding instruction keeps the types.
LEMMA BiddingType ==
    ASSUME TypeInv, NEW t \in Tasks, Bidding(t)
    PROVE  TypeInv'
<1> USE ConstantsAssumption
<1>b. book[t] \in BidBook /\ bid[t] \in [Operators -> Bid] /\ task[t] \in TaskContract
    BY DEF TypeInv, TypeOK
<1>n. NoBook \in BidBook /\ NoBid \in Bid
    BY DEF NoBook, BidBook, BidPhase, NoBid, Bid
<1>r. \A n \in Nat : Received(n) \in Nat
    BY ReceivedBound DEF TypeInv
<1>1. ASSUME NEW cs \in WindowSecs, NEW rs \in WindowSecs, NEW bps \in BondBps,
             OpenBidding(t, cs, rs, bps)
      PROVE  TypeInv'
  <2>1. /\ cs \in Int /\ rs \in Int /\ now \in Nat /\ bps \in Nat
        /\ task[t].amount \in Nat /\ cs > 0 /\ rs > 0
      BY <1>1, <1>b DEF OpenBidding, TypeInv, TypeOK, TaskContract
  <2>2. BondAmount(task[t].amount, bps) \in Nat
      BY <2>1, BpsShare DEF BondAmount
  <2>3. now + cs \in Nat /\ now + cs + rs \in Nat
      BY <2>1
  <2>4. book'[t] \in BidBook
      BY <1>1, <1>n, <2>1, <2>2, <2>3 DEF OpenBidding, TypeInv, TypeOK, BidBook, BidPhase, NoBook
  <2> QED BY <1>1, <2>4 DEF OpenBidding, TypeInv, TypeOK, FeesBelowAmount
<1>2. ASSUME NEW a \in Agents, NEW amount \in BidAmounts, CommitBid(t, a, amount)
      PROVE  TypeInv'
  <2> DEFINE o == OperatorOf[a]
  <2>1. o \in Operators /\ amount \in Nat /\ book[t].bond \in Nat /\ book[t].commitCount \in Nat
      BY <1>b DEF BidBook
  <2>2. [NoBid EXCEPT !.live = TRUE, !.agent = a, !.commit = amount,
                      !.bondPaid = book[t].bond] \in Bid
      BY <2>1 DEF NoBid, Bid
  <2>3. bid' \in [Tasks -> [Operators -> Bid]]
      BY <1>2, <1>b, <2>1, <2>2 DEF CommitBid, TypeInv, TypeOK
  <2>4. [book[t] EXCEPT !.commitCount = @ + 1] \in BidBook
      BY <1>b DEF BidBook
  <2>5. book' \in [Tasks -> BidBook]
      BY <1>2, <1>b, <2>1, <2>4 DEF CommitBid, TypeInv, TypeOK
  <2>r. Received(book[t].bond) \in Nat
      BY <1>r, <2>1
  <2>6. wallet' \in [Accounts -> Nat] /\ bondEscrow' \in [Tasks -> Nat]
      BY <1>2, <2>1, <2>r DEF CommitBid, TypeInv, TypeOK, Accounts
  <2>7. net' \in [Tasks -> [Operators -> Int]]
      BY <1>2, <2>1 DEF CommitBid, TypeInv, TypeOK
  <2> QED BY <1>2, <2>3, <2>5, <2>6, <2>7 DEF CommitBid, TypeInv, TypeOK, FeesBelowAmount
<1>3. ASSUME NEW o \in Operators, RevealBid(t, o)
      PROVE  TypeInv'
  <2>1. \A r \in Bid, n \in Nat : [r EXCEPT !.amount = n, !.revealed = TRUE] \in Bid
      BY DEF Bid
  <2>2. bid[t][o] \in Bid /\ bid[t][o].commit \in Nat /\ book[t].revealCount \in Nat
      BY <1>b DEF Bid, BidBook
  <2>3. bid' \in [Tasks -> [Operators -> Bid]]
      BY <1>3, <1>b, <2>1, <2>2 DEF RevealBid, TypeInv, TypeOK
  <2>4. [book[t] EXCEPT !.phase = "Reveal", !.revealCount = @ + 1] \in BidBook
    <3>1. \A r \in BidBook, n \in Nat :
              [r EXCEPT !.phase = "Reveal", !.revealCount = n] \in BidBook
        BY DEF BidBook, BidPhase
    <3>2. book[t].revealCount + 1 \in Nat
        BY <2>2
    <3> QED BY <1>b, <3>1, <3>2
  <2>5. book' \in [Tasks -> BidBook]
      BY <1>3, <2>4 DEF RevealBid, TypeInv, TypeOK
  <2> QED BY <1>3, <2>3, <2>5 DEF RevealBid, TypeInv, TypeOK, FeesBelowAmount
<1>4. ASSUME NEW o \in Operators, RevealMismatch(t, o)
      PROVE  TypeInv'
  <2>1. \A r \in Bid : [r EXCEPT !.slashed = TRUE] \in Bid
      BY DEF Bid
  <2>3. bid' \in [Tasks -> [Operators -> Bid]]
      BY <1>4, <1>b, <2>1 DEF RevealMismatch, TypeInv, TypeOK
  <2>4. \A r \in BidBook : [r EXCEPT !.phase = "Reveal"] \in BidBook
      BY DEF BidBook, BidPhase
  <2>5. book' \in [Tasks -> BidBook]
      BY <1>4, <1>b, <2>4 DEF RevealMismatch, TypeInv, TypeOK
  <2> QED BY <1>4, <2>3, <2>5 DEF RevealMismatch, TypeInv, TypeOK, FeesBelowAmount
<1>5. ASSUME NEW S \in SUBSET Operators, NEW w \in S, CloseBiddingSettle(t, S, w)
      PROVE  TypeInv'
  <2>1. bid[t][w].agent \in Agents \cup {None} /\ bid[t][w].amount \in Nat
      BY <1>b DEF Bid
  <2>2. \A r \in BidBook, o \in Operators, a \in Agents \cup {None}, n \in Nat :
            [r EXCEPT !.phase = "Settled", !.winnerBidder = o, !.winnerAgent = a,
                      !.winnerAmount = n] \in BidBook
      BY DEF BidBook, BidPhase
  <2>3. book' \in [Tasks -> BidBook]
      BY <1>5, <1>b, <2>1, <2>2 DEF CloseBiddingSettle, TypeInv, TypeOK
  <2>4. \A r \in TaskContract, a \in Agents \cup {None} :
            [r EXCEPT !.assigned = a, !.agentDid = a] \in TaskContract
      BY DEF TaskContract
  <2>5. task' \in [Tasks -> TaskContract]
      BY <1>5, <1>b, <2>1, <2>4 DEF CloseBiddingSettle, TypeInv, TypeOK
  <2>6. FeesBelowAmount'
      BY <1>5 DEF CloseBiddingSettle, TypeInv, TypeOK, TaskContract, FeesBelowAmount
  <2> QED BY <1>5, <2>3, <2>5, <2>6 DEF CloseBiddingSettle, TypeInv, TypeOK
<1>6. CASE CloseBiddingCancel(t)
  <2>1. \A r \in BidBook :
            [r EXCEPT !.phase = "Cancelled", !.winnerBidder = None, !.winnerAgent = None,
                      !.winnerAmount = 0] \in BidBook
      BY DEF BidBook, BidPhase
  <2>2. book' \in [Tasks -> BidBook]
      BY <1>6, <1>b, <2>1 DEF CloseBiddingCancel, TypeInv, TypeOK
  <2>3. task' \in [Tasks -> TaskContract] /\ FeesBelowAmount'
      BY <1>6, SetStatus DEF CloseBiddingCancel, TypeInv, TaskStatus
  <2> QED BY <1>6, <2>2, <2>3 DEF CloseBiddingCancel, TypeInv, TypeOK
<1>7. CASE CancelBidding(t)
  BY <1>7, <1>n DEF CancelBidding, TypeInv, TypeOK, FeesBelowAmount
<1>8. ASSUME NEW o \in Operators, NEW dest \in SlashTargets, ClaimBond(t, o, dest)
      PROVE  TypeInv'
  <2> DEFINE claim == ClaimOutcome(t, o)
             moved == IF claim = "WinnerRetain" THEN 0 ELSE bid[t][o].bondPaid
             target == IF claim = "Refund" THEN o ELSE dest
  <2>1. moved \in Nat /\ bid[t][o] \in Bid /\ bid[t][o].slashed \in BOOLEAN
      BY <1>b DEF Bid
  <2>2. \A r \in Bid, b \in BOOLEAN : [r EXCEPT !.refunded = TRUE, !.slashed = b] \in Bid
      BY DEF Bid
  <2>3. bid' \in [Tasks -> [Operators -> Bid]]
    <3>1. [bid[t][o] EXCEPT !.refunded = TRUE, !.slashed = @ \/ claim = "Slash"] \in Bid
        BY <2>1, <2>2
    <3> QED BY <1>8, <1>b, <3>1 DEF ClaimBond, TypeInv, TypeOK
  <2>t. target \in Accounts
      BY DEF Accounts
  <2>m. /\ bondEscrow[t] >= moved
        /\ bondEscrow' = [bondEscrow EXCEPT ![t] = @ - moved]
        /\ wallet' = [wallet EXCEPT ![target] = @ + Received(moved)]
        /\ net' = [net EXCEPT ![t][o] = IF claim = "Refund" THEN @ - moved ELSE @]
      BY <1>8 DEF ClaimBond
  <2> HIDE DEF moved, claim, target
  <2>r. Received(moved) \in Nat
      BY <1>r, <2>1
  <2>4. bondEscrow' \in [Tasks -> Nat]
      BY <2>1, <2>m DEF TypeInv, TypeOK
  <2>5. wallet' \in [Accounts -> Nat]
      BY <2>r, <2>m, <2>t DEF TypeInv, TypeOK
  <2>6. net' \in [Tasks -> [Operators -> Int]]
    <3>1. net[t][o] \in Int /\ net[t] \in [Operators -> Int]
        BY DEF TypeInv, TypeOK
    <3>2. (IF claim = "Refund" THEN net[t][o] - moved ELSE net[t][o]) \in Int
        BY <2>1, <3>1
    <3> QED BY <2>m, <3>1, <3>2 DEF TypeInv, TypeOK
  <2> QED BY <1>8, <2>3, <2>4, <2>5, <2>6 DEF ClaimBond, TypeInv, TypeOK, FeesBelowAmount
<1>9. ASSUME NEW o \in Operators, CloseBid(t, o)
      PROVE  TypeInv'
  BY <1>9, <1>n DEF CloseBid, TypeInv, TypeOK, FeesBelowAmount
<1>10. CASE CloseBidBook(t)
  BY <1>10, <1>n DEF CloseBidBook, TypeInv, TypeOK, FeesBelowAmount
<1>11. CASE Gift(t)
  BY <1>11 DEF Gift, TypeInv, TypeOK, FeesBelowAmount
<1> QED BY <1>1, <1>2, <1>3, <1>4, <1>5, <1>6, <1>7, <1>8, <1>9, <1>10, <1>11 DEF Bidding

\* So do governance and the registry.
LEMMA GovernanceType ==
    ASSUME TypeInv, Governance
    PROVE  TypeInv'
<1>m. market \in MarketGlobal /\ hookOk \in BOOLEAN
    BY DEF TypeInv, TypeOK
<1>u. ASSUME market' \in MarketGlobal, hookOk' \in BOOLEAN, UnchangedByGovernance
      PROVE  TypeInv'
    BY <1>u DEF TypeInv, TypeOK, FeesBelowAmount, UnchangedByGovernance
<1>1. ASSUME NEW v \in PauseChoices, SetPaused(v) PROVE TypeInv'
  <2>1. v \in BOOLEAN
      BY ConstantsAssumption
  <2>2. market' \in MarketGlobal /\ hookOk' = hookOk /\ UnchangedByGovernance
      BY <1>1, <1>m, <2>1 DEF SetPaused, MarketGlobal
  <2> QED BY <1>m, <1>u, <2>2
<1>2. ASSUME NEW f \in FeeChoices, SetFees(f[1], f[2]) PROVE TypeInv'
  <2>1. f[1] \in Nat /\ f[2] \in Nat
      BY ConstantsAssumption
  <2>2. market' \in MarketGlobal /\ hookOk' = hookOk /\ UnchangedByGovernance
      BY <1>2, <1>m, <2>1 DEF SetFees, MarketGlobal
  <2> QED BY <1>m, <1>u, <2>2
<1>3. ASSUME NEW w \in WindowChoices, SetDisputeWindowSecs(w) PROVE TypeInv'
  <2>0. w \in Int /\ w > 0
      BY <1>3, ConstantsAssumption DEF SetDisputeWindowSecs
  <2>1. w \in Nat
      BY <2>0
  <2>2. market' \in MarketGlobal /\ hookOk' = hookOk /\ UnchangedByGovernance
      BY <1>3, <1>m, <2>1 DEF SetDisputeWindowSecs, MarketGlobal
  <2> QED BY <1>m, <1>u, <2>2
<1>4. ASSUME NEW v \in MintChoices, SetAllowedMint(v) PROVE TypeInv'
  <2>1. v \in BOOLEAN
      BY ConstantsAssumption
  <2>2. market' \in MarketGlobal /\ hookOk' = hookOk /\ UnchangedByGovernance
      BY <1>4, <1>m, <2>1 DEF SetAllowedMint, MarketGlobal
  <2> QED BY <1>m, <1>u, <2>2
<1>5. ASSUME AllowPaymentMint PROVE TypeInv'
  <2>1. market' \in MarketGlobal /\ hookOk' = hookOk /\ UnchangedByGovernance
      BY <1>5, <1>m DEF AllowPaymentMint, MarketGlobal
  <2> QED BY <1>m, <1>u, <2>1
<1>6. ASSUME SetHookAllowlistPtr PROVE TypeInv'
  <2>1. market' \in MarketGlobal /\ hookOk' = hookOk /\ UnchangedByGovernance
      BY <1>6, <1>m DEF SetHookAllowlistPtr, MarketGlobal
  <2> QED BY <1>m, <1>u, <2>1
<1>7. ASSUME NEW v \in HookChoices, UpdateHookAllowlist(v) PROVE TypeInv'
  <2>1. v \in BOOLEAN
      BY ConstantsAssumption
  <2>2. market' = market /\ hookOk' = v /\ UnchangedByGovernance
      BY <1>7 DEF UpdateHookAllowlist
  <2> QED BY <1>m, <1>u, <2>1, <2>2
<1>8. ASSUME NEW a \in Agents, NEW s \in AgentStates, RegistryStep(a, s) PROVE TypeInv'
    BY <1>8 DEF RegistryStep, TypeInv, TypeOK, FeesBelowAmount
<1> QED BY <1>1, <1>2, <1>3, <1>4, <1>5, <1>6, <1>7, <1>8 DEF Governance

\* TypeInv is inductive.
LEMMA StepType == TypeInv /\ [Next]_vars => TypeInv'
<1> SUFFICES ASSUME TypeInv, [Next]_vars PROVE TypeInv'
    OBVIOUS
<1>1. CASE Next
  <2>1. ASSUME Tick PROVE TypeInv'
      BY <2>1, ConstantsAssumption DEF Tick, TypeInv, TypeOK, FeesBelowAmount
  <2> QED BY <1>1, <2>1, LifecycleType, BiddingType, GovernanceType DEF Next
<1>2. CASE UNCHANGED vars
    BY <1>2 DEF vars, TypeInv, TypeOK, FeesBelowAmount
<1> QED BY <1>1, <1>2

LEMMA AlwaysTypeInv == Spec => []TypeInv
<1> QED BY InitType, StepType, PTL DEF Spec

\* Type correctness of the task market, for every set of tasks, agents and
\* operators: in particular no instruction drives a balance below zero.
THEOREM TypeCorrect == Spec => []TypeOK
<1>1. TypeInv => TypeOK
    BY DEF TypeInv
<1> QED BY AlwaysTypeInv, <1>1, PTL

-----------------------------------------------------------------------------
(* Payments *)

Submitted == {"ProofSubmitted", "Verified", "Disputed"}

\* The payment of one task: its escrow holds what fund_task brought in until the payment
\* has left, and a payment that has left was once funded. The status alone does not say
\* so: close_bidding may set a finished task back to Funded.
Payment(t) ==
    /\ escrow[t] = IF outcome[t] = None /\ task[t].status \in Holding
                   THEN Received(task[t].amount) ELSE 0
    /\ IF outcome[t] = None THEN task[t].status \in Holding \cup {"Absent", "Created"}
                            ELSE task[t].status \notin {"Absent", "Created"}
    /\ task[t].status # "Absent" => task[t].amount > 0
    /\ HasBook(t) => task[t].status \notin {"Absent", "Created"}

\* The two fields that name an agent agree after an award, and a submitted result names
\* the agent that submitted it.
Named(t) ==
    /\ task[t].assigned # None => task[t].agentDid = task[t].assigned
    /\ task[t].status \in Submitted => task[t].result.by # None

\* What holds until bidding is opened again after an award.
FirstAward(t) ==
    t \notin reopened =>
        /\ outcome[t] # None => task[t].status \in {"Released", "Expired"}
        /\ BiddingOpen(t) => task[t].status = "Funded" /\ task[t].assigned = None
        /\ task[t].status \in Submitted => AgentMatches(t, task[t].result.by)

EscrowInv == TypeInv /\ \A t \in Tasks : Payment(t) /\ Named(t) /\ FirstAward(t)

LEMMA InitEscrow == Init => EscrowInv
<1> SUFFICES ASSUME Init PROVE EscrowInv
    OBVIOUS
<1>1. TypeInv
    BY InitType
<1>2. ASSUME NEW t \in Tasks PROVE Payment(t) /\ Named(t) /\ FirstAward(t)
    BY DEF Init, Payment, Named, FirstAward, HasBook, BiddingOpen, Submitted, Holding, NoTask,
       NoBook
<1> QED BY <1>1, <1>2 DEF EscrowInv

\* A step that leaves a task alone keeps its part.
LEMMA FrameEscrow ==
    ASSUME NEW x \in Tasks, SameTask(x), market'.transferFeeBps = market.transferFeeBps,
           Payment(x), Named(x), FirstAward(x)
    PROVE  Payment(x)' /\ Named(x)' /\ FirstAward(x)'
<1>1. Received(task[x].amount)' = Received(task[x].amount)
    BY DEF SameTask, Received
<1>2. Payment(x)'
    BY <1>1 DEF SameTask, Payment, HasBook
<1>3. Named(x)' /\ FirstAward(x)'
    BY DEF SameTask, Named, FirstAward, BiddingOpen, AgentMatches, HasBook
<1> QED BY <1>2, <1>3

\* What a step that only changes the status of task t leaves alone.
LEMMA StatusFrame ==
    ASSUME TypeOK, NEW t \in Tasks, NEW s, task' = [task EXCEPT ![t].status = s]
    PROVE  /\ task'[t].status = s
           /\ task'[t].amount = task[t].amount
           /\ task'[t].result = task[t].result
           /\ task'[t].assigned = task[t].assigned
           /\ task'[t].agentDid = task[t].agentDid
BY DEF TypeOK, TaskContract

\* An escrow that covers the whole payment holds it, and it has not left yet.
LEMMA CoveredIsHeld ==
    ASSUME TypeInv, NEW t \in Tasks, Payment(t), task[t].status # "Absent",
           escrow[t] >= task[t].amount
    PROVE  outcome[t] = None /\ escrow[t] = task[t].amount /\ task[t].status \in Holding
<1>1. task[t].amount \in Nat /\ task[t].amount > 0 /\ escrow[t] \in Nat
    BY DEF TypeInv, TypeOK, TaskContract, Payment
<1>2. Received(task[t].amount) \in Nat /\ Received(task[t].amount) <= task[t].amount
    BY <1>1, ReceivedBound DEF TypeInv
<1>3. outcome[t] = None /\ task[t].status \in Holding /\ escrow[t] = Received(task[t].amount)
    BY <1>1 DEF Payment
<1> QED BY <1>1, <1>2, <1>3

\* What release and the refunds do to the escrow: they empty it, once.
LEMMA PaysOnce ==
    ASSUME TypeInv, NEW t \in Tasks, Payment(t),
           (RefundClient(t) /\ task[t].status # "Absent") \/ (\E a \in Agents : Release(t, a))
    PROVE  /\ outcome[t] = None /\ escrow[t] = task[t].amount /\ task[t].status \in Holding
           /\ escrow' = [escrow EXCEPT ![t] = 0]
           /\ task'[t].status = IF RefundClient(t) THEN "Expired" ELSE "Released"
           /\ task'[t].amount = task[t].amount /\ task'[t].result = task[t].result
           /\ task'[t].assigned = task[t].assigned /\ task'[t].agentDid = task[t].agentDid
<1>f. TypeOK /\ escrow \in [Tasks -> Nat] /\ task[t].amount \in Nat
    BY DEF TypeInv, TypeOK, TaskContract
<1>1. ReleaseTotal(t) = task[t].amount
  <2>1. /\ task[t].amount \in Nat /\ task[t].protocolFee \in Nat /\ task[t].solrepFee \in Nat
      BY DEF TypeInv, TypeOK, TaskContract
  <2> QED BY <2>1 DEF ReleaseTotal, AgentPayout
<1>2. /\ escrow[t] >= task[t].amount /\ task[t].status # "Absent"
      /\ escrow' = [escrow EXCEPT ![t] = escrow[t] - task[t].amount]
    BY <1>1 DEF Release, RefundClient
<1>3. outcome[t] = None /\ escrow[t] = task[t].amount /\ task[t].status \in Holding
    BY <1>2, CoveredIsHeld
<1>4. escrow[t] - task[t].amount = 0
    BY <1>f, <1>3
<1>5. escrow' = [escrow EXCEPT ![t] = 0]
    BY <1>2, <1>4
<1>6. \/ RefundClient(t) /\ task' = [task EXCEPT ![t].status = "Expired"]
      \/ task' = [task EXCEPT ![t].status = "Released"]
    BY DEF Release, RefundClient
<1>7. CASE RefundClient(t)
  <2>1. task' = [task EXCEPT ![t].status = "Expired"]
      BY <1>7 DEF RefundClient
  <2>2. /\ task'[t].status = "Expired"
        /\ task'[t].amount = task[t].amount /\ task'[t].result = task[t].result
        /\ task'[t].assigned = task[t].assigned /\ task'[t].agentDid = task[t].agentDid
      BY <1>f, <2>1, StatusFrame, Zenon
  <2> QED BY <1>3, <1>5, <1>7, <2>2
<1>8. CASE ~RefundClient(t)
  <2>1. task' = [task EXCEPT ![t].status = "Released"]
      BY <1>6, <1>8
  <2>2. /\ task'[t].status = "Released"
        /\ task'[t].amount = task[t].amount /\ task'[t].result = task[t].result
        /\ task'[t].assigned = task[t].assigned /\ task'[t].agentDid = task[t].agentDid
      BY <1>f, <2>1, StatusFrame, Zenon
  <2> QED BY <1>3, <1>5, <1>8, <2>2
<1> QED BY <1>7, <1>8

LEMMA LifecycleEscrow ==
    ASSUME EscrowInv, NEW t \in Tasks, Lifecycle(t)
    PROVE  Payment(t)' /\ Named(t)' /\ FirstAward(t)'
<1> USE DEF Holding, Submitted
<1>f. /\ task \in [Tasks -> TaskContract] /\ escrow \in [Tasks -> Nat]
      /\ outcome \in [Tasks -> {None, "Paid", "Refunded"}]
      /\ task[t] \in TaskContract /\ task[t].amount \in Nat /\ TypeInv /\ TypeOK
      /\ Payment(t) /\ Named(t) /\ FirstAward(t)
    BY DEF EscrowInv, TypeInv, TypeOK, TaskContract
<1>n. None \notin Agents
    BY ConstantsAssumption
<1>s. market' = market /\ book' = book /\ reopened' = reopened
    BY <1>f, LifecycleElsewhere
<1>r. \A n : Received(n)' = Received(n)
    BY <1>s DEF Received
<1>b. (HasBook(t)' <=> HasBook(t)) /\ (BiddingOpen(t)' <=> BiddingOpen(t))
    BY <1>s DEF HasBook, BiddingOpen
\* A new status of a task whose payment stays where it is.
<1>m. ASSUME outcome'[t] = outcome[t], escrow'[t] = escrow[t],
             task'[t].amount = task[t].amount, task'[t].assigned = task[t].assigned,
             task'[t].agentDid = task[t].agentDid,
             task[t].status \in Holding, task'[t].status \in Submitted,
             task'[t].result.by # None, ~BiddingOpen(t) \/ t \in reopened,
             t \notin reopened => AgentMatches(t, task'[t].result.by)
      PROVE  Payment(t)' /\ Named(t)' /\ FirstAward(t)'
  <2>1. Payment(t)'
      BY <1>f, <1>m, <1>r, <1>b DEF Payment
  <2>2. Named(t)'
      BY <1>f, <1>m DEF Named
  <2>3. AgentMatches(t, task'[t].result.by) => AgentMatches(t, task[t].result.by)'
      BY <1>m, <1>b DEF AgentMatches
  <2>4. t \notin reopened => outcome[t] = None
      BY <1>f, <1>m DEF FirstAward
  <2>5. FirstAward(t)'
      BY <1>m, <1>s, <1>b, <2>3, <2>4 DEF FirstAward
  <2> QED BY <2>1, <2>2, <2>5
<1>1. ASSUME NEW a \in Agents, NEW amount \in Amounts, NEW secs \in DeadlineSecs,
             NEW cap \in Capabilities, NEW gated \in BOOLEAN,
             CreateTask(t, a, amount, secs, cap, gated)
      PROVE  Payment(t)' /\ Named(t)' /\ FirstAward(t)'
  <2>1. /\ task[t].status = "Absent" /\ amount > 0 /\ escrow' = escrow /\ outcome' = outcome
        /\ task'[t].status = "Created" /\ task'[t].assigned = None /\ task'[t].amount = amount
      BY <1>1, <1>f DEF CreateTask, NoTask
  <2>2. outcome[t] = None /\ ~HasBook(t) /\ escrow[t] = 0
      BY <1>f, <2>1 DEF Payment
  <2> QED BY <1>b, <2>1, <2>2 DEF Payment, Named, FirstAward, HasBook, BiddingOpen
<1>2. CASE FundTask(t)
  <2>1. /\ task'[t].status = "Funded" /\ task'[t].amount = task[t].amount
        /\ task'[t].assigned = task[t].assigned /\ task'[t].agentDid = task[t].agentDid
      BY <1>2, <1>f, StatusFrame DEF FundTask
  <2>2. task[t].status = "Created" /\ outcome' = outcome
        /\ escrow'[t] = escrow[t] + Received(task[t].amount)
      BY <1>2, <1>f DEF FundTask
  <2>3. outcome[t] = None /\ ~HasBook(t) /\ escrow[t] = 0
      BY <1>f, <2>2 DEF Payment
  <2>4. Received(task[t].amount) \in Nat
      BY <1>f, ReceivedBound
  <2>5. escrow'[t] = Received(task[t].amount)
      BY <2>2, <2>3, <2>4
  <2>6. Payment(t)'
      BY <1>f, <1>r, <1>b, <2>1, <2>2, <2>3, <2>5 DEF Payment
  <2>7. Named(t)'
      BY <1>f, <2>1 DEF Named
  <2>8. FirstAward(t)'
      BY <1>b, <2>1, <2>2, <2>3 DEF FirstAward, BiddingOpen, HasBook
  <2> QED BY <2>6, <2>7, <2>8
<1>3. CASE CancelUnfundedTask(t)
  <2>1. /\ task[t].status = "Created" /\ escrow' = escrow /\ outcome' = outcome
        /\ task'[t].status = "Absent" /\ task'[t].assigned = None
      BY <1>3, <1>f DEF CancelUnfundedTask, NoTask
  <2>2. outcome[t] = None /\ ~HasBook(t) /\ escrow[t] = 0
      BY <1>f, <2>1 DEF Payment
  <2> QED BY <1>b, <2>1, <2>2 DEF Payment, Named, FirstAward, HasBook, BiddingOpen
<1>4. ASSUME NEW a \in Agents, NEW provable \in BOOLEAN, SubmitResult(t, a, provable)
      PROVE  Payment(t)' /\ Named(t)' /\ FirstAward(t)'
  <2>1. /\ task'[t].status = "ProofSubmitted" /\ task'[t].amount = task[t].amount
        /\ task'[t].result.by = a
        /\ task'[t].assigned = task[t].assigned /\ task'[t].agentDid = task[t].agentDid
      BY <1>4, <1>f DEF SubmitResult, TaskContract
  <2>2. /\ task[t].status = "Funded" /\ AgentMatches(t, a)
        /\ escrow' = escrow /\ outcome' = outcome
      BY <1>4 DEF SubmitResult
  <2>3. ~BiddingOpen(t) \/ t \in reopened
      BY <1>f, <1>n, <2>2 DEF FirstAward, AgentMatches, BiddingOpen, HasBook
  <2> QED BY <1>m, <1>n, <2>1, <2>2, <2>3
<1>5. CASE VerifyTask(t)
  <2>1. /\ task'[t].status = "Verified" /\ task'[t].amount = task[t].amount
        /\ task'[t].result = task[t].result
        /\ task'[t].assigned = task[t].assigned /\ task'[t].agentDid = task[t].agentDid
      BY <1>5, <1>f DEF VerifyTask, TaskContract
  <2>2. /\ task[t].status = "ProofSubmitted" /\ escrow' = escrow /\ outcome' = outcome
      BY <1>5 DEF VerifyTask
  <2>3. /\ task[t].result.by # None /\ (~BiddingOpen(t) \/ t \in reopened)
        /\ (t \notin reopened => AgentMatches(t, task[t].result.by))
      BY <1>f, <2>2 DEF Named, FirstAward
  <2> QED BY <1>m, <2>1, <2>2, <2>3
<1>6. ASSUME (RefundClient(t) /\ task[t].status # "Absent") \/ (\E a \in Agents : Release(t, a)),
             task[t].status # "Funded" \/ ~BiddingOpen(t) \/ t \in reopened
      PROVE  Payment(t)' /\ Named(t)' /\ FirstAward(t)'
  <2>1. /\ task[t].status \in Holding /\ escrow' = [escrow EXCEPT ![t] = 0]
        /\ task'[t].status \in {"Released", "Expired"} /\ task'[t].amount = task[t].amount
        /\ task'[t].assigned = task[t].assigned /\ task'[t].agentDid = task[t].agentDid
      BY <1>6, <1>f, PaysOnce
  <2>2. outcome'[t] # None
    <3>1. outcome'[t] \in {"Paid", "Refunded"}
        BY <1>6, <1>f DEF RefundClient, Release
    <3> QED BY <3>1 DEF None
  <2>3. escrow'[t] = 0
      BY <1>f, <2>1
  <2>4. ~BiddingOpen(t) \/ t \in reopened
      BY <1>f, <1>6 DEF FirstAward
  <2>5. Payment(t)'
      BY <1>f, <1>b, <2>1, <2>2, <2>3 DEF Payment
  <2>6. Named(t)'
      BY <1>f, <2>1 DEF Named
  <2>7. FirstAward(t)'
      BY <1>b, <1>s, <2>1, <2>4 DEF FirstAward
  <2> QED BY <2>5, <2>6, <2>7
<1>7. ASSUME NEW a \in Agents, Release(t, a)
      PROVE  Payment(t)' /\ Named(t)' /\ FirstAward(t)'
    BY <1>6, <1>7 DEF Release
<1>8. ASSUME NEW a \in Agents, Expire(t, a)
      PROVE  Payment(t)' /\ Named(t)' /\ FirstAward(t)'
  <2>1. ~BiddingOpen(t) \/ t \in reopened
      BY <1>f, <1>n, <1>8 DEF Expire, FirstAward, AgentMatches, BiddingOpen, HasBook
  <2> QED BY <1>6, <1>8, <2>1 DEF Expire
<1>9. CASE DisputedTimeoutRefund(t)
    BY <1>6, <1>9 DEF DisputedTimeoutRefund
<1>10. CASE RaiseDispute(t)
  <2>1. /\ task'[t].status = "Disputed" /\ task'[t].amount = task[t].amount
        /\ task'[t].result = task[t].result
        /\ task'[t].assigned = task[t].assigned /\ task'[t].agentDid = task[t].agentDid
      BY <1>10, <1>f, StatusFrame DEF RaiseDispute
  <2>2. /\ task[t].status = "Verified" /\ escrow' = escrow /\ outcome' = outcome
      BY <1>10 DEF RaiseDispute
  <2>3. /\ task[t].result.by # None /\ (~BiddingOpen(t) \/ t \in reopened)
        /\ (t \notin reopened => AgentMatches(t, task[t].result.by))
      BY <1>f, <2>2 DEF Named, FirstAward
  <2> QED BY <1>m, <2>1, <2>2, <2>3
<1> QED BY <1>1, <1>2, <1>3, <1>4, <1>5, <1>7, <1>8, <1>9, <1>10 DEF Lifecycle

\* Bidding moves no payment, and before a second award it writes into a task only while
\* the task is Funded.
LEMMA BiddingEscrow ==
    ASSUME EscrowInv, NEW t \in Tasks, Bidding(t)
    PROVE  Payment(t)' /\ Named(t)' /\ FirstAward(t)'
<1> USE DEF Holding, Submitted
<1>f. /\ task \in [Tasks -> TaskContract] /\ book \in [Tasks -> BidBook]
      /\ bid \in [Tasks -> [Operators -> Bid]] /\ task[t] \in TaskContract
      /\ TypeInv /\ TypeOK /\ Payment(t) /\ Named(t) /\ FirstAward(t)
    BY DEF EscrowInv, TypeInv, TypeOK
<1>n. "None" # "NoBook"
    OBVIOUS
<1>s. market' = market /\ escrow' = escrow /\ outcome' = outcome /\ reopened \subseteq reopened'
    BY <1>f, BiddingElsewhere
<1>r. \A x : Received(x)' = Received(x)
    BY <1>s DEF Received
\* Instructions that leave the task as it is.
<1>1. ASSUME task'[t] = task[t],
             HasBook(t)' => task[t].status \notin {"Absent", "Created"},
             t \notin reopened' =>
                /\ BiddingOpen(t)' => task[t].status = "Funded" /\ task[t].assigned = None
                /\ task[t].status \in Submitted => AgentMatches(t, task[t].result.by)'
      PROVE  Payment(t)' /\ Named(t)' /\ FirstAward(t)'
  <2>1. Payment(t)'
      BY <1>f, <1>1, <1>s, <1>r DEF Payment
  <2>2. Named(t)'
      BY <1>f, <1>1 DEF Named
  <2>3. FirstAward(t)'
      BY <1>f, <1>1, <1>s DEF FirstAward
  <2> QED BY <2>1, <2>2, <2>3
<1>2. ASSUME NEW cs \in WindowSecs, NEW rs \in WindowSecs, NEW bps \in BondBps,
             OpenBidding(t, cs, rs, bps)
      PROVE  Payment(t)' /\ Named(t)' /\ FirstAward(t)'
  <2>1. task' = task /\ task[t].status = "Funded" /\ (t \notin reopened' => task[t].assigned = None)
      BY <1>2 DEF OpenBidding
  <2> QED BY <1>1, <2>1
\* Instructions on a book that leave it a book, and do not open it.
<1>3. ASSUME task' = task, HasBook(t), HasBook(t)', BiddingOpen(t)' => BiddingOpen(t)
      PROVE  Payment(t)' /\ Named(t)' /\ FirstAward(t)'
  <2>1. \A a : AgentMatches(t, a) <=> AgentMatches(t, a)'
      BY <1>3 DEF AgentMatches
  <2>2. AgentMatches(t, task[t].result.by) => AgentMatches(t, task[t].result.by)'
      BY <1>3, <2>1 DEF AgentMatches
  <2> QED BY <1>1, <1>3, <1>f, <1>s, <2>2 DEF FirstAward, Payment
<1>4. ASSUME NEW a \in Agents, NEW amount \in BidAmounts, CommitBid(t, a, amount)
      PROVE  Payment(t)' /\ Named(t)' /\ FirstAward(t)'
  BY <1>3, <1>4, <1>f DEF CommitBid, HasBook, BiddingOpen, BidBook
<1>5. ASSUME NEW o \in Operators, RevealBid(t, o) \/ RevealMismatch(t, o)
      PROVE  Payment(t)' /\ Named(t)' /\ FirstAward(t)'
  <2>1. task' = task /\ book[t].phase \in {"Commit", "Reveal"} /\ book'[t].phase = "Reveal"
      BY <1>5, <1>f DEF RevealBid, RevealMismatch, RevealAllowed, BidBook
  <2> QED BY <1>3, <2>1 DEF HasBook, BiddingOpen
<1>6. ASSUME NEW S \in SUBSET Operators, NEW w \in S, CloseBiddingSettle(t, S, w)
      PROVE  Payment(t)' /\ Named(t)' /\ FirstAward(t)'
  <2>1. /\ task'[t].status = task[t].status /\ task'[t].amount = task[t].amount
        /\ task'[t].agentDid = task'[t].assigned /\ book'[t].phase = "Settled"
        /\ task'[t].result = task[t].result
      BY <1>6, <1>f DEF CloseBiddingSettle, TaskContract, BidBook
  <2>2. HasBook(t) /\ BiddingOpen(t) /\ HasBook(t)' /\ ~BiddingOpen(t)'
      BY <1>6, <2>1 DEF CloseBiddingSettle, CloseBiddingAllowed, HasBook, BiddingOpen
  <2>3. Payment(t)'
      BY <1>f, <1>s, <1>r, <2>1, <2>2 DEF Payment
  <2>4. Named(t)'
      BY <1>f, <2>1 DEF Named
  <2>5. FirstAward(t)'
      BY <1>f, <1>s, <2>1, <2>2 DEF FirstAward
  <2> QED BY <2>3, <2>4, <2>5
<1>7. CASE CloseBiddingCancel(t)
  <2>1. /\ task'[t].status = "Funded" /\ task'[t].amount = task[t].amount
        /\ task'[t].assigned = task[t].assigned /\ task'[t].agentDid = task[t].agentDid
      BY <1>7, <1>f, StatusFrame DEF CloseBiddingCancel
  <2>2. HasBook(t) /\ BiddingOpen(t) /\ book'[t].phase = "Cancelled"
      BY <1>7, <1>f DEF CloseBiddingCancel, CloseBiddingAllowed, HasBook, BiddingOpen, BidBook
  <2>3. Payment(t)'
      BY <1>f, <1>s, <1>r, <2>1, <2>2 DEF Payment
  <2>4. Named(t)'
      BY <1>f, <2>1 DEF Named
  <2>5. FirstAward(t)'
      BY <1>f, <1>s, <2>1, <2>2 DEF FirstAward, BiddingOpen
  <2> QED BY <2>3, <2>4, <2>5
<1>8. CASE CancelBidding(t)
  <2>1. task' = task /\ book[t].phase = "Commit" /\ book'[t].phase = "NoBook"
      BY <1>8, <1>f DEF CancelBidding, NoBook
  <2>2. t \notin reopened' => task[t].status = "Funded"
      BY <1>f, <1>s, <2>1 DEF FirstAward, BiddingOpen
  <2> QED BY <1>1, <2>1, <2>2 DEF HasBook, BiddingOpen
<1>9. ASSUME NEW o \in Operators, NEW dest \in SlashTargets, ClaimBond(t, o, dest)
      PROVE  Payment(t)' /\ Named(t)' /\ FirstAward(t)'
  BY <1>3, <1>9 DEF ClaimBond, BookOver, HasBook, BiddingOpen
<1>10. ASSUME NEW o \in Operators, CloseBid(t, o)
      PROVE  Payment(t)' /\ Named(t)' /\ FirstAward(t)'
  BY <1>3, <1>10 DEF CloseBid, BookOver, HasBook, BiddingOpen
<1>11. CASE CloseBidBook(t)
  <2>1. /\ task' = task /\ book'[t].phase = "NoBook" /\ HasBook(t)
      BY <1>11, <1>f DEF CloseBidBook, BookOver, NoBook, HasBook
  <2>2. t \notin reopened' /\ task[t].status \in Submitted => task[t].agentDid = task[t].result.by
      BY <1>f, <1>s, <2>1 DEF FirstAward, AgentMatches, Named
  <2> QED BY <1>1, <2>1, <2>2 DEF HasBook, BiddingOpen, AgentMatches
<1>12. CASE Gift(t)
  BY <1>3, <1>12 DEF Gift, HasBook, BiddingOpen
<1> QED BY <1>2, <1>4, <1>5, <1>6, <1>7, <1>8, <1>9, <1>10, <1>11, <1>12 DEF Bidding

LEMMA StepEscrow == EscrowInv /\ [Next]_vars => EscrowInv'
<1> SUFFICES ASSUME EscrowInv, [Next]_vars PROVE EscrowInv'
    OBVIOUS
<1>1. TypeInv' /\ TypeOK /\ market'.transferFeeBps = market.transferFeeBps
    BY StepType, FeeFixed DEF EscrowInv, TypeInv
<1>2. ASSUME NEW x \in Tasks, SameTask(x)
      PROVE  Payment(x)' /\ Named(x)' /\ FirstAward(x)'
    BY <1>1, <1>2, FrameEscrow DEF EscrowInv
<1>3. ASSUME NEW t \in Tasks, Lifecycle(t) \/ Bidding(t)
      PROVE  EscrowInv'
  <2>1. Elsewhere(t)
      BY <1>1, <1>3, LifecycleElsewhere, BiddingElsewhere
  <2>2. Payment(t)' /\ Named(t)' /\ FirstAward(t)'
      BY <1>3, LifecycleEscrow, BiddingEscrow
  <2> QED BY <1>1, <1>2, <2>1, <2>2 DEF EscrowInv, Elsewhere
<1>4. ASSUME Governance \/ Tick \/ UNCHANGED vars
      PROVE  EscrowInv'
    BY <1>1, <1>2, <1>4, QuietSteps DEF EscrowInv
<1> QED BY <1>3, <1>4 DEF Next

LEMMA AlwaysEscrowInv == Spec => []EscrowInv
<1> QED BY InitEscrow, StepEscrow, PTL DEF Spec

\* Until bidding is opened again after an award, the escrow of a task holds what
\* fund_task brought in exactly while the status says so, and is paid out or back once
\* (specs/07 invariant 1).
THEOREM EscrowAlwaysBacked == Spec => []EscrowBacked
<1>1. EscrowInv => EscrowBacked
    BY DEF EscrowInv, Payment, FirstAward, EscrowBacked, Holding
<1> QED BY AlwaysEscrowInv, <1>1, PTL

\* Under the same condition a task is frozen while bids are collected, and the
\* agent that release pays is the one whose result was submitted and verified.
THEOREM PayeeDidTheWork == Spec => []BiddingFreezesTask /\ []WorkerIsPayee
<1>1. EscrowInv => BiddingFreezesTask /\ WorkerIsPayee
    BY DEF EscrowInv, FirstAward, BiddingFreezesTask, WorkerIsPayee, Submitted
<1> QED BY AlwaysEscrowInv, <1>1, PTL

-----------------------------------------------------------------------------
(* Refinement *)

\* The stages of the statuses that occur.
LEMMA Stages ==
    /\ DealOf("Absent") = "None"
    /\ DealOf("Created") = "Offered"
    /\ DealOf("Funded") = "Held"
    /\ DealOf("ProofSubmitted") = "Held"
    /\ DealOf("Verified") = "Delivered"
    /\ DealOf("Disputed") = "Contested"
    /\ DealOf("Released") = "Paid"
    /\ DealOf("Expired") = "Refunded"
BY DEF DealOf

LEMMA InitRefines == Init => Abstract!Init
BY Stages DEF Init, Abstract!Init, NoTask

\* The refinement mapping by name: the stage and the price of every task. A payment that
\* has left the escrow has its final stage, whatever the status of the task.
Deal == [t \in Tasks |-> IF outcome[t] = None THEN DealOf(task[t].status) ELSE outcome[t]]
Price == [t \in Tasks |-> task[t].amount]

LEMMA DealAt ==
    ASSUME NEW t \in Tasks
    PROVE  /\ Deal[t] = IF outcome[t] = None THEN DealOf(task[t].status) ELSE outcome[t]
           /\ Price[t] = task[t].amount
BY DEF Deal, Price

\* A step that changes one task only moves that task's stage and price.
LEMMA DealMoves ==
    ASSUME NEW t \in Tasks, Elsewhere(t)
    PROVE  /\ outcome'[t] = None => Deal' = [Deal EXCEPT ![t] = DealOf(task'[t].status)]
           /\ outcome'[t] # None => Deal' = [Deal EXCEPT ![t] = outcome'[t]]
           /\ Price' = [Price EXCEPT ![t] = task'[t].amount]
           /\ task'[t].amount = task[t].amount => Price' = Price
<1> USE DEF Elsewhere, SameTask
<1>1. outcome'[t] = None => Deal' = [Deal EXCEPT ![t] = DealOf(task'[t].status)]
    BY DEF Deal
<1>2. outcome'[t] # None => Deal' = [Deal EXCEPT ![t] = outcome'[t]]
    BY DEF Deal
<1>3. Price' = [Price EXCEPT ![t] = task'[t].amount]
    BY DEF Price
<1>4. task'[t].amount = task[t].amount => Price' = Price
    BY DEF Price
<1> QED BY <1>1, <1>2, <1>3, <1>4

\* A step that leaves the stages, the prices and the escrows alone is a stuttering step
\* of TaskEscrow.
LEMMA StutterRefines ==
    ASSUME escrow' = escrow, Deal' = Deal, Price' = Price
    PROVE  UNCHANGED Abstract!vars
BY DEF Abstract!vars, Deal, Price

\* So is one on a task whose payment has left, as far as that task goes.
LEMMA LeftStutters ==
    ASSUME NEW t \in Tasks, Elsewhere(t), outcome'[t] = outcome[t], escrow' = escrow,
           task'[t].amount = task[t].amount,
           \/ outcome[t] # None
           \/ DealOf(task'[t].status) = DealOf(task[t].status)
    PROVE  UNCHANGED Abstract!vars
<1>1. Deal' = Deal
    BY DEF Deal, Elsewhere, SameTask
<1>2. Price' = Price
    BY DealMoves
<1> QED BY <1>1, <1>2, StutterRefines

LEMMA LifecycleRefines ==
    ASSUME EscrowInv, NEW t \in Tasks, Lifecycle(t)
    PROVE  [Abstract!Next]_Abstract!vars
<1>f. /\ task \in [Tasks -> TaskContract] /\ escrow \in [Tasks -> Nat] /\ task[t].amount \in Nat
      /\ outcome \in [Tasks -> {None, "Paid", "Refunded"}]
      /\ TypeInv /\ TypeOK /\ Payment(t)
    BY DEF EscrowInv, TypeInv, TypeOK, TaskContract
<1>e. Elsewhere(t)
    BY <1>f, LifecycleElsewhere
<1>1. ASSUME NEW a \in Agents, NEW amount \in Amounts, NEW secs \in DeadlineSecs,
             NEW cap \in Capabilities, NEW gated \in BOOLEAN,
             CreateTask(t, a, amount, secs, cap, gated)
      PROVE  Abstract!Offer(t, amount)
  <2>1. task[t].status = "Absent" /\ amount > 0 /\ escrow' = escrow /\ outcome' = outcome
      BY <1>1 DEF CreateTask
  <2>2. task'[t].status = "Created" /\ task'[t].amount = amount
      BY <1>1, <1>f DEF CreateTask, NoTask
  <2>3. outcome[t] = None
      BY <1>f, <2>1 DEF Payment
  <2>d. Deal' = [Deal EXCEPT ![t] = "Offered"]
      BY <1>e, <2>1, <2>2, <2>3, DealMoves, Stages
  <2>p. Price' = [Price EXCEPT ![t] = amount]
      BY <1>e, <2>2, DealMoves
  <2>c. Deal[t] = "None"
      BY <2>1, <2>3, DealAt, Stages
  <2> QED BY <2>d, <2>p, <2>c, <2>1 DEF Abstract!Offer, Deal, Price
<1>2. CASE FundTask(t)
  <2>1. task[t].status = "Created" /\ outcome' = outcome
        /\ escrow' = [escrow EXCEPT ![t] = escrow[t] + Received(task[t].amount)]
      BY <1>2 DEF FundTask
  <2>2. task'[t].status = "Funded" /\ task'[t].amount = task[t].amount
      BY <1>2, <1>f, StatusFrame DEF FundTask
  <2>3. outcome[t] = None /\ escrow[t] = 0
      BY <1>f, <2>1 DEF Payment, Holding
  <2>r. Received(task[t].amount) \in 0..task[t].amount
    <3>1. Received(task[t].amount) \in Nat /\ Received(task[t].amount) <= task[t].amount
        BY <1>f, ReceivedBound
    <3> QED BY <1>f, <3>1
  <2>4. escrow' = [escrow EXCEPT ![t] = Received(task[t].amount)]
    <3>1. escrow[t] + Received(task[t].amount) = Received(task[t].amount)
        BY <1>f, <2>3, <2>r
    <3> QED BY <2>1, <3>1
  <2>5. Abstract!Deposit(t)
    <3>d. Deal' = [Deal EXCEPT ![t] = "Held"]
        BY <1>e, <2>1, <2>2, <2>3, DealMoves, Stages
    <3>p. Price' = Price
        BY <1>e, <2>2, DealMoves
    <3>c. Deal[t] = "Offered" /\ Price[t] = task[t].amount
        BY <2>1, <2>3, DealAt, Stages
    <3>x. \E x \in 0..Price[t] : escrow' = [escrow EXCEPT ![t] = x]
        BY <3>c, <2>r, <2>4
    <3> QED BY <3>d, <3>p, <3>c, <3>x DEF Abstract!Deposit, Deal, Price
  <2> QED BY <2>5 DEF Abstract!Next
<1>3. CASE CancelUnfundedTask(t)
  <2>1. /\ task[t].status = "Created" /\ escrow' = escrow /\ outcome' = outcome
        /\ task'[t].status = "Absent" /\ task'[t].amount = 0
      BY <1>3, <1>f DEF CancelUnfundedTask, NoTask
  <2>3. outcome[t] = None
      BY <1>f, <2>1 DEF Payment
  <2>2. Abstract!Withdraw(t)
    <3>d. Deal' = [Deal EXCEPT ![t] = "None"]
        BY <1>e, <2>1, <2>3, DealMoves, Stages
    <3>p. Price' = [Price EXCEPT ![t] = 0]
        BY <1>e, <2>1, DealMoves
    <3>c. Deal[t] = "Offered"
        BY <2>1, <2>3, DealAt, Stages
    <3> QED BY <3>d, <3>p, <3>c, <2>1 DEF Abstract!Withdraw, Deal, Price
  <2> QED BY <2>2 DEF Abstract!Next
<1>4. ASSUME NEW a \in Agents, NEW provable \in BOOLEAN, SubmitResult(t, a, provable)
      PROVE  UNCHANGED Abstract!vars
  <2>1. /\ task[t].status = "Funded" /\ escrow' = escrow /\ outcome' = outcome
        /\ task'[t].status = "ProofSubmitted" /\ task'[t].amount = task[t].amount
      BY <1>4, <1>f DEF SubmitResult, TaskContract
  <2> QED BY <1>e, <2>1, Stages, LeftStutters
<1>5. CASE VerifyTask(t)
  <2>1. /\ task[t].status = "ProofSubmitted" /\ escrow' = escrow /\ outcome' = outcome
        /\ task'[t].status = "Verified" /\ task'[t].amount = task[t].amount
      BY <1>5, <1>f DEF VerifyTask, TaskContract
  <2>2. ASSUME outcome[t] = None PROVE Abstract!Deliver(t)
    <3>d. Deal' = [Deal EXCEPT ![t] = "Delivered"]
        BY <1>e, <2>1, <2>2, DealMoves, Stages
    <3>p. Price' = Price
        BY <1>e, <2>1, DealMoves
    <3>c. Deal[t] = "Held"
        BY <2>1, <2>2, DealAt, Stages
    <3> QED BY <3>d, <3>p, <3>c, <2>1 DEF Abstract!Deliver, Deal, Price
  <2>3. ASSUME outcome[t] # None PROVE UNCHANGED Abstract!vars
      BY <1>e, <2>1, <2>3, LeftStutters
  <2> QED BY <2>2, <2>3 DEF Abstract!Next
<1>6. ASSUME NEW a \in Agents, Release(t, a)
      PROVE  Abstract!Pay(t)
  <2>0. task[t].status = "Verified" /\ outcome' = [outcome EXCEPT ![t] = "Paid"]
      BY <1>6 DEF Release
  <2>1. /\ outcome[t] = None /\ escrow[t] = task[t].amount
        /\ escrow' = [escrow EXCEPT ![t] = 0] /\ task'[t].amount = task[t].amount
      BY <1>6, <1>f, PaysOnce
  <2>2. outcome'[t] = "Paid" /\ "Paid" # None
      BY <1>f, <2>0 DEF None
  <2>d. Deal' = [Deal EXCEPT ![t] = "Paid"]
      BY <1>e, <2>2, DealMoves
  <2>p. Price' = Price
      BY <1>e, <2>1, DealMoves
  <2>c. Deal[t] = "Delivered" /\ Price[t] = task[t].amount
      BY <2>0, <2>1, DealAt, Stages
  <2> QED BY <2>d, <2>p, <2>c, <2>1 DEF Abstract!Pay, Deal, Price
<1>7. ASSUME RefundClient(t), task[t].status \in {"Funded", "ProofSubmitted", "Disputed"}
      PROVE  Abstract!Refund(t)
  <2>0. outcome' = [outcome EXCEPT ![t] = "Refunded"]
      BY <1>7 DEF RefundClient
  <2>1. /\ outcome[t] = None /\ escrow[t] = task[t].amount
        /\ escrow' = [escrow EXCEPT ![t] = 0] /\ task'[t].amount = task[t].amount
      BY <1>7, <1>f, PaysOnce
  <2>2. outcome'[t] = "Refunded" /\ "Refunded" # None
      BY <1>f, <2>0 DEF None
  <2>d. Deal' = [Deal EXCEPT ![t] = "Refunded"]
      BY <1>e, <2>2, DealMoves
  <2>p. Price' = Price
      BY <1>e, <2>1, DealMoves
  <2>c. Deal[t] \in {"Held", "Contested"} /\ Price[t] = task[t].amount
      BY <1>7, <2>1, DealAt, Stages
  <2> QED BY <2>d, <2>p, <2>c, <2>1 DEF Abstract!Refund, Deal, Price
<1>8. ASSUME NEW a \in Agents, Expire(t, a)
      PROVE  Abstract!Refund(t)
    BY <1>7, <1>8 DEF Expire
<1>9. CASE DisputedTimeoutRefund(t)
  <2>1. Abstract!Refund(t)
      BY <1>7, <1>9 DEF DisputedTimeoutRefund
  <2> QED BY <2>1 DEF Abstract!Next
<1>10. CASE RaiseDispute(t)
  <2>1. task[t].status = "Verified" /\ escrow' = escrow /\ outcome' = outcome
      BY <1>10 DEF RaiseDispute
  <2>4. task'[t].status = "Disputed" /\ task'[t].amount = task[t].amount
      BY <1>10, <1>f, StatusFrame DEF RaiseDispute
  <2>2. ASSUME outcome[t] = None PROVE Abstract!Contest(t)
    <3>d. Deal' = [Deal EXCEPT ![t] = "Contested"]
        BY <1>e, <2>1, <2>2, <2>4, DealMoves, Stages
    <3>p. Price' = Price
        BY <1>e, <2>4, DealMoves
    <3>c. Deal[t] = "Delivered"
        BY <2>1, <2>2, DealAt, Stages
    <3> QED BY <3>d, <3>p, <3>c, <2>1 DEF Abstract!Contest, Deal, Price
  <2>3. ASSUME outcome[t] # None PROVE UNCHANGED Abstract!vars
      BY <1>e, <2>1, <2>3, <2>4, LeftStutters
  <2> QED BY <2>2, <2>3 DEF Abstract!Next
<1> QED BY <1>1, <1>2, <1>3, <1>4, <1>5, <1>6, <1>8, <1>9, <1>10 DEF Lifecycle, Abstract!Next

\* Bidding is hidden, but for a round without a reveal that sets a delivery aside.
LEMMA BiddingRefines ==
    ASSUME EscrowInv, NEW t \in Tasks, Bidding(t)
    PROVE  [Abstract!Next]_Abstract!vars
<1>f. /\ task \in [Tasks -> TaskContract] /\ TypeInv /\ TypeOK /\ Payment(t)
    BY DEF EscrowInv, TypeInv, TypeOK
<1>e. Elsewhere(t) /\ escrow' = escrow /\ outcome' = outcome
    BY <1>f, BiddingElsewhere
<1>1. ASSUME NEW S \in SUBSET Operators, NEW w \in S, CloseBiddingSettle(t, S, w)
      PROVE  UNCHANGED Abstract!vars
  <2>1. task'[t].status = task[t].status /\ task'[t].amount = task[t].amount
      BY <1>1, <1>f DEF CloseBiddingSettle, TaskContract
  <2> QED BY <1>e, <2>1, LeftStutters
<1>2. ASSUME CloseBiddingCancel(t)
      PROVE  [Abstract!Next]_Abstract!vars
  <2>1. task'[t].status = "Funded" /\ task'[t].amount = task[t].amount
      BY <1>2, <1>f, StatusFrame DEF CloseBiddingCancel
  <2>2. HasBook(t)
      BY <1>2 DEF CloseBiddingCancel, CloseBiddingAllowed, HasBook
  <2>3. CASE outcome[t] # None \/ task[t].status \in {"Funded", "ProofSubmitted"}
      BY <1>e, <2>1, <2>3, Stages, LeftStutters
  <2>4. ASSUME outcome[t] = None, task[t].status \in {"Verified", "Disputed"}
        PROVE  Abstract!Redo(t)
    <3>d. Deal' = [Deal EXCEPT ![t] = "Held"]
        BY <1>e, <2>1, <2>4, DealMoves, Stages
    <3>p. Price' = Price
        BY <1>e, <2>1, DealMoves
    <3>c. Deal[t] \in {"Delivered", "Contested"}
        BY <2>4, DealAt, Stages
    <3> QED BY <1>e, <3>d, <3>p, <3>c DEF Abstract!Redo, Deal, Price
  <2>5. outcome[t] = None => task[t].status \in {"Funded", "ProofSubmitted", "Verified", "Disputed"}
      BY <1>f, <2>2 DEF Payment, Holding
  <2> QED BY <2>3, <2>4, <2>5 DEF Abstract!Next
<1>3. ASSUME task' = task
      PROVE  UNCHANGED Abstract!vars
    BY <1>e, <1>3, LeftStutters
<1> QED BY <1>1, <1>2, <1>3 DEF Bidding, OpenBidding, CommitBid, RevealBid, RevealMismatch,
       CancelBidding, ClaimBond, Gift, CloseBid, CloseBidBook

LEMMA StepRefines ==
    EscrowInv /\ [Next]_vars => [Abstract!Next]_Abstract!vars
<1> SUFFICES ASSUME EscrowInv, [Next]_vars PROVE [Abstract!Next]_Abstract!vars
    OBVIOUS
<1>1. ASSUME Governance \/ Tick \/ UNCHANGED vars
      PROVE  UNCHANGED <<task, escrow, outcome>>
    BY <1>1 DEF Governance, SetPaused, SetFees, SetDisputeWindowSecs, SetAllowedMint,
       AllowPaymentMint, SetHookAllowlistPtr, UpdateHookAllowlist, RegistryStep,
       UnchangedByGovernance, Tick, vars
<1>2. ASSUME Governance \/ Tick \/ UNCHANGED vars
      PROVE  UNCHANGED Abstract!vars
    BY <1>1, <1>2, StutterRefines DEF Deal, Price
<1> QED BY <1>2, LifecycleRefines, BiddingRefines DEF Next

\* The task market implements TaskEscrow, for every set of tasks and every mint:
\* deadlines, pauses, registry changes and bidding, re-opened or not, add only
\* stuttering steps and set-aside deliveries to offer, deposit, pay or refund.
THEOREM MarketImplementsEscrow == Spec => ImplementsEscrow
<1> QED BY InitRefines, StepRefines, AlwaysEscrowInv, PTL
        DEF Spec, ImplementsEscrow, Abstract!Spec

-----------------------------------------------------------------------------
(* Bonds *)

\* A closed book has no bond rate, so no bond outlives its book.
NoBookNoBond == \A t \in Tasks : ~HasBook(t) => book[t].bond = 0

BondInv == TypeInv /\ BondsCovered /\ NoBookNoBond

\* The bonds of one task are covered, as a statement about that task only.
Covered(t) ==
    /\ \A o \in Staked(t) : bid[t][o].bondPaid = book[t].bond
    /\ book[t].bond * Cardinality(Staked(t)) <= bondEscrow[t]

LEMMA StakedFinite ==
    ASSUME NEW t
    PROVE  IsFiniteSet(Staked(t)) /\ Cardinality(Staked(t)) \in Nat
BY ConstantsAssumption, FS_Subset, FS_CardinalityType DEF Staked

LEMMA Distribute == \A b, n \in Nat : b * (n + 1) = b * n + b
OBVIOUS

\* When the bond escrow is empty, nobody has a bond in it.
LEMMA EmptyEscrowNoStake ==
    ASSUME BondInv, Lossless, NEW t \in Tasks, bondEscrow[t] = 0
    PROVE  Staked(t) = {}
<1> SUFFICES ASSUME NEW o \in Staked(t) PROVE FALSE
    OBVIOUS
<1> DEFINE b == book[t].bond
           n == Cardinality(Staked(t))
<1>1. b \in Nat /\ b > 0
    BY DEF BondInv, BondsCovered, TypeInv, TypeOK, BidBook, Staked
<1>2. n \in Nat /\ n # 0
    BY StakedFinite, FS_EmptySet
<1>3. b * n <= 0
    BY DEF BondInv, BondsCovered
<1> HIDE DEF b, n
<1>4. b * n > 0
    BY <1>1, <1>2
<1>5. b * n \in Nat
    BY <1>1, <1>2
<1> QED BY <1>3, <1>4, <1>5

LEMMA InitBond == Init => BondInv
<1> SUFFICES ASSUME Init PROVE BondInv
    OBVIOUS
<1>1. \A t \in Tasks : Staked(t) = {} /\ book[t].bond = 0 /\ bondEscrow[t] = 0
    BY DEF Init, Staked, NoBid, NoBook
<1>2. Cardinality({}) = 0
    BY FS_EmptySet
<1> QED BY <1>1, <1>2, InitType DEF BondInv, BondsCovered, NoBookNoBond

\* Only the bids, the rate and the bond escrow of a task decide its cover.
LEMMA FrameBond ==
    ASSUME NEW t \in Tasks, bid'[t] = bid[t], book'[t].bond = book[t].bond,
           bondEscrow'[t] = bondEscrow[t], Covered(t)
    PROVE  Covered(t)'
BY DEF Covered, Staked

\* reveal_bid leaves alone who has a bond in the escrow.
LEMMA RevealFields ==
    ASSUME bid \in [Tasks -> [Operators -> Bid]], NEW t \in Tasks, NEW o \in Operators,
           RevealBid(t, o) \/ RevealMismatch(t, o)
    PROVE  \A p \in Operators : /\ bid'[t][p].live = bid[t][p].live
                                /\ bid'[t][p].refunded = bid[t][p].refunded
                                /\ bid'[t][p].bondPaid = bid[t][p].bondPaid
<1>1. CASE RevealBid(t, o)
  <2>1. bid'[t] = [bid[t] EXCEPT ![o] = [bid[t][o] EXCEPT !.amount = bid[t][o].commit,
                                                          !.revealed = TRUE]]
      BY <1>1 DEF RevealBid
  <2>2. \A r \in Bid, n \in Nat :
             /\ [r EXCEPT !.amount = n, !.revealed = TRUE].live = r.live
             /\ [r EXCEPT !.amount = n, !.revealed = TRUE].refunded = r.refunded
             /\ [r EXCEPT !.amount = n, !.revealed = TRUE].bondPaid = r.bondPaid
      BY DEF Bid
  <2>3. bid[t] \in [Operators -> Bid] /\ bid[t][o] \in Bid /\ bid[t][o].commit \in Nat
      BY DEF Bid
  <2> QED BY <2>1, <2>2, <2>3
<1>2. CASE RevealMismatch(t, o)
  <2>1. bid'[t] = [bid[t] EXCEPT ![o] = [bid[t][o] EXCEPT !.slashed = TRUE]]
      BY <1>2 DEF RevealMismatch
  <2>2. \A r \in Bid : /\ [r EXCEPT !.slashed = TRUE].live = r.live
                       /\ [r EXCEPT !.slashed = TRUE].refunded = r.refunded
                       /\ [r EXCEPT !.slashed = TRUE].bondPaid = r.bondPaid
      BY DEF Bid
  <2>3. bid[t] \in [Operators -> Bid]
      OBVIOUS
  <2> QED BY <2>1, <2>2, <2>3
<1> QED BY <1>1, <1>2

\* A book that is opened has a bond rate, and one that is closed has none.
LEMMA BiddingRate ==
    ASSUME TypeInv, NEW t \in Tasks, Bidding(t), ~HasBook(t) => book[t].bond = 0
    PROVE  (~HasBook(t) => book[t].bond = 0)'
<1> USE DEF HasBook
<1>f. book \in [Tasks -> BidBook] /\ book[t] \in BidBook
    BY DEF TypeInv, TypeOK
<1>1. ASSUME NEW cs \in WindowSecs, NEW rs \in WindowSecs, NEW bps \in BondBps,
             OpenBidding(t, cs, rs, bps)
      PROVE  book'[t].phase # "NoBook"
    BY <1>1, <1>f DEF OpenBidding, NoBook
<1>2. ASSUME NEW a \in Agents, NEW amount \in BidAmounts, CommitBid(t, a, amount)
      PROVE  book'[t].phase # "NoBook"
    BY <1>2, <1>f DEF CommitBid, BidBook
<1>3. ASSUME NEW o \in Operators, RevealBid(t, o) \/ RevealMismatch(t, o)
      PROVE  book'[t].phase # "NoBook"
    BY <1>3, <1>f DEF RevealBid, RevealMismatch, BidBook
<1>4. ASSUME NEW S \in SUBSET Operators, NEW w \in S, CloseBiddingSettle(t, S, w)
      PROVE  book'[t].phase # "NoBook"
    BY <1>4, <1>f DEF CloseBiddingSettle, BidBook
<1>5. ASSUME CloseBiddingCancel(t)
      PROVE  book'[t].phase # "NoBook"
    BY <1>5, <1>f DEF CloseBiddingCancel, BidBook
<1>6. ASSUME CancelBidding(t) \/ CloseBidBook(t)
      PROVE  book'[t].bond = 0
    BY <1>6, <1>f DEF CancelBidding, CloseBidBook, NoBook
<1>7. ASSUME NEW o \in Operators, NEW dest \in SlashTargets, ClaimBond(t, o, dest)
      PROVE  book' = book
    BY <1>7 DEF ClaimBond
<1>8. ASSUME NEW o \in Operators, CloseBid(t, o)
      PROVE  book' = book
    BY <1>8 DEF CloseBid
<1>9. ASSUME Gift(t)
      PROVE  book' = book
    BY <1>9 DEF Gift
<1> QED BY <1>1, <1>2, <1>3, <1>4, <1>5, <1>6, <1>7, <1>8, <1>9 DEF Bidding

\* Every bidding instruction keeps the bonds of its task covered.
LEMMA BiddingBond ==
    ASSUME BondInv, Lossless, NEW t \in Tasks, Bidding(t)
    PROVE  Covered(t)'
<1> USE DEF HasBook
<1>f. /\ book \in [Tasks -> BidBook] /\ bid \in [Tasks -> [Operators -> Bid]]
      /\ bondEscrow \in [Tasks -> Nat]
      /\ book[t] \in BidBook /\ book[t].bond \in Nat /\ Covered(t)
      /\ (~HasBook(t) => book[t].bond = 0)
    BY DEF BondInv, TypeInv, TypeOK, BondsCovered, Covered, NoBookNoBond, BidBook
<1>1. ASSUME NEW cs \in WindowSecs, NEW rs \in WindowSecs, NEW bps \in BondBps,
             OpenBidding(t, cs, rs, bps)
      PROVE  Covered(t)'
  <2>1. Staked(t) = {}
      BY <1>1, <1>f DEF OpenBidding, Covered, Staked
  <2>2. Staked(t)' = {}
      BY <1>1, <2>1 DEF OpenBidding, Staked
  <2>3. book'[t].bond \in Nat
    <3>1. book'[t] \in BidBook
        BY <1>1, BiddingType DEF Bidding, BondInv, TypeInv, TypeOK
    <3> QED BY <3>1 DEF BidBook
  <2>4. bondEscrow'[t] = bondEscrow[t] /\ bondEscrow[t] \in Nat
      BY <1>1, <1>f DEF OpenBidding
  <2>5. book'[t].bond * 0 <= bondEscrow'[t]
      BY <2>3, <2>4
  <2> QED BY <2>2, <2>3, <2>5, FS_EmptySet DEF Covered
<1>2. ASSUME NEW a \in Agents, NEW amount \in BidAmounts, CommitBid(t, a, amount)
      PROVE  Covered(t)'
  <2> DEFINE o == OperatorOf[a]
             b == book[t].bond
             n == Cardinality(Staked(t))
  <2>1. /\ o \in Operators /\ ~bid[t][o].live /\ HasBook(t)
        /\ bid'[t][o].live /\ bid'[t][o].bondPaid = b /\ ~bid'[t][o].refunded
        /\ \A p \in Operators \ {o} : bid'[t][p] = bid[t][p]
      BY <1>2, <1>f, ConstantsAssumption DEF CommitBid, NoBid
  <2>2. book'[t].bond = b /\ book'[t].phase = book[t].phase
      BY <1>2, <1>f DEF CommitBid, BidBook
  <2>r. Received(b) = b
      BY <1>f, ReceivedBound DEF BondInv, TypeInv
  <2>3. bondEscrow'[t] = bondEscrow[t] + b
      BY <1>2, <1>f, <2>r DEF CommitBid
  <2>4. n \in Nat /\ b \in Nat /\ b * n \in Nat
      BY <1>f, StakedFinite
  <2>5. CASE b > 0
    <3>1. Staked(t)' = Staked(t) \cup {o}
        BY <2>1, <2>5, <1>f DEF Staked
    <3>2. Cardinality(Staked(t)') = n + 1
      <4>1. o \notin Staked(t)
          BY <2>1 DEF Staked
      <4> QED BY <3>1, <4>1, StakedFinite, FS_AddElement
    <3>3. b * (n + 1) <= bondEscrow[t] + b
      <4>1. b * n <= bondEscrow[t]
          BY <1>f DEF Covered
      <4>2. b * (n + 1) = b * n + b
          BY <2>4, Distribute
      <4> HIDE DEF b, n
      <4> QED BY <1>f, <2>4, <4>1, <4>2
    <3>4. \A p \in Staked(t)' : bid'[t][p].bondPaid = b
      <4>1. ASSUME NEW p \in Staked(t), p # o
            PROVE  bid'[t][p].bondPaid = b
          BY <2>1, <4>1, <1>f DEF Covered, Staked
      <4> QED BY <2>1, <3>1, <4>1
    <3> QED BY <2>1, <2>2, <2>3, <3>2, <3>3, <3>4 DEF Covered
  <2>6. CASE b = 0
    <3>1. Staked(t)' = {}
        BY <2>1, <2>6, <1>f DEF Staked, Covered
    <3>2. book'[t].bond * 0 <= bondEscrow'[t]
        BY <2>2, <2>3, <2>6, <1>f
    <3> QED BY <2>1, <2>2, <3>1, <3>2, FS_EmptySet DEF Covered
  <2> QED BY <2>4, <2>5, <2>6
<1>3. ASSUME NEW o \in Operators, RevealBid(t, o) \/ RevealMismatch(t, o)
      PROVE  Covered(t)'
  <2>1. \A p \in Operators : /\ bid'[t][p].live = bid[t][p].live
                             /\ bid'[t][p].refunded = bid[t][p].refunded
                             /\ bid'[t][p].bondPaid = bid[t][p].bondPaid
      BY <1>3, <1>f, RevealFields
  <2>2. book'[t].bond = book[t].bond /\ book'[t].phase = "Reveal" /\ bondEscrow' = bondEscrow
      BY <1>3, <1>f DEF RevealBid, RevealMismatch, BidBook
  <2>3. Staked(t)' = Staked(t)
      BY <2>1 DEF Staked
  <2> QED BY <1>f, <2>1, <2>2, <2>3 DEF Covered, Staked
<1>4. ASSUME NEW S \in SUBSET Operators, NEW w \in S,
             CloseBiddingSettle(t, S, w) \/ CloseBiddingCancel(t)
      PROVE  Covered(t)'
  <2>1. /\ book'[t].bond = book[t].bond /\ book'[t].phase \in {"Settled", "Cancelled"}
        /\ bid' = bid /\ bondEscrow' = bondEscrow
      BY <1>4, <1>f DEF CloseBiddingSettle, CloseBiddingCancel, BidBook
  <2> QED BY <1>f, <2>1, FrameBond
<1>5. ASSUME CloseBiddingCancel(t)
      PROVE  Covered(t)'
  <2>1. /\ book'[t].bond = book[t].bond /\ book'[t].phase = "Cancelled"
        /\ bid' = bid /\ bondEscrow' = bondEscrow
      BY <1>5, <1>f DEF CloseBiddingCancel, BidBook
  <2> QED BY <1>f, <2>1, FrameBond
<1>6. ASSUME CancelBidding(t) \/ CloseBidBook(t)
      PROVE  Covered(t)'
  <2>1. bondEscrow[t] = 0 /\ bid' = bid /\ bondEscrow' = bondEscrow /\ book'[t].bond = 0
      BY <1>6, <1>f DEF CancelBidding, CloseBidBook, NoBook
  <2>2. Staked(t)' = {}
      BY <2>1, EmptyEscrowNoStake DEF Staked
  <2>3. book'[t].bond * 0 <= bondEscrow'[t]
      BY <2>1
  <2> QED BY <2>1, <2>2, <2>3, FS_EmptySet DEF Covered
<1>7. ASSUME NEW o \in Operators, NEW dest \in SlashTargets, ClaimBond(t, o, dest)
      PROVE  Covered(t)'
  <2> DEFINE b == book[t].bond
             n == Cardinality(Staked(t))
             moved == IF ClaimOutcome(t, o) = "WinnerRetain" THEN 0 ELSE bid[t][o].bondPaid
  <2>1. /\ bid[t][o].live /\ ~bid[t][o].refunded /\ book' = book
        /\ bondEscrow[t] >= moved /\ bondEscrow'[t] = bondEscrow[t] - moved
      BY <1>7, <1>f DEF ClaimBond
  <2>2. /\ bid'[t][o].refunded /\ bid'[t][o].bondPaid = bid[t][o].bondPaid
        /\ \A p \in Operators \ {o} : bid'[t][p] = bid[t][p]
      BY <1>7, <1>f DEF ClaimBond, Bid
  <2>3. /\ bid[t][o].bondPaid \in Nat /\ moved \in Nat /\ moved <= bid[t][o].bondPaid
        /\ bondEscrow[t] \in Nat
      BY <1>f DEF Bid
  <2>4. n \in Nat /\ b \in Nat /\ b * n \in Nat
      BY <1>f, StakedFinite
  <2> HIDE DEF moved
  <2>5. CASE o \in Staked(t)
    <3>1. Staked(t)' = Staked(t) \ {o}
        BY <2>2, <2>5 DEF Staked
    <3>2. Cardinality(Staked(t)') = n - 1 /\ n - 1 \in Nat
      <4>1. Cardinality(Staked(t)') = n - 1
          BY <2>5, <3>1, StakedFinite, FS_RemoveElement
      <4>2. n # 0
          BY <2>5, StakedFinite, FS_EmptySet
      <4> QED BY <2>4, <4>1, <4>2
    <3>3. b * (n - 1) <= bondEscrow[t] - moved
      <4>1. b * n <= bondEscrow[t] /\ moved <= b
          BY <1>f, <2>3, <2>5 DEF Covered
      <4>2. b * ((n - 1) + 1) = b * (n - 1) + b
          BY <2>4, <3>2, Distribute
      <4>3. (n - 1) + 1 = n /\ b * (n - 1) \in Nat
          BY <2>4, <3>2
      <4> HIDE DEF b, n
      <4> QED BY <2>3, <2>4, <4>1, <4>2, <4>3
    <3>4. \A p \in Staked(t)' : bid'[t][p].bondPaid = b
        BY <2>2, <3>1, <1>f DEF Covered, Staked
    <3> QED BY <2>1, <3>2, <3>3, <3>4 DEF Covered
  <2>6. CASE o \notin Staked(t)
    <3>1. moved = 0
        BY <2>1, <2>3, <2>6 DEF Staked
    <3>2. Staked(t)' = Staked(t)
        BY <2>2, <2>6 DEF Staked
    <3>3. bondEscrow'[t] = bondEscrow[t]
        BY <2>1, <2>3, <3>1
    <3>4. \A p \in Staked(t)' : bid'[t][p].bondPaid = b
        BY <2>2, <2>6, <3>2, <1>f DEF Covered, Staked
    <3> QED BY <2>1, <3>2, <3>3, <3>4, <1>f DEF Covered
  <2> QED BY <2>5, <2>6
<1>8. ASSUME NEW o \in Operators, CloseBid(t, o)
      PROVE  Covered(t)'
  <2>1. /\ bid[t][o].refunded /\ ~bid'[t][o].live /\ book' = book /\ bondEscrow' = bondEscrow
        /\ \A p \in Operators \ {o} : bid'[t][p] = bid[t][p]
      BY <1>8, <1>f DEF CloseBid, NoBid
  <2>2. Staked(t)' = Staked(t)
      BY <2>1 DEF Staked
  <2> QED BY <1>f, <2>1, <2>2 DEF Covered, Staked
<1>9. ASSUME Gift(t)
      PROVE  Covered(t)'
  <2>1. bid' = bid /\ book' = book /\ bondEscrow[t] = 0 /\ bondEscrow'[t] = 1
      BY <1>9, <1>f DEF Gift
  <2>2. Staked(t)' = Staked(t)
      BY <2>1 DEF Staked
  <2> DEFINE z == book[t].bond * Cardinality(Staked(t))
  <2>3. z \in Nat
      BY <1>f, StakedFinite
  <2>4. z <= 0
      BY <1>f, <2>1 DEF Covered
  <2> HIDE DEF z
  <2>5. z <= 1
      BY <2>3, <2>4
  <2>6. book'[t].bond * Cardinality(Staked(t)') <= bondEscrow'[t]
      BY <2>1, <2>2, <2>5 DEF z
  <2>7. \A o \in Staked(t)' : bid'[t][o].bondPaid = book'[t].bond
      BY <1>f, <2>1, <2>2 DEF Covered
  <2> QED BY <2>6, <2>7 DEF Covered
<1> QED BY <1>1, <1>2, <1>3, <1>4, <1>5, <1>6, <1>7, <1>8, <1>9 DEF Bidding

LEMMA StepBond == BondInv /\ [Next]_vars => BondInv'
<1> SUFFICES ASSUME BondInv, [Next]_vars PROVE BondInv'
    OBVIOUS
<1>1. TypeInv' /\ TypeInv /\ TypeOK
    BY StepType DEF BondInv, TypeInv
<1>l. Lossless' <=> Lossless
    BY <1>1, FeeFixed DEF Lossless
<1>2. ASSUME NEW x \in Tasks, SameTask(x)
      PROVE  (Lossless => Covered(x)') /\ (~HasBook(x) => book[x].bond = 0)'
  <2>1. Lossless => Covered(x)
      BY DEF BondInv, BondsCovered, Covered
  <2>2. (~HasBook(x) => book[x].bond = 0)'
      BY <1>2 DEF BondInv, NoBookNoBond, HasBook, SameTask
  <2> QED BY <1>2, <2>1, <2>2, FrameBond DEF SameTask
<1>3. ASSUME NEW t \in Tasks, Lifecycle(t) \/ Bidding(t)
      PROVE  \A x \in Tasks : (Lossless => Covered(x)') /\ (~HasBook(x) => book[x].bond = 0)'
  <2>1. Elsewhere(t)
      BY <1>1, <1>3, LifecycleElsewhere, BiddingElsewhere
  <2>2. (Lossless => Covered(t)') /\ (~HasBook(t) => book[t].bond = 0)'
    <3>1. CASE Bidding(t)
      <4>1. ~HasBook(t) => book[t].bond = 0
          BY DEF BondInv, NoBookNoBond
      <4>2. (~HasBook(t) => book[t].bond = 0)'
          BY <1>1, <3>1, <4>1, BiddingRate
      <4> QED BY <3>1, <4>2, BiddingBond
    <3>2. CASE Lifecycle(t)
      <4>1. UNCHANGED <<book, bid, bondEscrow>>
          BY <1>1, <3>2, LifecycleElsewhere
      <4>2. Lossless => Covered(t)
          BY DEF BondInv, BondsCovered, Covered
      <4>3. (~HasBook(t) => book[t].bond = 0)'
          BY <4>1 DEF BondInv, NoBookNoBond, HasBook
      <4> QED BY <4>1, <4>2, <4>3, FrameBond
    <3> QED BY <1>3, <3>1, <3>2
  <2> QED BY <1>2, <2>1, <2>2 DEF Elsewhere
<1>4. ASSUME Governance \/ Tick \/ UNCHANGED vars
      PROVE  \A x \in Tasks : (Lossless => Covered(x)') /\ (~HasBook(x) => book[x].bond = 0)'
    BY <1>2, <1>4, QuietSteps
<1>5. \A x \in Tasks : (Lossless => Covered(x)') /\ (~HasBook(x) => book[x].bond = 0)'
    BY <1>3, <1>4 DEF Next
<1>6. BondsCovered'
    BY <1>l, <1>5 DEF BondsCovered, Covered
<1>7. NoBookNoBond'
    BY <1>5 DEF NoBookNoBond
<1> QED BY <1>1, <1>6, <1>7 DEF BondInv

\* The bond escrow of a mint without a transfer fee covers every unclaimed bond,
\* whatever the number of tasks, bidders and rounds, the order of claims and the gifts:
\* claim_bond never fails for want of tokens, and close_bid_book never strands a bond.
THEOREM BondsAlwaysCovered == Spec => []BondsCovered
<1>1. BondInv => BondsCovered
    BY DEF BondInv
<1> QED BY InitBond, StepBond, <1>1, PTL DEF Spec

-----------------------------------------------------------------------------
(* The award *)

\* What the enumeration of close_bidding relies on, for one task: reveal_count
\* counts exactly the bids it accepts, and no revealed bid survives a round
\* without an award.
RevealsCounted(t) ==
    /\ BiddingOpen(t) => Cardinality(Eligible(t)) = book[t].revealCount
    /\ ~BiddingOpen(t) /\ task[t].assigned = None => Eligible(t) = {}
    /\ book[t].phase = "Commit" => book[t].revealCount = 0
    /\ book[t].phase = "Settled" => task[t].assigned # None

BestFor(t) ==
    book[t].phase = "Settled" =>
        \A o \in Eligible(t) : book[t].winnerAmount <= bid[t][o].amount

\* Before a task is funded nobody has been awarded it; a live bid names an agent.
NothingEarly(t) ==
    /\ task[t].status \in {"Absent", "Created"} => task[t].assigned = None
    /\ \A o \in Operators : bid[t][o].live => bid[t][o].agent # None

AwardFor(t) == t \notin reopened => RevealsCounted(t) /\ BestFor(t) /\ NothingEarly(t)

AwardInv == EscrowInv /\ \A t \in Tasks : AwardFor(t)

LEMMA EligibleFinite ==
    ASSUME NEW t
    PROVE  IsFiniteSet(Eligible(t)) /\ Cardinality(Eligible(t)) \in Nat
BY ConstantsAssumption, FS_Subset, FS_CardinalityType DEF Eligible

LEMMA InitAward == Init => AwardInv
<1> SUFFICES ASSUME Init PROVE AwardInv
    OBVIOUS
<1>1. \A t \in Tasks : /\ Eligible(t) = {} /\ book[t].phase = "NoBook"
                       /\ task[t].assigned = None
    BY DEF Init, Eligible, NoBid, NoBook, NoTask
<1>2. \A t \in Tasks : \A o \in Operators : ~bid[t][o].live
    BY DEF Init, NoBid
<1> QED BY <1>1, <1>2, InitEscrow DEF AwardInv, AwardFor, NothingEarly, RevealsCounted,
           BestFor, BiddingOpen

\* A task whose bids, book and award do not change keeps its part.
LEMMA FrameAward ==
    ASSUME NEW t \in Tasks, bid'[t] = bid[t], book'[t] = book[t],
           task'[t].assigned = task[t].assigned, RevealsCounted(t), BestFor(t)
    PROVE  RevealsCounted(t)' /\ BestFor(t)'
BY DEF RevealsCounted, BestFor, Eligible, BiddingOpen

\* An instruction on a task leaves its award alone; one that creates or cancels it finds
\* none.
LEMMA LifecycleAward ==
    ASSUME TypeInv, NEW t \in Tasks, Lifecycle(t),
           task[t].status \in {"Absent", "Created"} => task[t].assigned = None
    PROVE  /\ task'[t].assigned = task[t].assigned
           /\ task'[t].status \in {"Absent", "Created"} => task'[t].assigned = None
<1>f. task \in [Tasks -> TaskContract] /\ TypeOK
    BY DEF TypeInv, TypeOK
<1> DEFINE G == /\ task'[t].assigned = task[t].assigned
                /\ task'[t].status \in {"Absent", "Created"} => task'[t].assigned = None
<1>1. ASSUME NEW a \in Agents, NEW amount \in Amounts, NEW secs \in DeadlineSecs,
             NEW cap \in Capabilities, NEW gated \in BOOLEAN,
             CreateTask(t, a, amount, secs, cap, gated)
      PROVE  G
  <2>1. task'[t].assigned = None /\ task[t].status = "Absent"
      BY <1>1, <1>f DEF CreateTask, NoTask
  <2> QED BY <2>1
<1>2. ASSUME CancelUnfundedTask(t)
      PROVE  G
  <2>1. task'[t].assigned = None /\ task[t].status = "Created"
      BY <1>2, <1>f DEF CancelUnfundedTask, NoTask
  <2> QED BY <2>1
<1>3. ASSUME NEW a \in Agents, NEW provable \in BOOLEAN, SubmitResult(t, a, provable)
      PROVE  G
    BY <1>3, <1>f DEF SubmitResult, TaskContract
<1>4. ASSUME VerifyTask(t)
      PROVE  G
    BY <1>4, <1>f DEF VerifyTask, TaskContract
<1>5. ASSUME NEW s \in {"Funded", "Released", "Expired", "Disputed"},
             task' = [task EXCEPT ![t].status = s]
      PROVE  G
    BY <1>5, <1>f, StatusFrame
<1> HIDE DEF G
<1>6. G
    BY <1>1, <1>2, <1>3, <1>4, <1>5 DEF Lifecycle, FundTask, Release, Expire,
       DisputedTimeoutRefund, RefundClient, RaiseDispute
<1> QED BY <1>6 DEF G

\* Every bidding instruction keeps the count of reveals and the best bid.
LEMMA BiddingAward ==
    ASSUME AwardInv, NEW t \in Tasks, Bidding(t), t \notin reopened'
    PROVE  RevealsCounted(t)' /\ BestFor(t)' /\ NothingEarly(t)'
<1> USE DEF BiddingOpen
<1>f. /\ task \in [Tasks -> TaskContract] /\ book \in [Tasks -> BidBook]
      /\ bid \in [Tasks -> [Operators -> Bid]] /\ book[t] \in BidBook
      /\ TypeOK /\ Payment(t) /\ FirstAward(t)
    BY DEF AwardInv, EscrowInv, TypeInv, TypeOK
<1>a. t \notin reopened /\ RevealsCounted(t) /\ BestFor(t) /\ NothingEarly(t)
    BY <1>f, BiddingElsewhere DEF AwardInv, AwardFor
<1>u. ASSUME task'[t].status = task[t].status, task'[t].assigned = task[t].assigned,
             \A o \in Operators : bid'[t][o].live => bid'[t][o].agent # None
      PROVE  NothingEarly(t)'
    BY <1>u, <1>a DEF NothingEarly
<1>l. \A o \in Operators : bid[t][o].live => bid[t][o].agent # None
    BY <1>a DEF NothingEarly
<1> DEFINE Signed == \A p \in Operators : bid'[t][p].live => bid'[t][p].agent # None
<1>1. ASSUME NEW cs \in WindowSecs, NEW rs \in WindowSecs, NEW bps \in BondBps,
             OpenBidding(t, cs, rs, bps)
      PROVE  RevealsCounted(t)' /\ BestFor(t)' /\ NothingEarly(t)'
  <2>1. /\ book'[t].phase = "Commit" /\ book'[t].revealCount = 0 /\ ~BiddingOpen(t)
        /\ task' = task /\ bid' = bid
      BY <1>1, <1>f DEF OpenBidding, NoBook, HasBook
  <2>2. Eligible(t)' = {}
      BY <1>1, <1>a, <2>1 DEF OpenBidding, RevealsCounted, Eligible
  <2> QED BY <1>u, <1>a, <1>l, <2>1, <2>2, FS_EmptySet DEF RevealsCounted, BestFor
<1>2. ASSUME NEW a \in Agents, NEW amount \in BidAmounts, CommitBid(t, a, amount)
      PROVE  RevealsCounted(t)' /\ BestFor(t)' /\ NothingEarly(t)'
  <2> DEFINE o == OperatorOf[a]
  <2>0. o \in Operators /\ a # None
      BY ConstantsAssumption
  <2>1. /\ o \in Operators /\ ~bid[t][o].live
        /\ bid'[t][o].agent = a /\ ~bid'[t][o].revealed
        /\ \A p \in Operators \ {o} : bid'[t][p] = bid[t][p]
        /\ \A x \in Tasks \ {t} : bid'[x] = bid[x]
        /\ task' = task
    <3>1. /\ ~bid[t][o].live /\ task' = task
          /\ bid' = [bid EXCEPT ![t][o] = [NoBid EXCEPT !.live = TRUE, !.agent = a,
                                              !.commit = amount, !.bondPaid = book[t].bond]]
        BY <1>2 DEF CommitBid
    <3>2. bid'[t][o].agent = a /\ ~bid'[t][o].revealed
        BY <1>f, <1>a, <1>l, <2>0, <3>1 DEF NoBid
    <3>3. /\ \A p \in Operators \ {o} : bid'[t][p] = bid[t][p]
          /\ \A x \in Tasks \ {t} : bid'[x] = bid[x]
        BY <1>f, <1>a, <1>l, <2>0, <3>1
    <3> QED BY <2>0, <3>1, <3>2, <3>3
  <2>2. /\ book[t].phase = "Commit" /\ book'[t].phase = "Commit"
        /\ book'[t].revealCount = book[t].revealCount
      BY <1>2, <1>f DEF CommitBid, BidBook
  <2>3. Eligible(t)' = Eligible(t)
      BY <2>1 DEF Eligible
  <2>4. Signed
      BY <1>f, <1>a, <1>l, <2>0, <2>1
  <2> QED BY <1>u, <1>a, <1>l, <2>1, <2>2, <2>3, <2>4 DEF RevealsCounted, BestFor
<1>3. ASSUME NEW o \in Operators, RevealBid(t, o)
      PROVE  RevealsCounted(t)' /\ BestFor(t)' /\ NothingEarly(t)'
  <2>1. /\ book[t].phase \in {"Commit", "Reveal"} /\ ~bid[t][o].revealed /\ bid[t][o].live
        /\ ~bid[t][o].slashed /\ task' = task
        /\ \A x \in Tasks \ {t} : bid'[x] = bid[x]
        /\ \A p \in Operators \ {o} : bid'[t][p] = bid[t][p]
      BY <1>3, <1>f DEF RevealBid, RevealAllowed
  <2>2. /\ bid'[t][o].revealed = TRUE /\ bid'[t][o].live = bid[t][o].live
        /\ bid'[t][o].slashed = bid[t][o].slashed /\ bid'[t][o].agent = bid[t][o].agent
    <3>1. bid'[t][o] = [bid[t][o] EXCEPT !.amount = bid[t][o].commit, !.revealed = TRUE]
        BY <1>3, <1>f DEF RevealBid
    <3>2. \A r \in Bid : \A n \in Nat :
                            /\ [r EXCEPT !.amount = n, !.revealed = TRUE].revealed = TRUE
                            /\ [r EXCEPT !.amount = n, !.revealed = TRUE].live = r.live
                            /\ [r EXCEPT !.amount = n, !.revealed = TRUE].slashed = r.slashed
                            /\ [r EXCEPT !.amount = n, !.revealed = TRUE].agent = r.agent
        BY DEF Bid
    <3> DEFINE old == bid[t][o]
               amt == bid[t][o].commit
    <3>3. old \in Bid
        BY <1>f
    <3>4. amt \in Nat
        BY <3>3 DEF Bid
    <3>5. bid'[t][o] = [old EXCEPT !.amount = amt, !.revealed = TRUE]
        BY <3>1
    <3> HIDE DEF old, amt
    <3>6. /\ bid'[t][o].revealed = TRUE /\ bid'[t][o].live = old.live
          /\ bid'[t][o].slashed = old.slashed /\ bid'[t][o].agent = old.agent
        BY <3>2, <3>3, <3>4, <3>5
    <3> QED BY <3>6 DEF old
  <2>3. book'[t].phase = "Reveal" /\ book'[t].revealCount = book[t].revealCount + 1
      BY <1>3, <1>f DEF RevealBid, BidBook
  <2>4. Eligible(t)' = Eligible(t) \cup {o} /\ o \notin Eligible(t)
    <3>1. o \in Eligible(t)' /\ o \notin Eligible(t)
        BY <2>1, <2>2 DEF Eligible
    <3>2. \A p \in Operators \ {o} : p \in Eligible(t)' <=> p \in Eligible(t)
        BY <2>1 DEF Eligible
    <3>3. Eligible(t) \subseteq Operators /\ Eligible(t)' \subseteq Operators
        BY DEF Eligible
    <3> QED BY <3>1, <3>2, <3>3
  <2>5. Cardinality(Eligible(t)') = Cardinality(Eligible(t)) + 1
      BY <2>4, EligibleFinite, FS_AddElement
  <2>6. Signed
      BY <1>f, <1>a, <1>l, <2>1, <2>2
  <2> QED BY <1>u, <1>a, <1>l, <2>1, <2>3, <2>5, <2>6 DEF RevealsCounted, BestFor
<1>4. ASSUME NEW o \in Operators, RevealMismatch(t, o)
      PROVE  RevealsCounted(t)' /\ BestFor(t)' /\ NothingEarly(t)'
  <2>1. /\ book[t].phase \in {"Commit", "Reveal"} /\ ~bid[t][o].revealed /\ task' = task
        /\ \A x \in Tasks \ {t} : bid'[x] = bid[x]
        /\ \A p \in Operators \ {o} : bid'[t][p] = bid[t][p]
      BY <1>4, <1>f DEF RevealMismatch, RevealAllowed
  <2>2. /\ bid'[t][o].revealed = bid[t][o].revealed /\ bid'[t][o].live = bid[t][o].live
        /\ bid'[t][o].agent = bid[t][o].agent
      BY <1>4, <1>f DEF RevealMismatch, Bid
  <2>3. book'[t].phase = "Reveal" /\ book'[t].revealCount = book[t].revealCount
      BY <1>4, <1>f DEF RevealMismatch, BidBook
  <2>4. Eligible(t)' = Eligible(t)
      BY <2>1, <2>2 DEF Eligible
  <2>6. Signed
      BY <1>f, <1>a, <1>l, <2>1, <2>2
  <2> QED BY <1>u, <1>a, <1>l, <2>1, <2>3, <2>4, <2>6 DEF RevealsCounted, BestFor
<1>5. ASSUME NEW S \in SUBSET Operators, NEW w \in S, CloseBiddingSettle(t, S, w)
      PROVE  RevealsCounted(t)' /\ BestFor(t)' /\ NothingEarly(t)'
  <2>1. /\ BiddingOpen(t) /\ S \subseteq Eligible(t) /\ Cardinality(S) = book[t].revealCount
        /\ bid' = bid /\ registry' = registry
      BY <1>5 DEF CloseBiddingSettle, CloseBiddingAllowed
  <2>2. S = Eligible(t)
      BY <1>f, <1>a, <1>l, <2>1, EligibleFinite, FS_Subset DEF RevealsCounted
  <2>3. \A p \in S : bid[t][w].amount <= bid[t][p].amount
    <3>1. \A p \in S : bid[t][p].amount \in Nat
        BY <1>f DEF Bid
    <3>2. \A p \in S \ {w} : Beats(t, w, p)
        BY <1>5 DEF CloseBiddingSettle, IsBest
    <3> QED BY <3>1, <3>2 DEF Beats, BidBeats
  <2>4. /\ book'[t].phase = "Settled" /\ book'[t].winnerAmount = bid[t][w].amount
        /\ task'[t].assigned = bid[t][w].agent /\ task'[t].status = task[t].status
        /\ \A x \in Tasks \ {t} : task'[x] = task[x]
      BY <1>5, <1>f DEF CloseBiddingSettle, BidBook, TaskContract
  <2>5. bid[t][w].agent # None
      BY <1>f, <1>a, <1>l, <2>2 DEF Eligible
  <2>6. task[t].status \notin {"Absent", "Created"}
      BY <1>f, <2>1 DEF Payment, HasBook
  <2>7. Eligible(t)' = Eligible(t) /\ NothingEarly(t)'
      BY <1>l, <2>1, <2>4, <2>6 DEF Eligible, NothingEarly
  <2>8. BestFor(t)'
      BY <2>1, <2>2, <2>3, <2>4, <2>7 DEF BestFor
  <2>9. RevealsCounted(t)'
      BY <2>4, <2>5 DEF RevealsCounted
  <2> QED BY <2>7, <2>8, <2>9
<1>6. ASSUME CloseBiddingCancel(t)
      PROVE  RevealsCounted(t)' /\ BestFor(t)' /\ NothingEarly(t)'
  <2>1. /\ BiddingOpen(t) /\ Cardinality({}) = book[t].revealCount
        /\ bid' = bid /\ book'[t].phase = "Cancelled"
      BY <1>6, <1>f DEF CloseBiddingCancel, CloseBiddingAllowed, BidBook
  <2>2. Eligible(t) = {}
      BY <1>f, <1>a, <1>l, <2>1, EligibleFinite, FS_EmptySet DEF RevealsCounted
  <2>3. /\ task'[t].status = "Funded" /\ \A x \in Tasks \ {t} : task'[x] = task[x]
      BY <1>6, <1>f DEF CloseBiddingCancel, TaskContract
  <2>4. NothingEarly(t)'
      BY <1>l, <2>1, <2>3 DEF NothingEarly
  <2>5. Eligible(t)' = {}
      BY <1>f, <1>a, <1>l, <2>1, <2>2 DEF Eligible
  <2> QED BY <2>1, <2>4, <2>5 DEF RevealsCounted, BestFor
<1>7. ASSUME CancelBidding(t)
      PROVE  RevealsCounted(t)' /\ BestFor(t)' /\ NothingEarly(t)'
  <2>1. book[t].phase = "Commit" /\ bid' = bid /\ task' = task /\ book'[t].phase = "NoBook"
      BY <1>7, <1>f DEF CancelBidding, NoBook
  <2>2. Eligible(t) = {}
      BY <1>f, <1>a, <1>l, <2>1, EligibleFinite, FS_EmptySet DEF RevealsCounted
  <2>3. Eligible(t)' = {} /\ Signed
      BY <1>f, <1>a, <1>l, <2>1, <2>2 DEF Eligible
  <2> QED BY <1>u, <2>1, <2>3 DEF RevealsCounted, BestFor
<1>8. ASSUME NEW o \in Operators, NEW dest \in SlashTargets, ClaimBond(t, o, dest)
      PROVE  RevealsCounted(t)' /\ BestFor(t)' /\ NothingEarly(t)'
  <2>1. /\ BookOver(t) /\ task' = task /\ book' = book
        /\ \A x \in Tasks \ {t} : bid'[x] = bid[x]
        /\ \A p \in Operators \ {o} : bid'[t][p] = bid[t][p]
      BY <1>8, <1>f DEF ClaimBond
  <2>2. /\ bid'[t][o].revealed = bid[t][o].revealed /\ bid'[t][o].live = bid[t][o].live
        /\ bid'[t][o].agent = bid[t][o].agent /\ bid'[t][o].amount = bid[t][o].amount
        /\ bid'[t][o].slashed = (bid[t][o].slashed \/ ClaimOutcome(t, o) = "Slash")
    <3>1. bid'[t][o] = [bid[t][o] EXCEPT !.refunded = TRUE,
                            !.slashed = bid[t][o].slashed \/ ClaimOutcome(t, o) = "Slash"]
        BY <1>8, <1>f, Zenon DEF ClaimBond
    <3>2. \A r \in Bid : \A b :
                            /\ [r EXCEPT !.refunded = TRUE, !.slashed = b].revealed = r.revealed
                            /\ [r EXCEPT !.refunded = TRUE, !.slashed = b].live = r.live
                            /\ [r EXCEPT !.refunded = TRUE, !.slashed = b].agent = r.agent
                            /\ [r EXCEPT !.refunded = TRUE, !.slashed = b].amount = r.amount
                            /\ [r EXCEPT !.refunded = TRUE, !.slashed = b].slashed = b
        BY DEF Bid
    <3> QED BY <1>f, <1>a, <1>l, <3>1, <3>2
  <2>3. o \in Eligible(t) => ClaimOutcome(t, o) # "Slash"
      BY DEF ClaimOutcome, Eligible
  <2>4. Eligible(t)' = Eligible(t)
    <3>1. o \in Eligible(t)' <=> o \in Eligible(t)
        BY <2>2, <2>3 DEF Eligible
    <3>2. \A p \in Operators \ {o} : p \in Eligible(t)' <=> p \in Eligible(t)
        BY <2>1 DEF Eligible
    <3>3. Eligible(t) \subseteq Operators /\ Eligible(t)' \subseteq Operators
        BY DEF Eligible
    <3> QED BY <3>1, <3>2, <3>3
  <2>5. Signed
      BY <1>f, <1>a, <1>l, <2>1, <2>2
  <2>6. \A p \in Operators : bid'[t][p].amount = bid[t][p].amount
      BY <2>1, <2>2
  <2> QED BY <1>u, <1>a, <1>l, <2>1, <2>4, <2>5, <2>6 DEF RevealsCounted, BestFor, Eligible
<1>9. ASSUME NEW o \in Operators, CloseBid(t, o)
      PROVE  RevealsCounted(t)' /\ BestFor(t)' /\ NothingEarly(t)'
  <2>1. /\ BookOver(t) /\ task' = task /\ book' = book /\ ~bid'[t][o].live
        /\ \A x \in Tasks \ {t} : bid'[x] = bid[x]
        /\ \A p \in Operators \ {o} : bid'[t][p] = bid[t][p]
      BY <1>9, <1>f DEF CloseBid, NoBid
  <2>2. Eligible(t)' = Eligible(t) \ {o}
      BY <2>1 DEF Eligible
  <2>3. Signed
      BY <1>f, <1>a, <1>l, <2>1
  <2>4. BestFor(t)'
      BY <1>f, <1>a, <1>l, <2>1, <2>2 DEF BestFor, Eligible
  <2>5. RevealsCounted(t)'
      BY <1>f, <1>a, <1>l, <2>1, <2>2 DEF RevealsCounted, BookOver
  <2> QED BY <1>u, <2>1, <2>3, <2>4, <2>5
<1>10. ASSUME CloseBidBook(t)
       PROVE  RevealsCounted(t)' /\ BestFor(t)' /\ NothingEarly(t)'
  <2>1. BookOver(t) /\ bid' = bid /\ task' = task /\ book'[t].phase = "NoBook"
      BY <1>10, <1>f DEF CloseBidBook, NoBook
  <2>2. Eligible(t)' = Eligible(t) /\ Signed
      BY <1>f, <1>a, <1>l, <2>1 DEF Eligible
  <2> QED BY <1>u, <1>a, <1>l, <2>1, <2>2 DEF RevealsCounted, BestFor, BookOver
<1>11. ASSUME Gift(t)
       PROVE  RevealsCounted(t)' /\ BestFor(t)' /\ NothingEarly(t)'
  <2>1. bid' = bid /\ task' = task /\ book' = book
      BY <1>11 DEF Gift
  <2> QED BY <1>u, <1>a, <1>l, <2>1, FrameAward
<1> QED BY <1>1, <1>2, <1>3, <1>4, <1>5, <1>6, <1>7, <1>8, <1>9, <1>10, <1>11 DEF Bidding

LEMMA StepAward == AwardInv /\ [Next]_vars => AwardInv'
<1> SUFFICES ASSUME AwardInv, [Next]_vars PROVE AwardInv'
    OBVIOUS
<1>1. EscrowInv' /\ TypeInv /\ TypeOK
    BY StepEscrow DEF AwardInv, EscrowInv, TypeInv
<1>2. ASSUME NEW x \in Tasks, SameTask(x)
      PROVE  AwardFor(x)'
  <2>1. AwardFor(x)
      BY DEF AwardInv
  <2>2. /\ bid'[x] = bid[x] /\ book'[x] = book[x] /\ task'[x] = task[x]
        /\ (x \in reopened' <=> x \in reopened)
      BY <1>2 DEF SameTask
  <2>3. NothingEarly(x) => NothingEarly(x)'
      BY <2>2 DEF NothingEarly
  <2> QED BY <2>1, <2>2, <2>3, FrameAward DEF AwardFor
<1>3. ASSUME NEW t \in Tasks, Bidding(t)
      PROVE  AwardInv'
  <2>1. Elsewhere(t)
      BY <1>1, <1>3, BiddingElsewhere
  <2>2. AwardFor(t)'
      BY <1>3, BiddingAward DEF AwardFor
  <2> QED BY <1>1, <1>2, <2>1, <2>2 DEF AwardInv, Elsewhere
<1>4. ASSUME NEW t \in Tasks, Lifecycle(t)
      PROVE  AwardInv'
  <2>1. Elsewhere(t) /\ UNCHANGED <<book, bid, reopened>>
      BY <1>1, <1>4, LifecycleElsewhere
  <2>2. AwardFor(t)
      BY DEF AwardInv
  <2>3. ASSUME t \notin reopened
        PROVE  /\ task'[t].assigned = task[t].assigned
               /\ task'[t].status \in {"Absent", "Created"} => task'[t].assigned = None
    <3>1. task[t].status \in {"Absent", "Created"} => task[t].assigned = None
        BY <2>2, <2>3 DEF AwardFor, NothingEarly
    <3> QED BY <1>1, <1>4, <3>1, LifecycleAward
  <2>4. ASSUME t \notin reopened
        PROVE  RevealsCounted(t)' /\ BestFor(t)' /\ NothingEarly(t)'
    <3>1. RevealsCounted(t)' /\ BestFor(t)'
        BY <2>1, <2>2, <2>3, <2>4, FrameAward DEF AwardFor
    <3>2. NothingEarly(t)'
        BY <2>1, <2>2, <2>3, <2>4 DEF AwardFor, NothingEarly
    <3> QED BY <3>1, <3>2
  <2> QED BY <1>1, <1>2, <2>1, <2>4 DEF AwardInv, AwardFor, Elsewhere
<1>5. ASSUME Governance \/ Tick \/ UNCHANGED vars
      PROVE  AwardInv'
    BY <1>1, <1>2, <1>5, QuietSteps DEF AwardInv
<1> QED BY <1>3, <1>4, <1>5 DEF Next

LEMMA AlwaysAwardInv == Spec => []AwardInv
<1> QED BY InitAward, StepAward, PTL DEF Spec

\* The award goes to a cheapest revealed bid, for every number of bidders and
\* rounds, until bidding is opened again after an award: whoever cranks close_bidding
\* can neither leave a revealed bid out nor pad the enumeration.
THEOREM CheapestBidAlwaysWins == Spec => []BestBidWins
<1>1. AwardInv => BestBidWins
    BY DEF AwardInv, AwardFor, BestFor, BestBidWins
<1> QED BY AlwaysAwardInv, <1>1, PTL

-----------------------------------------------------------------------------
(* What keeps a book from being opened again: the winner's bond *)

\* Besides the bonds still owed, the bond escrow holds the one of the winner.
Retained(t) ==
    /\ book[t].bond > 0
    /\ book[t].bond * (Cardinality(Staked(t) \ {book[t].winnerBidder}) + 1) <= bondEscrow[t]

\* A winner that has not claimed still counts as a bidder that revealed.
WinnerKnown(t) ==
    LET w == book[t].winnerBidder IN
    /\ w \in Operators
    /\ bid[t][w].live /\ ~bid[t][w].refunded => bid[t][w].revealed /\ ~bid[t][w].slashed

\* What claim_bond pays for operator o.
Moved(t, o) == IF ClaimOutcome(t, o) = "WinnerRetain" THEN 0 ELSE bid[t][o].bondPaid

\* An escrow with a winner's bond is not empty.
LEMMA RetainedNotEmpty ==
    ASSUME TypeInv, NEW t \in Tasks, Retained(t)
    PROVE  bondEscrow[t] # 0
<1> DEFINE b == book[t].bond
           n == Cardinality(Staked(t) \ {book[t].winnerBidder})
<1>1. n \in Nat
    BY StakedFinite, FS_Subset, FS_CardinalityType
<1>2. b \in Nat /\ b > 0 /\ b * (n + 1) <= bondEscrow[t] /\ bondEscrow[t] \in Nat
    BY DEF Retained, TypeInv, TypeOK, BidBook
<1> HIDE DEF b, n
<1>3. b * (n + 1) = b * n + b /\ b * n \in Nat
    BY <1>1, <1>2
<1> QED BY <1>2, <1>3

\* What claim_bond writes.
LEMMA ClaimFields ==
    ASSUME TypeInv, NEW t \in Tasks, NEW o \in Operators, NEW dest \in SlashTargets,
           ClaimBond(t, o, dest)
    PROVE  /\ BookOver(t) /\ bid[t][o].live /\ ~bid[t][o].refunded
           /\ task' = task /\ book' = book
           /\ \A p \in Operators \ {o} : bid'[t][p] = bid[t][p]
<1>1. bid \in [Tasks -> [Operators -> Bid]]
    BY DEF TypeInv, TypeOK
<1>2. \A p \in Operators \ {o} : bid'[t][p] = bid[t][p]
    BY <1>1 DEF ClaimBond
<1>3. BookOver(t) /\ bid[t][o].live /\ ~bid[t][o].refunded /\ task' = task /\ book' = book
    BY DEF ClaimBond
<1> QED BY <1>2, <1>3

\* What claim_bond leaves in the claimed bid.
LEMMA ClaimedBid ==
    ASSUME TypeInv, NEW t \in Tasks, NEW o \in Operators, NEW dest \in SlashTargets,
           ClaimBond(t, o, dest)
    PROVE  /\ bid'[t][o].refunded = TRUE /\ bid'[t][o].live = bid[t][o].live
           /\ bid'[t][o].revealed = bid[t][o].revealed
           /\ bid'[t][o].bondPaid = bid[t][o].bondPaid
           /\ bid'[t][o].slashed = (bid[t][o].slashed \/ ClaimOutcome(t, o) = "Slash")
<1>f. bid \in [Tasks -> [Operators -> Bid]]
    BY DEF TypeInv, TypeOK
<1>1. bid'[t][o] = [bid[t][o] EXCEPT !.refunded = TRUE,
                        !.slashed = bid[t][o].slashed \/ ClaimOutcome(t, o) = "Slash"]
    BY <1>f, Zenon DEF ClaimBond
<1>2. \A r \in Bid : \A b :
          /\ [r EXCEPT !.refunded = TRUE, !.slashed = b].refunded = TRUE
          /\ [r EXCEPT !.refunded = TRUE, !.slashed = b].revealed = r.revealed
          /\ [r EXCEPT !.refunded = TRUE, !.slashed = b].live = r.live
          /\ [r EXCEPT !.refunded = TRUE, !.slashed = b].bondPaid = r.bondPaid
          /\ [r EXCEPT !.refunded = TRUE, !.slashed = b].slashed = b
    BY DEF Bid
<1> DEFINE old == bid[t][o]
           slash == bid[t][o].slashed \/ ClaimOutcome(t, o) = "Slash"
<1>3. old \in Bid
    BY <1>f
<1>4. bid'[t][o] = [old EXCEPT !.refunded = TRUE, !.slashed = slash]
    BY <1>1
<1> HIDE DEF old, slash
<1>5. /\ bid'[t][o].refunded = TRUE /\ bid'[t][o].live = old.live
      /\ bid'[t][o].revealed = old.revealed /\ bid'[t][o].bondPaid = old.bondPaid
      /\ bid'[t][o].slashed = slash
    BY <1>2, <1>3, <1>4
<1> QED BY <1>5 DEF old, slash

\* What claim_bond moves out of the bond escrow, and what the bidder has back.
LEMMA ClaimMoves ==
    ASSUME TypeInv, NEW t \in Tasks, NEW o \in Operators, NEW dest \in SlashTargets,
           ClaimBond(t, o, dest)
    PROVE  /\ Moved(t, o) \in Nat /\ Moved(t, o) <= bid[t][o].bondPaid
           /\ bondEscrow[t] >= Moved(t, o) /\ bondEscrow'[t] = bondEscrow[t] - Moved(t, o)
           /\ ClaimOutcome(t, o) = "Refund" => net'[t][o] = net[t][o] - bid[t][o].bondPaid
           /\ \A p \in Operators \ {o} : net'[t][p] = net[t][p]
<1>f. /\ bid \in [Tasks -> [Operators -> Bid]] /\ bondEscrow \in [Tasks -> Nat]
      /\ net \in [Tasks -> [Operators -> Int]]
    BY DEF TypeInv, TypeOK
<1>1. Moved(t, o) \in Nat /\ Moved(t, o) <= bid[t][o].bondPaid
    BY <1>f DEF Moved, Bid
<1>2. /\ bondEscrow[t] >= Moved(t, o)
      /\ bondEscrow' = [bondEscrow EXCEPT ![t] = @ - Moved(t, o)]
      /\ net' = [net EXCEPT ![t][o] =
                    IF ClaimOutcome(t, o) = "Refund" THEN @ - Moved(t, o) ELSE @]
    BY DEF ClaimBond, Moved
<1>3. bondEscrow'[t] = bondEscrow[t] - Moved(t, o)
    BY <1>f, <1>2
<1>4. /\ ClaimOutcome(t, o) = "Refund" => net'[t][o] = net[t][o] - Moved(t, o)
      /\ \A p \in Operators \ {o} : net'[t][p] = net[t][p]
    BY <1>f, <1>2
<1>5. ClaimOutcome(t, o) = "Refund" => Moved(t, o) = bid[t][o].bondPaid
    BY DEF Moved
<1> QED BY <1>1, <1>2, <1>3, <1>4, <1>5

\* close_bidding with a winner that has a bond in the escrow retains it.
LEMMA SettleRetains ==
    ASSUME BondInv, Lossless, NEW t \in Tasks, NEW S \in SUBSET Operators, NEW w \in S,
           CloseBiddingSettle(t, S, w)
    PROVE  /\ BiddingOpen(t) /\ S \subseteq Eligible(t) /\ bid' = bid
           /\ book'[t].phase = "Settled" /\ book'[t].winnerBidder = w
           /\ task'[t].assigned = bid[t][w].agent
           /\ WinnerKnown(t)' /\ Staked(t)' = Staked(t)
           /\ w \in Staked(t) => Retained(t)'
<1>f. /\ book \in [Tasks -> BidBook] /\ task \in [Tasks -> TaskContract]
      /\ book[t] \in BidBook /\ book[t].bond \in Nat /\ bondEscrow[t] \in Nat
      /\ book[t].bond * Cardinality(Staked(t)) <= bondEscrow[t]
      /\ \A o \in Staked(t) : bid[t][o].bondPaid = book[t].bond
    BY DEF BondInv, TypeInv, TypeOK, BidBook, BondsCovered
<1>1. /\ BiddingOpen(t) /\ S \subseteq Eligible(t) /\ bid' = bid
      /\ bondEscrow' = bondEscrow
    BY DEF CloseBiddingSettle, CloseBiddingAllowed, BiddingOpen
<1>2. /\ book'[t].phase = "Settled" /\ book'[t].winnerBidder = w /\ book'[t].bond = book[t].bond
      /\ task'[t].assigned = bid[t][w].agent
    BY <1>f DEF CloseBiddingSettle, BidBook, TaskContract
<1>3. Staked(t)' = Staked(t)
    BY <1>1 DEF Staked
<1>4. WinnerKnown(t)'
    BY <1>1, <1>2 DEF WinnerKnown, Eligible
<1>5. ASSUME w \in Staked(t) PROVE Retained(t)'
  <2> DEFINE n == Cardinality(Staked(t))
             m == Cardinality(Staked(t) \ {w})
  <2>1. n \in Nat /\ m = n - 1
      BY <1>5, StakedFinite, FS_RemoveElement
  <2>2. m + 1 = n
      BY <2>1
  <2>3. book[t].bond > 0
      BY <1>5, <1>f DEF Staked
  <2> HIDE DEF n, m
  <2>4. book[t].bond * (m + 1) <= bondEscrow[t]
      BY <2>2, <1>f DEF n
  <2> QED BY <1>1, <1>2, <1>3, <2>3, <2>4 DEF Retained, m
<1> QED BY <1>1, <1>2, <1>3, <1>4, <1>5

\* claim_bond pays the winner nothing and everybody else from the rest.
LEMMA ClaimRetains ==
    ASSUME BondInv, Lossless, NEW t \in Tasks, NEW o \in Operators,
           NEW dest \in SlashTargets, ClaimBond(t, o, dest), book[t].phase = "Settled",
           WinnerKnown(t)
    PROVE  /\ WinnerKnown(t)'
           /\ Retained(t) => Retained(t)'
           /\ o = book[t].winnerBidder => Moved(t, o) = 0
<1> DEFINE w == book[t].winnerBidder
           b == book[t].bond
           R == Staked(t) \ {w}
           n == Cardinality(R)
<1>f. /\ book[t].bond \in Nat /\ bondEscrow[t] \in Nat /\ bid[t][o].bondPaid \in Nat
      /\ \A p \in Staked(t) : bid[t][p].bondPaid = book[t].bond
    BY DEF BondInv, TypeInv, TypeOK, BidBook, Bid, BondsCovered
<1>c. /\ bid[t][o].live /\ ~bid[t][o].refunded /\ book' = book
      /\ bid'[t][o].refunded = TRUE
      /\ \A p \in Operators \ {o} : bid'[t][p] = bid[t][p]
      /\ Moved(t, o) \in Nat /\ Moved(t, o) <= bid[t][o].bondPaid
      /\ bondEscrow'[t] = bondEscrow[t] - Moved(t, o)
  <2>1. TypeInv
      BY DEF BondInv
  <2>2. /\ bid[t][o].live /\ ~bid[t][o].refunded /\ book' = book
        /\ \A p \in Operators \ {o} : bid'[t][p] = bid[t][p]
      BY <2>1, ClaimFields, Zenon
  <2>3. bid'[t][o].refunded = TRUE
      BY <2>1, ClaimedBid, Zenon
  <2>4. /\ Moved(t, o) \in Nat /\ Moved(t, o) <= bid[t][o].bondPaid
        /\ bondEscrow'[t] = bondEscrow[t] - Moved(t, o)
      BY <2>1, ClaimMoves, Zenon
  <2> QED BY <2>2, <2>3, <2>4
<1>1. WinnerKnown(t)'
    BY <1>c DEF WinnerKnown
<1>2. o = w => Moved(t, o) = 0
    BY <1>c DEF WinnerKnown, ClaimOutcome, Moved
<1>n. IsFiniteSet(R) /\ n \in Nat
    BY StakedFinite, FS_Subset, FS_CardinalityType
<1>3. ASSUME Retained(t) PROVE Retained(t)'
  <2>1. b > 0 /\ b * (n + 1) <= bondEscrow[t]
      BY <1>3 DEF Retained
  <2>2. CASE o \in R
    <3>1. (Staked(t) \ {book[t].winnerBidder})' = R \ {o}
        BY <1>c, <2>2 DEF Staked
    <3>2. Cardinality(R \ {o}) = n - 1 /\ n # 0
        BY <1>n, <2>2, FS_RemoveElement, FS_EmptySet
    <3>3. Moved(t, o) <= b
        BY <1>c, <1>f, <2>2
    <3> HIDE DEF b, n, R
    <3>4. b \in Nat
        BY <1>f DEF b
    <3>5. b * (n + 1) = b * n + b /\ b * n \in Nat /\ (n - 1) + 1 = n
        BY <1>n, <3>4
    <3>6. b * ((n - 1) + 1) <= bondEscrow[t] - Moved(t, o)
        BY <1>c, <1>f, <2>1, <3>3, <3>4, <3>5
    <3> QED BY <1>c, <2>1, <3>1, <3>2, <3>6 DEF Retained, b
  <2>3. CASE o \notin R
    <3>1. Moved(t, o) = 0
      <4>1. CASE o = w
          BY <1>2, <4>1
      <4>2. CASE o # w
          BY <1>c, <1>f, <2>3, <4>2 DEF Staked
      <4> QED BY <4>1, <4>2
    <3>2. (Staked(t) \ {book[t].winnerBidder})' = R
        BY <1>c, <2>3 DEF Staked
    <3>3. bondEscrow'[t] = bondEscrow[t]
        BY <1>c, <1>f, <3>1
    <3> QED BY <1>c, <2>1, <3>2, <3>3 DEF Retained
  <2> QED BY <2>2, <2>3
<1> QED BY <1>1, <1>2, <1>3

\* close_bid touches no bond that is owed.
LEMMA CloseBidRetains ==
    ASSUME TypeInv, NEW t \in Tasks, NEW o \in Operators, CloseBid(t, o)
    PROVE  /\ BookOver(t) /\ bid[t][o].refunded /\ ~bid'[t][o].live
           /\ book' = book /\ task' = task /\ net' = net
           /\ \A p \in Operators \ {o} : bid'[t][p] = bid[t][p]
           /\ Staked(t)' = Staked(t)
           /\ WinnerKnown(t) => WinnerKnown(t)'
           /\ Retained(t) => Retained(t)'
<1>f. bid \in [Tasks -> [Operators -> Bid]]
    BY DEF TypeInv, TypeOK
<1>1. /\ BookOver(t) /\ bid[t][o].refunded /\ ~bid'[t][o].live
      /\ book' = book /\ task' = task /\ net' = net /\ bondEscrow' = bondEscrow
      /\ \A p \in Operators \ {o} : bid'[t][p] = bid[t][p]
    BY <1>f DEF CloseBid, NoBid
<1>2. Staked(t)' = Staked(t)
    BY <1>1 DEF Staked
<1> QED BY <1>1, <1>2 DEF WinnerKnown, Retained

\* A task that is created or cancelled is nobody's; no other instruction on a task
\* touches its award.
LEMMA LifecycleAssigned ==
    ASSUME TypeInv, NEW t \in Tasks, Lifecycle(t)
    PROVE  task'[t].assigned \in {task[t].assigned, None}
<1>f. task \in [Tasks -> TaskContract] /\ task[t] \in TaskContract
    BY DEF TypeInv, TypeOK
<1> DEFINE G == task'[t].assigned \in {task[t].assigned, None}
<1>s. ASSUME NEW s \in TaskStatus, task' = [task EXCEPT ![t].status = s]
      PROVE  G
    BY <1>f, <1>s DEF TaskContract
<1>1. ASSUME NEW a \in Agents, NEW amount \in Amounts, NEW secs \in DeadlineSecs,
             NEW cap \in Capabilities, NEW gated \in BOOLEAN,
             CreateTask(t, a, amount, secs, cap, gated)
      PROVE  G
  <2>1. task'[t].assigned = None
      BY <1>1, <1>f DEF CreateTask, NoTask
  <2> QED BY <2>1
<1>2. ASSUME CancelUnfundedTask(t)
      PROVE  G
    BY <1>2, <1>f DEF CancelUnfundedTask, NoTask
<1>3. ASSUME NEW a \in Agents, NEW provable \in BOOLEAN, SubmitResult(t, a, provable)
      PROVE  G
    BY <1>3, <1>f DEF SubmitResult, TaskContract
<1>4. ASSUME VerifyTask(t)
      PROVE  G
    BY <1>4, <1>f DEF VerifyTask, TaskContract
<1> HIDE DEF G
<1>5. G
    BY <1>s, <1>1, <1>2, <1>3, <1>4 DEF Lifecycle, FundTask, Release, Expire,
       DisputedTimeoutRefund, RefundClient, RaiseDispute, TaskStatus
<1> QED BY <1>5 DEF G

\* A task awarded to a bid with a bond in escrow keeps its settled book, whose bond
\* escrow is never empty, and so was not opened again.
Kept(t) ==
    t \notin freeAward =>
        /\ t \notin reopened
        /\ task[t].assigned # None => book[t].phase = "Settled"
        /\ book[t].phase = "Settled" => WinnerKnown(t) /\ Retained(t)

KeptInv == BondInv /\ (Lossless => \A t \in Tasks : Kept(t))

\* Every bidding instruction keeps it.
LEMMA BiddingKept ==
    ASSUME KeptInv, Lossless, NEW t \in Tasks, Bidding(t)
    PROVE  Kept(t)'
<1>f. /\ book \in [Tasks -> BidBook] /\ bid \in [Tasks -> [Operators -> Bid]]
      /\ task \in [Tasks -> TaskContract] /\ book[t] \in BidBook
      /\ TypeInv /\ TypeOK /\ BondInv /\ Kept(t)
    BY DEF KeptInv, BondInv, TypeInv, TypeOK
<1>i. TypeInv
    BY <1>f
<1>u. ASSUME book[t].phase # "Settled", task'[t].assigned = task[t].assigned,
             book'[t].phase # "Settled", freeAward' = freeAward, reopened' = reopened
      PROVE  Kept(t)'
    BY <1>f, <1>u DEF Kept
<1>1. ASSUME NEW cs \in WindowSecs, NEW rs \in WindowSecs, NEW bps \in BondBps,
             OpenBidding(t, cs, rs, bps)
      PROVE  Kept(t)'
  <2>1. /\ book[t].phase = "NoBook" /\ book'[t].phase = "Commit" /\ task' = task
        /\ freeAward' = freeAward
        /\ reopened' = IF task[t].assigned = None THEN reopened ELSE reopened \cup {t}
      BY <1>1, <1>f DEF OpenBidding, HasBook, NoBook
  <2> QED BY <1>f, <2>1 DEF Kept
<1>2. ASSUME NEW a \in Agents, NEW amount \in BidAmounts, CommitBid(t, a, amount)
      PROVE  Kept(t)'
  <2>1. book[t].phase = "Commit" /\ task' = task /\ freeAward' = freeAward /\ reopened' = reopened
      BY <1>2 DEF CommitBid
  <2>2. book'[t].phase = "Commit"
      BY <1>2, <1>f DEF CommitBid, BidBook
  <2> QED BY <1>u, <2>1, <2>2
<1>3. ASSUME NEW o \in Operators, RevealBid(t, o) \/ RevealMismatch(t, o)
      PROVE  Kept(t)'
  <2>1. /\ book[t].phase \in {"Commit", "Reveal"} /\ book'[t].phase = "Reveal" /\ task' = task
        /\ freeAward' = freeAward /\ reopened' = reopened
      BY <1>3, <1>f DEF RevealBid, RevealMismatch, RevealAllowed, BidBook
  <2> QED BY <1>u, <2>1
<1>4. ASSUME NEW S \in SUBSET Operators, NEW w \in S, CloseBiddingSettle(t, S, w)
      PROVE  Kept(t)'
  <2>1. /\ BiddingOpen(t) /\ S \subseteq Eligible(t) /\ bid' = bid
        /\ book'[t].phase = "Settled" /\ WinnerKnown(t)'
        /\ w \in Staked(t) => Retained(t)'
      BY <1>4, <1>f, SettleRetains
  <2>2. /\ reopened' = reopened /\ freeAward \subseteq freeAward'
        /\ t \notin freeAward' => bid[t][w].bondPaid > 0 /\ ~bid[t][w].refunded
      BY <1>4 DEF CloseBiddingSettle
  <2>3. t \notin freeAward' => w \in Staked(t)
      BY <2>1, <2>2 DEF Staked, Eligible
  <2> QED BY <1>f, <2>1, <2>2, <2>3 DEF Kept
<1>5. ASSUME CloseBiddingCancel(t)
      PROVE  Kept(t)'
  <2>1. /\ book[t].phase \in {"Commit", "Reveal"} /\ freeAward' = freeAward
        /\ reopened' = reopened
        /\ book'[t].phase = "Cancelled" /\ task'[t].assigned = task[t].assigned
      BY <1>5, <1>f DEF CloseBiddingCancel, CloseBiddingAllowed, BidBook, TaskContract
  <2> QED BY <1>u, <2>1
<1>6. ASSUME CancelBidding(t)
      PROVE  Kept(t)'
  <2>1. /\ book[t].phase = "Commit" /\ task' = task /\ book'[t].phase = "NoBook"
        /\ freeAward' = freeAward /\ reopened' = reopened
      BY <1>6, <1>f DEF CancelBidding, NoBook
  <2> QED BY <1>u, <2>1
<1>7. ASSUME NEW o \in Operators, NEW dest \in SlashTargets, ClaimBond(t, o, dest)
      PROVE  Kept(t)'
  <2>1. task' = task /\ book' = book /\ freeAward' = freeAward /\ reopened' = reopened
      BY <1>7 DEF ClaimBond
  <2>2. ASSUME t \notin freeAward, book[t].phase = "Settled"
        PROVE  WinnerKnown(t)' /\ Retained(t)'
    <3>1. WinnerKnown(t) /\ Retained(t)
        BY <1>f, <2>2 DEF Kept
    <3> QED BY <1>7, <1>f, <2>2, <3>1, ClaimRetains
  <2> QED BY <1>f, <2>1, <2>2 DEF Kept
<1>8. ASSUME NEW o \in Operators, CloseBid(t, o)
      PROVE  Kept(t)'
  <2>1. freeAward' = freeAward /\ reopened' = reopened
      BY <1>8 DEF CloseBid
  <2>2. /\ book' = book /\ task' = task
        /\ WinnerKnown(t) => WinnerKnown(t)'
        /\ Retained(t) => Retained(t)'
      BY <1>8, <1>i, CloseBidRetains
  <2> QED BY <1>f, <2>1, <2>2 DEF Kept
<1>9. ASSUME CloseBidBook(t)
      PROVE  Kept(t)'
  <2>1. /\ BookOver(t) /\ bondEscrow[t] = 0 /\ task' = task
        /\ freeAward' = freeAward /\ reopened' = reopened
      BY <1>9 DEF CloseBidBook
  <2>2. book'[t].phase = "NoBook"
      BY <1>9, <1>f DEF CloseBidBook, NoBook
  <2>3. t \notin freeAward => book[t].phase # "Settled"
      BY <1>f, <2>1, RetainedNotEmpty DEF Kept
  <2> QED BY <1>f, <2>1, <2>2, <2>3 DEF Kept
<1>10. ASSUME Gift(t)
       PROVE  Kept(t)'
  <2>1. /\ bondEscrow[t] = 0 /\ task' = task /\ book' = book
        /\ freeAward' = freeAward /\ reopened' = reopened
      BY <1>10 DEF Gift
  <2>2. t \notin freeAward => book[t].phase # "Settled"
      BY <1>f, <2>1, RetainedNotEmpty DEF Kept
  <2> QED BY <1>f, <2>1, <2>2 DEF Kept
<1> QED BY <1>1, <1>2, <1>3, <1>4, <1>5, <1>6, <1>7, <1>8, <1>9, <1>10 DEF Bidding

LEMMA StepKept == KeptInv /\ [Next]_vars => KeptInv'
<1> SUFFICES ASSUME KeptInv, [Next]_vars PROVE KeptInv'
    OBVIOUS
<1>1. BondInv' /\ TypeInv /\ TypeOK
    BY StepBond DEF KeptInv, BondInv, TypeInv
<1>l. Lossless' <=> Lossless
    BY <1>1, FeeFixed DEF Lossless
<1> SUFFICES ASSUME Lossless PROVE \A t \in Tasks : Kept(t)'
    BY <1>1, <1>l DEF KeptInv
<1>2. ASSUME NEW t \in Tasks, bid'[t] = bid[t], book'[t] = book[t],
             bondEscrow'[t] = bondEscrow[t], task'[t].assigned \in {task[t].assigned, None},
             t \in reopened' <=> t \in reopened, t \in freeAward' <=> t \in freeAward
      PROVE  Kept(t)'
  <2>1. Staked(t)' = Staked(t)
      BY <1>2 DEF Staked
  <2>2. WinnerKnown(t) => WinnerKnown(t)'
      BY <1>2 DEF WinnerKnown
  <2>3. Retained(t) => Retained(t)'
      BY <1>2, <2>1 DEF Retained
  <2>4. Kept(t)
      BY DEF KeptInv
  <2> QED BY <1>2, <2>2, <2>3, <2>4 DEF Kept
<1>3. ASSUME NEW x \in Tasks, SameTask(x) PROVE Kept(x)'
    BY <1>2, <1>3 DEF SameTask
<1>4. ASSUME NEW t \in Tasks, Bidding(t)
      PROVE  \A x \in Tasks : Kept(x)'
  <2>1. Elsewhere(t)
      BY <1>1, <1>4, BiddingElsewhere
  <2> QED BY <1>3, <1>4, <2>1, BiddingKept DEF Elsewhere
<1>5. ASSUME NEW t \in Tasks, Lifecycle(t)
      PROVE  \A x \in Tasks : Kept(x)'
  <2>1. Elsewhere(t) /\ UNCHANGED <<book, bid, bondEscrow, reopened, freeAward>>
      BY <1>1, <1>5, LifecycleElsewhere
  <2>2. task'[t].assigned \in {task[t].assigned, None}
      BY <1>1, <1>5, LifecycleAssigned
  <2> QED BY <1>2, <1>3, <2>1, <2>2 DEF Elsewhere
<1>6. ASSUME Governance \/ Tick \/ UNCHANGED vars
      PROVE  \A x \in Tasks : Kept(x)'
    BY <1>3, <1>6, QuietSteps
<1> QED BY <1>4, <1>5, <1>6 DEF Next

LEMMA InitKept == Init => KeptInv
BY InitBond DEF Init, KeptInv, Kept, NoTask, NoBook

\* In any number of rounds and for any claims and gifts, bidding is opened again after an
\* award only where the award went to a bid without a bond in escrow: any other winner's
\* bond keeps close_bid_book from closing the book.
THEOREM OnlyFreeAwardsReopen == Spec => []ReopenTakesFreeAward
<1>1. KeptInv => ReopenTakesFreeAward
  <2> SUFFICES ASSUME KeptInv, Lossless, NEW t \in reopened PROVE t \in freeAward
      BY DEF ReopenTakesFreeAward
  <2>1. t \in Tasks
      BY DEF KeptInv, BondInv, TypeInv, TypeOK
  <2> QED BY <2>1 DEF KeptInv, Kept
<1> QED BY <1>1, InitKept, StepKept, PTL DEF Spec

-----------------------------------------------------------------------------
(* Honest bidders *)

\* What the program owes operator o for its bid on t, and that o has paid no more.
Owed(t, o) == IF bid[t][o].live /\ ~bid[t][o].refunded THEN bid[t][o].bondPaid ELSE 0
Whole(t, o) == net[t][o] = Owed(t, o)

\* Before an award everybody is whole; afterwards the bidders that revealed and lost, as
\* long as there is a book to claim from.
WholeFor(t) ==
    t \notin reopened =>
        /\ task[t].assigned = None => \A o \in Operators : Whole(t, o)
        /\ HasBook(t) => \A o \in Eligible(t) \ {book[t].winnerBidder} : Whole(t, o)
        /\ book[t].phase = "Cancelled" => task[t].assigned = None

WholeInv == AwardInv /\ \A t \in Tasks : WholeFor(t)

\* Every bidding instruction keeps it.
LEMMA BiddingWhole ==
    ASSUME WholeInv, NEW t \in Tasks, Bidding(t), t \notin reopened'
    PROVE  WholeFor(t)'
<1>f. /\ book \in [Tasks -> BidBook] /\ bid \in [Tasks -> [Operators -> Bid]]
      /\ task \in [Tasks -> TaskContract] /\ book[t] \in BidBook
      /\ net \in [Tasks -> [Operators -> Int]]
      /\ TypeInv /\ TypeOK
    BY DEF WholeInv, AwardInv, EscrowInv, TypeInv, TypeOK
<1>i. TypeInv
    BY <1>f
<1>a. t \notin reopened /\ WholeFor(t) /\ RevealsCounted(t) /\ FirstAward(t)
    BY <1>f, BiddingElsewhere DEF WholeInv, AwardInv, AwardFor, EscrowInv
<1>p. BiddingOpen(t) => task[t].assigned = None
    BY <1>a DEF FirstAward
\* Without an award it is enough that everybody is whole.
<1>u. ASSUME task'[t].assigned = task[t].assigned, task[t].assigned = None,
             \A o \in Operators : Whole(t, o)'
      PROVE  WholeFor(t)'
    BY <1>u DEF WholeFor, Eligible
<1>w. ASSUME net' = net,
             \A o \in Operators : /\ bid'[t][o].live = bid[t][o].live
                                  /\ bid'[t][o].refunded = bid[t][o].refunded
                                  /\ bid'[t][o].bondPaid = bid[t][o].bondPaid
      PROVE  \A o \in Operators : Whole(t, o)' <=> Whole(t, o)
    BY <1>w DEF Whole, Owed
<1>1. ASSUME NEW cs \in WindowSecs, NEW rs \in WindowSecs, NEW bps \in BondBps,
             OpenBidding(t, cs, rs, bps)
      PROVE  WholeFor(t)'
  <2>1. task' = task /\ bid' = bid /\ net' = net /\ task[t].assigned = None
      BY <1>1 DEF OpenBidding
  <2> QED BY <1>a, <1>u, <1>w, <2>1 DEF WholeFor
<1>2. ASSUME NEW a \in Agents, NEW amount \in BidAmounts, CommitBid(t, a, amount)
      PROVE  WholeFor(t)'
  <2> DEFINE o == OperatorOf[a]
             b == book[t].bond
  <2>0. o \in Operators
      BY ConstantsAssumption
  <2>1. /\ ~bid[t][o].live /\ task' = task
        /\ bid'[t][o].live = TRUE /\ bid'[t][o].bondPaid = b /\ bid'[t][o].refunded = FALSE
        /\ \A p \in Operators \ {o} : bid'[t][p] = bid[t][p]
      BY <1>2, <1>f, <2>0 DEF CommitBid, NoBid
  <2>2. task[t].assigned = None /\ b \in Nat
      BY <1>2, <1>f, <1>p DEF CommitBid, BidBook, BiddingOpen
  <2>3. /\ net'[t][o] = net[t][o] + b
        /\ \A p \in Operators \ {o} : net'[t][p] = net[t][p]
      BY <1>2, <1>f, <2>0 DEF CommitBid
  <2>4. \A p \in Operators : Whole(t, p)
      BY <1>a, <2>2 DEF WholeFor
  <2>5. Whole(t, o)'
    <3>1. net[t][o] = 0
        BY <2>0, <2>1, <2>4 DEF Whole, Owed
    <3>2. Owed(t, o)' = b
        BY <2>1 DEF Owed
    <3>3. net'[t][o] = b
        BY <2>2, <2>3, <3>1
    <3> QED BY <3>2, <3>3 DEF Whole
  <2>6. ASSUME NEW p \in Operators, p # o PROVE Whole(t, p)'
      BY <2>1, <2>3, <2>4, <2>6 DEF Whole, Owed
  <2> QED BY <1>u, <2>1, <2>2, <2>5, <2>6
<1>3. ASSUME NEW o \in Operators, RevealBid(t, o) \/ RevealMismatch(t, o)
      PROVE  WholeFor(t)'
  <2>1. BiddingOpen(t) /\ task' = task /\ net' = net
      BY <1>3 DEF RevealBid, RevealMismatch, RevealAllowed, BiddingOpen
  <2>2. \A p \in Operators : /\ bid'[t][p].live = bid[t][p].live
                             /\ bid'[t][p].refunded = bid[t][p].refunded
                             /\ bid'[t][p].bondPaid = bid[t][p].bondPaid
      BY <1>3, <1>f, RevealFields
  <2> QED BY <1>a, <1>p, <1>u, <1>w, <2>1, <2>2 DEF WholeFor
<1>4. ASSUME NEW S \in SUBSET Operators, NEW w \in S, CloseBiddingSettle(t, S, w)
      PROVE  WholeFor(t)'
  <2>1. BiddingOpen(t) /\ S \subseteq Eligible(t) /\ bid' = bid /\ net' = net
      BY <1>4 DEF CloseBiddingSettle, CloseBiddingAllowed, BiddingOpen
  <2>2. \A o \in Operators : Whole(t, o)'
      BY <1>a, <1>p, <1>w, <2>1 DEF WholeFor
  <2>3. book'[t].phase = "Settled"
      BY <1>4, <1>f DEF CloseBiddingSettle, BidBook
  <2> QED BY <2>2, <2>3 DEF WholeFor, Eligible
<1>5. ASSUME CloseBiddingCancel(t)
      PROVE  WholeFor(t)'
  <2>1. BiddingOpen(t) /\ bid' = bid /\ net' = net /\ task'[t].assigned = task[t].assigned
      BY <1>5, <1>f DEF CloseBiddingCancel, CloseBiddingAllowed, BiddingOpen, TaskContract
  <2> QED BY <1>a, <1>p, <1>u, <1>w, <2>1 DEF WholeFor
<1>6. ASSUME CancelBidding(t)
      PROVE  WholeFor(t)'
  <2>1. BiddingOpen(t) /\ bid' = bid /\ net' = net /\ task' = task
      BY <1>6 DEF CancelBidding, BiddingOpen
  <2> QED BY <1>a, <1>p, <1>u, <1>w, <2>1 DEF WholeFor
<1>7. ASSUME NEW o \in Operators, NEW dest \in SlashTargets, ClaimBond(t, o, dest)
      PROVE  WholeFor(t)'
  <2>1. /\ BookOver(t) /\ bid[t][o].live /\ ~bid[t][o].refunded
        /\ task' = task /\ book' = book
        /\ \A p \in Operators \ {o} : bid'[t][p] = bid[t][p]
      BY <1>7, <1>i, ClaimFields, Zenon
  <2>2. /\ bid'[t][o].refunded = TRUE /\ bid'[t][o].live = bid[t][o].live
        /\ bid'[t][o].revealed = bid[t][o].revealed
        /\ bid'[t][o].slashed = (bid[t][o].slashed \/ ClaimOutcome(t, o) = "Slash")
      BY <1>7, <1>i, ClaimedBid, Zenon
  <2>m. /\ ClaimOutcome(t, o) = "Refund" => net'[t][o] = net[t][o] - bid[t][o].bondPaid
        /\ \A p \in Operators \ {o} : net'[t][p] = net[t][p]
      BY <1>7, <1>i, ClaimMoves, Zenon
  <2>3. \A p \in Operators \ {o} : Whole(t, p) => Whole(t, p)'
      BY <2>1, <2>m DEF Whole, Owed
  <2>4. ASSUME ClaimOutcome(t, o) = "Refund", Whole(t, o) PROVE Whole(t, o)'
    <3>1. net[t][o] = bid[t][o].bondPaid /\ Owed(t, o)' = 0
        BY <2>1, <2>2, <2>4 DEF Whole, Owed
    <3>2. bid[t][o].bondPaid \in Nat
        BY <1>f DEF Bid
    <3>3. net'[t][o] = 0
        BY <2>4, <2>m, <3>1, <3>2
    <3> QED BY <3>1, <3>3 DEF Whole
  <2>5. CASE book[t].phase = "Cancelled"
    <3>1. ClaimOutcome(t, o) = "Refund" /\ task[t].assigned = None
        BY <1>a, <2>5 DEF ClaimOutcome, WholeFor
    <3>2. \A p \in Operators : Whole(t, p)'
        BY <1>a, <2>3, <2>4, <3>1 DEF WholeFor
    <3> QED BY <1>u, <2>1, <3>1, <3>2
  <2>6. CASE book[t].phase = "Settled"
    <3>1. task[t].assigned # None /\ HasBook(t)
        BY <1>a, <2>6 DEF RevealsCounted, HasBook
    <3>2. Eligible(t)' \subseteq Eligible(t)
      <4>1. o \in Eligible(t)' => o \in Eligible(t)
          BY <2>2 DEF Eligible
      <4>2. \A p \in Operators \ {o} : p \in Eligible(t)' => p \in Eligible(t)
          BY <2>1 DEF Eligible
      <4>3. Eligible(t)' \subseteq Operators
          BY DEF Eligible
      <4> QED BY <4>1, <4>2, <4>3
    <3>3. ASSUME NEW p \in Eligible(t)', p # book[t].winnerBidder PROVE Whole(t, p)'
      <4>1. p \in Operators /\ p \in Eligible(t) /\ Whole(t, p)
          BY <1>a, <3>1, <3>2, <3>3 DEF WholeFor, Eligible
      <4>2. CASE p # o
          BY <2>3, <4>1, <4>2
      <4>3. CASE p = o
        <5>1. ClaimOutcome(t, o) = "Refund"
            BY <2>6, <3>3, <4>1, <4>3 DEF Eligible, ClaimOutcome
        <5> QED BY <2>4, <4>1, <4>3, <5>1
      <4> QED BY <4>2, <4>3
    <3> QED BY <2>1, <2>6, <3>1, <3>3 DEF WholeFor
  <2> QED BY <2>1, <2>5, <2>6 DEF BookOver
<1>8. ASSUME NEW o \in Operators, CloseBid(t, o)
      PROVE  WholeFor(t)'
  <2>1. /\ BookOver(t) /\ bid[t][o].refunded /\ ~bid'[t][o].live
        /\ book' = book /\ task' = task /\ net' = net
        /\ \A p \in Operators \ {o} : bid'[t][p] = bid[t][p]
      BY <1>8, <1>i, CloseBidRetains
  <2>2. \A p \in Operators : Owed(t, p)' = Owed(t, p)
      BY <2>1 DEF Owed
  <2>3. \A p \in Operators : Whole(t, p)' <=> Whole(t, p)
      BY <2>1, <2>2 DEF Whole
  <2>4. Eligible(t)' \subseteq Eligible(t) /\ Eligible(t) \subseteq Operators
      BY <2>1 DEF Eligible
  <2> QED BY <1>a, <2>1, <2>3, <2>4 DEF WholeFor, HasBook
<1>9. ASSUME CloseBidBook(t)
      PROVE  WholeFor(t)'
  <2>1. BookOver(t) /\ bid' = bid /\ task' = task /\ net' = net
      BY <1>9 DEF CloseBidBook
  <2>2. book'[t].phase = "NoBook"
      BY <1>9, <1>f DEF CloseBidBook, NoBook
  <2>3. \A p \in Operators : Whole(t, p)' <=> Whole(t, p)
      BY <1>w, <2>1
  <2> QED BY <1>a, <2>1, <2>2, <2>3 DEF WholeFor, HasBook
<1>10. ASSUME Gift(t)
       PROVE  WholeFor(t)'
  <2>1. bid' = bid /\ task' = task /\ net' = net /\ book' = book
      BY <1>10 DEF Gift
  <2> QED BY <1>a, <2>1 DEF WholeFor, HasBook, Eligible, Whole, Owed
<1> QED BY <1>1, <1>2, <1>3, <1>4, <1>5, <1>6, <1>7, <1>8, <1>9, <1>10 DEF Bidding

LEMMA StepWhole == WholeInv /\ [Next]_vars => WholeInv'
<1> SUFFICES ASSUME WholeInv, [Next]_vars PROVE WholeInv'
    OBVIOUS
<1>1. AwardInv' /\ TypeInv /\ TypeOK
    BY StepAward DEF WholeInv, AwardInv, EscrowInv, TypeInv
<1>2. ASSUME NEW t \in Tasks, bid'[t] = bid[t], book'[t] = book[t], net'[t] = net[t],
             task'[t].assigned = task[t].assigned, t \in reopened' <=> t \in reopened
      PROVE  WholeFor(t)'
  <2>1. Eligible(t)' = Eligible(t) /\ Eligible(t) \subseteq Operators
      BY <1>2 DEF Eligible
  <2>2. \A o \in Operators : Whole(t, o)' <=> Whole(t, o)
      BY <1>2 DEF Whole, Owed
  <2>3. WholeFor(t)
      BY DEF WholeInv
  <2> QED BY <1>2, <2>1, <2>2, <2>3 DEF WholeFor, HasBook
<1>3. ASSUME NEW x \in Tasks, SameTask(x) PROVE WholeFor(x)'
    BY <1>2, <1>3 DEF SameTask
<1>4. ASSUME NEW t \in Tasks, Bidding(t)
      PROVE  WholeInv'
  <2>1. Elsewhere(t)
      BY <1>1, <1>4, BiddingElsewhere
  <2>2. WholeFor(t)'
      BY <1>4, BiddingWhole DEF WholeFor
  <2> QED BY <1>1, <1>3, <2>1, <2>2 DEF WholeInv, Elsewhere
<1>5. ASSUME NEW t \in Tasks, Lifecycle(t)
      PROVE  WholeInv'
  <2>1. Elsewhere(t) /\ UNCHANGED <<book, bid, net, reopened>>
      BY <1>1, <1>5, LifecycleElsewhere
  <2>2. WholeFor(t)'
    <3>1. CASE t \in reopened
        BY <2>1, <3>1 DEF WholeFor
    <3>2. CASE t \notin reopened
      <4>1. task[t].status \in {"Absent", "Created"} => task[t].assigned = None
          BY <3>2 DEF WholeInv, AwardInv, AwardFor, NothingEarly
      <4>2. task'[t].assigned = task[t].assigned
          BY <1>1, <1>5, <4>1, LifecycleAward
      <4> QED BY <1>2, <2>1, <4>2
    <3> QED BY <3>1, <3>2
  <2> QED BY <1>1, <1>3, <2>1, <2>2 DEF WholeInv, Elsewhere
<1>6. ASSUME Governance \/ Tick \/ UNCHANGED vars
      PROVE  WholeInv'
    BY <1>1, <1>3, <1>6, QuietSteps DEF WholeInv
<1> QED BY <1>4, <1>5, <1>6 DEF Next

LEMMA InitWhole == Init => WholeInv
<1> SUFFICES ASSUME Init PROVE WholeInv
    OBVIOUS
<1>1. \A t \in Tasks : /\ book[t].phase = "NoBook"
                       /\ \A o \in Operators : Owed(t, o) = 0 /\ net[t][o] = 0
    BY DEF Init, NoBid, NoBook, Owed
<1> QED BY <1>1, InitAward DEF WholeInv, WholeFor, Whole, HasBook

\* For any number of tasks, bidders and rounds, whoever the client is and whatever the
\* mint withholds: a bidder that revealed its bid and did not win has paid for bonds only
\* what it can still claim, until bidding is opened again after an award.
THEOREM HonestBiddersStayWhole == Spec => []HonestBidderWhole
<1>1. WholeInv => HonestBidderWhole
    BY DEF WholeInv, WholeFor, HonestBidderWhole, Whole, Owed, Eligible
<1> QED BY <1>1, InitWhole, StepWhole, PTL DEF Spec
=============================================================================
