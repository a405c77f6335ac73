---------------------------- MODULE MCTaskMarket ----------------------------
(***************************************************************************)
(* Instances of TaskMarket for TLC, its fairness and its liveness.         *)
(***************************************************************************)
EXTENDS TaskMarket, TLC

CONSTANTS a1, a2, o1, o2, cl, fc, sp, c1

(* Constants. A payment of 400 carries a bond of 2 at 50 bps and fees of 4 at
   100 bps; a payment of 10 carries a bond and fees of 0. *)
MCOperatorOf == a1 :> o1 @@ a2 :> o2
MCKeyRank == a1 :> 1 @@ a2 :> 2

AgentUp(stake) == [active |-> TRUE, stake |-> stake, caps |-> {c1}]
AgentDown == [active |-> FALSE, stake |-> 5, caps |-> {c1}]
OneStake == {AgentUp(5)}
UpOrDown == {AgentUp(5), AgentDown}

Market(p, s, w, accepted, fee) ==
    [protocolBps |-> p, solrepBps |-> s, disputeWindowSecs |-> w,
     mintAllowed |-> TRUE, mintAccepted |-> accepted, paused |-> FALSE,
     hookWired |-> FALSE, transferFeeBps |-> fee]
FixedMarket == {Market(100, 50, 1, TRUE, 0)}
FreshMarket == {Market(100, 50, 1, FALSE, fee) : fee \in {0, 100}}
FeesUpAndOver == {<<0, 100>>, <<101, 0>>}
WindowsAroundBounds == {-1, 1}
DeadlinesAroundBounds == {-1, 2, 4}

-----------------------------------------------------------------------------
(* Fairness and liveness *)

\* Anyone may send these, and the payee, the client or the protocol's crank
\* has a reason to: verify_task, release, expire, disputed_timeout_refund and
\* close_bidding. The clock advances.
CrankFairness ==
    /\ WF_vars(Tick)
    /\ \A t \in Tasks :
         /\ WF_vars(VerifyTask(t))
         /\ WF_vars(\E a \in Agents : Release(t, a))
         /\ WF_vars(\E a \in Agents : Expire(t, a))
         /\ WF_vars(DisputedTimeoutRefund(t))
         /\ WF_vars(\E S \in SUBSET Operators : \E w \in S :
                        CloseBiddingSettle(t, S, w))
         /\ WF_vars(CloseBiddingCancel(t))

\* The client closes a finished book, which it needs to get its money back. Nothing
\* makes a bidder claim its bond.
ClientFairness == \A t \in Tasks : WF_vars(CloseBidBook(t))

FairSpec == Spec /\ CrankFairness /\ ClientFairness

\* A cancelled round whose bond escrow is not empty: a bidder has not claimed, or
\* somebody sent tokens there. The book cannot be closed, and as it names no winner
\* expire accepts no agent.
Wedged(t) == book[t].phase = "Cancelled" /\ bondEscrow[t] > 0 /\ task[t].assigned = None

\* Every deposited payment eventually leaves the escrow, whatever the bidders, the agent
\* and the client did before, unless such a round keeps it there for good.
EscrowDrains == \A t \in Tasks : escrow[t] > 0 ~> (escrow[t] = 0 \/ []Wedged(t))

=============================================================================
