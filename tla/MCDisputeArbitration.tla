------------------------ MODULE MCDisputeArbitration ------------------------
(***************************************************************************)
(* DisputeArbitration for TLC: constants, a later start, the fairness of   *)
(* its callers and its liveness.                                           *)
(***************************************************************************)
EXTENDS DisputeArbitration, TLC

CONSTANTS a1, a2, client, operator

\* One time unit to commit, reveal and appeal; one strike bars. The rate of the
\* collateral is the default, above what set_params accepts.
MCParams == [commitWindow |-> 0, revealWindow |-> 1, appealWindow |-> 1,
             appealCollateralBps |-> 15000, maxSlashBps |-> 1000,
             slashTimelock |-> 1, minStake |-> 1, minLock |-> 1,
             badFaithThreshold |-> 1]
\* Slashes without a timelock, and a rate that is refused.
MCParamChoices == {[MCParams EXCEPT !.slashTimelock = -1],
                   [MCParams EXCEPT !.maxSlashBps = 10001]}
MCPartyChoices == {<<client, operator>>}

Members(as, stake) == [i \in 1..Len(as) |-> [arb |-> as[i], stake |-> stake[as[i]]]]
MCStake == a1 :> 1 @@ a2 :> 1
\* Both arbitrators, one of them, and a list that is too long.
MCPools == {Members(<<a1, a2>>, MCStake), Members(<<a2>>, MCStake),
            Members(<<a1, a2, a1>>, MCStake)}

-----------------------------------------------------------------------------
(* A later start: every arbitrator is registered with its stake and the     *)
(* pool is taken, which registrations and one snapshot_pool lead to.        *)

SeatedInit ==
    /\ NothingRaised
    /\ arb = [a \in Arbitrators |-> [NoArbitrator EXCEPT !.status = "Active",
                                                         !.stake = MCStake[a]]]
    /\ pool = [arbs |-> <<a1, a2>>, cum |-> <<1, 2>>]

-----------------------------------------------------------------------------
(* Liveness. Tallies, resolutions and the cancellation of a stale case are  *)
(* permissionless cranks and the authority delivers the draws; nothing is   *)
(* assumed of the arbitrators.                                              *)

Closed(c) == dc[c].status \in {"Resolved", "Cancelled"}

CrankFairness ==
    /\ WF_vars(Tick)
    /\ \A c \in Cases : /\ WF_vars(ConsumeVrf(c))
                        /\ WF_vars(CancelStaleVrf(c))
                        /\ WF_vars(TallyRound(c))
                        /\ WF_vars(ResolveDispute(c))

\* Only a1 registers, moves its stake, leaves and is slashed, and the case is
\* raised at time 0: handlers only compare times that are counted from there. Pool
\* and pause matter to open cases only.
SeatedNext ==
    \/ ArbitratorStep(a1) \/ SlashStep(a1)
    \/ \E c \in Cases : (dc[c].status = "Absent" => now = 0) /\ CaseStep(c)
    \/ (\E c \in Cases : ~Closed(c)) /\ GovernanceStep
    \/ Tick

SeatedSpec == SeatedInit /\ [][SeatedNext]_vars /\ CrankFairness

Hearing(c) == dc[c].status \notin {"Absent", "Resolved", "Cancelled"}
\* The bench let its windows pass without one reveal: only a reveal moves a case
\* out of Committing.
Silent(c) == dc[c].status = "Committing" /\ now > dc[c].revealDeadline
\* The second bench cannot be drawn, and only a first draw can be cancelled.
Benchless(c) == dc[c].status = "Appealed" /\ Len(pool.arbs) < RoundSize(c)
\* The bound MaxTime of the clock cuts this case's windows.
OutOfClock(c) ==
    \/ (IF dc[c].round = 1 THEN AppealDeadline(c) ELSE dc[c].revealDeadline) >= MaxTime
    \/ dc[c].createdAt + params.commitWindow >= MaxTime

\* A case that is raised is resolved or cancelled in the end, through ties,
\* appeals, second rounds, pauses and changing stakes and pools, unless it ends in
\* one of the two states no crank leads out of: the bench stayed silent, or
\* the pool is too small for the second one.
CasesClose ==
    \A c \in Cases : Hearing(c) ~> Closed(c) \/ Silent(c) \/ Benchless(c) \/ OutOfClock(c)

=============================================================================
