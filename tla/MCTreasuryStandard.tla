------------------------- MODULE MCTreasuryStandard -------------------------
(***************************************************************************)
(* TreasuryStandard for TLC: constants and bounds of an instance with two  *)
(* treasuries and a mint with a transfer fee. The run starts after         *)
(* governance has entered the mints and the call targets.                  *)
(***************************************************************************)
EXTENDS TreasuryStandard, TLC

CONSTANTS op, cl, usdc, saep

MCOperatorOf == [t \in Treasuries |-> op]
Limit(p, d, w) == [perTx |-> p, daily |-> d, weekly |-> w]
\* Two good settings and one that is refused.
MCLimits == {Limit(1, 1, 1), Limit(1, 2, 2), Limit(2, 1, 2)}
Feed(price, conf, age) == [price |-> price, conf |-> conf, age |-> age]
\* A base unit is worth 100, so that a price of 150 is rounded. The second one is
\* stale.
MCFeeds == {Feed(150, 1, 60), Feed(150, 0, 61)}
\* 10 bps, rounded up.
MCFeeBps == (usdc :> 0 @@ saep :> 10)
MCGlobals ==
    {[paused |-> FALSE, maxStreamDuration |-> 3, defaultDaily |-> 0, maxDaily |-> 2,
      mints |-> {usdc, saep}, targets |-> Targets, hookWired |-> FALSE]}
MCFunds == (usdc :> 3 @@ saep :> 5)
MCSaep == {saep}
MCTargets == {{}, {"token"}}
MCHooks == {{}, {usdc}}
MCSymmetry == Permutations(Treasuries) \cup Permutations(Streams)

\* Bound: with one treasury either governance is at most one change away from
\* what was deployed, or the mint allowlist is wired, and up to two changes away
\* while nothing was withdrawn. With two treasuries, which share streams but no
\* limits, governance is as deployed, the limits are never changed and nothing is
\* withdrawn.
Changes ==
    Cardinality({f \in DOMAIN global \ {"hookWired"} : \A g \in InitGlobals : global[f] # g[f]})
        + Cardinality({t \in Treasuries : targets[t].live})
HookChanges ==
    (IF hooks.list = Mints THEN 0 ELSE 1) + (IF hooks.deny THEN 0 ELSE 1)
        + Cardinality({t \in Treasuries : agentHooks[t] # {}})
OneTreasury == \A t, u \in Treasuries : treasury[t].live /\ treasury[u].live => t = u
Untouched == \A t \in Treasuries : spent[t].week = 0 /\ spent[t].peakWeekly <= 1
FewChanges ==
    \/ OneTreasury /\ ~global.hookWired /\ HookChanges = 0 /\ Changes <= 1
    \/ OneTreasury /\ global.hookWired /\ Changes = 0
          /\ HookChanges <= IF Untouched THEN 2 ELSE 0
    \/ Untouched /\ ~global.hookWired /\ Changes + HookChanges = 0

=============================================================================
