----------------------------- MODULE MCFeeCrank -----------------------------
\* Instances of FeeCrank: the default split and caps of the program, the ten
\* basis points of the SAEP mint, windows in days scaled down in their order.
EXTENDS FeeCrank

CONSTANTS s1, s2

MCStakers == {s1, s2}
Split(b, s, g, t) ==
    [burn |-> b, staker |-> s, grant |-> g, treasury |-> t]
MCInitialShares == Split(1000, 5000, 2000, 2000)
MCShares == {Split(2000, 4000, 2000, 2000), Split(2500, 7500, 0, 0)}
MCCaps == Split(2000, 7500, 3000, 3000)
MCRoots == {[s \in {s1} |-> 4]}
MCPowers == {[s \in {s1, s2} |-> IF s = s1 THEN 1 ELSE 2], [s \in {} |-> 0]}
MCAmounts == {10}
=============================================================================
