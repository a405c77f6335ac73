--------------------------- MODULE WeightedSelect ---------------------------
(***************************************************************************)
(* dispute_arbitration's weighted_select, loop by loop: for every seat it  *)
(* draws an offset, looks it up in the running sums and probes forward     *)
(* past the positions that are already selected.                           *)
(***************************************************************************)
EXTENDS ArbitratorSelection, Functions

CONSTANTS
    Stakes,         \* stakes a pool member may have
    MaxPool,        \* bound: members of the pool
    MaxCount        \* bound: seats asked for

ASSUME SelectAssumption ==
    /\ Stakes \subseteq Nat
    /\ MaxPool \in Nat
    /\ MaxCount \in Nat

VARIABLES
    cumulative, \* cumulative_stakes
    count,      \* seats asked for
    drawn,      \* the offsets drawn so far
    selected,   \* the positions selected so far
    idx,        \* the position under consideration
    attempts,   \* probes made for this seat
    pc          \* "draw", "probe" or "done"

selectVars == <<cumulative, count, drawn, selected, idx, attempts, pc>>

SelectInit ==
    /\ cumulative \in {CumulativeStakes(s) : s \in UNION {[1..n -> Stakes] : n \in 0..MaxPool}}
    /\ count \in 0..MaxCount
    /\ drawn = <<>>
    /\ selected = <<>>
    /\ idx = 0
    /\ attempts = 0
    /\ pc = "draw"

\* The early returns: no members, no seats or no stake.
Refused == count = 0 \/ TotalStake(cumulative) = 0

ReturnNothing ==
    /\ pc = "draw"
    /\ Refused
    /\ pc' = "done"
    /\ UNCHANGED <<cumulative, count, drawn, selected, idx, attempts>>

Draw ==
    /\ pc = "draw"
    /\ ~Refused
    /\ Len(selected) < count
    /\ \E r \in 0..(TotalStake(cumulative) - 1) :
          /\ drawn' = Append(drawn, r)
          /\ idx' \in BinarySearch(cumulative, r)
    /\ attempts' = 0
    /\ pc' = "probe"
    /\ UNCHANGED <<cumulative, count, selected>>

\* The condition of the probing loop.
Occupied == idx \in Range(selected) /\ attempts < Len(cumulative)

\* Fault: the probe does not move.
ProbeStuck ==
    /\ pc = "probe"
    /\ Occupied
    /\ UNCHANGED selectVars

Probe ==
    /\ pc = "probe"
    /\ Occupied
    /\ idx' = (idx % Len(cumulative)) + 1
    /\ attempts' = attempts + 1
    /\ UNCHANGED <<cumulative, count, drawn, selected, pc>>

\* A full round of probes leaves the loop over the seats.
GiveUp ==
    /\ pc = "probe"
    /\ ~Occupied
    /\ attempts >= Len(cumulative)
    /\ pc' = "done"
    /\ UNCHANGED <<cumulative, count, drawn, selected, idx, attempts>>

Place ==
    /\ pc = "probe"
    /\ ~Occupied
    /\ attempts < Len(cumulative)
    /\ selected' = Append(selected, idx)
    /\ pc' = "draw"
    /\ UNCHANGED <<cumulative, count, drawn, idx, attempts>>

Finish ==
    /\ pc = "draw"
    /\ ~Refused
    /\ Len(selected) = count
    /\ pc' = "done"
    /\ UNCHANGED <<cumulative, count, drawn, selected, idx, attempts>>

SelectNext == ReturnNothing \/ Draw \/ Probe \/ GiveUp \/ Place \/ Finish

SelectSpec == SelectInit /\ [][SelectNext]_selectVars /\ WF_selectVars(SelectNext)

-----------------------------------------------------------------------------
\* The stake up to member h is the first to reach the offset r. An offset equal to
\* the stake up to a member is still that member's: the first member has
\* one offset more than its stake, the last one fewer, and a member without stake
\* shares a boundary with its neighbours.
FirstToReach(r, h) ==
    /\ cumulative[h] >= r
    /\ \A j \in DOMAIN cumulative : cumulative[j] >= r => cumulative[h] <= cumulative[j]

\* The draw fills every seat, with different members, or seats the whole pool when
\* it is smaller. Every seat goes to the member that the stakes give its offset to
\* or, when that one sits already, to the next one round the pool that does not;
\* and the result is one of the selections ArbitratorSelection allows.
SelectionExplained ==
    (pc = "done" /\ ~Refused) =>
        /\ IsInjective(selected)
        /\ Len(selected) = IF count <= Len(cumulative) THEN count ELSE Len(cumulative)
        /\ selected \in Selections(cumulative, Len(selected))
        /\ \A i \in 1..Len(selected) : \E h \in DOMAIN cumulative :
               /\ FirstToReach(drawn[i], h)
               /\ selected[i] = NextFree(Len(cumulative), {selected[j] : j \in 1..(i - 1)}, h)

\* The loops end for every pool and every VRF result.
SelectionEnds == <>(pc = "done")
=============================================================================
