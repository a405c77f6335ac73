------------------------- MODULE ArbitratorSelection -------------------------
(***************************************************************************)
(* The stake-weighted draw of arbitrators, as the set of its possible      *)
(* results. The hash of the VRF bytes and the seat number is an arbitrary  *)
(* number, so every seat draws any offset below the total stake.           *)
(* Positions count from 1 here and from 0 in the code.                     *)
(***************************************************************************)
EXTENDS Integers, Sequences

\* snapshot_pool's running sums.
CumulativeStakes(stakes) ==
    LET sum[i \in 0..Len(stakes)] == IF i = 0 THEN 0 ELSE sum[i - 1] + stakes[i]
    IN  [i \in 1..Len(stakes) |-> sum[i]]

TotalStake(cum) == IF cum = <<>> THEN 0 ELSE cum[Len(cum)]

\* Fault: an offset on a boundary goes to the next member.
BinarySearchNext(cum, r) ==
    {i \in 1..Len(cum) : cum[i] > r /\ \A j \in 1..(i - 1) : cum[j] <= r}

\* slice::binary_search on the running sums: any position that holds the value,
\* or else the position where it would be inserted.
BinarySearch(cum, r) ==
    LET hits == {i \in 1..Len(cum) : cum[i] = r}
    IN  IF hits # {} THEN hits
        ELSE {i \in 1..Len(cum) : cum[i] > r /\ \A j \in 1..(i - 1) : cum[j] < r}

\* The first position that is not taken, going round from position i.
NextFree(n, taken, i) ==
    LET pos(k) == ((i - 1 + k) % n) + 1
        steps == {k \in 0..(n - 1) : pos(k) \notin taken}
    IN  pos(CHOOSE k \in steps : \A m \in steps : k <= m)

\* What weighted_select can return when the pool has enough members: in every
\* seat, the first free position from where some offset landed.
Selections(cum, count) ==
    {s \in [1..count -> 1..Len(cum)] :
        \A i \in 1..count : \E r \in 0..(TotalStake(cum) - 1) :
            \E h \in BinarySearch(cum, r) :
                s[i] = NextFree(Len(cum), {s[j] : j \in 1..(i - 1)}, h)}
=============================================================================
