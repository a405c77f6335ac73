--------------------------- MODULE DisputeOutcome ---------------------------
(***************************************************************************)
(* What arbitration promises to the parties of a case: it is heard at most *)
(* twice, each hearing decides once, only the last hearing counts, and a   *)
(* closed case keeps its verdict for ever.                                 *)
(***************************************************************************)
CONSTANTS Cases, Verdicts, NoVerdict

VARIABLES phase,    \* "None", "Hearing", "Decided" or "Closed"
          hearing,  \* 1 or 2
          verdict   \* of a decided or closed case

vars == <<phase, hearing, verdict>>

Init ==
    /\ phase = [c \in Cases |-> "None"]
    /\ hearing = [c \in Cases |-> 1]
    /\ verdict = [c \in Cases |-> NoVerdict]

\* A case is brought.
Open(c) ==
    /\ phase[c] = "None"
    /\ phase' = [phase EXCEPT ![c] = "Hearing"]
    /\ UNCHANGED <<hearing, verdict>>

\* A hearing decides; only the second one may end without a verdict.
Decide(c, v) ==
    /\ phase[c] = "Hearing"
    /\ v = NoVerdict => hearing[c] = 2
    /\ phase' = [phase EXCEPT ![c] = "Decided"]
    /\ verdict' = [verdict EXCEPT ![c] = v]
    /\ hearing' = hearing

\* The first hearing was undecided or is appealed: its verdict is void.
HearAgain(c) ==
    /\ phase[c] \in {"Hearing", "Decided"}
    /\ hearing[c] = 1
    /\ phase' = [phase EXCEPT ![c] = "Hearing"]
    /\ hearing' = [hearing EXCEPT ![c] = 2]
    /\ verdict' = [verdict EXCEPT ![c] = NoVerdict]

\* The decision becomes final.
Close(c) ==
    /\ phase[c] = "Decided"
    /\ phase' = [phase EXCEPT ![c] = "Closed"]
    /\ UNCHANGED <<hearing, verdict>>

\* A case that was never heard is dropped.
Abandon(c) ==
    /\ phase[c] = "Hearing"
    /\ hearing[c] = 1
    /\ phase' = [phase EXCEPT ![c] = "Closed"]
    /\ UNCHANGED <<hearing, verdict>>

Next ==
    \E c \in Cases :
        \/ Open(c) \/ HearAgain(c) \/ Close(c) \/ Abandon(c)
        \/ \E v \in Verdicts \cup {NoVerdict} : Decide(c, v)

Spec == Init /\ [][Next]_vars
=============================================================================
