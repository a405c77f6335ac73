----------------------------- MODULE TaskEscrow -----------------------------
(***************************************************************************)
(* What the task market promises a client and an agent about one payment,  *)
(* with no bidding, clock, registry or governance: it is offered,          *)
(* deposited, and leaves the escrow at most once and as a whole, as a      *)
(* payment for a delivered result or as a refund. A deposit that arrives   *)
(* short stays. TaskMarket is shown to implement this.                     *)
(***************************************************************************)
EXTENDS Naturals

CONSTANTS Tasks, Amounts

VARIABLES deal,   \* the stage of each payment
          price,  \* the amount agreed on
          held    \* what the escrow holds

vars == <<deal, price, held>>

Stages == {"None", "Offered", "Held", "Delivered", "Contested", "Paid", "Refunded"}

Init ==
    /\ deal = [t \in Tasks |-> "None"]
    /\ price = [t \in Tasks |-> 0]
    /\ held = [t \in Tasks |-> 0]

Offer(t, amount) ==
    /\ deal[t] = "None"
    /\ amount > 0
    /\ deal' = [deal EXCEPT ![t] = "Offered"]
    /\ price' = [price EXCEPT ![t] = amount]
    /\ held' = held

Withdraw(t) ==
    /\ deal[t] = "Offered"
    /\ deal' = [deal EXCEPT ![t] = "None"]
    /\ price' = [price EXCEPT ![t] = 0]
    /\ held' = held

Deposit(t) ==
    /\ deal[t] = "Offered"
    /\ deal' = [deal EXCEPT ![t] = "Held"]
    /\ \E x \in 0..price[t] : held' = [held EXCEPT ![t] = x]
    /\ price' = price

Deliver(t) ==
    /\ deal[t] = "Held"
    /\ deal' = [deal EXCEPT ![t] = "Delivered"]
    /\ UNCHANGED <<price, held>>

Contest(t) ==
    /\ deal[t] = "Delivered"
    /\ deal' = [deal EXCEPT ![t] = "Contested"]
    /\ UNCHANGED <<price, held>>

\* A delivery can be set aside: another result is waited for.
Redo(t) ==
    /\ deal[t] \in {"Delivered", "Contested"}
    /\ deal' = [deal EXCEPT ![t] = "Held"]
    /\ UNCHANGED <<price, held>>

\* Only an uncontested delivery is paid ...
Pay(t) ==
    /\ deal[t] = "Delivered" /\ held[t] = price[t]
    /\ deal' = [deal EXCEPT ![t] = "Paid"]
    /\ held' = [held EXCEPT ![t] = 0]
    /\ price' = price

\* ... and only a missing or contested one is refunded.
Refund(t) ==
    /\ deal[t] \in {"Held", "Contested"} /\ held[t] = price[t]
    /\ deal' = [deal EXCEPT ![t] = "Refunded"]
    /\ held' = [held EXCEPT ![t] = 0]
    /\ price' = price

Next ==
    \E t \in Tasks :
        \/ \E amount \in Amounts : Offer(t, amount)
        \/ Withdraw(t)
        \/ Deposit(t)
        \/ Deliver(t)
        \/ Contest(t)
        \/ Redo(t)
        \/ Pay(t)
        \/ Refund(t)

Spec == Init /\ [][Next]_vars
=============================================================================
