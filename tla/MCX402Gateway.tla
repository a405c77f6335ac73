--------------------------- MODULE MCX402Gateway ----------------------------
\* An instance of X402Gateway: a managed and an unmanaged recipient within the
\* budget, and a demand above it.
EXTENDS X402Gateway

MCDemands == {[amount |-> 2, managed |-> TRUE], [amount |-> 2, managed |-> FALSE],
              [amount |-> 4, managed |-> TRUE]}
=============================================================================
