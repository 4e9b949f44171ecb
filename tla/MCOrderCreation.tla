-------------------------- MODULE MCOrderCreation --------------------------
\* Small instances of OrderCreation for TLC.
EXTENDS OrderCreation, TLC

CONSTANTS r1, r2, r3

\* Three requests with one key, as a client that retries sends them.
OneKey == [r \in Requests |-> "k1"]
\* Two with one key, and one with another.
TwoKeys == [r \in Requests |-> IF r = r3 THEN "k2" ELSE "k1"]

Amounts == [r \in Requests |-> 1]
\* r3 asks for so much that the amount wraps to nothing.
Wrapping == [r \in Requests |-> IF r = r3 THEN 4 ELSE 1]
=============================================================================
