---------------------------- MODULE MCOrderFlow ----------------------------
\* Small instances of OrderFlow for TLC.
EXTENDS OrderFlow, TLC

CONSTANTS a, b, p1

Itself == [m \in Messages |-> m]
OneKey == [o \in Orders |-> "k1"]
OwnKeys == [o \in Orders |-> o]
Once == [m \in Messages |-> 1]
OneEach == [o \in Orders |-> [p \in Products |-> 1]]
OneInStock == [p \in Products |-> 1]
=============================================================================
