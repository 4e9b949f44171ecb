------------------------- MODULE MCOrdersProcessor -------------------------
\* Small instances of OrdersProcessor for TLC.
EXTENDS OrdersProcessor, TLC

CONSTANTS m1, m2, o1, o2, p1, p2

\* createOrder publishes one message for each order it creates.
OwnOrder == (m1 :> o1) @@ [m \in Messages \ {m1} |-> o2]
\* Two messages for one order: one of them was published by hand.
SameOrder == [m \in Messages |-> o1]

\* Both orders want both products: their handlers can lock them crosswise.
CrossDemand == (o1 :> ((p1 :> 2) @@ (p2 :> 1))) @@ (o2 :> ((p1 :> 1) @@ (p2 :> 1)))
\* Orders of one and of two products.
MixedDemand == (o1 :> ((p1 :> 1) @@ (p2 :> 0))) @@ (o2 :> ((p1 :> 1) @@ (p2 :> 1)))

\* Every message is published once, or m1 twice, as the script can do.
Once == [m \in Messages |-> 1]
M1Twice == [m \in Messages |-> IF m = m1 THEN 2 ELSE 1]

\* Enough for both orders / for one of them only / for each order once.
Plenty == [p \in Products |-> 3]
Scarce == [p \in Products |-> 2]
=============================================================================
