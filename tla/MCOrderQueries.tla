--------------------------- MODULE MCOrderQueries ---------------------------
\* A small instance of OrderQueries for TLC.
EXTENDS OrderQueries, TLC

CONSTANTS o1, o2, o3, kim, lee, a1, a2

\* Three orders in the order of their names, the last of a customer of its own.
Places == (o1 :> 1) @@ (o2 :> 2) @@ (o3 :> 3)
Customers == [o \in Orders |-> IF o = o3 THEN lee ELSE kim]
Counts == [o \in Orders |-> IF o = o2 THEN 2 ELSE 1]

Lists == {[status |-> "PENDING", from |-> 0, to |-> 9],
          [status |-> "PROCESSED", from |-> 0, to |-> 9],
          [status |-> "any", from |-> 2, to |-> 9]}

Symmetry == Permutations(Assignments)
=============================================================================
