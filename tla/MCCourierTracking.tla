------------------------- MODULE MCCourierTracking -------------------------
\* Small instances of CourierTracking for TLC.
EXTENDS CourierTracking, TLC

CONSTANTS a1, a2, u1, u2, c1, c2

\* a1 and u1 are of courier c1; a2 and u2 of c2.
TwoCouriers == [h \in Assignments \union Updates |-> IF h \in {a1, u1} THEN c1 ELSE c2]
OneCourier == [h \in Assignments \union Updates |-> c1]

\* Each report changes one coordinate of the origin.
Lats == [u \in Updates |-> IF u = u1 THEN "1" ELSE "0"]
Lngs == [u \in Updates |-> IF u = u1 THEN "0" ELSE "1"]
=============================================================================
