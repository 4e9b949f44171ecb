------------------------- MODULE MCDeliveryGateway -------------------------
\* A small instance of DeliveryGateway for TLC.
EXTENDS DeliveryGateway, TLC

CONSTANTS anna, kim, w, k, s1, n1, r1, r2, a1

Roles == (anna :> {}) @@ (kim :> {"courier"})

\* Room requests come from the socket w, reports from k; either may be anybody's.
Senders == [m \in Messages |-> IF m \in RoomRequests THEN w ELSE k]

\* The assignment names Kim.
Named == [a \in Assignments |-> kim]

\* Two reports that differ in one coordinate each from where a new row is.
Lats == (r1 :> 1) @@ (r2 :> 0)
Lngs == (r1 :> 0) @@ (r2 :> 1)
=============================================================================
