\* Two assignments and two reports of two couriers, the worker, one failure.
CONSTANTS
  a1 = a1  a2 = a2  u1 = u1  u2 = u2  c1 = c1  c2 = c2
  Assignments = {a1, a2}
  Updates = {u1, u2}
  CourierOf <- TwoCouriers
  Nobody = Nobody
  Lat <- Lats
  Lng <- Lngs
  MaxFaults = 1
SPECIFICATION Spec
INVARIANTS TypeOK FreshSavesLoseNothing SerialHandlersAgree TrackedWasAssigned
