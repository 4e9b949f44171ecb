\* One assignment beside the worker: does the order keep its courier?
CONSTANTS
  a1 = a1  a2 = a2  u1 = u1  u2 = u2  c1 = c1  c2 = c2
  Assignments = {a1}
  Updates = {}
  CourierOf <- OneCourier
  Nobody = Nobody
  Lat <- Lats
  Lng <- Lngs
  MaxFaults = 0
SPECIFICATION Spec
INVARIANT AssignmentKept
