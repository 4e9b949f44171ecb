\* A readable and an unreadable message, the first published twice; one failure.
CONSTANTS
  m1 = m1  m2 = m2  o1 = o1  o2 = o2  p1 = p1  p2 = p2
  Messages = {m1, m2}
  Malformed = {m2}
  NoMessage = NoMessage
  Orders = {o1, o2}
  Products = {p1, p2}
  OrderOf <- OwnOrder
  Demand <- MixedDemand
  InitStock <- Scarce
  MAX_ATTEMPTS = 1
  MaxPubs = 7
  Prefetch = 2
  Copies <- M1Twice
  MaxFaults = 1
SPECIFICATION Spec
INVARIANTS DeductedOnce DeadLetterJustified
