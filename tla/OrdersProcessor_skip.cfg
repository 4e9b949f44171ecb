\* Two messages for one order: is a processed order left alone?
CONSTANTS
  m1 = m1  m2 = m2  o1 = o1  o2 = o2  p1 = p1  p2 = p2
  Messages = {m1, m2}
  Malformed = {}
  NoMessage = NoMessage
  Orders = {o1, o2}
  Products = {p1, p2}
  OrderOf <- SameOrder
  Demand <- MixedDemand
  InitStock <- Scarce
  MAX_ATTEMPTS = 1
  MaxPubs = 4
  Prefetch = 2
  Copies <- Once
  MaxFaults = 0
SPECIFICATION Spec
PROPERTY ProcessedOrderSkipped
