\* Two orders competing for scarce stock; one failure of any kind.
CONSTANTS
  m1 = m1  m2 = m2  o1 = o1  o2 = o2  p1 = p1  p2 = p2
  Messages = {m1, m2}
  Malformed = {}
  NoMessage = NoMessage
  Orders = {o1, o2}
  Products = {p1, p2}
  OrderOf <- OwnOrder
  Demand <- CrossDemand
  InitStock <- Scarce
  MAX_ATTEMPTS = 1
  MaxPubs = 6
  Prefetch = 2
  Copies <- Once
  MaxFaults = 1
SPECIFICATION FairSpec
INVARIANTS TypeOK NothingLost StockBalance RecordedMeansProcessed
PROPERTIES ImplementsFulfilment QueueDrains
