\* Two orders for one piece in stock; two failures of any kind.
CONSTANTS
  a = a  b = b  p1 = p1
  Messages = {a, b}
  Malformed = {}
  NoMessage = NoMessage
  Orders = {a, b}
  Products = {p1}
  OrderOf <- Itself
  Demand <- OneEach
  InitStock <- OneInStock
  KeyOf <- OwnKeys
  UINT32 = 4
  BadRefs = {}
  MAX_ATTEMPTS = 1
  MaxPubs = 6
  Prefetch = 2
  Copies <- Once
  MaxFaults = 2
SPECIFICATION FlowFairSpec
INVARIANTS PaidBeforeFulfilled MessageHasOrder
PROPERTIES FlowImplementsFulfilment CreatedSettles
