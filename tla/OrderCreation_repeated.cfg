\* A request and two repetitions of it, one with an amount that wraps to zero;
\* two failures of any kind.
CONSTANTS
  r1 = r1  r2 = r2  r3 = r3
  Requests = {r1, r2, r3}
  None = None
  KeyOf <- OneKey
  AmountOf <- Wrapping
  UINT32 = 4
  BadRefs = {}
  MaxFaults = 2
SPECIFICATION FairSpec
INVARIANTS TypeOK PublishedOnce PublishedComplete OnePaymentPerKey RefusalLeavesNothing
  NoStrandedOrder
PROPERTY EveryRequestAnswered
