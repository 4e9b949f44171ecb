\* Does one key mean one order?
CONSTANTS
  r1 = r1  r2 = r2  r3 = r3
  Requests = {r1, r2, r3}
  None = None
  KeyOf <- OneKey
  AmountOf <- Amounts
  UINT32 = 4
  BadRefs = {}
  MaxFaults = 0
SPECIFICATION Spec
INVARIANT SameKeySameOrder
