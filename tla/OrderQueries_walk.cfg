\* Two orders and a new one between them, two assignments, pages of one or two.
CONSTANTS
  o1 = o1  o2 = o2  o3 = o3  kim = kim  lee = lee  a1 = a1  a2 = a2
  Orders = {o1, o2, o3}
  CreatedAt <- Places
  CustomerOf <- Customers
  ItemCount <- Counts
  Present = {o1, o3}
  Filters <- Lists
  Assignments = {a1, a2}
  Limits = {1, 2}
  FirstPages = {1}
  NoUser = NoUser
SPECIFICATION Spec
SYMMETRY Symmetry
INVARIANTS TypeOK MissesOnlyForLeavers ListedComplete
