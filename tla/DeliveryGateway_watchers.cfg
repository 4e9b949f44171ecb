\* A customer, a courier and a stranger; one failure.
CONSTANTS
  anna = anna  kim = kim  w = w  k = k
  s1 = s1  n1 = n1  r1 = r1  r2 = r2  a1 = a1
  Sockets = {w, k}
  Users = {anna, kim}
  RolesOf <- Roles
  Customer = anna
  Subscribes = {s1}
  Unsubscribes = {n1}
  Reports = {r1, r2}
  SocketOf <- Senders
  Lat <- Lats
  Lng <- Lngs
  Assignments = {a1}
  CourierOf <- Named
  CourierUsers = {kim}
  Nobody = Nobody
  Nothing = Nothing
  MaxFaults = 1
SPECIFICATION FairSpec
INVARIANTS TypeOK WatchersMayWatch EventsAddressed SeenWasStored WatchersUpToDate
  RoomFollowsRequests
PROPERTY StrangersLeave
