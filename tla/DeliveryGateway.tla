-------------------------- MODULE DeliveryGateway --------------------------
(***************************************************************************)
(* The WebSocket gateway of one order's delivery                           *)
(* (modules/realtime/delivery.gateway.ts): clients connect with a token,   *)
(* subscribe to the order and unsubscribe, couriers report positions,      *)
(* which are stored and sent to the room of the order; and PATCH           *)
(* /orders/:id/courier, which saves the same row of order_tracking.        *)
(*                                                                         *)
(* A socket can send before its token is verified; it has no user then.    *)
(* Each handler runs up to its next await, so requests of one socket can   *)
(* overtake each other.  A socket belongs to one connection: a client that *)
(* connects again has another socket.  socket.io takes a closed socket out *)
(* of its rooms and lets it join none.  A save selects the row, and then   *)
(* inserts it or updates the columns that differ from what it has selected *)
(* (as in CourierTracking, which has the couriers of both rows as well).   *)
(***************************************************************************)
EXTENDS Integers

CONSTANTS
  Sockets,
  Users,         \* users with an account
  RolesOf,       \* the roles in the token of each
  Customer,      \* the user whose order it is
  Subscribes, Unsubscribes, Reports,   \* what clients send
  SocketOf,      \* the socket on which each is sent
  Lat, Lng,      \* the position in each report
  Assignments,   \* requests to assign a courier
  CourierOf,     \* the courier each of them names
  CourierUsers,  \* users to whom the order can be given
  Nobody,        \* no courier
  Nothing,       \* no position, no request
  MaxFaults      \* bound: failing statements and crashes

RoomRequests == Subscribes \union Unsubscribes
Messages == RoomRequests \union Reports
Requests == Messages \union Assignments
Handlers == Reports \union Assignments   \* what saves the tracking row

\* A position; the one that a report names, and that of a new row.
Positions == [lat : Int, lng : Int]
At(m) == [lat |-> Lat[m], lng |-> Lng[m]]
Origin == [lat |-> 0, lng |-> 0]

ASSUME GatewayAssumption ==
  /\ SocketOf \in [Messages -> Sockets]
  /\ "none" \notin Users /\ "forged" \notin Users
  /\ Lat \in [Reports -> Int] /\ Lng \in [Reports -> Int]
  /\ CourierOf \in [Assignments -> CourierUsers]
  /\ Subscribes \intersect Unsubscribes = {}
  /\ RoomRequests \intersect Reports = {}
  /\ Messages \intersect Assignments = {}
  /\ Nothing \notin Requests /\ Nothing \notin Positions
  /\ MaxFaults \in Nat

VARIABLES
  token,         \* what each client connects with: nothing, a forged token or a user's
  conn,          \* each socket: new, verifying its token, attached to a user, closed
  room,          \* the sockets in the order's room
  order,         \* the order's row: there, withdrawn, or inserted again after that
  courier,       \* the courier it is given to
  position,      \* the position in the order's row of order_tracking, if it has one
  pc,            \* where the handler of each request is
  found,         \* the position each assignment has found
  reloaded,      \* the position each save has selected
  last,          \* the report whose position was sent to each socket last
  latest,        \* history: the report that wrote the row last
  wasStored,     \* history: the positions the row has had
  staleSave,     \* history: a save met a position that its handler had not read
  missedRow,     \* history: an update met no row any more
  asked,         \* history: the last request about the room a socket has sent
  pipelined,     \* history: sockets that sent one before the other was answered
  joinedSince,   \* history: sockets that joined since the last event
  overlapped,    \* history: two reports were in progress at once
  faults         \* how many failures have happened

sockets == <<token, conn, room>>
rows == <<order, courier, position>>
copies == <<found, reloaded>>
clients == <<asked, pipelined>>
stores == <<latest, wasStored, staleSave, missedRow>>
history == <<stores, clients, joinedSince, overlapped>>
vars == <<token, conn, room, order, courier, position, pc, found, reloaded, last, latest, wasStored,
          staleSave, missedRow, asked, pipelined, joinedSince, overlapped, faults>>

Labels == {"start", "anonymous", "checking", "read", "updatingOrder", "insertingOrder", "finding",
           "saving", "updating", "inserting", "emitting", "done", "refused"}

\* Every variable has its type.
TypeOK ==
  /\ token \in [Sockets -> Users \union {"none", "forged"}]
  /\ conn \in [Sockets -> {"new", "verifying", "attached", "closed"}]
  /\ room \in SUBSET Sockets
  /\ order \in {"there", "withdrawn", "restored"}
  /\ courier \in CourierUsers \union {Nobody}
  /\ position \in Positions \union {Nothing}
  /\ pc \in [Requests -> Labels]
  /\ found \in [Assignments -> Positions \union {Nothing}]
  /\ reloaded \in [Handlers -> Positions \union {Nothing}]
  /\ last \in [Sockets -> Reports \union {Nothing}]
  /\ latest \in Reports \union {Nothing}
  /\ wasStored \in SUBSET Positions
  /\ staleSave \in BOOLEAN /\ missedRow \in BOOLEAN
  /\ asked \in [Sockets -> RoomRequests \union {Nothing}]
  /\ pipelined \in SUBSET Sockets
  /\ joinedSince \in SUBSET Sockets
  /\ overlapped \in BOOLEAN
  /\ faults \in Nat

Init ==
  /\ token \in [Sockets -> Users \union {"none", "forged"}]
  /\ conn = [c \in Sockets |-> "new"]
  /\ room = {}
  /\ order = "there"
  /\ courier = Nobody
  /\ position = Nothing
  /\ pc = [m \in Requests |-> "start"]
  /\ found = [a \in Assignments |-> Nothing]
  /\ reloaded = [h \in Handlers |-> Nothing]
  /\ last = [c \in Sockets |-> Nothing]
  /\ latest = Nothing
  /\ wasStored = {}
  /\ staleSave = FALSE /\ missedRow = FALSE
  /\ asked = [c \in Sockets |-> Nothing]
  /\ pipelined = {} /\ joinedSince = {} /\ overlapped = FALSE
  /\ faults = 0
-----------------------------------------------------------------------------
Open(c) == conn[c] \in {"verifying", "attached"}
InProgress(m) == pc[m] \notin {"start", "done", "refused"}
Goto(m, label) == pc' = [pc EXCEPT ![m] = label]

\* assertCanAccessOrder: the staff, and the customer.
MayWatch(c) == token[c] = Customer \/ "staff" \in RolesOf[token[c]]

Close(c) ==
  /\ conn' = [conn EXCEPT ![c] = "closed"]
  /\ room' = room \ {c}

\* handleConnection up to the verification, which is awaited.
Connect(c) ==
  /\ conn[c] = "new"
  /\ conn' = [conn EXCEPT ![c] = IF token[c] = "none" THEN "closed" ELSE "verifying"]
  /\ UNCHANGED <<token, room, rows, pc, copies, last, history, faults>>

\* (mutant) The error is logged, and the socket stays.
VerifyLenient(c) ==
  /\ conn[c] = "verifying"
  /\ conn' = [conn EXCEPT ![c] = IF token[c] \in Users THEN "attached" ELSE "verifying"]
  /\ UNCHANGED <<token, room, rows, pc, copies, last, history, faults>>

\* The rest of it: the user is attached, or the socket disconnected.
Verify(c) ==
  /\ conn[c] = "verifying"
  /\ IF token[c] \in Users
       THEN conn' = [conn EXCEPT ![c] = "attached"] /\ room' = room
       ELSE Close(c)
  /\ UNCHANGED <<token, rows, pc, copies, last, history, faults>>

\* The client goes, or the network.
Disconnect(c) ==
  /\ Open(c)
  /\ Close(c)
  /\ UNCHANGED <<token, rows, pc, copies, last, history, faults>>
-----------------------------------------------------------------------------
\* A request about the room arrives, after those its socket sent before.
Asks(m) ==
  LET c == SocketOf[m]
  IN  /\ pc[m] = "start"
      /\ Open(c)
      /\ asked' = [asked EXCEPT ![c] = m]
      /\ pipelined' = IF \E n \in RoomRequests : SocketOf[n] = c /\ InProgress(n)
                        THEN pipelined \union {c} ELSE pipelined

\* subscribeOrder up to canSubscribeToOrder.
Subscribe(m) ==
  /\ m \in Subscribes
  /\ Asks(m)
  /\ Goto(m, IF conn[SocketOf[m]] = "attached" THEN "checking" ELSE "anonymous")
  /\ UNCHANGED <<sockets, rows, copies, last, stores, joinedSince, overlapped, faults>>

\* (mutant) The user is put into the room, not the socket.
JoinUser(m) ==
  LET c == SocketOf[m]
      allowed == pc[m] = "checking" /\ order # "withdrawn" /\ MayWatch(c)
  IN  /\ m \in Subscribes /\ pc[m] \in {"checking", "anonymous"}
      /\ Goto(m, IF allowed THEN "done" ELSE "refused")
      /\ IF allowed /\ conn[c] = "attached"
           THEN room' = room \union {token[c]} /\ joinedSince' = joinedSince \union {c}
           ELSE UNCHANGED <<room, joinedSince>>
      /\ UNCHANGED <<token, conn, rows, copies, last, stores, clients, overlapped, faults>>

\* (mutant) Who the user is is not looked at.
JoinUnchecked(m) ==
  LET c == SocketOf[m]
  IN  /\ m \in Subscribes /\ pc[m] \in {"checking", "anonymous"}
      /\ Goto(m, IF order # "withdrawn" THEN "done" ELSE "refused")
      /\ IF order # "withdrawn" /\ conn[c] = "attached"
           THEN room' = room \union {c} /\ joinedSince' = joinedSince \union {c}
           ELSE UNCHANGED <<room, joinedSince>>
      /\ UNCHANGED <<token, conn, rows, copies, last, stores, clients, overlapped, faults>>

\* What the order's row says.  Without a user the access check throws.
Join(m) ==
  LET c == SocketOf[m]
      allowed == pc[m] = "checking" /\ order # "withdrawn" /\ MayWatch(c)
  IN  /\ m \in Subscribes /\ pc[m] \in {"checking", "anonymous"}
      /\ Goto(m, IF allowed THEN "done" ELSE "refused")
      /\ IF allowed /\ conn[c] = "attached"
           THEN room' = room \union {c} /\ joinedSince' = joinedSince \union {c}
           ELSE UNCHANGED <<room, joinedSince>>
      /\ UNCHANGED <<token, conn, rows, copies, last, stores, clients, overlapped, faults>>

\* (mutant) It is answered, but the socket stays in the room.
UnsubscribeNot(m) ==
  /\ m \in Unsubscribes
  /\ Asks(m)
  /\ Goto(m, "done")
  /\ UNCHANGED <<sockets, rows, copies, last, stores, joinedSince, overlapped, faults>>

\* unsubscribeOrder awaits nothing and asks for no user.
Unsubscribe(m) ==
  /\ m \in Unsubscribes
  /\ Asks(m)
  /\ Goto(m, "done")
  /\ room' = room \ {SocketOf[m]}
  /\ UNCHANGED <<token, conn, rows, copies, last, stores, joinedSince, overlapped, faults>>
-----------------------------------------------------------------------------
\* courier_location_update: only from a user with the role of a courier.
Report(m) ==
  /\ m \in Reports
  /\ pc[m] = "start" /\ Open(SocketOf[m])
  /\ Goto(m, IF conn[SocketOf[m]] = "attached" /\ "courier" \in RolesOf[token[SocketOf[m]]]
               THEN "checking" ELSE "refused")
  /\ overlapped' = (overlapped \/ \E n \in Reports : InProgress(n))
  /\ UNCHANGED <<sockets, rows, copies, last, stores, clients, joinedSince, faults>>

\* isCourierAssignedToOrder, then the coordinates: in any report one of them
\* may be no number.
CheckReport(m) ==
  /\ m \in Reports /\ pc[m] = "checking"
  /\ \/ courier = token[SocketOf[m]] /\ Goto(m, "saving")
     \/ Goto(m, "refused")
  /\ UNCHANGED <<sockets, rows, copies, last, history, faults>>
-----------------------------------------------------------------------------
\* getOrderById: 404 if there is no order.
ReadOrder(a) ==
  /\ a \in Assignments /\ pc[a] = "start"
  /\ Goto(a, IF order = "withdrawn" THEN "refused" ELSE "read")
  /\ UNCHANGED <<sockets, rows, copies, last, history, faults>>

\* setOrderCourierId's save: an order that has the courier keeps it, and one
\* that is gone by now is going to be inserted.
ReloadOrder(a) ==
  /\ pc[a] = "read"
  /\ Goto(a, IF order = "withdrawn" THEN "insertingOrder"
             ELSE IF courier = CourierOf[a] THEN "finding" ELSE "updatingOrder")
  /\ UNCHANGED <<sockets, rows, copies, last, history, faults>>

\* Of an order that is gone it updates nothing.
UpdateOrder(a) ==
  /\ pc[a] = "updatingOrder"
  /\ Goto(a, "finding")
  /\ courier' = IF order = "withdrawn" THEN courier ELSE CourierOf[a]
  /\ UNCHANGED <<sockets, order, position, copies, last, history, faults>>

\* It fails if another has inserted it, or its customer is gone as well.
InsertOrder(a) ==
  /\ pc[a] = "insertingOrder"
  /\ \/ /\ order = "withdrawn"
        /\ order' = "restored" /\ courier' = CourierOf[a]
        /\ Goto(a, "finding")
     \/ Goto(a, "refused") /\ UNCHANGED <<order, courier>>
  /\ UNCHANGED <<sockets, position, copies, last, history, faults>>

\* OrderTrackingService.assignCourier reads the tracking row.
FindTracking(a) ==
  /\ pc[a] = "finding"
  /\ Goto(a, "saving")
  /\ found' = [found EXCEPT ![a] = position]
  /\ UNCHANGED <<sockets, rows, reloaded, last, history, faults>>

\* The position of the entity that a handler saves.  What a report finds does
\* not matter, for it sets both coordinates.
Entity(h) == IF h \in Reports THEN At(h) ELSE IF found[h] = Nothing THEN Origin ELSE found[h]

Merged(entity, before, row) ==
  [lat |-> IF entity.lat # before.lat THEN entity.lat ELSE row.lat,
   lng |-> IF entity.lng # before.lng THEN entity.lng ELSE row.lng]

\* (mutant) The room is told before the position is stored.
ReloadUnawaited(h) ==
  /\ pc[h] = "saving"
  /\ Goto(h, IF h \in Reports THEN "emitting" ELSE "done")
  /\ UNCHANGED <<sockets, rows, copies, last, history, faults>>

\* The first statement of save.
Reload(h) ==
  /\ pc[h] = "saving"
  /\ Goto(h, IF position = Nothing THEN "inserting" ELSE "updating")
  /\ reloaded' = [reloaded EXCEPT ![h] = position]
  /\ staleSave' = (staleSave \/ (h \in Assignments /\ position # found[h]))
  /\ UNCHANGED <<sockets, rows, found, last, latest, wasStored, missedRow, clients, joinedSince,
                 overlapped, faults>>

\* The row is written, and the handler has no more use for its copies.
Store(h, to) ==
  /\ position' = to
  /\ wasStored' = wasStored \union {to}
  /\ latest' = IF h \in Reports THEN h ELSE latest
Drop(h) ==
  /\ found' = [a \in Assignments |-> IF a = h THEN Nothing ELSE found[a]]
  /\ reloaded' = [reloaded EXCEPT ![h] = Nothing]
AfterSave(h) == Goto(h, IF h \in Reports THEN "emitting" ELSE "done")

\* UPDATE of the columns that differed; the handler goes on if no row is left.
Update(h) ==
  /\ pc[h] = "updating"
  /\ AfterSave(h)
  /\ IF position = Nothing THEN UNCHANGED <<position, wasStored, latest>>
     ELSE Store(h, Merged(Entity(h), reloaded[h], position))
  /\ Drop(h)
  /\ staleSave' = (staleSave \/ position # reloaded[h])
  /\ missedRow' = (missedRow \/ position = Nothing)
  /\ UNCHANGED <<sockets, order, courier, last, clients, joinedSince, overlapped, faults>>

\* The order's id is the primary key, and refers to the order.
Insert(h) ==
  /\ pc[h] = "inserting"
  /\ IF position = Nothing /\ order # "withdrawn"
       THEN AfterSave(h) /\ Store(h, Entity(h))
       ELSE Goto(h, "refused") /\ UNCHANGED <<position, wasStored, latest>>
  /\ Drop(h)
  /\ staleSave' = (staleSave \/ position # Nothing)
  /\ UNCHANGED <<sockets, order, courier, last, missedRow, clients, joinedSince, overlapped, faults>>
-----------------------------------------------------------------------------
\* (mutant) Every socket of the namespace is told.
RecipientsAll(m) == {c \in Sockets : Open(c)}
\* (mutant) Only the sender is told.
RecipientsSender(m) == {c \in {SocketOf[m]} : Open(c)}
\* The room, and the courier who has reported.
Recipients(m) == room \union {c \in {SocketOf[m]} : Open(c)}

\* After fetchSockets has answered; the event names the position of the entity.
Emit(m) ==
  /\ pc[m] = "emitting"
  /\ Goto(m, "done")
  /\ last' = [c \in Sockets |-> IF c \in Recipients(m) THEN m ELSE last[c]]
  /\ joinedSince' = {}
  /\ UNCHANGED <<sockets, rows, copies, stores, clients, overlapped, faults>>
-----------------------------------------------------------------------------
\* The worker's save of the order may put back the courier it has read; which
\* one that is stays open here.
WorkerSaves(u) ==
  /\ order = "there"
  /\ courier' = u
  /\ UNCHANGED <<sockets, order, position, pc, copies, last, history, faults>>

\* createOrder's rollback; order_tracking goes with the order.
Withdraw ==
  /\ order = "there"
  /\ order' = "withdrawn" /\ courier' = Nobody /\ position' = Nothing /\ latest' = Nothing
  /\ UNCHANGED <<sockets, pc, copies, last, wasStored, staleSave, missedRow, clients, joinedSince,
                 overlapped, faults>>

Fault == faults < MaxFaults /\ faults' = faults + 1

\* A statement of a handler fails, or its answer is lost: behind a write that
\* was done the handler is one label further.
StatementFails(m) ==
  /\ InProgress(m)
  /\ Fault
  /\ Goto(m, "refused")
  /\ UNCHANGED <<sockets, rows, copies, last, history>>

\* The process ends, and with it every socket and handler.
Crash ==
  /\ Fault
  /\ conn' = [c \in Sockets |-> IF Open(c) THEN "closed" ELSE conn[c]]
  /\ room' = {}
  /\ pc' = [m \in Requests |-> IF InProgress(m) THEN "refused" ELSE pc[m]]
  /\ UNCHANGED <<token, rows, copies, last, history>>

Quiet == \A m \in Requests : ~InProgress(m)
Done == Quiet /\ UNCHANGED vars

Tell(m) == Subscribe(m) \/ Join(m) \/ Unsubscribe(m) \/ Report(m) \/ CheckReport(m) \/ Emit(m)
Assign(a) == ReadOrder(a) \/ ReloadOrder(a) \/ UpdateOrder(a) \/ InsertOrder(a) \/ FindTracking(a)
Save(h) == Reload(h) \/ Update(h) \/ Insert(h)

Next ==
  \/ \E c \in Sockets : Connect(c) \/ Verify(c) \/ Disconnect(c)
  \/ \E m \in Messages : Tell(m)
  \/ \E a \in Assignments : Assign(a)
  \/ \E h \in Handlers : Save(h)
  \/ \E m \in Requests : StatementFails(m)
  \/ \E u \in CourierUsers \union {Nobody} : WorkerSaves(u)
  \/ Withdraw \/ Crash \/ Done

Spec == Init /\ [][Next]_vars

\* The event loop runs a handler whose await has been answered.
FairSpec == Spec /\ \A c \in Sockets : WF_vars(Verify(c))
-----------------------------------------------------------------------------
\* Only sockets of the staff and of the customer, with a verified token, are
\* ever in the room: what happens before the user is attached, after it has
\* gone, and between the check and the join lets nobody else in.
WatchersMayWatch ==
  \A c \in room : conn[c] = "attached" /\ token[c] \in Users /\ MayWatch(c)

\* A position is sent to those who may watch the order and to the courier
\* who has reported it, also when the order is given to another meanwhile.
EventsAddressed ==
  \A c \in Sockets : last[c] # Nothing =>
    /\ token[c] \in Users
    /\ MayWatch(c) \/ SocketOf[last[c]] = c

\* A position is stored before clients are shown it: both its coordinates are,
\* however reports and assignments mix in the row, unless an update found the
\* row gone; and they are stored together as long as every save meets the
\* position that its handler has read.
SeenWasStored ==
  \A c \in Sockets : last[c] # Nothing =>
    /\ ~missedRow => /\ \E p \in wasStored : p.lat = Lat[last[c]]
                     /\ \E p \in wasStored : p.lng = Lng[last[c]]
    /\ ~staleSave => At(last[c]) \in wasStored

\* The row has the position of the report that wrote it last, unless a stale
\* save has mixed it or put another back.  As long as reports do not overlap,
\* every socket that was in the room before the last event has been sent that
\* report, if it was handled to its end and no other is being handled, whoever
\* joins, leaves, fails or assigns a courier meanwhile.
WatchersUpToDate ==
  latest # Nothing =>
    /\ ~staleSave => position = At(latest)
    /\ ~overlapped /\ pc[latest] = "done" /\ (\A m \in Reports : ~InProgress(m)) =>
         \A c \in room \ joinedSince : last[c] = latest

\* A socket whose requests about the room were answered one by one is where
\* its last one has asked to be.
RoomFollowsRequests ==
  \A c \in Sockets \ pipelined :
    conn[c] = "attached" /\ asked[c] # Nothing /\ pc[asked[c]] = "done" =>
      (c \in room <=> asked[c] \in Subscribes)

\* A client without a valid token does not stay connected.
StrangersLeave ==
  \A c \in Sockets : token[c] \notin Users => (conn[c] = "verifying" ~> conn[c] = "closed")
=============================================================================
