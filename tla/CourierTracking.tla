-------------------------- MODULE CourierTracking --------------------------
(***************************************************************************)
(* One order's row and its row of order_tracking, and the handlers that    *)
(* save entities of them: PATCH /orders/:id/courier, the delivery          *)
(* gateway's courier_location_update, the worker, and createOrder, which   *)
(* may still withdraw the order.  No step relates the rows of two orders.  *)
(*                                                                         *)
(* TypeORM's save(entity) is two statements: it selects the row again, and *)
(* then updates the columns in which the entity differs from what it has   *)
(* just selected; if there was no row it inserts the entity.  The entity   *)
(* itself was read earlier, so a column that somebody changed in the       *)
(* meantime differs too, and is set back.                                  *)
(***************************************************************************)
EXTENDS Naturals, FiniteSets

CONSTANTS
  Assignments,   \* requests to assign a courier
  Updates,       \* reports of a position
  CourierOf,     \* the courier of each assignment and of each report
  Nobody,        \* no courier
  Lat, Lng,      \* the position in each report
  MaxFaults      \* bound: failing statements and crashes

Handlers == Assignments \union Updates \union {"worker"}

ASSUME TrackingAssumption ==
  /\ "worker" \notin Assignments \union Updates
  /\ Assignments \intersect Updates = {}
  /\ \A h \in Assignments \union Updates : CourierOf[h] # Nobody
  /\ MaxFaults \in Nat

VARIABLES
  order,         \* the order row
  tracking,      \* the tracking row
  creation,      \* how far createOrder is with the order
  pc,            \* where each handler is
  seen,          \* the row each handler has read last
  changed,       \* the columns its update is going to set
  assigned,      \* history: the courier whom an assignment wrote last
  staleSave,     \* history: a save met a row that its handler had not seen
  overlapped,    \* history: a handler started before another had ended
  faults         \* how many failures have happened

tables == <<order, tracking>>
history == <<assigned, staleSave, overlapped>>
vars == <<order, tracking, creation, pc, seen, changed, assigned, staleSave,
          overlapped, faults>>

NoOrder == [status |-> "ABSENT", courier |-> Nobody, payment |-> FALSE]
NoTracking == [courier |-> Nobody, lat |-> "none", lng |-> "none"]

Couriers == {CourierOf[h] : h \in Assignments \union Updates}
\* payment: does the row name its payment?
OrderRows ==
  [status : {"PENDING", "PROCESSED"}, courier : Couriers \union {Nobody}, payment : BOOLEAN]
TrackingRows ==
  [courier : Couriers \union {Nobody},
   lat : {Lat[u] : u \in Updates} \union {"0", "none"},
   lng : {Lng[u] : u \in Updates} \union {"0", "none"}]

Columns == {"status", "courier", "payment", "lat", "lng"}

Labels == {"start", "read", "update", "insert", "find", "found", "updateTracking",
           "insertTracking", "done", "refused", "failed"}

\* Every variable has its type.
TypeOK ==
  /\ order \in OrderRows \union {NoOrder}
  /\ tracking \in TrackingRows
  /\ creation \in {"unpaid", "paid", "withdrawn", "published", "aborted"}
  /\ pc \in [Handlers -> Labels]
  /\ seen \in [Handlers -> OrderRows \union {NoOrder} \union TrackingRows]
  /\ changed \in [Handlers -> SUBSET Columns]
  /\ assigned \in Couriers \union {Nobody}
  /\ staleSave \in BOOLEAN /\ overlapped \in BOOLEAN
  /\ faults \in Nat

Init ==
  /\ order = [NoOrder EXCEPT !.status = "PENDING"]
  /\ tracking = NoTracking
  /\ creation = "unpaid"
  /\ pc = [h \in Handlers |-> "start"]
  /\ seen = [h \in Handlers |-> NoOrder]
  /\ changed = [h \in Handlers |-> {}]
  /\ assigned = Nobody
  /\ staleSave = FALSE /\ overlapped = FALSE
  /\ faults = 0
-----------------------------------------------------------------------------
\* What save computes from the entity and the row it selects, and does.
Differing(entity, row) == {c \in DOMAIN row : entity[c] # row[c]}
Merged(entity, row, columns) ==
  [c \in DOMAIN row |-> IF c \in columns THEN entity[c] ELSE row[c]]

InProgress(h) == pc[h] \notin {"start", "done", "refused", "failed"}

Goto(h, label) == pc' = [pc EXCEPT ![h] = label]

Starts(h) ==
  /\ pc[h] = "start"
  /\ overlapped' = (overlapped \/ \E g \in Handlers : InProgress(g))
  /\ UNCHANGED <<assigned, staleSave>>

\* The handler has no more use for the row it has read.
Drops(h) == seen' = [seen EXCEPT ![h] = NoOrder] /\ changed' = [changed EXCEPT ![h] = {}]

\* A statement of save finds the row as it is now.
Meets(h, row) == staleSave' = (staleSave \/ row # seen[h])

\* (mutant) The worker saves an order without a courier.
OrderEntityUnassigned(h) ==
  IF h = "worker" THEN [seen[h] EXCEPT !.status = "PROCESSED", !.courier = Nobody]
  ELSE [seen[h] EXCEPT !.courier = CourierOf[h]]

\* (mutant) The status is the column's default.
OrderEntityDefault(h) ==
  IF h = "worker" THEN [seen[h] EXCEPT !.status = "PROCESSED"]
  ELSE [seen[h] EXCEPT !.status = "CREATED", !.courier = CourierOf[h]]

\* The order as the worker and setOrderCourierId change it in memory.
OrderEntity(h) ==
  IF h = "worker" THEN [seen[h] EXCEPT !.status = "PROCESSED"]
  ELSE [seen[h] EXCEPT !.courier = CourierOf[h]]

\* (mutant) Only a new tracking row gets the courier.
TrackingEntityKeepsCourier(h) ==
  LET known == IF seen[h] = NoTracking
                 THEN [courier |-> CourierOf[h], lat |-> "0", lng |-> "0"]
                 ELSE seen[h]
  IN  IF h \in Updates THEN [known EXCEPT !.lat = Lat[h], !.lng = Lng[h]] ELSE known

\* The tracking entity: a new one is at 0, 0 until somebody reports.
TrackingEntity(h) ==
  LET known == IF seen[h] = NoTracking THEN [NoTracking EXCEPT !.lat = "0", !.lng = "0"]
                                       ELSE seen[h]
      named == [known EXCEPT !.courier = CourierOf[h]]
  IN  IF h \in Updates THEN [named EXCEPT !.lat = Lat[h], !.lng = Lng[h]] ELSE named
-----------------------------------------------------------------------------
\* getOrderById: 404 if there is no order.
ReadOrder(a) ==
  /\ a \in Assignments
  /\ Starts(a)
  /\ IF order = NoOrder
       THEN Goto(a, "refused") /\ UNCHANGED seen
       ELSE Goto(a, "read") /\ seen' = [seen EXCEPT ![a] = order]
  /\ UNCHANGED <<tables, creation, changed, faults>>

\* The worker reads the order once its message is published, and is done
\* with it if it has been processed.
WorkerReadsOrder ==
  /\ creation = "published"
  /\ Starts("worker")
  /\ IF order.status = "PROCESSED"
       THEN Goto("worker", "done") /\ UNCHANGED seen
       ELSE Goto("worker", "read") /\ seen' = [seen EXCEPT !["worker"] = order]
  /\ UNCHANGED <<tables, creation, changed, faults>>

ReloadOrder(h) ==
  /\ pc[h] = "read"
  /\ Goto(h, IF order = NoOrder THEN "insert" ELSE "update")
  /\ changed' = [changed EXCEPT ![h] = Differing(OrderEntity(h), order)]
  /\ Meets(h, order)
  /\ UNCHANGED <<tables, creation, seen, assigned, overlapped, faults>>

AfterOrder(h) == Goto(h, IF h = "worker" THEN "done" ELSE "find")

\* UPDATE ... WHERE id: of a row that is gone by now it changes nothing.
UpdateOrder(h) ==
  /\ pc[h] = "update"
  /\ order' = IF order = NoOrder THEN order ELSE Merged(OrderEntity(h), order, changed[h])
  /\ AfterOrder(h)
  /\ Meets(h, order)
  /\ assigned' = IF h \in Assignments THEN CourierOf[h] ELSE assigned
  /\ Drops(h)
  /\ UNCHANGED <<tracking, creation, overlapped, faults>>

InsertOrder(h) ==
  /\ pc[h] = "insert"
  /\ IF order = NoOrder
       THEN order' = OrderEntity(h) /\ AfterOrder(h)
       ELSE order' = order /\ Goto(h, "failed")
  /\ Meets(h, order)
  /\ assigned' = IF order = NoOrder THEN CourierOf[h] ELSE assigned
  /\ Drops(h)
  /\ UNCHANGED <<tracking, creation, overlapped, faults>>

\* (mutant) Any courier may report for any order.
CheckCourierOpen(u) ==
  /\ u \in Updates
  /\ Starts(u)
  /\ Goto(u, IF order # NoOrder THEN "find" ELSE "refused")
  /\ UNCHANGED <<tables, creation, seen, changed, faults>>

\* isCourierAssignedToOrder, before the update and apart from it.
CheckCourier(u) ==
  /\ u \in Updates
  /\ Starts(u)
  /\ Goto(u, IF order.courier = CourierOf[u] THEN "find" ELSE "refused")
  /\ UNCHANGED <<tables, creation, seen, changed, faults>>

FindTracking(h) ==
  /\ pc[h] = "find"
  /\ Goto(h, "found")
  /\ seen' = [seen EXCEPT ![h] = tracking]
  /\ UNCHANGED <<tables, creation, changed, history, faults>>

ReloadTracking(h) ==
  /\ pc[h] = "found"
  /\ Goto(h, IF tracking = NoTracking THEN "insertTracking" ELSE "updateTracking")
  /\ changed' = [changed EXCEPT ![h] = Differing(TrackingEntity(h), tracking)]
  /\ Meets(h, tracking)
  /\ UNCHANGED <<tables, creation, seen, assigned, overlapped, faults>>

UpdateTracking(h) ==
  /\ pc[h] = "updateTracking"
  /\ tracking' = IF tracking = NoTracking THEN tracking
                 ELSE Merged(TrackingEntity(h), tracking, changed[h])
  /\ Goto(h, "done")
  /\ Meets(h, tracking)
  /\ Drops(h)
  /\ UNCHANGED <<order, creation, assigned, overlapped, faults>>

\* order_id is the primary key, and refers to the order.
InsertTracking(h) ==
  /\ pc[h] = "insertTracking"
  /\ IF tracking = NoTracking /\ order # NoOrder
       THEN tracking' = TrackingEntity(h) /\ Goto(h, "done")
       ELSE tracking' = tracking /\ Goto(h, "failed")
  /\ Meets(h, tracking)
  /\ Drops(h)
  /\ UNCHANGED <<order, creation, assigned, overlapped, faults>>
-----------------------------------------------------------------------------
\* createOrder's rollback deletes the order, and with it the tracking row.
Withdraw ==
  /\ creation = "unpaid"
  /\ creation' = "withdrawn"
  /\ order' = NoOrder /\ tracking' = NoTracking
  /\ UNCHANGED <<pc, seen, changed, history, faults>>

\* The payment id is written by an UPDATE of that column, not by save.
LinkPayment ==
  /\ creation = "unpaid"
  /\ creation' = "paid"
  /\ order' = [order EXCEPT !.payment = TRUE]
  /\ UNCHANGED <<tracking, pc, seen, changed, history, faults>>

PublishOrder ==
  /\ creation = "paid"
  /\ creation' = "published"
  /\ UNCHANGED <<tables, pc, seen, changed, history, faults>>

Fault == faults < MaxFaults /\ faults' = faults + 1

\* A statement fails: a request is answered 500, the message is retried.
StatementFails(h) ==
  /\ InProgress(h)
  /\ Fault
  /\ Goto(h, IF h = "worker" THEN "start" ELSE "failed")
  /\ UNCHANGED <<tables, creation, seen, changed, history>>

\* The process ends and is started again; the broker redelivers.
Crash ==
  /\ Fault
  /\ pc' = [h \in Handlers |-> IF ~InProgress(h) THEN pc[h]
                               ELSE IF h = "worker" THEN "start" ELSE "failed"]
  /\ creation' = IF creation \in {"unpaid", "paid"} THEN "aborted" ELSE creation
  /\ UNCHANGED <<tables, seen, changed, history>>

Quiet == \A h \in Handlers : ~InProgress(h)
Done == Quiet /\ UNCHANGED vars

Handle(h) ==
  \/ ReadOrder(h) \/ CheckCourier(h) \/ ReloadOrder(h) \/ UpdateOrder(h)
  \/ InsertOrder(h) \/ FindTracking(h) \/ ReloadTracking(h) \/ UpdateTracking(h)
  \/ InsertTracking(h)

Next ==
  \/ \E h \in Handlers : Handle(h) \/ StatementFails(h)
  \/ WorkerReadsOrder \/ Withdraw \/ LinkPayment \/ PublishOrder \/ Crash \/ Done

Spec == Init /\ [][Next]_vars
-----------------------------------------------------------------------------
\* However the handlers interleave, as long as every save meets the row that
\* its handler has read, nothing of the order is lost: it is PROCESSED once
\* the worker is done, names its payment once that is linked, has the
\* courier assigned last, and stays withdrawn; and the position is one that
\* a courier has reported.
FreshSavesLoseNothing ==
  ~staleSave =>
    /\ pc["worker"] = "done" => order.status = "PROCESSED"
    /\ creation \in {"paid", "published"} => order.payment
    /\ order # NoOrder => order.courier = assigned
    /\ creation = "withdrawn" => order = NoOrder
    /\ tracking # NoTracking =>
         \/ tracking.lat = "0" /\ tracking.lng = "0"
         \/ \E u \in Updates : tracking.lat = Lat[u] /\ tracking.lng = Lng[u]

\* Requests that are handled one after the other, without failures, leave
\* the order and its tracking row with the same courier.
SerialHandlersAgree ==
  Quiet /\ ~overlapped /\ faults = 0 /\ tracking # NoTracking =>
    tracking.courier = order.courier

\* The tracking row never names a courier to whom nobody gave the order,
\* whatever is lost or overwritten.
TrackedWasAssigned ==
  tracking.courier # Nobody =>
    \E a \in Assignments : /\ CourierOf[a] = tracking.courier
                           /\ pc[a] \notin {"start", "read", "update", "insert", "refused"}

\* "Courier assigned" (orders.controller.ts:87): after the answer the order
\* has the courier, until somebody assigns another.
AssignmentKept ==
  \A a \in Assignments :
    /\ pc[a] = "done" /\ creation = "published"
    /\ \A b \in Assignments \ {a} : pc[b] = "start"
    => order.courier = CourierOf[a]
=============================================================================
