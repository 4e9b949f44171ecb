----------------------- MODULE CourierTrackingProofs -----------------------
(***************************************************************************)
(* Theorems about CourierTracking, for any requests, couriers, reports and *)
(* number of failures: types, FreshSavesLoseNothing, TrackedWasAssigned,   *)
(* SerialHandlersAgree.                                                    *)
(*                                                                         *)
(* FreshSavesLoseNothing is not inductive: that a save loses nothing       *)
(* depends on what its handler read (SeenByPhase) and on which columns it  *)
(* found different (ExactUpdates), and the worker has nothing to do before *)
(* the order is published (WorkerWaits).  TrackedWasAssigned also needs to *)
(* know where the courier in every copy of a row comes from                *)
(* (CouriersGivenOut).  SerialHandlersAgree says nothing of the time while *)
(* a handler is under way: what it has read, has saved and is going to     *)
(* save has to name the right courier (SavesInTurn).                       *)
(***************************************************************************)
EXTENDS CourierTracking, TLAPS

OrderPhases == {"read", "update", "insert"}
TrackingPhases == {"found", "updateTracking", "insertTracking"}

\* The worker reads the order after its publication, and finds it: only
\* createOrder's rollback deletes an order.
WorkerWaits ==
  /\ creation # "withdrawn" => order # NoOrder
  /\ pc["worker"] \in {"start", "read", "update", "done"}
  /\ pc["worker"] # "start" => creation = "published"

\* A report needs no order entity.
ReportersReadNoOrder == \A u \in Updates : pc[u] \notin OrderPhases

SeenByPhase ==
  \A h \in Handlers :
    /\ pc[h] \in OrderPhases => seen[h] \in OrderRows
    /\ pc[h] \in TrackingPhases => seen[h] \in TrackingRows

\* What the rows may contain while no save has met a row unseen.
OrderIntact ==
  /\ pc["worker"] = "done" => order.status = "PROCESSED"
  /\ creation \in {"paid", "published"} => order.payment
  /\ order # NoOrder => order.courier = assigned
  /\ creation = "withdrawn" => order = NoOrder

ReportedPosition(row) ==
  \/ row.lat = "0" /\ row.lng = "0"
  \/ \E u \in Updates : row.lat = Lat[u] /\ row.lng = Lng[u]

TrackingIntact == tracking # NoTracking => ReportedPosition(tracking)

ExactUpdates ==
  \A h \in Handlers :
    /\ pc[h] = "update" => changed[h] = Differing(OrderEntity(h), seen[h])
    /\ pc[h] # "insert"
    /\ pc[h] = "updateTracking" =>
         /\ seen[h] # NoTracking
         /\ changed[h] = Differing(TrackingEntity(h), seen[h])
    /\ pc[h] = "insertTracking" => seen[h] = NoTracking

TypeInv == TypeOK /\ WorkerWaits /\ ReportersReadNoOrder /\ SeenByPhase
Fresh == ~staleSave => OrderIntact /\ TrackingIntact /\ ExactUpdates

LEMMA FreshIsTheProperty == Fresh => FreshSavesLoseNothing
BY DEF Fresh, FreshSavesLoseNothing, OrderIntact, TrackingIntact, ReportedPosition
-----------------------------------------------------------------------------
(***************************************************************************)
(* What a save makes of a row.                                             *)
(***************************************************************************)

LEMMA OrderEntityType ==
  ASSUME NEW h \in Handlers, h \in Assignments \union {"worker"}, seen[h] \in OrderRows
  PROVE  /\ OrderEntity(h) \in OrderRows
         /\ OrderEntity(h).status = IF h = "worker" THEN "PROCESSED" ELSE seen[h].status
         /\ OrderEntity(h).courier = IF h = "worker" THEN seen[h].courier ELSE CourierOf[h]
         /\ OrderEntity(h).payment = seen[h].payment
BY DEF OrderEntity, OrderRows, Couriers

LEMMA TrackingEntityType ==
  ASSUME NEW h \in Assignments \union Updates, seen[h] \in TrackingRows
  PROVE  /\ TrackingEntity(h) \in TrackingRows
         /\ TrackingEntity(h) # NoTracking
         /\ h \in Updates => TrackingEntity(h).lat = Lat[h] /\ TrackingEntity(h).lng = Lng[h]
         /\ h \notin Updates /\ seen[h] = NoTracking =>
              TrackingEntity(h).lat = "0" /\ TrackingEntity(h).lng = "0"
         /\ h \notin Updates /\ seen[h] # NoTracking =>
              TrackingEntity(h).lat = seen[h].lat /\ TrackingEntity(h).lng = seen[h].lng
BY TrackingAssumption DEF TrackingEntity, TrackingRows, NoTracking, Couriers

LEMMA MergedOrderType ==
  ASSUME NEW e \in OrderRows, NEW r \in OrderRows, NEW columns
  PROVE  Merged(e, r, columns) \in OrderRows
BY DEF Merged, OrderRows

LEMMA MergedTrackingType ==
  ASSUME NEW e \in TrackingRows, NEW r \in TrackingRows, NEW columns
  PROVE  Merged(e, r, columns) \in TrackingRows
BY DEF Merged, TrackingRows

LEMMA DifferingType ==
  ASSUME NEW e, NEW r \in OrderRows \union {NoOrder} \union TrackingRows
  PROVE  Differing(e, r) \in SUBSET Columns
BY DEF Differing, OrderRows, NoOrder, TrackingRows, Columns

\* An update of the columns that differ makes the row the entity.
LEMMA ExactOrder ==
  ASSUME NEW e \in OrderRows, NEW r \in OrderRows
  PROVE  Merged(e, r, Differing(e, r)) = e
BY DEF Merged, Differing, OrderRows

LEMMA ExactTracking ==
  ASSUME NEW e \in TrackingRows, NEW r \in TrackingRows
  PROVE  Merged(e, r, Differing(e, r)) = e
BY DEF Merged, Differing, TrackingRows
-----------------------------------------------------------------------------
(***************************************************************************)
(* Types, and what each handler has read.                                  *)
(***************************************************************************)

LEMMA TypeInit == Init => TypeInv
<1> SUFFICES ASSUME Init PROVE TypeInv
  OBVIOUS
<1>1. TypeOK
  BY TrackingAssumption DEF Init, TypeOK, OrderRows, TrackingRows, NoOrder, NoTracking,
     Labels, Handlers, Couriers
<1>2. WorkerWaits /\ ReportersReadNoOrder /\ SeenByPhase
  BY DEF Init, WorkerWaits, ReportersReadNoOrder, SeenByPhase, OrderPhases, TrackingPhases,
     Handlers, NoOrder
<1> QED
  BY <1>1, <1>2 DEF TypeInv

LEMMA TypeStep == TypeInv /\ [Next]_vars => TypeInv'
<1> SUFFICES ASSUME TypeInv, [Next]_vars PROVE TypeInv'
  OBVIOUS
<1>0. /\ NoOrder \notin OrderRows /\ NoTracking \in TrackingRows
      /\ "worker" \in Handlers \ Updates /\ Updates \subseteq Handlers
  BY TrackingAssumption DEF NoOrder, OrderRows, NoTracking, TrackingRows, Handlers
<1> USE <1>0 DEF TypeInv, TypeOK, OrderPhases, TrackingPhases, Labels, tables, history, Goto,
         Drops
<1>1. ASSUME NEW a \in Handlers, ReadOrder(a) PROVE TypeInv'
  <2> USE <1>1, TrackingAssumption DEF ReadOrder, Starts
  <2>1. TypeOK'
    OBVIOUS
  <2>2. WorkerWaits' /\ ReportersReadNoOrder'
    BY DEF WorkerWaits, ReportersReadNoOrder
  <2>3. SeenByPhase'
    BY DEF SeenByPhase
  <2> QED
    BY <2>1, <2>2, <2>3
<1>2. CASE WorkerReadsOrder
  <2> USE <1>2 DEF WorkerReadsOrder, Starts
  <2>1. TypeOK'
    OBVIOUS
  <2>2. WorkerWaits' /\ ReportersReadNoOrder'
    BY DEF WorkerWaits, ReportersReadNoOrder
  <2>3. SeenByPhase'
    BY DEF SeenByPhase, WorkerWaits
  <2> QED
    BY <2>1, <2>2, <2>3
<1>3. ASSUME NEW h \in Handlers, ReloadOrder(h) PROVE TypeInv'
  <2> USE <1>3 DEF ReloadOrder, Meets
  <2>1. Differing(OrderEntity(h), order) \in SUBSET Columns
    BY DifferingType
  <2>2. TypeOK'
    BY <2>1
  <2>3. WorkerWaits' /\ ReportersReadNoOrder'
    BY DEF WorkerWaits, ReportersReadNoOrder
  <2>4. SeenByPhase'
    BY DEF SeenByPhase
  <2> QED
    BY <2>2, <2>3, <2>4
<1>4. ASSUME NEW h \in Handlers, UpdateOrder(h) PROVE TypeInv'
  <2>1. h \in Assignments \union {"worker"} /\ seen[h] \in OrderRows
    BY <1>4 DEF UpdateOrder, Handlers, ReportersReadNoOrder, SeenByPhase
  <2>2. OrderEntity(h) \in OrderRows
    BY <2>1, OrderEntityType
  <2>3. order' \in OrderRows \union {NoOrder} /\ (order # NoOrder => order' # NoOrder)
    BY <1>4, <2>2, MergedOrderType DEF UpdateOrder
  <2>4. assigned' \in Couriers \union {Nobody}
    BY <1>4 DEF UpdateOrder, Couriers
  <2>5. TypeOK'
    BY <1>4, <2>3, <2>4 DEF UpdateOrder, AfterOrder, Meets
  <2>6. WorkerWaits' /\ ReportersReadNoOrder'
    BY <1>4, <2>1, <2>3 DEF UpdateOrder, AfterOrder, WorkerWaits, ReportersReadNoOrder
  <2>7. SeenByPhase'
    BY <1>4 DEF UpdateOrder, AfterOrder, SeenByPhase
  <2> QED
    BY <2>5, <2>6, <2>7
<1>5. ASSUME NEW h \in Handlers, InsertOrder(h) PROVE TypeInv'
  <2>1. h \in Assignments /\ h # "worker" /\ seen[h] \in OrderRows
    BY <1>5 DEF InsertOrder, Handlers, WorkerWaits, ReportersReadNoOrder, SeenByPhase
  <2>2. OrderEntity(h) \in OrderRows
    BY <2>1, OrderEntityType
  <2>3. assigned' \in Couriers \union {Nobody}
    BY <1>5, <2>1 DEF InsertOrder, Couriers
  <2>4. TypeOK'
    BY <1>5, <2>1, <2>2, <2>3 DEF InsertOrder, AfterOrder, Meets
  <2>5. WorkerWaits' /\ ReportersReadNoOrder'
    BY <1>5, <2>1, <2>2 DEF InsertOrder, AfterOrder, WorkerWaits, ReportersReadNoOrder
  <2>6. SeenByPhase'
    BY <1>5, <2>1 DEF InsertOrder, AfterOrder, SeenByPhase
  <2> QED
    BY <2>4, <2>5, <2>6
<1>6. ASSUME NEW u \in Handlers, CheckCourier(u) PROVE TypeInv'
  <2> USE <1>6 DEF CheckCourier, Starts
  <2>1. TypeOK'
    OBVIOUS
  <2>2. WorkerWaits' /\ ReportersReadNoOrder'
    BY DEF WorkerWaits, ReportersReadNoOrder
  <2>3. SeenByPhase'
    BY DEF SeenByPhase
  <2> QED
    BY <2>1, <2>2, <2>3
<1>7. ASSUME NEW h \in Handlers, FindTracking(h) PROVE TypeInv'
  <2> USE <1>7 DEF FindTracking
  <2>1. TypeOK'
    OBVIOUS
  <2>2. WorkerWaits' /\ ReportersReadNoOrder'
    BY DEF WorkerWaits, ReportersReadNoOrder
  <2>3. SeenByPhase'
    BY DEF SeenByPhase
  <2> QED
    BY <2>1, <2>2, <2>3
<1>8. ASSUME NEW h \in Handlers, ReloadTracking(h) PROVE TypeInv'
  <2> USE <1>8 DEF ReloadTracking, Meets
  <2>1. Differing(TrackingEntity(h), tracking) \in SUBSET Columns
    BY DifferingType
  <2>2. TypeOK'
    BY <2>1
  <2>3. WorkerWaits' /\ ReportersReadNoOrder'
    BY DEF WorkerWaits, ReportersReadNoOrder
  <2>4. SeenByPhase'
    BY DEF SeenByPhase
  <2> QED
    BY <2>2, <2>3, <2>4
<1>9. ASSUME NEW h \in Handlers, UpdateTracking(h) \/ InsertTracking(h) PROVE TypeInv'
  <2> USE <1>9 DEF UpdateTracking, InsertTracking
  <2>1. h \in Assignments \union Updates /\ h # "worker" /\ seen[h] \in TrackingRows
    BY DEF Handlers, WorkerWaits, SeenByPhase
  <2>2. TrackingEntity(h) \in TrackingRows
    BY <2>1, TrackingEntityType
  <2>3. tracking' \in TrackingRows
    BY <2>2, MergedTrackingType
  <2>4. TypeOK'
    BY <2>3 DEF Meets
  <2>5. WorkerWaits' /\ ReportersReadNoOrder'
    BY <2>1 DEF WorkerWaits, ReportersReadNoOrder
  <2>6. SeenByPhase'
    BY DEF SeenByPhase
  <2> QED
    BY <2>4, <2>5, <2>6
<1>10. CASE Withdraw \/ PublishOrder \/ Done \/ UNCHANGED vars
  BY <1>10 DEF Withdraw, PublishOrder, Done, vars, WorkerWaits, ReportersReadNoOrder,
     SeenByPhase
<1>13. CASE LinkPayment
  <2>1. order \in OrderRows
    BY <1>13 DEF LinkPayment, WorkerWaits
  <2>2. order' \in OrderRows
    BY <1>13, <2>1 DEF LinkPayment, OrderRows
  <2>3. TypeOK'
    BY <1>13, <2>2 DEF LinkPayment
  <2>4. WorkerWaits' /\ ReportersReadNoOrder' /\ SeenByPhase'
    BY <1>13, <2>2 DEF LinkPayment, WorkerWaits, ReportersReadNoOrder, SeenByPhase
  <2> QED
    BY <2>3, <2>4
<1>11. ASSUME NEW h \in Handlers, StatementFails(h) PROVE TypeInv'
  <2> USE <1>11, TrackingAssumption DEF StatementFails, Fault, InProgress
  <2>1. TypeOK'
    OBVIOUS
  <2>2. WorkerWaits' /\ ReportersReadNoOrder'
    BY DEF WorkerWaits, ReportersReadNoOrder
  <2>3. SeenByPhase'
    BY DEF SeenByPhase
  <2> QED
    BY <2>1, <2>2, <2>3
<1>12. CASE Crash
  <2> USE <1>12, TrackingAssumption DEF Crash, Fault, InProgress
  <2>1. TypeOK'
    OBVIOUS
  <2>2. WorkerWaits' /\ ReportersReadNoOrder'
    BY DEF WorkerWaits, ReportersReadNoOrder
  <2>3. SeenByPhase'
    BY DEF SeenByPhase
  <2> QED
    BY <2>1, <2>2, <2>3
<1> QED
  BY <1>1, <1>2, <1>3, <1>4, <1>5, <1>6, <1>7, <1>8, <1>9, <1>10, <1>11, <1>12,
     <1>13 DEF Next, Handle

\* The two rows and every handler's copies keep their types.
THEOREM TrackingTypeCorrect == Spec => []TypeOK
<1>1. Spec => []TypeInv
  BY TypeInit, TypeStep, PTL DEF Spec
<1> QED
  BY <1>1, PTL DEF TypeInv
-----------------------------------------------------------------------------
(***************************************************************************)
(* Saves of rows that their handlers have seen.                            *)
(***************************************************************************)

Intact == OrderIntact /\ TrackingIntact /\ ExactUpdates

LEMMA FreshInit == Init => Fresh
BY DEF Init, Fresh, OrderIntact, TrackingIntact, ExactUpdates, Handlers, NoOrder

\* A fresh update makes the order row the handler's entity.
LEMMA FreshUpdateOrder ==
  ASSUME TypeInv, Intact, NEW h \in Handlers, UpdateOrder(h), ~staleSave'
  PROVE  /\ order = seen[h] /\ order \in OrderRows
         /\ order' = OrderEntity(h)
         /\ order'.status = IF h = "worker" THEN "PROCESSED" ELSE order.status
         /\ order'.courier = IF h = "worker" THEN order.courier ELSE CourierOf[h]
         /\ order'.payment = order.payment
<1>1. order = seen[h] /\ seen[h] \in OrderRows /\ h \in Assignments \union {"worker"}
  BY DEF UpdateOrder, Meets, TypeInv, SeenByPhase, ReportersReadNoOrder, OrderPhases, Handlers
<1>2. OrderEntity(h) \in OrderRows
  BY <1>1, OrderEntityType
<1>3. changed[h] = Differing(OrderEntity(h), order)
  BY <1>1 DEF Intact, ExactUpdates, UpdateOrder
<1>4. order # NoOrder
  BY <1>1 DEF OrderRows, NoOrder
<1>5. order' = Merged(OrderEntity(h), order, Differing(OrderEntity(h), order))
  BY <1>3, <1>4 DEF UpdateOrder
<1>6. order' = OrderEntity(h)
  BY <1>1, <1>2, <1>5, ExactOrder
<1> QED
  BY <1>1, <1>6, OrderEntityType

\* A fresh save of the tracking row makes it the handler's entity.
LEMMA FreshSaveTracking ==
  ASSUME TypeInv, Intact, NEW h \in Handlers, UpdateTracking(h) \/ InsertTracking(h),
         ~staleSave'
  PROVE  TrackingIntact'
<1>1. /\ tracking = seen[h] /\ seen[h] \in TrackingRows
      /\ h \in Assignments \union Updates
  BY DEF UpdateTracking, InsertTracking, Meets, TypeInv, SeenByPhase, WorkerWaits,
     TrackingPhases, Handlers
<1>2. tracking' \in {tracking, TrackingEntity(h)}
  <2>1. CASE UpdateTracking(h)
    <3>1. tracking # NoTracking /\ changed[h] = Differing(TrackingEntity(h), tracking)
      BY <2>1, <1>1 DEF Intact, ExactUpdates, UpdateTracking
    <3>2. tracking' = Merged(TrackingEntity(h), tracking, Differing(TrackingEntity(h), tracking))
      BY <2>1, <3>1 DEF UpdateTracking
    <3>3. tracking' = TrackingEntity(h)
      BY <1>1, <3>2, TrackingEntityType, ExactTracking
    <3> QED
      BY <3>3
  <2>2. CASE InsertTracking(h)
    BY <2>2 DEF InsertTracking
  <2> QED
    BY <2>1, <2>2
<1>3. ReportedPosition(TrackingEntity(h))
  <2>1. CASE h \in Updates
    BY <1>1, <2>1, TrackingEntityType DEF ReportedPosition
  <2>2. CASE h \notin Updates /\ seen[h] = NoTracking
    BY <1>1, <2>2, TrackingEntityType DEF ReportedPosition
  <2>3. CASE h \notin Updates /\ seen[h] # NoTracking
    <3>1. ReportedPosition(seen[h])
      BY <1>1, <2>3 DEF Intact, TrackingIntact
    <3> QED
      BY <1>1, <2>3, <3>1, TrackingEntityType DEF ReportedPosition
  <2> QED
    BY <2>1, <2>2, <2>3
<1>4. tracking # NoTracking => ReportedPosition(tracking)
  BY DEF Intact, TrackingIntact
<1> QED
  BY <1>2, <1>3, <1>4 DEF TrackingIntact, ReportedPosition

LEMMA FreshStep == TypeInv /\ Fresh /\ [Next]_vars => Fresh'
<1> SUFFICES ASSUME TypeInv, Fresh, [Next]_vars, ~staleSave' PROVE Intact'
  BY DEF Fresh, Intact
<1>0. /\ "worker" \in Handlers /\ "worker" \notin Assignments /\ pc \in [Handlers -> Labels]
      /\ seen \in [Handlers -> OrderRows \union {NoOrder} \union TrackingRows]
      /\ changed \in [Handlers -> SUBSET Columns]
  BY TrackingAssumption DEF Handlers, TypeInv, TypeOK
<1> USE <1>0 DEF tables, history, Goto, Drops
<1>1. ~staleSave
  BY DEF Next, Handle, vars, ReadOrder, CheckCourier, ReloadOrder, UpdateOrder, InsertOrder,
     FindTracking, ReloadTracking, UpdateTracking, InsertTracking, StatementFails,
     WorkerReadsOrder, Withdraw, LinkPayment, PublishOrder, Crash, Done, Starts, Meets
<1>2. Intact
  BY <1>1 DEF Fresh, Intact
<1> USE <1>2
<1>3. ASSUME NEW a \in Handlers, ReadOrder(a) PROVE Intact'
  <2> USE <1>3 DEF ReadOrder, Starts
  <2>1. OrderIntact' /\ TrackingIntact'
    BY DEF Intact, OrderIntact, TrackingIntact, ReportedPosition
  <2>2. ExactUpdates'
    BY DEF Intact, ExactUpdates, OrderEntity, TrackingEntity
  <2> QED
    BY <2>1, <2>2 DEF Intact
<1>4. CASE WorkerReadsOrder
  <2> USE <1>4 DEF WorkerReadsOrder, Starts
  <2>1. OrderIntact' /\ TrackingIntact'
    BY DEF Intact, OrderIntact, TrackingIntact, ReportedPosition
  <2>2. ExactUpdates'
    BY DEF Intact, ExactUpdates, OrderEntity, TrackingEntity
  <2> QED
    BY <2>1, <2>2 DEF Intact
<1>5. ASSUME NEW h \in Handlers, ReloadOrder(h) PROVE Intact'
  <2> USE <1>5 DEF ReloadOrder
  <2>1. order = seen[h] /\ order # NoOrder
    <3>1. order = seen[h]
      BY DEF Meets
    <3>2. seen[h] \in OrderRows
      BY DEF TypeInv, SeenByPhase, OrderPhases
    <3>3. NoOrder \notin OrderRows
      BY DEF OrderRows, NoOrder
    <3> QED
      BY <3>1, <3>2, <3>3
  <2>2. OrderIntact' /\ TrackingIntact'
    BY <2>1 DEF Intact, OrderIntact, TrackingIntact, ReportedPosition
  <2>3. ExactUpdates'
    BY <2>1 DEF Intact, ExactUpdates, OrderEntity, TrackingEntity
  <2> QED
    BY <2>2, <2>3 DEF Intact
<1>6. ASSUME NEW h \in Handlers, UpdateOrder(h) PROVE Intact'
  <2>1. /\ order # NoOrder
        /\ order'.status = IF h = "worker" THEN "PROCESSED" ELSE order.status
        /\ order'.courier = IF h = "worker" THEN order.courier ELSE CourierOf[h]
        /\ order'.payment = order.payment
    BY <1>6, FreshUpdateOrder DEF OrderRows, NoOrder
  <2>2. h \in Assignments \union {"worker"}
    BY <1>6 DEF UpdateOrder, TypeInv, ReportersReadNoOrder, OrderPhases, Handlers
  <2>3. OrderIntact'
    BY <1>6, <2>1, <2>2 DEF Intact, OrderIntact, UpdateOrder, AfterOrder
  <2>4. TrackingIntact'
    BY <1>6 DEF Intact, TrackingIntact, ReportedPosition, UpdateOrder
  <2>5. ExactUpdates'
    BY <1>6 DEF Intact, ExactUpdates, OrderEntity, TrackingEntity, UpdateOrder, AfterOrder
  <2> QED
    BY <2>3, <2>4, <2>5 DEF Intact
<1>7. ASSUME NEW h \in Handlers, InsertOrder(h) PROVE Intact'
  BY <1>7 DEF Intact, ExactUpdates, InsertOrder
<1>8. ASSUME NEW u \in Handlers, CheckCourier(u) PROVE Intact'
  <2> USE <1>8 DEF CheckCourier, Starts
  <2>1. OrderIntact' /\ TrackingIntact'
    BY TrackingAssumption DEF Intact, OrderIntact, TrackingIntact, ReportedPosition
  <2>2. ExactUpdates'
    BY DEF Intact, ExactUpdates, OrderEntity, TrackingEntity
  <2> QED
    BY <2>1, <2>2 DEF Intact
<1>9. ASSUME NEW h \in Handlers, FindTracking(h) PROVE Intact'
  <2> USE <1>9 DEF FindTracking
  <2>1. OrderIntact' /\ TrackingIntact'
    BY DEF Intact, OrderIntact, TrackingIntact, ReportedPosition
  <2>2. ExactUpdates'
    BY DEF Intact, ExactUpdates, OrderEntity, TrackingEntity
  <2> QED
    BY <2>1, <2>2 DEF Intact
<1>10. ASSUME NEW h \in Handlers, ReloadTracking(h) PROVE Intact'
  <2> USE <1>10 DEF ReloadTracking
  <2>1. tracking = seen[h]
    BY DEF Meets
  <2>2. OrderIntact' /\ TrackingIntact'
    BY DEF Intact, OrderIntact, TrackingIntact, ReportedPosition
  <2>3. ExactUpdates'
    BY <2>1 DEF Intact, ExactUpdates, OrderEntity, TrackingEntity
  <2> QED
    BY <2>2, <2>3 DEF Intact
<1>11. ASSUME NEW h \in Handlers, UpdateTracking(h) \/ InsertTracking(h) PROVE Intact'
  <2>1. TrackingIntact'
    BY <1>11, FreshSaveTracking
  <2>2. OrderIntact'
    BY <1>11 DEF Intact, OrderIntact, UpdateTracking, InsertTracking, TypeInv, WorkerWaits
  <2>3. ExactUpdates'
    BY <1>11 DEF Intact, ExactUpdates, OrderEntity, TrackingEntity, UpdateTracking,
       InsertTracking
  <2> QED
    BY <2>1, <2>2, <2>3 DEF Intact
<1>12. CASE Withdraw \/ LinkPayment \/ PublishOrder \/ Done \/ UNCHANGED vars
  <2> USE <1>12 DEF Withdraw, LinkPayment, PublishOrder, Done, vars
  <2>1. OrderIntact' /\ TrackingIntact'
    <3>1. CASE Withdraw
      <4>1. pc["worker"] # "done"
        BY <3>1 DEF TypeInv, WorkerWaits
      <4> QED
        BY <3>1, <4>1 DEF OrderIntact, TrackingIntact
    <3>2. CASE LinkPayment
      <4>1. order \in OrderRows
        BY <3>2 DEF TypeInv, TypeOK, WorkerWaits
      <4>2. order' = [order EXCEPT !.payment = TRUE] /\ pc["worker"] # "done"
        BY <3>2 DEF TypeInv, WorkerWaits
      <4>3. order'.payment /\ order'.courier = order.courier
        BY <4>1, <4>2 DEF OrderRows
      <4>4. order # NoOrder
        BY <3>2 DEF TypeInv, WorkerWaits
      <4> QED
        BY <3>2, <4>2, <4>3, <4>4 DEF Intact, OrderIntact, TrackingIntact, ReportedPosition
    <3>3. CASE PublishOrder
      BY <3>3 DEF Intact, OrderIntact, TrackingIntact, ReportedPosition
    <3>4. CASE Done \/ UNCHANGED vars
      BY <3>4 DEF Intact, OrderIntact, TrackingIntact, ReportedPosition
    <3> QED
      BY <3>1, <3>2, <3>3, <3>4
  <2>2. ExactUpdates'
    <3>1. UNCHANGED <<pc, seen, changed>>
      OBVIOUS
    <3> QED
      BY <3>1 DEF Intact, ExactUpdates, OrderEntity, TrackingEntity
  <2> QED
    BY <2>1, <2>2 DEF Intact
<1>13. ASSUME NEW h \in Handlers, StatementFails(h) PROVE Intact'
  <2> USE <1>13 DEF StatementFails
  <2>1. OrderIntact' /\ TrackingIntact'
    BY DEF Intact, OrderIntact, TrackingIntact, ReportedPosition, InProgress
  <2>2. ExactUpdates'
    BY DEF Intact, ExactUpdates, OrderEntity, TrackingEntity
  <2> QED
    BY <2>1, <2>2 DEF Intact
<1>14. CASE Crash
  <2> USE <1>14 DEF Crash, InProgress
  <2>1. OrderIntact' /\ TrackingIntact'
    BY DEF Intact, OrderIntact, TrackingIntact, ReportedPosition
  <2>2. ExactUpdates'
    BY DEF Intact, ExactUpdates, OrderEntity, TrackingEntity
  <2> QED
    BY <2>1, <2>2 DEF Intact
<1> QED
  BY <1>3, <1>4, <1>5, <1>6, <1>7, <1>8, <1>9, <1>10, <1>11, <1>12, <1>13, <1>14
  DEF Next, Handle

\* As long as every save meets the row that its handler has read, neither
\* the worker's status nor the last assignment nor a reported position is
\* lost, for any requests and failures.
THEOREM FreshSaves == Spec => []FreshSavesLoseNothing
<1>1. Spec => [](TypeInv /\ Fresh)
  <2>1. Init => TypeInv /\ Fresh
    BY TypeInit, FreshInit
  <2>2. TypeInv /\ Fresh /\ [Next]_vars => (TypeInv /\ Fresh)'
    BY TypeStep, FreshStep
  <2> QED
    BY <2>1, <2>2, PTL DEF Spec
<1> QED
  BY <1>1, FreshIsTheProperty, PTL
-----------------------------------------------------------------------------
(***************************************************************************)
(* Where a courier in a row comes from.                                    *)
(***************************************************************************)

\* The couriers whose assignments have got as far as the order's row.
GivenOut ==
  {CourierOf[a] : a \in {b \in Assignments :
                           pc[b] \notin {"start", "read", "update", "insert", "refused"}}}

CouriersGivenOut ==
  /\ order.courier \in GivenOut \union {Nobody}
  /\ tracking.courier \in GivenOut \union {Nobody}
  /\ \A h \in Handlers : seen[h].courier \in GivenOut \union {Nobody}
  /\ \A h \in Assignments \union Updates :
       pc[h] \in TrackingPhases \union {"find"} => CourierOf[h] \in GivenOut

LEMMA GivenOutStays ==
  ASSUME TypeInv, [Next]_vars
  PROVE  GivenOut \subseteq GivenOut'
<1> SUFFICES ASSUME NEW a \in Assignments,
                    pc[a] \notin {"start", "read", "update", "insert", "refused"}
             PROVE  pc'[a] \notin {"start", "read", "update", "insert", "refused"}
  BY DEF GivenOut
<1> USE TrackingAssumption DEF Goto, TypeInv, TypeOK, Handlers
<1>1. CASE \E h \in Handlers : Handle(h)
  <2>1. PICK h \in Handlers : Handle(h)
    BY <1>1
  <2> QED
    BY <2>1 DEF Handle, ReadOrder, CheckCourier, ReloadOrder, UpdateOrder, InsertOrder,
       FindTracking, ReloadTracking, UpdateTracking, InsertTracking, Starts, AfterOrder
<1>2. CASE \E h \in Handlers : StatementFails(h)
  BY <1>2 DEF StatementFails
<1>3. CASE WorkerReadsOrder \/ Withdraw \/ LinkPayment \/ PublishOrder \/ Done \/ UNCHANGED vars
  BY <1>3 DEF WorkerReadsOrder, Withdraw, LinkPayment, PublishOrder, Done, vars
<1>4. CASE Crash
  BY <1>4 DEF Crash
<1> QED
  BY <1>1, <1>2, <1>3, <1>4 DEF Next

\* A merged row has its courier from the entity or from the row.
LEMMA MergedCourier ==
  ASSUME NEW e, NEW r \in OrderRows \union TrackingRows, NEW columns
  PROVE  Merged(e, r, columns).courier \in {e.courier, r.courier}
BY DEF Merged, OrderRows, TrackingRows

LEMMA GivenOutStep == TypeInv /\ CouriersGivenOut /\ [Next]_vars => CouriersGivenOut'
<1> SUFFICES ASSUME TypeInv, CouriersGivenOut, [Next]_vars PROVE CouriersGivenOut'
  OBVIOUS
<1>0. /\ Assignments \subseteq Handlers /\ Updates \subseteq Handlers
      /\ "worker" \in Handlers /\ "worker" \notin Assignments \union Updates
      /\ pc \in [Handlers -> Labels]
      /\ seen \in [Handlers -> OrderRows \union {NoOrder} \union TrackingRows]
  BY TrackingAssumption DEF Handlers, TypeInv, TypeOK
<1>1. GivenOut \subseteq GivenOut'
  BY GivenOutStays
<1>2. NoOrder.courier = Nobody /\ NoTracking.courier = Nobody
  BY DEF NoOrder, NoTracking
<1> USE <1>0, <1>2 DEF tables, history, Goto, Drops
<1>3. ASSUME NEW a \in Handlers, ReadOrder(a) PROVE CouriersGivenOut'
  BY <1>1, <1>3 DEF CouriersGivenOut, TrackingPhases, ReadOrder, Starts
<1>4. CASE WorkerReadsOrder
  BY <1>1, <1>4 DEF CouriersGivenOut, TrackingPhases, WorkerReadsOrder, Starts
<1>5. ASSUME NEW h \in Handlers, ReloadOrder(h) PROVE CouriersGivenOut'
  BY <1>1, <1>5 DEF CouriersGivenOut, TrackingPhases, ReloadOrder
<1>6. ASSUME NEW h \in Handlers, UpdateOrder(h) \/ InsertOrder(h) PROVE CouriersGivenOut'
  <2>1. seen[h] \in OrderRows /\ h \in Assignments \union {"worker"}
    BY <1>6 DEF TypeInv, SeenByPhase, OrderPhases, ReportersReadNoOrder, UpdateOrder,
       InsertOrder, Handlers
  <2>2. h \in Assignments => CourierOf[h] \in GivenOut'
    <3>1. h \in Assignments => pc'[h] \in {"find", "failed"}
      BY <1>6 DEF UpdateOrder, InsertOrder, AfterOrder
    <3> QED
      BY <3>1 DEF GivenOut
  <2>3. OrderEntity(h).courier = IF h = "worker" THEN seen[h].courier ELSE CourierOf[h]
    BY <2>1, OrderEntityType
  <2>4. OrderEntity(h).courier \in GivenOut' \union {Nobody}
    BY <1>1, <2>1, <2>2, <2>3 DEF CouriersGivenOut
  <2>5. order' = order \/ order'.courier \in {OrderEntity(h).courier, order.courier}
    <3>1. order # NoOrder => order \in OrderRows
      BY DEF TypeInv, TypeOK
    <3> QED
      BY <1>6, <3>1, MergedCourier DEF UpdateOrder, InsertOrder
  <2>6. order'.courier \in GivenOut' \union {Nobody}
    BY <1>1, <2>4, <2>5 DEF CouriersGivenOut
  <2>7. ASSUME NEW g \in Assignments \union Updates, pc'[g] \in TrackingPhases \union {"find"}
        PROVE  CourierOf[g] \in GivenOut'
    <3>1. CASE g = h
      BY <2>1, <2>2, <3>1
    <3>2. CASE g # h
      BY <1>1, <1>6, <2>7, <3>2 DEF CouriersGivenOut, UpdateOrder, InsertOrder, AfterOrder
    <3> QED
      BY <3>1, <3>2
  <2>8. tracking' = tracking /\ seen' = [seen EXCEPT ![h] = NoOrder]
    BY <1>6 DEF UpdateOrder, InsertOrder
  <2> QED
    BY <1>1, <2>6, <2>7, <2>8 DEF CouriersGivenOut
<1>7. ASSUME NEW u \in Handlers, CheckCourier(u) PROVE CouriersGivenOut'
  <2>1. pc'[u] = "find" => CourierOf[u] \in GivenOut
    BY <1>7, TrackingAssumption DEF CheckCourier, Starts, CouriersGivenOut
  <2> QED
    BY <1>1, <1>7, <2>1 DEF CouriersGivenOut, TrackingPhases, CheckCourier, Starts
<1>8. ASSUME NEW h \in Handlers, FindTracking(h) PROVE CouriersGivenOut'
  BY <1>1, <1>8 DEF CouriersGivenOut, TrackingPhases, FindTracking
<1>9. ASSUME NEW h \in Handlers, ReloadTracking(h) PROVE CouriersGivenOut'
  BY <1>1, <1>9 DEF CouriersGivenOut, TrackingPhases, ReloadTracking
<1>10. ASSUME NEW h \in Handlers, UpdateTracking(h) \/ InsertTracking(h)
       PROVE  CouriersGivenOut'
  <2>1. h \in Assignments \union Updates /\ seen[h] \in TrackingRows
    BY <1>10 DEF UpdateTracking, InsertTracking, TypeInv, SeenByPhase, WorkerWaits,
       TrackingPhases, Handlers
  <2>2. CourierOf[h] \in GivenOut'
    BY <1>1, <1>10, <2>1 DEF CouriersGivenOut, UpdateTracking, InsertTracking, TrackingPhases
  <2>3. TrackingEntity(h).courier = CourierOf[h]
    BY <2>1 DEF TrackingEntity, TrackingRows, NoTracking
  <2>4. tracking'.courier \in {CourierOf[h], tracking.courier}
    <3>1. tracking \in TrackingRows
      BY DEF TypeInv, TypeOK
    <3> QED
      BY <1>10, <2>3, <3>1, MergedCourier DEF UpdateTracking, InsertTracking
  <2>5. tracking'.courier \in GivenOut' \union {Nobody}
    BY <1>1, <2>2, <2>4 DEF CouriersGivenOut
  <2>6. order' = order /\ seen' = [seen EXCEPT ![h] = NoOrder]
    BY <1>10 DEF UpdateTracking, InsertTracking
  <2>7. ASSUME NEW g \in Assignments \union Updates, pc'[g] \in TrackingPhases \union {"find"}
        PROVE  CourierOf[g] \in GivenOut'
    BY <1>1, <1>10, <2>2, <2>7 DEF CouriersGivenOut, UpdateTracking, InsertTracking
  <2> QED
    BY <1>1, <2>5, <2>6, <2>7 DEF CouriersGivenOut
<1>11. CASE Withdraw \/ LinkPayment \/ PublishOrder \/ Done \/ UNCHANGED vars
  <2>1. order'.courier \in {order.courier, Nobody}
    BY <1>11 DEF TypeInv, TypeOK, OrderRows, NoOrder, Withdraw, LinkPayment, PublishOrder,
       Done, vars
  <2> QED
    BY <1>1, <1>11, <2>1 DEF CouriersGivenOut, Withdraw, LinkPayment, PublishOrder, Done, vars
<1>12. ASSUME NEW h \in Handlers, StatementFails(h) PROVE CouriersGivenOut'
  BY <1>1, <1>12 DEF CouriersGivenOut, TrackingPhases, StatementFails
<1>13. CASE Crash
  BY <1>1, <1>13 DEF CouriersGivenOut, TrackingPhases, Crash
<1> QED
  BY <1>3, <1>4, <1>5, <1>6, <1>7, <1>8, <1>9, <1>10, <1>11, <1>12, <1>13 DEF Next, Handle

\* The tracking row only ever names couriers to whom the order was given,
\* for any requests, whatever the handlers overwrite of each other.
THEOREM TrackedAssigned == Spec => []TrackedWasAssigned
<1>1. Init => CouriersGivenOut
  BY TrackingAssumption DEF Init, CouriersGivenOut, NoOrder, NoTracking, Handlers,
     TrackingPhases
<1>2. Spec => [](TypeInv /\ CouriersGivenOut)
  <2>1. Init => TypeInv /\ CouriersGivenOut
    BY <1>1, TypeInit
  <2>2. TypeInv /\ CouriersGivenOut /\ [Next]_vars => (TypeInv /\ CouriersGivenOut)'
    BY TypeStep, GivenOutStep
  <2> QED
    BY <2>1, <2>2, PTL DEF Spec
<1>3. CouriersGivenOut => TrackedWasAssigned
  BY DEF CouriersGivenOut, TrackedWasAssigned, GivenOut
<1> QED
  BY <1>2, <1>3, PTL
-----------------------------------------------------------------------------
(***************************************************************************)
(* Handlers one after the other.                                           *)
(***************************************************************************)

\* Until a handler has saved its order row, the rows name the same courier; from then on the
\* order's is its own, and the tracking row is to follow.
InStep(h) ==
  /\ pc[h] \in TrackingPhases \union {"find"} => order.courier = CourierOf[h]
  /\ pc[h] \in OrderPhases => seen[h].courier = order.courier
  /\ pc[h] = "update" /\ "courier" \notin changed[h] =>
       OrderEntity(h).courier = order.courier
  /\ pc[h] = "updateTracking" /\ "courier" \notin changed[h] /\ tracking # NoTracking =>
       tracking.courier = CourierOf[h]
  /\ pc[h] = "insertTracking" => tracking = NoTracking

SameCourier == tracking = NoTracking \/ tracking.courier = order.courier

\* The rollback can take the rows away at any time, but it takes both.
SavesInTurn ==
  /\ \A g, h \in Handlers : InProgress(g) /\ InProgress(h) => g = h
  /\ order = NoOrder => tracking = NoTracking
  /\ order # NoOrder => \A h \in Handlers : InStep(h)
  /\ (\A h \in Handlers : pc[h] \notin TrackingPhases \union {"find"}) => SameCourier

Serial == ~overlapped /\ faults = 0 => SavesInTurn

\* A handler that moves is the only one under way, before and after.
LEMMA MovesAlone ==
  ASSUME TypeInv, SavesInTurn, ~overlapped', NEW h \in Handlers,
         Handle(h) \/ (h = "worker" /\ WorkerReadsOrder)
  PROVE  \A g \in Handlers \ {h} :
           /\ ~InProgress(g) /\ pc'[g] = pc[g]
           /\ pc'[g] \notin OrderPhases \union TrackingPhases \union {"find"}
<1>1. pc[h] = "start" \/ InProgress(h)
  BY DEF Handle, WorkerReadsOrder, ReadOrder, CheckCourier, ReloadOrder, UpdateOrder,
     InsertOrder, FindTracking, ReloadTracking, UpdateTracking, InsertTracking, Starts, InProgress
<1>2. pc[h] = "start" => \A g \in Handlers : ~InProgress(g)
  BY DEF Handle, WorkerReadsOrder, ReadOrder, CheckCourier, ReloadOrder, UpdateOrder,
     InsertOrder, FindTracking, ReloadTracking, UpdateTracking, InsertTracking, Starts
<1>3. \A g \in Handlers \ {h} : pc'[g] = pc[g]
  BY DEF TypeInv, TypeOK, Handle, WorkerReadsOrder, ReadOrder, CheckCourier, ReloadOrder,
     UpdateOrder, InsertOrder, FindTracking, ReloadTracking, UpdateTracking, InsertTracking,
     Starts, Goto, AfterOrder
<1>4. \A g \in Handlers \ {h} : ~InProgress(g)
  BY <1>1, <1>2 DEF SavesInTurn
<1> QED
  BY <1>3, <1>4 DEF InProgress, OrderPhases, TrackingPhases

\* So what holds of it afterwards holds of all.
LEMMA InTurnAfter ==
  ASSUME NEW h \in Handlers,
         \A g \in Handlers \ {h} :
           /\ ~InProgress(g) /\ pc'[g] = pc[g]
           /\ pc'[g] \notin OrderPhases \union TrackingPhases \union {"find"},
         order' = NoOrder => tracking' = NoTracking,
         order' # NoOrder => InStep(h)',
         pc'[h] \notin TrackingPhases \union {"find"} => SameCourier'
  PROVE  SavesInTurn'
<1>1. \A g \in Handlers \ {h} : InStep(g)' /\ ~InProgress(g)'
  BY DEF InStep, InProgress, OrderPhases, TrackingPhases
<1> QED
  BY <1>1 DEF SavesInTurn

\* What the save of an order makes of its courier.
LEMMA SavedCourier ==
  ASSUME TypeInv, NEW h \in Handlers, UpdateOrder(h), order # NoOrder, InStep(h)
  PROVE  /\ order' # NoOrder
         /\ order'.courier = IF h = "worker" THEN order.courier ELSE CourierOf[h]
<1>1. h \in Assignments \union {"worker"} /\ seen[h] \in OrderRows /\ order \in OrderRows
  BY DEF UpdateOrder, TypeInv, TypeOK, SeenByPhase, ReportersReadNoOrder, OrderPhases, Handlers
<1>2. /\ OrderEntity(h) \in OrderRows
      /\ OrderEntity(h).courier = IF h = "worker" THEN seen[h].courier ELSE CourierOf[h]
  BY <1>1, OrderEntityType
<1>3. order' = Merged(OrderEntity(h), order, changed[h]) /\ order' \in OrderRows
  BY <1>1, <1>2, MergedOrderType DEF UpdateOrder
<1>4. order'.courier = IF "courier" \in changed[h] THEN OrderEntity(h).courier ELSE order.courier
  BY <1>1, <1>3 DEF Merged, OrderRows
<1>5. /\ seen[h].courier = order.courier
      /\ "courier" \notin changed[h] => OrderEntity(h).courier = order.courier
  BY DEF UpdateOrder, InStep, OrderPhases
<1>6. NoOrder \notin OrderRows
  BY DEF NoOrder, OrderRows
<1> QED
  BY <1>2, <1>3, <1>4, <1>5, <1>6

LEMMA SerialStep == TypeInv /\ Serial /\ [Next]_vars => Serial'
<1> SUFFICES ASSUME TypeInv, Serial, [Next]_vars, ~overlapped', faults' = 0 PROVE SavesInTurn'
  BY DEF Serial
<1>0. /\ pc \in [Handlers -> Labels] /\ "worker" \in Handlers /\ faults \in Nat
      /\ overlapped \in BOOLEAN /\ Assignments \subseteq Handlers /\ Updates \subseteq Handlers
      /\ seen \in [Handlers -> OrderRows \union {NoOrder} \union TrackingRows]
      /\ changed \in [Handlers -> SUBSET Columns]
  BY DEF Handlers, TypeInv, TypeOK
<1>1. ~Crash /\ \A h \in Handlers : ~StatementFails(h)
  BY <1>0 DEF Crash, StatementFails, Fault
<1>2. SavesInTurn
  <2>1. ASSUME NEW h \in Handlers, Handle(h) PROVE ~overlapped /\ faults = 0
    BY <1>0, <2>1 DEF Handle, ReadOrder, CheckCourier, ReloadOrder, UpdateOrder, InsertOrder,
       FindTracking, ReloadTracking, UpdateTracking, InsertTracking, Starts, history
  <2>2. WorkerReadsOrder => ~overlapped /\ faults = 0
    BY <1>0 DEF WorkerReadsOrder, Starts
  <2>3. Withdraw \/ LinkPayment \/ PublishOrder \/ Done \/ UNCHANGED vars =>
          ~overlapped /\ faults = 0
    BY DEF vars, Withdraw, LinkPayment, PublishOrder, Done, history
  <2>4. ~overlapped /\ faults = 0
    BY <1>1, <2>1, <2>2, <2>3 DEF Next
  <2> QED
    BY <2>4 DEF Serial
<1> USE <1>0 DEF tables, history, Goto, Drops, OrderPhases, TrackingPhases
<1>3. ASSUME NEW h \in Handlers, ReadOrder(h) \/ (h = "worker" /\ WorkerReadsOrder)
      PROVE  SavesInTurn'
  <2>1. /\ UNCHANGED <<order, tracking>> /\ SameCourier
        /\ pc'[h] \in {"read", "refused", "done"} /\ (pc'[h] = "read" => seen'[h] = order)
    BY <1>2, <1>3 DEF SavesInTurn, ReadOrder, WorkerReadsOrder, Starts, InProgress
  <2>2. InStep(h)'
    BY <2>1 DEF InStep
  <2> QED
    BY <1>2, <1>3, <2>1, <2>2, MovesAlone, InTurnAfter DEF Handle, SavesInTurn, SameCourier
<1>4. ASSUME NEW h \in Handlers, ReloadOrder(h) PROVE SavesInTurn'
  <2>1. /\ UNCHANGED <<order, tracking, seen>> /\ pc[h] = "read"
        /\ pc'[h] = IF order = NoOrder THEN "insert" ELSE "update"
        /\ changed'[h] = Differing(OrderEntity(h), order)
    BY <1>4 DEF ReloadOrder
  <2>2. \A g \in Handlers \ {h} :
          /\ ~InProgress(g) /\ pc'[g] = pc[g]
          /\ pc'[g] \notin OrderPhases \union TrackingPhases \union {"find"}
    BY <1>2, <1>4, MovesAlone DEF Handle, ReloadOrder
  <2>3. SameCourier
    BY <1>2, <2>1, <2>2 DEF SavesInTurn
  <2>4. ASSUME order # NoOrder PROVE InStep(h)'
    <3>1. OrderEntity(h)' = OrderEntity(h)
      BY <2>1 DEF OrderEntity
    <3>2. "courier" \notin changed'[h] => OrderEntity(h).courier = order.courier
      BY <2>1, <2>4 DEF Differing, OrderRows, TypeInv, TypeOK
    <3>3. seen[h].courier = order.courier
      BY <1>2, <2>1, <2>4 DEF SavesInTurn, InStep
    <3> QED
      BY <2>1, <2>4, <3>1, <3>2, <3>3 DEF InStep
  <2> QED
    BY <1>2, <2>1, <2>2, <2>3, <2>4, InTurnAfter DEF SavesInTurn, SameCourier
<1>5. ASSUME NEW h \in Handlers, UpdateOrder(h) PROVE SavesInTurn'
  <2>1. /\ tracking' = tracking /\ pc[h] = "update"
        /\ pc'[h] = IF h = "worker" THEN "done" ELSE "find"
        /\ order = NoOrder => order' = NoOrder
    BY <1>5 DEF UpdateOrder, AfterOrder
  <2>2. \A g \in Handlers \ {h} :
          /\ ~InProgress(g) /\ pc'[g] = pc[g]
          /\ pc'[g] \notin OrderPhases \union TrackingPhases \union {"find"}
    BY <1>2, <1>5, MovesAlone DEF Handle, UpdateOrder
  <2>3. SameCourier
    BY <1>2, <2>1, <2>2 DEF SavesInTurn
  <2>4. order # NoOrder => /\ order' # NoOrder
                           /\ order'.courier = IF h = "worker" THEN order.courier ELSE CourierOf[h]
    BY <1>2, <1>5, SavedCourier DEF SavesInTurn
  <2>5. order' # NoOrder => InStep(h)'
    BY <2>1, <2>4 DEF InStep
  <2>6. pc'[h] \notin TrackingPhases \union {"find"} => SameCourier'
    BY <1>2, <2>1, <2>3, <2>4 DEF SameCourier, SavesInTurn
  <2>7. order' = NoOrder => tracking' = NoTracking
    BY <1>2, <2>1, <2>4 DEF SavesInTurn
  <2> QED
    BY <2>2, <2>5, <2>6, <2>7, InTurnAfter
<1>6. ASSUME NEW h \in Handlers, InsertOrder(h) PROVE SavesInTurn'
  <2>1. /\ tracking' = tracking /\ pc[h] = "insert" /\ h \in Assignments /\ h # "worker"
        /\ seen[h] \in OrderRows
    BY <1>6, TrackingAssumption DEF InsertOrder, TypeInv, WorkerWaits, ReportersReadNoOrder, SeenByPhase,
       Handlers
  <2>2. \A g \in Handlers \ {h} :
          /\ ~InProgress(g) /\ pc'[g] = pc[g]
          /\ pc'[g] \notin OrderPhases \union TrackingPhases \union {"find"}
    BY <1>2, <1>6, MovesAlone DEF Handle, InsertOrder
  <2>3. SameCourier
    BY <1>2, <2>1, <2>2 DEF SavesInTurn
  <2>4. CASE order = NoOrder
    <3>1. /\ order' = OrderEntity(h) /\ pc'[h] = "find" /\ order' \in OrderRows
          /\ order'.courier = CourierOf[h]
      BY <1>6, <2>1, <2>4, OrderEntityType DEF InsertOrder, AfterOrder
    <3>2. order' # NoOrder
      BY <3>1 DEF NoOrder, OrderRows
    <3>3. InStep(h)'
      BY <3>1 DEF InStep
    <3> QED
      BY <2>2, <3>1, <3>2, <3>3, InTurnAfter
  <2>5. CASE order # NoOrder
    <3>1. order' = order /\ pc'[h] = "failed"
      BY <1>6, <2>5 DEF InsertOrder
    <3>2. InStep(h)' /\ SameCourier'
      BY <2>1, <2>3, <3>1 DEF InStep, SameCourier
    <3> QED
      BY <2>2, <2>5, <3>1, <3>2, InTurnAfter
  <2> QED
    BY <2>4, <2>5
<1>7. ASSUME NEW h \in Handlers, CheckCourier(h) PROVE SavesInTurn'
  <2>1. /\ UNCHANGED <<order, tracking>> /\ SameCourier
        /\ pc'[h] \in {"find", "refused"} /\ (pc'[h] = "find" => order.courier = CourierOf[h])
    BY <1>2, <1>7 DEF SavesInTurn, CheckCourier, Starts, InProgress
  <2>2. InStep(h)'
    BY <2>1 DEF InStep
  <2> QED
    BY <1>2, <1>7, <2>1, <2>2, MovesAlone, InTurnAfter DEF Handle, SavesInTurn, SameCourier
<1>8. ASSUME NEW h \in Handlers, FindTracking(h) \/ ReloadTracking(h) PROVE SavesInTurn'
  <2>1. /\ UNCHANGED <<order, tracking>> /\ pc[h] \in {"find", "found"}
        /\ pc'[h] \in TrackingPhases
    BY <1>8 DEF FindTracking, ReloadTracking
  <2>2. order # NoOrder => order.courier = CourierOf[h]
    BY <1>2, <2>1 DEF SavesInTurn, InStep
  <2>3. ASSUME pc'[h] = "updateTracking", "courier" \notin changed'[h], tracking # NoTracking
        PROVE  tracking.courier = CourierOf[h]
    <3>1. /\ pc[h] = "found" /\ seen[h] \in TrackingRows /\ h \in Assignments \union Updates
          /\ changed'[h] = Differing(TrackingEntity(h), tracking)
      BY <1>8, <2>3 DEF FindTracking, ReloadTracking, TypeInv, WorkerWaits, SeenByPhase, Handlers
    <3>2. tracking.courier = TrackingEntity(h).courier
      BY <2>3, <3>1 DEF Differing, TypeInv, TypeOK, TrackingRows
    <3>3. TrackingEntity(h).courier = CourierOf[h]
      BY <3>1 DEF TrackingEntity, TrackingRows, NoTracking
    <3> QED
      BY <3>2, <3>3
  <2>4. pc'[h] = "insertTracking" => tracking = NoTracking
    BY <1>8 DEF FindTracking, ReloadTracking
  <2>5. order' # NoOrder => InStep(h)'
    BY <2>1, <2>2, <2>3, <2>4 DEF InStep
  <2> QED
    BY <1>2, <1>8, <2>1, <2>5, MovesAlone, InTurnAfter DEF Handle, SavesInTurn
<1>9. ASSUME NEW h \in Handlers, UpdateTracking(h) \/ InsertTracking(h) PROVE SavesInTurn'
  <2>1. /\ order' = order /\ pc[h] \in TrackingPhases /\ pc'[h] \in {"done", "failed"}
        /\ h \in Assignments \union Updates /\ seen[h] \in TrackingRows
    BY <1>9 DEF UpdateTracking, InsertTracking, TypeInv, WorkerWaits, SeenByPhase, Handlers
  <2>2. order # NoOrder => order.courier = CourierOf[h]
    BY <1>2, <2>1 DEF SavesInTurn, InStep
  <2>3. TrackingEntity(h).courier = CourierOf[h] /\ TrackingEntity(h) # NoTracking
    BY <2>1, TrackingEntityType DEF TrackingEntity, TrackingRows, NoTracking
  <2>4. order = NoOrder => tracking' = NoTracking
    BY <1>2, <1>9 DEF SavesInTurn, UpdateTracking, InsertTracking
  <2>5. order # NoOrder => tracking' = NoTracking \/ tracking'.courier = CourierOf[h]
    <3>1. CASE UpdateTracking(h)
      <4>1. order # NoOrder /\ tracking # NoTracking /\ "courier" \notin changed[h] =>
              tracking.courier = CourierOf[h]
        BY <1>2, <3>1 DEF SavesInTurn, InStep, UpdateTracking
      <4>2. tracking # NoTracking =>
              tracking'.courier = IF "courier" \in changed[h] THEN TrackingEntity(h).courier
                                  ELSE tracking.courier
        BY <3>1 DEF UpdateTracking, Merged, TypeInv, TypeOK, TrackingRows
      <4>3. tracking = NoTracking => tracking' = NoTracking
        BY <3>1 DEF UpdateTracking
      <4> QED
        BY <2>3, <4>1, <4>2, <4>3
    <3>2. CASE InsertTracking(h)
      <4>1. order # NoOrder => tracking = NoTracking
        BY <1>2, <3>2 DEF SavesInTurn, InStep, InsertTracking
      <4> QED
        BY <2>3, <3>2, <4>1 DEF InsertTracking
    <3> QED
      BY <1>9, <3>1, <3>2
  <2>6. InStep(h)' /\ SameCourier'
    BY <2>1, <2>2, <2>4, <2>5 DEF InStep, SameCourier
  <2> QED
    BY <1>2, <1>9, <2>1, <2>4, <2>6, MovesAlone, InTurnAfter DEF Handle
<1>10. CASE Withdraw
  BY <1>2, <1>10 DEF Withdraw, SavesInTurn, SameCourier, InProgress
<1>11. CASE LinkPayment
  <2>1. order \in OrderRows /\ order' \in OrderRows /\ order'.courier = order.courier
    BY <1>11 DEF LinkPayment, TypeInv, TypeOK, WorkerWaits, OrderRows
  <2>2. NoOrder \notin OrderRows
    BY DEF NoOrder, OrderRows
  <2>3. UNCHANGED <<tracking, pc, seen, changed>>
    BY <1>11 DEF LinkPayment
  <2> QED
    BY <1>2, <2>1, <2>2, <2>3 DEF SavesInTurn, SameCourier, InProgress, InStep, OrderEntity
<1>12. CASE PublishOrder \/ Done \/ UNCHANGED vars
  BY <1>2, <1>12 DEF PublishOrder, Done, vars, SavesInTurn, SameCourier, InProgress, InStep,
     OrderEntity
<1> QED
  BY <1>1, <1>3, <1>4, <1>5, <1>6, <1>7, <1>8, <1>9, <1>10, <1>11, <1>12 DEF Next, Handle

\* Without failures, requests that are handled one after the other leave the order and its
\* tracking row with the same courier, for any requests and reports and wherever createOrder
\* and the worker come in between.
THEOREM SerialAgreement == Spec => []SerialHandlersAgree
<1>1. Init => Serial
  BY DEF Init, Serial, SavesInTurn, SameCourier, InStep, InProgress, OrderPhases,
     TrackingPhases
<1>2. Spec => [](TypeInv /\ Serial)
  <2>1. Init => TypeInv /\ Serial
    BY <1>1, TypeInit
  <2>2. TypeInv /\ Serial /\ [Next]_vars => (TypeInv /\ Serial)'
    BY TypeStep, SerialStep
  <2> QED
    BY <2>1, <2>2, PTL DEF Spec
<1>3. Serial => SerialHandlersAgree
  BY DEF Serial, SerialHandlersAgree, SavesInTurn, SameCourier, Quiet, InProgress,
     TrackingPhases
<1> QED
  BY <1>2, <1>3, PTL
=============================================================================
