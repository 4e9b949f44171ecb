-------------------------- MODULE OrderFlowProofs --------------------------
(***************************************************************************)
(* Theorems about OrderFlow, for any orders, products, keys, retries and   *)
(* failures: what the invariants of the two halves give together.          *)
(***************************************************************************)
EXTENDS OrderFlow, OrdersProcessorProofs

\* Creation of OrderFlow, with what is proved about it.
CreationOf == INSTANCE OrderCreationProofs WITH
  Requests <- Orders, None <- NoMessage, AmountOf <- TotalAmount,
  row <- [o \in Orders |-> order[o] # "ABSENT"]

CreationInv == CreationOf!CreationInv

\* The names of OrderFlow's instance and of this one stand for the same steps.
LEMMA SameSteps ==
  /\ Creation!Init <=> CreationOf!Init
  /\ \A r : Creation!Handle(r) <=> CreationOf!Handle(r)
  /\ \A r : Creation!PaymentsStep(r) <=> CreationOf!PaymentsStep(r)
  /\ \A r : Creation!StatementFails(r) <=> CreationOf!StatementFails(r)
  /\ \A r : Creation!Flush(r) <=> CreationOf!Flush(r)
  /\ Creation!LoseConnection <=> CreationOf!LoseConnection
  /\ Creation!Crash <=> CreationOf!Crash
  /\ Creation!Restart <=> CreationOf!Restart
<1>1. Creation!Init <=> CreationOf!Init
  BY DEF Creation!Init, CreationOf!Init, Creation!PaymentsInit, CreationOf!PaymentsInit
<1>2. ASSUME NEW r PROVE Creation!Handle(r) <=> CreationOf!Handle(r)
  BY DEF Creation!Handle, CreationOf!Handle, Creation!LookUp, CreationOf!LookUp,
         Creation!InsertRefused, CreationOf!InsertRefused, Creation!InsertOrder,
         CreationOf!InsertOrder, Creation!InsertRows, CreationOf!InsertRows,
         Creation!AuthorizeAnswered, CreationOf!AuthorizeAnswered, Creation!AuthorizeTimeout,
         CreationOf!AuthorizeTimeout, Creation!LinkPayment, CreationOf!LinkPayment,
         Creation!PublishOrder, CreationOf!PublishOrder, Creation!DeleteItems,
         CreationOf!DeleteItems, Creation!DeleteOrder, CreationOf!DeleteOrder,
         Creation!RemoveItems, CreationOf!RemoveItems, Creation!RemoveRow, CreationOf!RemoveRow,
         Creation!OrdersOf, CreationOf!OrdersOf, Creation!SameKey, CreationOf!SameKey,
         Creation!Created, CreationOf!Created, Creation!At, CreationOf!At, Creation!Goto,
         CreationOf!Goto, Creation!Answer, CreationOf!Answer, Creation!answers,
         CreationOf!answers, Creation!paymentVars, CreationOf!paymentVars, Creation!orderRows,
         CreationOf!orderRows, Creation!messages, CreationOf!messages
<1>3. ASSUME NEW r PROVE Creation!PaymentsStep(r) <=> CreationOf!PaymentsStep(r)
  BY DEF Creation!PaymentsStep, CreationOf!PaymentsStep, Creation!Authorize, CreationOf!Authorize,
         Creation!AuthorizeFails, CreationOf!AuthorizeFails, Creation!RejectMissing,
         CreationOf!RejectMissing, Creation!MissingAmount, CreationOf!MissingAmount,
         Creation!FindExisting, CreationOf!FindExisting, Creation!InsertPayment,
         CreationOf!InsertPayment, Creation!PaymentsOf, CreationOf!PaymentsOf, Creation!SameKey,
         CreationOf!SameKey, Creation!Succeed, CreationOf!Succeed, Creation!CallFails,
         CreationOf!CallFails, Creation!Fault, CreationOf!Fault, Creation!answers,
         CreationOf!answers, Creation!orderRows, CreationOf!orderRows, Creation!messages,
         CreationOf!messages
<1>4. ASSUME NEW r PROVE Creation!StatementFails(r) <=> CreationOf!StatementFails(r)
  BY DEF Creation!StatementFails, CreationOf!StatementFails, Creation!InsertRows,
         CreationOf!InsertRows, Creation!RemoveItems, CreationOf!RemoveItems, Creation!RemoveRow,
         CreationOf!RemoveRow, Creation!OrdersOf, CreationOf!OrdersOf, Creation!SameKey,
         CreationOf!SameKey, Creation!Fault, CreationOf!Fault, Creation!At, CreationOf!At,
         Creation!Goto, CreationOf!Goto, Creation!Answer, CreationOf!Answer, Creation!answers,
         CreationOf!answers, Creation!paymentVars, CreationOf!paymentVars, Creation!orderRows,
         CreationOf!orderRows, Creation!messages, CreationOf!messages
<1>5. /\ \A r : Creation!Flush(r) <=> CreationOf!Flush(r)
      /\ Creation!LoseConnection <=> CreationOf!LoseConnection
      /\ Creation!Crash <=> CreationOf!Crash
      /\ Creation!Restart <=> CreationOf!Restart
  BY DEF Creation!Flush, CreationOf!Flush, Creation!LoseConnection, CreationOf!LoseConnection,
         Creation!Crash, CreationOf!Crash, Creation!Restart, CreationOf!Restart,
         Creation!DropBuffered, CreationOf!DropBuffered, Creation!Fault, CreationOf!Fault,
         Creation!paymentVars, CreationOf!paymentVars, Creation!answers, CreationOf!answers,
         Creation!orderRows, CreationOf!orderRows, Creation!messages, CreationOf!messages
<1> QED BY <1>1, <1>2, <1>3, <1>4, <1>5

\* createOrder and the worker meet in the messages: what the worker has received, or is about to,
\* was published, and so was every order that it has fulfilled.
Linked ==
  /\ \A d \in Pubs : place[d] # "unused" => published[mid[d]] > 0
  /\ \A o \in Orders : outbox[o] # "none" => published[o] > 0
  /\ \A o \in Orders : order[o] = "PROCESSED" => published[o] > 0

FlowInv == InvOnce /\ CreationInv /\ Linked

\* A message is about the order whose name it has.
LEMMA OwnMessages == OneMessagePerOrder /\ Messages = Orders /\ \A m \in Messages : OrderOf[m] = m
BY FlowAssumption DEF OneMessagePerOrder

\* What PublishedComplete says of the rows of a published order.
LEMMA PublishedStored ==
  CreationInv =>
    \A o \in Orders : published[o] > 0 =>
      order[o] # "ABSENT" /\ items[o] /\ link[o] \in payments /\ KeyOf[link[o]] = KeyOf[o]
BY DEF CreationInv, CreationOf!CreationInv, CreationOf!PublishedComplete, CreationOf!SameKey

LEMMA PublishedStoredNext ==
  CreationInv' => \A o \in Orders : published'[o] > 0 => order'[o] # "ABSENT"
BY DEF CreationInv, CreationOf!CreationInv, CreationOf!PublishedComplete

\* OrderCreation's invariant starts and stays, by its own proofs.
LEMMA CreationStart == Creation!Init => CreationInv
BY SameSteps, CreationOf!InvAtStart, FlowAssumption, ChannelAssumption, ProcessorAssumption
   DEF CreationInv

LEMMA CreationStep ==
  ASSUME CreationInv,
         \/ \E r \in Orders : \/ Creation!Handle(r) \/ Creation!PaymentsStep(r)
                              \/ Creation!StatementFails(r) \/ Creation!Flush(r)
         \/ Creation!LoseConnection \/ Creation!Crash \/ Creation!Restart
  PROVE  CreationInv'
<1>1. CreationOf!Next
  BY SameSteps DEF CreationOf!Next
<1> QED BY <1>1, CreationOf!InvStep, FlowAssumption, ChannelAssumption, ProcessorAssumption
        DEF CreationInv

\* The invariant holds at the start.
LEMMA FlowStart == FlowInit => FlowInv
<1> SUFFICES ASSUME FlowInit PROVE FlowInv
  OBVIOUS
<1>1. InvOnce
  BY TypeInit, TransactionInit, FulfilledInit DEF FlowInit, InvOnce
<1>2. CreationInv
  BY CreationStart DEF FlowInit
<1>3. Linked
  BY DEF FlowInit, Init, ChannelInit, Creation!Init, Linked
<1> QED BY <1>1, <1>2, <1>3 DEF FlowInv
-----------------------------------------------------------------------------
(***************************************************************************)
(* The steps of createOrder and of the payments service.                   *)
(***************************************************************************)

CreationMoves(r) == Create(r) \/ Pay(r) \/ CreateFails(r)

\* A request stores or withdraws its own order, and none that has been published.
LEMMA CreationEffect ==
  ASSUME FlowInv, NEW r \in Orders, CreationMoves(r)
  PROVE  /\ CreationInv'
         /\ proc' = proc /\ faults' \in Nat
         /\ order' \in [Orders -> {"ABSENT", "PENDING", "PROCESSED"}]
         /\ \A o \in Orders \ {r} : order'[o] = order[o]
         /\ \A o \in Orders : \/ order'[o] = order[o]
                              \/ /\ published[o] = 0 /\ order[o] # "PROCESSED"
                                 /\ order'[o] \in {"ABSENT", "PENDING"}
         /\ \A o \in Orders : published[o] > 0 => published'[o] > 0
         /\ \A o \in Orders : outbox'[o] # "none" => outbox[o] # "none" \/ published'[o] > 0
<1>0. /\ CreationInv /\ Linked /\ TypeOK /\ CreationOf!TypeOK
  BY DEF FlowInv, InvOnce, TypeInv, CreationInv, CreationOf!CreationInv
<1>1. /\ RowsFollow
      /\ Creation!Handle(r) \/ Creation!PaymentsStep(r) \/ Creation!StatementFails(r)
  BY DEF CreationMoves, Create, Pay, CreateFails
<1>2. CreationInv'
  BY <1>0, <1>1, CreationStep
<1>3. /\ proc' = proc /\ faults' \in Nat
      /\ \A o \in Orders \ {r} : (order'[o] # "ABSENT") = (order[o] # "ABSENT")
      /\ \A o \in Orders : published[o] > 0 => published'[o] > 0
      /\ \A o \in Orders : outbox'[o] # "none" => outbox[o] # "none" \/ published'[o] > 0
  <2>1. CreationOf!Handle(r) \/ CreationOf!PaymentsStep(r) \/ CreationOf!StatementFails(r)
    BY <1>1, SameSteps
  <2> QED BY <1>0, <2>1, CreationOf!OwnOrderOnly, FlowAssumption, ChannelAssumption,
             ProcessorAssumption
<1>4. PICK present \in SUBSET Orders :
        order' = [o \in Orders |->
                    IF o \notin present THEN "ABSENT"
                    ELSE IF order[o] = "ABSENT" THEN "PENDING" ELSE order[o]]
  BY <1>1 DEF RowsFollow
<1>5. /\ order \in [Orders -> {"ABSENT", "PENDING", "PROCESSED"}]
      /\ order' \in [Orders -> {"ABSENT", "PENDING", "PROCESSED"}]
  BY <1>0, <1>4 DEF TypeOK
<1>6. \A o \in Orders \ {r} : order'[o] = order[o]
  BY <1>3, <1>4
<1>7. \A o \in Orders : published[o] \in Nat /\ published'[o] \in Nat
  BY <1>0, <1>2 DEF CreationInv, CreationOf!CreationInv, CreationOf!TypeOK
<1>8. ASSUME NEW o \in Orders, order'[o] # order[o]
      PROVE  published[o] = 0 /\ order[o] # "PROCESSED" /\ order'[o] \in {"ABSENT", "PENDING"}
  <2>1. CASE published[o] > 0
    <3>1. order[o] # "ABSENT" /\ order'[o] # "ABSENT"
      BY <1>0, <1>2, <1>3, <2>1, PublishedStored, PublishedStoredNext
    <3> QED BY <1>4, <1>8, <3>1
  <2>2. CASE ~(published[o] > 0)
    <3>1. order[o] # "PROCESSED"
      BY <1>0, <2>2 DEF Linked
    <3> QED BY <1>4, <1>5, <1>7, <2>2, <3>1
  <2> QED BY <2>1, <2>2
<1> QED BY <1>2, <1>3, <1>5, <1>6, <1>8

\* They keep the worker's invariants, for these are about published orders.
LEMMA CreationKeeps ==
  ASSUME FlowInv, NEW r \in Orders, CreationMoves(r)
  PROVE  FlowInv'
<1> USE DEF TypeInv, TypeOK, ChannelTypeOK, WellFormed, InTransaction, OrderId
<1>0. /\ TypeInv /\ TransactionInv /\ FulfilledOnce /\ Linked
      /\ OneTransactionEach /\ SkipsProcessed /\ LocksHold /\ StockNonNegative
      /\ RecordedMeansProcessed
  BY DEF FlowInv, InvOnce, TransactionInv
<1>1. /\ UNCHANGED <<proc, place, mid, attempt, out, phase, held, seen, stock, processed, deducted>>
      /\ faults' \in Nat
      /\ order' \in [Orders -> {"ABSENT", "PENDING", "PROCESSED"}]
      /\ \A o \in Orders : \/ order'[o] = order[o]
                           \/ /\ published[o] = 0 /\ order[o] # "PROCESSED"
                              /\ order'[o] \in {"ABSENT", "PENDING"}
  BY CreationEffect DEF CreationMoves, Create, Pay, CreateFails, workerVars, locks
<1>2. \A d \in Pubs : phase[d] # "none" =>
        /\ mid[d] \in Messages /\ OrderOf[mid[d]] \in Orders
        /\ order'[OrderOf[mid[d]]] = order[OrderOf[mid[d]]]
  <2>1. \A d \in Pubs : phase[d] # "none" => mid[d] \in Messages /\ published[mid[d]] > 0
    BY <1>0 DEF Linked
  <2>2. \A o \in Orders : published[o] > 0 => order'[o] = order[o]
    BY <1>1
  <2> QED BY <2>1, <2>2, OwnMessages
<1>3. \A o \in Orders : order'[o] = "PROCESSED" <=> order[o] = "PROCESSED"
  BY <1>1
<1>4. TypeInv'
  BY <1>0, <1>1 DEF Phases
<1>5. OneTransactionEach' /\ LocksHold' /\ StockNonNegative'
  BY <1>0, <1>1 DEF OneTransactionEach, LocksHold, StockNonNegative
<1>6. SkipsProcessed'
  BY <1>0, <1>1, <1>2 DEF SkipsProcessed
<1>7. RecordedMeansProcessed'
  <2>1. \A m \in processed : m \in Messages /\ OrderOf[m] \in Orders
    BY <1>0, OwnMessages
  <2> QED BY <1>0, <1>1, <1>3, <2>1 DEF RecordedMeansProcessed
<1>8. FulfilledOnce'
  BY <1>0, <1>1, <1>2, <1>3 DEF FulfilledOnce, DeductedOnce
<1>9. Linked'
  <2>1. /\ \A o \in Orders : published[o] > 0 => published'[o] > 0
        /\ \A o \in Orders : outbox'[o] # "none" => outbox[o] # "none" \/ published'[o] > 0
    BY CreationEffect
  <2>2. \A d \in Pubs : place[d] # "unused" => mid[d] \in Orders
    BY <1>0, OwnMessages
  <2> QED BY <1>0, <1>1, <1>3, <2>1, <2>2 DEF Linked
<1> QED BY <1>4, <1>5, <1>6, <1>7, <1>8, <1>9, CreationEffect
        DEF FlowInv, InvOnce, TransactionInv
-----------------------------------------------------------------------------
(***************************************************************************)
(* The steps of the worker, of the channel and of the process.             *)
(***************************************************************************)

WorkerMoves ==
  \/ \E r \in Orders : Arrive(r)
  \/ \E d \in Pubs : Work(d) \/ WorkFails(d)
  \/ ProcessStep

\* They are steps of OrdersProcessor.
LEMMA WorkerNext == WorkerMoves => [Next]_vars
BY OwnMessages DEF WorkerMoves, Arrive, Work, WorkFails, ProcessStep, Next

\* The worker fulfils published orders, and changes nothing else of an order.
LEMMA WorkerOrders ==
  ASSUME FlowInv, WorkerMoves
  PROVE  \A o \in Orders : \/ order'[o] = order[o]
                           \/ /\ order[o] = "PENDING" /\ order'[o] = "PROCESSED"
                              /\ published[o] > 0
<1> USE DEF TypeInv, TypeOK, ChannelTypeOK, WellFormed, OrderId
<1>0. TypeInv /\ TransactionInv /\ FulfilledOnce /\ Linked
  BY DEF FlowInv, InvOnce
<1>1. TransactionStep
  BY <1>0, WorkerNext, TransactionSteps
<1>2. ASSUME NEW d \in Pubs, FulfilOrder(d)
      PROVE  \A o \in Orders : \/ order'[o] = order[o]
                               \/ /\ order[o] = "PENDING" /\ order'[o] = "PROCESSED"
                                  /\ published[o] > 0
  <2>1. phase[d] = "locking" /\ order' = [order EXCEPT ![OrderOf[mid[d]]] = "PROCESSED"]
    BY <1>2 DEF FulfilOrder, HasLocks
  <2>2. order[OrderOf[mid[d]]] = "PENDING"
    BY <1>0, <2>1 DEF FulfilledOnce
  <2>3. OrderOf[mid[d]] = mid[d] /\ published[mid[d]] > 0
    BY <1>0, <2>1, OwnMessages DEF Linked
  <2> QED BY <1>0, <2>1, <2>2, <2>3
<1>3. CASE order' = order
  BY <1>3
<1> QED BY <1>1, <1>2, <1>3 DEF TransactionStep, OnlyRollbacks, InsertProcessed, ReadOrder,
           LockProduct, RecordOnly, tables, Fail

\* They keep what is proved of createOrder, which sees of them only failures.
LEMMA WorkerKeepsCreation ==
  ASSUME FlowInv, WorkerMoves
  PROVE  CreationInv' /\ published' = published
           /\ \A o \in Orders : outbox'[o] # "none" => outbox[o] # "none"
<1>0. CreationInv /\ TypeOK /\ CreationOf!TypeOK
  BY DEF FlowInv, InvOnce, TypeInv, CreationInv, CreationOf!CreationInv
<1>1. CASE \E r \in Orders : Arrive(r)
  BY <1>0, <1>1, CreationStep
     DEF Arrive, Creation!Flush, CreationOf!TypeOK
<1>2. CASE \/ LoseConnection /\ Creation!LoseConnection
           \/ Crash /\ Creation!Crash
           \/ Restart /\ Creation!Restart
  BY <1>0, <1>2, CreationStep
     DEF Creation!LoseConnection, Creation!Crash, Creation!Restart, Creation!DropBuffered,
         Creation!messages
<1>3. CASE (\E d \in Pubs : Work(d) \/ WorkFails(d)) \/ (Idle /\ Creation!Done)
  <2>1. UNCHANGED creationVars /\ proc' = proc /\ faults' \in Nat /\ faults' >= faults
    <3>1. CASE Idle /\ Creation!Done
      BY <1>0, <3>1 DEF Idle, vars, Creation!Done, Creation!vars, creationVars, TypeOK
    <3>2. ASSUME NEW d \in Pubs, WorkFails(d)
          PROVE  UNCHANGED creationVars /\ proc' = proc /\ faults' \in Nat /\ faults' >= faults
      BY <1>0, <3>2 DEF WorkFails, CommitUnanswered, DbError, Fail, Fault, channelVars, TypeOK
    <3>3. ASSUME NEW d \in Pubs, Work(d)
          PROVE  UNCHANGED creationVars /\ proc' = proc /\ faults' = faults
      BY <3>3 DEF Work, Receive, Deliver, Send, Flush, FlushPublish, FlushAck, FlushNack, Handle,
         RejectInvalidJson, InsertProcessed, AlreadyProcessed, ReadOrder, LockProduct,
         DeadlockVictim, Conflict, Commit, RetryLater, GiveUp, Finish, Write, Fail, channelVars
    <3> QED BY <1>0, <1>3, <3>1, <3>2, <3>3 DEF TypeOK
  <2>2. [o \in Orders |-> order[o] # "ABSENT"]' = [o \in Orders |-> order[o] # "ABSENT"]
    <3>1. \A o \in Orders : (order'[o] # "ABSENT") = (order[o] # "ABSENT")
      BY WorkerOrders
    <3> QED BY <3>1
  <2>3. CreationInv'
    BY <1>0, <2>1, <2>2, CreationOf!FaultsElsewhere, FlowAssumption, ChannelAssumption,
       ProcessorAssumption DEF CreationInv, creationVars
  <2> QED BY <2>1, <2>3 DEF creationVars
<1> QED BY <1>1, <1>2, <1>3 DEF WorkerMoves, ProcessStep

\* A copy that the broker has is an older copy, or carries the message of one, or of createOrder.
LEMMA CopiesPublished ==
  ASSUME FlowInv, WorkerMoves, NEW x \in Pubs, place'[x] # "unused"
  PROVE  published[mid'[x]] > 0
<1> USE DEF TypeInv, TypeOK, ChannelTypeOK, WellFormed
<1>0. TypeInv /\ Linked
  BY DEF FlowInv, InvOnce
<1>1. CASE place[x] # "unused" /\ mid'[x] = mid[x]
  BY <1>0, <1>1 DEF Linked
<1>2. ASSUME NEW r \in Orders, Arrive(r) PROVE published[mid'[x]] > 0
  <2>1. PICK e \in Pubs : Enqueue(e, r)
    BY <1>2 DEF Arrive, Publish
  <2>2. published[r] > 0
    BY <1>0, <1>2 DEF Arrive, Creation!Flush, Linked
  <2> QED BY <1>0, <1>1, <2>1, <2>2 DEF Enqueue, Accept, Fresh
<1>3. ASSUME NEW d \in Pubs, Send(d) PROVE published[mid'[x]] > 0
  <2>1. CASE FlushPublish(d)
    <3>1. PICK e \in Pubs : Accept(e, mid[d], attempt[d] + 1)
      BY <2>1 DEF FlushPublish
    <3>2. published[mid[d]] > 0
      BY <1>0, <2>1 DEF FlushPublish, Linked
    <3> QED BY <1>0, <1>1, <3>1, <3>2 DEF Accept, Fresh
  <2>2. CASE FlushAck(d) \/ FlushNack(d)
    BY <1>0, <1>1, <2>2 DEF FlushAck, FlushNack
  <2> QED BY <1>3, <2>1, <2>2 DEF Send, Flush
<1>4. ASSUME NEW d \in Pubs, Receive(d) PROVE published[mid'[x]] > 0
  BY <1>0, <1>1, <1>4 DEF Receive, Deliver
<1>5. CASE UNCHANGED <<place, mid>>
  BY <1>1, <1>5
<1>6. ASSUME NEW d \in Pubs, Handle(d) \/ WorkFails(d) PROVE UNCHANGED <<place, mid>>
  BY <1>6 DEF Handle, WorkFails, CommitUnanswered, DbError, RejectInvalidJson, InsertProcessed,
     AlreadyProcessed, ReadOrder, LockProduct, DeadlockVictim, Conflict, Commit, RetryLater,
     GiveUp, Finish, Write, Fail, channelVars
<1>7. CASE ProcessStep
  BY <1>0, <1>1, <1>7 DEF ProcessStep, LoseConnection, ConnectionLost, Crash, ProcessCrash,
     Restart, ProcessStart, Requeue, Idle, vars
<1> QED BY <1>2, <1>3, <1>4, <1>5, <1>6, <1>7 DEF WorkerMoves, Work

LEMMA WorkerKeeps ==
  ASSUME FlowInv, WorkerMoves
  PROVE  FlowInv'
<1>1. InvOnce'
  BY WorkerNext, OwnMessages, TypeStep, TransactionSteps, TransactionInvStep, FulfilledStep
     DEF FlowInv, InvOnce
<1>2. /\ CreationInv' /\ published' = published
      /\ \A o \in Orders : outbox'[o] # "none" => outbox[o] # "none"
  BY WorkerKeepsCreation
<1>3. Linked'
  BY <1>2, WorkerOrders, CopiesPublished DEF FlowInv, Linked
<1> QED BY <1>1, <1>2, <1>3 DEF FlowInv
-----------------------------------------------------------------------------
\* Every step keeps the invariant.
LEMMA FlowStep == FlowInv /\ [FlowNext]_flowVars => FlowInv'
<1> SUFFICES ASSUME FlowInv, [FlowNext]_flowVars PROVE FlowInv'
  OBVIOUS
<1>1. CASE \E r \in Orders : CreationMoves(r)
  BY <1>1, CreationKeeps
<1>2. CASE WorkerMoves
  BY <1>2, WorkerKeeps
<1>3. CASE UNCHANGED flowVars
  <2>1. InvOnce'
    BY <1>3, OwnMessages, TypeStep, TransactionSteps, TransactionInvStep, FulfilledStep
       DEF FlowInv, InvOnce, flowVars
  <2>2. UNCHANGED <<creationVars, proc, faults, order>>
    BY <1>3 DEF flowVars, vars
  <2>3. CreationInv'
    <3>1. faults' \in Nat /\ faults' >= faults
      BY <2>2 DEF FlowInv, InvOnce, TypeInv, TypeOK
    <3>2. [o \in Orders |-> order[o] # "ABSENT"]' = [o \in Orders |-> order[o] # "ABSENT"]
      BY <2>2
    <3> QED BY <2>2, <3>1, <3>2, CreationOf!FaultsElsewhere, FlowAssumption, ChannelAssumption,
               ProcessorAssumption DEF FlowInv, CreationInv, creationVars
  <2>4. Linked'
    BY <1>3 DEF FlowInv, Linked, flowVars, vars, creationVars
  <2> QED BY <2>1, <2>3, <2>4 DEF FlowInv
<1> QED BY <1>1, <1>2, <1>3 DEF FlowNext, CreationMoves, WorkerMoves

LEMMA FlowInvAlways == FlowSpec => []FlowInv
BY FlowStart, FlowStep, PTL DEF FlowSpec

\* The worker never looks for an order that createOrder has not stored yet or has rolled back.
THEOREM MessagesHaveOrders == FlowSpec => []MessageHasOrder
<1>1. FlowInv => MessageHasOrder
  <2> SUFFICES ASSUME FlowInv, NEW d \in Pubs, place[d] # "unused"
               PROVE  order[OrderId(d)] # "ABSENT" /\ items[OrderId(d)]
    BY DEF MessageHasOrder
  <2>1. mid[d] \in Orders /\ OrderId(d) = mid[d]
    BY OwnMessages DEF FlowInv, InvOnce, TypeInv, WellFormed, OrderId
  <2>2. published[mid[d]] > 0
    BY DEF FlowInv, Linked
  <2> QED BY <2>1, <2>2, PublishedStored DEF FlowInv
<1> QED BY <1>1, FlowInvAlways, PTL

\* What the worker takes from the stock was paid, by a payment that createOrder linked.
THEOREM FulfilledWasPaid == FlowSpec => []PaidBeforeFulfilled
<1>1. FlowInv => PaidBeforeFulfilled
  <2> SUFFICES ASSUME FlowInv, NEW o \in Orders, deducted[o] > 0
               PROVE  link[o] \in payments /\ KeyOf[link[o]] = KeyOf[o]
    BY DEF PaidBeforeFulfilled
  <2>1. order[o] = "PROCESSED"
    BY DEF FlowInv, InvOnce, TransactionInv, RecordedMeansProcessed
  <2> QED BY <2>1, PublishedStored DEF FlowInv, Linked
<1> QED BY <1>1, FlowInvAlways, PTL

\* createOrder, the payments service and the worker together implement Fulfilment: an order is
\* created, perhaps withdrawn, and fulfilled once if at all.
THEOREM FlowFulfils == FlowSpec => FlowImplementsFulfilment
<1>1. FlowInit => Abstract!Init
  BY DEF FlowInit, Init, Abstract!Init
<1>2. ASSUME FlowInv, NEW r \in Orders, CreationMoves(r)
      PROVE  [Abstract!Next]_<<order, stock, processed>>
  <2>1. /\ order \in [Orders -> {"ABSENT", "PENDING", "PROCESSED"}]
        /\ order' \in [Orders -> {"ABSENT", "PENDING", "PROCESSED"}]
        /\ \A o \in Orders \ {r} : order'[o] = order[o]
        /\ \/ order'[r] = order[r]
           \/ order[r] # "PROCESSED" /\ order'[r] \in {"ABSENT", "PENDING"}
    BY <1>2, CreationEffect DEF FlowInv, InvOnce, TypeInv, TypeOK
  <2>2. UNCHANGED <<stock, processed>>
    BY <1>2 DEF CreationMoves, Create, Pay, CreateFails, workerVars
  <2>3. order' = [order EXCEPT ![r] = order'[r]]
    BY <2>1
  <2>4. CASE order'[r] = order[r]
    BY <2>1, <2>2, <2>3, <2>4
  <2>5. CASE order[r] = "ABSENT" /\ order'[r] = "PENDING"
    BY <2>2, <2>3, <2>5 DEF Abstract!Next, Abstract!Create
  <2>6. CASE order[r] = "PENDING" /\ order'[r] = "ABSENT"
    BY <2>2, <2>3, <2>6 DEF Abstract!Next, Abstract!Withdraw
  <2> QED BY <2>1, <2>4, <2>5, <2>6
<1>3. ASSUME FlowInv, WorkerMoves PROVE [Abstract!Next]_<<order, stock, processed>>
  <2>1. TransactionStep
    BY <1>3, WorkerNext, TransactionSteps DEF FlowInv, InvOnce
  <2> QED BY <1>3, <2>1, OwnMessages, FulfilsAbstractly DEF FlowInv
<1>5. FlowInv /\ [FlowNext]_flowVars => [Abstract!Next]_<<order, stock, processed>>
  <2> SUFFICES ASSUME FlowInv, FlowNext PROVE [Abstract!Next]_<<order, stock, processed>>
    BY DEF flowVars, vars
  <2> QED BY <1>2, <1>3 DEF FlowNext, CreationMoves, WorkerMoves
<1> QED BY <1>1, <1>5, FlowInvAlways, PTL DEF FlowSpec, FlowImplementsFulfilment, Abstract!Spec
-----------------------------------------------------------------------------
(***************************************************************************)
(* What is proved of createOrder and of the worker, each on its own, holds *)
(* of the two together; and from both follows where an order can be.       *)
(***************************************************************************)

\* An order that was created was handed to the channel; what is no longer buffered there is with
\* the broker, or was lost by a failure.
HandedOver ==
  \A o \in Orders :
    /\ body[o] = o => outbox[o] # "none"
    /\ outbox[o] = "queued" => Published(o)
    /\ outbox[o] = "lost" => faults > 0

JoinedInv == FlowInv /\ StockBalance /\ KeepsMessages /\ RetriesBounded /\ HandedOver

LEMMA JoinedStart == FlowInit => JoinedInv
<1> SUFFICES ASSUME FlowInit PROVE JoinedInv
  OBVIOUS
<1>1. StockBalance /\ KeepsMessages /\ RetriesBounded
  BY BalanceInit, KeepsInit, RetriesInit DEF FlowInit
<1>2. HandedOver
  BY FlowAssumption, ChannelAssumption DEF FlowInit, Creation!Init, HandedOver
<1> QED BY <1>1, <1>2, FlowStart DEF JoinedInv

\* createOrder does nothing to the queues and to the stock.
LEMMA CreationKeepsJoined ==
  ASSUME JoinedInv, NEW r \in Orders, CreationMoves(r)
  PROVE  JoinedInv'
<1>1. FlowInv'
  BY CreationKeeps DEF JoinedInv
<1>2. UNCHANGED <<place, mid, attempt, out, stock, processed, deducted>>
  BY DEF CreationMoves, Create, Pay, CreateFails, workerVars
<1>3. StockBalance' /\ KeepsMessages' /\ RetriesBounded'
  BY <1>2 DEF JoinedInv, StockBalance, KeepsMessages, Kept, Published, RetriesBounded
<1>4. CreationInv /\ HandedOver /\ faults \in Nat
  BY DEF JoinedInv, FlowInv, InvOnce, TypeInv, TypeOK
<1>5. /\ \A o \in Orders : outbox'[o] = outbox[o] \/ outbox'[o] = "buffered"
      /\ \A o \in Orders : body'[o] = o => body[o] = o \/ outbox'[o] = "buffered"
      /\ faults' >= faults
  <2>1. CreationOf!Handle(r) \/ CreationOf!PaymentsStep(r) \/ CreationOf!StatementFails(r)
    BY SameSteps DEF CreationMoves, Create, Pay, CreateFails
  <2> QED BY <1>4, <2>1, CreationOf!BufferedWhenAnswered, FlowAssumption, ChannelAssumption,
             ProcessorAssumption DEF CreationInv
<1>6. faults' \in Nat
  BY CreationEffect DEF JoinedInv
<1>7. HandedOver'
  BY <1>2, <1>4, <1>5, <1>6 DEF HandedOver, Published
<1> QED BY <1>1, <1>3, <1>7 DEF JoinedInv

\* A copy keeps its message.
LEMMA CopiesStay ==
  ASSUME FlowInv, [Next]_vars, NEW o \in Orders, Published(o)
  PROVE  Published(o)'
<1> USE DEF TypeInv, TypeOK, ChannelTypeOK, WellFormed
<1>1. TypeInv /\ ChannelStep
  BY ChannelSteps DEF FlowInv, InvOnce
<1>2. PICK x \in Pubs : place[x] # "unused" /\ mid[x] = o
  BY DEF Published
<1>3. place'[x] # "unused" /\ mid'[x] = o
  <2>1. CASE UNCHANGED channelVars
    BY <1>2, <2>1 DEF channelVars
  <2>2. CASE \E m \in Messages, e \in Pubs : Enqueue(e, m)
    BY <1>1, <1>2, <2>2 DEF Enqueue, Accept, Fresh
  <2>3. CASE \E d \in Pubs : Deliver(d) \/ JustifiedWrite(d)
    BY <1>1, <1>2, <2>3 DEF Deliver, JustifiedWrite, Write
  <2>4. ASSUME NEW d \in Pubs, FlushPublish(d) PROVE place'[x] # "unused" /\ mid'[x] = o
    BY <1>1, <1>2, <2>4 DEF FlushPublish, Accept, Fresh
  <2>5. CASE \E d \in Pubs : FlushAck(d) \/ FlushNack(d)
    BY <1>1, <1>2, <2>5 DEF FlushAck, FlushNack
  <2>6. CASE Requeue
    BY <1>1, <1>2, <2>6 DEF Requeue
  <2> QED BY <1>1, <2>1, <2>2, <2>3, <2>4, <2>5, <2>6 DEF ChannelStep, Flush
<1> QED BY <1>3 DEF Published

\* The worker, the channel and the process answer no request, and take a message out of the
\* channel's buffer by giving it to the broker or by failing.
LEMMA WorkerHandsOver ==
  ASSUME JoinedInv, WorkerMoves
  PROVE  HandedOver'
<1> USE DEF TypeInv, TypeOK, ChannelTypeOK, HandedOver
<1>0. FlowInv /\ TypeInv /\ CreationOf!TypeOK /\ HandedOver
  BY DEF JoinedInv, FlowInv, InvOnce, CreationInv, CreationOf!CreationInv
<1>1. \A o \in Orders : Published(o) => Published(o)'
  BY <1>0, WorkerNext, CopiesStay
<1>2. ASSUME NEW r \in Orders, Arrive(r) PROVE HandedOver'
  <2>1. PICK e \in Pubs : Enqueue(e, r)
    BY <1>2 DEF Arrive, Publish
  <2>2. place'[e] # "unused" /\ mid'[e] = r
    BY <1>0, <2>1, OwnMessages DEF Enqueue, Accept
  <2>3. Published(r)'
    BY <2>2 DEF Published
  <2>4. /\ outbox' = [outbox EXCEPT ![r] = "queued"] /\ UNCHANGED <<body, faults>>
    BY <1>2 DEF Arrive, Creation!Flush, Creation!answers
  <2> QED BY <1>0, <1>1, <2>3, <2>4 DEF CreationOf!TypeOK
<1>3. CASE (LoseConnection /\ Creation!LoseConnection) \/ (Crash /\ Creation!Crash)
  BY <1>0, <1>1, <1>3
     DEF Creation!LoseConnection, Creation!Crash, Creation!DropBuffered, Creation!Fault,
         Creation!answers
<1>4. CASE \/ Restart /\ Creation!Restart
           \/ \E d \in Pubs : Work(d) \/ WorkFails(d)
           \/ Idle /\ Creation!Done
  <2>1. UNCHANGED <<body, outbox>> /\ faults' \in Nat /\ faults' >= faults
    <3>1. CASE Restart /\ Creation!Restart
      BY <1>0, <3>1 DEF Creation!Restart, Creation!answers, Creation!messages
    <3>2. CASE Idle /\ Creation!Done
      BY <1>0, <3>2 DEF Idle, vars, Creation!Done, Creation!vars
    <3>3. ASSUME NEW d \in Pubs, WorkFails(d)
          PROVE  UNCHANGED <<body, outbox>> /\ faults' \in Nat /\ faults' >= faults
      BY <1>0, <3>3 DEF WorkFails, CommitUnanswered, DbError, Fault, creationVars
    <3>4. ASSUME NEW d \in Pubs, Work(d)
          PROVE  UNCHANGED <<body, outbox, faults>>
      BY <3>4 DEF Work, Receive, Send, Handle, RejectInvalidJson, InsertProcessed,
         AlreadyProcessed, ReadOrder, LockProduct, DeadlockVictim, Conflict, Commit, RetryLater,
         GiveUp, creationVars
    <3> QED BY <1>0, <1>4, <3>1, <3>2, <3>3, <3>4
  <2> QED BY <1>0, <1>1, <2>1
<1> QED BY <1>2, <1>3, <1>4 DEF WorkerMoves, ProcessStep

LEMMA JoinedStep == JoinedInv /\ [FlowNext]_flowVars => JoinedInv'
<1> SUFFICES ASSUME JoinedInv, [FlowNext]_flowVars PROVE JoinedInv'
  OBVIOUS
<1>1. FlowInv'
  BY FlowStep DEF JoinedInv
<1>2. CASE \E r \in Orders : CreationMoves(r)
  BY <1>2, CreationKeepsJoined
<1>3. CASE WorkerMoves
  <2>1. StockBalance' /\ KeepsMessages' /\ RetriesBounded'
    BY <1>3, WorkerNext, BalanceStep, KeepsStep, RetriesStep DEF JoinedInv, FlowInv, InvOnce
  <2> QED BY <1>1, <1>3, <2>1, WorkerHandsOver DEF JoinedInv
<1>4. CASE UNCHANGED flowVars
  <2>1. StockBalance' /\ KeepsMessages' /\ RetriesBounded'
    BY <1>4, BalanceStep, KeepsStep, RetriesStep DEF JoinedInv, FlowInv, InvOnce, flowVars
  <2>2. HandedOver'
    BY <1>4 DEF JoinedInv, HandedOver, Published, flowVars, vars, channelVars, creationVars
  <2> QED BY <1>1, <2>1, <2>2 DEF JoinedInv
<1> QED BY <1>2, <1>3, <1>4 DEF FlowNext, CreationMoves, WorkerMoves

LEMMA JoinedAlways == FlowSpec => []JoinedInv
BY JoinedStart, JoinedStep, PTL DEF FlowSpec

\* The worker keeps its promises in the whole service: the orders that createOrder stores and
\* withdraws while it works, and the failures that both suffer, cost no message and no stock.
WorkerPromises ==
  DeductedOnce /\ StockBalance /\ RecordedMeansProcessed /\ NothingLost /\ DeadLetterJustified

THEOREM WorkerKeepsPromises == FlowSpec => []WorkerPromises
<1>1. JoinedInv => WorkerPromises
  BY DEF JoinedInv, FlowInv, InvOnce, FulfilledOnce, TransactionInv, KeepsMessages, Kept,
     NothingLost, RetriesBounded, DeadLetterJustified, WorkerPromises
<1> QED BY <1>1, JoinedAlways, PTL

\* createOrder keeps its promises while the worker processes its orders and shares its failures.
CreationPromises ==
  /\ CreationOf!PublishedComplete /\ CreationOf!PublishedOnce
  /\ CreationOf!RefusalLeavesNothing /\ CreationOf!NoStrandedOrder /\ CreationOf!OnePaymentPerKey

THEOREM CreationKeepsPromises == FlowSpec => []CreationPromises
<1>1. FlowInv => CreationPromises
  BY DEF FlowInv, CreationInv, CreationOf!CreationInv, CreationPromises
<1> QED BY <1>1, FlowInvAlways, PTL

\* An order that its request was answered with is fulfilled, is on its way, or waits in the
\* dead-letter queue after its last attempt; the one other thing that can have happened to it is
\* that a failure took its message out of the channel's buffer (the safety of CreatedSettles).
AnsweredIsFound ==
  \A o \in Orders :
    body[o] = o =>
      \/ order[o] = "PROCESSED"
      \/ outbox[o] = "buffered"
      \/ outbox[o] = "lost" /\ faults > 0
      \/ \E d \in Pubs : /\ mid[d] = o
                         /\ \/ place[d] \in {"ready", "unacked"}
                            \/ place[d] = "dead" /\ attempt[d] = MAX_ATTEMPTS

THEOREM AnsweredOrdersFound == FlowSpec => []AnsweredIsFound
<1>1. JoinedInv => AnsweredIsFound
  <2> SUFFICES ASSUME JoinedInv, NEW o \in Orders, body[o] = o,
                      order[o] # "PROCESSED", outbox[o] = "queued"
               PROVE  \E d \in Pubs : /\ mid[d] = o
                                      /\ \/ place[d] \in {"ready", "unacked"}
                                         \/ place[d] = "dead" /\ attempt[d] = MAX_ATTEMPTS
    <3>1. JoinedInv => \A o \in Orders : outbox[o] \in {"none", "buffered", "queued", "lost"}
      BY DEF JoinedInv, FlowInv, CreationInv, CreationOf!CreationInv, CreationOf!TypeOK
    <3> QED BY <3>1 DEF JoinedInv, HandedOver, AnsweredIsFound
  <2>1. Published(o)
    BY DEF JoinedInv, HandedOver
  <2>2. o \notin processed
    BY OwnMessages DEF JoinedInv, FlowInv, InvOnce, TransactionInv, RecordedMeansProcessed
  <2>3. PICK d \in Pubs : mid[d] = o /\ Kept(d)
    BY <2>1, <2>2, OwnMessages DEF JoinedInv, KeepsMessages
  <2>4. place[d] = "dead" => attempt[d] = MAX_ATTEMPTS
    BY FlowAssumption DEF JoinedInv, RetriesBounded
  <2> QED BY <2>3, <2>4 DEF Kept
<1> QED BY <1>1, JoinedAlways, PTL
=============================================================================
