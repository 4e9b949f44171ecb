----------------------------- MODULE OrderFlow -----------------------------
(***************************************************************************)
(* An order from the POST that creates it to the deduction of its items:   *)
(* OrderCreation and OrdersProcessor in one process, over one channel and  *)
(* one order table.  A message, its order and the request that created     *)
(* both have one name, so nobody publishes by hand here.  The row that     *)
(* createOrder inserts and deletes is the order row the worker reads.      *)
(***************************************************************************)
EXTENDS OrdersProcessor

CONSTANTS KeyOf, UINT32, BadRefs

ASSUME FlowAssumption ==
  /\ Messages = Orders
  /\ OrderOf = [m \in Messages |-> m]
  /\ Malformed = {}
  /\ Copies = [m \in Messages |-> 1]
  /\ BadRefs \subseteq Orders
  /\ UINT32 \in Nat \ {0}

VARIABLES call, reply, payments, configured, pc, code, body, items, link, outbox, published

creationVars ==
  <<call, reply, payments, configured, pc, code, body, items, link, outbox, published>>
workerVars == <<place, mid, attempt, out, phase, locks, stock, processed, deducted>>
flowVars == <<vars, creationVars>>

\* totalAmount: the sum of the items' quantities.
TotalAmount == [o \in Orders |-> MapThenSumSet(LAMBDA p : Demand[o][p], Products)]

Creation == INSTANCE OrderCreation WITH
  Requests <- Orders, None <- NoMessage, AmountOf <- TotalAmount,
  row <- [o \in Orders |-> order[o] # "ABSENT"]

FlowInit ==
  /\ Init
  /\ order = [o \in Orders |-> "ABSENT"]
  /\ Creation!Init

\* A new row is PENDING, and createOrder changes the status of no other.
RowsFollow ==
  \E present \in SUBSET Orders :
    order' = [o \in Orders |->
                IF o \notin present THEN "ABSENT"
                ELSE IF order[o] = "ABSENT" THEN "PENDING" ELSE order[o]]

Create(r) == RowsFollow /\ Creation!Handle(r) /\ UNCHANGED workerVars

Pay(r) == RowsFollow /\ Creation!PaymentsStep(r) /\ UNCHANGED workerVars

CreateFails(r) == RowsFollow /\ Creation!StatementFails(r) /\ UNCHANGED workerVars

\* What createOrder wrote on the channel is what the worker will receive.
Arrive(r) == Publish(r) /\ Creation!Flush(r)

Work(d) == (Receive(d) \/ Handle(d) \/ Send(d)) /\ UNCHANGED creationVars

WorkFails(d) == (CommitUnanswered(d) \/ DbError(d)) /\ UNCHANGED creationVars

ProcessStep ==
  \/ LoseConnection /\ Creation!LoseConnection
  \/ Crash /\ Creation!Crash
  \/ Restart /\ Creation!Restart
  \/ Idle /\ Creation!Done

FlowNext ==
  \/ \E r \in Orders : Create(r) \/ Pay(r) \/ CreateFails(r) \/ Arrive(r)
  \/ \E d \in Pubs : Work(d) \/ WorkFails(d)
  \/ ProcessStep

FlowSpec == FlowInit /\ [][FlowNext]_flowVars

FlowFairSpec ==
  /\ FlowSpec
  /\ \A r \in Orders : WF_flowVars(Create(r)) /\ WF_flowVars(Arrive(r))
  /\ \A d \in Pubs : WF_flowVars(Work(d))
-----------------------------------------------------------------------------
\* Nothing leaves the stock for an order without a payment made under its
\* key: what is published was paid, and is not withdrawn while it waits.
PaidBeforeFulfilled ==
  \A o \in Orders : deducted[o] > 0 => link[o] \in payments /\ KeyOf[link[o]] = KeyOf[o]

\* The worker never looks for an order that is not there: a message is not
\* on its way before the order is stored, nor after it was rolled back.
MessageHasOrder ==
  \A d \in Pubs :
    place[d] # "unused" => order[OrderId(d)] # "ABSENT" /\ items[OrderId(d)]

\* createOrder publishes one message per order, so the service as a whole
\* fulfils an order once and never deletes a fulfilled one.
FlowImplementsFulfilment == Abstract!Spec

DeadLettered(o) == \E d \in Pubs : place[d] = "dead" /\ mid[d] = o

\* Without failures an order answered 201 to the request that created it is
\* fulfilled, or its message reaches the dead-letter queue.
CreatedSettles ==
  \A o \in Orders :
    body[o] = o /\ faults = 0 ~> order[o] = "PROCESSED" \/ DeadLettered(o) \/ faults > 0
=============================================================================
