-------------------------- MODULE OrdersProcessor --------------------------
(***************************************************************************)
(* The worker that fulfils orders: OrdersProcessorService.handleMessage    *)
(* and OrdersService.processOrderFromQueueIdempotent, run once per         *)
(* delivery of orders.process and concurrently up to the prefetch window,  *)
(* against PostgreSQL (READ COMMITTED) and the channel of RabbitChannel.   *)
(*                                                                         *)
(* A handler's transaction is open in the phases "recorded" (its row of    *)
(* processed_messages inserted, the order not read yet), "locking" (the    *)
(* order was read as PENDING; it locks the products row by row) and        *)
(* "skipping" (the order was read as PROCESSED).  What it writes becomes   *)
(* visible when it commits, so the tables change in the commits alone.     *)
(***************************************************************************)
EXTENDS RabbitChannel, FiniteSetsExt

CONSTANTS
  Orders, Products,
  OrderOf,       \* the order each message is about
  Demand,        \* the quantity of each product an order's items ask for
  InitStock,     \* the stock of each product at the start
  Malformed,     \* messages whose content handleMessage cannot parse
  MAX_ATTEMPTS,  \* RABBIT_RETRY_COUNT
  Copies,        \* bound: publications of each message with attempt 0
  MaxFaults      \* bound: failures of the database, the connection, the process

ASSUME ProcessorAssumption ==
  /\ OrderOf \in [Messages -> Orders]
  /\ IsFiniteSet(Orders)
  /\ Demand \in [Orders -> [Products -> Nat]]
  /\ \A o \in Orders : \E p \in Products : Demand[o][p] > 0   \* ArrayMinSize, Min
  /\ InitStock \in [Products -> Nat]
  /\ Malformed \subseteq Messages
  /\ MAX_ATTEMPTS \in Nat
  /\ Copies \in [Messages -> Nat]
  /\ MaxFaults \in Nat

VARIABLES
  phase,         \* where the handler of each delivery is
  held,          \* the product rows its transaction has locked
  seen,          \* the stock it read in each of them
  order,         \* status of each order row
  stock,         \* stock of each product row
  processed,     \* the primary keys of processed_messages
  deducted,      \* history: how often an order's items left the stock
  faults         \* how many failures have happened

locks == <<held, seen>>
tables == <<order, stock, processed, deducted>>
vars == <<proc, place, mid, attempt, out, phase, held, seen, order, stock,
          processed, deducted, faults>>

Phases == {"none", "received", "recorded", "locking", "skipping", "failed"}

\* A transaction that has locked no row has read no stock.
NothingRead == [p \in Products |-> 0]

\* Every variable has its type.
TypeOK ==
  /\ ChannelTypeOK
  /\ phase \in [Pubs -> Phases]
  /\ held \in [Pubs -> SUBSET Products]
  /\ seen \in [Pubs -> [Products -> Int]]
  /\ order \in [Orders -> {"ABSENT", "PENDING", "PROCESSED"}]
  /\ stock \in [Products -> Int]
  /\ processed \in SUBSET Messages
  /\ deducted \in [Orders -> Nat]
  /\ faults \in Nat

Init ==
  /\ ChannelInit
  /\ phase = [d \in Pubs |-> "none"]
  /\ held = [d \in Pubs |-> {}]
  /\ seen = [d \in Pubs |-> NothingRead]
  /\ order \in [Orders -> {"ABSENT", "PENDING"}]
  /\ stock = InitStock
  /\ processed = {}
  /\ deducted = [o \in Orders |-> 0]
  /\ faults = 0
-----------------------------------------------------------------------------
OrderId(d) == OrderOf[mid[d]]
Items(d) == {p \in Products : Demand[OrderId(d)][p] > 0}
InTransaction(d) == phase[d] \in {"recorded", "locking", "skipping"}

Fault == faults < MaxFaults /\ faults' = faults + 1

Goto(d, ph) == phase' = [phase EXCEPT ![d] = ph]
Release(d) ==
  /\ held' = [held EXCEPT ![d] = {}]
  /\ seen' = [seen EXCEPT ![d] = NothingRead]

\* The transaction rolls back and the error reaches handleMessage's catch.
Fail(d) == Goto(d, "failed") /\ Release(d) /\ UNCHANGED <<channelVars, tables>>

\* handleMessage ends after writing on the channel.
Finish(d, frame) == Goto(d, "none") /\ Release(d) /\ Write(d, frame)
-----------------------------------------------------------------------------
\* A message is published with attempt 0 (by createOrder, or by hand).
Publish(m) ==
  /\ Cardinality({d \in Pubs : place[d] # "unused" /\ mid[d] = m /\ attempt[d] = 0})
       < Copies[m]
  /\ \E e \in Pubs : Enqueue(e, m)
  /\ UNCHANGED <<phase, locks, tables, faults>>

Receive(d) ==
  /\ Deliver(d)
  /\ Goto(d, "received")
  /\ UNCHANGED <<locks, tables, faults>>

\* JSON.parse throws: to the dead-letter queue, without a retry.
RejectInvalidJson(d) ==
  /\ phase[d] = "received"
  /\ mid[d] \in Malformed
  /\ Finish(d, "nack")
  /\ UNCHANGED <<tables, faults>>

\* (mutant) Look for the row, then insert it, without the primary key.
CanInsertUnserialized(d) == phase[d] = "received" /\ mid[d] \notin Malformed

\* The insert waits while another open transaction has inserted the same key.
CanInsert(d) ==
  /\ phase[d] = "received"
  /\ mid[d] \notin Malformed
  /\ \A e \in Pubs : InTransaction(e) => mid[e] # mid[d]

\* (mutant) The row is inserted outside the transaction.
InsertProcessedAlone(d) ==
  /\ CanInsert(d)
  /\ mid[d] \notin processed
  /\ processed' = processed \union {mid[d]}
  /\ Goto(d, "recorded")
  /\ UNCHANGED <<channelVars, locks, order, stock, deducted, faults>>

InsertProcessed(d) ==
  /\ CanInsert(d)
  /\ mid[d] \notin processed
  /\ Goto(d, "recorded")
  /\ UNCHANGED <<channelVars, locks, tables, faults>>

\* Unique violation 23505: answered as alreadyProcessed, and acknowledged.
AlreadyProcessed(d) ==
  /\ CanInsert(d)
  /\ mid[d] \in processed
  /\ Finish(d, "ack")
  /\ UNCHANGED <<tables, faults>>

\* (mutant) An order that is not there is taken for one already processed.
ReadOrderLenient(d) ==
  /\ phase[d] = "recorded"
  /\ Goto(d, IF order[OrderId(d)] = "PENDING" THEN "locking" ELSE "skipping")
  /\ UNCHANGED <<channelVars, locks, tables, faults>>

\* findOne without a lock: it sees what is committed at this moment.
ReadOrder(d) ==
  /\ phase[d] = "recorded"
  /\ \/ /\ order[OrderId(d)] = "ABSENT"
        /\ Fail(d)
     \/ /\ order[OrderId(d)] # "ABSENT"
        /\ Goto(d, IF order[OrderId(d)] = "PROCESSED" THEN "skipping" ELSE "locking")
        /\ UNCHANGED <<channelVars, locks, tables>>
  /\ UNCHANGED faults

\* (mutant) SELECT without FOR UPDATE.
LockProductNot(d, p) ==
  /\ phase[d] = "locking"
  /\ p \in Items(d) \ held[d]
  /\ held' = [held EXCEPT ![d] = @ \union {p}]
  /\ seen' = [seen EXCEPT ![d][p] = stock[p]]
  /\ UNCHANGED <<channelVars, phase, tables, faults>>

\* SELECT ... FOR UPDATE without ORDER BY locks one row after another, and
\* returns what is committed when it gets the lock.
LockProduct(d, p) ==
  /\ phase[d] = "locking"
  /\ p \in Items(d) \ held[d]
  /\ \A e \in Pubs : p \notin held[e]
  /\ held' = [held EXCEPT ![d] = @ \union {p}]
  /\ seen' = [seen EXCEPT ![d][p] = stock[p]]
  /\ UNCHANGED <<channelVars, phase, tables, faults>>

\* Transactions that wait for each other's rows: PostgreSQL aborts one.
DeadlockVictim(d) ==
  /\ \E S \in SUBSET Pubs :
       /\ d \in S
       /\ \A e \in S : /\ phase[e] = "locking"
                       /\ \E f \in S \ {e} : (Items(e) \ held[e]) \cap held[f] # {}
  /\ Fail(d)
  /\ UNCHANGED faults

HasLocks(d) == phase[d] = "locking" /\ held[d] = Items(d)
EnoughStock(d) == \A p \in Items(d) : seen[d][p] >= Demand[OrderId(d)][p]

\* ConflictException: not enough stock.
Conflict(d) == HasLocks(d) /\ ~EnoughStock(d) /\ Fail(d) /\ UNCHANGED faults

\* What the transaction changes when it commits after the deduction ...
FulfilOrder(d) ==
  /\ HasLocks(d)
  /\ EnoughStock(d)
  /\ stock' = [p \in Products |->
                 IF p \in Items(d) THEN seen[d][p] - Demand[OrderId(d)][p] ELSE stock[p]]
  /\ order' = [order EXCEPT ![OrderId(d)] = "PROCESSED"]
  /\ processed' = processed \union {mid[d]}
  /\ deducted' = [deducted EXCEPT ![OrderId(d)] = @ + 1]

\* ... and when the order had been processed already.
RecordOnly(d) ==
  /\ phase[d] = "skipping"
  /\ processed' = processed \union {mid[d]}
  /\ UNCHANGED <<order, stock, deducted>>

Commit(d) ==
  /\ FulfilOrder(d) \/ RecordOnly(d)
  /\ Finish(d, "ack")
  /\ UNCHANGED faults

\* The database commits, but the answer to COMMIT is lost: an error here.
CommitUnanswered(d) ==
  /\ FulfilOrder(d) \/ RecordOnly(d)
  /\ Goto(d, "failed") /\ Release(d)
  /\ Fault
  /\ UNCHANGED channelVars

\* Any statement of the transaction fails.
DbError(d) ==
  /\ phase[d] = "received" => mid[d] \notin Malformed
  /\ phase[d] = "received" \/ InTransaction(d)
  /\ Fail(d)
  /\ Fault

\* After RETRY_DELAY: publish the next attempt, then acknowledge this one.
RetryLater(d) ==
  /\ phase[d] = "failed"
  /\ attempt[d] < MAX_ATTEMPTS
  /\ Finish(d, "republish")
  /\ UNCHANGED <<tables, faults>>

\* (mutant) One attempt too few.
GiveUpEarly(d) ==
  /\ phase[d] = "failed"
  /\ attempt[d] + 1 >= MAX_ATTEMPTS
  /\ Finish(d, "nack")
  /\ UNCHANGED <<tables, faults>>

GiveUp(d) ==
  /\ phase[d] = "failed"
  /\ attempt[d] >= MAX_ATTEMPTS
  /\ Finish(d, "nack")
  /\ UNCHANGED <<tables, faults>>

Send(d) == Flush(d) /\ UNCHANGED <<phase, locks, tables, faults>>

\* The connection to the broker breaks; the handlers go on.
LoseConnection ==
  /\ ConnectionLost /\ Fault
  /\ UNCHANGED <<phase, locks, tables>>

\* Without its process a handler is gone, and its transaction rolled back.
NoHandlers ==
  /\ phase' = [d \in Pubs |-> "none"]
  /\ held' = [d \in Pubs |-> {}]
  /\ seen' = [d \in Pubs |-> NothingRead]
  /\ UNCHANGED tables

Crash == ProcessCrash /\ Fault /\ NoHandlers
Restart == ProcessStart /\ NoHandlers /\ UNCHANGED faults

\* The queue is empty and every handler done: the consumer waits.
Idle ==
  /\ proc = "running"
  /\ \A d \in Pubs : place[d] \in {"unused", "acked", "dead"}
  /\ UNCHANGED vars
-----------------------------------------------------------------------------
Handle(d) ==
  \/ RejectInvalidJson(d) \/ InsertProcessed(d) \/ AlreadyProcessed(d)
  \/ ReadOrder(d) \/ (\E p \in Products : LockProduct(d, p))
  \/ DeadlockVictim(d) \/ Conflict(d) \/ Commit(d)
  \/ RetryLater(d) \/ GiveUp(d)

Next ==
  \/ \E m \in Messages : Publish(m)
  \/ \E d \in Pubs : Receive(d) \/ Handle(d) \/ Send(d)
  \/ \E d \in Pubs : CommitUnanswered(d) \/ DbError(d)
  \/ LoseConnection \/ Crash \/ Restart \/ Idle

Spec == Init /\ [][Next]_vars

\* The broker delivers, the event loop runs every handler, the socket drains.
Fairness == \A d \in Pubs : WF_vars(Receive(d)) /\ WF_vars(Handle(d)) /\ WF_vars(Send(d))

FairSpec == Spec /\ Fairness
-----------------------------------------------------------------------------
Published(m) == \E d \in Pubs : place[d] # "unused" /\ mid[d] = m

\* One message per order: what createOrder's single publication gives.
OneMessagePerOrder ==
  \A m, n \in Messages : OrderOf[m] = OrderOf[n] => m = n

\* However often a message is redelivered, retried or published again, its
\* order's items leave the stock once (the insert into processed_messages
\* and the deduction commit together).
DeductedOnce == \A o \in Orders : deducted[o] <= 1

\* The stock is what it was less what the processed orders took, and never
\* negative: no update of another handler's deduction is lost between the
\* locked read and the save.
StockBalance ==
  \A p \in Products :
    /\ stock[p] >= 0
    /\ stock[p] + SumFunction([o \in Orders |-> deducted[o] * Demand[o][p]]) = InitStock[p]

\* A message recorded as processed has its order PROCESSED, and an order is
\* PROCESSED exactly if its items left the stock: a failure between the
\* statements of the transaction leaves neither half.
RecordedMeansProcessed ==
  /\ \A m \in processed : order[OrderOf[m]] = "PROCESSED"
  /\ \A o \in Orders : order[o] = "PROCESSED" <=> deducted[o] > 0

\* A published message is processed, or some copy of it is still in a queue:
\* a retry acknowledges the old copy only after the new one is published.
NothingLost ==
  \A m \in Messages :
    Published(m) => \/ m \in processed
                    \/ \E d \in Pubs : /\ mid[d] = m
                                       /\ place[d] \in {"ready", "unacked", "dead"}

\* What reaches the dead-letter queue was unreadable or has used every
\* attempt, and no copy is ever published beyond the last attempt.
DeadLetterJustified ==
  \A d \in Pubs :
    /\ attempt[d] <= MAX_ATTEMPTS
    /\ place[d] = "dead" => mid[d] \in Malformed \/ attempt[d] = MAX_ATTEMPTS

\* Under one message per order the tables change only as Fulfilment says,
\* whatever the handlers, the broker and the failures do.
Abstract == INSTANCE Fulfilment
ImplementsFulfilment == Abstract!Spec

\* "Order ... already processed. Skipping": a processed order's stock is
\* not deducted again (orders.service.ts:331-334).
ProcessedOrderSkipped ==
  [][\A o \in Orders : order[o] = "PROCESSED" => deducted'[o] = deducted[o]]_vars

\* Once the process stays up, every copy is acknowledged or dead-lettered:
\* locks, duplicate inserts, retries and the prefetch window never leave a
\* delivery waiting for ever.
QueueDrains ==
  <>[](proc = "running") => <>[](\A d \in Pubs : place[d] \in {"unused", "acked", "dead"})
=============================================================================
