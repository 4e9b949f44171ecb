--------------------------- MODULE OrderCreation ---------------------------
(***************************************************************************)
(* OrdersService.createOrder, run once per POST /orders, concurrently,     *)
(* with the payments service it calls (Payments) and the channel on which  *)
(* it publishes the created order.                                         *)
(*                                                                         *)
(* An order, its items and the message about it are named by the request   *)
(* that creates them.  A request's statements are separate steps, for      *)
(* every await lets other requests, the payments service and failures in;  *)
(* the transaction that inserts the order and its items is one step, since *)
(* the unique idempotencyKey makes a second insert of the key wait for it. *)
(***************************************************************************)
EXTENDS Payments

CONSTANTS
  BadRefs,     \* requests naming a user or a product that does not exist
  MaxFaults    \* bound: failures of the databases, the connections, the process

ASSUME CreationAssumption == BadRefs \subseteq Requests /\ MaxFaults \in Nat

VARIABLES
  proc,        \* the orders service: running, "deaf" (no channel), or down
  configured,  \* whether PAYMENTS_GRPC_TIMEOUT_MS is a positive number
  pc,          \* where the handler of each request is
  code,        \* the status of its answer, 0 before there is one
  body,        \* the order in an answer 201
  row,         \* whether the order row of a request exists
  items,       \* whether its item rows exist
  link,        \* its payment_id
  outbox,      \* the message about the order
  published,   \* history: how often the order's message has been published
  faults       \* how many failures have happened

orderRows == <<row, items, link>>
answers == <<code, body>>
messages == <<outbox, published>>
vars == <<call, reply, payments, proc, configured, pc, code, body, row, items, link,
          outbox, published, faults>>

\* Every variable has its type.
TypeOK ==
  /\ PaymentsTypeOK
  /\ proc \in {"running", "deaf", "down"}
  /\ configured \in BOOLEAN
  /\ pc \in [Requests -> {"start", "insert", "waiting", "link", "publish",
                          "deleteItems", "deleteOrder", "answered", "aborted"}]
  /\ code \in [Requests -> {0, 201, 400, 500}]
  /\ body \in [Requests -> Requests \union {None}]
  /\ row \in [Requests -> BOOLEAN]
  /\ items \in [Requests -> BOOLEAN]
  /\ link \in [Requests -> Requests \union {None}]
  /\ outbox \in [Requests -> {"none", "buffered", "queued", "lost"}]
  /\ published \in [Requests -> Nat]
  /\ faults \in Nat

Init ==
  /\ PaymentsInit
  /\ proc = "running"
  /\ configured \in BOOLEAN
  /\ pc = [r \in Requests |-> "start"]
  /\ code = [r \in Requests |-> 0]
  /\ body = [r \in Requests |-> None]
  /\ row = [r \in Requests |-> FALSE]
  /\ items = [r \in Requests |-> FALSE]
  /\ link = [r \in Requests |-> None]
  /\ outbox = [r \in Requests |-> "none"]
  /\ published = [r \in Requests |-> 0]
  /\ faults = 0
-----------------------------------------------------------------------------
\* A handler takes a step only while its process is there.
At(r, label) == proc # "down" /\ pc[r] = label

Goto(r, label) == pc' = [pc EXCEPT ![r] = label] /\ UNCHANGED answers

Answer(r, status) ==
  /\ pc' = [pc EXCEPT ![r] = "answered"]
  /\ code' = [code EXCEPT ![r] = status]
  /\ UNCHANGED body

Created(r, o) ==
  /\ pc' = [pc EXCEPT ![r] = "answered"]
  /\ code' = [code EXCEPT ![r] = 201]
  /\ body' = [body EXCEPT ![r] = o]

Fault == faults < MaxFaults /\ faults' = faults + 1

OrdersOf(r) == {o \in Requests : row[o] /\ SameKey(o, r)}
-----------------------------------------------------------------------------
\* findOne by key: an order that exists, in whatever state, is the answer.
LookUp(r) ==
  /\ At(r, "start")
  /\ \/ \E o \in OrdersOf(r) : Created(r, o)
     \/ OrdersOf(r) = {} /\ ~configured /\ Answer(r, 400)
     \/ OrdersOf(r) = {} /\ configured /\ Goto(r, "insert")
  /\ UNCHANGED <<paymentVars, proc, configured, orderRows, messages, faults>>

\* A duplicate key or a dangling reference fails the transaction: a
\* QueryFailedError, which the exception filter answers with 500.
InsertRefused(r) ==
  /\ At(r, "insert")
  /\ OrdersOf(r) # {} \/ r \in BadRefs
  /\ Answer(r, 500)
  /\ UNCHANGED <<paymentVars, proc, configured, orderRows, messages, faults>>

\* (mutant) The column of the key is not unique.
InsertRowsAnyKey(r) ==
  /\ At(r, "insert")
  /\ r \notin BadRefs
  /\ row' = [row EXCEPT ![r] = TRUE]
  /\ items' = [items EXCEPT ![r] = TRUE]
  /\ UNCHANGED link

InsertRows(r) ==
  /\ At(r, "insert")
  /\ OrdersOf(r) = {}
  /\ r \notin BadRefs
  /\ row' = [row EXCEPT ![r] = TRUE]
  /\ items' = [items EXCEPT ![r] = TRUE]
  /\ UNCHANGED link

\* The order is stored and Authorize called, without an await in between.
InsertOrder(r) ==
  /\ InsertRows(r)
  /\ Goto(r, "waiting")
  /\ call' = [call EXCEPT ![r] = "called"]
  /\ UNCHANGED <<reply, payments, proc, configured, messages, faults>>

\* (mutant) The order is published without the payment's id.
AuthorizeAnsweredUnlinked(r) ==
  /\ At(r, "waiting")
  /\ \/ call[r] = "ok" /\ Goto(r, "publish")
     \/ call[r] = "error" /\ Goto(r, "deleteItems")
  /\ UNCHANGED <<paymentVars, proc, configured, orderRows, messages, faults>>

AuthorizeAnswered(r) ==
  /\ At(r, "waiting")
  /\ \/ call[r] = "ok" /\ Goto(r, "link")
     \/ call[r] = "error" /\ Goto(r, "deleteItems")
  /\ UNCHANGED <<paymentVars, proc, configured, orderRows, messages, faults>>

\* (mutant) The timer is still running after the order was published.
AuthorizeTimeoutLate(r) ==
  /\ At(r, "waiting") \/ (At(r, "answered") /\ body[r] = r)
  /\ Goto(r, "deleteItems")
  /\ UNCHANGED <<paymentVars, proc, configured, orderRows, messages, faults>>

\* (mutant) The timeout is answered without the rollback.
AuthorizeTimeoutKeepsOrder(r) ==
  /\ At(r, "waiting")
  /\ Answer(r, 400)
  /\ UNCHANGED <<paymentVars, proc, configured, orderRows, messages, faults>>

\* (mutant) There is no timeout, only the error of the call.
AuthorizeTimeoutNever(r) ==
  /\ At(r, "waiting")
  /\ call[r] = "error"
  /\ Goto(r, "deleteItems")
  /\ UNCHANGED <<paymentVars, proc, configured, orderRows, messages, faults>>

\* The rxjs timeout fires before an answer is seen, even if one is coming.
AuthorizeTimeout(r) ==
  /\ At(r, "waiting")
  /\ Goto(r, "deleteItems")
  /\ UNCHANGED <<paymentVars, proc, configured, orderRows, messages, faults>>

LinkPayment(r) ==
  /\ At(r, "link")
  /\ link' = [link EXCEPT ![r] = IF row[r] THEN reply[r] ELSE @]
  /\ Goto(r, "publish")
  /\ UNCHANGED <<paymentVars, proc, configured, row, items, messages, faults>>

\* sendToQueue buffers the message, or throws on a closed channel: a 500.
PublishOrder(r) ==
  /\ At(r, "publish")
  /\ \/ /\ proc = "running"
        /\ outbox' = [outbox EXCEPT ![r] = "buffered"]
        /\ published' = [published EXCEPT ![r] = @ + 1]
        /\ Created(r, r)
     \/ /\ proc = "deaf"
        /\ Answer(r, 500)
        /\ UNCHANGED messages
  /\ UNCHANGED <<paymentVars, proc, configured, orderRows, faults>>

\* The rollback of the catch block: two statements, no transaction.
RemoveItems(r) ==
  /\ At(r, "deleteItems")
  /\ items' = [items EXCEPT ![r] = FALSE]
  /\ UNCHANGED <<row, link>>

RemoveRow(r) ==
  /\ At(r, "deleteOrder")
  /\ row' = [row EXCEPT ![r] = FALSE]
  /\ link' = [link EXCEPT ![r] = None]
  /\ UNCHANGED items

\* (mutant) Only the items are deleted.
DeleteItemsOnly(r) ==
  /\ RemoveItems(r)
  /\ Answer(r, 400)
  /\ UNCHANGED <<paymentVars, proc, configured, messages, faults>>

DeleteItems(r) ==
  /\ RemoveItems(r)
  /\ Goto(r, "deleteOrder")
  /\ UNCHANGED <<paymentVars, proc, configured, messages, faults>>

DeleteOrder(r) ==
  /\ RemoveRow(r)
  /\ Answer(r, 400)
  /\ UNCHANGED <<paymentVars, proc, configured, messages, faults>>
-----------------------------------------------------------------------------
\* A statement fails, or is applied and its answer lost.  Where createOrder
\* catches the error it rolls back; elsewhere the request is answered 500.
StatementFails(r) ==
  /\ Fault
  /\ \/ /\ At(r, "start") \/ At(r, "insert") \/ At(r, "deleteItems") \/ At(r, "deleteOrder")
        /\ Answer(r, 500)
        /\ UNCHANGED orderRows
     \/ (InsertRows(r) \/ RemoveItems(r) \/ RemoveRow(r)) /\ Answer(r, 500)
     \/ /\ At(r, "link")
        /\ Goto(r, "deleteItems")
        /\ \/ UNCHANGED link
           \/ link' = [link EXCEPT ![r] = IF row[r] THEN reply[r] ELSE @]
        /\ UNCHANGED <<row, items>>
  /\ UNCHANGED <<paymentVars, proc, configured, messages>>

\* What is still buffered when the channel goes never reaches the broker.
DropBuffered ==
  outbox' = [r \in Requests |-> IF outbox[r] = "buffered" THEN "lost" ELSE outbox[r]]

LoseConnection ==
  /\ proc = "running"
  /\ proc' = "deaf"
  /\ DropBuffered
  /\ Fault
  /\ UNCHANGED <<paymentVars, configured, pc, answers, orderRows, published>>

Crash ==
  /\ proc # "down"
  /\ proc' = "down"
  /\ DropBuffered
  /\ Fault
  /\ pc' = [r \in Requests |-> IF pc[r] \in {"start", "answered"} THEN pc[r] ELSE "aborted"]
  /\ UNCHANGED <<paymentVars, configured, answers, orderRows, published>>

\* Somebody starts the process again; a deaf one is stopped first.
Restart ==
  /\ proc # "running"
  /\ proc' = "running"
  /\ pc' = [r \in Requests |-> IF pc[r] \in {"start", "answered"} THEN pc[r] ELSE "aborted"]
  /\ UNCHANGED <<paymentVars, configured, answers, orderRows, messages, faults>>

\* The message reaches the broker.
Flush(r) ==
  /\ proc = "running"
  /\ outbox[r] = "buffered"
  /\ outbox' = [outbox EXCEPT ![r] = "queued"]
  /\ UNCHANGED <<paymentVars, proc, configured, pc, answers, orderRows, published, faults>>

\* The payments service goes on, whether or not its caller still waits.
PaymentsStep(r) ==
  /\ \/ Authorize(r) /\ UNCHANGED faults
     \/ AuthorizeFails(r) /\ Fault
  /\ UNCHANGED <<proc, configured, pc, answers, orderRows, messages>>

Done == /\ proc # "down"
        /\ \A r \in Requests : pc[r] \in {"answered", "aborted"}
        /\ UNCHANGED vars
-----------------------------------------------------------------------------
Handle(r) ==
  \/ LookUp(r) \/ InsertRefused(r) \/ InsertOrder(r) \/ AuthorizeAnswered(r)
  \/ AuthorizeTimeout(r) \/ LinkPayment(r) \/ PublishOrder(r)
  \/ DeleteItems(r) \/ DeleteOrder(r)

Next ==
  \/ \E r \in Requests : Handle(r) \/ PaymentsStep(r) \/ Flush(r) \/ StatementFails(r)
  \/ LoseConnection \/ Crash \/ Restart \/ Done

Spec == Init /\ [][Next]_vars

\* The database and the timer answer every handler; nothing is assumed of
\* the payments service.
FairSpec == Spec /\ \A r \in Requests : WF_vars(Handle(r))
-----------------------------------------------------------------------------
\* An order whose message has been published is there to be fulfilled: the
\* row, its items, and a payment made under its key; no rollback, its own or
\* a repeated request's, takes it away.
PublishedComplete ==
  \A o \in Requests :
    published[o] > 0 => /\ row[o] /\ items[o]
                        /\ link[o] \in payments /\ SameKey(link[o], o)

\* What is asked for with one key is published once, however often the request is repeated and
\* whichever of the repetitions makes the order.
PublishedOnce ==
  \A o, p \in Requests :
    /\ published[o] <= 1
    /\ published[o] > 0 /\ published[p] > 0 /\ SameKey(o, p) => o = p

\* "... Order was not created.": a request answered 400 leaves no order, no
\* items and no message behind, whatever failed.
RefusalLeavesNothing ==
  \A r \in Requests : code[r] = 400 => ~row[r] /\ ~items[r] /\ published[r] = 0

\* An order that is left PENDING for ever, its handler gone and no message
\* published, is one that something failed for, and whose client was told so:
\* by a 500, or by no answer at all.  A timeout of the payment is no failure.
NoStrandedOrder ==
  \A o \in Requests :
    row[o] /\ pc[o] \in {"answered", "aborted"} /\ published[o] = 0 =>
      faults > 0 /\ code[o] \in {0, 500}

\* Concurrent requests with one key never make two payments.
OnePaymentPerKey == \A p, q \in payments : SameKey(p, q) => p = q

\* Every request that is taken up is answered, even if the payments service
\* never is heard of again, unless the process dies.
EveryRequestAnswered ==
  \A r \in Requests : pc[r] \notin {"start"} ~> pc[r] \in {"answered", "aborted"}

\* "A unique key to ensure idempotency of the order creation": requests with
\* one key that are answered 201 are answered with one order.
SameKeySameOrder ==
  \A r, s \in Requests :
    code[r] = 201 /\ code[s] = 201 /\ SameKey(r, s) => body[r] = body[s]
=============================================================================
