------------------------ MODULE OrderCreationProofs ------------------------
(***************************************************************************)
(* Theorems about OrderCreation, for any requests, keys and amounts, and   *)
(* any number of failures.                                                 *)
(***************************************************************************)
EXTENDS OrderCreation, TLAPS

\* The order has a payment made under its key.
Paid(r) == link[r] \in payments /\ SameKey(link[r], r)

\* A call that succeeded is answered with a payment of its key.
RepliesValid ==
  \A r \in Requests : call[r] = "ok" => reply[r] \in payments /\ SameKey(reply[r], r)

\* What is there of an order while its handler is on its way.
RowsByPhase ==
  \A r \in Requests :
    /\ pc[r] \in {"start", "insert"} => ~row[r] /\ ~items[r]
    /\ pc[r] \in {"waiting", "link", "publish"} => row[r] /\ items[r]
    /\ pc[r] = "link" => call[r] = "ok"
    /\ pc[r] = "publish" => Paid(r)
    /\ pc[r] = "deleteOrder" => ~items[r]
    /\ pc[r] # "answered" => code[r] = 0
    /\ pc[r] # "answered" \/ code[r] # 201 => published[r] = 0
    /\ row[r] /\ code[r] = 201 => published[r] > 0

\* The unique column: one order for a key.
OneRowPerKey == \A r, s \in Requests : row[r] /\ row[s] /\ SameKey(r, s) => r = s

\* A process that does not run has failed.
FailedFirst == proc # "running" => faults > 0

CreationInv ==
  /\ TypeOK
  /\ RepliesValid
  /\ RowsByPhase
  /\ OneRowPerKey
  /\ FailedFirst
  /\ PublishedComplete
  /\ PublishedOnce
  /\ RefusalLeavesNothing
  /\ NoStrandedOrder
  /\ OnePaymentPerKey

\* The conjuncts about orders, for one request.
OrderOK(r) ==
  /\ pc[r] \in {"start", "insert"} => ~row[r] /\ ~items[r]
  /\ pc[r] \in {"waiting", "link", "publish"} => row[r] /\ items[r]
  /\ pc[r] = "link" => call[r] = "ok"
  /\ pc[r] = "publish" => Paid(r)
  /\ pc[r] = "deleteOrder" => ~items[r]
  /\ pc[r] # "answered" => code[r] = 0
  /\ pc[r] # "answered" \/ code[r] # 201 => published[r] = 0
  /\ published[r] > 0 => row[r] /\ items[r] /\ Paid(r)
  /\ row[r] /\ code[r] = 201 => published[r] > 0
  /\ published[r] <= 1
  /\ code[r] = 400 => ~row[r] /\ ~items[r] /\ published[r] = 0
  /\ row[r] /\ pc[r] \in {"answered", "aborted"} /\ published[r] = 0 =>
       faults > 0 /\ code[r] \in {0, 500}

\* The invariant, with what is said of orders said of each order.
LEMMA ByOrder ==
  CreationInv <=> /\ TypeOK /\ RepliesValid /\ FailedFirst /\ OneRowPerKey /\ OnePaymentPerKey
                  /\ \A r \in Requests : OrderOK(r)
<1>1. ASSUME \A r \in Requests : OrderOK(r), OneRowPerKey PROVE PublishedOnce
  BY <1>1 DEF PublishedOnce, OneRowPerKey, OrderOK
<1>2. CreationInv => \A r \in Requests : OrderOK(r)
  BY DEF CreationInv, RowsByPhase, PublishedComplete, PublishedOnce, RefusalLeavesNothing,
     NoStrandedOrder, OrderOK, Paid
<1> QED
  BY <1>1, <1>2 DEF CreationInv, RowsByPhase, PublishedComplete, RefusalLeavesNothing,
     NoStrandedOrder, OrderOK, Paid

LEMMA ByOrderNext ==
  CreationInv' <=> /\ TypeOK' /\ RepliesValid' /\ FailedFirst' /\ OneRowPerKey'
                   /\ OnePaymentPerKey' /\ \A r \in Requests : OrderOK(r)'
<1>1. ASSUME \A r \in Requests : OrderOK(r)', OneRowPerKey' PROVE PublishedOnce'
  BY <1>1 DEF PublishedOnce, OneRowPerKey, OrderOK
<1>2. CreationInv' => \A r \in Requests : OrderOK(r)'
  BY DEF CreationInv, RowsByPhase, PublishedComplete, PublishedOnce, RefusalLeavesNothing,
     NoStrandedOrder, OrderOK, Paid
<1> QED
  BY <1>1, <1>2 DEF CreationInv, RowsByPhase, PublishedComplete, RefusalLeavesNothing,
     NoStrandedOrder, OrderOK, Paid

\* The invariant holds at the start.
LEMMA InvAtStart == Init => CreationInv
<1> SUFFICES ASSUME Init PROVE CreationInv
  OBVIOUS
<1>1. TypeOK
  BY DEF Init, PaymentsInit, TypeOK, PaymentsTypeOK
<1>2. RepliesValid /\ FailedFirst /\ OneRowPerKey /\ OnePaymentPerKey
  BY DEF Init, PaymentsInit, RepliesValid, FailedFirst, OneRowPerKey, OnePaymentPerKey
<1>3. \A r \in Requests : OrderOK(r)
  BY DEF Init, PaymentsInit, OrderOK
<1> QED BY <1>1, <1>2, <1>3, ByOrder
-----------------------------------------------------------------------------
\* The payments service goes on: it only adds payments, at most one for a key.
LEMMA PaymentsKept ==
  ASSUME CreationInv, NEW r \in Requests, PaymentsStep(r)
  PROVE  CreationInv'
<1>0. /\ TypeOK /\ \A q \in Requests : OrderOK(q)
      /\ RepliesValid /\ FailedFirst /\ OneRowPerKey /\ OnePaymentPerKey
  BY ByOrder
<1>1. /\ UNCHANGED <<proc, configured, pc, code, body, row, items, link, outbox, published>>
      /\ faults' \in Nat /\ faults <= faults'
      /\ call[r] \in {"called", "inserting"}
      /\ \/ call' = [call EXCEPT ![r] = "inserting"] /\ UNCHANGED <<reply, payments>>
         \/ CallFails(r) /\ payments' = payments
         \/ \E p \in PaymentsOf(r) : Succeed(r, p) /\ payments' = payments
         \/ /\ PaymentsOf(r) = {} /\ payments' = payments \union {r}
            /\ CallFails(r) \/ Succeed(r, r)
  BY <1>0 DEF PaymentsStep, Authorize, RejectMissing, FindExisting, InsertPayment,
     AuthorizeFails, Fault, answers, orderRows, messages, TypeOK, PaymentsTypeOK
<1>2. TypeOK'
  BY <1>0, <1>1 DEF TypeOK, PaymentsTypeOK, CallFails, Succeed, PaymentsOf
<1>3. payments \subseteq payments'
  BY <1>1
<1>4. RepliesValid'
  BY <1>0, <1>1 DEF TypeOK, PaymentsTypeOK, RepliesValid, CallFails, Succeed, PaymentsOf, SameKey
<1>5. OneRowPerKey' /\ OnePaymentPerKey'
  BY <1>0, <1>1 DEF OneRowPerKey, OnePaymentPerKey, PaymentsOf, SameKey
<1>6. FailedFirst'
  BY <1>0, <1>1 DEF FailedFirst, TypeOK
<1>7. \A q \in Requests : call[q] = "ok" => call'[q] = "ok"
  BY <1>0, <1>1 DEF TypeOK, PaymentsTypeOK, CallFails, Succeed
<1>8. \A q \in Requests : OrderOK(q)'
  BY <1>0, <1>1, <1>3, <1>7 DEF OrderOK, Paid, TypeOK
<1> QED BY <1>2, <1>4, <1>5, <1>6, <1>8, ByOrderNext
-----------------------------------------------------------------------------
\* A request is looked up, or answered before it has touched a row.
LEMMA LookUpStep ==
  ASSUME CreationInv, NEW r \in Requests, LookUp(r) \/ InsertRefused(r)
  PROVE  CreationInv'
<1>0. /\ TypeOK /\ \A q \in Requests : OrderOK(q)
      /\ RepliesValid /\ FailedFirst /\ OneRowPerKey /\ OnePaymentPerKey
  BY ByOrder
<1>1. /\ UNCHANGED <<call, reply, payments, proc, configured, row, items, link,
                     outbox, published, faults>>
      /\ pc[r] \in {"start", "insert"}
      /\ \/ \E o \in Requests : Created(r, o)
         \/ \E status \in {400, 500} : Answer(r, status)
         \/ Goto(r, "insert")
  BY DEF LookUp, InsertRefused, At, OrdersOf, paymentVars, orderRows, messages
<1>2. TypeOK'
  BY <1>0, <1>1 DEF TypeOK, PaymentsTypeOK, Created, Answer, Goto, answers
<1>3. RepliesValid' /\ FailedFirst' /\ OneRowPerKey' /\ OnePaymentPerKey'
  BY <1>0, <1>1 DEF RepliesValid, FailedFirst, OneRowPerKey, OnePaymentPerKey
<1>4. OrderOK(r)'
  BY <1>0, <1>1 DEF TypeOK, OrderOK, Paid, Created, Answer, Goto, answers
<1>5. \A q \in Requests \ {r} : OrderOK(q)'
  BY <1>0, <1>1 DEF TypeOK, OrderOK, Paid, Created, Answer, Goto, answers
<1> QED BY <1>2, <1>3, <1>4, <1>5, ByOrderNext

\* The order and its items are inserted and the payments service called.
LEMMA InsertStep ==
  ASSUME CreationInv, NEW r \in Requests, InsertOrder(r)
  PROVE  CreationInv'
<1>0. /\ TypeOK /\ \A q \in Requests : OrderOK(q)
      /\ RepliesValid /\ FailedFirst /\ OneRowPerKey /\ OnePaymentPerKey
  BY ByOrder
<1>1. /\ UNCHANGED <<reply, payments, proc, configured, code, body, link,
                     outbox, published, faults>>
      /\ pc[r] = "insert" /\ pc' = [pc EXCEPT ![r] = "waiting"]
      /\ row' = [row EXCEPT ![r] = TRUE] /\ items' = [items EXCEPT ![r] = TRUE]
      /\ call' = [call EXCEPT ![r] = "called"]
      /\ \A o \in Requests : ~(row[o] /\ SameKey(o, r))
  BY DEF InsertOrder, InsertRows, OrdersOf, Goto, At, answers, messages
<1>2. TypeOK'
  BY <1>0, <1>1 DEF TypeOK, PaymentsTypeOK
<1>3. RepliesValid' /\ FailedFirst' /\ OnePaymentPerKey'
  BY <1>0, <1>1 DEF TypeOK, PaymentsTypeOK, RepliesValid, FailedFirst, OnePaymentPerKey
<1>6. OneRowPerKey'
  BY <1>0, <1>1 DEF TypeOK, OneRowPerKey, SameKey
<1>4. OrderOK(r)'
  BY <1>0, <1>1 DEF TypeOK, OrderOK, Paid
<1>5. \A q \in Requests \ {r} : OrderOK(q)'
  BY <1>0, <1>1 DEF TypeOK, PaymentsTypeOK, OrderOK, Paid
<1> QED BY <1>2, <1>3, <1>4, <1>5, <1>6, ByOrderNext

\* The payment is answered, given up, or linked.
LEMMA PaymentStep ==
  ASSUME CreationInv, NEW r \in Requests,
         AuthorizeAnswered(r) \/ AuthorizeTimeout(r) \/ LinkPayment(r)
  PROVE  CreationInv'
<1>0. /\ TypeOK /\ \A q \in Requests : OrderOK(q)
      /\ RepliesValid /\ FailedFirst /\ OneRowPerKey /\ OnePaymentPerKey
  BY ByOrder
<1>1. /\ UNCHANGED <<call, reply, payments, proc, configured, code, body, row, items,
                     outbox, published, faults>>
      /\ \/ /\ pc[r] = "waiting" /\ link' = link
            /\ \/ call[r] = "ok" /\ pc' = [pc EXCEPT ![r] = "link"]
               \/ pc' = [pc EXCEPT ![r] = "deleteItems"]
         \/ /\ pc[r] = "link" /\ pc' = [pc EXCEPT ![r] = "publish"]
            /\ link' = [link EXCEPT ![r] = IF row[r] THEN reply[r] ELSE link[r]]
  BY DEF AuthorizeAnswered, AuthorizeTimeout, LinkPayment, Goto, At, answers, paymentVars,
     orderRows, messages
<1>2. TypeOK'
  BY <1>0, <1>1 DEF TypeOK, PaymentsTypeOK
<1>3. RepliesValid' /\ FailedFirst' /\ OneRowPerKey' /\ OnePaymentPerKey'
  BY <1>0, <1>1 DEF RepliesValid, FailedFirst, OneRowPerKey, OnePaymentPerKey
<1>4. OrderOK(r)'
  <2>1. pc[r] = "link" =>
          row[r] /\ items[r] /\ reply[r] \in payments /\ SameKey(reply[r], r)
    BY <1>0 DEF OrderOK, RepliesValid
  <2> QED BY <1>0, <1>1, <2>1 DEF TypeOK, OrderOK, Paid, SameKey
<1>5. \A q \in Requests \ {r} : OrderOK(q)'
  BY <1>0, <1>1 DEF TypeOK, OrderOK, Paid
<1> QED BY <1>2, <1>3, <1>4, <1>5, ByOrderNext

\* The order is published and answered, or its channel is gone.
LEMMA PublishStep ==
  ASSUME CreationInv, NEW r \in Requests, PublishOrder(r)
  PROVE  CreationInv'
<1>0. /\ TypeOK /\ \A q \in Requests : OrderOK(q)
      /\ RepliesValid /\ FailedFirst /\ OneRowPerKey /\ OnePaymentPerKey
  BY ByOrder
<1>1. /\ UNCHANGED <<call, reply, payments, proc, configured, row, items, link, faults>>
      /\ pc[r] = "publish" /\ pc' = [pc EXCEPT ![r] = "answered"]
      /\ \/ /\ outbox' = [outbox EXCEPT ![r] = "buffered"]
            /\ published' = [published EXCEPT ![r] = @ + 1]
            /\ code' = [code EXCEPT ![r] = 201] /\ body' = [body EXCEPT ![r] = r]
         \/ /\ proc = "deaf" /\ code' = [code EXCEPT ![r] = 500]
            /\ UNCHANGED <<body, outbox, published>>
  BY DEF PublishOrder, Created, Answer, At, paymentVars, orderRows, messages
<1>2. published[r] = 0 /\ row[r] /\ items[r] /\ Paid(r)
  BY <1>0, <1>1 DEF OrderOK
<1>3. TypeOK'
  BY <1>0, <1>1, <1>2 DEF TypeOK, PaymentsTypeOK
<1>4. RepliesValid' /\ FailedFirst' /\ OneRowPerKey' /\ OnePaymentPerKey'
  BY <1>0, <1>1 DEF RepliesValid, FailedFirst, OneRowPerKey, OnePaymentPerKey
<1>5. OrderOK(r)'
  BY <1>0, <1>1, <1>2 DEF TypeOK, OrderOK, Paid, FailedFirst
<1>6. \A q \in Requests \ {r} : OrderOK(q)'
  BY <1>0, <1>1 DEF TypeOK, OrderOK, Paid
<1> QED BY <1>3, <1>4, <1>5, <1>6, ByOrderNext

\* The rollback deletes the items, and then the order.
LEMMA RollbackStep ==
  ASSUME CreationInv, NEW r \in Requests, DeleteItems(r) \/ DeleteOrder(r)
  PROVE  CreationInv'
<1>0. /\ TypeOK /\ \A q \in Requests : OrderOK(q)
      /\ RepliesValid /\ FailedFirst /\ OneRowPerKey /\ OnePaymentPerKey
  BY ByOrder
<1>1. /\ UNCHANGED <<call, reply, payments, proc, configured, body, outbox, published, faults>>
      /\ \/ /\ pc[r] = "deleteItems" /\ pc' = [pc EXCEPT ![r] = "deleteOrder"]
            /\ items' = [items EXCEPT ![r] = FALSE] /\ UNCHANGED <<row, link, code>>
         \/ /\ pc[r] = "deleteOrder" /\ pc' = [pc EXCEPT ![r] = "answered"]
            /\ row' = [row EXCEPT ![r] = FALSE] /\ link' = [link EXCEPT ![r] = None]
            /\ code' = [code EXCEPT ![r] = 400] /\ items' = items
  BY DEF DeleteItems, DeleteOrder, RemoveItems, RemoveRow, Goto, Answer, At, answers,
     paymentVars, messages
<1>2. TypeOK'
  <2>1. CASE pc[r] = "deleteItems"
    <3>1. /\ pc' = [pc EXCEPT ![r] = "deleteOrder"]
          /\ items' = [items EXCEPT ![r] = FALSE] /\ UNCHANGED <<row, link, code>>
      BY <1>1, <2>1
    <3> QED BY <1>0, <1>1, <3>1 DEF TypeOK, PaymentsTypeOK
  <2>2. CASE pc[r] = "deleteOrder"
    <3>1. /\ pc' = [pc EXCEPT ![r] = "answered"] /\ code' = [code EXCEPT ![r] = 400]
          /\ row' = [row EXCEPT ![r] = FALSE] /\ link' = [link EXCEPT ![r] = None]
          /\ items' = items
      BY <1>1, <2>2
    <3> QED BY <1>0, <1>1, <3>1 DEF TypeOK, PaymentsTypeOK
  <2> QED BY <1>1, <2>1, <2>2
<1>3. RepliesValid' /\ FailedFirst' /\ OneRowPerKey' /\ OnePaymentPerKey'
  <2>1. \A q \in Requests : row'[q] => row[q]
    BY <1>0, <1>1 DEF TypeOK
  <2> QED
    BY <1>0, <1>1, <2>1 DEF RepliesValid, FailedFirst, OneRowPerKey, OnePaymentPerKey
<1>4. published[r] = 0 /\ (pc[r] = "deleteOrder" => ~items[r])
  BY <1>0, <1>1 DEF OrderOK
<1>5. OrderOK(r)'
  BY <1>0, <1>1, <1>4 DEF TypeOK, OrderOK, Paid
<1>6. \A q \in Requests \ {r} : OrderOK(q)'
  BY <1>0, <1>1 DEF TypeOK, OrderOK, Paid
<1> QED BY <1>2, <1>3, <1>5, <1>6, ByOrderNext
-----------------------------------------------------------------------------
\* A statement fails: the request is answered 500 or rolled back.
LEMMA StatementStep ==
  ASSUME CreationInv, NEW r \in Requests, StatementFails(r)
  PROVE  CreationInv'
<1>0. /\ TypeOK /\ \A q \in Requests : OrderOK(q)
      /\ RepliesValid /\ FailedFirst /\ OneRowPerKey /\ OnePaymentPerKey
  BY ByOrder
<1>1. /\ UNCHANGED <<call, reply, payments, proc, configured, body, outbox, published>>
      /\ faults' = faults + 1
      /\ pc[r] # "answered"
      /\ \/ pc' = [pc EXCEPT ![r] = "answered"] /\ code' = [code EXCEPT ![r] = 500]
         \/ /\ pc[r] = "link" /\ pc' = [pc EXCEPT ![r] = "deleteItems"] /\ code' = code
  BY DEF StatementFails, Fault, InsertRows, RemoveItems, RemoveRow, Goto, Answer, At, answers,
     paymentVars, messages
<1>2. /\ row' \in [Requests -> BOOLEAN] /\ items' \in [Requests -> BOOLEAN]
      /\ link' \in [Requests -> Requests \union {None}]
      /\ \A q \in Requests \ {r} : row'[q] = row[q] /\ items'[q] = items[q] /\ link'[q] = link[q]
      /\ row'[r] => row[r] \/ \A o \in Requests : ~(row[o] /\ SameKey(o, r))
  <2>1. CASE UNCHANGED orderRows
    BY <1>0, <2>1 DEF TypeOK, orderRows
  <2>2. CASE InsertRows(r)
    BY <1>0, <2>2 DEF TypeOK, InsertRows, OrdersOf
  <2>3. CASE RemoveItems(r)
    BY <1>0, <2>3 DEF TypeOK, RemoveItems
  <2>4. CASE RemoveRow(r)
    BY <1>0, <2>4 DEF TypeOK, RemoveRow
  <2>5. CASE /\ UNCHANGED <<row, items>>
             /\ \/ UNCHANGED link
                \/ link' = [link EXCEPT ![r] = IF row[r] THEN reply[r] ELSE @]
    BY <1>0, <2>5 DEF TypeOK, PaymentsTypeOK
  <2> QED BY <2>1, <2>2, <2>3, <2>4, <2>5 DEF StatementFails
<1>3. TypeOK'
  BY <1>0, <1>1, <1>2 DEF TypeOK, PaymentsTypeOK
<1>4. RepliesValid' /\ FailedFirst' /\ OneRowPerKey' /\ OnePaymentPerKey'
  <2>1. OneRowPerKey'
    BY <1>0, <1>2 DEF OneRowPerKey, SameKey
  <2> QED
    BY <1>0, <1>1, <2>1 DEF TypeOK, RepliesValid, FailedFirst, OnePaymentPerKey
<1>5. published[r] = 0 /\ faults \in Nat
  BY <1>0, <1>1 DEF OrderOK, TypeOK
<1>6. OrderOK(r)'
  BY <1>0, <1>1, <1>2, <1>5 DEF TypeOK, OrderOK, Paid
<1>7. \A q \in Requests \ {r} : OrderOK(q)'
  BY <1>0, <1>1, <1>2 DEF TypeOK, OrderOK, Paid
<1> QED BY <1>3, <1>4, <1>6, <1>7, ByOrderNext

\* The connection or the process goes, or the process comes back: what is in progress ends.
LEMMA ProcessStep ==
  ASSUME CreationInv, LoseConnection \/ Crash \/ Restart
  PROVE  CreationInv'
<1>0. /\ TypeOK /\ \A q \in Requests : OrderOK(q)
      /\ RepliesValid /\ FailedFirst /\ OneRowPerKey /\ OnePaymentPerKey
  BY ByOrder
<1>1. /\ UNCHANGED <<call, reply, payments, configured, code, body, row, items, link, published>>
      /\ faults' \in Nat /\ faults' > 0 /\ proc' \in {"running", "deaf", "down"}
      /\ \/ pc' = pc
         \/ pc' = [q \in Requests |-> IF pc[q] \in {"start", "answered"} THEN pc[q] ELSE "aborted"]
      /\ outbox' = outbox \/ DropBuffered
  BY <1>0 DEF LoseConnection, Crash, Restart, Fault, answers, orderRows, messages, paymentVars,
     TypeOK, FailedFirst
<1>2. TypeOK'
  BY <1>0, <1>1 DEF TypeOK, PaymentsTypeOK, DropBuffered
<1>3. RepliesValid' /\ FailedFirst' /\ OneRowPerKey' /\ OnePaymentPerKey'
  BY <1>0, <1>1 DEF RepliesValid, FailedFirst, OneRowPerKey, OnePaymentPerKey
<1>4. \A q \in Requests : OrderOK(q)'
  BY <1>0, <1>1 DEF TypeOK, OrderOK, Paid
<1> QED BY <1>2, <1>3, <1>4, ByOrderNext

\* Every step keeps the invariant.
LEMMA InvStep == CreationInv /\ [Next]_vars => CreationInv'
<1> SUFFICES ASSUME CreationInv, [Next]_vars PROVE CreationInv'
  OBVIOUS
<1>1. ASSUME NEW r \in Requests, Handle(r) PROVE CreationInv'
  BY <1>1, LookUpStep, InsertStep, PaymentStep, PublishStep, RollbackStep DEF Handle
<1>2. ASSUME NEW r \in Requests, PaymentsStep(r) PROVE CreationInv'
  BY <1>2, PaymentsKept
<1>3. ASSUME NEW r \in Requests, StatementFails(r) PROVE CreationInv'
  BY <1>3, StatementStep
<1>4. ASSUME NEW r \in Requests, Flush(r) PROVE CreationInv'
  <2>0. TypeOK /\ (\A q \in Requests : OrderOK(q)) /\ RepliesValid /\ FailedFirst
          /\ OneRowPerKey /\ OnePaymentPerKey
    BY ByOrder
  <2>1. /\ UNCHANGED <<call, reply, payments, proc, configured, pc, code, body, row, items, link,
                       published, faults>>
        /\ outbox' = [outbox EXCEPT ![r] = "queued"]
    BY <1>4 DEF Flush, paymentVars, answers, orderRows
  <2>2. TypeOK'
    BY <2>0, <2>1 DEF TypeOK, PaymentsTypeOK
  <2>3. RepliesValid' /\ FailedFirst' /\ OneRowPerKey' /\ OnePaymentPerKey'
        /\ \A q \in Requests : OrderOK(q)'
    BY <2>0, <2>1 DEF RepliesValid, FailedFirst, OneRowPerKey, OnePaymentPerKey, OrderOK, Paid
  <2> QED BY <2>2, <2>3, ByOrderNext
<1>5. CASE LoseConnection \/ Crash \/ Restart
  BY <1>5, ProcessStep
<1>6. CASE UNCHANGED vars
  BY <1>6 DEF vars, CreationInv, TypeOK, PaymentsTypeOK, RepliesValid, RowsByPhase, Paid, FailedFirst,
     OneRowPerKey, PublishedComplete, PublishedOnce, RefusalLeavesNothing,
     NoStrandedOrder, OnePaymentPerKey
<1> QED BY <1>1, <1>2, <1>3, <1>4, <1>5, <1>6 DEF Next, Done
-----------------------------------------------------------------------------
(***************************************************************************)
(* What OrderFlow's proofs need of this half.                              *)
(***************************************************************************)

\* Failures elsewhere in the process disturb nothing here.
LEMMA FaultsElsewhere ==
  ASSUME CreationInv, faults' \in Nat, faults' >= faults,
         UNCHANGED <<call, reply, payments, proc, configured, pc, code, body, row, items, link,
                     outbox, published>>
  PROVE  CreationInv'
<1>0. /\ TypeOK /\ \A q \in Requests : OrderOK(q)
      /\ RepliesValid /\ FailedFirst /\ OneRowPerKey /\ OnePaymentPerKey
  BY ByOrder
<1>1. TypeOK'
  BY <1>0 DEF TypeOK, PaymentsTypeOK
<1>2. faults' = 0 => faults = 0
  BY <1>0 DEF TypeOK
<1>3. RepliesValid' /\ FailedFirst' /\ OneRowPerKey' /\ OnePaymentPerKey'
  BY <1>0, <1>2 DEF RepliesValid, FailedFirst, OneRowPerKey, OnePaymentPerKey, TypeOK
<1>4. \A q \in Requests : OrderOK(q)'
  BY <1>0, <1>2 DEF OrderOK, Paid
<1> QED BY <1>1, <1>3, <1>4, ByOrderNext

\* A handler stores and withdraws its own order only, and what it buffers it has published.
LEMMA OwnOrderOnly ==
  ASSUME TypeOK, NEW r \in Requests, Handle(r) \/ PaymentsStep(r) \/ StatementFails(r)
  PROVE  /\ proc' = proc /\ faults' \in Nat
         /\ \A q \in Requests \ {r} : row'[q] = row[q]
         /\ \A q \in Requests : published[q] > 0 => published'[q] > 0
         /\ \A q \in Requests : outbox'[q] # "none" => outbox[q] # "none" \/ published'[q] > 0
<1> USE DEF TypeOK, answers, orderRows, messages, paymentVars
<1>1. CASE LookUp(r) \/ InsertRefused(r) \/ AuthorizeAnswered(r) \/ AuthorizeTimeout(r)
  BY <1>1 DEF LookUp, InsertRefused, AuthorizeAnswered, AuthorizeTimeout
<1>2. CASE InsertOrder(r)
  BY <1>2 DEF InsertOrder, InsertRows
<1>3. CASE LinkPayment(r)
  BY <1>3 DEF LinkPayment
<1>4. CASE PublishOrder(r)
  BY <1>4 DEF PublishOrder
<1>5. CASE DeleteItems(r) \/ DeleteOrder(r)
  BY <1>5 DEF DeleteItems, DeleteOrder, RemoveItems, RemoveRow
<1>6. CASE PaymentsStep(r)
  BY <1>6 DEF PaymentsStep, Fault
<1>7. CASE StatementFails(r)
  BY <1>7 DEF StatementFails, InsertRows, RemoveItems, RemoveRow, Fault
<1> QED BY <1>1, <1>2, <1>3, <1>4, <1>5, <1>6, <1>7 DEF Handle

\* An order that its own request is answered with is buffered by that same step, and what a
\* handler buffers is new: it takes nothing out of the channel.
LEMMA BufferedWhenAnswered ==
  ASSUME CreationInv, NEW r \in Requests, Handle(r) \/ PaymentsStep(r) \/ StatementFails(r)
  PROVE  /\ \A o \in Requests : outbox'[o] = outbox[o] \/ outbox'[o] = "buffered"
         /\ \A o \in Requests : body'[o] = o => body[o] = o \/ outbox'[o] = "buffered"
         /\ faults' >= faults
<1> USE DEF TypeOK, answers, orderRows, messages, paymentVars, Goto, Answer
<1>0. TypeOK /\ RowsByPhase
  BY DEF CreationInv
<1>1. CASE LookUp(r)
  <2>1. r \notin OrdersOf(r)
    BY <1>0, <1>1 DEF RowsByPhase, LookUp, At, OrdersOf
  <2>2. UNCHANGED <<outbox, faults>> /\ \A o \in Requests : body'[o] = body[o] \/ o = r
    BY <1>0, <1>1 DEF LookUp, Created
  <2>3. body'[r] = r => body[r] = r
    BY <1>0, <1>1, <2>1 DEF LookUp, Created
  <2> QED BY <1>0, <2>2, <2>3
<1>2. CASE InsertRefused(r) \/ AuthorizeAnswered(r) \/ AuthorizeTimeout(r)
  BY <1>0, <1>2 DEF InsertRefused, AuthorizeAnswered, AuthorizeTimeout
<1>3. CASE InsertOrder(r)
  BY <1>0, <1>3 DEF InsertOrder, InsertRows
<1>4. CASE LinkPayment(r)
  BY <1>0, <1>4 DEF LinkPayment
<1>5. CASE PublishOrder(r)
  BY <1>0, <1>5 DEF PublishOrder, Created
<1>6. CASE DeleteItems(r) \/ DeleteOrder(r)
  BY <1>0, <1>6 DEF DeleteItems, DeleteOrder, RemoveItems, RemoveRow
<1>7. CASE PaymentsStep(r)
  BY <1>0, <1>7 DEF PaymentsStep, Fault
<1>8. CASE StatementFails(r)
  BY <1>0, <1>8 DEF StatementFails, InsertRows, RemoveItems, RemoveRow, Fault
<1> QED BY <1>1, <1>2, <1>3, <1>4, <1>5, <1>6, <1>7, <1>8 DEF Handle
-----------------------------------------------------------------------------
\* The invariant holds throughout.
LEMMA InvAlways == Spec => []CreationInv
BY InvAtStart, InvStep, PTL DEF Spec
-----------------------------------------------------------------------------
\* Every variable of createOrder and of the payments service keeps its type.
THEOREM CreationTypeCorrect == Spec => []TypeOK
<1>1. CreationInv => TypeOK
  BY DEF CreationInv
<1> QED BY <1>1, InvAlways, PTL

\* createOrder publishes last: an order whose message has been published stays stored, with its
\* items and a payment made under its key, whatever is rolled back, repeated or lost.
THEOREM PublishedStays == Spec => []PublishedComplete
<1>1. CreationInv => PublishedComplete
  BY DEF CreationInv
<1> QED BY <1>1, InvAlways, PTL

\* createOrder publishes one order for a key, and once, however often the request is repeated.
THEOREM NeverPublishedTwice == Spec => []PublishedOnce
<1>1. CreationInv => PublishedOnce
  BY DEF CreationInv
<1> QED BY <1>1, InvAlways, PTL

\* The rollback of createOrder: what is answered 400 has left no order, no items and no message.
THEOREM RefusalsClean == Spec => []RefusalLeavesNothing
<1>1. CreationInv => RefusalLeavesNothing
  BY DEF CreationInv
<1> QED BY <1>1, InvAlways, PTL

\* Only a failure that the client hears of, or is not answered for, leaves an order that is stored
\* and not published; no timeout of the payment does.
THEOREM StrandedByFailureOnly == Spec => []NoStrandedOrder
<1>1. CreationInv => NoStrandedOrder
  BY DEF CreationInv
<1> QED BY <1>1, InvAlways, PTL

\* PaymentsServiceService.authorize makes one payment for a key, however many calls race.
THEOREM OnePayment == Spec => []OnePaymentPerKey
<1>1. CreationInv => OnePaymentPerKey
  BY DEF CreationInv
<1> QED BY <1>1, InvAlways, PTL
=============================================================================
