----------------------------- MODULE Fulfilment -----------------------------
(***************************************************************************)
(* What the orders service promises of the tables it writes, with no       *)
(* broker, no handlers and no locks.  An order is created PENDING and may  *)
(* be withdrawn while it is PENDING.  A message is taken at most once, and *)
(* in that one step its pending order becomes PROCESSED and every product  *)
(* gives what the order's items ask for, if there is enough of all.        *)
(***************************************************************************)
EXTENDS Integers

CONSTANTS Messages, Orders, Products, OrderOf, Demand, InitStock

VARIABLES order, stock, processed

Init ==
  /\ order \in [Orders -> {"ABSENT", "PENDING"}]
  /\ stock = InitStock
  /\ processed = {}

Fulfil(m) ==
  LET o == OrderOf[m] IN
  /\ m \notin processed
  /\ order[o] = "PENDING"
  /\ \A p \in Products : stock[p] >= Demand[o][p]
  /\ order' = [order EXCEPT ![o] = "PROCESSED"]
  /\ stock' = [p \in Products |-> stock[p] - Demand[o][p]]
  /\ processed' = processed \union {m}

Create(o) ==
  /\ order[o] = "ABSENT"
  /\ order' = [order EXCEPT ![o] = "PENDING"]
  /\ UNCHANGED <<stock, processed>>

Withdraw(o) ==
  /\ order[o] = "PENDING"
  /\ order' = [order EXCEPT ![o] = "ABSENT"]
  /\ UNCHANGED <<stock, processed>>

Next ==
  \/ \E m \in Messages : Fulfil(m)
  \/ \E o \in Orders : Create(o) \/ Withdraw(o)

Spec == Init /\ [][Next]_<<order, stock, processed>>
=============================================================================
