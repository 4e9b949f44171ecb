------------------------------ MODULE Payments ------------------------------
(***************************************************************************)
(* The payments service: PaymentsServiceService.authorize, run once per    *)
(* gRPC call, concurrently, against its own table of payments, whose       *)
(* idempotencyKey column is unique.  A call is named by the request of the *)
(* orders service that makes it, and a payment by the call that inserted   *)
(* it.  Every call carries a key (the orders service always sends one).    *)
(*                                                                         *)
(* A handler never learns that its caller has given up: the caller's       *)
(* timeout is no event here.                                               *)
(***************************************************************************)
EXTENDS Naturals, FiniteSets

CONSTANTS
  Requests,   \* the requests that may call
  None,       \* no payment
  KeyOf,      \* the idempotencyKey of each request
  AmountOf,   \* the sum of the quantities of each request
  UINT32      \* the number of values of the uint32 that carries the amount

ASSUME PaymentsAssumption ==
  /\ None \notin Requests
  /\ UINT32 \in Nat \ {0}

VARIABLES
  call,       \* where each call is
  reply,      \* the payment id a successful call is answered with
  payments    \* the payments in the table

paymentVars == <<call, reply, payments>>

PaymentsTypeOK ==
  /\ call \in [Requests -> {"none", "called", "inserting", "ok", "error"}]
  /\ reply \in [Requests -> Requests \union {None}]
  /\ payments \subseteq Requests

PaymentsInit ==
  /\ call = [c \in Requests |-> "none"]
  /\ reply = [c \in Requests |-> None]
  /\ payments = {}

SameKey(r, s) == KeyOf[r] = KeyOf[s]
PaymentsOf(c) == {p \in payments : SameKey(p, c)}

\* (mutant) The two fields of the answer are swapped.
SucceedSwapped(c, p) ==
  /\ call' = [call EXCEPT ![c] = "ok"]
  /\ reply' = [reply EXCEPT ![c] = "PAYMENT_STATUS_AUTHORIZED"]

Succeed(c, p) ==
  /\ call' = [call EXCEPT ![c] = "ok"]
  /\ reply' = [reply EXCEPT ![c] = p]

CallFails(c) == call' = [call EXCEPT ![c] = "error"] /\ UNCHANGED reply

\* !payload.amount: nothing to pay, once the sum has been cut to 32 bits.
MissingAmount(c) == AmountOf[c] % UINT32 = 0

RejectMissing(c) ==
  /\ call[c] = "called"
  /\ MissingAmount(c)
  /\ CallFails(c)
  /\ UNCHANGED payments

\* findOne by key: an existing payment is the answer.
FindExisting(c) ==
  /\ call[c] = "called"
  /\ ~MissingAmount(c)
  /\ IF PaymentsOf(c) # {}
       THEN \E p \in PaymentsOf(c) : Succeed(c, p)
       ELSE call' = [call EXCEPT ![c] = "inserting"] /\ UNCHANGED reply
  /\ UNCHANGED payments

\* (mutant) The column is not unique.
InsertPaymentAnyway(c) ==
  /\ call[c] = "inserting"
  /\ Succeed(c, c)
  /\ payments' = payments \union {c}

\* save: the unique key fails the insert when another call came first.
InsertPayment(c) ==
  /\ call[c] = "inserting"
  /\ IF PaymentsOf(c) # {}
       THEN CallFails(c) /\ UNCHANGED payments
       ELSE Succeed(c, c) /\ payments' = payments \union {c}

Authorize(c) == RejectMissing(c) \/ FindExisting(c) \/ InsertPayment(c)

\* The database, the process or the connection fails: an error for the
\* caller, before or after the insert.
AuthorizeFails(c) ==
  /\ call[c] \in {"called", "inserting"}
  /\ CallFails(c)
  /\ \/ UNCHANGED payments
     \/ /\ call[c] = "inserting"
        /\ PaymentsOf(c) = {}
        /\ payments' = payments \union {c}
=============================================================================
