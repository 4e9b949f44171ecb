---------------------------- MODULE OrderQueries ----------------------------
(***************************************************************************)
(* A client reads the list of orders page by page through GraphQL          *)
(* (OrderResolver, OrdersService.getOrders, DataLoaderFactory), while      *)
(* orders are created, withdrawn and processed, and couriers assigned.     *)
(*                                                                         *)
(* Nothing is read in a transaction.  A page is two statements of          *)
(* findAndCount, the ids of the page and then the rows of these ids, and   *)
(* the fields of its orders are read by further ones: one per field for    *)
(* the whole page when ctx.strategy is "optimized", one per field and      *)
(* order when it is "simple".  Orders are sorted newest first; TypeORM     *)
(* sorts what was created at once by id, so no two share a place.  The     *)
(* total of an answer and the products of the items are left out.          *)
(***************************************************************************)
EXTENDS Naturals, FiniteSets, FiniteSetsExt, SequencesExt, Functions

CONSTANTS
  Orders,
  CreatedAt,     \* the place of each in the order of their creation
  CustomerOf,    \* its user_id
  ItemCount,     \* how many items it has
  Present,       \* the orders there are at the beginning
  Filters,       \* records of a status, or "any", and two dates, both inclusive
  Assignments,   \* the requests to set an order's courier
  Limits,        \* what a client asks for at once
  FirstPages,    \* the page a client begins with
  NoUser         \* null

ItemsOf(o) == {o} \X (1..ItemCount[o])

ASSUME QueriesAssumption ==
  /\ IsFiniteSet(Orders)
  /\ IsInjective(CreatedAt) /\ CreatedAt \in [Orders -> Nat]
  /\ DOMAIN CustomerOf = Orders
  /\ ItemCount \in [Orders -> Nat \ {0}]
  /\ Present \subseteq Orders
  /\ Limits \subseteq Nat \ {0}
  /\ FirstPages \subseteq {0, 1}
  /\ NoUser \notin Range(CustomerOf)

\* The order of the page: ORDER BY created_at DESC.
NewestFirst(S) ==
  CHOOSE s \in [1..Cardinality(S) -> S] :
    \A i, j \in DOMAIN s : i < j => CreatedAt[s[i]] > CreatedAt[s[j]]

VARIABLES
  orders,        \* the order rows ...
  processed,     \* ... those of them PROCESSED; the others are PENDING
  creation,      \* how far createOrder is with each, and whether the worker has had it
  copies,        \* the orders, with their status, that assignments have read and will save
  requests,      \* the assignments still to come
  items,         \* the item rows, pairs of an order and a number
  customers,     \* the user rows
  filter, limit, \* what the client asks for, the same for every page
  page,          \* the page it asks for next
  pc,            \* where the request for a page is
  strategy,      \* how its fields are resolved
  ids,           \* the ids of the page, newest first
  listed,        \* the rows of these ids
  gotItems,      \* the items field of listed orders, where it is resolved
  gotUser,       \* their user field
  seen,          \* the orders the client was answered
  atStart,       \* history: the orders that matched when the first page was read
  left,          \* history: the orders that matched at some time since and then did not
  departures     \* history: how many times one of them did

tables == <<orders, processed, items, customers>>
writers == <<creation, copies, requests>>
departed == <<left, departures>>
question == <<filter, limit>>
answer == <<ids, listed, gotItems, gotUser>>
elsewhere == <<tables, writers, question, departed>>
vars == <<elsewhere, page, pc, strategy, answer, seen, atStart>>

Status(o) == IF o \in processed THEN "PROCESSED" ELSE "PENDING"


TypeOK ==
  /\ orders \subseteq Orders
  /\ processed \subseteq orders
  /\ items \subseteq UNION {ItemsOf(o) : o \in orders}
  /\ {CustomerOf[o] : o \in orders} \subseteq customers
  /\ creation \in [Orders -> {"none", "stored", "failed", "withdrawn", "handled"}]
  /\ copies \subseteq Assignments \X Orders \X {"PENDING", "PROCESSED"}
  /\ requests \subseteq Assignments
  /\ filter \in Filters /\ limit \in Limits
  /\ page \in 0..(Cardinality(Orders) + 2)
  /\ pc \in {"start", "ask", "rows", "fields", "done"}
  /\ strategy \in {"optimized", "simple"}
  /\ ids \in BoundedSeq(Orders, limit) /\ IsInjective(ids)
  /\ Range(listed) \subseteq Range(ids) /\ listed = NewestFirst(Range(listed))
  /\ DOMAIN gotItems \subseteq Range(listed) /\ DOMAIN gotUser \subseteq Range(listed)
  /\ seen \subseteq Orders /\ atStart \subseteq Orders /\ left \subseteq Orders
  /\ departures \in Nat

Init ==
  /\ orders = Present
  /\ processed = {}
  /\ items = UNION {ItemsOf(o) : o \in Present}
  /\ customers = Range(CustomerOf)
  /\ creation = [o \in Orders |-> IF o \in Present THEN "stored" ELSE "none"]
  /\ copies = {} /\ requests = Assignments
  /\ filter \in Filters
  /\ limit \in Limits
  /\ page \in FirstPages
  /\ pc = "start"
  /\ strategy = "optimized"
  /\ ids = <<>> /\ listed = <<>> /\ gotItems = <<>> /\ gotUser = <<>>
  /\ seen = {} /\ atStart = {} /\ left = {} /\ departures = 0
-----------------------------------------------------------------------------
\* The where of getOrders; a date that is not given bounds nothing.
Matches(o) ==
  /\ filter.status \in {"any", Status(o)}
  /\ CreatedAt[o] \in filter.from..filter.to

Matching == {o \in orders : Matches(o)}

\* (mutant) Pages are counted from 0.
SkipFromZero == page * limit

\* A page of 0 counts as one that is not given.
Skip == (Max({1, IF page = 0 THEN 1 ELSE page}) - 1) * limit

\* The statement of the ids.  Root fields set ctx.strategy before they wait, so it is settled by
\* the last of a query; the client begins with the orders that match now.
ReadIds ==
  /\ pc \in {"start", "ask"}
  /\ ids' = SubSeq(NewestFirst(Matching), Skip + 1, Min({Skip + limit, Cardinality(Matching)}))
  /\ strategy' \in {"optimized", "simple"}
  /\ atStart' = IF pc = "start" THEN Matching ELSE atStart
  /\ pc' = "rows"
  /\ UNCHANGED <<elsewhere, page, listed, gotItems, gotUser, seen>>

\* (mutant) The rows are read without the ids of the page.
ReadRowsOfAll ==
  /\ pc = "rows"
  /\ listed' = NewestFirst(Matching)
  /\ pc' = "fields"
  /\ UNCHANGED <<elsewhere, page, strategy, ids, gotItems, gotUser, seen, atStart>>

\* The statement of the rows repeats the where: what has left since is not replaced.
ReadRows ==
  /\ pc = "rows"
  /\ listed' = NewestFirst(Range(ids) \intersect Matching)
  /\ pc' = "fields"
  /\ UNCHANGED <<elsewhere, page, strategy, ids, gotItems, gotUser, seen, atStart>>
-----------------------------------------------------------------------------
ItemsFound(o) == {r \in items : r[1] = o}
UserFound(u) == IF u \in customers THEN u ELSE NoUser

\* (mutant) The groups are answered in the order in which their rows are found.
ItemsLoaderAsFound(keys) == [i \in DOMAIN keys |-> ItemsFound(Reverse(keys)[i])]

\* A batch answers each of its keys, at the place of the key, whatever its statement finds.
ItemsLoader(keys) == [i \in DOMAIN keys |-> ItemsFound(keys[i])]
UserLoader(keys) == [i \in DOMAIN keys |-> UserFound(keys[i])]

\* DataLoader hands each key's answer to whoever asked for the key.
Handed(keys, answers, key) == answers[AntiFunction(keys)[key]]

\* The items of all orders of the page, in one statement.
LoadItems ==
  /\ pc = "fields" /\ strategy = "optimized" /\ gotItems = <<>>
  /\ gotItems' = [o \in Range(listed) |-> Handed(listed, ItemsLoader(listed), o)]
  /\ UNCHANGED <<elsewhere, page, pc, strategy, ids, listed, gotUser, seen, atStart>>

\* Their users, each asked for once.
LoadUsers ==
  LET keys == SetToSeq({CustomerOf[o] : o \in Range(listed)}) IN
  /\ pc = "fields" /\ strategy = "optimized" /\ gotUser = <<>>
  /\ gotUser' = [o \in Range(listed) |-> Handed(keys, UserLoader(keys), CustomerOf[o])]
  /\ UNCHANGED <<elsewhere, page, pc, strategy, ids, listed, gotItems, seen, atStart>>

\* GraphQL resolves a field of one order; the others keep what they have.
Resolved(got, o, value) == [x \in DOMAIN got \union {o} |-> IF x = o THEN value ELSE got[x]]

\* getOrderItems, for one order.
GetOrderItems(o) ==
  /\ pc = "fields" /\ strategy = "simple" /\ o \in Range(listed) \ DOMAIN gotItems
  /\ gotItems' = Resolved(gotItems, o, ItemsFound(o))
  /\ UNCHANGED <<elsewhere, page, pc, strategy, ids, listed, gotUser, seen, atStart>>

\* getUserById, for one order.
GetUserById(o) ==
  /\ pc = "fields" /\ strategy = "simple" /\ o \in Range(listed) \ DOMAIN gotUser
  /\ gotUser' = Resolved(gotUser, o, UserFound(CustomerOf[o]))
  /\ UNCHANGED <<elsewhere, page, pc, strategy, ids, listed, gotItems, seen, atStart>>

\* The page is answered; the client goes on until a page is empty.
Answer ==
  /\ pc = "fields"
  /\ DOMAIN gotItems = Range(listed) /\ DOMAIN gotUser = Range(listed)
  /\ seen' = seen \union Range(listed)
  /\ page' = page + 1
  /\ pc' = IF listed = <<>> THEN "done" ELSE "ask"
  /\ listed' = <<>> /\ gotItems' = <<>> /\ gotUser' = <<>>
  /\ UNCHANGED <<elsewhere, strategy, ids, atStart>>
-----------------------------------------------------------------------------
client == <<question, page, pc, strategy, answer, seen, atStart>>

\* What happens after the walk does not concern it.
Walking == pc # "done"

\* What leaves the list is noted from the moment the first page is read.
NoteLeavers ==
  LET gone == Matching \ Matching' IN
  IF pc = "start" THEN UNCHANGED departed
  ELSE left' = left \union gone /\ departures' = departures + Cardinality(gone)

Becomes(o, stage) == creation' = [creation EXCEPT ![o] = stage]

\* createOrder commits an order with its items.  It can be older than orders that are there:
\* created_at is when the transaction began.
Create(o) ==
  /\ Walking
  /\ creation[o] = "none" /\ CustomerOf[o] \in customers
  /\ Becomes(o, "stored")
  /\ orders' = orders \union {o}
  /\ items' = items \union ItemsOf(o)
  /\ UNCHANGED <<processed, customers, copies, requests, client, departed>>

\* The rollback after a failed payment, of which the worker hears nothing: two deletes.
WithdrawItems(o) ==
  /\ Walking
  /\ creation[o] = "stored" /\ Becomes(o, "failed")
  /\ items' = items \ ItemsOf(o)
  /\ UNCHANGED <<orders, processed, customers, copies, requests, client, departed>>

WithdrawOrder(o) ==
  /\ Walking
  /\ creation[o] = "failed" /\ Becomes(o, "withdrawn")
  /\ orders' = orders \ {o}
  /\ UNCHANGED <<processed, items, customers, copies, requests, client>>
  /\ NoteLeavers

\* The worker processes a PENDING order: one that an assignment has put back to PENDING again,
\* if another message names it.
Process(o) ==
  /\ Walking
  /\ creation[o] \in {"stored", "handled"} /\ o \notin processed
  /\ Becomes(o, "handled")
  /\ processed' = processed \union {o}
  /\ UNCHANGED <<orders, items, customers, copies, requests, client>>
  /\ NoteLeavers

\* setOrderCourierId reads the order ...
ReadOrder(a, o) ==
  /\ Walking
  /\ a \in requests /\ o \in orders
  /\ requests' = requests \ {a}
  /\ copies' = copies \union {<<a, o, Status(o)>>}
  /\ UNCHANGED <<tables, creation, client, departed>>

\* ... and saves what it has read: a status that has changed is put back, and an order that is
\* gone is inserted again, without its items, if its customer is still there.  The row is
\* reloaded before it is written; what happens in between comes to the same as if it had
\* happened before or after both.
SaveOrder(a, o, status) ==
  /\ Walking
  /\ <<a, o, status>> \in copies
  /\ copies' = copies \ {<<a, o, status>>}
  /\ CustomerOf[o] \in customers
  /\ orders' = orders \union {o}
  /\ processed' = IF status = "PROCESSED" THEN processed \union {o} ELSE processed \ {o}
  /\ UNCHANGED <<creation, requests, items, customers, client>>
  /\ NoteLeavers

\* A user with orders cannot be deleted: user_id has a foreign key without an ON DELETE.
DeleteUser(u) ==
  /\ Walking
  /\ u \in customers /\ u \notin {CustomerOf[o] : o \in orders}
  /\ customers' = customers \ {u}
  /\ UNCHANGED <<orders, processed, items, writers, client, departed>>

OrderStep(o) ==
  \/ Create(o) \/ WithdrawItems(o) \/ WithdrawOrder(o) \/ Process(o)
  \/ \E a \in Assignments : ReadOrder(a, o)
  \/ \E a \in Assignments, status \in {"PENDING", "PROCESSED"} : SaveOrder(a, o, status)

\* The walk is over.
Done == pc = "done" /\ UNCHANGED vars
-----------------------------------------------------------------------------
ReadStep ==
  \/ ReadIds \/ ReadRows \/ LoadItems \/ LoadUsers \/ Answer
  \/ \E o \in Orders : GetOrderItems(o) \/ GetUserById(o)

Next ==
  \/ ReadStep
  \/ \E o \in Orders : OrderStep(o)
  \/ \E u \in customers : DeleteUser(u)
  \/ Done

Spec == Init /\ [][Next]_vars
-----------------------------------------------------------------------------
\* A client that reads the list to its end misses no more of the orders that were on it all the
\* time than orders left the list meanwhile: were withdrawn, or changed their status, each counted
\* as often as it left, for an assignment can put it back.  In particular it misses none when none
\* left.  New orders make it see some twice, but miss none.  A page whose orders all leave between
\* the two statements of findAndCount looks like the end: of a walk that stops there nothing is said.
MissesOnlyForLeavers ==
  pc = "done" /\ ids = <<>> =>
    Cardinality((atStart \ left) \ seen) <= departures

\* A listed order has its customer and all its items, and nobody else's, unless the rollback of
\* its creation took them away while the page was being read.
ListedComplete ==
  /\ \A o \in DOMAIN gotItems : gotItems[o] = ItemsOf(o) \/ (ItemsFound(o) = {} /\ gotItems[o] = {})
  /\ \A o \in DOMAIN gotUser :
       gotUser[o] = CustomerOf[o] \/ (o \notin orders /\ gotUser[o] = NoUser)
=============================================================================
