------------------------- MODULE OrderQueriesProofs -------------------------
(***************************************************************************)
(* Theorems about OrderQueries, for any orders, filters, limits and number *)
(* of pages: types, MissesOnlyForLeavers, ListedComplete.                  *)
(*                                                                         *)
(* MissesOnlyForLeavers is about the end of the walk.  On the way, what    *)
(* can still be missed is what has slipped from the pages to be read into  *)
(* the places that have been read (PassedOver), by one place each time an  *)
(* order leaves (FewPassedOver); an order that an assignment puts back     *)
(* moves nothing into them.  That what a listed order has lost does not    *)
(* come back rests on WholeOrders: nothing but its creation gives it items *)
(* and no assignment brings back a customer.                               *)
(***************************************************************************)
EXTENDS OrderQueries, FiniteSetTheorems, TLAPS

(***************************************************************************)
(* The list and its pages.                                                 *)
(***************************************************************************)

Newer(o, S) == {q \in S : CreatedAt[q] > CreatedAt[o]}

LEMMA Finite ==
  ASSUME NEW S \in SUBSET Orders
  PROVE  IsFiniteSet(S) /\ Cardinality(S) \in Nat /\ Cardinality(S) <= Cardinality(Orders)
BY FS_Subset, FS_CardinalityType, QueriesAssumption

\* The older of two orders has more orders that are newer: at least the other.
LEMMA OlderHasMoreNewer ==
  ASSUME NEW S \in SUBSET Orders, NEW a \in S, NEW b \in S, CreatedAt[a] > CreatedAt[b]
  PROVE  Cardinality(Newer(a, S)) < Cardinality(Newer(b, S))
<1> DEFINE A == Newer(a, S)
           B == Newer(b, S)
<1>1. A \in SUBSET B /\ a \in B \ A
  BY QueriesAssumption DEF Newer
<1>2. IsFiniteSet(B) /\ Cardinality(A) \in Nat /\ Cardinality(B) \in Nat
  BY Finite, A \in SUBSET Orders, B \in SUBSET Orders DEF Newer
<1> HIDE DEF A, B
<1>3. Cardinality(A) <= Cardinality(B) /\ Cardinality(A) # Cardinality(B)
  BY <1>1, <1>2, FS_Subset
<1> QED
  BY <1>2, <1>3 DEF A, B

LEMMA NewerIsFewer ==
  ASSUME NEW S \in SUBSET Orders, NEW o \in S
  PROVE  Cardinality(Newer(o, S)) \in 0..(Cardinality(S) - 1)
<1> DEFINE B == Newer(o, S)
<1>1. B \in SUBSET S /\ o \in S \ B
  BY QueriesAssumption DEF Newer
<1>2. IsFiniteSet(S) /\ Cardinality(S) \in Nat /\ Cardinality(B) \in Nat
  BY <1>1, Finite, B \in SUBSET Orders
<1> HIDE DEF B
<1>3. Cardinality(B) <= Cardinality(S) /\ Cardinality(S) # Cardinality(B)
  BY <1>1, <1>2, FS_Subset
<1> QED
  BY <1>2, <1>3 DEF B

\* No two orders share a place.
LEMMA PlacesDiffer ==
  ASSUME NEW S \in SUBSET Orders, NEW a \in S, NEW b \in S, 
         Cardinality(Newer(a, S)) = Cardinality(Newer(b, S))
  PROVE  a = b
<1>1. Cardinality(Newer(a, S)) \in Nat /\ Cardinality(Newer(b, S)) \in Nat
  BY NewerIsFewer
<1>2. ~(CreatedAt[a] > CreatedAt[b]) /\ ~(CreatedAt[b] > CreatedAt[a])
  BY <1>1, OlderHasMoreNewer
<1>3. CreatedAt[a] \in Nat /\ CreatedAt[b] \in Nat
  BY QueriesAssumption
<1>4. CreatedAt[a] = CreatedAt[b]
  BY <1>2, <1>3
<1> QED
  BY <1>4, QueriesAssumption DEF IsInjective

\* The places are counted without gaps: each is taken by one order.
LEMMA PlaceTaken ==
  ASSUME NEW S \in SUBSET Orders, NEW i \in 1..Cardinality(S)
  PROVE  \E o \in S : Cardinality(Newer(o, S)) = i - 1
<1> DEFINE n == Cardinality(S)
           place == [o \in S |-> Cardinality(Newer(o, S)) + 1]
<1>1. n \in Nat /\ IsFiniteSet(S)
  BY Finite
<1>2. IsFiniteSet(1..n) /\ Cardinality(1..n) = n
  BY <1>1, FS_Interval
<1>3. place \in [S -> 1..n]
  BY <1>1, NewerIsFewer
<1>4. \A a, b \in S : place[a] = place[b] => a = b
  <2> SUFFICES ASSUME NEW a \in S, NEW b \in S, place[a] = place[b] PROVE a = b
    OBVIOUS
  <2>1. Cardinality(Newer(a, S)) \in Nat /\ Cardinality(Newer(b, S)) \in Nat
    BY NewerIsFewer
  <2> QED
    BY <2>1, PlacesDiffer
<1> HIDE DEF place, n
<1>5. place \in Injection(S, 1..n)
  BY <1>3, <1>4 DEF Injection, IsInjective
<1>6. place \in Surjection(S, 1..n)
  BY <1>1, <1>2, <1>5, FS_Injection DEF n
<1>7. PICK o \in S : place[o] = i
  BY <1>6 DEF Surjection, n
<1> QED
  BY <1>7, NewerIsFewer DEF place

\* What ORDER BY created_at DESC makes of a set of orders: each comes after those that are newer.
LEMMA Sorted ==
  ASSUME NEW S \in SUBSET Orders
  PROVE  /\ NewestFirst(S) \in [1..Cardinality(S) -> S]
         /\ \A i \in 1..Cardinality(S) : Cardinality(Newer(NewestFirst(S)[i], S)) = i - 1
<1> DEFINE n == Cardinality(S)
           Falls(s) == \A i, j \in DOMAIN s : i < j => CreatedAt[s[i]] > CreatedAt[s[j]]
           at == [i \in 1..n |-> CHOOSE o \in S : Cardinality(Newer(o, S)) = i - 1]
<1>0. n \in Nat
  BY Finite
<1>1. \A i \in 1..n : at[i] \in S /\ Cardinality(Newer(at[i], S)) = i - 1
  BY PlaceTaken
<1>2. at \in [1..n -> S]
  BY <1>1
<1>3. Falls(at)
  <2> SUFFICES ASSUME NEW i \in 1..n, NEW j \in 1..n, i < j
               PROVE  CreatedAt[at[i]] > CreatedAt[at[j]]
    BY <1>2
  <2>1. CreatedAt[at[i]] \in Nat /\ CreatedAt[at[j]] \in Nat /\ at[i] \in S /\ at[j] \in S
    BY <1>1, QueriesAssumption
  <2>2. ~(CreatedAt[at[j]] > CreatedAt[at[i]])
    <3> SUFFICES ASSUME CreatedAt[at[j]] > CreatedAt[at[i]] PROVE FALSE
      OBVIOUS
    <3>1. Cardinality(Newer(at[j], S)) < Cardinality(Newer(at[i], S))
      BY <2>1, OlderHasMoreNewer
    <3> QED
      BY <1>0, <1>1, <3>1
  <2>3. CreatedAt[at[j]] # CreatedAt[at[i]]
    <3> SUFFICES ASSUME CreatedAt[at[j]] = CreatedAt[at[i]] PROVE FALSE
      OBVIOUS
    <3>1. at[j] = at[i]
      BY <2>1, QueriesAssumption DEF IsInjective
    <3> QED
      BY <1>0, <1>1, <3>1
  <2> QED
    BY <2>1, <2>2, <2>3
<1> DEFINE list == NewestFirst(S)
<1>4. list \in [1..n -> S] /\ Falls(list)
  <2> HIDE DEF at
  <2> QED
    BY <1>2, <1>3 DEF NewestFirst
<1>5. ASSUME NEW i \in 1..n PROVE Cardinality(Newer(list[i], S)) = i - 1
  <2> DEFINE N == Newer(list[i], S)
             f == [j \in 1..(i - 1) |-> list[j]]
  <2>1. \A j, k \in 1..n : list[j] = list[k] => j = k
    <3> SUFFICES ASSUME NEW j \in 1..n, NEW k \in 1..n, j < k PROVE list[j] # list[k]
      BY <1>0
    <3>1. CreatedAt[list[j]] > CreatedAt[list[k]] /\ CreatedAt[list[j]] \in Nat
      BY <1>4, QueriesAssumption
    <3> QED
      BY <3>1
  <2>2. \A o \in S : \E j \in 1..n : list[j] = o
    <3>1. list \in Injection(1..n, S)
      BY <1>4, <2>1 DEF Injection, IsInjective
    <3>2. list \in Surjection(1..n, S)
      BY <1>0, <3>1, Finite, FS_Injection, FS_Interval
    <3> QED
      BY <3>2 DEF Surjection
  <2>3. \A j \in 1..n : list[j] \in N <=> j < i
    <3> SUFFICES ASSUME NEW j \in 1..n PROVE list[j] \in N <=> j < i
      OBVIOUS
    <3>1. CreatedAt[list[i]] \in Nat /\ CreatedAt[list[j]] \in Nat /\ list[j] \in S
      BY <1>4, QueriesAssumption
    <3>2. /\ j < i => CreatedAt[list[j]] > CreatedAt[list[i]]
          /\ i < j => CreatedAt[list[i]] > CreatedAt[list[j]]
      BY <1>4
    <3>3. j < i \/ i < j \/ i = j
      BY <1>0
    <3> QED
      BY <3>1, <3>2, <3>3 DEF Newer
  <2> HIDE DEF list
  <2>4. f \in Surjection(1..(i - 1), N) /\ f \in Injection(1..(i - 1), N)
    <3>1. \A j \in 1..(i - 1) : j \in 1..n /\ j < i
      BY <1>0
    <3>2. f \in [1..(i - 1) -> N]
      BY <2>3, <3>1
    <3>3. \A o \in N : \E j \in 1..(i - 1) : f[j] = o
      <4> TAKE o \in N
      <4>1. PICK j \in 1..n : list[j] = o
        BY <2>2 DEF Newer
      <4>2. j \in 1..(i - 1)
        BY <1>0, <2>3, <4>1
      <4> QED
        BY <4>1, <4>2
    <3>4. \A j, k \in 1..(i - 1) : f[j] = f[k] => j = k
      BY <2>1, <3>1
    <3> QED
      BY <3>2, <3>3, <3>4 DEF Surjection, Injection, IsInjective
  <2>5. f \in Bijection(1..(i - 1), N)
    BY <2>4 DEF Bijection
  <2>6. IsFiniteSet(1..(i - 1)) /\ Cardinality(1..(i - 1)) = i - 1
    <3> DEFINE b == i - 1
    <3>1. b \in Nat
      BY <1>0
    <3> HIDE DEF b
    <3>2. IsFiniteSet(1..b) /\ Cardinality(1..b) = b
      BY <3>1, FS_Interval
    <3> QED
      BY <3>2 DEF b
  <2> QED
    BY <2>5, <2>6, FS_Bijection DEF ExistsBijection
<1> QED
  BY <1>4, <1>5

LEMMA SortedRange ==
  ASSUME NEW S \in SUBSET Orders
  PROVE  IsInjective(NewestFirst(S)) /\ Range(NewestFirst(S)) = S
<1> DEFINE list == NewestFirst(S)
           n == Cardinality(S)
<1>1. /\ n \in Nat /\ list \in [1..n -> S]
      /\ \A i \in 1..n : Cardinality(Newer(list[i], S)) = i - 1
  BY Sorted, Finite
<1> HIDE DEF list, n
<1>2. \A i, j \in 1..n : list[i] = list[j] => i = j
  BY <1>1
<1>3. \A o \in S : \E i \in 1..n : list[i] = o
  <2> TAKE o \in S
  <2> DEFINE c == Cardinality(Newer(o, S))
  <2>1. c \in 0..(n - 1)
    BY NewerIsFewer DEF n
  <2> HIDE DEF c
  <2>2. c + 1 \in 1..n /\ (c + 1) - 1 = c
    BY <1>1, <2>1
  <2>3. list[c + 1] \in S /\ Cardinality(Newer(list[c + 1], S)) = c
    BY <1>1, <2>2
  <2>4. list[c + 1] = o
    BY <2>3, PlacesDiffer DEF c
  <2> QED
    BY <2>2, <2>4
<1> QED
  BY <1>1, <1>2, <1>3 DEF IsInjective, Range, list

LEMMA SubSeqIs ==
  ASSUME NEW S, NEW s \in Seq(S), NEW a \in Nat \ {0}, NEW b \in 0..Len(s)
  PROVE  SubSeq(s, a, b) = [i \in 1..(1 + b - a) |-> s[i + a - 1]]
OBVIOUS

\* LIMIT n OFFSET k of it are the orders of the n places after the first k.
Page(S, k, n) == SubSeq(NewestFirst(S), k + 1, Min({k + n, Cardinality(S)}))

LEMMA PageOf ==
  ASSUME NEW S \in SUBSET Orders, NEW k \in Nat, NEW n \in Nat \ {0}
  PROVE  /\ Page(S, k, n) \in BoundedSeq(Orders, n) /\ IsInjective(Page(S, k, n))
         /\ Range(Page(S, k, n)) = {o \in S : Cardinality(Newer(o, S)) \in k..(k + n - 1)}
         /\ Page(S, k, n) = <<>> <=> Cardinality(S) <= k
<1> DEFINE p == Page(S, k, n)
           list == NewestFirst(S)
           c == Cardinality(S)
           m == Min({k + n, c})
           size == IF m < k THEN 0 ELSE m - k
<1>1. /\ c \in Nat /\ list \in [1..c -> S] /\ IsInjective(list) /\ Range(list) = S
      /\ \A i \in 1..c : Cardinality(Newer(list[i], S)) = i - 1
  BY Sorted, SortedRange, Finite
<1>2. m = IF k + n <= c THEN k + n ELSE c
  BY <1>1 DEF Min
<1> HIDE DEF list, c, m, p
<1>3. /\ size \in 0..n /\ p = [i \in 1..size |-> p[i]]
      /\ \A i \in 1..size : i + k \in 1..c /\ p[i] = list[i + k]
  <2>1. list \in Seq(S) /\ Len(list) = c
    BY <1>1
  <2>2. p = SubSeq(list, k + 1, m)
    BY DEF list, c, m, p, Page
  <2>3. size \in 0..n /\ \A i \in 1..size : i + k \in 1..c
    BY <1>1, <1>2
  <2>4. p = [i \in 1..(1 + m - (k + 1)) |-> list[i + (k + 1) - 1]]
    <3>1. k + 1 \in Nat \ {0} /\ m \in 0..c
      BY <1>1, <1>2
    <3> QED
      BY <2>1, <2>2, <3>1, SubSeqIs
  <2>5. 1..(1 + m - (k + 1)) = 1..size /\ \A i \in 1..size : i + (k + 1) - 1 = i + k
    BY <1>1, <1>2
  <2>6. p = [i \in 1..size |-> list[i + k]]
    BY <2>4, <2>5
  <2> QED
    BY <2>3, <2>6
<1> HIDE DEF size
<1>4. p \in [1..size -> Orders]
  BY <1>1, <1>3
<1>5. p \in BoundedSeq(Orders, n)
  BY <1>3, <1>4 DEF BoundedSeq, SeqOf
<1>6. IsInjective(p)
  <2> SUFFICES ASSUME NEW i \in 1..size, NEW j \in 1..size, p[i] = p[j] PROVE i = j
    BY <1>4 DEF IsInjective
  <2>1. i + k \in DOMAIN list /\ j + k \in DOMAIN list /\ list[i + k] = list[j + k]
    BY <1>1, <1>3
  <2>2. i + k = j + k
    BY <1>1, <2>1 DEF IsInjective
  <2> QED
    BY <1>3, <2>2
<1>7. ASSUME NEW o PROVE o \in Range(p) <=> o \in S /\ Cardinality(Newer(o, S)) \in k..(k + n - 1)
  <2>1. ASSUME o \in Range(p) PROVE o \in S /\ Cardinality(Newer(o, S)) \in k..(k + n - 1)
    <3>1. PICK i \in 1..size : o = list[i + k] /\ i + k \in 1..c
      BY <1>3, <2>1 DEF Range
    <3> QED
      BY <1>1, <1>3, <3>1
  <2>2. ASSUME o \in S, Cardinality(Newer(o, S)) \in k..(k + n - 1) PROVE o \in Range(p)
    <3>1. PICK i \in 1..c : o = list[i]
      BY <1>1, <2>2 DEF Range
    <3>2. i - 1 \in k..(k + n - 1)
      BY <1>1, <2>2, <3>1
    <3>3. i - k \in 1..size /\ (i - k) + k = i
      BY <1>1, <1>2, <3>2 DEF size
    <3>4. p[i - k] = o
      BY <1>3, <3>1, <3>3
    <3> QED
      BY <1>3, <3>3, <3>4 DEF Range
  <2> QED
    BY <2>1, <2>2
<1>8. p = <<>> <=> c <= k
  <2>1. c <= k <=> size = 0
    BY <1>1, <1>2 DEF size
  <2>2. p \in Seq(Orders) /\ Len(p) = size
    BY <1>3, <1>4
  <2> QED
    BY <2>1, <2>2
<1> QED
  BY <1>5, <1>6, <1>7, <1>8 DEF c, p
-----------------------------------------------------------------------------
(***************************************************************************)
(* The rows, and what a client has been handed.                            *)
(***************************************************************************)

Rows ==
  /\ orders \subseteq Orders /\ processed \subseteq orders
  /\ items \subseteq UNION {ItemsOf(o) : o \in orders}
  /\ {CustomerOf[o] : o \in orders} \subseteq customers
  /\ creation \in [Orders -> {"none", "stored", "failed", "withdrawn", "handled"}]
  /\ copies \subseteq Assignments \X Orders \X {"PENDING", "PROCESSED"}
  /\ requests \subseteq Assignments

\* The items of an order are inserted and deleted together; only the worker makes an order
\* PROCESSED, in the table or in what an assignment reads, and what it has had stays.
WholeOrder(o) ==
  /\ ItemsFound(o) = IF creation[o] \in {"stored", "handled"} THEN ItemsOf(o) ELSE {}
  /\ creation[o] \in {"stored", "failed", "handled"} => o \in orders
  /\ creation[o] = "none" => o \notin orders
  /\ o \in processed => creation[o] = "handled"
  /\ \A a, s : <<a, o, s>> \in copies =>
       creation[o] # "none" /\ (s = "PROCESSED" => creation[o] = "handled")

WholeOrders == \A o \in Orders : WholeOrder(o)

Request ==
  /\ filter \in Filters /\ limit \in Limits
  /\ page \in 0..(Cardinality(Orders) + 2)
  /\ pc \in {"start", "ask", "rows", "fields", "done"}
  /\ strategy \in {"optimized", "simple"}
  /\ seen \subseteq Orders /\ atStart \subseteq Orders /\ left \subseteq Orders
  /\ departures \in Nat

\* A page with an order on it has a number that is no greater than the number of orders.
Pages ==
  /\ ids \in BoundedSeq(Orders, limit) /\ IsInjective(ids)
  /\ Range(listed) \subseteq Range(ids) /\ listed = NewestFirst(Range(listed))
  /\ DOMAIN gotItems \subseteq Range(listed) /\ DOMAIN gotUser \subseteq Range(listed)
  /\ pc # "fields" => listed = <<>> /\ gotItems = <<>> /\ gotUser = <<>>
  /\ pc = "start" => page <= 1
  /\ pc \in {"start", "ask", "rows", "fields"} => page <= Cardinality(Orders) + 1
  /\ pc \in {"rows", "fields"} /\ ids # <<>> => page <= Cardinality(Orders)

TypeInv == Rows /\ WholeOrders /\ Request /\ Pages

LEMMA TypeInvIsTypes == TypeInv => TypeOK
BY DEF TypeInv, Rows, Request, Pages, TypeOK

LEMMA ItemsOfOne ==
  /\ \A o, r : r \in ItemsOf(o) => r[1] = o
  /\ \A o \in Orders : ItemsOf(o) # {}
<1>1. \A o, r : r \in ItemsOf(o) => r[1] = o
  BY DEF ItemsOf
<1>2. ASSUME NEW o \in Orders PROVE ItemsOf(o) # {}
  <2>1. 1 \in 1..ItemCount[o]
    BY QueriesAssumption
  <2>2. <<o, 1>> \in ItemsOf(o)
    BY <2>1 DEF ItemsOf
  <2> QED
    BY <2>2
<1> QED
  BY <1>1, <1>2

LEMMA ItemsOfOrders ==
  ASSUME Rows, NEW r \in items
  PROVE  r[1] \in orders /\ r \in ItemsOf(r[1])
BY ItemsOfOne DEF Rows

SkipOf(p, n) == (Max({1, IF p = 0 THEN 1 ELSE p}) - 1) * n

LEMMA SkipGrows ==
  ASSUME NEW p \in Nat, NEW n \in Nat \ {0}
  PROVE  /\ SkipOf(p, n) \in Nat /\ p <= SkipOf(p, n) + 1
         /\ p <= 1 => SkipOf(p, n) = 0
         /\ SkipOf(p + 1, n) \in Nat /\ SkipOf(p + 1, n) <= SkipOf(p, n) + n
<1>1. \A k \in Nat : SkipOf(k + 1, n) = k * n /\ k * n \in Nat /\ k <= k * n
  <2> TAKE k \in Nat
  <2>1. Max({1, k + 1}) = k + 1
    BY DEF Max
  <2>2. Max({1, k + 1}) - 1 = k
    BY <2>1
  <2> QED
    BY <2>2 DEF SkipOf
<1>2. SkipOf(0, n) = 0
  <2>1. Max({1, 1}) - 1 = 0
    BY DEF Max
  <2>2. SkipOf(0, n) = 0 * n
    BY <2>1 DEF SkipOf
  <2> QED
    BY <2>2
<1>3. CASE p = 0
  <2>1. SkipOf(p + 1, n) = 0 * n
    BY <1>1, <1>3
  <2> QED
    BY <1>2, <1>3, <2>1
<1>4. CASE p # 0
  <2> DEFINE k == p - 1
  <2>1. k \in Nat /\ p = k + 1
    BY <1>4
  <2> HIDE DEF k
  <2>2. /\ SkipOf(k + 1, n) = k * n /\ k * n \in Nat /\ k <= k * n
        /\ SkipOf((k + 1) + 1, n) = (k + 1) * n /\ (k + 1) * n \in Nat
    BY <1>1, <2>1
  <2>3. (k + 1) * n = k * n + n
    BY <2>1
  <2>4. k = 0 => k * n = 0
    BY <2>1
  <2> QED
    BY <2>1, <2>2, <2>3, <2>4
<1> QED
  BY <1>3, <1>4

LEMMA SkipIs ==
  ASSUME page \in Nat, limit \in Nat \ {0}
  PROVE  /\ Skip = SkipOf(page, limit)
         /\ Skip \in Nat /\ page <= Skip + 1 /\ (page <= 1 => Skip = 0)
<1>1. Skip = SkipOf(page, limit)
  BY DEF Skip, SkipOf
<1> QED
  BY <1>1, SkipGrows

\* Whoever asks for a key is handed what the batch found for that key.
LEMMA HandedOwn ==
  ASSUME NEW keys, NEW answers, NEW key \in Range(keys)
  PROVE  \E i \in DOMAIN keys : keys[i] = key /\ Handed(keys, answers, key) = answers[i]
BY DEF Handed, AntiFunction, Inverse, Range

LEMMA ListedNone == Range(<<>>) = {} /\ <<>> = NewestFirst(Range(<<>>))
<1>1. Range(<<>>) = {}
  BY DEF Range
<1>2. NewestFirst({}) \in [1..0 -> {}]
  BY Sorted, FS_EmptySet
<1> QED
  BY <1>1, <1>2

LEMMA NoIds == \A n \in Nat : <<>> \in BoundedSeq(Orders, n) /\ IsInjective(<<>>)
<1> SUFFICES ASSUME NEW n \in Nat PROVE <<>> \in BoundedSeq(Orders, n) /\ IsInjective(<<>>)
  OBVIOUS
<1>1. <<>> \in [1..0 -> Orders] /\ 0 \in 0..n
  OBVIOUS
<1> QED
  BY <1>1 DEF BoundedSeq, SeqOf, IsInjective

LEMMA IdsOfOrders ==
  ASSUME ids \in BoundedSeq(Orders, limit)
  PROVE  Range(ids) \subseteq Orders
BY DEF BoundedSeq, SeqOf, Range
-----------------------------------------------------------------------------
(***************************************************************************)
(* Types.                                                                  *)
(***************************************************************************)

LEMMA TypeInit == Init => TypeInv
<1> SUFFICES ASSUME Init PROVE TypeInv
  OBVIOUS
<1> USE QueriesAssumption DEF Init
<1>1. Rows
  BY DEF Rows, Range
<1>2. WholeOrders
  <2>1. ASSUME NEW o \in Orders PROVE ItemsFound(o) = IF o \in Present THEN ItemsOf(o) ELSE {}
    BY ItemsOfOne DEF ItemsFound
  <2> QED
    BY <2>1 DEF WholeOrders, WholeOrder
<1>3. Request
  BY FS_CardinalityType DEF Request
<1>4. Pages
  <2>1. ids = <<>> /\ limit \in Nat
    OBVIOUS
  <2>2. ids \in BoundedSeq(Orders, limit) /\ IsInjective(ids)
    BY <2>1, NoIds
  <2> QED
    BY <2>2, ListedNone, FS_CardinalityType DEF Pages
<1> QED
  BY <1>1, <1>2, <1>3, <1>4 DEF TypeInv

\* What happens to an order touches none of the others.
LEMMA OthersKeep ==
  ASSUME TypeInv, NEW o \in Orders, OrderStep(o), NEW q \in Orders \ {o}
  PROVE  /\ q \in orders' <=> q \in orders
         /\ q \in processed' <=> q \in processed
         /\ creation'[q] = creation[q] /\ ItemsFound(q)' = ItemsFound(q)
         /\ \A a, s : <<a, q, s>> \in copies' => <<a, q, s>> \in copies
<1>1. \A r \in ItemsOf(o) : r[1] = o
  BY ItemsOfOne
<1>2. items' \in {items, items \union ItemsOf(o), items \ ItemsOf(o)}
  BY DEF OrderStep, Create, WithdrawItems, WithdrawOrder, Process, ReadOrder, SaveOrder, tables
<1>3. ItemsFound(q)' = ItemsFound(q)
  BY <1>1, <1>2 DEF ItemsFound
<1>4. creation'[q] = creation[q]
  BY DEF TypeInv, Rows, OrderStep, Create, WithdrawItems, WithdrawOrder, Process, ReadOrder,
     SaveOrder, Becomes
<1>5. /\ q \in orders' <=> q \in orders
      /\ q \in processed' <=> q \in processed
  BY DEF OrderStep, Create, WithdrawItems, WithdrawOrder, Process, ReadOrder, SaveOrder, tables
<1>6. \A a, s : <<a, q, s>> \in copies' => <<a, q, s>> \in copies
  <2>1. \/ copies' \subseteq copies
        \/ \E a \in Assignments : copies' = copies \union {<<a, o, Status(o)>>}
    BY DEF OrderStep, Create, WithdrawItems, WithdrawOrder, Process, ReadOrder, SaveOrder
  <2> QED
    BY <2>1
<1> QED
  BY <1>3, <1>4, <1>5, <1>6

LEMMA WholeOrderStep ==
  ASSUME TypeInv, NEW o \in Orders, OrderStep(o)
  PROVE  WholeOrder(o)'
<1>1. WholeOrder(o) /\ \A r \in ItemsOf(o) : r[1] = o
  BY ItemsOfOne DEF TypeInv, WholeOrders, WholeOrder
<1>2. \A r \in items : r[1] = o => r \in ItemsOf(o)
  BY ItemsOfOrders DEF TypeInv
<1>3. creation \in [Orders -> {"none", "stored", "failed", "withdrawn", "handled"}]
  BY DEF TypeInv, Rows
<1>4. CASE Create(o)
  <2>1. creation'[o] = "stored" /\ o \in orders' /\ UNCHANGED <<processed, copies>>
    BY <1>3, <1>4 DEF Create, Becomes
  <2>2. ItemsFound(o)' = ItemsOf(o)
    BY <1>1, <1>2, <1>4 DEF Create, ItemsFound
  <2>3. creation[o] = "none"
    BY <1>4 DEF Create
  <2> QED
    BY <1>1, <2>1, <2>2, <2>3 DEF WholeOrder
<1>5. CASE WithdrawItems(o)
  <2>1. creation'[o] = "failed" /\ creation[o] = "stored" /\ UNCHANGED <<orders, processed, copies>>
    BY <1>3, <1>5 DEF WithdrawItems, Becomes
  <2>2. ItemsFound(o)' = {}
    BY <1>2, <1>5 DEF WithdrawItems, ItemsFound
  <2> QED
    BY <1>1, <2>1, <2>2 DEF WholeOrder
<1>6. CASE WithdrawOrder(o)
  <2>1. /\ creation'[o] = "withdrawn" /\ creation[o] = "failed" 
        /\ UNCHANGED <<processed, copies, items>>
    BY <1>3, <1>6 DEF WithdrawOrder, Becomes
  <2>2. ItemsFound(o)' = ItemsFound(o)
    BY <2>1 DEF ItemsFound
  <2> QED
    BY <1>1, <2>1, <2>2 DEF WholeOrder
<1>7. CASE Process(o)
  <2>1. /\ creation'[o] = "handled" /\ creation[o] \in {"stored", "handled"}
        /\ UNCHANGED <<orders, copies, items>>
    BY <1>3, <1>7 DEF Process, Becomes
  <2>2. ItemsFound(o)' = ItemsFound(o)
    BY <2>1 DEF ItemsFound
  <2> QED
    BY <1>1, <2>1, <2>2 DEF WholeOrder
<1>8. ASSUME NEW a \in Assignments, ReadOrder(a, o) PROVE WholeOrder(o)'
  <2>1. /\ UNCHANGED <<orders, processed, items, creation>> /\ o \in orders
        /\ copies' = copies \union {<<a, o, Status(o)>>}
    BY <1>8 DEF elsewhere, ReadOrder, tables
  <2>2. ItemsFound(o)' = ItemsFound(o)
    BY <2>1 DEF ItemsFound
  <2>3. Status(o) = "PROCESSED" => o \in processed
    BY DEF Status
  <2> QED
    BY <1>1, <2>1, <2>2, <2>3 DEF WholeOrder
<1>9. ASSUME NEW a \in Assignments, NEW s \in {"PENDING", "PROCESSED"}, SaveOrder(a, o, s)
      PROVE  WholeOrder(o)'
  <2>1. /\ UNCHANGED <<items, creation>> /\ copies' \subseteq copies
        /\ orders' = orders \union {o} /\ <<a, o, s>> \in copies
        /\ processed' = IF s = "PROCESSED" THEN processed \union {o} ELSE processed \ {o}
    BY <1>9 DEF SaveOrder
  <2>2. ItemsFound(o)' = ItemsFound(o)
    BY <2>1 DEF ItemsFound
  <2> QED
    BY <1>1, <2>1, <2>2 DEF WholeOrder
<1> QED
  BY <1>4, <1>5, <1>6, <1>7, <1>8, <1>9 DEF OrderStep

LEMMA RowsOfOrderStep ==
  ASSUME TypeInv, NEW o \in Orders, OrderStep(o)
  PROVE  Rows' /\ WholeOrders'
<1>1. \A q \in Orders : WholeOrder(q)'
  <2> TAKE q \in Orders
  <2>1. WholeOrder(q)
    BY DEF TypeInv, WholeOrders, WholeOrder
  <2>2. CASE q = o
    BY <2>2, WholeOrderStep
  <2>3. CASE q # o
    BY <2>1, <2>3, OthersKeep DEF WholeOrder
  <2> QED
    BY <2>2, <2>3
<1>2. WholeOrders'
  BY <1>1 DEF WholeOrder, WholeOrders
<1>3. /\ orders' \subseteq Orders /\ requests' \subseteq Assignments
      /\ creation' \in [Orders -> {"none", "stored", "failed", "withdrawn", "handled"}]
      /\ customers' = customers
  BY DEF TypeInv, Rows, OrderStep, Create, WithdrawItems, WithdrawOrder, Process, ReadOrder,
     SaveOrder, Becomes, tables
<1>4. copies' \subseteq Assignments \X Orders \X {"PENDING", "PROCESSED"}
  <2>1. \/ copies' \subseteq copies
        \/ \E a \in Assignments : copies' = copies \union {<<a, o, Status(o)>>}
    BY DEF OrderStep, Create, WithdrawItems, WithdrawOrder, Process, ReadOrder, SaveOrder
  <2>2. Status(o) \in {"PENDING", "PROCESSED"}
    BY DEF Status
  <2> QED
    BY <2>1, <2>2 DEF TypeInv, Rows
<1>5. processed' \subseteq orders'
  <2>1. processed' \subseteq Orders
    BY DEF TypeInv, Rows, OrderStep, Create, WithdrawItems, WithdrawOrder, Process, ReadOrder,
       SaveOrder, tables
  <2> QED
    BY <1>1, <2>1 DEF WholeOrder
<1>6. {CustomerOf[q] : q \in orders'} \subseteq customers
  <2>1. orders' \subseteq orders \/ (orders' = orders \union {o} /\ CustomerOf[o] \in customers)
    BY DEF OrderStep, Create, WithdrawItems, WithdrawOrder, Process, ReadOrder, SaveOrder, tables
  <2> QED
    BY <2>1 DEF TypeInv, Rows
<1>7. items' \subseteq UNION {ItemsOf(q) : q \in orders'}
  <2> SUFFICES ASSUME NEW r \in items' PROVE \E q \in orders' : r \in ItemsOf(q)
    OBVIOUS
  <2>1. r \in items \/ r \in ItemsOf(o)
    BY DEF OrderStep, Create, WithdrawItems, WithdrawOrder, Process, ReadOrder, SaveOrder, tables
  <2>2. PICK q \in Orders : r \in ItemsOf(q) /\ r[1] = q
    BY <2>1, ItemsOfOne, ItemsOfOrders DEF TypeInv, Rows
  <2>3. r \in ItemsFound(q)'
    BY <2>2 DEF ItemsFound
  <2>4. creation'[q] \in {"stored", "handled"}
    BY <1>1, <2>3 DEF WholeOrder
  <2> QED
    BY <1>1, <2>2, <2>4 DEF WholeOrder
<1> QED
  BY <1>2, <1>3, <1>4, <1>5, <1>6, <1>7 DEF Rows

LEMMA TypeOrderStep ==
  ASSUME TypeInv, NEW o \in Orders, OrderStep(o)
  PROVE  TypeInv'
<1>1. UNCHANGED client
  BY DEF OrderStep, Create, WithdrawItems, WithdrawOrder, Process, ReadOrder, SaveOrder
<1>2. UNCHANGED departed \/ NoteLeavers
  BY DEF OrderStep, Create, WithdrawItems, WithdrawOrder, Process, ReadOrder, SaveOrder
<1>3. left' \subseteq Orders /\ departures' \in Nat
  <2> DEFINE gone == Matching \ Matching'
  <2>1. gone \in SUBSET Orders
    BY DEF Matching, TypeInv, Rows
  <2> HIDE DEF gone
  <2>2. Cardinality(gone) \in Nat
    BY <2>1, Finite
  <2>3. \/ left' = left /\ departures' = departures
        \/ left' = left \union gone /\ departures' = departures + Cardinality(gone)
    BY <1>2 DEF NoteLeavers, departed, gone
  <2> QED
    BY <2>1, <2>2, <2>3 DEF TypeInv, Request
<1>4. Request' /\ Pages'
  BY <1>1, <1>3 DEF client, question, answer, TypeInv, Request, Pages
<1> QED
  BY <1>4, RowsOfOrderStep DEF TypeInv

LEMMA TypeDeleteUser ==
  ASSUME TypeInv, NEW u \in customers, DeleteUser(u)
  PROVE  TypeInv'
<1>1. UNCHANGED <<client, orders, processed, items, writers, departed>>
      /\ customers' = customers \ {u} /\ u \notin {CustomerOf[o] : o \in orders}
  BY DEF DeleteUser
<1>2. Rows' /\ WholeOrders'
  BY <1>1 DEF TypeInv, Rows, WholeOrders, WholeOrder, ItemsFound, writers
<1>3. Request' /\ Pages'
  BY <1>1 DEF client, question, answer, departed, TypeInv, Request, Pages
<1> QED
  BY <1>2, <1>3 DEF TypeInv

\* What the statement of the ids returns.
LEMMA IdsRead ==
  ASSUME TypeInv, ReadIds
  PROVE  /\ ids' \in BoundedSeq(Orders, limit) /\ IsInjective(ids')
         /\ Range(ids') = {o \in Matching :
                             Cardinality(Newer(o, Matching)) \in Skip..(Skip + limit - 1)}
         /\ ids' = <<>> <=> Cardinality(Matching) <= Skip
<1>1. Matching \in SUBSET Orders /\ limit \in Nat \ {0} /\ page \in Nat
  BY QueriesAssumption, FS_CardinalityType DEF TypeInv, Rows, Request, Matching
<1>2. Skip \in Nat
  BY <1>1, SkipIs
<1>3. ids' = Page(Matching, Skip, limit)
  BY DEF elsewhere, ReadIds, Page
<1> QED
  BY <1>1, <1>2, <1>3, PageOf

LEMMA TypeReadStep ==
  ASSUME TypeInv, ReadStep
  PROVE  TypeInv'
<1>0. /\ Cardinality(Orders) \in Nat /\ limit \in Nat \ {0} /\ page \in Nat
      /\ Matching \in SUBSET Orders /\ Range(ids) \subseteq Orders
  BY QueriesAssumption, FS_CardinalityType, IdsOfOrders
     DEF TypeInv, Rows, Request, Pages, Matching
<1>1. UNCHANGED <<tables, writers, question, departed>>
  BY DEF elsewhere, ReadStep, ReadIds, ReadRows, LoadItems, LoadUsers, GetOrderItems, GetUserById,
       Answer
<1>2. Rows' /\ WholeOrders'
  BY <1>1 DEF elsewhere, tables, writers, TypeInv, Rows, WholeOrders, WholeOrder, ItemsFound
<1> USE DEF elsewhere, tables, question, departed, TypeInv, Request, Pages
<1>3. CASE ReadIds
  <2>1. /\ page' = page /\ pc' = "rows" /\ UNCHANGED <<listed, gotItems, gotUser>>
        /\ listed = <<>> /\ gotItems = <<>> /\ gotUser = <<>>
        /\ page <= Cardinality(Orders) + 1
    BY <1>3 DEF elsewhere, ReadIds
  <2>2. Request'
    BY <1>0, <1>1, <1>3 DEF elsewhere, ReadIds
  <2>3. ids' # <<>> => page <= Cardinality(Orders)
    <3>1. /\ ids' # <<>> => Cardinality(Matching) > Skip
          /\ Cardinality(Matching) \in Nat /\ Cardinality(Matching) <= Cardinality(Orders)
          /\ Skip \in Nat /\ page <= Skip + 1
      BY <1>0, <1>3, IdsRead, SkipIs, Finite
    <3> QED
      BY <1>0, <3>1
  <2>4. Pages'
    BY <1>1, <1>3, <2>1, <2>3, IdsRead, ListedNone
  <2> QED
    BY <1>2, <2>2, <2>4
<1>4. CASE ReadRows
  <2> DEFINE S == Range(ids) \intersect Matching
  <2>1. Range(NewestFirst(S)) = S
    BY <1>0, SortedRange
  <2>2. /\ listed' = NewestFirst(S) /\ pc' = "fields" /\ pc = "rows"
        /\ UNCHANGED <<page, strategy, ids, gotItems, gotUser, seen, atStart>>
    BY <1>4 DEF elsewhere, ReadRows
  <2> HIDE DEF S
  <2>3. Range(listed') \subseteq Range(ids) /\ listed' = NewestFirst(Range(listed'))
    BY <2>1, <2>2 DEF S
  <2>4. DOMAIN gotItems = {} /\ DOMAIN gotUser = {}
    BY <2>2
  <2> QED
    BY <1>1, <1>2, <2>2, <2>3, <2>4
<1>5. CASE LoadItems \/ LoadUsers \/ \E o \in Orders : GetOrderItems(o) \/ GetUserById(o)
  <2>1. UNCHANGED <<page, pc, strategy, ids, listed, seen, atStart>> /\ pc = "fields"
    BY <1>5 DEF elsewhere, LoadItems, LoadUsers, GetOrderItems, GetUserById
  <2>2. DOMAIN gotItems' \subseteq Range(listed) /\ DOMAIN gotUser' \subseteq Range(listed)
    BY <1>5 DEF elsewhere, LoadItems, LoadUsers, GetOrderItems, GetUserById, Resolved
  <2> QED
    BY <1>1, <1>2, <2>1, <2>2
<1>6. CASE Answer
  <2>1. /\ seen' = seen \union Range(listed) /\ page' = page + 1
        /\ pc' = (IF listed = <<>> THEN "done" ELSE "ask") /\ pc = "fields"
        /\ listed' = <<>> /\ gotItems' = <<>> /\ gotUser' = <<>>
        /\ UNCHANGED <<strategy, ids, atStart>>
    BY <1>6 DEF Answer
  <2>2. listed # <<>> => ids # <<>>
    BY ListedNone
  <2>3. Request'
    BY <1>0, <1>1, <2>1, <2>2
  <2>4. Pages'
    BY <1>0, <1>1, <2>1, <2>2, ListedNone
  <2> QED
    BY <1>2, <2>3, <2>4
<1> QED
  BY <1>3, <1>4, <1>5, <1>6 DEF ReadStep

LEMMA TypeStep == TypeInv /\ [Next]_vars => TypeInv'
<1> SUFFICES ASSUME TypeInv, [Next]_vars PROVE TypeInv'
  OBVIOUS
<1>1. CASE UNCHANGED vars
  BY <1>1 DEF elsewhere, vars, tables, writers, question, answer, departed, TypeInv, Rows,
     WholeOrders, WholeOrder, ItemsFound, Request, Pages
<1> QED
  BY <1>1, TypeReadStep, TypeOrderStep, TypeDeleteUser DEF Next, Done

\* Every variable has its type; the list is read in finitely many pages.
THEOREM TypeCorrect == Spec => []TypeOK
<1>1. Spec => []TypeInv
  BY TypeInit, TypeStep, PTL DEF Spec
<1> QED
  BY <1>1, TypeInvIsTypes, PTL
-----------------------------------------------------------------------------
(***************************************************************************)
(* What leaves the list.                                                   *)
(***************************************************************************)

\* What matched when the first page was read and has not left since still matches.
LeaversNoted ==
  /\ atStart \ left \subseteq Matching
  /\ \A o \in Range(listed) : creation[o] # "none"
  /\ pc = "start" => left = {} /\ atStart = {} /\ departures = 0

LEMMA LeaversInit == Init => LeaversNoted
BY ListedNone DEF Init, LeaversNoted

LEMMA MatchingUnchanged ==
  ASSUME UNCHANGED <<orders, processed, filter>>
  PROVE  Matching' = Matching
BY DEF Matching, Matches, Status

\* Whatever happens to an order adds it to the list, or takes it out and notes that, or neither.
LEMMA ListChanges ==
  ASSUME TypeInv, LeaversNoted, NEW o \in Orders, OrderStep(o)
  PROVE  /\ LeaversNoted'
         /\ UNCHANGED client
         /\ \/ Matching' = Matching /\ UNCHANGED departed
            \/ o \notin Matching /\ Matching' = Matching \union {o} /\ UNCHANGED departed
            \/ /\ o \in Matching /\ Matching' = Matching \ {o}
               /\ pc # "start" => left' = left \union {o} /\ departures' = departures + 1
<1>1. UNCHANGED client
  BY DEF OrderStep, Create, WithdrawItems, WithdrawOrder, Process, ReadOrder, SaveOrder
<1>2. UNCHANGED <<filter, pc, atStart, listed>> /\ departures \in Nat
  BY <1>1 DEF client, question, answer, TypeInv, Request
<1>3. Matching \in SUBSET Orders /\ Matching' \in SUBSET Orders
  BY RowsOfOrderStep DEF TypeInv, Rows, Matching
<1>4. \A q \in Orders \ {o} : q \in Matching' <=> q \in Matching
  BY <1>2, OthersKeep DEF Matching, Matches, Status
<1>5. NoteLeavers \/ (UNCHANGED departed /\ (o \in Matching => o \in Matching'))
  <2>1. CASE Create(o)
    <3>1. UNCHANGED departed /\ o \notin orders
      BY <2>1 DEF Create, TypeInv, WholeOrders, WholeOrder
    <3> QED
      BY <3>1 DEF Matching
  <2>2. CASE WithdrawItems(o) \/ \E a \in Assignments : ReadOrder(a, o)
    <3>1. UNCHANGED <<orders, processed, departed>>
      BY <2>2 DEF WithdrawItems, ReadOrder, tables
    <3> QED
      BY <1>2, <3>1, MatchingUnchanged
  <2> QED
    BY <2>1, <2>2 DEF OrderStep, WithdrawOrder, Process, SaveOrder
<1>6. \A q \in Range(listed) : creation'[q] # "none"
  <2>1. Range(listed) \subseteq Orders
    BY IdsOfOrders DEF TypeInv, Pages
  <2>2. creation'[o] # "none" \/ creation'[o] = creation[o]
    BY DEF OrderStep, Create, WithdrawItems, WithdrawOrder, Process, ReadOrder, SaveOrder,
       Becomes, TypeInv, Rows
  <2> QED
    BY <2>1, <2>2, OthersKeep DEF LeaversNoted
<1> DEFINE gone == Matching \ Matching'
<1>7. CASE gone = {}
  <2>1. UNCHANGED departed
    <3>1. Cardinality(gone) = 0
      BY <1>7, FS_EmptySet
    <3> HIDE DEF gone
    <3>2. NoteLeavers => UNCHANGED departed
      BY <1>2, <1>7, <3>1 DEF NoteLeavers, departed, gone
    <3> QED
      BY <1>5, <3>2
  <2>2. Matching' = Matching \/ (o \notin Matching /\ Matching' = Matching \union {o})
    BY <1>3, <1>4, <1>7
  <2>3. LeaversNoted'
    BY <1>2, <1>6, <2>1, <2>2 DEF LeaversNoted, departed
  <2> QED
    BY <1>1, <2>1, <2>2, <2>3
<1>8. CASE gone # {}
  <2>1. o \in Matching /\ Matching' = Matching \ {o} /\ gone = {o}
    BY <1>3, <1>4, <1>8
  <2>2. Cardinality(gone) = 1
    BY <2>1, FS_Singleton
  <2> HIDE DEF gone
  <2>3. /\ pc # "start" => left' = left \union {o} /\ departures' = departures + 1
        /\ pc = "start" => UNCHANGED departed
    BY <1>5, <2>1, <2>2 DEF NoteLeavers, gone
  <2>4. LeaversNoted'
    BY <1>2, <1>6, <2>1, <2>3 DEF LeaversNoted, departed
  <2> QED
    BY <1>1, <2>1, <2>3, <2>4
<1> QED
  BY <1>7, <1>8

LEMMA LeaversStep == TypeInv /\ LeaversNoted /\ [Next]_vars => LeaversNoted'
<1> SUFFICES ASSUME TypeInv, LeaversNoted, [Next]_vars PROVE LeaversNoted'
  OBVIOUS
<1>1. CASE ReadStep
  <2>1. UNCHANGED <<orders, processed, creation, filter, left>>
    BY <1>1 DEF elsewhere, ReadStep, ReadIds, ReadRows, LoadItems, LoadUsers, GetOrderItems,
         GetUserById,
       Answer, tables, writers, question, departed
  <2>2. Matching' = Matching
    BY <2>1, MatchingUnchanged
  <2>3. atStart' \ left \subseteq Matching /\ pc' # "start"
    BY <1>1 DEF elsewhere, ReadStep, ReadIds, ReadRows, LoadItems, LoadUsers, GetOrderItems,
         GetUserById,
       Answer, LeaversNoted
  <2>4. \A o \in Range(listed') : creation[o] # "none"
    <3>1. CASE ReadRows
      <4>1. Range(ids) \intersect Matching \in SUBSET Orders
        BY DEF TypeInv, Rows, Matching
      <4>2. \A o \in Matching : creation[o] # "none"
        BY DEF TypeInv, Rows, WholeOrders, WholeOrder, Matching
      <4> QED
        BY <3>1, <4>1, <4>2, SortedRange DEF elsewhere, ReadRows
    <3>2. CASE Answer
      BY <3>2, ListedNone DEF Answer
    <3>3. CASE ~ReadRows /\ ~Answer
      BY <1>1, <3>3 DEF elsewhere, ReadStep, ReadIds, LoadItems, LoadUsers, GetOrderItems,
           GetUserById,
         LeaversNoted
    <3> QED
      BY <3>1, <3>2, <3>3
  <2> QED
    BY <2>1, <2>2, <2>3, <2>4 DEF LeaversNoted
<1>2. CASE (\E u \in customers : DeleteUser(u)) \/ UNCHANGED vars
  <2>1. UNCHANGED <<orders, processed, creation, filter, departed, atStart, listed, pc>>
    BY <1>2 DEF DeleteUser, client, question, answer, vars, elsewhere, tables, writers
  <2> QED
    BY <2>1, MatchingUnchanged DEF LeaversNoted, departed
<1> QED
  BY <1>1, <1>2, ListChanges DEF Next, Done

LEMMA Settled == Spec => [](TypeInv /\ LeaversNoted)
BY TypeInit, TypeStep, LeaversInit, LeaversStep, PTL DEF Spec
-----------------------------------------------------------------------------
(***************************************************************************)
(* What a listed order is listed with.                                     *)
(***************************************************************************)

\* The items of a listed order can be taken away, never put back: whoever saves it again saves
\* its row.
LEMMA NotPutBack ==
  ASSUME TypeInv, LeaversNoted, NEW o \in Orders, OrderStep(o), NEW q \in Range(listed)
  PROVE  ItemsFound(q) = {} => ItemsFound(q)' = {}
<1>1. creation[q] # "none"
  BY DEF LeaversNoted
<1>2. CASE Create(o)
  <2>1. q # o /\ items' = items \union ItemsOf(o)
    BY <1>1, <1>2 DEF Create
  <2> QED
    BY <2>1, ItemsOfOne DEF ItemsFound
<1>3. CASE ~Create(o)
  <2>1. items' \subseteq items
    BY <1>3 DEF OrderStep, WithdrawItems, WithdrawOrder, Process, ReadOrder, SaveOrder, tables
  <2> QED
    BY <2>1 DEF ItemsFound
<1> QED
  BY <1>2, <1>3

\* Every customer of the page is asked for.
LEMMA CustomersAsked ==
  ASSUME NEW S \in SUBSET Orders
  PROVE  Range(SetToSeq({CustomerOf[o] : o \in S})) = {CustomerOf[o] : o \in S}
<1> DEFINE C == {CustomerOf[o] : o \in S}
           f == [o \in S |-> CustomerOf[o]]
           keys == SetToSeq(C)
<1>1. f \in Surjection(S, C)
  BY DEF Surjection
<1>2. IsFiniteSet(C)
  BY <1>1, Finite, FS_Surjection
<1> HIDE DEF C
<1>3. Bijection(1..Cardinality(C), C) # {}
  BY <1>2, FS_CardinalityType DEF ExistsBijection
<1>4. keys \in [1..Cardinality(C) -> C] /\ IsInjective(keys)
  BY <1>3 DEF SetToSeq, Bijection, Injection
<1> HIDE DEF keys
<1>5. keys \in Injection(1..Cardinality(C), C)
  BY <1>4 DEF Injection
<1>6. IsFiniteSet(1..Cardinality(C)) /\ Cardinality(1..Cardinality(C)) = Cardinality(C)
  <2> DEFINE c == Cardinality(C)
  <2>1. c \in Nat
    BY <1>2, FS_CardinalityType
  <2> HIDE DEF c
  <2>2. IsFiniteSet(1..c) /\ Cardinality(1..c) = c
    BY <2>1, FS_Interval
  <2> QED
    BY <2>2 DEF c
<1>7. keys \in Surjection(1..Cardinality(C), C)
  BY <1>2, <1>5, <1>6, FS_Injection
<1> QED
  BY <1>4, <1>7 DEF Surjection, Range, keys, C

\* ListedComplete, and a customer that has not been found is gone for good: an order of it cannot
\* be inserted again.
FieldsComplete ==
  /\ \A o \in DOMAIN gotItems : gotItems[o] = ItemsOf(o) \/ (ItemsFound(o) = {} /\ gotItems[o] = {})
  /\ \A o \in DOMAIN gotUser :
       gotUser[o] = CustomerOf[o] \/ (CustomerOf[o] \notin customers /\ gotUser[o] = NoUser)

LEMMA FieldsListed == TypeInv /\ FieldsComplete => ListedComplete
BY DEF TypeInv, Rows, FieldsComplete, ListedComplete

LEMMA FieldsStep == TypeInv /\ LeaversNoted /\ FieldsComplete /\ [Next]_vars => FieldsComplete'
<1> SUFFICES ASSUME TypeInv, LeaversNoted, FieldsComplete, [Next]_vars PROVE FieldsComplete'
  OBVIOUS
<1>1. /\ Range(listed) \subseteq Orders
      /\ DOMAIN gotItems \subseteq Range(listed) /\ DOMAIN gotUser \subseteq Range(listed)
  BY IdsOfOrders DEF TypeInv, Pages
<1>2. ASSUME ReadStep PROVE FieldsComplete'
  <2>1. UNCHANGED <<orders, items, customers>>
    BY <1>2 DEF elsewhere, ReadStep, ReadIds, ReadRows, LoadItems, LoadUsers, GetOrderItems,
         GetUserById,
       Answer, tables
  <2>2. \A o \in Orders : ItemsFound(o)' = ItemsFound(o) /\ ItemsFound(o) \in {ItemsOf(o), {}}
    BY <2>1 DEF TypeInv, WholeOrders, WholeOrder, ItemsFound
  <2>3. \A o \in Orders : UserFound(CustomerOf[o]) =
                            IF CustomerOf[o] \in customers THEN CustomerOf[o] ELSE NoUser
    BY DEF UserFound
  <2>4. ASSUME NEW o \in DOMAIN gotItems', gotItems'[o] # ItemsOf(o)
        PROVE  ItemsFound(o) = {} /\ gotItems'[o] = {} /\ o \in Orders
    <3>1. CASE LoadItems
      <4>1. o \in Range(listed) /\ gotItems'[o] = Handed(listed, ItemsLoader(listed), o)
        BY <2>4, <3>1 DEF elsewhere, LoadItems
      <4>2. gotItems'[o] = ItemsFound(o)
        BY <4>1, HandedOwn DEF ItemsLoader
      <4> QED
        BY <1>1, <2>2, <2>4, <4>1, <4>2
    <3>2. CASE \E q \in Orders : GetOrderItems(q)
      <4>1. PICK q \in Orders : GetOrderItems(q)
        BY <3>2
      <4>2. gotItems' = [x \in DOMAIN gotItems \union {q} |->
                           IF x = q THEN ItemsFound(q) ELSE gotItems[x]]
        BY <4>1 DEF GetOrderItems, Resolved
      <4> QED
        BY <1>1, <2>2, <2>4, <4>2 DEF FieldsComplete
    <3>3. CASE gotItems' = gotItems
      BY <1>1, <2>4, <3>3 DEF FieldsComplete
    <3>4. CASE gotItems' = <<>>
      BY <2>4, <3>4
    <3> QED
      BY <1>2, <3>1, <3>2, <3>3, <3>4
         DEF elsewhere, ReadStep, ReadIds, ReadRows, LoadUsers, GetUserById, Answer
  <2>5. ASSUME NEW o \in DOMAIN gotUser', gotUser'[o] # CustomerOf[o]
        PROVE  CustomerOf[o] \notin customers /\ gotUser'[o] = NoUser
    <3>1. CASE LoadUsers
      <4> DEFINE keys == SetToSeq({CustomerOf[q] : q \in Range(listed)})
      <4>1. o \in Range(listed) /\ gotUser'[o] = Handed(keys, UserLoader(keys), CustomerOf[o])
        BY <2>5, <3>1 DEF LoadUsers
      <4>2. CustomerOf[o] \in Range(keys)
        BY <1>1, <4>1, CustomersAsked
      <4> HIDE DEF keys
      <4>3. gotUser'[o] = UserFound(CustomerOf[o])
        BY <4>1, <4>2, HandedOwn DEF UserLoader
      <4> QED
        BY <1>1, <2>3, <2>5, <4>1, <4>3
    <3>2. CASE \E q \in Orders : GetUserById(q)
      <4>1. PICK q \in Orders : GetUserById(q)
        BY <3>2
      <4>2. gotUser' = [x \in DOMAIN gotUser \union {q} |->
                          IF x = q THEN UserFound(CustomerOf[q]) ELSE gotUser[x]]
        BY <4>1 DEF GetUserById, Resolved
      <4> QED
        BY <2>3, <2>5, <4>2 DEF FieldsComplete
    <3>3. CASE gotUser' = gotUser
      BY <2>5, <3>3 DEF FieldsComplete
    <3>4. CASE gotUser' = <<>>
      BY <2>5, <3>4
    <3> QED
      BY <1>2, <3>1, <3>2, <3>3, <3>4
         DEF elsewhere, ReadStep, ReadIds, ReadRows, LoadItems, GetOrderItems, Answer
  <2> QED
    BY <2>1, <2>2, <2>4, <2>5 DEF FieldsComplete
<1>3. ASSUME NEW o \in Orders, OrderStep(o) PROVE FieldsComplete'
  <2>1. UNCHANGED <<gotItems, gotUser>>
    BY <1>3, ListChanges DEF client, answer
  <2>2. \A q \in Range(listed) : ItemsFound(q) = {} => ItemsFound(q)' = {}
    BY <1>3, NotPutBack
  <2>3. customers' = customers
    BY <1>3 DEF OrderStep, Create, WithdrawItems, WithdrawOrder, Process, ReadOrder, SaveOrder,
       tables
  <2> QED
    BY <1>1, <2>1, <2>2, <2>3 DEF FieldsComplete
<1>4. CASE UNCHANGED <<items, gotItems, gotUser>> /\ customers' \subseteq customers
  BY <1>4 DEF FieldsComplete, ItemsFound
<1>5. ASSUME NEW u \in customers, DeleteUser(u)
      PROVE  UNCHANGED <<items, gotItems, gotUser>> /\ customers' \subseteq customers
  BY <1>5 DEF DeleteUser, client, answer
<1> QED
  BY <1>2, <1>3, <1>4, <1>5 DEF elsewhere, Next, Done, vars, tables, answer

\* A listed order has its customer and all its items, whether its fields are resolved one by one
\* or in batches, unless the rollback of its creation takes them away.
THEOREM ListedWhole == Spec => []ListedComplete
<1>1. Init => FieldsComplete
  BY DEF Init, FieldsComplete
<1>2. Spec => [](TypeInv /\ LeaversNoted /\ FieldsComplete)
  BY <1>1, TypeInit, TypeStep, LeaversInit, LeaversStep, FieldsStep, PTL DEF Spec
<1> QED
  BY <1>2, FieldsListed, PTL
-----------------------------------------------------------------------------
(***************************************************************************)
(* What the walk misses.                                                   *)
(***************************************************************************)

Place(o) == Cardinality(Newer(o, Matching))

\* What the client has asked for and not been answered yet.
OnPage == IF pc = "rows" THEN Range(ids) ELSE IF pc = "fields" THEN Range(listed) ELSE {}

PlacesRead ==
  IF pc = "start" THEN 0 ELSE IF pc = "ask" THEN Skip ELSE Skip + limit

Remaining == (atStart \ left) \ seen
PassedOver == {o \in Remaining \ OnPage : Place(o) < PlacesRead}

\* An order that leaves moves those that are older up by one place, and so at most one of them
\* from a page to be read to a page that has been read; one that comes moves them down.
FewPassedOver == pc # "done" => Cardinality(PassedOver) <= departures

\* Whatever has not been seen when there is no order after the last page is missed.
EndSeen ==
  pc \in {"rows", "fields", "done"} /\ ids = <<>> =>
    Cardinality(Remaining) <= departures

LEMMA CountsTyped ==
  ASSUME TypeInv, LeaversNoted
  PROVE  /\ Matching \in SUBSET Orders /\ left \in SUBSET Orders /\ departures \in Nat
         /\ Remaining \in SUBSET Matching /\ PassedOver \in SUBSET Remaining
         /\ \A S \in SUBSET Orders : IsFiniteSet(S) /\ Cardinality(S) \in Nat
         /\ page \in Nat /\ limit \in Nat \ {0} /\ PlacesRead \in Nat
         /\ \A q \in Matching : Place(q) \in Nat /\ Place(q) < Cardinality(Matching)
<1>1. /\ Matching \in SUBSET Orders /\ left \in SUBSET Orders /\ departures \in Nat
      /\ Remaining \in SUBSET Matching /\ PassedOver \in SUBSET Remaining
  BY DEF TypeInv, Rows, Request, LeaversNoted, Remaining, PassedOver, Matching
<1>2. page \in Nat /\ limit \in Nat \ {0} /\ PlacesRead \in Nat
  <2>1. page \in Nat /\ limit \in Nat \ {0}
    BY FS_CardinalityType, QueriesAssumption DEF TypeInv, Request
  <2> QED
    BY <2>1, SkipIs DEF PlacesRead
<1>3. \A S \in SUBSET Orders : IsFiniteSet(S) /\ Cardinality(S) \in Nat
  BY Finite
<1>4. \A q \in Matching : Place(q) \in Nat /\ Place(q) < Cardinality(Matching)
  <2> TAKE q \in Matching
  <2> DEFINE c == Cardinality(Matching)
  <2>1. c \in Nat /\ Place(q) \in 0..(c - 1)
    BY <1>1, <1>3, NewerIsFewer DEF Place
  <2> QED
    BY <2>1
<1> QED
  BY <1>1, <1>2, <1>3, <1>4

LEMMA MissesOrderStep ==
  ASSUME TypeInv, LeaversNoted, FewPassedOver, EndSeen, NEW o \in Orders, OrderStep(o)
  PROVE  FewPassedOver' /\ EndSeen'
<1> DEFINE M == Matching
           N == Matching'
<1>1. TypeInv' /\ LeaversNoted' /\ UNCHANGED client
  BY TypeOrderStep, ListChanges
<1>2. /\ UNCHANGED <<pc, page, limit, ids, listed, seen, atStart>>
      /\ OnPage' = OnPage /\ PlacesRead' = PlacesRead
  BY <1>1 DEF client, question, answer, OnPage, PlacesRead, Skip
<1>3. /\ M \in SUBSET Orders /\ N \in SUBSET Orders
      /\ departures \in Nat /\ departures' \in Nat
      /\ Remaining \in SUBSET M /\ Remaining' \in SUBSET N
      /\ PassedOver \in SUBSET Remaining /\ PassedOver' \in SUBSET Remaining'
      /\ \A S \in SUBSET Orders : IsFiniteSet(S) /\ Cardinality(S) \in Nat
      /\ PlacesRead \in Nat
  <2>1. /\ N \in SUBSET Orders /\ departures' \in Nat
        /\ Remaining' \in SUBSET N /\ PassedOver' \in SUBSET Remaining'
    BY <1>1 DEF TypeInv, Rows, Request, LeaversNoted, Remaining, PassedOver, Matching
  <2> QED
    BY <2>1, CountsTyped
<1>4. \A q : Place(q) = Cardinality(Newer(q, M)) /\ Place(q)' = Cardinality(Newer(q, N))
  BY DEF Place, Newer
<1> HIDE DEF M, N
<1>5. \A q : /\ Newer(q, M) \in SUBSET Orders /\ Newer(q, N) \in SUBSET Orders
             /\ Place(q) \in Nat /\ Place(q)' \in Nat
  BY <1>3, <1>4 DEF Newer
<1>6. CASE /\ Remaining' \subseteq Remaining /\ PassedOver' \subseteq PassedOver
           /\ departures <= departures'
  <2>1. /\ Cardinality(PassedOver') <= Cardinality(PassedOver)
        /\ Cardinality(Remaining') <= Cardinality(Remaining)
    BY <1>3, <1>6, FS_Subset
  <2>2. /\ Cardinality(PassedOver') \in Nat /\ Cardinality(PassedOver) \in Nat
        /\ Cardinality(Remaining') \in Nat /\ Cardinality(Remaining) \in Nat
    BY <1>3
  <2> QED
    BY <1>2, <1>3, <1>6, <2>1, <2>2 DEF FewPassedOver, EndSeen
<1>7. CASE N = M /\ UNCHANGED departed
  <2>1. Remaining' = Remaining /\ \A q : Place(q)' = Place(q)
    BY <1>2, <1>4, <1>7 DEF Remaining, departed
  <2> QED
    BY <1>2, <1>3, <1>6, <1>7, <2>1 DEF PassedOver, departed
<1>8. CASE o \notin M /\ N = M \union {o} /\ UNCHANGED departed
  <2>1. Remaining' = Remaining
    BY <1>2, <1>8 DEF Remaining, departed
  <2>2. \A q : Place(q) <= Place(q)'
    <3> TAKE q
    <3>1. Newer(q, M) \in SUBSET Newer(q, N)
      BY <1>8 DEF Newer
    <3> QED
      BY <1>3, <1>4, <1>5, <3>1, FS_Subset
  <2>3. PassedOver' \subseteq PassedOver
    <3> SUFFICES ASSUME NEW q \in PassedOver' PROVE q \in PassedOver
      OBVIOUS
    <3>1. q \in Remaining \ OnPage /\ Place(q)' < PlacesRead
      BY <1>2, <2>1 DEF PassedOver
    <3>2. Place(q) < PlacesRead
      BY <1>3, <1>5, <2>2, <3>1
    <3> QED
      BY <3>1, <3>2 DEF PassedOver
  <2> QED
    BY <1>3, <1>6, <1>8, <2>1, <2>3 DEF departed
<1>9. CASE /\ o \in M /\ N = M \ {o}
           /\ pc # "start" => left' = left \union {o} /\ departures' = departures + 1
  <2>1. CASE pc = "start"
    <3>1. Remaining' = {} /\ PassedOver' = {}
      BY <1>1, <1>2, <1>3, <2>1 DEF Remaining, LeaversNoted
    <3> QED
      BY <1>2, <1>3, <2>1, <3>1, FS_EmptySet DEF FewPassedOver, EndSeen
  <2>2. CASE pc # "start"
    <3>1. Remaining' \subseteq Remaining
      BY <1>2, <1>9, <2>2 DEF Remaining
    <3>2. departures' = departures + 1
      BY <1>9, <2>2
    <3>3. \A q : Place(q) <= Place(q)' + 1
      <4> TAKE q
      <4>1. Newer(q, N) = Newer(q, M) \ {o}
        BY <1>9 DEF Newer
      <4>2. IsFiniteSet(Newer(q, M))
        BY <1>3, <1>5
      <4>3. Place(q)' = IF o \in Newer(q, M) THEN Place(q) - 1 ELSE Place(q)
        BY <1>4, <4>1, <4>2, FS_RemoveElement
      <4> QED
        BY <1>5, <4>3
    <3>4. \A q \in PassedOver' : /\ q \in Remaining \ OnPage /\ q \in M
                                 /\ Place(q) < PlacesRead \/ Place(q) = PlacesRead
      <4> TAKE q \in PassedOver'
      <4>1. q \in Remaining \ OnPage /\ Place(q)' < PlacesRead
        BY <1>2, <3>1 DEF PassedOver
      <4> QED
        BY <1>3, <1>5, <3>3, <4>1
    <3>5. \A q \in PassedOver' : q \in PassedOver \/ Place(q) = PlacesRead
      BY <3>4 DEF PassedOver
    <3>6. \A p, q \in PassedOver' : Place(p) = PlacesRead /\ Place(q) = PlacesRead => p = q
      BY <1>3, <1>4, <3>4, PlacesDiffer
    <3>7. PICK x : PassedOver' \subseteq PassedOver \union {x}
      BY <3>5, <3>6
    <3>8. Cardinality(PassedOver') <= Cardinality(PassedOver) + 1
      <4>1. IsFiniteSet(PassedOver) /\ Cardinality(PassedOver) \in Nat
        BY <1>3, PassedOver \in SUBSET Orders
      <4>2. /\ IsFiniteSet(PassedOver \union {x})
            /\ Cardinality(PassedOver \union {x}) \in
                 {Cardinality(PassedOver), Cardinality(PassedOver) + 1}
        BY <4>1, FS_AddElement
      <4>3. Cardinality(PassedOver') <= Cardinality(PassedOver \union {x})
        BY <3>7, <4>2, FS_Subset
      <4>4. Cardinality(PassedOver') \in Nat
        BY <1>3, PassedOver' \in SUBSET Orders
      <4> QED
        BY <4>1, <4>2, <4>3, <4>4
    <3>9. Cardinality(Remaining') <= Cardinality(Remaining)
      BY <1>3, <3>1, FS_Subset
    <3>10. /\ Cardinality(PassedOver') \in Nat /\ Cardinality(PassedOver) \in Nat
           /\ Cardinality(Remaining') \in Nat /\ Cardinality(Remaining) \in Nat
      BY <1>3
    <3> QED
      BY <1>2, <1>3, <3>2, <3>8, <3>9, <3>10 DEF FewPassedOver, EndSeen
  <2> QED
    BY <2>1, <2>2
<1> QED
  BY <1>7, <1>8, <1>9, ListChanges DEF M, N

LEMMA MissesReadStep ==
  ASSUME TypeInv, LeaversNoted, FewPassedOver, EndSeen, ReadStep
  PROVE  FewPassedOver' /\ EndSeen'
<1>1. UNCHANGED <<orders, processed, filter, limit, left, departures>>
  BY DEF elsewhere, ReadStep, ReadIds, ReadRows, LoadItems, LoadUsers, GetOrderItems, GetUserById,
     Answer, tables, question, departed
<1>2. Matching' = Matching /\ \A q : Place(q)' = Place(q)
  BY <1>1, MatchingUnchanged DEF Place, Newer
<1>3. /\ Matching \in SUBSET Orders /\ left \in SUBSET Orders /\ departures \in Nat
      /\ Remaining \in SUBSET Matching /\ PassedOver \in SUBSET Remaining
      /\ \A S \in SUBSET Orders : IsFiniteSet(S) /\ Cardinality(S) \in Nat
      /\ page \in Nat /\ limit \in Nat \ {0} /\ PlacesRead \in Nat
      /\ \A q \in Matching : Place(q) \in Nat /\ Place(q) < Cardinality(Matching)
  BY CountsTyped
<1>4. \A S, T \in SUBSET Orders : S \subseteq T => Cardinality(S) <= Cardinality(T)
  BY <1>3, FS_Subset
<1>5. departures \in Nat /\ Cardinality(PassedOver) \in Nat /\ Cardinality(Remaining) \in Nat
  BY <1>3
<1>6. ASSUME PassedOver' \subseteq PassedOver, pc # "done" PROVE FewPassedOver'
  <2>1. Cardinality(PassedOver') <= Cardinality(PassedOver) /\ Cardinality(PassedOver') \in Nat
    BY <1>3, <1>4, <1>6
  <2> QED
    BY <1>1, <1>5, <1>6, <2>1 DEF FewPassedOver
<1>7. ASSUME Remaining' \subseteq Remaining, ids' = ids, pc \in {"rows", "fields"} PROVE EndSeen'
  <2>1. Cardinality(Remaining') <= Cardinality(Remaining) /\ Cardinality(Remaining') \in Nat
    BY <1>3, <1>4, <1>7
  <2> QED
    BY <1>1, <1>5, <1>7, <2>1 DEF EndSeen
<1>8. CASE ReadIds
  <2>1. /\ pc \in {"start", "ask"} /\ pc' = "rows" /\ page' = page /\ seen' = seen
        /\ atStart' = IF pc = "start" THEN Matching ELSE atStart
    BY <1>8 DEF elsewhere, ReadIds
  <2>2. /\ Range(ids') = {q \in Matching :
                            Cardinality(Newer(q, Matching)) \in Skip..(Skip + limit - 1)}
        /\ ids' = <<>> <=> Cardinality(Matching) <= Skip
    BY <1>8, IdsRead
  <2>3. Skip' = Skip /\ Skip \in Nat /\ (pc = "start" => Skip = 0)
    BY <1>1, <1>3, <2>1, SkipIs DEF Skip, TypeInv, Pages
  <2>4. Remaining' \subseteq Matching /\ (pc = "ask" => Remaining' = Remaining)
    BY <1>1, <1>3, <2>1 DEF Remaining
  <2>5. \A q \in Matching : q \notin Range(ids') /\ Place(q) < Skip + limit => Place(q) < Skip
    <3> TAKE q \in Matching
    <3>1. q \in Range(ids') <=> Place(q) \in Skip..(Skip + limit - 1)
      BY <2>2 DEF Place
    <3> QED
      BY <1>3, <2>3, <3>1
  <2>6. \A q \in PassedOver' : q \in Remaining' /\ q \in Matching /\ Place(q) < Skip
    BY <1>1, <1>2, <2>1, <2>3, <2>4, <2>5 DEF PassedOver, OnPage, PlacesRead
  <2>7. CASE pc = "start"
    <3>1. PassedOver' = {}
      BY <1>3, <2>3, <2>6, <2>7
    <3>2. ids' = <<>> => Remaining' = {}
      <4>1. ASSUME ids' = <<>>, NEW q \in Remaining' PROVE FALSE
        BY <1>3, <2>2, <2>3, <2>4, <2>7, <4>1
      <4> QED
        BY <4>1
    <3>3. departures' = departures /\ 0 <= departures
      BY <1>1, <1>5
    <3>4. /\ Cardinality(PassedOver') = 0
          /\ ids' = <<>> => Cardinality(Remaining') = 0
      BY <3>1, <3>2, FS_EmptySet
    <3> QED
      BY <3>3, <3>4 DEF FewPassedOver, EndSeen
  <2>8. CASE pc = "ask"
    <3>1. PassedOver = {q \in Remaining : Place(q) < Skip}
      BY <2>8 DEF PassedOver, OnPage, PlacesRead
    <3>2. PassedOver' \subseteq PassedOver
      BY <2>4, <2>6, <2>8, <3>1
    <3>3. ids' = <<>> => Remaining' \subseteq PassedOver
      <4> SUFFICES ASSUME ids' = <<>>, NEW q \in Remaining' PROVE q \in PassedOver
        OBVIOUS
      <4>1. q \in Remaining /\ q \in Matching /\ Cardinality(Matching) <= Skip
        BY <2>2, <2>4, <2>8
      <4>2. Place(q) < Skip
        BY <1>3, <2>3, <4>1
      <4> QED
        BY <3>1, <4>1, <4>2
    <3>4. ids' = <<>> => /\ Cardinality(Remaining') <= Cardinality(PassedOver)
                         /\ Cardinality(Remaining') \in Nat
      BY <1>3, <1>4, <2>4, <3>3
    <3> QED
      BY <1>1, <1>5, <1>6, <2>8, <3>2, <3>4 DEF FewPassedOver, EndSeen
  <2> QED
    BY <2>1, <2>7, <2>8
<1>9. CASE ReadRows
  <2>1. /\ UNCHANGED <<page, ids, seen, atStart>> /\ pc = "rows" /\ pc' = "fields"
        /\ Range(listed') = Range(ids) \intersect Matching
    <3>1. Range(ids) \intersect Matching \in SUBSET Orders
      BY <1>3
    <3> QED
      BY <1>9, <3>1, SortedRange DEF elsewhere, ReadRows
  <2>2. Remaining' = Remaining /\ PlacesRead' = PlacesRead
    BY <1>1, <2>1 DEF Remaining, PlacesRead, Skip
  <2>3. PassedOver' \subseteq PassedOver
    BY <1>2, <1>3, <2>1, <2>2 DEF PassedOver, OnPage
  <2> QED
    BY <1>6, <1>7, <2>1, <2>2, <2>3
<1>10. CASE LoadItems \/ LoadUsers \/ \E o \in Orders : GetOrderItems(o) \/ GetUserById(o)
  <2>1. UNCHANGED <<page, pc, ids, listed, seen, atStart>> /\ pc = "fields"
    BY <1>10 DEF elsewhere, LoadItems, LoadUsers, GetOrderItems, GetUserById
  <2>2. Remaining' = Remaining /\ PlacesRead' = PlacesRead /\ OnPage' = OnPage
    BY <1>1, <2>1 DEF Remaining, PlacesRead, Skip, OnPage
  <2>3. PassedOver' \subseteq PassedOver
    BY <1>2, <2>2 DEF PassedOver
  <2> QED
    BY <1>6, <1>7, <2>1, <2>2, <2>3
<1>11. CASE Answer
  <2>1. /\ seen' = seen \union Range(listed) /\ page' = page + 1 /\ pc' \in {"ask", "done"}
        /\ pc = "fields" /\ UNCHANGED <<ids, atStart>>
    BY <1>11 DEF Answer
  <2>2. Remaining' = Remaining \ Range(listed)
    BY <1>1, <2>1 DEF Remaining
  <2>3. Skip' \in Nat /\ Skip' <= Skip + limit /\ Skip \in Nat
    <3>1. Skip' = SkipOf(page + 1, limit) /\ Skip = SkipOf(page, limit)
      BY <1>1, <2>1 DEF Skip, SkipOf
    <3> QED
      BY <1>3, <3>1, SkipGrows
  <2>4. CASE pc' = "ask"
    <3>1. PassedOver' \subseteq PassedOver
      <4> SUFFICES ASSUME NEW q \in PassedOver' PROVE q \in PassedOver
        OBVIOUS
      <4>1. q \in Remaining \ Range(listed) /\ Place(q) < Skip' /\ q \in Matching
        BY <1>2, <1>3, <2>2, <2>4 DEF PassedOver, OnPage, PlacesRead
      <4>2. Place(q) < Skip + limit
        BY <1>3, <2>3, <4>1
      <4> QED
        BY <2>1, <4>1, <4>2 DEF PassedOver, OnPage, PlacesRead
    <3> QED
      BY <1>6, <1>7, <2>1, <2>2, <3>1
  <2>5. CASE pc' = "done"
    BY <1>7, <2>1, <2>2, <2>5 DEF FewPassedOver
  <2> QED
    BY <2>1, <2>4, <2>5
<1> QED
  BY <1>8, <1>9, <1>10, <1>11 DEF ReadStep

LEMMA MissesStep ==
  TypeInv /\ LeaversNoted /\ FewPassedOver /\ EndSeen /\ [Next]_vars =>
    FewPassedOver' /\ EndSeen'
<1> SUFFICES ASSUME TypeInv, LeaversNoted, FewPassedOver, EndSeen, [Next]_vars
             PROVE  FewPassedOver' /\ EndSeen'
  OBVIOUS
<1>1. CASE UNCHANGED <<orders, processed, client, departed>>
  <2>1. UNCHANGED <<orders, processed, filter, limit, page, pc, ids, listed, seen, atStart, left,
                   departures>>
    BY <1>1 DEF client, question, answer, departed
  <2>2. Matching' = Matching
    BY <2>1, MatchingUnchanged
  <2>3. UNCHANGED <<Remaining, OnPage, PlacesRead>> /\ \A q : Place(q)' = Place(q)
    BY <2>1, <2>2 DEF Remaining, OnPage, PlacesRead, Skip, Place, Newer
  <2>4. PassedOver' = PassedOver
    BY <2>3 DEF PassedOver
  <2> QED
    BY <2>1, <2>3, <2>4 DEF FewPassedOver, EndSeen
<1>2. ASSUME NEW u \in customers, DeleteUser(u)
      PROVE  UNCHANGED <<orders, processed, client, departed>>
  BY <1>2 DEF DeleteUser
<1>3. UNCHANGED vars => UNCHANGED <<orders, processed, client, departed>>
  BY DEF elsewhere, vars, tables, client
<1> QED
  BY <1>1, <1>2, <1>3, MissesReadStep, MissesOrderStep DEF Next, Done

\* A walk to the end of the list misses no more of the orders that stayed on it than orders left
\* it meanwhile, however many are created, leave and are put back, and whatever the size of the
\* pages.
THEOREM FewMissed == Spec => []MissesOnlyForLeavers
<1>1. Init => FewPassedOver /\ EndSeen
  <2> SUFFICES ASSUME Init PROVE FewPassedOver /\ EndSeen
    OBVIOUS
  <2>1. PassedOver = {} /\ departures = 0 /\ pc = "start"
    BY DEF Init, PassedOver, Remaining
  <2> QED
    BY <2>1, FS_EmptySet DEF FewPassedOver, EndSeen
<1>2. Spec => [](TypeInv /\ LeaversNoted /\ FewPassedOver /\ EndSeen)
  BY <1>1, TypeInit, TypeStep, LeaversInit, LeaversStep, MissesStep, PTL DEF Spec
<1>3. EndSeen => MissesOnlyForLeavers
  BY DEF EndSeen, MissesOnlyForLeavers, Remaining
<1> QED
  BY <1>2, <1>3, PTL
=============================================================================
