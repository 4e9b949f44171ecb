----------------------- MODULE OrdersProcessorProofs -----------------------
(***************************************************************************)
(* What the worker guarantees for every number of messages, orders,        *)
(* products, retries and failures.                                         *)
(***************************************************************************)
EXTENDS OrdersProcessor, FiniteSetTheorems, TLAPS

(***************************************************************************)
(* Sums over the places of a function.  SumFunction is defined by a        *)
(* recursion over the subsets of its domain, each of which loses the       *)
(* element that CHOOSE takes out of it.                                    *)
(***************************************************************************)

\* Induction over the subsets of a finite set: a property (given as the set of those that have
\* it) which each subset has if it has it without any one of its elements.
LEMMA SubsetInduction ==
  ASSUME NEW S, IsFiniteSet(S), NEW H,
         \A T \in SUBSET S : (\A x \in T : T \ {x} \in H) => T \in H
  PROVE  S \in H
<1> DEFINE Bad == (SUBSET S) \ H
<1> SUFFICES ASSUME S \notin H PROVE FALSE
  OBVIOUS
<1>1. Bad \subseteq FiniteSubsetsOf(S) /\ Bad # {}
  BY FS_Subset DEF FiniteSubsetsOf
<1>2. PICK T \in Bad : \A U \in Bad : <<U, T>> \notin StrictSubsetOrdering(S)
  <2> HIDE DEF Bad
  <2> QED BY <1>1, FS_StrictSubsetOrderingWellFounded, WFMin
<1>3. PICK x \in T : T \ {x} \in Bad
  BY <1>2
<1>4. <<T \ {x}, T>> \in StrictSubsetOrdering(S)
  BY <1>2, <1>3 DEF StrictSubsetOrdering
<1> QED BY <1>2, <1>3, <1>4

Any(s) == CHOOSE x \in s : TRUE
Added(f, g, s) == IF s = {} THEN 0 ELSE f[Any(s)] + g[s \ {Any(s)}]

\* Every finite set has such a function of its subsets: those with up to n elements give those
\* with one more.
LEMMA SumExists ==
  ASSUME NEW f, NEW S, IsFiniteSet(S)
  PROVE  \E g : g = [s \in SUBSET S |-> Added(f, g, s)]
<1> DEFINE UpTo(n) == {s \in SUBSET S : Cardinality(s) <= n}
           H == {T \in SUBSET S : \E g : g = [s \in UpTo(Cardinality(T)) |-> Added(f, g, s)]}
<1>1. \A T \in SUBSET S : IsFiniteSet(T) /\ Cardinality(T) \in Nat /\ Cardinality(T) <= Cardinality(S)
  BY FS_Subset, FS_CardinalityType
<1>2. ASSUME NEW T \in SUBSET S, \A x \in T : T \ {x} \in H PROVE T \in H
  <2>1. CASE T = {}
    <3>1. UpTo(Cardinality(T)) = {{}}
      BY <1>1, <2>1, FS_EmptySet
    <3>2. [s \in {{}} |-> 0] = [s \in {{}} |-> Added(f, [t \in {{}} |-> 0], s)]
      BY DEF Added
    <3> QED
      BY <3>1, <3>2
  <2>2. CASE T # {}
    <3> DEFINE n == Cardinality(T) - 1
    <3>1. PICK x \in T : T \ {x} \in H
      BY <1>2, <2>2
    <3>2. n \in Nat /\ n + 1 = Cardinality(T) /\ Cardinality(T \ {x}) = n
      <4>1. IsFiniteSet(T) /\ Cardinality(T) \in Nat /\ Cardinality(T \ {x}) \in Nat
        BY <1>1, T \ {x} \in SUBSET S
      <4>2. Cardinality(T \ {x}) = Cardinality(T) - 1
        BY <3>1, <4>1, FS_RemoveElement
      <4> QED
        BY <4>1, <4>2
    <3>3. PICK g : g = [s \in UpTo(n) |-> Added(f, g, s)]
      BY <3>1, <3>2
    <3> DEFINE h == [s \in UpTo(n + 1) |-> Added(f, g, s)]
    <3>4. \A s \in UpTo(n) : s \in UpTo(n + 1) /\ h[s] = g[s]
      BY <1>1, <3>2, <3>3
    <3>5. ASSUME NEW s \in UpTo(n + 1), s # {} PROVE s \ {Any(s)} \in UpTo(n)
      <4>1. Any(s) \in s
        BY <3>5 DEF Any
      <4>2. Cardinality(s \ {Any(s)}) = Cardinality(s) - 1
        BY <1>1, <4>1, FS_RemoveElement
      <4> QED
        BY <1>1, <3>2, <4>2
    <3>6. \A s \in UpTo(n + 1) : Added(f, h, s) = Added(f, g, s)
      BY <3>4, <3>5 DEF Added
    <3>7. h = [s \in UpTo(n + 1) |-> Added(f, h, s)]
      <4> HIDE DEF UpTo
      <4> QED
        BY <3>6
    <3>8. h = [s \in UpTo(Cardinality(T)) |-> Added(f, h, s)]
      BY <3>2, <3>7
    <3> HIDE DEF h, UpTo
    <3> QED
      BY <3>8
  <2> QED
    BY <2>1, <2>2
<1>3. S \in H
  <2> HIDE DEF H
  <2> QED BY <1>2, SubsetInduction
<1>4. UpTo(Cardinality(S)) = SUBSET S
  BY <1>1
<1> QED
  BY <1>3, <1>4

LEMMA SumEquation ==
  ASSUME NEW f, NEW S, IsFiniteSet(S)
  PROVE  \E g : /\ \A T \in SUBSET S : g[T] = Added(f, g, T)
                /\ SumFunctionOnSet(f, S) = g[S]
<1> DEFINE it == CHOOSE g : g = [s \in SUBSET S |-> Added(f, g, s)]
<1>1. it = [s \in SUBSET S |-> Added(f, it, s)]
  BY SumExists
<1>2. SumFunctionOnSet(f, S) = it[S]
  BY DEF SumFunctionOnSet, FoldFunctionOnSet, MapThenFoldSet, Added, Any
<1> QED
  BY <1>1, <1>2

\* Two summands that differ at one place have sums that differ by as much.
LEMMA SumDiffersAt ==
  ASSUME NEW S, IsFiniteSet(S), NEW f \in [S -> Int], NEW g \in [S -> Int],
         NEW a \in S, \A x \in S \ {a} : g[x] = f[x]
  PROVE  /\ SumFunctionOnSet(f, S) \in Int
         /\ SumFunctionOnSet(g, S) = SumFunctionOnSet(f, S) + (g[a] - f[a])
<1>1. PICK F : /\ \A T \in SUBSET S : F[T] = Added(f, F, T)
               /\ SumFunctionOnSet(f, S) = F[S]
  BY SumEquation
<1>2. PICK G : /\ \A T \in SUBSET S : G[T] = Added(g, G, T)
               /\ SumFunctionOnSet(g, S) = G[S]
  BY SumEquation
<1> DEFINE H == {T \in SUBSET S : /\ F[T] \in Int
                                  /\ G[T] = F[T] + (IF a \in T THEN g[a] - f[a] ELSE 0)}
<1>3. ASSUME NEW T \in SUBSET S, \A x \in T : T \ {x} \in H PROVE T \in H
  <2>1. CASE T = {}
    <3>1. F[T] = 0 /\ G[T] = 0
      BY <1>1, <1>2, <2>1 DEF Added
    <3> QED
      BY <2>1, <3>1
  <2>2. CASE T # {}
    <3> DEFINE x == Any(T)
    <3>1. x \in T
      BY <2>2 DEF Any
    <3>2. F[T] = f[x] + F[T \ {x}] /\ G[T] = g[x] + G[T \ {x}]
      BY <1>1, <1>2, <2>2 DEF Added
    <3>3. T \ {x} \in H
      BY <1>3, <3>1
    <3> HIDE DEF x
    <3> QED
      BY <3>1, <3>2, <3>3
  <2> QED
    BY <2>1, <2>2
<1>4. S \in H
  <2> HIDE DEF H
  <2> QED BY <1>3, SubsetInduction
<1> QED
  BY <1>1, <1>2, <1>4

LEMMA SumOfZeros ==
  ASSUME NEW S, IsFiniteSet(S), NEW f, \A x \in S : f[x] = 0
  PROVE  SumFunctionOnSet(f, S) = 0
<1>1. PICK F : /\ \A T \in SUBSET S : F[T] = Added(f, F, T)
               /\ SumFunctionOnSet(f, S) = F[S]
  BY SumEquation
<1> DEFINE H == {T \in SUBSET S : F[T] = 0}
<1>2. ASSUME NEW T \in SUBSET S, \A x \in T : T \ {x} \in H PROVE T \in H
  <2>1. T # {} => Any(T) \in T
    BY DEF Any
  <2>2. F[T] = Added(f, F, T)
    BY <1>1
  <2> QED
    BY <1>2, <2>1, <2>2 DEF Added
<1>3. S \in H
  <2> HIDE DEF H
  <2> QED BY <1>2, SubsetInduction
<1> QED
  BY <1>1, <1>3
-----------------------------------------------------------------------------
USE ChannelAssumption, ProcessorAssumption
-----------------------------------------------------------------------------
(***************************************************************************)
(* Type correctness.                                                       *)
(***************************************************************************)

\* A copy that has been published carries a message, and only a published
\* copy has a handler.  The handler of an open channel has its delivery
\* unacknowledged, and writes about it once, when it ends.
WellFormed ==
  \A d \in Pubs :
    /\ place[d] # "unused" => mid[d] \in Messages
    /\ phase[d] # "none" => place[d] = "unacked" \/ (proc = "deaf" /\ place[d] # "unused")
    /\ out[d] # "none" => proc = "running" /\ phase[d] = "none" /\ place[d] = "unacked"

TypeInv == TypeOK /\ WellFormed

LEMMA TypeInit == Init => TypeInv
BY DEF Init, NothingRead, ChannelInit, TypeInv, TypeOK, ChannelTypeOK, WellFormed, Phases

LEMMA TypeStep == TypeInv /\ [Next]_vars => TypeInv'
<1> SUFFICES ASSUME TypeInv, [Next]_vars PROVE TypeInv'
  OBVIOUS
<1> USE DEF TypeInv, TypeOK, ChannelTypeOK, WellFormed, Phases, NothingRead, locks
<1>1. CASE \E m \in Messages : Publish(m)
  BY <1>1 DEF Publish, Enqueue, Accept, Fresh, tables
<1>2. ASSUME NEW d \in Pubs PROVE Receive(d) => TypeInv'
  BY DEF Receive, Deliver, Goto, tables
<1>3. ASSUME NEW d \in Pubs PROVE RejectInvalidJson(d) => TypeInv'
  BY DEF RejectInvalidJson, Finish, Goto, Release, Write, tables
<1>4. ASSUME NEW d \in Pubs PROVE InsertProcessed(d) => TypeInv'
  BY DEF InsertProcessed, CanInsert, Goto, channelVars, tables
<1>5. ASSUME NEW d \in Pubs PROVE AlreadyProcessed(d) => TypeInv'
  BY DEF AlreadyProcessed, CanInsert, Finish, Goto, Release, Write, tables
<1>6. ASSUME NEW d \in Pubs, ReadOrder(d) PROVE TypeInv'
  <2>1. CASE order[OrderId(d)] = "ABSENT"
    <3>1. phase[d] = "recorded" /\ Fail(d) /\ UNCHANGED faults
      BY <1>6, <2>1 DEF ReadOrder
    <3> QED
      BY <3>1 DEF Fail, Goto, Release, channelVars, tables
  <2>2. CASE order[OrderId(d)] # "ABSENT"
    BY <1>6, <2>2 DEF ReadOrder, Goto, channelVars, tables
  <2> QED
    BY <2>1, <2>2
<1>7. ASSUME NEW d \in Pubs, NEW p \in Products PROVE LockProduct(d, p) => TypeInv'
  BY DEF LockProduct, channelVars, tables
<1>8. ASSUME NEW d \in Pubs PROVE DeadlockVictim(d) => TypeInv'
  BY DEF DeadlockVictim, Fail, Goto, Release, channelVars, tables
<1>9. ASSUME NEW d \in Pubs PROVE Conflict(d) => TypeInv'
  BY DEF Conflict, HasLocks, Fail, Goto, Release, channelVars, tables
<1>10. ASSUME NEW d \in Pubs, Commit(d) PROVE TypeInv'
  <2>1. CASE FulfilOrder(d)
    BY <1>10, <2>1 DEF Commit, FulfilOrder, HasLocks, OrderId, Finish, Goto, Release, Write
  <2>2. CASE RecordOnly(d)
    BY <1>10, <2>2 DEF Commit, RecordOnly, Finish, Goto, Release, Write
  <2> QED
    BY <1>10, <2>1, <2>2 DEF Commit
<1>11. ASSUME NEW d \in Pubs PROVE RetryLater(d) => TypeInv'
  BY DEF RetryLater, Finish, Goto, Release, Write, tables
<1>12. ASSUME NEW d \in Pubs PROVE GiveUp(d) => TypeInv'
  BY DEF GiveUp, Finish, Goto, Release, Write, tables
<1>13. ASSUME NEW d \in Pubs, Send(d) PROVE TypeInv'
  <2>1. CASE FlushPublish(d)
    <3>1. PICK e \in Pubs : Accept(e, mid[d], attempt[d] + 1)
      BY <2>1 DEF FlushPublish
    <3>2. place[d] # "unused" /\ mid[d] \in Messages
      BY <2>1 DEF FlushPublish
    <3> QED
      BY <1>13, <2>1, <3>1, <3>2 DEF Send, FlushPublish, Accept, Fresh, tables
  <2>2. CASE FlushAck(d)
    BY <1>13, <2>2 DEF Send, FlushAck, tables
  <2>3. CASE FlushNack(d)
    BY <1>13, <2>3 DEF Send, FlushNack, tables
  <2> QED
    BY <1>13, <2>1, <2>2, <2>3 DEF Send, Flush
<1>14. ASSUME NEW d \in Pubs, CommitUnanswered(d) PROVE TypeInv'
  <2>1. CASE FulfilOrder(d)
    BY <1>14, <2>1 DEF CommitUnanswered, FulfilOrder, HasLocks, OrderId, Goto, Release,
                       Fault, channelVars
  <2>2. CASE RecordOnly(d)
    BY <1>14, <2>2 DEF CommitUnanswered, RecordOnly, Goto, Release, Fault, channelVars
  <2> QED
    BY <1>14, <2>1, <2>2 DEF CommitUnanswered
<1>15. ASSUME NEW d \in Pubs PROVE DbError(d) => TypeInv'
  BY DEF DbError, InTransaction, Fail, Goto, Release, Fault, channelVars, tables
<1>16. CASE LoseConnection
  BY <1>16 DEF LoseConnection, ConnectionLost, Requeue, Fault, tables
<1>17. CASE Crash
  BY <1>17 DEF Crash, ProcessCrash, Requeue, NoHandlers, Fault, tables
<1>18. CASE Restart
  BY <1>18 DEF Restart, ProcessStart, Requeue, NoHandlers, tables
<1>19. CASE UNCHANGED vars
  BY <1>19 DEF vars
<1>20. CASE Idle
  BY <1>20, <1>19 DEF Idle
<1> QED
  BY <1>1, <1>2, <1>3, <1>4, <1>5, <1>6, <1>7, <1>8, <1>9, <1>10, <1>11, <1>12, <1>13,
     <1>14, <1>15, <1>16, <1>17, <1>18, <1>19, <1>20 DEF Next, Handle

\* In every reachable state every variable has its type.
THEOREM TypeCorrect == Spec => []TypeOK
<1>1. TypeInv => TypeOK
  BY DEF TypeInv
<1> QED
  BY <1>1, TypeInit, TypeStep, PTL DEF Spec
-----------------------------------------------------------------------------
(***************************************************************************)
(* What a step does to the channel, and what justifies it.                 *)
(***************************************************************************)

\* What a handler may write: an ack for what is processed, the next attempt
\* while one is left, a nack for the rest.
JustifiedWrite(d) ==
  \/ Write(d, "ack") /\ mid[d] \in processed'
  \/ Write(d, "republish") /\ attempt[d] < MAX_ATTEMPTS
  \/ Write(d, "nack") /\ (mid[d] \in Malformed \/ attempt[d] >= MAX_ATTEMPTS)

ChannelStep ==
  \/ UNCHANGED channelVars
  \/ \E m \in Messages, e \in Pubs : Enqueue(e, m)
  \/ \E d \in Pubs : Deliver(d)
  \/ \E d \in Pubs : place[d] # "unused" /\ JustifiedWrite(d)
  \/ \E d \in Pubs : Flush(d)
  \/ Requeue

LEMMA ChannelSteps ==
  TypeInv /\ [Next]_vars => ChannelStep /\ processed \subseteq processed'
<1> SUFFICES ASSUME TypeInv, [Next]_vars
             PROVE  ChannelStep /\ processed \subseteq processed'
  OBVIOUS
<1>1. CASE \E m \in Messages : Publish(m)
  BY <1>1 DEF Publish, ChannelStep, tables
<1>2. CASE \E d \in Pubs : Receive(d) \/ Send(d)
  BY <1>2 DEF Receive, Send, ChannelStep, tables
<1>3. ASSUME NEW d \in Pubs, RejectInvalidJson(d) \/ AlreadyProcessed(d) \/ Commit(d)
                               \/ RetryLater(d) \/ GiveUp(d)
      PROVE  ChannelStep /\ processed \subseteq processed'
  <2>1. place[d] # "unused"
    BY <1>3 DEF RejectInvalidJson, AlreadyProcessed, CanInsert, Commit, FulfilOrder,
                HasLocks, RecordOnly, RetryLater, GiveUp, TypeInv, WellFormed
  <2>2. JustifiedWrite(d) /\ processed \subseteq processed'
    BY <1>3 DEF RejectInvalidJson, AlreadyProcessed, Commit, FulfilOrder, RecordOnly,
                RetryLater, GiveUp, Finish, JustifiedWrite, tables
  <2> QED
    BY <2>1, <2>2 DEF ChannelStep
<1>4. ASSUME NEW d \in Pubs,
             \/ InsertProcessed(d) \/ ReadOrder(d) \/ DeadlockVictim(d) \/ Conflict(d)
             \/ CommitUnanswered(d) \/ DbError(d) \/ \E p \in Products : LockProduct(d, p)
      PROVE  ChannelStep /\ processed \subseteq processed'
  BY <1>4 DEF InsertProcessed, ReadOrder, DeadlockVictim, Conflict, CommitUnanswered,
              FulfilOrder, RecordOnly, DbError, LockProduct, Fail, ChannelStep, tables
<1>5. CASE LoseConnection \/ Crash \/ Restart
  BY <1>5 DEF LoseConnection, ConnectionLost, Crash, ProcessCrash, Restart, ProcessStart,
              NoHandlers, ChannelStep, tables
<1>6. CASE Idle \/ UNCHANGED vars
  BY <1>6 DEF Idle, vars, ChannelStep, channelVars
<1> QED
  BY <1>1, <1>2, <1>3, <1>4, <1>5, <1>6 DEF Next, Handle
-----------------------------------------------------------------------------
(***************************************************************************)
(* No message is lost.                                                     *)
(***************************************************************************)

\* A copy in a queue that nobody is about to acknowledge.
Kept(d) == place[d] \in {"ready", "unacked", "dead"} /\ out[d] # "ack"

\* NothingLost is not inductive: a copy whose ack is on its way does not
\* count, for the ack may arrive without anything else happening.
KeepsMessages ==
  \A m \in Messages :
    Published(m) => m \in processed \/ \E d \in Pubs : mid[d] = m /\ Kept(d)

LEMMA KeepsInit == Init => KeepsMessages
BY DEF Init, ChannelInit, KeepsMessages, Published

LEMMA KeepsStep == TypeInv /\ KeepsMessages /\ [Next]_vars => KeepsMessages'
<1> SUFFICES ASSUME TypeInv, KeepsMessages, [Next]_vars,
                    NEW m \in Messages, Published(m)', m \notin processed'
             PROVE  \E d \in Pubs : (mid[d] = m /\ Kept(d))'
  BY DEF KeepsMessages
<1>1. ChannelStep /\ m \notin processed
  BY ChannelSteps
<1>2. Published(m) => \E d \in Pubs : mid[d] = m /\ Kept(d)
  BY <1>1 DEF KeepsMessages
<1> USE DEF TypeInv, TypeOK, ChannelTypeOK, WellFormed, Kept, Published
<1>3. CASE UNCHANGED channelVars
  BY <1>2, <1>3 DEF channelVars
<1>4. ASSUME NEW n \in Messages, NEW e \in Pubs, Enqueue(e, n)
      PROVE  \E d \in Pubs : (mid[d] = m /\ Kept(d))'
  BY <1>2, <1>4 DEF Enqueue, Accept, Fresh
<1>5. ASSUME NEW c \in Pubs, Deliver(c)
      PROVE  \E d \in Pubs : (mid[d] = m /\ Kept(d))'
  BY <1>2, <1>5 DEF Deliver
<1>6. ASSUME NEW c \in Pubs, JustifiedWrite(c)
      PROVE  \E d \in Pubs : (mid[d] = m /\ Kept(d))'
  BY <1>2, <1>6 DEF JustifiedWrite, Write
<1>7. ASSUME NEW c \in Pubs, FlushPublish(c)
      PROVE  \E d \in Pubs : (mid[d] = m /\ Kept(d))'
  <2>1. PICK e \in Pubs : Accept(e, mid[c], attempt[c] + 1)
    BY <1>7 DEF FlushPublish
  <2>2. /\ place[e] = "unused" /\ out[e] = "none" /\ place[c] = "unacked" /\ e # c
        /\ place' = [place EXCEPT ![e] = "ready"] /\ mid' = [mid EXCEPT ![e] = mid[c]]
        /\ out' = [out EXCEPT ![c] = "ack"]
    BY <1>7, <2>1 DEF FlushPublish, Accept, Fresh
  <2>3. CASE mid[c] = m
    <3>1. mid'[e] = m /\ place'[e] = "ready" /\ out'[e] = "none"
      BY <2>2, <2>3
    <3> QED
      BY <3>1
  <2>4. CASE mid[c] # m
    <3>1. Published(m)
      BY <2>2, <2>4
    <3>2. PICK d \in Pubs : mid[d] = m /\ Kept(d)
      BY <1>2, <3>1
    <3>3. d # c /\ d # e
      BY <2>2, <2>4, <3>2
    <3>4. mid'[d] = m /\ Kept(d)'
      BY <2>2, <3>2, <3>3
    <3> QED
      BY <3>4
  <2> QED
    BY <2>3, <2>4
<1>8. ASSUME NEW c \in Pubs, FlushAck(c) \/ FlushNack(c)
      PROVE  \E d \in Pubs : (mid[d] = m /\ Kept(d))'
  BY <1>2, <1>8 DEF FlushAck, FlushNack
<1>9. CASE Requeue
  BY <1>2, <1>9 DEF Requeue
<1> QED
  BY <1>1, <1>3, <1>4, <1>5, <1>6, <1>7, <1>8, <1>9 DEF ChannelStep, Flush

\* However the process and the connection fail, and in whatever order the
\* frames of a retry reach the broker, a published message is processed or
\* still in one of the two queues.
THEOREM MessagesKept == Spec => []NothingLost
<1>1. KeepsMessages => NothingLost
  BY DEF KeepsMessages, NothingLost, Kept
<1> QED
  BY <1>1, TypeInit, TypeStep, KeepsInit, KeepsStep, PTL DEF Spec
-----------------------------------------------------------------------------
(***************************************************************************)
(* Only unreadable and exhausted messages are dead-lettered.               *)
(***************************************************************************)

\* DeadLetterJustified, with what it takes of the frames under way.
RetriesBounded ==
  \A d \in Pubs :
    /\ attempt[d] <= MAX_ATTEMPTS
    /\ out[d] = "republish" => attempt[d] < MAX_ATTEMPTS
    /\ out[d] = "nack" \/ place[d] = "dead"
         => mid[d] \in Malformed \/ attempt[d] = MAX_ATTEMPTS

LEMMA RetriesInit == Init => RetriesBounded
BY DEF Init, ChannelInit, RetriesBounded

LEMMA RetriesStep == TypeInv /\ RetriesBounded /\ [Next]_vars => RetriesBounded'
<1> SUFFICES ASSUME TypeInv, RetriesBounded, ChannelStep PROVE RetriesBounded'
  BY ChannelSteps
<1> USE DEF TypeInv, TypeOK, ChannelTypeOK, WellFormed, RetriesBounded
<1>1. CASE UNCHANGED channelVars
  BY <1>1 DEF channelVars
<1>2. ASSUME NEW n \in Messages, NEW e \in Pubs, Enqueue(e, n) PROVE RetriesBounded'
  BY <1>2 DEF Enqueue, Accept, Fresh
<1>3. ASSUME NEW c \in Pubs, Deliver(c) PROVE RetriesBounded'
  BY <1>3 DEF Deliver
<1>4. ASSUME NEW c \in Pubs, JustifiedWrite(c) PROVE RetriesBounded'
  <2>1. CASE Write(c, "ack")
    BY <2>1 DEF Write
  <2>2. CASE Write(c, "republish") /\ attempt[c] < MAX_ATTEMPTS
    BY <2>2 DEF Write
  <2>3. CASE Write(c, "nack") /\ (mid[c] \in Malformed \/ attempt[c] = MAX_ATTEMPTS)
    BY <2>3 DEF Write
  <2>4. attempt[c] >= MAX_ATTEMPTS => attempt[c] = MAX_ATTEMPTS
    <3>1. attempt[c] \in Nat /\ attempt[c] <= MAX_ATTEMPTS /\ MAX_ATTEMPTS \in Nat
      OBVIOUS
    <3> QED
      BY ONLY <3>1
  <2> QED
    BY <1>4, <2>1, <2>2, <2>3, <2>4 DEF JustifiedWrite
<1>5. ASSUME NEW c \in Pubs, FlushPublish(c) PROVE RetriesBounded'
  <2>1. PICK e \in Pubs : Accept(e, mid[c], attempt[c] + 1)
    BY <1>5 DEF FlushPublish
  <2> QED
    BY <1>5, <2>1 DEF FlushPublish, Accept, Fresh
<1>6. ASSUME NEW c \in Pubs, FlushAck(c) \/ FlushNack(c) PROVE RetriesBounded'
  BY <1>6 DEF FlushAck, FlushNack
<1>7. CASE Requeue
  BY <1>7 DEF Requeue
<1> QED
  BY <1>1, <1>2, <1>3, <1>4, <1>5, <1>6, <1>7 DEF ChannelStep, Flush

\* No copy is published beyond the last attempt, and what is dead-lettered
\* was unreadable or had used them all.
THEOREM DeadLettersJustified == Spec => []DeadLetterJustified
<1>1. RetriesBounded => DeadLetterJustified
  BY DEF RetriesBounded, DeadLetterJustified
<1> QED
  BY <1>1, TypeInit, TypeStep, RetriesInit, RetriesStep, PTL DEF Spec
-----------------------------------------------------------------------------
(***************************************************************************)
(* The database transactions: what a step does to them.                    *)
(***************************************************************************)

Ended(d) ==
  /\ Goto(d, "none") \/ Goto(d, "failed")
  /\ Release(d)
  /\ UNCHANGED mid

\* The transactions of some handlers roll back; the others do not move.
OnlyRollbacks ==
  /\ UNCHANGED tables
  /\ \A e \in Pubs :
       \/ /\ phase'[e] = phase[e] /\ held'[e] = held[e] /\ seen'[e] = seen[e]
          /\ InTransaction(e) => mid'[e] = mid[e]
       \/ phase'[e] \in {"none", "received", "failed"} /\ held'[e] = {}

TransactionStep ==
  \/ OnlyRollbacks
  \/ \E d \in Pubs : InsertProcessed(d)
  \/ \E d \in Pubs : ReadOrder(d) /\ order[OrderId(d)] # "ABSENT"
  \/ \E d \in Pubs, p \in Products : LockProduct(d, p)
  \/ \E d \in Pubs : (FulfilOrder(d) \/ RecordOnly(d)) /\ Ended(d)

\* A message has one open transaction at a time, and none once recorded.
OneTransactionEach ==
  /\ \A d, e \in Pubs : InTransaction(d) /\ InTransaction(e) /\ mid[d] = mid[e] => d = e
  /\ \A d \in Pubs : InTransaction(d) => mid[d] \notin processed

SkipsProcessed == \A d \in Pubs : phase[d] = "skipping" => order[OrderId(d)] = "PROCESSED"

\* A row is locked by one transaction at a time, and what the transaction
\* read of it stays true.
LocksHold ==
  /\ \A d \in Pubs : held[d] # {} => phase[d] = "locking"
  /\ \A d, e \in Pubs : d # e => held[d] \cap held[e] = {}
  /\ \A d \in Pubs : \A p \in held[d] : seen[d][p] = stock[p]

StockNonNegative == \A p \in Products : stock[p] >= 0

TransactionInv ==
  /\ OneTransactionEach
  /\ SkipsProcessed
  /\ LocksHold
  /\ StockNonNegative
  /\ RecordedMeansProcessed

LEMMA TransactionSteps ==
  TypeInv /\ TransactionInv /\ [Next]_vars => TransactionStep
<1> SUFFICES ASSUME TypeInv, TransactionInv, [Next]_vars PROVE TransactionStep
  OBVIOUS
<1> USE DEF TypeInv, TypeOK, ChannelTypeOK, WellFormed, Phases
<1>1. CASE \E m \in Messages : Publish(m)
  <2>1. PICK m \in Messages, e \in Pubs : Enqueue(e, m) /\ UNCHANGED <<phase, locks, tables>>
    BY <1>1 DEF Publish
  <2> QED
    BY <2>1 DEF Enqueue, Accept, Fresh, InTransaction, locks, OnlyRollbacks, TransactionStep
<1>2. ASSUME NEW d \in Pubs, Receive(d) PROVE TransactionStep
  <2>1. phase[d] = "none" /\ held[d] = {}
    BY <1>2 DEF Receive, Deliver, TransactionInv, LocksHold
  <2> QED
    BY <1>2, <2>1 DEF Receive, Deliver, Goto, locks, OnlyRollbacks, TransactionStep
<1>3. ASSUME NEW d \in Pubs,
             RejectInvalidJson(d) \/ AlreadyProcessed(d) \/ RetryLater(d) \/ GiveUp(d)
      PROVE  TransactionStep
  BY <1>3 DEF RejectInvalidJson, AlreadyProcessed, RetryLater, GiveUp, Finish, Goto, Release,
              Write, OnlyRollbacks, TransactionStep
<1>4. ASSUME NEW d \in Pubs, Fail(d) PROVE TransactionStep
  BY <1>4 DEF Fail, Goto, Release, channelVars, OnlyRollbacks, TransactionStep
<1>5. ASSUME NEW d \in Pubs, DeadlockVictim(d) \/ Conflict(d) \/ DbError(d)
      PROVE  TransactionStep
  BY <1>4, <1>5 DEF DeadlockVictim, Conflict, DbError
<1>6. ASSUME NEW d \in Pubs, ReadOrder(d) PROVE TransactionStep
  BY <1>4, <1>6 DEF ReadOrder, TransactionStep
<1>7. ASSUME NEW d \in Pubs, Commit(d) \/ CommitUnanswered(d) PROVE TransactionStep
  BY <1>7 DEF Commit, CommitUnanswered, Finish, Write, channelVars, Ended, TransactionStep
<1>8. ASSUME NEW d \in Pubs, Send(d) PROVE TransactionStep
  <2>1. CASE FlushPublish(d)
    <3>1. PICK e \in Pubs : Accept(e, mid[d], attempt[d] + 1)
      BY <2>1 DEF FlushPublish
    <3> QED
      BY <1>8, <3>1 DEF Send, Accept, Fresh, InTransaction, locks, OnlyRollbacks,
                        TransactionStep
  <2>2. CASE FlushAck(d) \/ FlushNack(d)
    BY <1>8, <2>2 DEF Send, FlushAck, FlushNack, locks, OnlyRollbacks, TransactionStep
  <2> QED
    BY <1>8, <2>1, <2>2 DEF Send, Flush
<1>9. CASE LoseConnection
  BY <1>9 DEF LoseConnection, ConnectionLost, Requeue, locks, OnlyRollbacks, TransactionStep
<1>10. CASE Crash \/ Restart
  BY <1>10 DEF Crash, Restart, NoHandlers, OnlyRollbacks, TransactionStep
<1>11. CASE Idle \/ UNCHANGED vars
  BY <1>11 DEF Idle, vars, tables, OnlyRollbacks, TransactionStep
<1> QED
  BY <1>1, <1>2, <1>3, <1>5, <1>6, <1>7, <1>8, <1>9, <1>10, <1>11
     DEF Next, Handle, TransactionStep

LEMMA TransactionInit == Init => TransactionInv
BY DEF Init, ChannelInit, TransactionInv, OneTransactionEach, SkipsProcessed, LocksHold,
       StockNonNegative, InTransaction, RecordedMeansProcessed

LEMMA TransactionInvStep == TypeInv /\ TransactionInv /\ TransactionStep => TransactionInv'
<1> SUFFICES ASSUME TypeInv, TransactionInv, TransactionStep PROVE TransactionInv'
  OBVIOUS
<1> USE DEF TypeInv, TypeOK, ChannelTypeOK, WellFormed, Phases, InTransaction, OrderId
<1>0. OneTransactionEach /\ SkipsProcessed /\ LocksHold /\ StockNonNegative
      /\ RecordedMeansProcessed
  BY DEF TransactionInv
<1>1. CASE OnlyRollbacks
  <2>1. \A e \in Pubs : InTransaction(e)' =>
          InTransaction(e) /\ mid'[e] = mid[e] /\ phase'[e] = phase[e]
    BY <1>1 DEF OnlyRollbacks
  <2>2. \A e \in Pubs : held'[e] # {} =>
          held'[e] = held[e] /\ seen'[e] = seen[e] /\ phase'[e] = phase[e]
    BY <1>1 DEF OnlyRollbacks
  <2>3. UNCHANGED <<order, stock, processed, deducted>>
    BY <1>1 DEF OnlyRollbacks, tables
  <2>4. OneTransactionEach'
    BY <1>0, <2>1, <2>3 DEF OneTransactionEach
  <2>5. SkipsProcessed'
    BY <1>0, <2>1, <2>3 DEF SkipsProcessed
  <2>6. LocksHold'
    <3>1. \A e \in Pubs : \A p \in held'[e] : p \in held[e] /\ seen'[e] = seen[e]
      BY <2>2
    <3>2. \A d, e \in Pubs : d # e => held'[d] \cap held'[e] = {}
      BY <1>0, <3>1 DEF LocksHold
    <3>3. \A e \in Pubs : held'[e] # {} => phase'[e] = "locking"
      BY <1>0, <2>2 DEF LocksHold
    <3>4. \A e \in Pubs : \A p \in held'[e] : seen'[e][p] = stock'[p]
      BY <1>0, <2>3, <3>1 DEF LocksHold
    <3> QED
      BY <3>2, <3>3, <3>4 DEF LocksHold
  <2>7. StockNonNegative' /\ RecordedMeansProcessed'
    BY <1>0, <2>3 DEF StockNonNegative, RecordedMeansProcessed
  <2> QED
    BY <2>4, <2>5, <2>6, <2>7 DEF TransactionInv
<1>2. ASSUME NEW d \in Pubs, InsertProcessed(d) PROVE TransactionInv'
  <2> USE <1>0, <1>2 DEF InsertProcessed, CanInsert, Goto, channelVars, locks, tables
  <2>1. OneTransactionEach'
    BY DEF OneTransactionEach
  <2>2. SkipsProcessed' /\ LocksHold'
    BY DEF SkipsProcessed, LocksHold
  <2>3. StockNonNegative' /\ RecordedMeansProcessed'
    BY DEF StockNonNegative, RecordedMeansProcessed
  <2> QED
    BY <2>1, <2>2, <2>3 DEF TransactionInv
<1>3. ASSUME NEW d \in Pubs, ReadOrder(d), order[OrderId(d)] # "ABSENT" PROVE TransactionInv'
  <2> USE <1>0, <1>3 DEF ReadOrder, Goto, channelVars, locks, tables
  <2>1. OneTransactionEach'
    <3>1. mid' = mid /\ processed' = processed
      OBVIOUS
    <3>2. \A e \in Pubs : InTransaction(e)' <=> InTransaction(e)
      BY DEF InTransaction
    <3> QED
      BY ONLY <1>0, <3>1, <3>2 DEF OneTransactionEach, TransactionInv
  <2>2. SkipsProcessed'
    BY DEF SkipsProcessed
  <2>4. LocksHold'
    <3>1. \A e \in Pubs : held[e] # {} => e # d
      BY DEF LocksHold
    <3>2. held' = held /\ seen' = seen /\ stock' = stock
      OBVIOUS
    <3>3. \A e \in Pubs \ {d} : phase'[e] = phase[e]
      OBVIOUS
    <3>4. \A e \in Pubs : held'[e] # {} => phase'[e] = "locking"
      BY <3>1, <3>2, <3>3 DEF LocksHold
    <3> QED
      BY ONLY <1>0, <3>2, <3>4 DEF LocksHold
  <2>3. StockNonNegative' /\ RecordedMeansProcessed'
    BY DEF StockNonNegative, RecordedMeansProcessed
  <2> QED
    BY <2>1, <2>2, <2>3, <2>4 DEF TransactionInv
<1>4. ASSUME NEW d \in Pubs, NEW p \in Products, LockProduct(d, p) PROVE TransactionInv'
  <2> USE <1>0, <1>4 DEF LockProduct, channelVars, tables
  <2>1. OneTransactionEach' /\ SkipsProcessed'
    BY DEF OneTransactionEach, SkipsProcessed
  <2>2. LocksHold'
    <3>1. \A e \in Pubs \ {d} : held'[e] = held[e] /\ seen'[e] = seen[e]
      OBVIOUS
    <3>2. /\ held'[d] = held[d] \union {p}
          /\ seen'[d] = [seen[d] EXCEPT ![p] = stock[p]]
      OBVIOUS
    <3> QED
      BY <3>1, <3>2 DEF LocksHold
  <2>3. StockNonNegative' /\ RecordedMeansProcessed'
    BY DEF StockNonNegative, RecordedMeansProcessed
  <2> QED
    BY <2>1, <2>2, <2>3 DEF TransactionInv
<1>5. ASSUME NEW d \in Pubs, FulfilOrder(d), Ended(d) PROVE TransactionInv'
  <2> USE <1>0, <1>5 DEF FulfilOrder, HasLocks, Ended, Goto, Release
  <2>1. OneTransactionEach'
    <3>1. \A e \in Pubs : InTransaction(e)' =>
            e # d /\ InTransaction(e) /\ mid'[e] = mid[e] /\ mid[e] # mid[d]
      BY DEF OneTransactionEach
    <3>2. processed' = processed \union {mid[d]}
      OBVIOUS
    <3> QED
      BY <3>1, <3>2 DEF OneTransactionEach
  <2>2. SkipsProcessed'
    BY DEF SkipsProcessed
  <2>3. LocksHold'
    <3>1. \A e \in Pubs \ {d} : /\ held'[e] = held[e] /\ seen'[e] = seen[e]
                               /\ phase'[e] = phase[e]
                               /\ \A p \in held[e] : stock'[p] = stock[p]
      BY DEF LocksHold
    <3>2. held'[d] = {}
      OBVIOUS
    <3> QED
      BY <3>1, <3>2 DEF LocksHold
  <2> DEFINE o == OrderOf[mid[d]]
  <2>6. mid[d] \in Messages /\ o \in Orders
    OBVIOUS
  <2>4. StockNonNegative'
    <3>1. \A p \in Items(d) : seen[d][p] >= Demand[o][p]
      BY DEF EnoughStock
    <3>2. \A p \in Products : seen[d][p] \in Int /\ Demand[o][p] \in Nat
      BY <2>6
    <3>3. stock' = [p \in Products |->
                     IF p \in Items(d) THEN seen[d][p] - Demand[o][p] ELSE stock[p]]
      OBVIOUS
    <3> QED
      BY <1>0, <3>1, <3>2, <3>3 DEF StockNonNegative
  <2>5. RecordedMeansProcessed'
    <3>1. /\ processed' = processed \union {mid[d]}
          /\ order' = [order EXCEPT ![o] = "PROCESSED"]
          /\ deducted' = [deducted EXCEPT ![o] = @ + 1]
      OBVIOUS
    <3>2. \A q \in Orders : deducted[q] \in Nat
      OBVIOUS
    <3> QED
      BY <1>0, <2>6, <3>1, <3>2 DEF RecordedMeansProcessed
  <2> QED
    BY <2>1, <2>2, <2>3, <2>4, <2>5 DEF TransactionInv
<1>6. ASSUME NEW d \in Pubs, RecordOnly(d), Ended(d) PROVE TransactionInv'
  <2> USE <1>0, <1>6 DEF RecordOnly, Ended, Goto, Release
  <2>1. OneTransactionEach'
    <3>1. \A e \in Pubs : InTransaction(e)' =>
            e # d /\ InTransaction(e) /\ mid'[e] = mid[e] /\ mid[e] # mid[d]
      BY DEF OneTransactionEach
    <3>2. processed' = processed \union {mid[d]}
      OBVIOUS
    <3> QED
      BY <3>1, <3>2 DEF OneTransactionEach
  <2>2. SkipsProcessed' /\ LocksHold'
    BY DEF SkipsProcessed, LocksHold
  <2>3. StockNonNegative' /\ RecordedMeansProcessed'
    BY DEF StockNonNegative, RecordedMeansProcessed, SkipsProcessed
  <2> QED
    BY <2>1, <2>2, <2>3 DEF TransactionInv
<1> QED
  BY <1>1, <1>2, <1>3, <1>4, <1>5, <1>6 DEF TransactionStep

\* No failure leaves half of a transaction: a recorded message has its order
\* PROCESSED, and exactly the processed orders have left the stock.
THEOREM RecordedProcessed == Spec => []RecordedMeansProcessed
<1>1. TransactionInv => RecordedMeansProcessed
  BY DEF TransactionInv
<1>2. TypeInv /\ TransactionInv /\ [Next]_vars => TransactionInv'
  BY TransactionSteps, TransactionInvStep
<1> QED
  BY <1>1, <1>2, TypeInit, TypeStep, TransactionInit, PTL DEF Spec
-----------------------------------------------------------------------------
(***************************************************************************)
(* The stock that has gone is what the processed orders asked for.         *)
(***************************************************************************)

Taken(p) == [o \in Orders |-> deducted[o] * Demand[o][p]]

LEMMA BalanceInit == Init => StockBalance
<1> SUFFICES ASSUME Init, NEW p \in Products
             PROVE  stock[p] >= 0 /\ stock[p] + SumFunction(Taken(p)) = InitStock[p]
  BY DEF StockBalance, Taken
<1>1. \A o \in Orders : Taken(p)[o] = 0
  BY DEF Init, Taken
<1>2. SumFunction(Taken(p)) = 0
  BY <1>1, SumOfZeros DEF SumFunction, Taken
<1> QED
  BY <1>2 DEF Init

LEMMA BalanceStep ==
  TypeInv /\ TransactionInv /\ StockBalance /\ [Next]_vars => StockBalance'
<1> SUFFICES ASSUME TypeInv, TransactionInv, StockBalance, TransactionStep PROVE StockBalance'
  BY TransactionSteps
<1>1. ASSUME NEW d \in Pubs, FulfilOrder(d), NEW p \in Products
      PROVE  stock'[p] + SumFunction(Taken(p)') = InitStock[p]
  <2> DEFINE o == OrderOf[mid[d]]
  <2>1. mid[d] \in Messages /\ o \in Orders
    BY <1>1 DEF FulfilOrder, HasLocks, TypeInv, WellFormed
  <2>2. /\ stock \in [Products -> Int] /\ deducted \in [Orders -> Nat]
        /\ deducted' = [deducted EXCEPT ![o] = @ + 1]
    BY <1>1 DEF FulfilOrder, OrderId, TypeInv, TypeOK
  <2>3. Demand[o][p] \in Nat
    BY <2>1
  <2>4. stock'[p] = stock[p] - Demand[o][p]
    <3>1. CASE p \in Items(d)
      <4>1. seen[d][p] = stock[p]
        BY <1>1, <3>1 DEF FulfilOrder, HasLocks, TransactionInv, LocksHold
      <4> QED
        BY <1>1, <3>1, <4>1 DEF FulfilOrder, OrderId
    <3>2. CASE p \notin Items(d)
      <4>1. Demand[o][p] = 0
        BY <2>3, <3>2 DEF Items, OrderId
      <4> QED
        BY <1>1, <2>2, <3>2, <4>1 DEF FulfilOrder
    <3> QED
      BY <3>1, <3>2
  <2>5. /\ Taken(p) \in [Orders -> Int] /\ Taken(p)' \in [Orders -> Int]
        /\ \A q \in Orders \ {o} : Taken(p)'[q] = Taken(p)[q]
    <3>1. \A q \in Orders : Demand[q][p] \in Nat /\ deducted[q] \in Nat /\ deducted'[q] \in Nat
      BY <2>2
    <3>2. \A m, n \in Nat : m * n \in Int
      OBVIOUS
    <3> QED
      BY <2>2, <3>1, <3>2 DEF Taken
  <2>6. Taken(p)'[o] - Taken(p)[o] = Demand[o][p]
    <3>1. Taken(p)'[o] = (deducted[o] + 1) * Demand[o][p] /\ Taken(p)[o] = deducted[o] * Demand[o][p]
      BY <2>1, <2>2 DEF Taken
    <3>2. \A m, n \in Nat : (m + 1) * n - m * n = n
      OBVIOUS
    <3> QED
      BY <2>1, <2>2, <2>3, <3>1, <3>2
  <2>7. /\ SumFunction(Taken(p)) \in Int
        /\ SumFunction(Taken(p)') = SumFunction(Taken(p)) + Demand[o][p]
    <3> DEFINE f == Taken(p)
               g == Taken(p)'
    <3>1. /\ f \in [Orders -> Int] /\ g \in [Orders -> Int]
          /\ o \in Orders /\ \A q \in Orders \ {o} : g[q] = f[q]
          /\ g[o] - f[o] = Demand[o][p]
      BY <2>1, <2>5, <2>6
    <3> HIDE DEF f, g, o
    <3>2. /\ SumFunctionOnSet(f, Orders) \in Int
          /\ SumFunctionOnSet(g, Orders) = SumFunctionOnSet(f, Orders) + (g[o] - f[o])
      BY ONLY <3>1, SumDiffersAt, ProcessorAssumption
    <3>3. SumFunction(f) \in Int /\ SumFunction(g) = SumFunction(f) + Demand[o][p]
      BY <3>1, <3>2 DEF SumFunction
    <3> QED
      BY <3>3 DEF f, g, o
  <2>8. stock[p] + SumFunction(Taken(p)) = InitStock[p]
    BY DEF StockBalance, Taken
  <2> QED
    BY <2>2, <2>3, <2>4, <2>7, <2>8
<1>2. UNCHANGED <<stock, deducted>> \/ \E d \in Pubs : FulfilOrder(d)
  BY DEF TransactionStep, OnlyRollbacks, InsertProcessed, ReadOrder, LockProduct, RecordOnly, tables
<1>3. StockNonNegative'
  BY TransactionInvStep DEF TransactionInv
<1>4. CASE UNCHANGED <<stock, deducted>>
  BY <1>4 DEF StockBalance
<1> QED
  BY <1>1, <1>2, <1>3, <1>4 DEF StockBalance, StockNonNegative, Taken

\* No deduction is lost, none is made twice by two handlers, and none takes more than there is:
\* whatever the handlers, the broker and the failures do, stock and deductions make up the
\* stock of the start.
THEOREM StockConserved == Spec => []StockBalance
<1>1. TypeInv /\ TransactionInv /\ [Next]_vars => TransactionInv'
  BY TransactionSteps, TransactionInvStep
<1> QED
  BY <1>1, TypeInit, TypeStep, TransactionInit, BalanceInit, BalanceStep, PTL DEF Spec
-----------------------------------------------------------------------------
(***************************************************************************)
(* One message per order: each order is fulfilled once, and the tables     *)
(* change as Fulfilment says.                                              *)
(***************************************************************************)

\* The order was read without a lock, so only the row of processed_messages
\* keeps it PENDING until its transaction ends: no other message is about it.
FulfilledOnce ==
  /\ \A d \in Pubs : phase[d] = "locking" => order[OrderId(d)] = "PENDING"
  /\ \A o \in Orders : order[o] = "PROCESSED" => \E m \in processed : OrderOf[m] = o
  /\ DeductedOnce

InvOnce == TypeInv /\ TransactionInv /\ FulfilledOnce

LEMMA FulfilledInit == Init => FulfilledOnce
<1> SUFFICES ASSUME Init PROVE FulfilledOnce
  OBVIOUS
<1>1. \A d \in Pubs : phase[d] # "locking"
  BY DEF Init
<1>2. \A o \in Orders : order[o] # "PROCESSED" /\ deducted[o] = 0
  BY DEF Init
<1> QED
  BY <1>1, <1>2 DEF FulfilledOnce, DeductedOnce

LEMMA FulfilledStep ==
  ASSUME OneMessagePerOrder, InvOnce, TransactionStep
  PROVE  FulfilledOnce'
<1> USE DEF TypeInv, TypeOK, ChannelTypeOK, WellFormed, Phases, InTransaction, OrderId
<1>0. TypeInv /\ TransactionInv /\ FulfilledOnce
  BY DEF InvOnce
<1>1. CASE OnlyRollbacks
  <2>1. \A e \in Pubs : phase'[e] = "locking" => phase[e] = "locking" /\ mid'[e] = mid[e]
    BY <1>0, <1>1 DEF OnlyRollbacks
  <2> QED
    BY <1>0, <1>1, <2>1 DEF OnlyRollbacks, tables, FulfilledOnce, DeductedOnce
<1>2. ASSUME NEW d \in Pubs, InsertProcessed(d) PROVE FulfilledOnce'
  BY <1>0, <1>2 DEF InsertProcessed, Goto, channelVars, tables, FulfilledOnce, DeductedOnce
<1>3. ASSUME NEW d \in Pubs, ReadOrder(d), order[OrderId(d)] # "ABSENT" PROVE FulfilledOnce'
  <2>1. mid[d] \in Messages /\ OrderId(d) \in Orders
    BY <1>0, <1>3 DEF ReadOrder
  <2> QED
    BY <1>0, <1>3, <2>1 DEF ReadOrder, Goto, channelVars, tables, FulfilledOnce, DeductedOnce
<1>4. ASSUME NEW d \in Pubs, NEW p \in Products, LockProduct(d, p) PROVE FulfilledOnce'
  BY <1>0, <1>4 DEF LockProduct, channelVars, tables, FulfilledOnce, DeductedOnce
<1>5. ASSUME NEW d \in Pubs, FulfilOrder(d), Ended(d) PROVE FulfilledOnce'
  <2> DEFINE o == OrderOf[mid[d]]
  <2>1. phase[d] = "locking" /\ mid[d] \in Messages /\ o \in Orders
    BY <1>0, <1>5 DEF FulfilOrder, HasLocks
  <2>2. /\ processed' = processed \union {mid[d]}
        /\ order' = [order EXCEPT ![o] = "PROCESSED"]
        /\ deducted' = [deducted EXCEPT ![o] = @ + 1]
        /\ mid' = mid
    BY <1>5 DEF FulfilOrder, Ended
  <2>3. \A e \in Pubs : phase'[e] = "locking" => phase[e] = "locking" /\ e # d
    BY <1>0, <1>5 DEF Ended, Goto
  <2>4. \A e \in Pubs : phase'[e] = "locking" => OrderOf[mid[e]] # o
    <3>1. \A e \in Pubs : phase[e] = "locking" /\ e # d => mid[e] # mid[d]
      BY <1>0, <2>1 DEF TransactionInv, OneTransactionEach
    <3>2. \A e \in Pubs : phase[e] = "locking" => mid[e] \in Messages
      BY <1>0
    <3> QED
      BY <2>1, <2>3, <3>1, <3>2 DEF OneMessagePerOrder
  <2>5. order[o] = "PENDING" /\ deducted[o] \in Nat
    BY <1>0, <2>1 DEF FulfilledOnce
  <2>6. deducted[o] = 0
    BY <1>0, <2>1, <2>5 DEF TransactionInv, RecordedMeansProcessed
  <2>7. \A e \in Pubs : phase'[e] = "locking" => order'[OrderOf[mid'[e]]] = "PENDING"
    BY <1>0, <2>1, <2>2, <2>3, <2>4 DEF FulfilledOnce
  <2>8. \A q \in Orders : order'[q] = "PROCESSED" => \E m \in processed' : OrderOf[m] = q
    BY <1>0, <2>1, <2>2 DEF FulfilledOnce
  <2>9. DeductedOnce'
    BY <1>0, <2>1, <2>2, <2>6 DEF FulfilledOnce, DeductedOnce
  <2> QED
    BY <2>7, <2>8, <2>9 DEF FulfilledOnce
<1>6. ASSUME NEW d \in Pubs, RecordOnly(d), Ended(d) PROVE FulfilledOnce'
  BY <1>0, <1>6 DEF RecordOnly, Ended, Goto, FulfilledOnce, DeductedOnce
<1> QED
  BY <1>1, <1>2, <1>3, <1>4, <1>5, <1>6 DEF TransactionStep

LEMMA InvOnceAlways ==
  ASSUME OneMessagePerOrder
  PROVE  Spec => []InvOnce
<1>1. Init => InvOnce
  BY TypeInit, TransactionInit, FulfilledInit DEF InvOnce
<1>2. InvOnce /\ [Next]_vars => InvOnce'
  BY TypeStep, TransactionSteps, TransactionInvStep, FulfilledStep DEF InvOnce
<1> QED
  BY <1>1, <1>2, PTL DEF Spec

\* Redelivered, retried or republished, a message takes its order's items
\* out of the stock at most once.
THEOREM NeverDeductedTwice ==
  ASSUME OneMessagePerOrder
  PROVE  Spec => []DeductedOnce
<1>1. InvOnce => DeductedOnce
  BY DEF InvOnce, FulfilledOnce
<1> QED
  BY <1>1, InvOnceAlways, PTL

LEMMA FulfilsAbstractly ==
  ASSUME OneMessagePerOrder, InvOnce, TransactionStep
  PROVE  Abstract!Next \/ UNCHANGED <<order, stock, processed>>
<1> USE DEF TypeInv, TypeOK, ChannelTypeOK, WellFormed, Phases, OrderId
<1>0. TypeInv /\ TransactionInv /\ FulfilledOnce
  BY DEF InvOnce
<1>1. ASSUME NEW d \in Pubs, FulfilOrder(d) PROVE Abstract!Fulfil(mid[d]) /\ mid[d] \in Messages
  <2> DEFINE o == OrderOf[mid[d]]
  <2>1. phase[d] = "locking" /\ held[d] = Items(d) /\ mid[d] \in Messages /\ o \in Orders
    BY <1>0, <1>1 DEF FulfilOrder, HasLocks
  <2>2. mid[d] \notin processed /\ order[o] = "PENDING"
    BY <1>0, <2>1 DEF TransactionInv, OneTransactionEach, InTransaction, FulfilledOnce
  <2>3. \A p \in Items(d) : seen[d][p] = stock[p] /\ stock[p] >= Demand[o][p]
    BY <1>0, <1>1, <2>1 DEF TransactionInv, LocksHold, FulfilOrder, EnoughStock
  <2>4. \A p \in Products \ Items(d) : Demand[o][p] = 0
    BY <2>1 DEF Items
  <2>5. \A p \in Products : stock[p] \in Int /\ stock[p] >= 0
    BY <1>0 DEF TransactionInv, StockNonNegative
  <2>6. \A p \in Products : stock[p] >= Demand[o][p]
    BY <2>3, <2>4, <2>5
  <2>7. stock' = [p \in Products |-> stock[p] - Demand[o][p]]
    BY <1>1, <2>3, <2>4, <2>5 DEF FulfilOrder
  <2> QED
    BY <1>1, <2>1, <2>2, <2>6, <2>7 DEF FulfilOrder, Abstract!Fulfil
<1>2. ASSUME NEW d \in Pubs, RecordOnly(d) PROVE FALSE
  <2>1. mid[d] \in Messages /\ mid[d] \notin processed /\ order[OrderOf[mid[d]]] = "PROCESSED"
    BY <1>0, <1>2 DEF RecordOnly, TransactionInv, OneTransactionEach, SkipsProcessed,
                      InTransaction
  <2>2. PICK m \in processed : OrderOf[m] = OrderOf[mid[d]]
    BY <1>0, <2>1 DEF FulfilledOnce
  <2> QED
    BY <1>0, <2>1, <2>2 DEF OneMessagePerOrder
<1>3. CASE OnlyRollbacks
  BY <1>3 DEF OnlyRollbacks, tables
<1>4. ASSUME NEW d \in Pubs,
             InsertProcessed(d) \/ (ReadOrder(d) /\ order[OrderId(d)] # "ABSENT")
             \/ \E p \in Products : LockProduct(d, p)
      PROVE  UNCHANGED <<order, stock, processed>>
  BY <1>4 DEF InsertProcessed, ReadOrder, LockProduct, tables
<1> QED
  BY <1>1, <1>2, <1>3, <1>4 DEF TransactionStep, Abstract!Next

\* The worker implements Fulfilment: with one message per order, everything
\* the handlers, the broker and the failures do to the tables is a sequence
\* of whole, single fulfilments.
THEOREM FulfilmentImplemented ==
  ASSUME OneMessagePerOrder
  PROVE  Spec => ImplementsFulfilment
<1>1. Init => Abstract!Init
  BY DEF Init, Abstract!Init
<1>2. InvOnce /\ [Next]_vars => [Abstract!Next]_<<order, stock, processed>>
  BY TransactionSteps, FulfilsAbstractly DEF InvOnce
<1> QED
  BY <1>1, <1>2, InvOnceAlways, PTL DEF Spec, ImplementsFulfilment, Abstract!Spec
=============================================================================
