--------------------------- MODULE RabbitChannel ---------------------------
(***************************************************************************)
(* The queue orders.process, its dead-letter queue, and the one AMQP       *)
(* channel over which the orders service publishes and consumes            *)
(* (modules/rabbitmq/rabbitmq.service.ts).  A copy d is one publication of *)
(* a message: a retry publishes another copy of the same message.          *)
(*                                                                         *)
(* What the service writes on the channel (ack, nack, or a publication     *)
(* followed by an ack) is buffered in out[d] and reaches the broker later, *)
(* or never: a lost connection drops it and the broker requeues what it    *)
(* had delivered.  The service never reconnects: after the connection is   *)
(* lost the process is "deaf" until somebody restarts it, and what its     *)
(* handlers still write has no effect.                                     *)
(*                                                                         *)
(* The module has no behaviour of its own: the modules that EXTEND it      *)
(* combine its actions with those of the handlers.                         *)
(*                                                                         *)
(* A definition marked "(mutant)", here and in the other modules, is a     *)
(* mistake the code does not make, put in place of the definition after it *)
(* to see that a property notices.                                         *)
(***************************************************************************)
EXTENDS Naturals, FiniteSets

CONSTANTS
  Messages,    \* message identities (the messageId of a payload)
  NoMessage,   \* the identity of a copy not published yet
  MaxPubs,     \* bound: publications in one behaviour, retries included
  Prefetch     \* RABBITMQ_PREFETCH: unacknowledged deliveries at a time

ASSUME ChannelAssumption ==
  /\ NoMessage \notin Messages
  /\ MaxPubs \in Nat
  /\ Prefetch \in Nat \ {0}

VARIABLES
  proc,        \* the orders service's process and its connection
  place,       \* where the broker has each copy
  mid,         \* the message each copy carries
  attempt,     \* the attempt field of each copy's payload
  out          \* what is buffered on the channel about each delivery

channelVars == <<proc, place, mid, attempt, out>>

Pubs == 1 .. MaxPubs

ChannelTypeOK ==
  /\ proc \in {"running", "deaf", "down"}
  /\ place \in [Pubs -> {"unused", "ready", "unacked", "acked", "dead"}]
  /\ mid \in [Pubs -> Messages \union {NoMessage}]
  /\ attempt \in [Pubs -> Nat]
  /\ out \in [Pubs -> {"none", "ack", "nack", "republish"}]

ChannelInit ==
  /\ proc = "running"
  /\ place = [d \in Pubs |-> "unused"]
  /\ mid = [d \in Pubs |-> NoMessage]
  /\ attempt = [d \in Pubs |-> 0]
  /\ out = [d \in Pubs |-> "none"]

\* Copies are numbered in the order in which the broker receives them.
Fresh(e) ==
  /\ place[e] = "unused"
  /\ \A f \in Pubs : place[f] = "unused" => e <= f

\* The broker stores a publication of message m as copy e.
Accept(e, m, a) ==
  /\ Fresh(e)
  /\ place' = [place EXCEPT ![e] = "ready"]
  /\ mid' = [mid EXCEPT ![e] = m]
  /\ attempt' = [attempt EXCEPT ![e] = a]

\* A publication made outside the handlers of this queue.
Enqueue(e, m) == Accept(e, m, 0) /\ UNCHANGED <<proc, out>>

\* (mutant) consume with noAck: a delivery is its acknowledgement.
DeliverNoAck(d) ==
  /\ proc = "running"
  /\ place[d] = "ready"
  /\ place' = [place EXCEPT ![d] = "acked"]
  /\ UNCHANGED <<proc, mid, attempt, out>>

\* The broker hands a copy to the consumer, within the prefetch window.
Deliver(d) ==
  /\ proc = "running"
  /\ place[d] = "ready"
  /\ Cardinality({e \in Pubs : place[e] = "unacked"}) < Prefetch
  /\ place' = [place EXCEPT ![d] = "unacked"]
  /\ UNCHANGED <<proc, mid, attempt, out>>

\* A handler writes on the channel; on a closed channel ack, nack and
\* sendToQueue throw, and every caller swallows the error.
Write(d, frame) ==
  /\ out' = IF proc = "running" THEN [out EXCEPT ![d] = frame] ELSE out
  /\ UNCHANGED <<proc, place, mid, attempt>>

\* The buffered frames reach the broker in the order they were written: of
\* a retry, the publication of the next attempt first, then the ack.
FlushPublish(d) ==
  /\ out[d] = "republish"
  /\ \E e \in Pubs : Accept(e, mid[d], attempt[d] + 1)
  /\ out' = [out EXCEPT ![d] = "ack"]
  /\ UNCHANGED proc

FlushAck(d) ==
  /\ out[d] = "ack"
  /\ place' = [place EXCEPT ![d] = "acked"]
  /\ out' = [out EXCEPT ![d] = "none"]
  /\ UNCHANGED <<proc, mid, attempt>>

\* (mutant) nack with requeue.
FlushNackRequeued(d) ==
  /\ out[d] = "nack"
  /\ place' = [place EXCEPT ![d] = "ready"]
  /\ out' = [out EXCEPT ![d] = "none"]
  /\ UNCHANGED <<proc, mid, attempt>>

\* (mutant) The queue has no dead-letter exchange.
FlushNackDropped(d) ==
  /\ out[d] = "nack"
  /\ place' = [place EXCEPT ![d] = "dropped"]
  /\ out' = [out EXCEPT ![d] = "none"]
  /\ UNCHANGED <<proc, mid, attempt>>

\* nack without requeue: the queue's dead-letter exchange takes the copy.
FlushNack(d) ==
  /\ out[d] = "nack"
  /\ place' = [place EXCEPT ![d] = "dead"]
  /\ out' = [out EXCEPT ![d] = "none"]
  /\ UNCHANGED <<proc, mid, attempt>>

Flush(d) == FlushPublish(d) \/ FlushAck(d) \/ FlushNack(d)

\* The channel is gone: buffered frames are lost, deliveries requeued.
Requeue ==
  /\ place' = [d \in Pubs |-> IF place[d] = "unacked" THEN "ready" ELSE place[d]]
  /\ out' = [d \in Pubs |-> "none"]
  /\ UNCHANGED <<mid, attempt>>

ConnectionLost == proc = "running" /\ proc' = "deaf" /\ Requeue

ProcessCrash == proc # "down" /\ proc' = "down" /\ Requeue

\* Somebody starts the process again (there is no restart policy).
ProcessStart == proc # "running" /\ proc' = "running" /\ Requeue
=============================================================================
