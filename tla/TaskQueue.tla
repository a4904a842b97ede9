----------------------------- MODULE TaskQueue -----------------------------
(***************************************************************************)
(* RabbitTaskQueue: the work queue, the delay queues whose messages return *)
(* to it when their TTL ends, and the dead-letter queue.  Order is not     *)
(* kept: redelivery and the three delays reorder.  Two equal messages can  *)
(* be in flight, so the queues are bags.  A message handed to a consumer   *)
(* is in neither bag; the broker gives it back when its channel closes.    *)
(***************************************************************************)
EXTENDS TaskStore

VARIABLES
  ready,         \* ready[m]: copies of m in the work queue
  delayed,       \* delayed[m]: copies of m in the delay queues
  dead           \* messages in the dead-letter queue

queueVars == <<ready, delayed, dead>>

QueueTypeOK ==
  /\ ready \in [Message -> Nat]
  /\ delayed \in [Message -> Nat]
  /\ dead \in SUBSET Message

QueueInit ==
  /\ ready = [m \in Message |-> 0]
  /\ delayed = [m \in Message |-> 0]
  /\ dead = {}

Put(queue, m) == [queue EXCEPT ![m] = @ + 1]

\* publish and publish_retry, when the broker takes the message.
Publish(m)      == ready' = Put(ready, m) /\ UNCHANGED <<delayed, dead>>
PublishRetry(m) == delayed' = Put(delayed, m) /\ UNCHANGED <<ready, dead>>

\* asyncio.timeout around a publish says nothing of what the broker did.
PublishRaises(m)      == Publish(m) \/ UNCHANGED queueVars
PublishRetryRaises(m) == PublishRetry(m) \/ UNCHANGED queueVars

Deliver(m) ==
  /\ ready[m] > 0
  /\ ready' = [ready EXCEPT ![m] = @ - 1]
  /\ UNCHANGED <<delayed, dead>>

\* reject(requeue=False)
DeadLetter(m) == dead' = dead \cup {m} /\ UNCHANGED <<ready, delayed>>

\* reject(requeue=True), and the redelivery of what was never acknowledged.
Requeue(m) == ready' = Put(ready, m) /\ UNCHANGED <<delayed, dead>>

\* x-message-ttl ends: the delay queue dead-letters into the task exchange.
DelayElapsed ==
  \E m \in Message :
    /\ delayed[m] > 0
    /\ delayed' = [delayed EXCEPT ![m] = @ - 1]
    /\ ready' = Put(ready, m)
    /\ UNCHANGED dead
=============================================================================
