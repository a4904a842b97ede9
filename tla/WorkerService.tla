--------------------------- MODULE WorkerService ---------------------------
(***************************************************************************)
(* WorkerService.handle_message and _handle_failure: up to prefetch        *)
(* activations of one worker process, one step per await that touches the  *)
(* store, the queue or the graph.                                          *)
(*                                                                         *)
(* pc            the next await of the activation                          *)
(* idle          none: the handler is free                                 *)
(* delay         publish_retry of a message whose lease is taken           *)
(* requeue       reject(requeue=True), when that publish_retry raised      *)
(* ack_delayed   ack, when it did not                                      *)
(* load          get_task                                                  *)
(* skip          ack of a finished task's or a stale message               *)
(* mark, started _mark_running: save_task, append_event                    *)
(* graph         orchestrator.run under asyncio.timeout                    *)
(* save, announce, ack       the outcome: save_task, append_event, ack     *)
(* resave                    _handle_failure: save_task                    *)
(* republish, announce_retry, ack_retry      a retry                       *)
(* unpublished               save_task after publish_retry failed          *)
(* announce_failed, reject   a failure                                     *)
(* release       finally: release_task_lease                               *)
(* stranded      the handler raised: its message stays unacknowledged      *)
(***************************************************************************)
EXTENDS AgentOrchestrator

WorkerPC == {"idle", "delay", "requeue", "ack_delayed", "load", "skip", "mark", "started",
             "graph", "save", "announce", "ack", "resave", "republish", "announce_retry",
             "ack_retry", "unpublished", "announce_failed", "reject", "release",
             "stranded"}

VARIABLE
  worker         \* worker[h]: pc; msg, the payload, NoMessage once settled;
                 \* live, whether the channel it came on is open; task, the copy

NoCopy == Absent

IdleWorker == [pc |-> "idle", msg |-> NoMessage, live |-> FALSE, task |-> NoCopy]

WorkerTypeOK ==
  worker \in [Handlers -> [pc : WorkerPC, msg : Message \cup {NoMessage},
                           live : BOOLEAN, task : TaskRecord]]

WorkerInit == worker = [h \in Handlers |-> IdleWorker]

At(h, pc)   == worker[h].pc = pc
Goto(h, pc) == worker' = [worker EXCEPT ![h].pc = pc]

\* The message is settled with the broker: acknowledged, rejected or requeued.
Settled(h, pc) == worker' = [worker EXCEPT ![h] = [IdleWorker EXCEPT !.pc = pc]]

----------------------------------------------------------------------------
\* The consumer hands over a message and handle_message takes the lease.
Receive(h, m) ==
  /\ At(h, "idle")
  /\ Deliver(m)
  /\ \/ /\ AcquireLease(h)
        /\ worker' = [worker EXCEPT ![h] = [pc |-> "load", msg |-> m, live |-> TRUE,
                                            task |-> NoCopy]]
     \/ /\ HasLease
        /\ UNCHANGED lease
        /\ worker' = [worker EXCEPT ![h] = [pc |-> "delay", msg |-> m, live |-> TRUE,
                                            task |-> NoCopy]]
  /\ UNCHANGED <<task, feed, graphVars>>

\* acquire_task_lease raises, outside the try block: nobody settles the message,
\* nor releases the lease if Redis had granted it.
ReceiveFails(h, m) ==
  /\ At(h, "idle")
  /\ Deliver(m)
  /\ \/ UNCHANGED lease
     \/ lease = "free" /\ lease' = "orphan"
  /\ worker' = [worker EXCEPT ![h] = [pc |-> "stranded", msg |-> m, live |-> TRUE,
                                      task |-> NoCopy]]
  /\ UNCHANGED <<task, feed, graphVars>>

\* Another activation holds the lease: the same message again, after a delay.
Delay(h) ==
  /\ At(h, "delay")
  /\ PublishRetry(worker[h].msg)
  /\ Goto(h, "ack_delayed")
  /\ UNCHANGED <<storeVars, graphVars>>

\* publish_retry raised, although the broker may have taken the message.
DelayFails(h) ==
  /\ At(h, "delay")
  /\ PublishRetryRaises(worker[h].msg)
  /\ Goto(h, "requeue")
  /\ UNCHANGED <<storeVars, graphVars>>

GiveBack(h) ==
  /\ At(h, "requeue")
  /\ worker[h].live
  /\ Requeue(worker[h].msg)
  /\ Settled(h, "idle")
  /\ UNCHANGED <<storeVars, graphVars>>

\* _matches_pending_message
MatchesPending(record, m) == record.pending = NoMessage \/ record.pending = m

PublishRecovery(record) == record.status = "failed" /\ record.error = "publish_failed"

Runnable(record, m) ==
  /\ record.status \in Executable \/ PublishRecovery(record)
  /\ MatchesPending(record, m)

\* get_task, and what handle_message decides from it.
Load(h) ==
  /\ At(h, "load")
  /\ \/ /\ task.status = "absent"
        /\ Goto(h, "reject")
     \/ /\ task.status # "absent"
        /\ ~ Runnable(task, worker[h].msg)
        /\ Goto(h, "skip")
     \/ /\ Runnable(task, worker[h].msg)
        /\ worker' = [worker EXCEPT ![h].pc = "mark",
                                    ![h].task = [task EXCEPT !.status = "running"]]
  /\ UNCHANGED <<storeVars, queueVars, graphVars>>

Mark(h) ==
  /\ At(h, "mark")
  /\ SaveTask(worker[h].task)
  /\ Goto(h, "started")
  /\ UNCHANGED <<lease, feed, queueVars, graphVars>>

AnnounceStarted(h) ==
  /\ At(h, "started")
  /\ AppendEvent("task.started")
  /\ Goto(h, "graph")
  /\ UNCHANGED <<task, lease, queueVars, graphVars>>

\* The steps of the run inside handler h.
GraphStep(h) ==
  /\ At(h, "graph")
  /\ \/ Enter(h, worker[h].msg, worker[h].task.product)
     \/ Pick(h, worker[h].msg)
     \/ Scope(h) \/ Plan(h) \/ AskApproval(h) \/ Decide(h)
     \/ Persist(h)
  /\ UNCHANGED <<worker, storeVars, queueVars>>

OutcomeStatus(at) ==
  CASE at = "input"     -> "awaiting_input"
    [] at = "approval"  -> "awaiting_approval"
    [] at = "rejected"  -> "rejected"
    [] at = "completed" -> "completed"

\* orchestrator.run returned: the record of the outcome.
Outcome(h) ==
  /\ At(h, "graph")
  /\ Return(h)
  /\ worker' = [worker EXCEPT ![h].pc = "save",
       ![h].task = [@ EXCEPT !.status = OutcomeStatus(graph[h].at),
                             !.error = "none", !.pending = NoMessage]]
  /\ UNCHANGED <<storeVars, queueVars>>

SaveOutcome(h) ==
  /\ At(h, "save")
  /\ SaveTask(worker[h].task)
  /\ Goto(h, "announce")
  /\ UNCHANGED <<lease, feed, queueVars, graphVars>>

\* Mutant: one entry of the map is wrong.
TerminalEventMixed(status) ==
  CASE status \in {"awaiting_input", "awaiting_approval"} -> "task.awaiting_input"
    [] status = "rejected"  -> "task.rejected"
    [] status = "completed" -> "task.completed"

TerminalEvent(status) ==
  CASE status = "awaiting_input"    -> "task.awaiting_input"
    [] status = "awaiting_approval" -> "task.awaiting_approval"
    [] status = "rejected"          -> "task.rejected"
    [] status = "completed"         -> "task.completed"

AnnounceOutcome(h) ==
  /\ At(h, "announce")
  /\ AppendEvent(TerminalEvent(worker[h].task.status))
  /\ Goto(h, "ack")
  /\ UNCHANGED <<task, lease, queueVars, graphVars>>

\* message.ack() on an open channel; only the lease is left to release.
Ack(h) ==
  /\ worker[h].live
  /\ \/ worker[h].pc \in {"skip", "ack", "ack_retry"} /\ Settled(h, "release")
     \/ At(h, "ack_delayed") /\ Settled(h, "idle")
  /\ UNCHANGED <<storeVars, queueVars, graphVars>>

----------------------------------------------------------------------------
(* _handle_failure.  The exception and the second get_task are one step:   *)
(* nothing happens in between.                                             *)

GraphStarted(h) == worker[h].pc \in {"graph", "save", "announce", "ack"}

\* Mutant: an answer becomes a retry as well, but keeps its id.
NextMessageMislabelled(h) ==
  [worker[h].msg EXCEPT !.attempt = @ + 1, !.kind = IF GraphStarted(h) THEN "retry" ELSE @]

\* The message of the next attempt: a fresh start becomes a "retry".
NextMessage(h) ==
  LET m == worker[h].msg
  IN [m EXCEPT !.attempt = @ + 1,
               !.kind = IF GraphStarted(h) /\ @ \notin {"input", "approval"}
                          THEN "retry" ELSE @]

\* Mutant: one attempt too many.
RetryableOnceMore(h, error) == error = "other" /\ NextMessage(h).attempt \leq MaxAttempts

\* error: "other" is what _is_retryable accepts, "fatal" an AppError or
\* ValueError it does not, "blocked" the codes resume_task refuses as well.
Retryable(h, error) == error = "other" /\ NextMessage(h).attempt < MaxAttempts

\* Mutant: the retry is saved without its message.
HandleFailureUnnamed(h, error) ==
  \/ task.status = "absent" /\ Goto(h, "reject")
  \/ /\ task.status # "absent"
     /\ worker' = [worker EXCEPT ![h].pc = "resave",
          ![h].task = [task EXCEPT
             !.status = IF Retryable(h, error) THEN "retrying" ELSE "failed",
             !.error  = IF error = "blocked" THEN "blocked" ELSE "other"]]

HandleFailure(h, error) ==
  \/ /\ task.status = "absent"
     /\ Goto(h, "reject")
  \/ /\ task.status # "absent"
     /\ worker' = [worker EXCEPT ![h].pc = "resave",
          ![h].task = [task EXCEPT
             !.status  = IF Retryable(h, error) THEN "retrying" ELSE "failed",
             !.error   = IF error = "blocked" THEN "blocked" ELSE "other",
             !.pending = NextMessage(h)]]

\* Redis or the channel fails an await inside the try block; an ack whose
\* channel is gone always does.  A write may have been taken all the same: but
\* for the last one before the graph starts, that is the write, followed by a
\* fault at the next await.
HandlerFault(h) ==
  /\ worker[h].pc \in {"load", "skip", "mark", "started", "save", "announce", "ack"}
  /\ HandleFailure(h, "other")
  /\ UNCHANGED feed \/ (At(h, "started") /\ AppendEvent("task.started"))
  /\ UNCHANGED <<task, lease, queueVars, graphVars>>

GraphRaises(h, error) ==
  /\ At(h, "graph")
  /\ Raise(h)
  /\ error = "blocked" => graph[h].at = "diagnose"
  /\ HandleFailure(h, error)
  /\ UNCHANGED <<storeVars, queueVars>>

SaveFailure(h) ==
  /\ At(h, "resave")
  /\ SaveTask(worker[h].task)
  /\ Goto(h, IF worker[h].task.status = "retrying" THEN "republish" ELSE "announce_failed")
  /\ UNCHANGED <<lease, feed, queueVars, graphVars>>

\* Mutant: the retry carries the message that failed.
RepublishReceived(h) ==
  /\ At(h, "republish")
  /\ PublishRetry(worker[h].msg)
  /\ Goto(h, "announce_retry")
  /\ UNCHANGED <<storeVars, graphVars>>

Republish(h) ==
  /\ At(h, "republish")
  /\ PublishRetry(worker[h].task.pending)
  /\ Goto(h, "announce_retry")
  /\ UNCHANGED <<storeVars, graphVars>>

RepublishFails(h) ==
  /\ At(h, "republish")
  /\ PublishRetryRaises(worker[h].task.pending)
  /\ worker' = [worker EXCEPT ![h].pc = "unpublished",
       ![h].task = [@ EXCEPT !.status = "failed", !.error = "publish_failed"]]
  /\ UNCHANGED <<storeVars, graphVars>>

SaveUnpublishedRetry(h) ==
  /\ At(h, "unpublished")
  /\ SaveTask(worker[h].task)
  /\ Goto(h, "announce_failed")
  /\ UNCHANGED <<lease, feed, queueVars, graphVars>>

AnnounceRetry(h) ==
  /\ At(h, "announce_retry")
  /\ AppendEvent("task.retrying")
  /\ Goto(h, "ack_retry")
  /\ UNCHANGED <<task, lease, queueVars, graphVars>>

AnnounceFailed(h) ==
  /\ At(h, "announce_failed")
  /\ AppendEvent("task.failed")
  /\ Goto(h, "reject")
  /\ UNCHANGED <<task, lease, queueVars, graphVars>>

Reject(h) ==
  /\ At(h, "reject")
  /\ worker[h].live
  /\ DeadLetter(worker[h].msg)
  /\ Settled(h, "release")
  /\ UNCHANGED <<storeVars, graphVars>>

\* The activation ends.  A message it has not settled stays unacknowledged
\* for as long as the channel lives.
Finish(h) ==
  worker' = [worker EXCEPT ![h] = IF @.live THEN [@ EXCEPT !.pc = "stranded", !.task = NoCopy]
                                            ELSE IdleWorker]

\* An exception out of _handle_failure or out of the delay path.
Escape(h) ==
  /\ \/ /\ worker[h].pc \in {"resave", "announce_retry", "ack_retry", "announce_failed",
                             "reject"}
        /\ Goto(h, "release")
     \/ worker[h].pc \in {"requeue", "ack_delayed"} /\ Finish(h)
  /\ UNCHANGED <<storeVars, queueVars, graphVars>>

\* save_task raises and the record goes on saying RETRYING: it was stored all the
\* same, before the publish, or the failed publish was not.
RetryForsaken(h) ==
  /\ \/ At(h, "resave") /\ worker[h].task.status = "retrying" /\ SaveTask(worker[h].task)
     \/ At(h, "unpublished") /\ UNCHANGED task
  /\ Goto(h, "release")
  /\ UNCHANGED <<lease, feed, queueVars, graphVars>>

----------------------------------------------------------------------------
(* finally: release_task_lease.                                            *)

Release(h) ==
  /\ At(h, "release")
  /\ ReleaseLease(h)
  /\ Finish(h)
  /\ UNCHANGED <<task, feed, queueVars, graphVars>>

\* The lease's release fails and is only logged: it lasts until its TTL.
ReleaseFails(h) ==
  /\ At(h, "release")
  /\ lease' = IF lease = h THEN "orphan" ELSE lease
  /\ Finish(h)
  /\ UNCHANGED <<task, feed, queueVars, graphVars>>

\* lease_ttl ends.
LeaseExpires ==
  /\ lease # "free"
  /\ lease' = "free"
  /\ UNCHANGED <<task, feed, worker, queueVars, graphVars>>

\* Messages the process has not settled go back to the queue.
RedeliverAll ==
  ready' = [m \in Message |->
    ready[m] + Cardinality({h \in Handlers : worker[h].live /\ worker[h].msg = m})]

\* The channel closes and reopens: the broker redelivers what the handlers
\* still work on, and their own ack or reject will raise.
ConnectionLost ==
  /\ \E h \in Handlers : worker[h].live
  /\ RedeliverAll
  /\ worker' = [h \in Handlers |-> IF At(h, "stranded") THEN IdleWorker
                                   ELSE [worker[h] EXCEPT !.live = FALSE]]
  /\ UNCHANGED <<delayed, dead, storeVars, graphVars>>

\* The worker process dies and is started again.
WorkerCrash ==
  /\ \E h \in Handlers : ~ At(h, "idle")
  /\ RedeliverAll
  /\ worker' = [h \in Handlers |-> IdleWorker]
  /\ lease' = IF lease = "free" THEN "free" ELSE "orphan"
  /\ GraphCrash
  /\ UNCHANGED <<task, feed, delayed, dead>>
=============================================================================
