----------------------------- MODULE TaskSystem ----------------------------
(***************************************************************************)
(* One task from create_task to its end: the API's requests, the worker's  *)
(* handlers, the queue, the record, the graph and the ledger together.     *)
(***************************************************************************)
EXTENDS WorkerService, TaskService

CONSTANTS
  MaxRequests,   \* bound: requests after create_task
  MaxFaults,     \* bound: awaits that raise
  MaxCrashes,    \* bound: dead processes and closed channels
  SlowHandlers   \* whether a lease may expire under a handler that still runs

ASSUME BoundsAssumption ==
  /\ MaxRequests \in Nat /\ MaxFaults \in Nat /\ MaxCrashes \in Nat
  /\ SlowHandlers \in BOOLEAN

VARIABLE
  spent          \* how much of each bound is used, and a history no guard reads:
                 \* forsaken, whether an await raised between the store of a record
                 \* that promises a message and the publish, or the FAILED, after it

vars == <<task, lease, feed, ready, delayed, dead, graph, checkpoint, change, late,
          worker, request, offered, spent>>

TypeOK ==
  /\ StoreTypeOK /\ QueueTypeOK /\ GraphTypeOK /\ WorkerTypeOK /\ ServiceTypeOK
  /\ spent \in [requests : 0 .. MaxRequests, faults : 0 .. MaxFaults,
                crashes : 0 .. MaxCrashes, forsaken : BOOLEAN]

Init ==
  /\ StoreInit /\ QueueInit /\ GraphInit /\ WorkerInit /\ ServiceInit
  /\ spent = [requests |-> 0, faults |-> 0, crashes |-> 0, forsaken |-> FALSE]

Spend(kind, bound) ==
  /\ spent[kind] < bound
  /\ spent' = [spent EXCEPT ![kind] = @ + 1]

Forsake ==
  /\ spent.faults < MaxFaults
  /\ spent' = [spent EXCEPT !.faults = @ + 1, !.forsaken = TRUE]

\* What handler h does when nothing fails.
Work(h) ==
  \/ \E m \in Message : Receive(h, m)
  \/ Delay(h) \/ GiveBack(h) \/ Load(h) \/ Mark(h) \/ AnnounceStarted(h)
  \/ GraphStep(h) \/ Outcome(h)
  \/ SaveOutcome(h) \/ AnnounceOutcome(h) \/ Ack(h)
  \/ SaveFailure(h) \/ Republish(h) \/ AnnounceRetry(h)
  \/ SaveUnpublishedRetry(h) \/ AnnounceFailed(h) \/ Reject(h)
  \/ Release(h)

\* Settling a message whose channel is gone raises.
ChannelGone(h) ==
  /\ ~ worker[h].live
  /\ \/ worker[h].pc \in {"skip", "ack"} /\ HandlerFault(h)
     \/ worker[h].pc \in {"ack_retry", "reject", "requeue", "ack_delayed"} /\ Escape(h)

WorkerFault(h) ==
  \/ \E m \in Message : ReceiveFails(h, m)
  \/ DelayFails(h) \/ HandlerFault(h) \/ RepublishFails(h) \/ Escape(h) \/ ReleaseFails(h)
  \/ \E error \in {"other", "fatal", "blocked"} : GraphRaises(h, error)

\* What request c does once it is accepted, when nothing fails.
Serve(c) ==
  \/ RecordDecision(c) \/ Transition(c) \/ CheckLease(c) \/ SaveResumed(c)
  \/ AnnounceRequest(c) \/ PublishRequest(c)
  \/ SaveUnpublished(c) \/ AnnounceUnpublished(c)

NewRequest(c) ==
  \/ \E p \in Products : SubmitInput(c, p)
  \/ \E decision \in {"approve", "reject"} : SubmitApproval(c, decision)
  \/ Resume(c)

\* Nothing the environment does touches the worker's or the API's memory.
Environment ==
  \/ DelayElapsed /\ UNCHANGED <<storeVars, graphVars>>
  \/ LateCommit /\ UNCHANGED <<storeVars, queueVars>>

LeaseMayExpire == lease = "orphan" \/ SlowHandlers

\* The record's TTL is days: it ends only when nobody works on the task.
Quiet ==
  /\ \A h \in Handlers : worker[h].pc \in {"idle", "stranded"}
  /\ \A c \in Clients : Asks(c, "idle")

WorkerNext ==
  \/ \E h \in Handlers : (Work(h) \/ ChannelGone(h)) /\ UNCHANGED spent
  \/ \E h \in Handlers : WorkerFault(h) /\ Spend("faults", MaxFaults)
  \/ \E h \in Handlers : RetryForsaken(h) /\ Forsake
  \/ LeaseMayExpire /\ LeaseExpires /\ UNCHANGED spent
  \/ (ConnectionLost \/ WorkerCrash) /\ Spend("crashes", MaxCrashes)

ServiceNext ==
  \/ \E c \in Clients : Serve(c) /\ UNCHANGED spent
  \/ \E c \in Clients : NewRequest(c) /\ Spend("requests", MaxRequests)
  \/ \E c \in Clients : (PublishFails(c) \/ RequestRaises(c)) /\ Spend("faults", MaxFaults)
  \/ \E c \in Clients : RequestForsaken(c) /\ Forsake
  \/ \E c \in Clients : RequestAborts(c) /\ Spend("crashes", MaxCrashes)
  \/ ReadOffer /\ UNCHANGED spent

Next ==
  \/ WorkerNext /\ UNCHANGED <<request, offered>>
  \/ ServiceNext /\ UNCHANGED worker
  \/ Environment /\ UNCHANGED <<worker, request, offered, spent>>
  \/ Quiet /\ ExpireRecord /\ UNCHANGED <<queueVars, graphVars, worker, request, offered, spent>>

Spec == Init /\ [][Next]_vars

----------------------------------------------------------------------------
(* Safety.                                                                 *)

\* Everything that may still be executed names the message that may execute
\* it: _matches_pending_message, which lets any message pass when
\* pending_attempt is None, never meets such a record in an executable state,
\* whatever blind save_task came last.
PendingGoverns ==
  task.pending = NoMessage => task.status \in Awaiting \cup Final \cup {"absent"}

\* The messages in flight: queued, delayed, or in a handler's hands.
InFlight == {m \in Message : ready[m] > 0 \/ delayed[m] > 0}
              \cup {worker[h].msg : h \in {g \in Handlers : worker[g].msg # NoMessage}}

\* Retries are limited: no message is ever sent for attempt max_task_attempts,
\* by the worker, by a failed handler's second try, or by resume_task.
AttemptsBounded == \A m \in InFlight : m.attempt < MaxAttempts

\* Handlers that hold the lease's protection: between Load and Release.
Executing(h) == worker[h].pc \notin {"idle", "delay", "requeue", "ack_delayed", "stranded"}

\* The lease admits one execution of the task at a time.
OneExecution == \A g, h \in Handlers : Executing(g) /\ Executing(h) => g = h

\* What submit_approval recorded and what the record says agree: a task is
\* rejected only if the merchant rejected its change, which was then never
\* applied, even if two handlers executed the decision.
RejectionTrue == task.status = "rejected" => change = "reject"

\* A completed task leaves no approved change behind unapplied: the record is
\* saved COMPLETED only by a run whose _approval_node applied it, or by one
\* that had nothing to apply.
OutcomeTrue == task.status = "completed" => change # "approve"

\* What the record says of the change; any other status says nothing.
ReportOf(status) == IF status \in {"awaiting_approval"} \cup Final THEN status ELSE "open"

Merchant == INSTANCE OneDecision WITH report <- ReportOf(task.status)

\* Record, requests, handlers, graph and ledger together implement OneDecision:
\* the change is decided once, after it was offered, and every outcome that
\* save_task stores, however late and by whomever, is what became of it.
DecisionKept == Merchant!Spec

\* A record that waits for the merchant can be answered: the graph stands at
\* the interrupt the record asks about, so the answer will be used.
AwaitingIsAnswerable ==
  /\ task.status = "awaiting_input"    => checkpoint.at = "input"
  /\ task.status = "awaiting_approval" => checkpoint.at = "approval" /\ change # "none"

\* CHECKPOINT_NOT_FOUND is never raised for want of a checkpoint: whatever died
\* in between, the interrupt an accepted answer belongs to was written first.
ResumeFindsCheckpoint ==
  \A h \in Handlers :
    At(h, "graph") /\ graph[h] = Off => ~ MissingCheckpoint(worker[h].msg)

\* While no await raises and nothing dies, the product the record names is the one
\* the graph diagnosed, even when two clients choose different products and a resume
\* asks the interrupt again.  A raised await breaks it, be it the ack of a channel
\* that was lost: under a message that is stale by then, _handle_failure makes that
\* message the record's next one.
ScopeAgrees ==
  /\ task.status \in {"awaiting_approval", "completed", "rejected"}
  /\ spent.faults = 0 /\ spent.crashes = 0
  => task.product \in {NoProduct, checkpoint.product}

\* Who will still move an executable record forward: its message, a handler
\* working on the task, or a request about to publish.
Carried ==
  \/ task.pending \in InFlight
  \/ \E h \in Handlers : Executing(h)
  \/ \E c \in Clients : request[c].pc \in {"event", "publish", "unpublished"}

\* A task that is queued or retrying is not forgotten by everybody: its
\* message exists or somebody is about to send one, however many awaits raised
\* and leases expired.  Only a dead process breaks this, or an await with no try
\* around it that raises between a stored record and the message it promises:
\* in the API the store of QUEUED if Redis took it, and the append_event after it;
\* in the worker save_task(RETRYING) if Redis took it; and, behind a failed
\* publish, the save_task(FAILED) of either.
NotForgotten ==
  /\ task.status \in {"queued", "retrying"}
  /\ spent.crashes = 0 /\ ~ spent.forsaken
  => Carried

\* Without that excuse: "manual ACK, limited retries and a dead-letter queue".
RetryingIsCarried == task.status = "retrying" => Carried

TellsOf(status) ==
  CASE status = "awaiting_input"    -> {"task.awaiting_input"}
    [] status = "awaiting_approval" -> {"task.awaiting_approval"}
    [] status = "rejected"          -> {"task.rejected"}
    [] status = "completed"         -> {"task.completed"}
    [] status = "failed"            -> {"task.failed"}
    [] OTHER                        -> Lifecycle

\* When nobody works on the task any more, the last lifecycle event of its
\* stream is the one of its status, so a subscriber that waits for it is not
\* left waiting, provided no await raised and no process died.  The event of a
\* resume alone can come late: of two resumes at once one is redundant.
FeedTells ==
  Quiet /\ spent.faults = 0 /\ spent.crashes = 0 =>
    feed \in TellsOf(task.status) \cup {"task.resumed"}

\* The events cover "queued, started, ... completed and failed": an answer the
\* API accepted and that then could not be queued, or processed, is announced.
FailureAnnounced ==
  Quiet /\ task.status = "failed" /\ task.pending.kind \in {"input", "approval"} =>
    feed = "task.failed"

----------------------------------------------------------------------------
(* Liveness.  The event loops run what is ready, RabbitMQ returns delayed  *)
(* messages, a thread of the pool ends, a lease nobody holds expires.  No  *)
(* client has to send anything and nothing has to fail.                    *)

HandlerStep(h) == (Work(h) \/ ChannelGone(h)) /\ UNCHANGED <<request, offered, spent>>
RequestStep(c) == Serve(c) /\ UNCHANGED <<worker, spent>>
LeaseStep == lease = "orphan" /\ LeaseExpires /\ UNCHANGED <<request, offered, spent>>
EnvironmentStep == Environment /\ UNCHANGED <<worker, request, offered, spent>>

Fairness ==
  /\ \A h \in Handlers : WF_vars(HandlerStep(h))
  /\ \A c \in Clients : WF_vars(RequestStep(c))
  /\ WF_vars(LeaseStep) /\ WF_vars(EnvironmentStep)

FairSpec == Spec /\ Fairness

\* Whatever raises, once, and whatever the clients send, the task comes to
\* rest: it waits for the merchant, is final, or has failed.  The exceptions are
\* a message whose handler raised before it could settle it, and a request whose
\* event raised before its publish.
Stranded(h) == worker[h].pc = "stranded"

Settles ==
  task.status \in Executable ~>
    \/ task.status \notin Executable
    \/ \E h \in Handlers : Stranded(h)
    \/ spent.forsaken

\* A decision the API accepted is carried out: the change ends applied, or
\* rejected, and the record says which.
DecisionHonoured ==
  task.status = "queued" /\ task.pending = ApprovalMessage ~>
    \/ task.status = "completed" /\ change = "applied"
    \/ task.status = "rejected" /\ change = "reject"
    \/ task.status = "absent"

\* So it is when no await raises and nobody asks for a resume meanwhile,
\* whatever other decisions are sent at the same time.
DecisionHonouredUndisturbed ==
  [](spent.faults = 0 /\ \A c \in Clients : request[c].op # "resume") => DecisionHonoured
=============================================================================
