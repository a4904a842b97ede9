---------------------------- MODULE TaskService ----------------------------
(***************************************************************************)
(* TaskService in the API process: create_task, submit_input,              *)
(* submit_approval and resume_task, each a sequence of awaits on the       *)
(* record, the ledger, the event stream and the queue.                     *)
(*                                                                         *)
(* pc            the next await of the request                             *)
(* idle          none                                                      *)
(* record        record_approval                                           *)
(* transition    transition_task                                           *)
(* lease         has_task_lease                                            *)
(* save          save_task of a resumed record                             *)
(* event         append_event: task.queued, input.submitted, ...           *)
(* publish       publish                                                   *)
(* unpublished   save_task after publish failed                            *)
(* failed_event  append_event: task.failed                                 *)
(***************************************************************************)
EXTENDS AgentOrchestrator

CONSTANT
  Clients        \* requests the API process serves at once

RequestPC == {"idle", "record", "transition", "lease", "save", "event", "publish",
              "unpublished", "failed_event"}

Ops == {"none", "create", "input", "approval", "resume"}

VARIABLES
  request,       \* request[c]: pc; op; task, the copy; expected, for the CAS;
                 \* decision, for record_approval
  offered        \* whether a plan id was ever handed to the merchant

IdleRequest == [pc |-> "idle", op |-> "none", task |-> Absent, expected |-> "absent",
                decision |-> "none"]

ServiceTypeOK ==
  /\ request \in [Clients -> [pc : RequestPC, op : Ops, task : TaskRecord,
                              expected : Status, decision : {"none", "approve", "reject"}]]
  /\ offered \in BOOLEAN

\* store.create_task has just stored the record of the first request.
ServiceInit ==
  /\ \E c \in Clients :
       request = [d \in Clients |-> IF d = c
                    THEN [IdleRequest EXCEPT !.pc = "event", !.op = "create", !.task = task]
                    ELSE IdleRequest]
  /\ offered = FALSE

Asks(c, pc)    == request[c].pc = pc
Proceed(c, pc) == request' = [request EXCEPT ![c].pc = pc]
Done(c)        == request' = [request EXCEPT ![c] = IdleRequest]

----------------------------------------------------------------------------
\* submit_input: get_task, the state check, and the record to be stored.
SubmitInput(c, p) ==
  /\ Asks(c, "idle")
  /\ task.status = "awaiting_input"
  /\ request' = [request EXCEPT ![c] =
       [pc |-> "transition", op |-> "input", decision |-> "none",
        expected |-> "awaiting_input",
        task |-> [task EXCEPT !.product = p, !.status = "queued",
                              !.pending = [attempt |-> 0, kind |-> "input", id |-> p]]]]
  /\ UNCHANGED <<offered, storeVars, queueVars, graphVars>>

ApprovalMessage == [attempt |-> 0, kind |-> "approval", id |-> NoProduct]

\* submit_approval: get_task and the state checks.  The request names a plan,
\* which a client knows only once it was offered.
SubmitApproval(c, decision) ==
  /\ Asks(c, "idle")
  /\ offered
  /\ \/ task.status = "awaiting_approval"
     \/ task.status = "failed" /\ task.error = "publish_failed"
  /\ request' = [request EXCEPT ![c] =
       [pc |-> "record", op |-> "approval", decision |-> decision,
        expected |-> IF task.error = "publish_failed" THEN "failed" ELSE "awaiting_approval",
        task |-> [task EXCEPT !.status = "queued", !.error = "none",
                              !.pending = ApprovalMessage]]]
  /\ UNCHANGED <<offered, storeVars, queueVars, graphVars>>

\* record_approval: the first decision stands, a different one is refused.
Agrees(decision) ==
  \/ change = decision
  \/ change = "applied" /\ decision = "approve"

\* Mutant: the last decision replaces the first.
RecordLastDecision(c) ==
  /\ Asks(c, "record")
  /\ change # "applied"
  /\ change' = request[c].decision
  /\ Proceed(c, "transition")
  /\ UNCHANGED <<graph, checkpoint, late, offered, storeVars, queueVars>>

RecordDecision(c) ==
  /\ Asks(c, "record")
  /\ \/ /\ change = "planned"
        /\ change' = request[c].decision
        /\ Proceed(c, "transition")
     \/ /\ Agrees(request[c].decision)
        /\ UNCHANGED change
        /\ Proceed(c, "transition")
     \/ /\ change # "planned" /\ ~ Agrees(request[c].decision)
        /\ UNCHANGED change
        /\ Done(c)
  /\ UNCHANGED <<graph, checkpoint, late, offered, storeVars, queueVars>>

\* transition_task: the request that loses the comparison ends here.
Transition(c) ==
  /\ Asks(c, "transition")
  /\ \/ /\ TransitionTask(request[c].task, request[c].expected)
        /\ Proceed(c, "event")
     \/ /\ task.status # request[c].expected
        /\ UNCHANGED task
        /\ Done(c)
  /\ UNCHANGED <<lease, feed, offered, queueVars, graphVars>>

\* The attempt resume_task continues with.
ResumedAttempt ==
  IF task.error = "publish_failed" /\ task.pending # NoMessage THEN task.pending.attempt ELSE 0

\* The message resume_task will publish.
ResumedMessage ==
  IF task.pending # NoMessage /\ task.pending.kind # "none"
    THEN [task.pending EXCEPT !.attempt = ResumedAttempt]
  ELSE [attempt |-> ResumedAttempt, id |-> NoProduct,
        kind |-> IF task.error = "publish_failed" THEN "none" ELSE "retry"]

\* resume_task up to its checks; a RUNNING record needs has_task_lease as well.
Resume(c) ==
  /\ Asks(c, "idle")
  /\ task.status \in {"failed", "running"}
  /\ task.error # "blocked"
  /\ request' = [request EXCEPT ![c] =
       [pc |-> IF task.status = "running" THEN "lease" ELSE "save",
        op |-> "resume", decision |-> "none", expected |-> "absent",
        task |-> [task EXCEPT !.status = "queued", !.error = "none",
                              !.pending = ResumedMessage]]]
  /\ UNCHANGED <<offered, storeVars, queueVars, graphVars>>

CheckLease(c) ==
  /\ Asks(c, "lease")
  /\ IF HasLease THEN Done(c) ELSE Proceed(c, "save")
  /\ UNCHANGED <<offered, storeVars, queueVars, graphVars>>

SaveResumed(c) ==
  /\ Asks(c, "save")
  /\ SaveTask(request[c].task)
  /\ Proceed(c, "event")
  /\ UNCHANGED <<lease, feed, offered, queueVars, graphVars>>

----------------------------------------------------------------------------
\* The event of the accepted request; only two of them are lifecycle events.
RequestEvent(c) ==
  CASE request[c].op = "create" -> AppendEvent("task.queued")
    [] request[c].op = "resume" -> AppendEvent("task.resumed")
    [] OTHER                    -> UNCHANGED feed

AnnounceRequest(c) ==
  /\ Asks(c, "event")
  /\ RequestEvent(c)
  /\ Proceed(c, "publish")
  /\ UNCHANGED <<task, lease, offered, queueVars, graphVars>>

PublishRequest(c) ==
  /\ Asks(c, "publish")
  /\ Publish(request[c].task.pending)
  /\ Done(c)
  /\ UNCHANGED <<offered, storeVars, graphVars>>

PublishFails(c) ==
  /\ Asks(c, "publish")
  /\ PublishRaises(request[c].task.pending)
  /\ request' = [request EXCEPT ![c].pc = "unpublished",
       ![c].task = [@ EXCEPT !.status = "failed", !.error = "publish_failed"]]
  /\ UNCHANGED <<offered, storeVars, graphVars>>

\* save_task, and for create_task alone an event that says so.
SaveUnpublished(c) ==
  /\ Asks(c, "unpublished")
  /\ SaveTask(request[c].task)
  /\ IF request[c].op = "create" THEN Proceed(c, "failed_event") ELSE Done(c)
  /\ UNCHANGED <<lease, feed, offered, queueVars, graphVars>>

AnnounceUnpublished(c) ==
  /\ Asks(c, "failed_event")
  /\ AppendEvent("task.failed")
  /\ Done(c)
  /\ UNCHANGED <<task, lease, offered, queueVars, graphVars>>

\* An await raises where no publish is promised, or where the record says FAILED
\* already.  A write that was taken all the same is the write, followed by a
\* fault at the next await.
RequestRaises(c) ==
  /\ request[c].pc \in {"record", "transition", "lease", "save", "failed_event"}
  /\ Done(c)
  /\ UNCHANGED <<offered, storeVars, queueVars, graphVars>>

\* append_event raises between the QUEUED record and the publish, whether Redis
\* took the event or not; or the save_task that should say the publish failed.
RequestForsaken(c) ==
  /\ \/ Asks(c, "event") /\ (UNCHANGED feed \/ RequestEvent(c))
     \/ Asks(c, "unpublished") /\ UNCHANGED feed
  /\ Done(c)
  /\ UNCHANGED <<task, lease, offered, queueVars, graphVars>>

\* The API process dies, or the request is cancelled.
RequestAborts(c) ==
  /\ ~ Asks(c, "idle")
  /\ Done(c)
  /\ UNCHANGED <<offered, storeVars, queueVars, graphVars>>

\* The merchant reads the record of a task that waits for a decision.
ReadOffer ==
  /\ task.status = "awaiting_approval"
  /\ offered' = TRUE
  /\ UNCHANGED <<request, storeVars, queueVars, graphVars>>
=============================================================================
