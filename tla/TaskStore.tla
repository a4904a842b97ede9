----------------------------- MODULE TaskStore -----------------------------
(***************************************************************************)
(* What RedisStore keeps about one task: its JSON record, its consumption  *)
(* lease and its event stream.  Every operation is one Redis command or    *)
(* one Lua script, so it is one atomic piece of the step that calls it.    *)
(*                                                                         *)
(* Of the record we keep what decides control flow.  The three pending_*   *)
(* fields are always written together and name exactly one queue message,  *)
(* so they are one field here; resume ids are determined by the kind (the  *)
(* task id, the single approval id of the task) except for "input", where  *)
(* the id is the chosen product.  Error codes are classed by what reads    *)
(* them: QUEUE_PUBLISH_FAILED, the four codes resume_task refuses, others. *)
(* Of the event stream we keep the last lifecycle event.                   *)
(***************************************************************************)
EXTENDS Naturals, FiniteSets

CONSTANTS
  Handlers,      \* concurrent handle_message activations of the worker process
  Products,      \* products a client may name
  NoProduct,     \* product_id or resume_id absent
  NoMessage,     \* pending_attempt is None
  MaxAttempts    \* settings.max_task_attempts

ASSUME StoreAssumption ==
  /\ IsFiniteSet(Handlers)
  /\ MaxAttempts \in Nat \ {0}
  /\ NoProduct \notin Products
  /\ {"free", "orphan"} \cap Handlers = {}

\* QueueMessage.  attempt can reach MaxAttempts in a record, never in a queue.
Message ==
  [attempt : 0 .. MaxAttempts, kind : {"none", "retry", "approval"}, id : {NoProduct}]
    \cup [attempt : 0 .. MaxAttempts, kind : {"input"}, id : Products]

ASSUME NoMessageAssumption == NoMessage \notin Message

Executable == {"queued", "running", "retrying"}
Awaiting   == {"awaiting_input", "awaiting_approval"}
Final      == {"completed", "rejected"}

\* "absent" is a record that expired (task_ttl).
Status == Executable \cup Awaiting \cup Final \cup {"failed", "absent"}

Error == {"none", "publish_failed", "blocked", "other"}

TaskRecord == [status : Status, error : Error, product : Products \cup {NoProduct},
               pending : Message \cup {NoMessage}]

Absent == [status |-> "absent", error |-> "none", product |-> NoProduct,
           pending |-> NoMessage]

Lifecycle == {"none", "task.queued", "task.started", "task.retrying",
              "task.awaiting_input", "task.awaiting_approval", "task.rejected",
              "task.completed", "task.failed", "task.resumed"}

VARIABLES
  task,          \* the record under task_key
  lease,         \* lease_key: "free", a handler's token, or a dead handler's
  feed           \* the last lifecycle event of the stream

storeVars == <<task, lease, feed>>

StoreTypeOK ==
  /\ task \in TaskRecord
  /\ lease \in Handlers \cup {"free", "orphan"}
  /\ feed \in Lifecycle

\* TaskRecord(...) in create_task: an initial message names attempt 0, no kind.
FirstMessage == [attempt |-> 0, kind |-> "none", id |-> NoProduct]

NewTask(p) == [status |-> "queued", error |-> "none", product |-> p,
               pending |-> FirstMessage]

StoreInit ==
  /\ \E p \in Products \cup {NoProduct} : task = NewTask(p)
  /\ lease = "free"
  /\ feed = "none"

\* save_task: SET, whatever the record says by now.
SaveTask(record) == task' = record

\* Mutant: the record is stored whatever the status.
TransitionTaskBlind(record, expected) == task' = record

\* transition_task: compare the status, then SET the whole record.
TransitionTask(record, expected) == task.status = expected /\ task' = record

\* Mutant: SET without NX.
AcquireLeaseAnyway(h) == lease' = h

\* acquire_task_lease: SET NX.
AcquireLease(h) == lease = "free" /\ lease' = h

\* release_task_lease: DEL only what is still ours.
ReleaseLease(h) == lease' = IF lease = h THEN "free" ELSE lease

\* has_task_lease
HasLease == lease # "free"

AppendEvent(event) == feed' = event

\* The task_ttl passes: the record and its stream are gone.
ExpireRecord ==
  /\ task.status # "absent"
  /\ task' = Absent
  /\ feed' = "none"
  /\ UNCHANGED lease
=============================================================================
