# TLA+ models of the E-commerce diagnosis agent

The service diagnoses a product's sales funnel with a model-driven agent, proposes one change of
the product's description, waits for the merchant's decision, and applies an approved change. What
makes it hard is that one task lives in four places at once, with no transaction across them: a
JSON record in Redis, a message in RabbitMQ, a LangGraph checkpoint in SQLite, and rows of
`commerce.db`. The models say how these four may disagree, for how long, and which disagreements
never happen.

Paths below are relative to `src/backend_agent/` of the repository.

## 1. Inventory

| Component | State | Operations | Talks to |
|---|---|---|---|
| Commerce ledger, `commerce.py` | products, action_plans, approvals, action_receipts | create_plan, record_approval, apply_approved_plan | called by the API (approval) and the graph (plan, apply), each in a pool thread |
| Task service, `services/task_service.py` | none of its own; a copy of the record per request | create_task, submit_input, submit_approval, resume_task | store, queue, ledger |
| Worker service, `services/worker_service.py` | per message: a copy of the record, the lease token | handle_message, _handle_failure | store, queue, graph |
| Task store, `repositories/redis_store.py` | record, lease, event stream, idempotency keys | create, save, transition (compare status and set), lease, append/iterate events | called by both services and the graph |
| Task queue, `queue/rabbitmq.py` | work queue, three delay queues, dead-letter queue | publish, publish_retry, consume | both services |
| Agent orchestrator, `agent/graph.py` | checkpoint per task (channels: messages, diagnosis, counters), a semaphore per process | run: scope, metrics, model and tools loop, validate, plan, approval | ledger, store, model client, tools |
| Event stream, `append_event` and `iter_events` of the store, `stream_task_events` of `api/router.py` | sequence counter, Redis stream, a cursor per response | append, replay after an id, follow, end at a terminal event | worker, task service and graph write; clients read |
| Idempotency keys, `create_task` of the store | key to task id, both with a TTL | create or find, delete a name without a record | task service |
| Model client, tools, MCP server, `core/retry.py` | none that changes at run time | external calls with retries, read-only queries | called by the graph |
| Funnel arithmetic, `compare_funnel` of `commerce.py` | none | rates and contributions of two weeks | metrics node |
| Knowledge base, configuration, logging, evaluation | none that changes while tasks run | pure or offline | - |

What must be right, per component:

- **Ledger**: an applied change was approved, by its own merchant, for the text the merchant was
  shown; it is applied once; versions and receipts agree although `_create_plan_sync` is not a
  transaction.
- **Worker, task service, store and queue together**: at most one handler executes a task; a record
  that may be executed says which message may execute it; retries are limited; nothing is
  forgotten; everything comes to rest.
- **Orchestrator**: when the record asks the merchant something, the checkpoint stands at that very
  question; the answer is used and the record reports what really happened to the product.
- **Diagnosis loop**: it ends whatever the model answers, within its limits, over all attempts; what
  it sends the model is a conversation the model's interface accepts; a proposed change rests on
  evidence a tool returned.
- **Stream**: the last lifecycle event agrees with the record, so that a subscriber stops; a
  subscriber that comes back repeats nothing and misses nothing that was not trimmed.
- **Idempotency**: requests with one key get one task, and every one of them gets an answer.
- **Funnel**: the two contributions account for the whole change of orders, or are left out.

The behaviours that make this hard, each listed with its line in `PROJECT.json` under `hazards`:
blind `save_task` of a copy read several awaits earlier; publishes whose outcome is unknown after a
timeout; threads that commit after their awaiter was cancelled; redelivery to a second handler
while the first still runs; leases that end too early or outlive their owner; crashes between a
save and the publish that should follow it; a second attempt of work already done.

## 2. Modules

```
ApprovedEdits   <--refines--   CommerceLedger              proofs: CommerceLedgerProofs

TaskStore --> TaskQueue --> AgentOrchestrator --+--> WorkerService --+
                                                +--> TaskService ----+--> TaskSystem
OneDecision     <--refines--   TaskSystem
                               proofs: TaskSystemProofs, TaskDecisionProofs, TaskFaultProofs

Funnel --> AgentGraph           GroundedAdvice <--refines-- AgentGraph
                                                           proofs: FunnelProofs, AgentGraphProofs

OrderedFeed     <--refines--   EventStream                 proofs: EventStreamProofs
TaskCreation                                               proofs: TaskCreationProofs
```

An arrow reads "is extended by". `MCCommerceLedger`, `MCTaskSystem` and `MCAgentGraph` give constants
their values and name the symmetries; the constants of `EventStream` and `TaskCreation` are sets of
model values and numbers, which the configuration gives directly. `PROJECT.json` maps every
definition to the lines it models.

The last three groups are models of their own, not parts of TaskSystem: their state does not feed
back into the status machine. Where they meet it, the abstraction is named on both sides: a run of
AgentGraph is the position `diagnose` of AgentOrchestrator; the stream of EventStream is `feed`, its
last lifecycle event; TaskCreation ends where TaskSystem begins, with the record stored.

**CommerceLedger.** Variables `product`, `plan`, `approval`, `receipt` are the tables; a plan, an
approval and a receipt are indexed by task because their UNIQUE columns make it so. `thread` holds
the calls inside `_create_plan_sync`, which Python's `sqlite3` runs in autocommit until its INSERT:
`BeginCreatePlan`, `ReadProduct` and `InsertPlan` are its three statements. The two functions under
`BEGIN IMMEDIATE` are one action each. **ApprovedEdits** is the promise behind it: an edit is
proposed, decided once, and applied at most once while the product still carries the text that was
shown. It has no versions; that comparing versions is as good as comparing texts is the refinement.

**TaskStore** has the record, the lease and the last lifecycle event; every operation is one Redis
command or script. The three `pending_*` fields are one message-valued field. Two abstractions of
data: the event stream is its last lifecycle event, and error codes are the classes some code tells
apart (`QUEUE_PUBLISH_FAILED`, the four codes `resume_task` refuses, the rest).

**TaskQueue** keeps bags, since redelivery and the three delays reorder. A publish that raises may
have reached the broker or not.

**AgentOrchestrator** is `run` and the graph as the worker sees it: where each run stands
(`graph[h]`), the checkpoint, and what became of the task's one change (`change`). LangGraph writes a
checkpoint while the next superstep already runs and has written all when `ainvoke` returns or
raises; a dead process loses the unwritten ones. `late` holds ledger calls whose awaiter was
cancelled by `asyncio.timeout` and whose thread still runs. The diagnosis loop (metrics, model,
tools, validate) is one position here, and AgentGraph is what happens in it.

**WorkerService** has one `pc` per handler, naming its next await; one action per await, a failing
variant where the code treats the failure differently. An exception inside the `try` block and the
second `get_task` of `_handle_failure` are one step. A write to Redis that raised although it took
effect is the write followed by a fault at the next await, wherever both awaits raise into the same
place. Three do not, and have both outcomes of their own: the lease's SET, outside the `try`
(`ReceiveFails`); the `task.started` event, whose next await is the graph (`HandlerFault`); and the
`save_task` of a retry, which no `try` surrounds while the publish behind it has one
(`RetryForsaken`: the record says RETRYING, the exception leaves `_handle_failure`, nothing is
published).

**TaskService** is the same for requests: `SubmitInput`, `SubmitApproval` and `Resume` read the
record and pass the checks; the following awaits are actions. Answers the code gives without
changing state (the idempotent returns, the 409s) are stutters. An await that raises is one of three
actions: `PublishFails`, which the code catches; `RequestRaises`, where nothing is owed to anybody;
and `RequestForsaken`, the `append_event` between the QUEUED record and the publish (its event taken
or not) and the `save_task` that should report a failed publish. `RequestAborts` is the death of the
process or a cancelled request, and may come at any await. `resume_task`'s fallback that reads
the message kind out of `interaction` is left out: every writer that sets such an interaction sets
`pending_resume_kind` too.

**TaskSystem** composes everything for one task, from the moment its record is stored. `spent`
counts what the bounds allow: requests, raised awaits, crashes. Its `forsaken` is history no guard
reads: it remembers that one of the raised awaits was a `RetryForsaken` or a `RequestForsaken`, which
cost one fault each like any other. **OneDecision** is its promise to the
merchant: the task's one change is decided once, by somebody it was offered to, applied only if
approved, and what the task reports is what became of it. The refinement maps the record's status to
that report (`ReportOf`; every status that claims nothing of the change is "open") and hides
everything else, so a blind save of an old copy must be a step of OneDecision too.

**AgentGraph** is the loop itself for one task with a product: `state` holds the channels of
LangGraph and the next node, one action per node (two where it may succeed or raise), with the model
as a free choice among all turns it may return (`Turns`), right or wrong. A message keeps its role,
its calls and its evidence ids. `asyncio.gather` over the tool calls is `tools`, one entry per
coroutine: the first exception ends the run, and its siblings go on as `stray`, still holding or
waiting for the semaphore, which belongs to the orchestrator and not to the run. `retry_async` around
a model request is `AskAgain` and `ModelFails`. `saved` is the last checkpoint; `Persist` may lag
behind, `Crash` loses the difference. `create_plan` keeps the first plan of a task, and `late` holds
its threads that outlive a cancelled await. **GroundedAdvice** is the promise: a change is put
forward once, on evidence a tool returned. **Funnel** is `compare_funnel` over exact fractions, with
`NoRate` for None; floats approximate it.

**EventStream** has `append_event` as its two commands (`TakeNumber`, `AddEvent`), trimming as the
approximate MAXLEN does it (any cut that leaves MAXLEN), `iter_events` as one XRANGE of everything
and then XREADs of a batch, the route's cursor, its end at a terminal event, what is on the wire, and
clients that lose their connection. **OrderedFeed** is the promise to a client: growing ids, and a
gap only over events that were trimmed.

**TaskCreation** is `create_task` with a key: the script, `get_task`, the unconditional DEL and the
recursion, against a clock that expires the name and the records; a `save_task` renews the record
only.

## 3. What the runs check

| Run | Instance | Shows |
|---|---|---|
| `ledger` | 3 tasks, 2 merchants, 2 products, 2 texts, 2 threads | receipts justified, one history, no lost edit, stale plans dead, ApprovedEdits implemented |
| `system_requests` | 2 handlers, 2 clients, 2 products, 3 requests | races of answers, decisions and resumes with nothing failing; OneDecision implemented |
| `system_faults` | 1 product, 1 request, 2 raised awaits | a second failure while the first is handled; any two awaits of the worker or the API |
| `system_crash` | 1 request, 1 crash or lost channel or cut-off request | redelivery, lost checkpoints, left-over leases; OneDecision implemented |
| `system_slow` | 1 request, 1 fault, leases may expire under a running handler | two handlers in one task |
| `system_liveness` | 1 handler, 2 clients, 2 requests, 1 fault, fair | the task settles; an undisturbed decision is carried out |
| `agent_graph` | 2 tool calls (1 refused), 4 diagnoses, 3 evidence ids, 3 iterations, 2 runs, 1 crash | the loop: limits, conversation, parallel calls, report and plan, GroundedAdvice implemented, every run ends |
| `event_stream` | 2 writers, 1 subscriber, 4 events, MAXLEN 2, 1 lost connection | numbering, OrderedFeed implemented, a returning client catches up |
| `task_creation` | 3 requests with one key, TTL of 2 ticks | one task per key, every request answered |
| `retry_lost`, `failure_silent`, `decision_lost` | as small as shows it | the three findings below |

Bounds. Every counter is bounded by a constant and named: `MaxAttempts`, `MaxRequests`, `MaxFaults`,
`MaxCrashes`. Two handlers are enough for every conflict the lease decides, since it is held by one
and contested by the other; two clients for every conflict the status comparison decides.
`MaxAttempts = 2` has a first attempt, a retry and the limit; the default of four adds only
repetition. Three tasks in the ledger are two that compete for a product and one of another
merchant that must not interfere; a text that returns to an earlier value (`x0`, `x1`, `x0`) is
reachable, which is where comparing texts and comparing versions could differ. Deadlock is not
checked: when the bounds are used up the system really has nothing left to do.

In `agent_graph` the limits are the smallest at which each of them can be met and missed: a turn may
have one call too many, a repetition needs two turns and a third iteration follows it, one
reflection allows a correct and an incorrect second diagnosis, a semaphore of one makes a second call
wait, and the second run continues from a checkpoint of the first with its strays still there (about
350,000 states, two to three minutes). The diagnoses are one backed by a tool, one by the metrics, one that
cites an id nobody returned, and one that proposes nothing; the weeks are every pair with up to three
clicks and orders, zero among them, and the demonstration data. In `event_stream` a stream of two
under four events is trimmed past a client that is away (250,000 states); readers do not influence
each other, so one is enough. In `task_creation` three requests are the fewest of which one can delete
the name another has just set while the third looks (1,300 states).

The properties, by what they say:

- `ReceiptJustified`, `OneHistory`, `NoLostEdit`, `StalePlanNeverApplies`, `PromiseKept`: the ledger.
- `PendingGoverns`: only a record that waits or is finished may have no pending message, so the
  "any message will do" branch of `_matches_pending_message` is never taken by a runnable record.
- `AttemptsBounded`: no message in flight carries attempt `MaxAttempts`.
- `OneExecution`: between `Load` and `Release` there is one handler. It needs that leases outlive
  their handlers (the code's TTL is the task's timeout plus 30 s); `system_slow` drops that.
- `OutcomeTrue`, `RejectionTrue`: completed leaves no approved change unapplied; rejected means the
  ledger says reject. The first needs `OneExecution`, the second does not.
- `DecisionKept`: the refinement of OneDecision. It is more than the two above: it is about every step
  that stores a status and not only the state it leads to, it forbids a second or an unoffered
  decision, and a task whose change was offered completes only by applying it. With a lease that
  expires under a running handler it fails, as `OutcomeTrue` does.
- `AwaitingIsAnswerable`, `ResumeFindsCheckpoint`: record and checkpoint agree on the question.
- `ScopeAgrees`: the record's product is the one that was diagnosed, while no await raises and nothing
  dies. One raised await (a lost channel's failing ack among them) breaks it, in a larger instance than the runs have (two products, three requests, one fault):
  a resume has the question asked again, a second client answers p2 while the message with p1 is being
  handled; that message is stale, but its `get_task` raises, and `_handle_failure` makes it the
  record's pending message. The graph then diagnoses p1 under a record that says p2.
- `FeedTells`: when all is quiet and nothing failed, the last lifecycle event is the status's own;
  `task.resumed` is tolerated because of two concurrent resumes one is redundant.
- `NotForgotten`: a queued or retrying record always has a message, a handler or a request that will
  move it, unless a process died or an await with no `try` around it raised between a stored record
  and the message it promises. Those awaits are four: in the API the store of QUEUED, if Redis took
  it, and the `append_event` behind it (one raised await forgets the task); in the worker
  `save_task(RETRYING)`, if Redis took it (two, with the one it answers); and in either the
  `save_task(FAILED)` behind a failed publish. The forgotten tasks are real outcomes of the code; the
  property says that these are all: ambiguous publishes, timeouts, events and acks that raise and
  blind saves of old copies forget nothing.
- `Settles`: an executable task stops being executable. The excuses are a handler that raised before
  it settled its message, which then stays with the process until its channel closes, and the steps
  of `spent.forsaken`, after which nobody has the task's message.
- `DecisionHonouredUndisturbed`: an accepted decision is carried out if nothing raises and no
  resume interferes.
- `LoopBounded`, `NoStuckRepetition`, `RunEnds`: no run meets LangGraph's recursion limit, corrections
  and repeated turns stay limited over all runs of the task, and every run ends.
- `ConversationAnswered`: whenever the model is asked, each tool call has its one answer behind it,
  also after a rejected diagnosis and after a run that died among the tools.
- `ParallelToolsBounded`: the semaphore's bound holds with the left-over calls counted in.
- `ReportMatchesPlan`: the report that awaits approval is of the diagnosis the plan was made from,
  unless the process died. The premise is needed: a crash that loses the checkpoints behind `plan`
  makes the loop diagnose again, and `create_plan` keeps the first plan.
- `AdviceGrounded`: the refinement of GroundedAdvice. `FunnelExplained`: Funnel where the loop uses it.
- `NumbersFollow`: sequence numbers are unique and follow what was added before the append began. Two
  overlapping appends may stand in the stream against their numbers, and nothing orders by them.
- `FeedKept`, `CatchesUp`: the refinement of OrderedFeed; a client that keeps coming back with its last
  id sees every event or a newer one, those behind a terminal event included.
- `KeyHonest`, `Answered`: a name never outlives its record, and until it first expires all requests
  with the key get one task; no request recurses for ever. After an expiry the blind DEL may remove a
  newer name and split the key in two tasks.

Fairness is weak and only on what the process does by itself: each handler's and each accepted
request's next await (asyncio runs what is ready), the broker's return of delayed messages and the
threads of the pool (`Environment`), and the TTL of a lease nobody holds. No client, no fault and no
crash is fair. One action formula per handler is enough, because a handler has one next await; the
steps of its graph that are alternatives are decided by the model's answer, which nothing makes
fair.

In AgentGraph a run's next step and the left-over calls are weakly fair (asyncio runs what is ready,
every request and call has a timeout), and no start, failure, cancellation, late commit or crash. In
EventStream each response and its client are fair: the server sends what is there, and the
`retry: 3000` it sends makes an EventSource reconnect with its Last-Event-ID. No writer is fair, no
connection has to break. In TaskCreation Redis answers every command; clock and saves may stop.

### Findings

1. **A retry can be lost** (`retry_lost`). `_handle_failure` saves RETRYING with the next message and
   then publishes it. Dying in between leaves a record whose message does not exist; the redelivered
   one is stale and acknowledged, and `resume_task` refuses RETRYING. No process need die for it: two
   raised awaits do the same, the work's and then the save's if Redis took it (`RetryForsaken`).
2. **A failed answer is silent** (`failure_silent`). When the publish of an answer or a resume fails,
   the record becomes FAILED without `task.failed`, which only `create_task` appends. A subscriber of
   the stream still sees `task.awaiting_input` as the last word.
3. **An accepted decision can be lost with nothing failing** (`decision_lost`). `resume_task` reads
   RUNNING, then awaits `has_task_lease`, then saves its copy. A worker that finishes and an approval
   that is queued in between are overwritten; the approval's message is stale when it arrives.

## 4. What is proved

`tlapm` checks every leaf of the eight proof modules; the theorems hold for all values of the
constants that meet the named assumptions (`StoreAssumption`, `NoMessageAssumption`,
`BoundsAssumption`; `Ownership`, `SeededTexts`, `NoneIsNoRow`, `NoneIsNoEdit`; `GraphAssumption`,
`LimitsAssumption`, `NoRateAssumption`; `StreamAssumption`; `CreationAssumption`), which TLC evaluates
in the runs.

**CommerceLedgerProofs**: `Typing`, `Invariance`, `LedgerSafety`, `Justified`, `History`,
`StaleSafety`, `Refinement`.
`NoLostEdit` is not inductive: nothing in it says why a plan's `before` belongs to the plan's version.
`Snapshots` adds that every plan, and every thread between SELECT and INSERT, holds a text the
product really had at the version it holds; `OneHistory` makes that text unique (`TextIsUnique`), and
`HistoryGrows` keeps it. An apply at an equal version then replaces an equal text, which is also the
step of the refinement.

**TaskSystemProofs**: `Typing`, `Governed`, `Bounded`, `Exclusion`, `Rejected`.
The invariant has to follow blind saves: what is claimed of the record must hold of every copy a
handler or a request may still store. `RecordOK` is that claim, `ActivationOK` and `RequestOK` carry
it through each `pc`, and `Sendable` says that whatever is about to be published is below the limit.
`Exclusion` assumes `SlowHandlers = FALSE` and adds `LeaseHeld`, a handler that executes holds the
lease. `Rejected` adds `RejectedIsReal`: any copy that says rejected, and any run or checkpoint that
stands there, is backed by a reject in the ledger, which no action takes back; it needs no
assumption about the lease.

**TaskDecisionProofs**: `Answerable`, `Completed` and `ImplementsOneDecision` (with `SlowHandlers =
FALSE`), `Resumable` (without). What a status promises depends on who may still write it.
`DecisionInv` says, over `Inv` and `LeaseHeld`: a handler before its outcome has stored "running" and nobody has told of an
outcome since (`EngagedOK`); requests never report an outcome (`AskingOK`); record and copies that
repeat an outcome have the checkpoint behind it (`Told`); a run never moves behind the checkpoint
(`Forward`), asks only with a plan (`Planned`), and once an offer was made the checkpoint never
returns before it (`OfferStands`); an executed offer was applied (`CompletionApplies`). With two
handlers at once none of this is inductive, hence the premise. `Resumable` needs only that before the
first checkpoint no answer exists anywhere, in the record, in copies, in queues or in hands
(`AnswersFollow`). `ImplementsOneDecision` needs little beyond `DecisionInv`: a step that stores a
status leaves the change alone, and what OneDecision demands of the new report is what the invariant
says of the next state; a step that changes the change or the offer (`FateSteps` lists them) stores
no status. Only who was shown the offer is new: a client that decides has read a record that asked
(`AskedOffered`). A task that was offered its change and completes has applied it by `OfferStands` and
`CompletionApplies`.

**TaskFaultProofs**: what holds as long as little goes wrong. `Remembered` is `NotForgotten` with no
premise on leases and none on how many awaits raise. Its invariant `CarryInv` says that without a
crash whoever holds a message has his channel (`Connected`), what each copy about to be saved would
make the pending message, and that its holder carries that one, in a queue or in hand (`Carrying`,
unless something was forsaken). Every raised await leaves a carrier but those of `RetryForsaken` and
`RequestForsaken`, and these set the flag; `CalmForsakesNothing` says that it stays down while nothing
was spent, the premise of the other two theorems. `Heard` (`FeedTells`) and `Scoped` (`ScopeAgrees`), both with `SlowHandlers = FALSE`, prove their
invariants while nothing was spent (`Calm`); since faults and crashes are never given back, what holds
afterwards is not needed. `Smooth` says which `pc`s are left then, and that no request holds an
outcome. `FeedInv`: an outcome in the record was announced or its handler is about to, and a handler
about to announce still finds its outcome in the record unless an answer has already followed.
`ScopeInv`: until the graph has chosen, a product is named only by the message that answers the
question or by the run that was given one (`Taken`); once it has chosen, the record and every copy
that may become the record name that product or none (`Diagnosed`).

**AgentGraphProofs**: `GraphTyping` (with `Planned`: a plan is made from a diagnosis that parsed),
`LoopAlwaysBounded`, `NeverStuckInRepetition`, `ParallelToolsAlwaysBounded`, `ConversationAlwaysAnswered`,
`ReportAlwaysMatchesPlan`, `ImplementsGroundedAdvice`, `FunnelAlwaysExplained`. A step either moves the
channels by one node, takes them back to `saved`, or leaves them alone; what holds of `state` is
therefore stated of `saved` as well. `LimitInv` prices a superstep: `steps` never exceeds twice the
iterations plus what the node is ahead of the model, which is below the recursion limit. `TalkInv` says
which calls may be open at which node. `RepetitionInv` ties the counter to the conversation: equal turns
at its end number at most `repeated`, and ask for `signature`, in the channels and in the
checkpoint alike, so that an attempt that resumes neither restarts the count nor counts twice.
`ReportInv` says that without a crash no node before `plan` runs once a plan is stored or may yet be by a thread. `AdviceInv` says that channels, results and late
threads hold only evidence that is known, and more evidence refutes nothing.

**FunnelProofs**: `ContributionsExplain`, an identity over the integers (`Balance`) and the cases
without clicks.

**EventStreamProofs**: `Typing`, `NumbersFollowTime` (`NumbersInv`: a number that is taken and not yet
added is new and above everything its writer saw), `ImplementsOrderedFeed` (`FeedInv`: what a client
has received, what is on the wire, the cursor and the fetched batch are one chain of links, each to
the next id or over a trimmed gap).

**TaskCreationProofs**: `Typing`, `OneTaskPerKey`; a request deletes a name only after it has expired.

Model-checked only: all liveness (`Settles`, `DecisionHonouredUndisturbed`, `RunEnds`, `CatchesUp`,
`Answered`), which needs ENABLED. Every invariant and every refinement that a passing run checks is a
theorem. The findings are TLC's counterexamples.

The premises are the properties' own or the code's: `SlowHandlers = FALSE` says that a handler ends
within its lease, whose TTL is the task's timeout plus 30 s. With it TRUE, TLC refutes
`OneExecution`, `OutcomeTrue`, `AwaitingIsAnswerable`, `FeedTells`, `ScopeAgrees` and `DecisionKept`;
`PendingGoverns`, `AttemptsBounded`, `RejectionTrue`, `ResumeFindsCheckpoint` and `NotForgotten` do not
need it. TLC checked the invariants of each induction on small instances before they were proved.

## 5. Not modelled

- Knowledge base, configuration, logging, error bodies, evaluation: values, formatting and read-only
  or offline computation. Document ids are evidence of AgentGraph.
- The wire format of the model client and its scripted mock; the MCP transport and its own retries,
  which make a tool call longer and end as one result or one exception; what the queries of the tools
  compute.
- The other routes and the schemas: each route is one call of the task service.
- `save_conversation` and `get_conversation`: nothing calls them.
- More than one task in the system model and in AgentGraph: tasks share `commerce.db`, which is
  CommerceLedger, and the semaphore of the read tools, whose calls from another task would be strays.
- The TTLs of the stream's keys (a day, renewed by every event), and a client that comes back without
  Last-Event-ID: it is ended at the first terminal event each time, by the route's own contract.
- An `ack` the broker took just before its channel broke and the await raised: the model keeps such a
  message with its handler, who cannot settle it, and may redeliver it, which the broker would not.
- Malformed messages (`decode` fails, the message is dead-lettered before a task is named).
- The expiry of a record while somebody works on it: its TTL is days (`Quiet` guards `ExpireRecord`).
- More than one API or worker process; a second worker would be more handlers with their own crash.
- Start-up and shutdown order of the processes.

## 6. Plan

Modelled and proved so far is what sections 2 to 4 list. What would add most next:

1. Compose AgentOrchestrator with AgentGraph by a refinement: the position `diagnose` and its outcomes
   implemented by the loop, so that both models speak of one checkpoint.
2. A run with two tasks in TaskSystem over one ledger, as the stale plan of one task meets the approval
   of another.
3. The order of start-up and shutdown in `worker.py`, with messages delivered while it closes.
