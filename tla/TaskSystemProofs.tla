-------------------------- MODULE TaskSystemProofs -------------------------
(***************************************************************************)
(* Proofs about TaskSystem for every set of handlers, clients and products *)
(* and every bound: types, what governs and bounds the messages, one       *)
(* execution at a time, and that rejected means rejected.                  *)
(***************************************************************************)
EXTENDS TaskSystem, FiniteSetTheorems, TLAPS

----------------------------------------------------------------------------
(* The inductive invariant.  Blind saves write copies, so what must hold   *)
(* of the record has to hold of every copy a handler or a request carries; *)
(* and a copy whose message will be published must name one that may be.   *)

Sendable == {m \in Message : m.attempt < MaxAttempts}

RecordOK(r) ==
  /\ r \in TaskRecord
  /\ r.pending = NoMessage => r.status \in Awaiting \cup Final \cup {"absent"}
  /\ r.error = "publish_failed" /\ r.pending # NoMessage => r.pending \in Sendable

Activation == [pc : WorkerPC, msg : Message \cup {NoMessage}, live : BOOLEAN,
               task : TaskRecord]

ActivationOK(w) ==
  /\ w \in Activation
  /\ RecordOK(w.task)
  /\ w.msg # NoMessage => w.msg \in Sendable
  /\ w.pc \notin {"idle", "release"} \/ w.live => w.msg \in Sendable
  /\ w.pc \in {"save", "announce"} => w.task.status \in Awaiting \cup Final
  /\ w.pc = "resave" /\ w.task.status = "retrying" => w.task.pending \in Sendable
  /\ w.pc = "republish" => w.task.pending \in Sendable

RequestRecord == [pc : RequestPC, op : Ops, task : TaskRecord, expected : Status,
                  decision : {"none", "approve", "reject"}]

RequestOK(q) ==
  /\ q \in RequestRecord
  /\ RecordOK(q.task)
  /\ q.task.status # "rejected"
  /\ q.pc # "idle" => q.task.pending \in Sendable

StoreInv   == RecordOK(task) /\ lease \in Handlers \cup {"free", "orphan"} /\ feed \in Lifecycle
QueueInv   == QueueTypeOK /\ \A m \in Message : ready[m] > 0 \/ delayed[m] > 0 => m \in Sendable
WorkerInv  == worker \in [Handlers -> Activation] /\ \A h \in Handlers : ActivationOK(worker[h])
ServiceInv == /\ request \in [Clients -> RequestRecord] /\ \A c \in Clients : RequestOK(request[c])
              /\ offered \in BOOLEAN
SpentInv   == spent \in [requests : 0 .. MaxRequests, faults : 0 .. MaxFaults,
                         crashes : 0 .. MaxCrashes, forsaken : BOOLEAN]

Inv == StoreInv /\ QueueInv /\ GraphTypeOK /\ WorkerInv /\ ServiceInv /\ SpentInv

----------------------------------------------------------------------------
(* Messages and records.                                                   *)

\* The first message and an approval may be sent.
LEMMA FirstSendable == FirstMessage \in Sendable /\ ApprovalMessage \in Sendable
BY StoreAssumption DEF FirstMessage, ApprovalMessage, Sendable, Message

LEMMA InputSendable ==
  ASSUME NEW p \in Products
  PROVE  [attempt |-> 0, kind |-> "input", id |-> p] \in Sendable
BY StoreAssumption DEF Sendable, Message

\* A message may change its attempt and stay a message.
LEMMA NewAttempt ==
  ASSUME NEW m \in Message, NEW a \in 0 .. MaxAttempts
  PROVE  [m EXCEPT !.attempt = a] \in Message /\ [m EXCEPT !.attempt = a].attempt = a
BY DEF Message

\* The message of the next attempt is one, and is the next.
LEMMA NextIsMessage ==
  ASSUME NEW h \in Handlers, worker[h].msg \in Sendable
  PROVE  /\ NextMessage(h) \in Message
         /\ NextMessage(h).attempt = worker[h].msg.attempt + 1
<1> DEFINE m == worker[h].msg
<1>1. m \in Message /\ m.attempt + 1 \in 0 .. MaxAttempts
  BY StoreAssumption DEF Sendable, Message
<1>2. CASE m.kind \in {"input", "approval"}
  BY <1>1, <1>2 DEF NextMessage, Message
<1>3. CASE m.kind \notin {"input", "approval"}
  BY <1>1, <1>3 DEF NextMessage, Message
<1> QED BY <1>2, <1>3

\* resume_task publishes only what may still be sent.
LEMMA ResumedSendable ==
  ASSUME RecordOK(task)
  PROVE  ResumedMessage \in Sendable
<1>1. ResumedAttempt \in 0 .. MaxAttempts /\ ResumedAttempt < MaxAttempts
  BY StoreAssumption DEF ResumedAttempt, RecordOK, Sendable, Message
<1>2. CASE task.pending # NoMessage /\ task.pending.kind # "none"
  <2>1. task.pending \in Message BY <1>2 DEF RecordOK, TaskRecord
  <2> QED BY <1>1, <1>2, <2>1, NewAttempt DEF ResumedMessage, Sendable
<1>3. CASE ~ (task.pending # NoMessage /\ task.pending.kind # "none")
  BY <1>1, <1>3 DEF ResumedMessage, Sendable, Message
<1> QED BY <1>2, <1>3

LEMMA AbsentOK == RecordOK(Absent)
BY NoMessageAssumption DEF RecordOK, Absent, TaskRecord, Status, Executable, Awaiting, Final, Error

\* A record whose message is replaced by one that may be sent is sound.
LEMMA RecordWith ==
  ASSUME NEW r \in TaskRecord, r.pending \in Sendable
  PROVE  RecordOK(r)
BY NoMessageAssumption DEF RecordOK, Sendable

----------------------------------------------------------------------------
(* One activation or one request moves, the others stand still.            *)

LEMMA OneActivation ==
  ASSUME WorkerInv, NEW h \in Handlers, NEW w, ActivationOK(w),
         worker' = [worker EXCEPT ![h] = w]
  PROVE  WorkerInv'
<1>1. w \in Activation BY DEF ActivationOK
<1>2. worker' \in [Handlers -> Activation] BY <1>1 DEF WorkerInv
<1>3. \A g \in Handlers : ActivationOK(worker'[g])
  BY Zenon DEF WorkerInv
<1> QED BY <1>2, <1>3 DEF WorkerInv

LEMMA OneRequest ==
  ASSUME ServiceInv, NEW c \in Clients, NEW q, RequestOK(q),
         request' = [request EXCEPT ![c] = q], offered' = offered
  PROVE  ServiceInv'
<1>1. q \in RequestRecord BY DEF RequestOK
<1>2. request' \in [Clients -> RequestRecord] BY <1>1 DEF ServiceInv
<1>3. \A d \in Clients : RequestOK(request'[d])
  BY Zenon DEF ServiceInv
<1> QED BY <1>2, <1>3 DEF ServiceInv

\* What holds of the activation of one handler.
LEMMA Mine ==
  ASSUME WorkerInv, NEW h \in Handlers
  PROVE  worker[h] \in Activation /\ ActivationOK(worker[h])
BY DEF WorkerInv

\* A handler that only moves to its next await.
LEMMA Moves ==
  ASSUME WorkerInv, NEW h \in Handlers, NEW pc \in WorkerPC, Goto(h, pc),
         pc # "resave",
         pc \notin {"idle", "release"} => worker[h].pc \notin {"idle", "release"},
         pc \in {"save", "announce"} => worker[h].task.status \in Awaiting \cup Final,
         pc = "republish" => worker[h].task.pending \in Sendable
  PROVE  WorkerInv'
<1> DEFINE w == [worker[h] EXCEPT !.pc = pc]
<1>1. worker[h] \in Activation /\ ActivationOK(worker[h]) BY Mine
<1>2. /\ w \in Activation /\ w.pc = pc /\ w.msg = worker[h].msg
      /\ w.live = worker[h].live /\ w.task = worker[h].task
  BY <1>1 DEF Activation
<1>3. ActivationOK(w) BY <1>1, <1>2 DEF ActivationOK
<1>4. worker' = [worker EXCEPT ![h] = w] BY DEF Goto
<1> QED BY <1>3, <1>4, OneActivation

\* A handler that has settled its message.
LEMMA Settling ==
  ASSUME WorkerInv, NEW h \in Handlers, NEW pc \in {"idle", "release"}, Settled(h, pc)
  PROVE  WorkerInv'
<1> DEFINE w == [IdleWorker EXCEPT !.pc = pc]
<1>2. worker' = [worker EXCEPT ![h] = w] BY DEF Settled
<1>3. w \in Activation /\ w.pc = pc /\ w.msg = NoMessage /\ ~ w.live /\ w.task = NoCopy
  BY AbsentOK DEF Activation, WorkerPC, IdleWorker, NoCopy, RecordOK
<1>4. ActivationOK(w) BY <1>3, AbsentOK DEF ActivationOK, NoCopy
<1> QED BY <1>2, <1>4, OneActivation

\* The activation ends.
LEMMA Finishes ==
  ASSUME WorkerInv, NEW h \in Handlers, Finish(h)
  PROVE  WorkerInv'
<1> DEFINE w == IF worker[h].live THEN [worker[h] EXCEPT !.pc = "stranded", !.task = NoCopy]
                ELSE IdleWorker
<1>1. worker[h] \in Activation /\ ActivationOK(worker[h]) BY Mine
<1>2. worker' = [worker EXCEPT ![h] = w] BY DEF Finish
<1>3. w \in Activation /\ w.task = NoCopy /\ w.pc \in {"stranded", "idle"}
  BY <1>1, AbsentOK DEF Activation, WorkerPC, NoCopy, IdleWorker, RecordOK
<1>4. (w.pc = "stranded" \/ w.msg # NoMessage \/ w.live) => w.msg \in Sendable
  BY <1>1 DEF Activation, ActivationOK, IdleWorker
<1>5. ActivationOK(w) BY <1>3, <1>4, AbsentOK DEF ActivationOK, NoCopy
<1> QED BY <1>2, <1>5, OneActivation

\* The exception of _handle_failure: the record it will save.
LEMMA Fails ==
  ASSUME WorkerInv, RecordOK(task), NEW h \in Handlers, NEW error \in {"other", "fatal", "blocked"},
         worker[h].pc \notin {"idle", "release"}, HandleFailure(h, error)
  PROVE  WorkerInv'
<1> DEFINE r == [task EXCEPT !.status  = IF Retryable(h, error) THEN "retrying" ELSE "failed",
                             !.error   = IF error = "blocked" THEN "blocked" ELSE "other",
                             !.pending = NextMessage(h)]
           w == [worker[h] EXCEPT !.pc = "resave", !.task = r]
<1>1. worker[h] \in Activation /\ ActivationOK(worker[h]) BY Mine
<1>2. worker[h].msg \in Sendable BY <1>1 DEF ActivationOK
<1>3. NextMessage(h) \in Message BY <1>2, NextIsMessage
<1>4. CASE task.status = "absent" /\ Goto(h, "reject")
  BY <1>4, Moves DEF WorkerPC
<1>5. CASE task.status # "absent" /\ worker' = [worker EXCEPT ![h] = w]
  <2>1. task \in TaskRecord BY DEF RecordOK
  <2>2. r \in TaskRecord /\ r.pending = NextMessage(h) /\ r.error # "publish_failed"
        /\ r.status = IF Retryable(h, error) THEN "retrying" ELSE "failed"
    BY <1>3, <2>1 DEF TaskRecord, Status, Error, Executable
  <2>3. RecordOK(r) BY <1>3, <2>2, NoMessageAssumption DEF RecordOK
  <2>4. r.status = "retrying" => r.pending \in Sendable
    BY <1>3, <2>2 DEF Retryable, Sendable
  <2>5. w \in Activation /\ w.pc = "resave" /\ w.msg = worker[h].msg /\ w.task = r
    BY <1>1, <2>2 DEF Activation, WorkerPC
  <2>6. ActivationOK(w) BY <1>2, <2>3, <2>4, <2>5 DEF ActivationOK
  <2> QED BY <1>5, <2>6, OneActivation
<1> QED BY <1>4, <1>5 DEF HandleFailure

----------------------------------------------------------------------------
(* The queue keeps its types and never holds what may not be sent.         *)

LEMMA Publishing ==
  ASSUME QueueInv, NEW m \in Sendable,
         Publish(m) \/ PublishRetry(m) \/ Requeue(m) \/ DeadLetter(m) \/ UNCHANGED queueVars
  PROVE  QueueInv'
<1>1. m \in Message BY DEF Sendable
<1>2. CASE Publish(m) \/ Requeue(m)
  <2>1. ready' = [ready EXCEPT ![m] = @ + 1] /\ UNCHANGED <<delayed, dead>>
    BY <1>2 DEF Publish, Requeue, Put
  <2>2. QueueTypeOK' BY <2>1, <1>1 DEF QueueInv, QueueTypeOK
  <2>3. \A n \in Message : n = m \/ ready'[n] = ready[n]
    BY <2>1, <1>1 DEF QueueInv, QueueTypeOK
  <2> QED BY <2>1, <2>2, <2>3 DEF QueueInv
<1>3. CASE PublishRetry(m)
  <2>1. delayed' = [delayed EXCEPT ![m] = @ + 1] /\ UNCHANGED <<ready, dead>>
    BY <1>3 DEF PublishRetry, Put
  <2>2. QueueTypeOK' BY <2>1, <1>1 DEF QueueInv, QueueTypeOK
  <2>3. \A n \in Message : n = m \/ delayed'[n] = delayed[n]
    BY <2>1, <1>1 DEF QueueInv, QueueTypeOK
  <2> QED BY <2>1, <2>2, <2>3 DEF QueueInv
<1>4. CASE DeadLetter(m)
  BY <1>1, <1>4 DEF DeadLetter, QueueInv, QueueTypeOK
<1>5. CASE UNCHANGED queueVars
  BY <1>5 DEF queueVars, QueueInv, QueueTypeOK
<1> QED BY <1>2, <1>3, <1>4, <1>5

LEMMA Delivering ==
  ASSUME QueueInv, NEW m \in Message, Deliver(m)
  PROVE  QueueInv' /\ m \in Sendable
<1>1. m \in Sendable BY DEF QueueInv, Deliver
<1>2. QueueTypeOK' BY DEF Deliver, QueueInv, QueueTypeOK
<1>3. \A n \in Message : ready'[n] > 0 => ready[n] > 0
  BY DEF Deliver, QueueInv, QueueTypeOK
<1> QED BY <1>1, <1>2, <1>3 DEF QueueInv, Deliver

LEMMA Returning ==
  ASSUME QueueInv, DelayElapsed
  PROVE  QueueInv'
<1>1. PICK m \in Message : /\ delayed[m] > 0
                           /\ delayed' = [delayed EXCEPT ![m] = @ - 1]
                           /\ ready' = [ready EXCEPT ![m] = @ + 1]
                           /\ dead' = dead
  BY DEF DelayElapsed, Put
<1>2. m \in Sendable BY <1>1 DEF QueueInv
<1>3. QueueTypeOK' BY <1>1 DEF QueueInv, QueueTypeOK
<1>4. ASSUME NEW n \in Message, n # m, ready'[n] > 0 \/ delayed'[n] > 0
      PROVE  ready[n] > 0 \/ delayed[n] > 0
  BY <1>1, <1>4 DEF QueueInv, QueueTypeOK
<1>5. \A n \in Message : ready'[n] > 0 \/ delayed'[n] > 0 => n \in Sendable
  BY <1>2, <1>4 DEF QueueInv
<1> QED BY <1>3, <1>5 DEF QueueInv

\* Redelivery gives back only what a handler held.
LEMMA Redelivering ==
  ASSUME QueueInv, WorkerInv, RedeliverAll, UNCHANGED <<delayed, dead>>
  PROVE  QueueInv'
<1> DEFINE held(m) == {h \in Handlers : worker[h].live /\ worker[h].msg = m}
<1>1. \A m : IsFiniteSet(held(m)) /\ Cardinality(held(m)) \in Nat
  <2> TAKE m
  <2>1. IsFiniteSet(held(m)) BY StoreAssumption, FS_Subset
  <2> QED BY <2>1, FS_CardinalityType
<1>2. \A m \in Message : Cardinality(held(m)) # 0 => m \in Sendable
  <2> TAKE m \in Message
  <2> HAVE Cardinality(held(m)) # 0
  <2>1. held(m) # {} BY <1>1, FS_EmptySet
  <2>2. PICK h \in Handlers : worker[h].msg = m BY <2>1
  <2>3. ActivationOK(worker[h]) BY Mine
  <2> QED BY <2>2, <2>3, NoMessageAssumption DEF ActivationOK
<1>3. \A m \in Message : ready'[m] = ready[m] + Cardinality(held(m))
  BY DEF RedeliverAll
<1>4. ready' \in [Message -> Nat]
  <2>1. \A m \in Message : ready[m] + Cardinality(held(m)) \in Nat
    <3> HIDE DEF held
    <3> QED BY <1>1 DEF QueueInv, QueueTypeOK
  <2>2. ready' = [m \in Message |-> ready[m] + Cardinality(held(m))]
    BY DEF RedeliverAll
  <2> QED BY <2>1, <2>2
<1>5. \A m \in Message : ready'[m] > 0 => ready[m] > 0 \/ Cardinality(held(m)) # 0
  <2> HIDE DEF held
  <2> QED BY <1>1, <1>3 DEF QueueInv, QueueTypeOK
<1> QED BY <1>2, <1>4, <1>5 DEF QueueInv, QueueTypeOK

----------------------------------------------------------------------------
(* The graph keeps its types.                                              *)

LEMMA GraphTypes ==
  ASSUME GraphTypeOK, NEW h \in Handlers, NEW m \in Message,
         NEW p \in Products \cup {NoProduct},
         \/ Enter(h, m, p) \/ Pick(h, m) \/ Scope(h) \/ Plan(h)
         \/ AskApproval(h) \/ Decide(h) \/ Persist(h)
         \/ Return(h) \/ Raise(h)
  PROVE  GraphTypeOK'
<1> DEFINE Run == [at : Position, product : Products \cup {NoProduct}]
<1>0. m.id \in Products \cup {NoProduct} BY DEF Message
<1>1. graph[h] \in Run /\ (checkpoint.at # "none" => checkpoint \in Run)
  <2>1. \A at \in Saved : at # "none" => at \in Position BY DEF Saved, Position
  <2> QED BY <2>1 DEF GraphTypeOK
<1>2. Flushed(h) \in [at : Saved, product : Products \cup {NoProduct}]
  BY <1>1 DEF GraphTypeOK, Flushed
<1>3. Off \in Run BY DEF Off, Position
<1>4. CASE Enter(h, m, p)
  <2>1. PICK r \in Run : graph' = [graph EXCEPT ![h] = r]
    <3> DEFINE r == IF checkpoint.at = "none" THEN [at |-> "scope", product |-> p]
                    ELSE IF checkpoint.at \in {"input", "approval"} /\ m.kind = ExpectedKind
                      THEN [checkpoint EXCEPT !.at = IF m.kind = "input" THEN "picked" ELSE "decided"]
                    ELSE checkpoint
    <3>1. r \in Run BY <1>1 DEF Position
    <3>2. graph' = [graph EXCEPT ![h] = r] BY <1>4 DEF Enter
    <3> QED BY <3>1, <3>2
  <2> QED BY <1>4, <2>1 DEF Enter, GraphTypeOK
<1>5. CASE Pick(h, m) \/ Scope(h) \/ Plan(h) \/ AskApproval(h) \/ Decide(h)
  <2>1. PICK at \in Position, q \in Products \cup {NoProduct} : MoveTo(h, at, q)
    BY <1>0, <1>1, <1>5 DEF Pick, Scope, Plan, AskApproval, Decide, Position
  <2>2. graph' \in [Handlers -> Run] BY <2>1 DEF MoveTo, GraphTypeOK
  <2>3. change' \in Change /\ UNCHANGED <<checkpoint, late>>
    BY <1>5 DEF Pick, Scope, Plan, AskApproval, Decide, GraphTypeOK, Change
  <2> QED BY <2>2, <2>3 DEF GraphTypeOK
<1>6. CASE Persist(h)
  BY <1>2, <1>6 DEF Persist, GraphTypeOK
<1>7. CASE Return(h) \/ Raise(h)
  <2>1. checkpoint' = Flushed(h) /\ graph' = [graph EXCEPT ![h] = Off]
    BY <1>7 DEF Return, Raise, Leave
  <2>2. change' = change /\ late' \in SUBSET {"plan", "apply"}
    BY <1>7 DEF Return, Raise, GraphTypeOK
  <2> QED BY <1>2, <1>3, <2>1, <2>2 DEF GraphTypeOK
<1> QED BY <1>4, <1>5, <1>6, <1>7

----------------------------------------------------------------------------
(* What a step leaves alone stays sound; what it saves is a sound copy.    *)

LEMMA StoreStill == StoreInv /\ UNCHANGED storeVars => StoreInv'
BY DEF StoreInv, storeVars, RecordOK

LEMMA QueueStill == QueueInv /\ UNCHANGED queueVars => QueueInv'
BY DEF QueueInv, QueueTypeOK, queueVars

LEMMA GraphStill == GraphTypeOK /\ UNCHANGED graphVars => GraphTypeOK'
BY DEF GraphTypeOK, graphVars

LEMMA WorkerStill == WorkerInv /\ UNCHANGED worker => WorkerInv'
BY Zenon DEF WorkerInv

LEMMA ServiceStill == ServiceInv /\ UNCHANGED <<request, offered>> => ServiceInv'
BY Zenon DEF ServiceInv

LEMMA Saves ==
  ASSUME StoreInv, NEW r, RecordOK(r), SaveTask(r), UNCHANGED <<lease, feed>>
  PROVE  StoreInv'
BY Zenon DEF StoreInv, SaveTask

LEMMA Announces ==
  ASSUME StoreInv, NEW e \in Lifecycle, AppendEvent(e), UNCHANGED <<task, lease>>
  PROVE  StoreInv'
BY Zenon DEF StoreInv, AppendEvent

LEMMA LeaseMoves ==
  ASSUME StoreInv, lease' \in Handlers \cup {"free", "orphan"}, UNCHANGED <<task, feed>>
  PROVE  StoreInv'
BY Zenon DEF StoreInv

\* A message in hand may be sent.
LEMMA InHand ==
  ASSUME WorkerInv, NEW h \in Handlers, worker[h].pc \notin {"idle", "release"}
  PROVE  worker[h].msg \in Sendable /\ worker[h].msg \in Message
BY Mine DEF ActivationOK, Sendable

----------------------------------------------------------------------------
(* The worker's steps.                                                     *)

\* Receiving a message, or losing it.
LEMMA ReceiveSafe ==
  ASSUME StoreInv, QueueInv, GraphTypeOK, WorkerInv, NEW h \in Handlers, NEW m \in Message,
         Receive(h, m) \/ ReceiveFails(h, m)
  PROVE  StoreInv' /\ QueueInv' /\ GraphTypeOK' /\ WorkerInv'
<1> DEFINE w(pc) == [pc |-> pc, msg |-> m, live |-> TRUE, task |-> NoCopy]
<1>1. QueueInv' /\ m \in Sendable BY Delivering DEF Receive, ReceiveFails
<1>2. StoreInv'
  BY LeaseMoves DEF Receive, ReceiveFails, StoreInv, AcquireLease
<1>3. GraphTypeOK' BY GraphStill DEF Receive, ReceiveFails
<1>4. ASSUME NEW pc \in {"load", "delay", "stranded"}
      PROVE  ActivationOK(w(pc))
  BY <1>1, AbsentOK DEF ActivationOK, Activation, WorkerPC, NoCopy, RecordOK, Sendable
<1>5. PICK pc \in {"load", "delay", "stranded"} : worker' = [worker EXCEPT ![h] = w(pc)]
  BY DEF Receive, ReceiveFails
<1>6. WorkerInv' BY <1>4, <1>5, OneActivation
<1> QED BY <1>1, <1>2, <1>3, <1>6

\* A message put off because the lease is taken.
LEMMA DelaySafe ==
  ASSUME StoreInv, QueueInv, GraphTypeOK, WorkerInv, NEW h \in Handlers,
         Delay(h) \/ DelayFails(h) \/ GiveBack(h)
  PROVE  StoreInv' /\ QueueInv' /\ GraphTypeOK' /\ WorkerInv'
<1>1. worker[h].pc \notin {"idle", "release"} BY DEF Delay, DelayFails, GiveBack, At
<1>2. worker[h].msg \in Sendable BY <1>1, InHand
<1>3. QueueInv'
  BY <1>2, Publishing DEF Delay, DelayFails, GiveBack, PublishRetryRaises
<1>4. StoreInv' /\ GraphTypeOK'
  BY StoreStill, GraphStill DEF Delay, DelayFails, GiveBack
<1>5. WorkerInv'
  BY <1>1, Moves, Settling DEF Delay, DelayFails, GiveBack, WorkerPC
<1> QED BY <1>3, <1>4, <1>5

\* From the record read to the graph's start.
LEMMA StartSafe ==
  ASSUME StoreInv, QueueInv, GraphTypeOK, WorkerInv, NEW h \in Handlers,
         Load(h) \/ Mark(h) \/ AnnounceStarted(h)
  PROVE  StoreInv' /\ QueueInv' /\ GraphTypeOK' /\ WorkerInv'
<1>0. worker[h] \in Activation /\ ActivationOK(worker[h]) BY Mine
<1>1. worker[h].pc \notin {"idle", "release"} BY DEF Load, Mark, AnnounceStarted, At
<1>2. QueueInv' /\ GraphTypeOK'
  BY QueueStill, GraphStill DEF Load, Mark, AnnounceStarted
<1>3. CASE Load(h)
  <2>1. StoreInv' BY <1>3, StoreStill DEF Load
  <2>2. CASE Goto(h, "reject") \/ Goto(h, "skip")
    BY <1>1, <1>2, <2>1, <2>2, Moves DEF WorkerPC
  <2>3. CASE /\ Runnable(task, worker[h].msg)
             /\ worker' = [worker EXCEPT ![h].pc = "mark",
                                        ![h].task = [task EXCEPT !.status = "running"]]
    <3> DEFINE r == [task EXCEPT !.status = "running"]
               w == [worker[h] EXCEPT !.pc = "mark", !.task = r]
    <3>1. RecordOK(task) BY DEF StoreInv
    <3>2. task.status \in Executable \cup {"failed"}
      BY <2>3 DEF Runnable, PublishRecovery
    <3>3. task.pending # NoMessage
      BY <3>1, <3>2 DEF RecordOK, Executable, Awaiting, Final
    <3>4. /\ r \in TaskRecord /\ r.pending = task.pending
          /\ r.error = task.error /\ r.status = "running"
      BY <3>1 DEF RecordOK, TaskRecord, Status, Executable
    <3>5. RecordOK(r) BY <3>1, <3>3, <3>4 DEF RecordOK
    <3>6. w \in Activation /\ w.pc = "mark" /\ w.msg = worker[h].msg /\ w.task = r
      BY <1>0, <3>4 DEF Activation, WorkerPC
    <3>7. ActivationOK(w) BY <1>0, <1>1, <3>5, <3>6 DEF ActivationOK
    <3> QED BY <1>2, <2>1, <2>3, <3>7, OneActivation
  <2> QED BY <1>2, <1>3, <2>1, <2>2, <2>3 DEF Load
<1>4. CASE Mark(h)
  <2>1. StoreInv' BY <1>0, <1>4, Saves DEF Mark, ActivationOK
  <2>2. WorkerInv' BY <1>1, <1>4, Moves DEF Mark, WorkerPC
  <2> QED BY <1>2, <2>1, <2>2
<1>5. CASE AnnounceStarted(h)
  <2>1. StoreInv' BY <1>5, Announces DEF AnnounceStarted, Lifecycle
  <2>2. WorkerInv' BY <1>1, <1>5, Moves DEF AnnounceStarted, WorkerPC
  <2> QED BY <1>2, <2>1, <2>2
<1> QED BY <1>3, <1>4, <1>5

\* The run of the graph, its outcome, and what raises instead.
LEMMA RunSafe ==
  ASSUME StoreInv, QueueInv, GraphTypeOK, WorkerInv, NEW h \in Handlers,
         GraphStep(h) \/ Outcome(h) \/ (\E e \in {"other", "fatal", "blocked"} : GraphRaises(h, e))
  PROVE  StoreInv' /\ QueueInv' /\ GraphTypeOK' /\ WorkerInv'
<1>0. worker[h] \in Activation /\ ActivationOK(worker[h]) BY Mine
<1>1. worker[h].pc = "graph" BY DEF GraphStep, Outcome, GraphRaises, At
<1>2. worker[h].msg \in Message /\ worker[h].msg \in Sendable BY <1>1, InHand
<1>3. StoreInv' /\ QueueInv'
  BY StoreStill, QueueStill DEF GraphStep, Outcome, GraphRaises
<1>4. GraphTypeOK'
  <2>1. worker[h].task.product \in Products \cup {NoProduct}
    BY <1>0 DEF Activation, TaskRecord
  <2> QED BY <1>2, <2>1, GraphTypes DEF GraphStep, Outcome, GraphRaises
<1>5. CASE GraphStep(h)
  BY <1>3, <1>4, <1>5, WorkerStill DEF GraphStep
<1>6. CASE Outcome(h)
  <2> DEFINE r == [worker[h].task EXCEPT !.status = OutcomeStatus(graph[h].at),
                                         !.error = "none", !.pending = NoMessage]
             w == [worker[h] EXCEPT !.pc = "save", !.task = r]
  <2>1. OutcomeStatus(graph[h].at) \in Awaiting \cup Final
    BY <1>6 DEF Outcome, Return, Returned, OutcomeStatus, Awaiting, Final
  <2>2. worker[h].task \in TaskRecord BY <1>0 DEF Activation
  <2>3. /\ r \in TaskRecord /\ r.pending = NoMessage
        /\ r.status = OutcomeStatus(graph[h].at) /\ r.error = "none"
    BY <2>1, <2>2 DEF TaskRecord, Status, Error
  <2>4. RecordOK(r) BY <2>1, <2>3 DEF RecordOK
  <2>5. w \in Activation /\ w.pc = "save" /\ w.msg = worker[h].msg /\ w.task = r
    BY <1>0, <2>3 DEF Activation, WorkerPC
  <2>6. ActivationOK(w) BY <1>2, <2>1, <2>3, <2>4, <2>5 DEF ActivationOK
  <2>7. worker' = [worker EXCEPT ![h] = w] BY <1>6 DEF Outcome
  <2> QED BY <1>3, <1>4, <2>6, <2>7, OneActivation
<1>7. CASE \E e \in {"other", "fatal", "blocked"} : GraphRaises(h, e)
  <2>1. PICK e \in {"other", "fatal", "blocked"} : HandleFailure(h, e)
    BY <1>7 DEF GraphRaises
  <2>2. WorkerInv' BY <1>1, <2>1, Fails DEF StoreInv
  <2> QED BY <1>3, <1>4, <2>2
<1> QED BY <1>5, <1>6, <1>7

\* Saving, announcing and acknowledging an outcome; releasing the lease.
LEMMA EndSafe ==
  ASSUME StoreInv, QueueInv, GraphTypeOK, WorkerInv, NEW h \in Handlers,
         \/ SaveOutcome(h) \/ AnnounceOutcome(h) \/ Ack(h) \/ Release(h)
         \/ ReleaseFails(h) \/ Escape(h) \/ HandlerFault(h)
  PROVE  StoreInv' /\ QueueInv' /\ GraphTypeOK' /\ WorkerInv'
<1>0. worker[h] \in Activation /\ ActivationOK(worker[h]) BY Mine
<1>1. QueueInv' /\ GraphTypeOK'
  BY QueueStill, GraphStill DEF SaveOutcome, AnnounceOutcome, Ack, Release, ReleaseFails,
     Escape, HandlerFault
<1>2. CASE SaveOutcome(h)
  <2>1. StoreInv' BY <1>0, <1>2, Saves DEF SaveOutcome, ActivationOK
  <2>2. worker[h].task.status \in Awaiting \cup Final
    BY <1>0, <1>2 DEF SaveOutcome, At, ActivationOK
  <2>3. WorkerInv' BY <1>2, <2>2, Moves DEF SaveOutcome, At, WorkerPC
  <2> QED BY <1>1, <2>1, <2>3
<1>3. CASE AnnounceOutcome(h)
  <2> DEFINE e == TerminalEvent(worker[h].task.status)
  <2>1. worker[h].task.status \in Awaiting \cup Final
    BY <1>0, <1>3 DEF AnnounceOutcome, At, ActivationOK
  <2>2. e \in Lifecycle BY <2>1 DEF TerminalEvent, Lifecycle, Awaiting, Final
  <2>3. StoreInv'
    <3> HIDE DEF e
    <3> QED BY <1>3, <2>2, Announces DEF AnnounceOutcome, e
  <2>4. WorkerInv' BY <1>3, Moves DEF AnnounceOutcome, At, WorkerPC
  <2> QED BY <1>1, <2>3, <2>4
<1>4. CASE Ack(h)
  BY <1>1, <1>4, StoreStill, Settling DEF Ack
<1>5. CASE Release(h) \/ ReleaseFails(h)
  <2>1. lease' \in Handlers \cup {"free", "orphan"}
    BY <1>5 DEF Release, ReleaseFails, ReleaseLease, StoreInv
  <2>2. StoreInv' BY <1>5, <2>1, LeaseMoves DEF Release, ReleaseFails
  <2>3. WorkerInv' BY <1>5, Finishes DEF Release, ReleaseFails
  <2> QED BY <1>1, <2>2, <2>3
<1>6. CASE Escape(h)
  <2>1. StoreInv' BY <1>6, StoreStill DEF Escape
  <2>2. WorkerInv' BY <1>6, Moves, Finishes DEF Escape, WorkerPC
  <2> QED BY <1>1, <2>1, <2>2
<1>7. CASE HandlerFault(h)
  <2>1. StoreInv'
    <3>1. CASE UNCHANGED feed BY <1>7, <3>1, StoreStill DEF HandlerFault, storeVars
    <3>2. CASE AppendEvent("task.started")
      BY <1>7, <3>2, Announces DEF HandlerFault, Lifecycle
    <3> QED BY <1>7, <3>1, <3>2 DEF HandlerFault
  <2>2. WorkerInv' BY <1>7, Fails DEF HandlerFault, StoreInv
  <2> QED BY <1>1, <2>1, <2>2
<1> QED BY <1>2, <1>3, <1>4, <1>5, <1>6, <1>7

\* The retry of a failed message, and the failure that is final.
LEMMA FailureSafe ==
  ASSUME StoreInv, QueueInv, GraphTypeOK, WorkerInv, NEW h \in Handlers,
         \/ SaveFailure(h) \/ Republish(h) \/ RepublishFails(h) \/ SaveUnpublishedRetry(h)
         \/ AnnounceRetry(h) \/ AnnounceFailed(h) \/ Reject(h) \/ RetryForsaken(h)
  PROVE  StoreInv' /\ QueueInv' /\ GraphTypeOK' /\ WorkerInv'
<1>0. worker[h] \in Activation /\ ActivationOK(worker[h]) BY Mine
<1>1. GraphTypeOK'
  BY GraphStill DEF SaveFailure, Republish, RepublishFails, SaveUnpublishedRetry,
     AnnounceRetry, AnnounceFailed, Reject, RetryForsaken
<1>2. CASE SaveFailure(h)
  <2>1. StoreInv' BY <1>0, <1>2, Saves DEF SaveFailure, ActivationOK
  <2>2. QueueInv' BY <1>2, QueueStill DEF SaveFailure
  <2>3. CASE worker[h].task.status = "retrying"
    <3>1. worker[h].task.pending \in Sendable
      BY <1>0, <1>2, <2>3 DEF SaveFailure, At, ActivationOK
    <3> QED BY <1>1, <1>2, <2>1, <2>2, <2>3, <3>1, Moves DEF SaveFailure, At, WorkerPC
  <2>4. CASE worker[h].task.status # "retrying"
    BY <1>1, <1>2, <2>1, <2>2, <2>4, Moves DEF SaveFailure, At, WorkerPC
  <2> QED BY <2>3, <2>4
<1>3. CASE Republish(h)
  <2>1. worker[h].task.pending \in Sendable BY <1>0, <1>3 DEF Republish, At, ActivationOK
  <2>2. StoreInv' BY <1>3, StoreStill DEF Republish
  <2>3. QueueInv' BY <1>3, <2>1, Publishing DEF Republish
  <2>4. WorkerInv' BY <1>3, Moves DEF Republish, At, WorkerPC
  <2> QED BY <1>1, <2>2, <2>3, <2>4
<1>4. CASE RepublishFails(h)
  <2> DEFINE r == [worker[h].task EXCEPT !.status = "failed", !.error = "publish_failed"]
             w == [worker[h] EXCEPT !.pc = "unpublished", !.task = r]
  <2>1. worker[h].task.pending \in Sendable
    BY <1>0, <1>4 DEF RepublishFails, At, ActivationOK
  <2>2. StoreInv' BY <1>4, StoreStill DEF RepublishFails
  <2>3. QueueInv' BY <1>4, <2>1, Publishing DEF RepublishFails, PublishRetryRaises
  <2>4. worker[h].task \in TaskRecord BY <1>0 DEF Activation
  <2>5. r \in TaskRecord /\ r.pending = worker[h].task.pending /\ r.status = "failed"
    BY <2>4 DEF TaskRecord, Status, Error
  <2>6. RecordOK(r) BY <2>1, <2>5, RecordWith
  <2>7. /\ w \in Activation /\ w.pc = "unpublished" /\ w.msg = worker[h].msg
        /\ w.live = worker[h].live /\ w.task = r
    BY <1>0, <2>5 DEF Activation, WorkerPC
  <2>8. worker[h].msg \in Sendable BY <1>4, InHand DEF RepublishFails, At
  <2>9. ActivationOK(w) BY <2>6, <2>7, <2>8 DEF ActivationOK
  <2>10. worker' = [worker EXCEPT ![h] = w] BY <1>4 DEF RepublishFails
  <2> QED BY <1>1, <2>2, <2>3, <2>9, <2>10, OneActivation
<1>5. CASE SaveUnpublishedRetry(h)
  <2>1. StoreInv' BY <1>0, <1>5, Saves DEF SaveUnpublishedRetry, ActivationOK
  <2>2. QueueInv' BY <1>5, QueueStill DEF SaveUnpublishedRetry
  <2>3. WorkerInv' BY <1>5, Moves DEF SaveUnpublishedRetry, At, WorkerPC
  <2> QED BY <1>1, <2>1, <2>2, <2>3
<1>6. CASE AnnounceRetry(h) \/ AnnounceFailed(h)
  <2>1. StoreInv' BY <1>6, Announces DEF AnnounceRetry, AnnounceFailed, Lifecycle
  <2>2. QueueInv' BY <1>6, QueueStill DEF AnnounceRetry, AnnounceFailed
  <2>3. WorkerInv' BY <1>6, Moves DEF AnnounceRetry, AnnounceFailed, At, WorkerPC
  <2> QED BY <1>1, <2>1, <2>2, <2>3
<1>7. CASE Reject(h)
  <2>1. worker[h].msg \in Sendable BY <1>7, InHand DEF Reject, At
  <2>2. StoreInv' BY <1>7, StoreStill DEF Reject
  <2>3. QueueInv' BY <1>7, <2>1, Publishing DEF Reject
  <2>4. WorkerInv' BY <1>7, Settling DEF Reject
  <2> QED BY <1>1, <2>2, <2>3, <2>4
<1>8. CASE RetryForsaken(h)
  <2>1. StoreInv'
    <3>1. CASE SaveTask(worker[h].task)
      BY <1>0, <1>8, <3>1, Saves DEF RetryForsaken, ActivationOK
    <3>2. CASE UNCHANGED task
      BY <1>8, <3>2, StoreStill DEF RetryForsaken, storeVars
    <3> QED BY <1>8, <3>1, <3>2 DEF RetryForsaken
  <2>2. QueueInv' BY <1>8, QueueStill DEF RetryForsaken
  <2>3. WorkerInv' BY <1>8, Moves DEF RetryForsaken, WorkerPC
  <2> QED BY <1>1, <2>1, <2>2, <2>3
<1> QED BY <1>2, <1>3, <1>4, <1>5, <1>6, <1>7, <1>8

\* Crashes, closed channels and expired leases.
LEMMA CrashSafe ==
  ASSUME StoreInv, QueueInv, GraphTypeOK, WorkerInv,
         ConnectionLost \/ WorkerCrash \/ LeaseExpires
  PROVE  StoreInv' /\ QueueInv' /\ GraphTypeOK' /\ WorkerInv'
<1>1. ActivationOK(IdleWorker) /\ IdleWorker \in Activation
  BY AbsentOK DEF ActivationOK, Activation, IdleWorker, WorkerPC, NoCopy, RecordOK
<1>2. CASE ConnectionLost
  <2> DEFINE w(h) == IF At(h, "stranded") THEN IdleWorker
                     ELSE [worker[h] EXCEPT !.live = FALSE]
  <2>1. StoreInv' /\ GraphTypeOK' BY <1>2, StoreStill, GraphStill DEF ConnectionLost
  <2>2. QueueInv' BY <1>2, Redelivering DEF ConnectionLost
  <2>3. ASSUME NEW h \in Handlers
        PROVE  w(h) \in Activation /\ ActivationOK(w(h))
    <3>1. worker[h] \in Activation /\ ActivationOK(worker[h]) BY Mine
    <3>2. CASE At(h, "stranded") BY <1>1, <3>2
    <3>3. CASE ~ At(h, "stranded")
      <4>1. /\ w(h) \in Activation /\ w(h).pc = worker[h].pc /\ ~ w(h).live
            /\ w(h).msg = worker[h].msg /\ w(h).task = worker[h].task
        BY <3>1, <3>3 DEF Activation
      <4> HIDE DEF w
      <4> QED BY <3>1, <4>1 DEF ActivationOK
    <3> QED BY <3>2, <3>3
  <2>4. worker' = [h \in Handlers |-> w(h)] BY <1>2 DEF ConnectionLost
  <2>5. WorkerInv'
    <3> HIDE DEF w
    <3> QED BY <2>3, <2>4 DEF WorkerInv
  <2> QED BY <2>1, <2>2, <2>5
<1>3. CASE WorkerCrash
  <2>1. StoreInv' BY <1>3, LeaseMoves DEF WorkerCrash, StoreInv
  <2>2. QueueInv' BY <1>3, Redelivering DEF WorkerCrash
  <2>3. GraphTypeOK' BY <1>3 DEF WorkerCrash, GraphCrash, GraphTypeOK, Off, Position
  <2>4. worker' = [h \in Handlers |-> IdleWorker] BY <1>3 DEF WorkerCrash
  <2>5. WorkerInv' BY <1>1, <2>4 DEF WorkerInv
  <2> QED BY <2>1, <2>2, <2>3, <2>5
<1>4. CASE LeaseExpires
  BY <1>4, LeaseMoves, QueueStill, GraphStill, WorkerStill DEF LeaseExpires
<1> QED BY <1>2, <1>3, <1>4

----------------------------------------------------------------------------
(* The API's steps.                                                        *)

LEMMA Yours ==
  ASSUME ServiceInv, NEW c \in Clients
  PROVE  request[c] \in RequestRecord /\ RequestOK(request[c])
BY DEF ServiceInv

LEMMA IdleOK == RequestOK(IdleRequest)
BY AbsentOK DEF RequestOK, RequestRecord, IdleRequest, RequestPC, Ops, Status, RecordOK, Absent

\* A request that goes on, or is over.
LEMMA Proceeds ==
  ASSUME ServiceInv, NEW c \in Clients, offered' = offered,
         \/ Done(c)
         \/ /\ request[c].pc # "idle"
            /\ \E pc \in RequestPC : Proceed(c, pc)
  PROVE  ServiceInv'
<1>1. CASE Done(c) BY <1>1, IdleOK, OneRequest DEF Done
<1>2. CASE request[c].pc # "idle" /\ \E pc \in RequestPC : Proceed(c, pc)
  <2>1. PICK pc \in RequestPC : Proceed(c, pc) BY <1>2
  <2> DEFINE q == [request[c] EXCEPT !.pc = pc]
  <2>2. request[c] \in RequestRecord /\ RequestOK(request[c]) BY Yours
  <2>3. q \in RequestRecord /\ q.pc = pc /\ q.task = request[c].task
    BY <2>2 DEF RequestRecord
  <2>4. RequestOK(q) BY <1>2, <2>2, <2>3 DEF RequestOK
  <2>5. request' = [request EXCEPT ![c] = q] BY <2>1 DEF Proceed
  <2> QED BY <2>4, <2>5, OneRequest
<1> QED BY <1>1, <1>2

\* A new request copies the record and gives it the message it will publish.
LEMMA RequestSafe ==
  ASSUME StoreInv, ServiceInv, NEW c \in Clients, NewRequest(c)
  PROVE  ServiceInv'
<1>1. task \in TaskRecord /\ RecordOK(task) BY DEF StoreInv, RecordOK
<1>2. offered' = offered BY DEF NewRequest, SubmitInput, SubmitApproval, Resume
<1>3. ASSUME NEW p \in Products, SubmitInput(c, p)
      PROVE  ServiceInv'
  <2> DEFINE m == [attempt |-> 0, kind |-> "input", id |-> p]
             r == [task EXCEPT !.product = p, !.status = "queued", !.pending = m]
             q == [pc |-> "transition", op |-> "input", decision |-> "none",
                   expected |-> "awaiting_input", task |-> r]
  <2>1. m \in Sendable /\ m \in Message BY InputSendable DEF Sendable
  <2>2. r \in TaskRecord /\ r.pending = m /\ r.status = "queued"
    <3> HIDE DEF m
    <3> QED BY <1>1, <2>1 DEF TaskRecord, Status, Executable
  <2>3. RecordOK(r) BY <2>1, <2>2, RecordWith
  <2>4. RequestOK(q)
    <3> HIDE DEF r, m
    <3> QED BY <2>1, <2>2, <2>3 DEF RequestOK, RequestRecord, RequestPC, Ops, Status, Awaiting
  <2>5. request' = [request EXCEPT ![c] = q] BY <1>3 DEF SubmitInput
  <2> QED BY <1>2, <2>4, <2>5, OneRequest
<1>4. ASSUME NEW decision \in {"approve", "reject"}, SubmitApproval(c, decision)
      PROVE  ServiceInv'
  <2> DEFINE r == [task EXCEPT !.status = "queued", !.error = "none",
                               !.pending = ApprovalMessage]
             e == IF task.error = "publish_failed" THEN "failed" ELSE "awaiting_approval"
             q == [pc |-> "record", op |-> "approval", decision |-> decision,
                   expected |-> e, task |-> r]
  <2>1. ApprovalMessage \in Sendable /\ ApprovalMessage \in Message
    BY FirstSendable DEF Sendable
  <2>2. r \in TaskRecord /\ r.pending = ApprovalMessage /\ r.status = "queued"
    BY <1>1, <2>1 DEF TaskRecord, Status, Error, Executable
  <2>3. RecordOK(r) BY <2>1, <2>2, RecordWith
  <2>4. e \in Status BY DEF Status, Awaiting
  <2>5. RequestOK(q)
    <3> HIDE DEF r, e
    <3> QED BY <2>1, <2>2, <2>3, <2>4 DEF RequestOK, RequestRecord, RequestPC, Ops
  <2>6. request' = [request EXCEPT ![c] = q] BY <1>4 DEF SubmitApproval
  <2> QED BY <1>2, <2>5, <2>6, OneRequest
<1>5. CASE Resume(c)
  <2> DEFINE r == [task EXCEPT !.status = "queued", !.error = "none",
                               !.pending = ResumedMessage]
             pc == IF task.status = "running" THEN "lease" ELSE "save"
             q == [pc |-> pc, op |-> "resume", decision |-> "none", expected |-> "absent",
                   task |-> r]
  <2>1. ResumedMessage \in Sendable /\ ResumedMessage \in Message
    BY <1>1, ResumedSendable DEF Sendable
  <2>2. r \in TaskRecord /\ r.pending = ResumedMessage /\ r.status = "queued"
    BY <1>1, <2>1 DEF TaskRecord, Status, Error, Executable
  <2>3. RecordOK(r) BY <2>1, <2>2, RecordWith
  <2>4. pc \in RequestPC BY DEF RequestPC
  <2>5. RequestOK(q)
    <3> HIDE DEF r, pc
    <3> QED BY <2>1, <2>2, <2>3, <2>4 DEF RequestOK, RequestRecord, Ops, Status
  <2>6. request' = [request EXCEPT ![c] = q] BY <1>5 DEF Resume
  <2> QED BY <1>2, <2>5, <2>6, OneRequest
<1> QED BY <1>3, <1>4, <1>5 DEF NewRequest

\* A request on its way, one whose await raised, an aborted one, the offer read.
LEMMA ServeSafe ==
  ASSUME StoreInv, QueueInv, GraphTypeOK, ServiceInv, NEW c \in Clients,
         \/ Serve(c) \/ NewRequest(c) \/ PublishFails(c) \/ RequestRaises(c)
         \/ RequestForsaken(c) \/ RequestAborts(c) \/ ReadOffer
  PROVE  StoreInv' /\ QueueInv' /\ GraphTypeOK' /\ ServiceInv'
<1>0. request[c] \in RequestRecord /\ RequestOK(request[c]) BY Yours
<1>1. CASE RecordDecision(c)
  <2>1. StoreInv' /\ QueueInv' BY <1>1, StoreStill, QueueStill DEF RecordDecision
  <2>2. ServiceInv' BY <1>1, Proceeds DEF RecordDecision, Asks, RequestPC
  <2>3. GraphTypeOK'
    BY <1>0, <1>1 DEF RecordDecision, GraphTypeOK, Change, RequestRecord
  <2> QED BY <2>1, <2>2, <2>3
<1>2. CASE Transition(c)
  <2>1. QueueInv' /\ GraphTypeOK' BY <1>2, QueueStill, GraphStill DEF Transition
  <2>2. ServiceInv' BY <1>2, Proceeds DEF Transition, Asks, RequestPC
  <2>3. StoreInv'
    <3>1. CASE TransitionTask(request[c].task, request[c].expected)
      BY <1>0, <1>2, <3>1, Saves DEF Transition, TransitionTask, SaveTask, RequestOK
    <3>2. CASE UNCHANGED task
      BY <1>2, <3>2, StoreStill DEF Transition, storeVars
    <3> QED BY <1>2, <3>1, <3>2 DEF Transition
  <2> QED BY <2>1, <2>2, <2>3
<1>3. CASE CheckLease(c)
  BY <1>3, StoreStill, QueueStill, GraphStill, Proceeds DEF CheckLease, Asks, RequestPC
<1>4. CASE SaveResumed(c) \/ SaveUnpublished(c)
  <2>1. StoreInv' BY <1>0, <1>4, Saves DEF SaveResumed, SaveUnpublished, RequestOK
  <2>2. QueueInv' /\ GraphTypeOK'
    BY <1>4, QueueStill, GraphStill DEF SaveResumed, SaveUnpublished
  <2>3. ServiceInv' BY <1>4, Proceeds DEF SaveResumed, SaveUnpublished, Asks, RequestPC
  <2> QED BY <2>1, <2>2, <2>3
<1>5. CASE AnnounceRequest(c) \/ AnnounceUnpublished(c)
  <2>1. StoreInv'
    <3>1. CASE AnnounceUnpublished(c)
      BY <3>1, Announces DEF AnnounceUnpublished, Lifecycle
    <3>2. CASE AnnounceRequest(c)
      <4>1. UNCHANGED feed \/ AppendEvent("task.queued") \/ AppendEvent("task.resumed")
        BY <3>2 DEF AnnounceRequest, RequestEvent
      <4> QED BY <3>2, <4>1, Announces, StoreStill DEF AnnounceRequest, Lifecycle, storeVars
    <3> QED BY <1>5, <3>1, <3>2
  <2>2. QueueInv' /\ GraphTypeOK'
    BY <1>5, QueueStill, GraphStill DEF AnnounceRequest, AnnounceUnpublished
  <2>3. ServiceInv' BY <1>5, Proceeds DEF AnnounceRequest, AnnounceUnpublished, Asks, RequestPC
  <2> QED BY <2>1, <2>2, <2>3
<1>6. CASE PublishRequest(c)
  <2>1. request[c].task.pending \in Sendable BY <1>0, <1>6 DEF PublishRequest, Asks, RequestOK
  <2> QED BY <1>6, <2>1, Publishing, StoreStill, GraphStill, Proceeds DEF PublishRequest
<1>7. CASE PublishFails(c)
  <2> DEFINE r == [request[c].task EXCEPT !.status = "failed", !.error = "publish_failed"]
             q == [request[c] EXCEPT !.pc = "unpublished", !.task = r]
  <2>1. request[c].task.pending \in Sendable BY <1>0, <1>7 DEF PublishFails, Asks, RequestOK
  <2>2. request[c].task \in TaskRecord BY <1>0 DEF RequestRecord
  <2>3. r \in TaskRecord /\ r.pending = request[c].task.pending /\ r.status = "failed"
    BY <2>2 DEF TaskRecord, Status, Error
  <2>4. RecordOK(r) BY <2>1, <2>3, RecordWith
  <2>5. q \in RequestRecord /\ q.pc = "unpublished" /\ q.task = r
    BY <1>0, <2>3 DEF RequestRecord, RequestPC
  <2>6. RequestOK(q) BY <2>1, <2>3, <2>4, <2>5 DEF RequestOK
  <2>7. request' = [request EXCEPT ![c] = q] /\ offered' = offered BY <1>7 DEF PublishFails
  <2>8. ServiceInv' BY <2>6, <2>7, OneRequest
  <2>9. QueueInv' BY <1>7, <2>1, Publishing DEF PublishFails, PublishRaises
  <2> QED BY <1>7, <2>8, <2>9, StoreStill, GraphStill DEF PublishFails
<1>8. CASE RequestAborts(c) \/ RequestRaises(c)
  BY <1>8, StoreStill, QueueStill, GraphStill, Proceeds DEF RequestAborts, RequestRaises
<1>9. CASE ReadOffer
  <2>1. ServiceInv' BY <1>9, Zenon DEF ReadOffer, ServiceInv
  <2> QED BY <1>9, <2>1, StoreStill, QueueStill, GraphStill DEF ReadOffer
<1>10. CASE NewRequest(c)
  <2>1. ServiceInv' BY <1>10, RequestSafe
  <2>2. UNCHANGED <<storeVars, queueVars, graphVars>>
    BY <1>10 DEF NewRequest, SubmitInput, SubmitApproval, Resume
  <2> QED BY <2>1, <2>2, StoreStill, QueueStill, GraphStill
<1>11. CASE RequestForsaken(c)
  <2>1. UNCHANGED feed \/ AppendEvent("task.queued") \/ AppendEvent("task.resumed")
    BY <1>11 DEF RequestForsaken, RequestEvent
  <2>2. StoreInv'
    BY <1>11, <2>1, Announces, StoreStill DEF RequestForsaken, Lifecycle, storeVars
  <2> QED BY <1>11, <2>2, QueueStill, GraphStill, Proceeds DEF RequestForsaken
<1> QED BY <1>1, <1>2, <1>3, <1>4, <1>5, <1>6, <1>7, <1>8, <1>9, <1>10, <1>11 DEF Serve

----------------------------------------------------------------------------
(* The system.                                                             *)

LEMMA InvInit == Init => Inv
<1> SUFFICES ASSUME Init PROVE Inv OBVIOUS
<1> USE DEF Init
<1>1. PICK p \in Products \cup {NoProduct} : task = NewTask(p) BY DEF StoreInit
<1>2. NewTask(p) \in TaskRecord /\ NewTask(p).pending = FirstMessage
      /\ NewTask(p).status = "queued"
  BY FirstSendable DEF NewTask, TaskRecord, Status, Executable, Error, Sendable
<1>3. RecordOK(task) BY <1>1, <1>2, FirstSendable, RecordWith
<1>4. StoreInv BY <1>3 DEF StoreInv, StoreInit, Lifecycle
<1>5. QueueInv BY DEF QueueInv, QueueInit, QueueTypeOK
<1>6. GraphTypeOK BY DEF GraphInit, GraphTypeOK, Off, Position, Saved, Change
<1>7. WorkerInv
  BY AbsentOK DEF WorkerInit, WorkerInv, ActivationOK, Activation, IdleWorker, WorkerPC,
     NoCopy, RecordOK
<1>8. ServiceInv
  <2> DEFINE q == [IdleRequest EXCEPT !.pc = "event", !.op = "create", !.task = task]
  <2>1. /\ q \in RequestRecord /\ q.task = task /\ q.pc = "event"
    BY <1>3 DEF IdleRequest, RequestRecord, RequestPC, Ops, Status, RecordOK
  <2>2. RequestOK(q) BY <1>1, <1>2, <1>3, <2>1, FirstSendable DEF RequestOK
  <2>3. PICK c \in Clients : request = [d \in Clients |-> IF d = c THEN q ELSE IdleRequest]
    BY DEF ServiceInit
  <2>4. offered \in BOOLEAN BY DEF ServiceInit
  <2>5. IdleRequest \in RequestRecord BY IdleOK DEF RequestOK
  <2> QED
    <3> HIDE DEF q
    <3> QED BY <2>1, <2>2, <2>3, <2>4, <2>5, IdleOK DEF ServiceInv
<1>9. SpentInv BY BoundsAssumption DEF SpentInv
<1> QED BY <1>4, <1>5, <1>6, <1>7, <1>8, <1>9 DEF Inv

LEMMA SpentSafe ==
  ASSUME SpentInv,
         \/ UNCHANGED spent \/ Spend("faults", MaxFaults)
         \/ Spend("crashes", MaxCrashes) \/ Spend("requests", MaxRequests)
         \/ Forsake
  PROVE  SpentInv'
<1> DEFINE Counts == [requests : 0 .. MaxRequests, faults : 0 .. MaxFaults,
                      crashes : 0 .. MaxCrashes, forsaken : BOOLEAN]
<1>0. spent \in Counts BY DEF SpentInv
<1>1. /\ spent.faults < MaxFaults => spent.faults + 1 \in 0 .. MaxFaults
      /\ spent.crashes < MaxCrashes => spent.crashes + 1 \in 0 .. MaxCrashes
      /\ spent.requests < MaxRequests => spent.requests + 1 \in 0 .. MaxRequests
  BY <1>0, BoundsAssumption
<1>2. ASSUME NEW n \in 0 .. MaxFaults, NEW b \in BOOLEAN
      PROVE  /\ [spent EXCEPT !.faults = n] \in Counts
             /\ [spent EXCEPT !.faults = n, !.forsaken = b] \in Counts
  BY <1>0
<1>3. ASSUME NEW n \in 0 .. MaxCrashes PROVE [spent EXCEPT !.crashes = n] \in Counts
  BY <1>0
<1>4. ASSUME NEW n \in 0 .. MaxRequests PROVE [spent EXCEPT !.requests = n] \in Counts
  BY <1>0
<1>5. spent' \in Counts
  <2>1. CASE UNCHANGED spent BY <1>0, <2>1
  <2>2. CASE Spend("faults", MaxFaults) BY <1>1, <1>2, <2>2 DEF Spend
  <2>3. CASE Spend("crashes", MaxCrashes) BY <1>1, <1>3, <2>3 DEF Spend
  <2>4. CASE Spend("requests", MaxRequests) BY <1>1, <1>4, <2>4 DEF Spend
  <2>5. CASE Forsake BY <1>1, <1>2, <2>5 DEF Forsake
  <2> QED BY <2>1, <2>2, <2>3, <2>4, <2>5
<1> QED BY <1>5 DEF SpentInv

LEMMA InvNext == Inv /\ [Next]_vars => Inv'
<1> SUFFICES ASSUME Inv, [Next]_vars PROVE Inv' OBVIOUS
<1> USE DEF Inv
<1>1. CASE WorkerNext /\ UNCHANGED <<request, offered>>
  <2>1. ServiceInv' BY <1>1, ServiceStill
  <2>2. SpentInv' BY <1>1, SpentSafe DEF WorkerNext
  <2>3. StoreInv' /\ QueueInv' /\ GraphTypeOK' /\ WorkerInv'
    <3>1. ASSUME NEW h \in Handlers, Work(h) \/ ChannelGone(h) \/ WorkerFault(h) \/ RetryForsaken(h)
          PROVE  StoreInv' /\ QueueInv' /\ GraphTypeOK' /\ WorkerInv'
      <4>1. CASE Work(h)
        BY <4>1, ReceiveSafe, DelaySafe, StartSafe, RunSafe, EndSafe, FailureSafe DEF Work
      <4>2. CASE ChannelGone(h)
        BY <4>2, EndSafe DEF ChannelGone
      <4>3. CASE WorkerFault(h)
        BY <4>3, ReceiveSafe, DelaySafe, RunSafe, EndSafe, FailureSafe DEF WorkerFault
      <4> QED BY <3>1, <4>1, <4>2, <4>3, FailureSafe
    <3> QED BY <1>1, <3>1, CrashSafe DEF WorkerNext
  <2> QED BY <2>1, <2>2, <2>3
<1>2. CASE ServiceNext /\ UNCHANGED worker
  <2>1. WorkerInv' BY <1>2, WorkerStill
  <2>2. SpentInv' BY <1>2, SpentSafe DEF ServiceNext
  <2>3. Clients # {} => StoreInv' /\ QueueInv' /\ GraphTypeOK' /\ ServiceInv'
    BY <1>2, ServeSafe DEF ServiceNext
  <2>4. Clients = {} => StoreInv' /\ QueueInv' /\ GraphTypeOK' /\ ServiceInv'
    BY <1>2, ServiceStill, StoreStill, QueueStill, GraphStill DEF ServiceNext, ReadOffer, ServiceInv
  <2> QED BY <2>1, <2>2, <2>3, <2>4
<1>3. CASE Environment /\ UNCHANGED <<worker, request, offered, spent>>
  <2>1. WorkerInv' /\ ServiceInv' /\ SpentInv'
    BY <1>3, WorkerStill, ServiceStill, SpentSafe
  <2>2. CASE DelayElapsed /\ UNCHANGED <<storeVars, graphVars>>
    BY <2>1, <2>2, Returning, StoreStill, GraphStill
  <2>3. CASE LateCommit /\ UNCHANGED <<storeVars, queueVars>>
    <3>1. GraphTypeOK' BY <2>3 DEF LateCommit, GraphTypeOK, Change
    <3> QED BY <2>1, <2>3, <3>1, StoreStill, QueueStill
  <2> QED BY <1>3, <2>2, <2>3 DEF Environment
<1>4. CASE /\ ExpireRecord
           /\ UNCHANGED <<queueVars, graphVars, worker, request, offered, spent>>
  <2>1. StoreInv' BY <1>4, AbsentOK DEF ExpireRecord, StoreInv, Lifecycle
  <2> QED BY <1>4, <2>1, QueueStill, GraphStill, WorkerStill, ServiceStill, SpentSafe
<1>5. CASE UNCHANGED vars
  BY <1>5, StoreStill, QueueStill, GraphStill, WorkerStill, ServiceStill, SpentSafe
  DEF vars, storeVars, queueVars, graphVars
<1> QED BY <1>1, <1>2, <1>3, <1>4, <1>5 DEF Next

THEOREM Invariance == Spec => []Inv
BY InvInit, InvNext, PTL DEF Spec

\* Every variable keeps its type, whatever fails and however often.
THEOREM Typing == Spec => []TypeOK
<1>1. Inv => TypeOK
  <2> SUFFICES ASSUME Inv PROVE TypeOK OBVIOUS
  <2>1. StoreTypeOK BY DEF Inv, StoreInv, RecordOK, StoreTypeOK
  <2>2. WorkerTypeOK BY DEF Inv, WorkerInv, WorkerTypeOK, Activation
  <2>3. ServiceTypeOK BY DEF Inv, ServiceInv, ServiceTypeOK, RequestRecord
  <2> QED BY <2>1, <2>2, <2>3 DEF Inv, QueueInv, SpentInv, TypeOK
<1> QED BY <1>1, Invariance, PTL

\* A record that may still be executed always names the message that may
\* execute it, for any number of handlers, clients, faults and crashes.
THEOREM Governed == Spec => []PendingGoverns
<1>1. Inv => PendingGoverns BY DEF Inv, StoreInv, RecordOK, PendingGoverns
<1> QED BY <1>1, Invariance, PTL

\* No message of attempt MaxAttempts or beyond is ever queued or handled.
THEOREM Bounded == Spec => []AttemptsBounded
<1>1. Inv => AttemptsBounded
  <2> SUFFICES ASSUME Inv, NEW m \in InFlight PROVE m.attempt < MaxAttempts
    BY DEF AttemptsBounded
  <2>1. CASE m \in Message /\ (ready[m] > 0 \/ delayed[m] > 0)
    BY <2>1 DEF Inv, QueueInv, Sendable
  <2>2. CASE \E h \in Handlers : worker[h].msg # NoMessage /\ m = worker[h].msg
    BY <2>2 DEF Inv, WorkerInv, ActivationOK, Sendable
  <2> QED BY <2>1, <2>2 DEF InFlight
<1> QED BY <1>1, Invariance, PTL

----------------------------------------------------------------------------
(* One execution at a time.  While no lease expires under a living handler *)
(* the handler that executes is the one the lease names: it took the lease *)
(* when it was free and gives it up in its last step.                      *)

LeaseHeld == \A h \in Handlers : Executing(h) => lease = h

\* A step of a handler between Receive and Release keeps its lease.
LEMMA HolderStays ==
  ASSUME LeaseHeld, NEW h \in Handlers, Executing(h), UNCHANGED lease,
         \A g \in Handlers : g # h => worker'[g] = worker[g]
  PROVE  LeaseHeld'
<1> SUFFICES ASSUME NEW g \in Handlers, Executing(g)' PROVE lease' = g
  BY DEF LeaseHeld
<1>1. CASE g = h BY <1>1 DEF LeaseHeld
<1>2. CASE g # h
  <2>1. Executing(g) BY <1>2 DEF Executing
  <2> QED BY <2>1 DEF LeaseHeld
<1> QED BY <1>1, <1>2

\* So does the end of one, and what never executes does not need it.
LEMMA OutsiderStays ==
  ASSUME LeaseHeld, NEW h \in Handlers, ~ Executing(h)',
         UNCHANGED lease \/ lease = h \/ lease \notin Handlers,
         \A g \in Handlers : g # h => worker'[g] = worker[g]
  PROVE  LeaseHeld'
<1> SUFFICES ASSUME NEW g \in Handlers, Executing(g)' PROVE lease' = g
  BY DEF LeaseHeld
<1>1. g # h OBVIOUS
<1>2. Executing(g) BY <1>1 DEF Executing
<1>3. lease = g BY <1>2 DEF LeaseHeld
<1> QED BY <1>1, <1>3

\* A step of handler h moves no other handler.
LEMMA OthersStill ==
  ASSUME WorkerInv, NEW h \in Handlers, Work(h) \/ ChannelGone(h) \/ WorkerFault(h) \/ RetryForsaken(h)
  PROVE  \A g \in Handlers : g # h => worker'[g] = worker[g]
<1> SUFFICES ASSUME NEW g \in Handlers, g # h PROVE worker'[g] = worker[g]
  OBVIOUS
<1> USE DEF WorkerInv
<1>1. CASE Work(h)
  BY <1>1 DEF Work, Receive, Delay, GiveBack, Load, Mark, AnnounceStarted, GraphStep, Outcome,
     SaveOutcome, AnnounceOutcome, Ack, SaveFailure, Republish, AnnounceRetry,
     SaveUnpublishedRetry, AnnounceFailed, Reject, Release, Goto, Settled, Finish
<1>2. CASE ChannelGone(h)
  BY <1>2 DEF ChannelGone, HandlerFault, HandleFailure, Escape, Goto, Finish
<1>3. CASE WorkerFault(h)
  BY <1>3 DEF WorkerFault, ReceiveFails, DelayFails, HandlerFault, HandleFailure, RepublishFails,
     Escape, ReleaseFails, GraphRaises, Goto, Finish
<1>4. CASE RetryForsaken(h)
  BY <1>4 DEF RetryForsaken, Goto
<1> QED BY <1>1, <1>2, <1>3, <1>4

\* A handler whose activation ends executes nothing.
LEMMA FinishLeaves ==
  ASSUME WorkerInv, NEW h \in Handlers,
         Finish(h) \/ Settled(h, "idle") \/ Goto(h, "requeue") \/ Goto(h, "ack_delayed")
  PROVE  ~ Executing(h)'
<1>1. worker \in [Handlers -> Activation] /\ worker[h] \in Activation BY DEF WorkerInv
<1>2. CASE Finish(h)
  <2>1. worker'[h] = IF worker[h].live THEN [worker[h] EXCEPT !.pc = "stranded", !.task = NoCopy]
                     ELSE IdleWorker
    BY <1>1, <1>2 DEF Finish
  <2>2. worker'[h].pc \in {"stranded", "idle"} BY <1>1, <2>1 DEF IdleWorker, Activation
  <2> QED BY <2>2 DEF Executing
<1>3. CASE Settled(h, "idle")
  BY <1>1, <1>3 DEF Settled, IdleWorker, Executing
<1>4. CASE Goto(h, "requeue") \/ Goto(h, "ack_delayed")
  BY <1>1, <1>4 DEF Goto, Executing, Activation
<1> QED BY <1>2, <1>3, <1>4

\* Taking the lease: nobody held it.
LEMMA TakesLease ==
  ASSUME WorkerInv, LeaseHeld, NEW h \in Handlers, NEW m \in Message, Receive(h, m)
  PROVE  LeaseHeld'
<1> DEFINE w(pc) == [pc |-> pc, msg |-> m, live |-> TRUE, task |-> NoCopy]
<1>0. \A g \in Handlers : g # h => worker'[g] = worker[g]
  BY OthersStill DEF Work
<1>1. CASE AcquireLease(h)
  <2>1. \A g \in Handlers : ~ Executing(g)
    BY <1>1, StoreAssumption DEF LeaseHeld, AcquireLease
  <2>2. \A g \in Handlers : g # h => ~ Executing(g)'
    BY <1>0, <2>1 DEF Executing
  <2> QED BY <1>1, <2>2 DEF LeaseHeld, AcquireLease
<1>2. CASE UNCHANGED lease /\ worker' = [worker EXCEPT ![h] = w("delay")]
  <2>1. ~ Executing(h)' BY <1>2 DEF Executing, WorkerInv
  <2> QED BY <1>0, <1>2, <2>1, OutsiderStays
<1> QED BY <1>1, <1>2 DEF Receive

LEMMA LeaseNext ==
  ASSUME Inv, LeaseHeld, SlowHandlers = FALSE, [Next]_vars
  PROVE  LeaseHeld'
<1> USE DEF Inv
<1>1. ASSUME NEW h \in Handlers, Work(h) \/ ChannelGone(h) \/ WorkerFault(h) \/ RetryForsaken(h)
      PROVE  LeaseHeld'
  <2>0. \A g \in Handlers : g # h => worker'[g] = worker[g] BY <1>1, OthersStill
  <2>1. ASSUME NEW m \in Message, Receive(h, m) PROVE LeaseHeld' BY <2>1, TakesLease
  <2>2. ASSUME NEW m \in Message, ReceiveFails(h, m) PROVE LeaseHeld'
    <3>1. ~ Executing(h)' BY <2>2 DEF ReceiveFails, Executing, WorkerInv
    <3>2. UNCHANGED lease \/ lease \notin Handlers
      BY <2>2, StoreAssumption DEF ReceiveFails
    <3> QED BY <2>0, <3>1, <3>2, OutsiderStays
  <2>3. CASE \/ Load(h) \/ Mark(h) \/ AnnounceStarted(h) \/ GraphStep(h) \/ Outcome(h)
             \/ SaveOutcome(h) \/ AnnounceOutcome(h) \/ SaveFailure(h) \/ Republish(h)
             \/ AnnounceRetry(h) \/ SaveUnpublishedRetry(h) \/ AnnounceFailed(h) \/ Reject(h)
             \/ HandlerFault(h) \/ RepublishFails(h) \/ RetryForsaken(h)
             \/ \E e \in {"other", "fatal", "blocked"} : GraphRaises(h, e)
    <3>1. Executing(h)
      BY <2>3 DEF Load, Mark, AnnounceStarted, GraphStep, Outcome, SaveOutcome, AnnounceOutcome,
         SaveFailure, Republish, AnnounceRetry, SaveUnpublishedRetry, AnnounceFailed, Reject,
         HandlerFault, RepublishFails, RetryForsaken, GraphRaises, At, Executing
    <3>2. UNCHANGED lease
      BY <2>3 DEF Load, Mark, AnnounceStarted, GraphStep, Outcome, SaveOutcome, AnnounceOutcome,
         SaveFailure, Republish, AnnounceRetry, SaveUnpublishedRetry, AnnounceFailed, Reject,
         HandlerFault, RepublishFails, RetryForsaken, GraphRaises, storeVars
    <3> QED BY <2>0, <3>1, <3>2, HolderStays
  <2>4. CASE Delay(h) \/ DelayFails(h) \/ GiveBack(h) \/ Ack(h) \/ Escape(h)
    <3>1. UNCHANGED lease
      BY <2>4 DEF Delay, DelayFails, GiveBack, Ack, Escape, storeVars
    <3>2. Executing(h) \/ ~ Executing(h)'
      <4>1. CASE Delay(h) \/ DelayFails(h) \/ GiveBack(h)
        BY <4>1, FinishLeaves DEF Delay, DelayFails, GiveBack
      <4>2. CASE worker[h].pc \in {"skip", "ack", "ack_retry", "resave", "announce_retry",
                                   "announce_failed", "reject"}
        BY <4>2 DEF Executing
      <4>3. CASE Settled(h, "idle") \/ Finish(h) BY <4>3, FinishLeaves
      <4> QED BY <2>4, <4>1, <4>2, <4>3 DEF Ack, Escape
    <3> QED BY <2>0, <3>1, <3>2, HolderStays, OutsiderStays
  <2>5. CASE Release(h) \/ ReleaseFails(h)
    <3>1. ~ Executing(h)'
      BY <2>5, FinishLeaves DEF Release, ReleaseFails
    <3>2. UNCHANGED lease \/ lease = h
      BY <2>5 DEF Release, ReleaseFails, ReleaseLease
    <3> QED BY <2>0, <3>1, <3>2, OutsiderStays
  <2> QED BY <1>1, <2>1, <2>2, <2>3, <2>4, <2>5 DEF Work, ChannelGone, WorkerFault
<1>2. CASE UNCHANGED <<worker, lease>>
  BY <1>2 DEF LeaseHeld, Executing
<1>3. CASE LeaseMayExpire /\ LeaseExpires
  BY <1>3, StoreAssumption DEF LeaseMayExpire, LeaseExpires, LeaseHeld, Executing
<1>4. CASE ConnectionLost
  <2>1. \A h \in Handlers : Executing(h)' => Executing(h)
    BY <1>4 DEF ConnectionLost, Executing, At, IdleWorker, WorkerInv, Activation
  <2> QED BY <1>4, <2>1 DEF ConnectionLost, LeaseHeld, storeVars
<1>5. CASE WorkerCrash
  BY <1>5 DEF WorkerCrash, LeaseHeld, Executing, IdleWorker
<1>6. CASE ServiceNext /\ UNCHANGED worker
  <2>1. UNCHANGED lease
    BY <1>6 DEF ServiceNext, Serve, NewRequest, RecordDecision, Transition, CheckLease, SaveResumed,
       AnnounceRequest, PublishRequest, SaveUnpublished, AnnounceUnpublished, SubmitInput,
       SubmitApproval, Resume, PublishFails, RequestRaises, RequestForsaken, RequestAborts,
       ReadOffer, storeVars
  <2> QED BY <1>2, <1>6, <2>1
<1>7. CASE WorkerNext BY <1>1, <1>3, <1>4, <1>5, <1>7 DEF WorkerNext
<1>8. CASE \/ Environment /\ UNCHANGED worker
           \/ ExpireRecord /\ UNCHANGED worker
           \/ UNCHANGED vars
  BY <1>2, <1>8 DEF Environment, ExpireRecord, storeVars, vars
<1> QED BY <1>6, <1>7, <1>8 DEF Next

\* At most one handler executes the task, if handlers finish within the TTL
\* of their lease, for any number of handlers, messages, faults and crashes.
THEOREM Exclusion ==
  ASSUME SlowHandlers = FALSE
  PROVE  Spec => []OneExecution
<1>1. Init => LeaseHeld
  BY DEF Init, WorkerInit, IdleWorker, LeaseHeld, Executing
<1>2. Inv /\ LeaseHeld /\ [Next]_vars => LeaseHeld' BY LeaseNext
<1>3. LeaseHeld => OneExecution BY DEF LeaseHeld, OneExecution
<1> QED BY <1>1, <1>2, <1>3, Invariance, PTL DEF Spec

----------------------------------------------------------------------------
(* Rejected means rejected.  The word reaches the record through a graph,  *)
(* its checkpoint and a handler's copy; each of them says it only when the *)
(* ledger holds the merchant's rejection, which nothing overwrites.        *)

SaysRejected ==
  \/ task.status = "rejected"
  \/ checkpoint.at = "rejected"
  \/ \E h \in Handlers : worker[h].task.status = "rejected" \/ graph[h].at = "rejected"

RejectedIsReal == SaysRejected => change = "reject"

GraphMove(h) ==
  \/ \E m \in Message, p \in Products \cup {NoProduct} : Enter(h, m, p) \/ Pick(h, m)
  \/ Scope(h) \/ Plan(h) \/ AskApproval(h) \/ Decide(h) \/ Persist(h)
  \/ Return(h) \/ Raise(h) \/ UNCHANGED graphVars

\* A graph comes to stand at "rejected" only on the merchant's word.
LEMMA GraphRejects ==
  ASSUME GraphTypeOK, NEW h \in Handlers, GraphMove(h)
  PROVE  /\ \A g \in Handlers : g # h => graph'[g] = graph[g]
         /\ graph'[h].at = "rejected" =>
              graph[h].at = "rejected" \/ checkpoint.at = "rejected" \/ change = "reject"
         /\ checkpoint'.at = "rejected" =>
              checkpoint.at = "rejected" \/ graph[h].at = "rejected"
         /\ change = "reject" => change' = "reject"
<1>0. /\ graph \in [Handlers -> [at : Position, product : Products \cup {NoProduct}]]
      /\ checkpoint \in [at : Saved, product : Products \cup {NoProduct}]
  BY DEF GraphTypeOK
<1>1. ASSUME NEW m, NEW p, Enter(h, m, p)
      PROVE  /\ \A g \in Handlers : g # h => graph'[g] = graph[g]
             /\ graph'[h].at = "rejected" => checkpoint.at = "rejected"
             /\ UNCHANGED <<checkpoint, change>>
  BY <1>0, <1>1 DEF Enter
<1>2. ASSUME NEW m, Pick(h, m) \/ Scope(h) \/ AskApproval(h)
      PROVE  /\ \A g \in Handlers : g # h => graph'[g] = graph[g]
             /\ graph'[h].at # "rejected"
             /\ UNCHANGED <<checkpoint, change>>
  BY <1>0, <1>2 DEF Pick, Scope, AskApproval, MoveTo
<1>3. CASE Plan(h)
  BY <1>0, <1>3 DEF Plan, MoveTo
<1>4. CASE Decide(h)
  BY <1>0, <1>4 DEF Decide, MoveTo
<1>5. CASE Persist(h)
  BY <1>5 DEF Persist, Flushed
<1>6. CASE Return(h) \/ Raise(h)
  BY <1>0, <1>6 DEF Return, Raise, Leave, Flushed, Off
<1>7. CASE UNCHANGED graphVars
  BY <1>7 DEF graphVars
<1>8. CASE AskApproval(h) \/ Scope(h) BY <1>2, <1>8
<1> QED BY <1>1, <1>2, <1>3, <1>4, <1>5, <1>6, <1>7, <1>8 DEF GraphMove

\* A handler's step: the record and the copy say it only when they are told.
LEMMA HandlerRejects ==
  ASSUME Inv, NEW h \in Handlers, Work(h) \/ ChannelGone(h) \/ WorkerFault(h) \/ RetryForsaken(h)
  PROVE  /\ GraphMove(h)
         /\ task'.status = "rejected" =>
              task.status = "rejected" \/ worker[h].task.status = "rejected"
         /\ worker'[h].task.status = "rejected" =>
              worker[h].task.status = "rejected" \/ graph[h].at = "rejected"
<1> USE DEF Inv
<1>0. worker \in [Handlers -> Activation] /\ worker[h] \in Activation BY DEF WorkerInv
<1>1. ASSUME NEW pc, Goto(h, pc) \/ Settled(h, pc) \/ Finish(h) \/ UNCHANGED worker
      PROVE  worker'[h].task.status = "rejected" => worker[h].task.status = "rejected"
  <2>1. CASE Goto(h, pc)
    BY <1>0, <2>1 DEF Goto, Activation
  <2>2. CASE Settled(h, pc)
    <3>1. worker'[h] = [IdleWorker EXCEPT !.pc = pc] BY <1>0, <2>2 DEF Settled
    <3> QED BY <3>1 DEF IdleWorker, NoCopy, Absent
  <2>3. CASE Finish(h)
    <3>1. worker'[h] = IF worker[h].live THEN [worker[h] EXCEPT !.pc = "stranded", !.task = NoCopy]
                       ELSE IdleWorker
      BY <1>0, <2>3 DEF Finish
    <3>2. worker'[h].task = NoCopy BY <1>0, <3>1 DEF IdleWorker, Activation
    <3> QED BY <3>2 DEF NoCopy, Absent
  <2> QED BY <1>1, <2>1, <2>2, <2>3
<1>2. ASSUME NEW m \in Message, Receive(h, m) \/ ReceiveFails(h, m)
      PROVE  worker'[h].task.status # "rejected" /\ UNCHANGED task /\ UNCHANGED graphVars
  BY <1>0, <1>2 DEF Receive, ReceiveFails, NoCopy, Absent
<1>3. ASSUME NEW e \in {"other", "fatal", "blocked"}, HandleFailure(h, e)
      PROVE  worker'[h].task.status = "rejected" => worker[h].task.status = "rejected"
  <2> DEFINE r == [task EXCEPT !.status  = IF Retryable(h, e) THEN "retrying" ELSE "failed",
                               !.error   = IF e = "blocked" THEN "blocked" ELSE "other",
                               !.pending = NextMessage(h)]
             w == [worker[h] EXCEPT !.pc = "resave", !.task = r]
  <2>1. CASE Goto(h, "reject") BY <1>1, <2>1
  <2>2. CASE worker' = [worker EXCEPT ![h] = w]
    <3>1. worker'[h] = w BY <1>0, <2>2
    <3>2. w.task = r BY <1>0 DEF Activation
    <3>3. r.status # "rejected" BY DEF StoreInv, RecordOK, TaskRecord
    <3> QED BY <3>1, <3>2, <3>3
  <2> QED BY <1>3, <2>1, <2>2 DEF HandleFailure
<1>4. CASE \/ Delay(h) \/ DelayFails(h) \/ GiveBack(h) \/ AnnounceStarted(h) \/ AnnounceOutcome(h)
           \/ Ack(h) \/ Republish(h) \/ AnnounceRetry(h) \/ AnnounceFailed(h) \/ Reject(h)
           \/ Release(h) \/ ReleaseFails(h) \/ Escape(h)
  <2>1. UNCHANGED task /\ UNCHANGED graphVars
    BY <1>4 DEF Delay, DelayFails, GiveBack, AnnounceStarted, AnnounceOutcome, Ack, Republish,
       AnnounceRetry, AnnounceFailed, Reject, Release, ReleaseFails, Escape, storeVars
  <2>2. \E pc : Goto(h, pc) \/ Settled(h, pc) \/ Finish(h)
    BY <1>4 DEF Delay, DelayFails, GiveBack, AnnounceStarted, AnnounceOutcome, Ack, Republish,
       AnnounceRetry, AnnounceFailed, Reject, Release, ReleaseFails, Escape
  <2> QED BY <1>1, <2>1, <2>2 DEF GraphMove
<1>5. CASE \/ Mark(h) \/ SaveOutcome(h) \/ SaveFailure(h) \/ SaveUnpublishedRetry(h)
           \/ RetryForsaken(h)
  <2>1. task' \in {task, worker[h].task} /\ UNCHANGED graphVars
    BY <1>5 DEF Mark, SaveOutcome, SaveFailure, SaveUnpublishedRetry, RetryForsaken, SaveTask
  <2>2. \E pc : Goto(h, pc)
    BY <1>5 DEF Mark, SaveOutcome, SaveFailure, SaveUnpublishedRetry, RetryForsaken
  <2> QED BY <1>1, <2>1, <2>2 DEF GraphMove
<1>6. CASE Load(h)
  <2>1. UNCHANGED task /\ UNCHANGED graphVars BY <1>6 DEF Load, storeVars
  <2>2. CASE \E pc : Goto(h, pc) BY <1>1, <2>1, <2>2 DEF GraphMove
  <2>3. CASE worker' = [worker EXCEPT ![h].pc = "mark",
                                      ![h].task = [task EXCEPT !.status = "running"]]
    <3>1. worker'[h].task = [task EXCEPT !.status = "running"]
      BY <1>0, <2>3 DEF Activation
    <3>2. worker'[h].task.status # "rejected"
      BY <3>1 DEF StoreInv, RecordOK, TaskRecord
    <3> QED BY <2>1, <3>2 DEF GraphMove
  <2> QED BY <1>6, <2>2, <2>3 DEF Load
<1>7. CASE RepublishFails(h)
  <2>1. UNCHANGED task /\ UNCHANGED graphVars BY <1>7 DEF RepublishFails, storeVars
  <2>2. worker'[h].task = [worker[h].task EXCEPT !.status = "failed", !.error = "publish_failed"]
    BY <1>0, <1>7 DEF RepublishFails, Activation
  <2>3. worker'[h].task.status # "rejected" BY <1>0, <2>2 DEF Activation, TaskRecord
  <2> QED BY <2>1, <2>3 DEF GraphMove
<1>8. CASE HandlerFault(h)
  <2>1. UNCHANGED task /\ UNCHANGED graphVars BY <1>8 DEF HandlerFault
  <2> QED BY <1>3, <1>8, <2>1 DEF HandlerFault, GraphMove
<1>9. CASE GraphStep(h) \/ Outcome(h) \/ \E e \in {"other", "fatal", "blocked"} : GraphRaises(h, e)
  <2>1. UNCHANGED task BY <1>9 DEF GraphStep, Outcome, GraphRaises, storeVars
  <2>2. worker[h].msg \in Message /\ worker[h].task.product \in Products \cup {NoProduct}
    BY <1>0, <1>9, InHand DEF GraphStep, Outcome, GraphRaises, At, Activation, TaskRecord
  <2>3. GraphMove(h)
    BY <1>9, <2>2 DEF GraphStep, Outcome, GraphRaises, GraphMove
  <2>4. CASE GraphStep(h) BY <1>1, <2>1, <2>3, <2>4 DEF GraphStep
  <2>5. CASE Outcome(h)
    <3>1. worker'[h].task = [worker[h].task EXCEPT !.status = OutcomeStatus(graph[h].at),
                                                   !.error = "none", !.pending = NoMessage]
      BY <1>0, <2>5 DEF Outcome, Activation
    <3>2. worker'[h].task.status = OutcomeStatus(graph[h].at)
      BY <1>0, <3>1 DEF Activation, TaskRecord
    <3>3. graph[h].at \in Returned BY <2>5 DEF Outcome, Return
    <3> QED BY <2>1, <2>3, <3>2, <3>3 DEF OutcomeStatus, Returned
  <2>6. CASE \E e \in {"other", "fatal", "blocked"} : GraphRaises(h, e)
    BY <1>3, <2>1, <2>3, <2>6 DEF GraphRaises
  <2> QED BY <1>9, <2>4, <2>5, <2>6
<1>10. ASSUME NEW m \in Message, Receive(h, m) \/ ReceiveFails(h, m)
       PROVE  /\ GraphMove(h) /\ UNCHANGED task
              /\ worker'[h].task.status # "rejected"
  BY <1>2, <1>10 DEF GraphMove
<1> QED
  BY <1>4, <1>5, <1>6, <1>7, <1>8, <1>9, <1>10 DEF Work, ChannelGone, WorkerFault

LEMMA RejectionNext ==
  ASSUME Inv, RejectedIsReal, [Next]_vars
  PROVE  RejectedIsReal'
<1> USE DEF Inv
<1>1. ASSUME NEW h \in Handlers, Work(h) \/ ChannelGone(h) \/ WorkerFault(h) \/ RetryForsaken(h)
      PROVE  RejectedIsReal'
  <2>1. \A g \in Handlers : g # h => worker'[g] = worker[g] BY <1>1, OthersStill
  <2>2. /\ GraphMove(h)
        /\ task'.status = "rejected" =>
             task.status = "rejected" \/ worker[h].task.status = "rejected"
        /\ worker'[h].task.status = "rejected" =>
             worker[h].task.status = "rejected" \/ graph[h].at = "rejected"
    BY <1>1, HandlerRejects
  <2> QED BY <2>1, <2>2, GraphRejects DEF RejectedIsReal, SaysRejected
<1>2. CASE ServiceNext /\ UNCHANGED worker
  <2>1. UNCHANGED <<graph, checkpoint>>
    BY <1>2 DEF ServiceNext, Serve, NewRequest, RecordDecision, Transition, CheckLease, SaveResumed,
       AnnounceRequest, PublishRequest, SaveUnpublished, AnnounceUnpublished, SubmitInput,
       SubmitApproval, Resume, PublishFails, RequestRaises, RequestForsaken, RequestAborts,
       ReadOffer, graphVars
  <2>2. change = "reject" => change' = "reject"
    BY <1>2 DEF ServiceNext, Serve, NewRequest, RecordDecision, Transition, CheckLease, SaveResumed,
       AnnounceRequest, PublishRequest, SaveUnpublished, AnnounceUnpublished, SubmitInput,
       SubmitApproval, Resume, PublishFails, RequestRaises, RequestForsaken, RequestAborts,
       ReadOffer, graphVars
  <2>3. UNCHANGED task \/ \E c \in Clients : task' = request[c].task
    BY <1>2 DEF ServiceNext, Serve, NewRequest, RecordDecision, Transition, CheckLease, SaveResumed,
       AnnounceRequest, PublishRequest, SaveUnpublished, AnnounceUnpublished, SubmitInput,
       SubmitApproval, Resume, PublishFails, RequestRaises, RequestForsaken, RequestAborts,
       ReadOffer, storeVars, SaveTask,
       TransitionTask
  <2>4. task'.status = "rejected" => task.status = "rejected"
    BY <2>3, Yours DEF RequestOK
  <2> QED BY <1>2, <2>1, <2>2, <2>4 DEF RejectedIsReal, SaysRejected
<1>3. CASE ConnectionLost
  <2>1. \A h \in Handlers : worker'[h].task.status = "rejected" => worker[h].task.status = "rejected"
    BY <1>3 DEF ConnectionLost, At, IdleWorker, NoCopy, Absent, WorkerInv, Activation
  <2> QED BY <1>3, <2>1 DEF ConnectionLost, RejectedIsReal, SaysRejected, storeVars, graphVars
<1>4. CASE WorkerCrash
  BY <1>4 DEF WorkerCrash, GraphCrash, RejectedIsReal, SaysRejected, IdleWorker, NoCopy, Absent, Off
<1>5. CASE LeaseExpires \/ UNCHANGED vars
  BY <1>5 DEF LeaseExpires, vars, graphVars, RejectedIsReal, SaysRejected
<1>6. CASE WorkerNext BY <1>1, <1>3, <1>4, <1>5, <1>6 DEF WorkerNext
<1>7. CASE Environment /\ UNCHANGED worker
  BY <1>7 DEF Environment, LateCommit, RejectedIsReal, SaysRejected, storeVars, graphVars
<1>8. CASE ExpireRecord /\ UNCHANGED <<worker, graphVars>>
  BY <1>8 DEF ExpireRecord, Absent, graphVars, RejectedIsReal, SaysRejected
<1> QED BY <1>2, <1>5, <1>6, <1>7, <1>8 DEF Next

\* A task reported rejected was rejected by the merchant and never applied,
\* even when leases expire under running handlers and two runs overlap.
THEOREM Rejected == Spec => []RejectionTrue
<1>1. Init => RejectedIsReal
  BY DEF Init, StoreInit, NewTask, GraphInit, Off, WorkerInit, IdleWorker, NoCopy, Absent,
     RejectedIsReal, SaysRejected
<1>2. Inv /\ RejectedIsReal /\ [Next]_vars => RejectedIsReal' BY RejectionNext
<1>3. RejectedIsReal => RejectionTrue BY DEF RejectedIsReal, SaysRejected, RejectionTrue
<1> QED BY <1>1, <1>2, <1>3, Invariance, PTL DEF Spec

=============================================================================
