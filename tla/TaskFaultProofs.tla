-------------------------- MODULE TaskFaultProofs -------------------------
(***************************************************************************)
(* What holds of a task as long as little goes wrong.  While no process    *)
(* dies and no await raises between a record that promises a message and   *)
(* its publish, no task is forgotten, whatever else raises and whatever    *)
(* leases do.  While none raises and leases outlive their handlers, the    *)
(* stream tells of the status and the record names the product diagnosed.  *)
(***************************************************************************)
EXTENDS TaskDecisionProofs

----------------------------------------------------------------------------
(* What an activation is after a move.                                     *)

LEMMA GotoIs ==
  ASSUME WorkerInv, NEW h \in Handlers, NEW pc, Goto(h, pc)
  PROVE  /\ worker'[h].pc = pc /\ worker'[h].msg = worker[h].msg
         /\ worker'[h].live = worker[h].live /\ worker'[h].task = worker[h].task
BY DEF Goto, WorkerInv, Activation

LEMMA SettledIs ==
  ASSUME WorkerInv, NEW h \in Handlers, NEW pc, Settled(h, pc)
  PROVE  /\ worker'[h].pc = pc /\ worker'[h].msg = NoMessage
         /\ worker'[h].live = FALSE /\ worker'[h].task = Absent
BY DEF Settled, WorkerInv, Activation, IdleWorker, NoCopy

LEMMA FinishIs ==
  ASSUME WorkerInv, NEW h \in Handlers, Finish(h)
  PROVE  /\ worker'[h].live = worker[h].live /\ worker'[h].task = Absent
         /\ worker[h].live => worker'[h].pc = "stranded" /\ worker'[h].msg = worker[h].msg
         /\ ~ worker[h].live => worker'[h].pc = "idle" /\ worker'[h].msg = NoMessage
<1>1. worker'[h] = IF worker[h].live THEN [worker[h] EXCEPT !.pc = "stranded", !.task = NoCopy]
                   ELSE IdleWorker
  BY DEF Finish, WorkerInv
<1>2. worker[h] \in Activation BY DEF WorkerInv
<1>3. CASE worker[h].live
  <2>1. worker'[h] = [worker[h] EXCEPT !.pc = "stranded", !.task = NoCopy] BY <1>1, <1>3
  <2> QED BY <1>2, <1>3, <2>1 DEF Activation, NoCopy
<1>4. CASE ~ worker[h].live
  <2>1. worker'[h] = IdleWorker BY <1>1, <1>4
  <2>2. worker[h].live = FALSE BY <1>2, <1>4 DEF Activation
  <2>3. /\ worker'[h].live = FALSE /\ worker'[h].task = Absent
        /\ worker'[h].pc = "idle" /\ worker'[h].msg = NoMessage
    BY <2>1 DEF IdleWorker, NoCopy
  <2> QED BY <1>4, <2>2, <2>3
<1> QED BY <1>3, <1>4

\* _handle_failure leaves the message in hand.
LEMMA FailureIs ==
  ASSUME WorkerInv, NEW h \in Handlers, task \in TaskRecord, NEW e, HandleFailure(h, e)
  PROVE  /\ worker'[h].msg = worker[h].msg /\ worker'[h].live = worker[h].live
         /\ \/ worker'[h].pc = "reject" /\ task.status = "absent"
            \/ worker'[h].pc = "resave" /\ worker'[h].task.status \in {"retrying", "failed"}
<1>1. CASE task.status = "absent" /\ Goto(h, "reject")
  BY <1>1, GotoIs
<1> DEFINE r == [task EXCEPT !.status  = IF Retryable(h, e) THEN "retrying" ELSE "failed",
                             !.error   = IF e = "blocked" THEN "blocked" ELSE "other",
                             !.pending = NextMessage(h)]
<1>2. CASE worker' = [worker EXCEPT ![h].pc = "resave", ![h].task = r]
  <2>1. r.status \in {"retrying", "failed"} BY DEF TaskRecord
  <2> HIDE DEF r
  <2>2. /\ worker'[h].pc = "resave" /\ worker'[h].task = r
        /\ worker'[h].msg = worker[h].msg /\ worker'[h].live = worker[h].live
    BY <1>2 DEF WorkerInv, Activation
  <2> QED BY <2>1, <2>2
<1> QED BY <1>1, <1>2 DEF HandleFailure

----------------------------------------------------------------------------
(* A task is not forgotten.  The message the record names is queued, or in *)
(* the hands of a handler that will settle or repeat it, or of a request   *)
(* that is about to publish it.                                            *)

Keeping == {"delay", "requeue", "load", "mark", "resave", "release", "stranded"}

QueuedIn(work, delay, m) == m \in Message /\ (work[m] > 0 \/ delay[m] > 0)

HandCarries(w, m) ==
  \/ w.pc \in Keeping /\ w.msg = m
  \/ w.pc = "republish" /\ w.task.pending = m
  \/ w.pc = "unpublished"

AskCarries(q, m) ==
  \/ q.pc \in {"event", "publish"} /\ q.task.pending = m
  \/ q.pc = "unpublished"

\* While no process dies a channel stays open until its message is settled.
Connected(w) == w.msg # NoMessage => w.live

\* What the next save will make of the status.
Writes(w) ==
  /\ w.pc = "mark" => w.task.status = "running"
  /\ w.pc = "resave" => w.task.status \in {"retrying", "failed"}
  /\ w.pc = "unpublished" => w.task.status = "failed"

Reports(q) == q.pc = "unpublished" => q.task.status = "failed"

Waiting == {"queued", "retrying"}

Carrying ==
  \/ QueuedIn(ready, delayed, task.pending)
  \/ \E h \in Handlers : HandCarries(worker[h], task.pending)
  \/ \E c \in Clients : AskCarries(request[c], task.pending)

CarryInv ==
  spent.crashes = 0 =>
    /\ \A h \in Handlers : Connected(worker[h]) /\ Writes(worker[h])
    /\ \A c \in Clients : Reports(request[c])
    /\ task.status \in Waiting /\ ~ spent.forsaken => Carrying

----------------------------------------------------------------------------
(* What the queues go on holding.                                          *)

LEMMA StillQueued ==
  ASSUME QueueInv, NEW m \in Message, NEW p, QueuedIn(ready, delayed, p),
         \/ Publish(m) \/ PublishRetry(m) \/ Requeue(m) \/ DeadLetter(m)
         \/ UNCHANGED queueVars \/ (Deliver(m) /\ p # m)
  PROVE  QueuedIn(ready', delayed', p)
BY DEF QueuedIn, Publish, PublishRetry, Requeue, DeadLetter, Deliver, Put, QueueInv, QueueTypeOK,
   queueVars

LEMMA NowQueued ==
  ASSUME QueueInv, NEW m \in Message, Publish(m) \/ PublishRetry(m) \/ Requeue(m)
  PROVE  QueuedIn(ready', delayed', m)
BY DEF QueuedIn, Publish, PublishRetry, Requeue, Put, QueueInv, QueueTypeOK

LEMMA ReturnedQueued ==
  ASSUME QueueInv, NEW p, QueuedIn(ready, delayed, p), DelayElapsed
  PROVE  QueuedIn(ready', delayed', p)
BY DEF QueuedIn, DelayElapsed, Put, QueueInv, QueueTypeOK

----------------------------------------------------------------------------
(* A handler hands on what it carries.                                     *)

HandsOn(h) ==
  \/ task'.status \notin Waiting
  \/ HandCarries(worker'[h], task'.pending)
  \/ /\ task' = task
     /\ QueuedIn(ready, delayed, task.pending) \/ HandCarries(worker[h], task.pending) =>
          QueuedIn(ready', delayed', task.pending) \/ HandCarries(worker'[h], task.pending)

\* A handler that neither queues, carries nor saves anything.
LEMMA EmptyHanded ==
  ASSUME QueueInv, NEW h \in Handlers, ~ HandCarries(worker[h], task.pending),
         UNCHANGED <<task, queueVars>>
  PROVE  HandsOn(h)
BY DEF HandsOn, QueuedIn, queueVars

\* One that keeps its message in hand, and puts none but that into a queue.
LEMMA StillInHand ==
  ASSUME Inv, NEW h \in Handlers, worker[h].pc \in Keeping, worker'[h].pc \in Keeping,
         worker'[h].msg = worker[h].msg, task' = task,
         UNCHANGED queueVars \/ (PublishRetry(worker[h].msg) /\ worker[h].msg \in Message)
  PROVE  HandsOn(h)
<1>1. HandCarries(worker[h], task.pending) => HandCarries(worker'[h], task.pending)
  BY DEF HandCarries, Keeping
<1>2. QueuedIn(ready, delayed, task.pending) => QueuedIn(ready', delayed', task.pending)
  <2>1. CASE UNCHANGED queueVars BY <2>1 DEF QueuedIn, queueVars
  <2>2. CASE PublishRetry(worker[h].msg) /\ worker[h].msg \in Message
    BY <2>2, StillQueued DEF Inv
  <2> QED BY <2>1, <2>2
<1> QED BY <1>1, <1>2 DEF HandsOn

\* One that queues what it carries.
LEMMA Queues ==
  ASSUME Inv, NEW h \in Handlers, NEW m \in Message, task' = task,
         HandCarries(worker[h], task.pending) => task.pending = m,
         Publish(m) \/ PublishRetry(m) \/ Requeue(m)
  PROVE  HandsOn(h)
<1>1. QueuedIn(ready, delayed, task.pending) => QueuedIn(ready', delayed', task.pending)
  BY StillQueued DEF Inv
<1>2. QueuedIn(ready', delayed', m) BY NowQueued DEF Inv
<1> QED BY <1>1, <1>2 DEF HandsOn

\* A message is never settled on a closed channel.
LEMMA ChannelOpen ==
  ASSUME Inv, NEW h \in Handlers, Connected(worker[h])
  PROVE  /\ worker[h].pc \notin {"idle", "release"} => worker[h].live
         /\ ~ ChannelGone(h)
<1>1. worker[h].pc \notin {"idle", "release"} => worker[h].live
  BY InHand, NoMessageAssumption DEF Inv, Connected
<1> QED BY <1>1 DEF ChannelGone

\* What a release, or an escape from the delay path, leaves in hand.
LEMMA FinishCarries ==
  ASSUME Inv, NEW h \in Handlers, Connected(worker[h]), Finish(h),
         UNCHANGED <<task, queueVars>>,
         worker[h].pc \in Keeping \/ ~ HandCarries(worker[h], task.pending)
  PROVE  /\ Connected(worker'[h]) /\ Writes(worker'[h])
         /\ HandsOn(h)
<1>0. WorkerInv BY DEF Inv
<1>1. /\ worker'[h].live = worker[h].live
      /\ worker[h].live => worker'[h].pc = "stranded" /\ worker'[h].msg = worker[h].msg
      /\ ~ worker[h].live => worker'[h].pc = "idle" /\ worker'[h].msg = NoMessage
  BY <1>0, FinishIs
<1>2. Connected(worker'[h]) /\ Writes(worker'[h])
  <2>1. worker'[h].pc \in {"stranded", "idle"} BY <1>1
  <2>2. worker'[h].msg # NoMessage => worker'[h].live BY <1>1
  <2> QED BY <2>1, <2>2 DEF Connected, Writes
<1>3. ASSUME task.status \in Waiting PROVE HandsOn(h)
  <2>1. CASE ~ HandCarries(worker[h], task.pending) BY <2>1, EmptyHanded DEF Inv
  <2>2. CASE HandCarries(worker[h], task.pending) /\ worker[h].pc \in Keeping
    <3>1. worker[h].msg = task.pending BY <2>2 DEF HandCarries, Keeping
    <3>2. task.pending # NoMessage
      BY <1>3 DEF Inv, StoreInv, RecordOK, Waiting, Awaiting, Final
    <3>3. worker[h].live BY <3>1, <3>2 DEF Connected
    <3>4. worker'[h].pc \in Keeping /\ worker'[h].msg = worker[h].msg
      BY <1>1, <3>3 DEF Keeping
    <3> QED BY <2>2, <3>4, StillInHand
  <2> QED BY <2>1, <2>2
<1>4. task.status \notin Waiting => HandsOn(h) BY DEF HandsOn
<1> QED BY <1>2, <1>3, <1>4

LEMMA WorkCarries ==
  ASSUME Inv, NEW h \in Handlers, Connected(worker[h]), Writes(worker[h]), Work(h)
  PROVE  /\ Connected(worker'[h]) /\ Writes(worker'[h])
         /\ HandsOn(h)
<1>0. /\ WorkerInv /\ QueueInv /\ worker \in [Handlers -> Activation]
      /\ worker[h] \in Activation /\ ActivationOK(worker[h])
  BY Mine DEF Inv, WorkerInv
<1>1. worker[h].pc \notin {"idle", "release"} => worker[h].live /\ worker[h].msg \in Message
  BY <1>0, ChannelOpen, InHand
<1>2. ASSUME NEW pc, Goto(h, pc),
             pc \notin {"mark", "resave", "republish", "unpublished"}
      PROVE  Connected(worker'[h]) /\ Writes(worker'[h])
  <2>1. worker'[h].pc = pc /\ worker'[h].msg = worker[h].msg /\ worker'[h].live = worker[h].live
    BY <1>0, <1>2, GotoIs
  <2> QED BY <1>2, <2>1 DEF Connected, Writes
<1>3. ASSUME NEW pc \in {"idle", "release"}, Settled(h, pc)
      PROVE  Connected(worker'[h]) /\ Writes(worker'[h])
  <2>1. worker'[h].pc = pc /\ worker'[h].msg = NoMessage BY <1>0, <1>3, SettledIs
  <2> QED BY <2>1 DEF Connected, Writes
<1>4. ASSUME NEW m \in Message, Receive(h, m)
      PROVE  Connected(worker'[h]) /\ Writes(worker'[h]) /\ HandsOn(h)
  <2>1. /\ worker'[h].pc \in {"load", "delay"} /\ worker'[h].msg = m /\ worker'[h].live = TRUE
        /\ Deliver(m) /\ task' = task /\ worker[h].pc = "idle"
    BY <1>0, <1>4 DEF Receive, At
  <2>2. Connected(worker'[h]) /\ Writes(worker'[h]) BY <2>1 DEF Connected, Writes
  <2>3. HandCarries(worker'[h], m) BY <2>1 DEF HandCarries, Keeping
  <2>4. ~ HandCarries(worker[h], task.pending) BY <2>1 DEF HandCarries, Keeping
  <2>5. QueuedIn(ready, delayed, task.pending) /\ task.pending # m =>
          QueuedIn(ready', delayed', task.pending)
    BY <1>0, <2>1, StillQueued
  <2> QED BY <2>1, <2>2, <2>3, <2>4, <2>5 DEF HandsOn
<1>5. CASE Delay(h) \/ GiveBack(h)
  <2>1. /\ worker[h].pc \in {"delay", "requeue"} /\ task' = task
        /\ PublishRetry(worker[h].msg) \/ Requeue(worker[h].msg)
        /\ Goto(h, "ack_delayed") \/ Settled(h, "idle")
    BY <1>5 DEF Delay, GiveBack, At, storeVars
  <2>2. HandCarries(worker[h], task.pending) => task.pending = worker[h].msg
    BY <2>1 DEF HandCarries, Keeping
  <2> QED BY <1>1, <1>2, <1>3, <2>1, <2>2, Queues
<1>6. CASE Load(h)
  <2>1. worker[h].pc = "load" /\ UNCHANGED <<task, queueVars>>
    BY <1>6 DEF Load, At, storeVars
  <2>2. CASE task.status = "absent" /\ Goto(h, "reject")
    BY <1>2, <2>1, <2>2 DEF HandsOn, Waiting
  <2>3. CASE ~ Runnable(task, worker[h].msg) /\ Goto(h, "skip")
    <3>1. task.status \in Waiting => ~ HandCarries(worker[h], task.pending)
      BY <2>1, <2>3 DEF Waiting, Runnable, MatchesPending, Executable, HandCarries, Keeping
    <3>2. task.status \notin Waiting => HandsOn(h) BY <2>1 DEF HandsOn
    <3> QED BY <1>0, <1>2, <2>1, <2>3, <3>1, <3>2, EmptyHanded
  <2>4. CASE worker' = [worker EXCEPT ![h].pc = "mark",
                                      ![h].task = [task EXCEPT !.status = "running"]]
    <3>1. /\ worker'[h].pc = "mark" /\ worker'[h].msg = worker[h].msg
          /\ worker'[h].live = worker[h].live
          /\ worker'[h].task = [task EXCEPT !.status = "running"]
      BY <1>0, <2>4 DEF Activation
    <3>2. worker'[h].task.status = "running"
      BY <3>1 DEF Inv, StoreInv, RecordOK, TaskRecord
    <3>3. Connected(worker'[h]) /\ Writes(worker'[h]) BY <3>1, <3>2 DEF Connected, Writes
    <3>4. HandsOn(h) BY <2>1, <3>1, StillInHand DEF Keeping
    <3> QED BY <3>3, <3>4
  <2> QED BY <1>6, <2>2, <2>3, <2>4 DEF Load
<1>7. CASE Mark(h) \/ SaveOutcome(h) \/ SaveUnpublishedRetry(h)
  <2>1. task' = worker[h].task
    BY <1>7 DEF Mark, SaveOutcome, SaveUnpublishedRetry, SaveTask
  <2>2. worker[h].task.status \notin Waiting
    BY <1>0, <1>7 DEF Mark, SaveOutcome, SaveUnpublishedRetry, At, Writes, ActivationOK, Waiting,
       Awaiting, Final
  <2>3. Goto(h, "started") \/ Goto(h, "announce") \/ Goto(h, "announce_failed")
    BY <1>7 DEF Mark, SaveOutcome, SaveUnpublishedRetry
  <2> QED BY <1>2, <2>1, <2>2, <2>3 DEF HandsOn
<1>8. CASE \/ AnnounceStarted(h) \/ AnnounceOutcome(h) \/ Ack(h) \/ AnnounceRetry(h)
           \/ AnnounceFailed(h)
  <2>1. /\ worker[h].pc \in {"started", "announce", "skip", "ack", "ack_retry", "ack_delayed",
                             "announce_retry", "announce_failed"}
        /\ UNCHANGED <<task, queueVars>>
        /\ \/ Settled(h, "release") \/ Settled(h, "idle") \/ Goto(h, "graph") \/ Goto(h, "ack")
           \/ Goto(h, "ack_retry") \/ Goto(h, "reject")
    BY <1>8 DEF AnnounceStarted, AnnounceOutcome, Ack, AnnounceRetry, AnnounceFailed, At, storeVars
  <2>2. ~ HandCarries(worker[h], task.pending) BY <2>1 DEF HandCarries, Keeping
  <2>3. HandsOn(h) BY <1>0, <2>1, <2>2, EmptyHanded
  <2> QED BY <1>2, <1>3, <2>1, <2>3
<1>9. CASE GraphStep(h) \/ Outcome(h)
  <2>1. worker[h].pc = "graph" /\ UNCHANGED <<task, queueVars>>
    BY <1>9 DEF GraphStep, Outcome, At, storeVars
  <2>2. ~ HandCarries(worker[h], task.pending) BY <2>1 DEF HandCarries, Keeping
  <2>3. HandsOn(h) BY <1>0, <2>1, <2>2, EmptyHanded
  <2>4. /\ worker'[h].pc \in {"graph", "save"} /\ worker'[h].msg = worker[h].msg
        /\ worker'[h].live = worker[h].live
    BY <1>0, <1>9, <2>1 DEF GraphStep, Outcome, Activation
  <2> QED BY <2>3, <2>4 DEF Connected, Writes
<1>10. CASE SaveFailure(h)
  <2>1. worker[h].pc = "resave" /\ task' = worker[h].task
    BY <1>10 DEF SaveFailure, At, SaveTask
  <2>2. worker[h].task.status \in {"retrying", "failed"} BY <2>1 DEF Writes
  <2>3. CASE worker[h].task.status = "retrying"
    <3>1. Goto(h, "republish") BY <1>10, <2>3 DEF SaveFailure
    <3>2. /\ worker'[h].pc = "republish" /\ worker'[h].msg = worker[h].msg
          /\ worker'[h].live = worker[h].live /\ worker'[h].task = worker[h].task
      BY <1>0, <3>1, GotoIs
    <3>3. Connected(worker'[h]) /\ Writes(worker'[h]) BY <2>2, <3>2 DEF Connected, Writes
    <3>4. HandCarries(worker'[h], task'.pending) BY <2>1, <3>2 DEF HandCarries
    <3> QED BY <3>3, <3>4 DEF HandsOn
  <2>4. CASE worker[h].task.status # "retrying"
    <3>1. Goto(h, "announce_failed") BY <1>10, <2>4 DEF SaveFailure
    <3> QED BY <1>2, <2>1, <2>2, <2>4, <3>1 DEF HandsOn, Waiting
  <2> QED BY <2>3, <2>4
<1>11. CASE Republish(h)
  <2>1. /\ worker[h].pc = "republish" /\ task' = task
        /\ PublishRetry(worker[h].task.pending) /\ Goto(h, "announce_retry")
    BY <1>11 DEF Republish, At, storeVars
  <2>2. worker[h].task.pending \in Message
    BY <1>0, <2>1 DEF ActivationOK, Sendable
  <2>3. HandCarries(worker[h], task.pending) => task.pending = worker[h].task.pending
    BY <2>1 DEF HandCarries, Keeping
  <2> QED BY <1>2, <2>1, <2>2, <2>3, Queues
<1>12. CASE Reject(h)
  <2>1. /\ worker[h].pc = "reject" /\ task' = task /\ DeadLetter(worker[h].msg)
        /\ Settled(h, "release")
    BY <1>12 DEF Reject, At, storeVars
  <2>2. ~ HandCarries(worker[h], task.pending) BY <2>1 DEF HandCarries, Keeping
  <2>3. QueuedIn(ready, delayed, task.pending) => QueuedIn(ready', delayed', task.pending)
    BY <2>1 DEF QueuedIn, DeadLetter
  <2>4. HandsOn(h) BY <2>1, <2>2, <2>3 DEF HandsOn
  <2> QED BY <1>3, <2>1, <2>4
<1>13. CASE Release(h)
  <2>1. worker[h].pc \in Keeping /\ Finish(h) /\ UNCHANGED <<task, queueVars>>
    BY <1>13 DEF Release, At, Keeping
  <2> QED BY <2>1, FinishCarries
<1> QED
  BY <1>4, <1>5, <1>6, <1>7, <1>8, <1>9, <1>10, <1>11, <1>12, <1>13 DEF Work

\* Nor does a fault drop it, but for the two that RetryForsaken stands for.
LEMMA FaultCarries ==
  ASSUME Inv, NEW h \in Handlers, Connected(worker[h]), Writes(worker[h]),
         WorkerFault(h)
  PROVE  /\ Connected(worker'[h]) /\ Writes(worker'[h])
         /\ HandsOn(h)
<1>0. /\ WorkerInv /\ QueueInv /\ worker \in [Handlers -> Activation]
      /\ worker[h] \in Activation /\ ActivationOK(worker[h]) /\ task \in TaskRecord
  BY Mine DEF Inv, WorkerInv, StoreInv, RecordOK
<1>1. worker[h].pc \notin {"idle", "release"} => worker[h].live /\ worker[h].msg \in Message
  BY <1>0, ChannelOpen, InHand
<1>3. ASSUME NEW m \in Message, ReceiveFails(h, m)
      PROVE  Connected(worker'[h]) /\ Writes(worker'[h]) /\ HandsOn(h)
  <2>1. /\ worker'[h].pc = "stranded" /\ worker'[h].msg = m /\ worker'[h].live = TRUE
        /\ Deliver(m) /\ task' = task /\ worker[h].pc = "idle"
    BY <1>0, <1>3 DEF ReceiveFails, At
  <2>2. Connected(worker'[h]) /\ Writes(worker'[h]) BY <2>1 DEF Connected, Writes
  <2>3. HandCarries(worker'[h], m) BY <2>1 DEF HandCarries, Keeping
  <2>4. ~ HandCarries(worker[h], task.pending) BY <2>1 DEF HandCarries, Keeping
  <2>5. QueuedIn(ready, delayed, task.pending) /\ task.pending # m =>
          QueuedIn(ready', delayed', task.pending)
    BY <1>0, <2>1, StillQueued
  <2> QED BY <2>1, <2>2, <2>3, <2>4, <2>5 DEF HandsOn
<1>4. CASE DelayFails(h)
  <2>1. /\ worker[h].pc = "delay" /\ task' = task /\ Goto(h, "requeue")
        /\ PublishRetry(worker[h].msg) \/ UNCHANGED queueVars
    BY <1>4 DEF DelayFails, PublishRetryRaises, At, storeVars
  <2>2. /\ worker'[h].pc = "requeue" /\ worker'[h].msg = worker[h].msg
        /\ worker'[h].live = worker[h].live
    BY <1>0, <2>1, GotoIs
  <2>3. Connected(worker'[h]) /\ Writes(worker'[h]) BY <2>2 DEF Connected, Writes
  <2>4. HandsOn(h) BY <1>1, <2>1, <2>2, StillInHand DEF Keeping
  <2> QED BY <2>3, <2>4
<1>5. CASE HandlerFault(h) \/ \E e \in {"other", "fatal", "blocked"} : GraphRaises(h, e)
  <2>1. /\ UNCHANGED <<task, queueVars>> /\ worker[h].pc \notin {"idle", "release"}
        /\ worker[h].pc \notin {"resave", "republish", "unpublished"}
        /\ \E e : HandleFailure(h, e)
    BY <1>5 DEF HandlerFault, GraphRaises, At, storeVars
  <2>2. PICK e : HandleFailure(h, e) BY <2>1
  <2>3. /\ worker'[h].msg = worker[h].msg /\ worker'[h].live = worker[h].live
        /\ \/ worker'[h].pc = "reject" /\ task.status = "absent"
           \/ worker'[h].pc = "resave" /\ worker'[h].task.status \in {"retrying", "failed"}
    BY <1>0, <2>2, FailureIs
  <2>4. Connected(worker'[h]) /\ Writes(worker'[h])
    BY <2>3 DEF Connected, Writes
  <2>5. ASSUME task.status \in Waiting PROVE HandsOn(h)
    <3>1. worker'[h].pc = "resave" BY <2>3, <2>5 DEF Waiting
    <3>2. CASE worker[h].pc \in Keeping BY <2>1, <2>3, <3>1, <3>2, StillInHand DEF Keeping
    <3>3. CASE worker[h].pc \notin Keeping
      <4>1. ~ HandCarries(worker[h], task.pending) BY <2>1, <3>3 DEF HandCarries
      <4> QED BY <1>0, <2>1, <4>1, EmptyHanded
    <3> QED BY <3>2, <3>3
  <2>6. task.status \notin Waiting => HandsOn(h) BY <2>1 DEF HandsOn
  <2> QED BY <2>4, <2>5, <2>6
<1>6. CASE RepublishFails(h)
  <2>1. worker[h].pc = "republish" /\ task' = task BY <1>6 DEF RepublishFails, At, storeVars
  <2>2. /\ worker'[h].pc = "unpublished" /\ worker'[h].msg = worker[h].msg
        /\ worker'[h].live = worker[h].live
        /\ worker'[h].task = [worker[h].task EXCEPT !.status = "failed", !.error = "publish_failed"]
    BY <1>0, <1>6 DEF RepublishFails, Activation
  <2>3. worker'[h].task.status = "failed" BY <1>0, <2>2 DEF Activation, TaskRecord
  <2>4. Connected(worker'[h]) /\ Writes(worker'[h])
    BY <2>1, <2>2, <2>3 DEF Connected, Writes
  <2>5. HandsOn(h) BY <2>2 DEF HandsOn, HandCarries
  <2> QED BY <2>4, <2>5
<1>7. CASE Escape(h) /\ Goto(h, "release")
  <2>1. /\ worker[h].pc \in {"resave", "announce_retry", "ack_retry", "announce_failed",
                             "reject", "requeue", "ack_delayed"}
        /\ UNCHANGED <<task, queueVars>>
    BY <1>7 DEF Escape, storeVars
  <2>2. /\ worker'[h].pc = "release" /\ worker'[h].msg = worker[h].msg
        /\ worker'[h].live = worker[h].live
    BY <1>0, <1>7, GotoIs
  <2>3. Connected(worker'[h]) /\ Writes(worker'[h]) BY <2>2 DEF Connected, Writes
  <2>4. CASE worker[h].pc \in Keeping
    <3>1. HandsOn(h) BY <2>1, <2>2, <2>4, StillInHand DEF Keeping
    <3> QED BY <2>3, <3>1
  <2>5. CASE worker[h].pc \notin Keeping
    <3>1. ~ HandCarries(worker[h], task.pending) BY <2>1, <2>5 DEF HandCarries
    <3>2. HandsOn(h) BY <1>0, <2>1, <3>1, EmptyHanded
    <3> QED BY <2>3, <3>2
  <2> QED BY <2>4, <2>5
<1>8. CASE (Escape(h) \/ ReleaseFails(h)) /\ Finish(h)
  <2>1. CASE worker[h].pc \in {"requeue", "ack_delayed", "release"}
    <3>1. UNCHANGED <<task, queueVars>> BY <1>8 DEF Escape, ReleaseFails, storeVars
    <3>2. worker[h].pc \in Keeping \/ ~ HandCarries(worker[h], task.pending)
      BY <2>1 DEF Keeping, HandCarries
    <3> QED BY <1>8, <3>1, <3>2, FinishCarries
  <2>2. CASE worker[h].pc \notin {"requeue", "ack_delayed", "release"}
    <3>1. Escape(h) /\ Goto(h, "release") BY <1>8, <2>2 DEF Escape, ReleaseFails, At
    <3> QED BY <1>7, <3>1
  <2> QED BY <2>1, <2>2
<1> QED
  <2>1. Escape(h) => Goto(h, "release") \/ Finish(h) BY DEF Escape
  <2>2. ReleaseFails(h) => Finish(h) BY DEF ReleaseFails
  <2> QED BY <1>3, <1>4, <1>5, <1>6, <1>7, <1>8, <2>1, <2>2 DEF WorkerFault

\* A retry that is forsaken leaves its handler as sound as any other.
LEMMA ForsakenLeaves ==
  ASSUME Inv, NEW h \in Handlers, Connected(worker[h]), RetryForsaken(h)
  PROVE  Connected(worker'[h]) /\ Writes(worker'[h])
<1>1. WorkerInv /\ Goto(h, "release") BY DEF Inv, RetryForsaken
<1>2. /\ worker'[h].pc = "release" /\ worker'[h].msg = worker[h].msg
      /\ worker'[h].live = worker[h].live
  BY <1>1, GotoIs
<1> QED BY <1>2 DEF Connected, Writes

\* A request carries what it is about to publish.
LEMMA RequestCarries ==
  ASSUME Inv, NEW d \in Clients, Reports(request[d]),
         Serve(d) \/ NewRequest(d) \/ PublishFails(d) \/ RequestRaises(d)
  PROVE  /\ \A c \in Clients : c # d => request'[c] = request[c]
         /\ Reports(request'[d])
         /\ \/ task'.status \notin Waiting
            \/ AskCarries(request'[d], task'.pending)
            \/ /\ task' = task
               /\ QueuedIn(ready, delayed, task.pending) \/ AskCarries(request[d], task.pending) =>
                    QueuedIn(ready', delayed', task.pending) \/ AskCarries(request'[d], task.pending)
<1> DEFINE Passes ==
      \/ task'.status \notin Waiting
      \/ AskCarries(request'[d], task'.pending)
      \/ /\ task' = task
         /\ QueuedIn(ready, delayed, task.pending) \/ AskCarries(request[d], task.pending) =>
              QueuedIn(ready', delayed', task.pending) \/ AskCarries(request'[d], task.pending)
<1>0. /\ QueueInv /\ request \in [Clients -> RequestRecord] /\ request[d] \in RequestRecord
      /\ request[d].task \in TaskRecord /\ RequestOK(request[d])
  BY DEF Inv, ServiceInv, RequestRecord
<1>1. ASSUME NEW pc, Proceed(d, pc), pc # "unpublished"
      PROVE  /\ \A c \in Clients : c # d => request'[c] = request[c]
             /\ Reports(request'[d])
             /\ request'[d].pc = pc /\ request'[d].task = request[d].task
  BY <1>0, <1>1 DEF Proceed, RequestRecord, Reports
<1>2. ASSUME Done(d)
      PROVE  /\ \A c \in Clients : c # d => request'[c] = request[c]
             /\ Reports(request'[d])
  BY <1>0, <1>2 DEF Done, IdleRequest, Reports
<1>3. ASSUME request[d].pc \notin {"event", "publish", "unpublished"},
             UNCHANGED <<task, queueVars>>
      PROVE  Passes
  BY <1>3 DEF AskCarries, QueuedIn, queueVars
<1>4. CASE RecordDecision(d) \/ CheckLease(d) \/ AnnounceUnpublished(d) \/ RequestRaises(d)
  <2>1. /\ request[d].pc \in {"record", "transition", "lease", "save", "failed_event"}
        /\ UNCHANGED <<task, queueVars>>
        /\ Done(d) \/ Proceed(d, "transition") \/ Proceed(d, "save")
    BY <1>4 DEF RecordDecision, CheckLease, AnnounceUnpublished, RequestRaises, Asks, storeVars
  <2> HIDE DEF Passes
  <2>2. Passes BY <1>3, <2>1
  <2> QED BY <1>1, <1>2, <2>1, <2>2 DEF Passes
<1>5. CASE Transition(d) \/ SaveResumed(d)
  <2>1. \/ task' = request[d].task /\ Proceed(d, "event")
        \/ request[d].pc = "transition" /\ UNCHANGED <<task, queueVars>> /\ Done(d)
    BY <1>5 DEF Transition, TransitionTask, SaveResumed, SaveTask, Asks
  <2>2. CASE task' = request[d].task /\ Proceed(d, "event")
    BY <1>1, <2>2 DEF AskCarries
  <2>3. CASE request[d].pc = "transition" /\ UNCHANGED <<task, queueVars>> /\ Done(d)
    <3> HIDE DEF Passes
    <3>1. Passes BY <1>3, <2>3
    <3> QED BY <1>2, <2>3, <3>1 DEF Passes
  <2> QED BY <2>1, <2>2, <2>3
<1>6. CASE AnnounceRequest(d)
  <2>1. request[d].pc = "event" /\ UNCHANGED <<task, queueVars>> /\ Proceed(d, "publish")
    BY <1>6 DEF AnnounceRequest, Asks
  <2>2. request'[d].pc = "publish" /\ request'[d].task = request[d].task BY <1>1, <2>1
  <2>3. Passes BY <2>1, <2>2 DEF AskCarries, QueuedIn, queueVars
  <2> HIDE DEF Passes
  <2> QED BY <1>1, <2>1, <2>3 DEF Passes
<1>7. CASE PublishRequest(d)
  <2> DEFINE m == request[d].task.pending
  <2>1. request[d].pc = "publish" /\ task' = task /\ Publish(m) /\ Done(d)
    BY <1>7 DEF PublishRequest, Asks, storeVars
  <2>2. m \in Message BY <1>0, <2>1 DEF RequestOK, Sendable
  <2>3. QueuedIn(ready, delayed, task.pending) => QueuedIn(ready', delayed', task.pending)
    BY <1>0, <2>1, <2>2, StillQueued
  <2>4. QueuedIn(ready', delayed', m) BY <1>0, <2>1, <2>2, NowQueued
  <2>5. AskCarries(request[d], task.pending) => task.pending = m BY <2>1 DEF AskCarries
  <2>6. Passes BY <2>1, <2>3, <2>4, <2>5
  <2> HIDE DEF Passes
  <2> QED BY <1>2, <2>1, <2>6 DEF Passes
<1>8. CASE PublishFails(d)
  <2>1. /\ \A c \in Clients : c # d => request'[c] = request[c]
        /\ request'[d].pc = "unpublished"
        /\ request'[d].task = [request[d].task EXCEPT !.status = "failed",
                                                      !.error = "publish_failed"]
    BY <1>0, <1>8 DEF PublishFails, RequestRecord
  <2>2. request'[d].task.status = "failed" BY <1>0, <2>1 DEF TaskRecord
  <2> QED BY <2>1, <2>2 DEF Reports, AskCarries
<1>9. CASE SaveUnpublished(d)
  <2>1. /\ request[d].pc = "unpublished" /\ task' = request[d].task
        /\ Proceed(d, "failed_event") \/ Done(d)
    BY <1>9 DEF SaveUnpublished, Asks, SaveTask
  <2>2. task'.status \notin Waiting BY <2>1 DEF Reports, Waiting
  <2> QED BY <1>1, <1>2, <2>1, <2>2
<1>10. CASE NewRequest(d)
  <2>1. /\ request[d].pc = "idle" /\ UNCHANGED <<task, queueVars>>
        /\ \A c \in Clients : c # d => request'[c] = request[c]
        /\ request'[d].pc \in {"transition", "record", "lease", "save"}
    <3>1. request[d].pc = "idle" /\ UNCHANGED <<task, queueVars>>
      BY <1>10 DEF NewRequest, SubmitInput, SubmitApproval, Resume, Asks, storeVars
    <3> DEFINE Begins == /\ \A c \in Clients : c # d => request'[c] = request[c]
                         /\ request'[d].pc \in {"transition", "record", "lease", "save"}
    <3>2. ASSUME NEW p \in Products, SubmitInput(d, p) PROVE Begins
      BY <1>0, <3>2 DEF SubmitInput
    <3>3. ASSUME NEW decision \in {"approve", "reject"}, SubmitApproval(d, decision) PROVE Begins
      BY <1>0, <3>3 DEF SubmitApproval
    <3>4. ASSUME Resume(d) PROVE Begins
      <4>1. /\ \A c \in Clients : c # d => request'[c] = request[c]
            /\ request'[d].pc = IF task.status = "running" THEN "lease" ELSE "save"
        BY <1>0, <3>4 DEF Resume
      <4> QED BY <4>1
    <3>5. Begins
      <4> HIDE DEF Begins
      <4> QED BY <1>10, <3>2, <3>3, <3>4 DEF NewRequest
    <3> QED BY <3>1, <3>5
  <2> HIDE DEF Passes
  <2>2. Passes BY <1>3, <2>1
  <2> QED BY <2>1, <2>2 DEF Passes, Reports
<1> QED BY <1>4, <1>5, <1>6, <1>7, <1>8, <1>9, <1>10 DEF Serve

LEMMA InitCarry == Init => CarryInv
<1> SUFFICES ASSUME Init PROVE CarryInv OBVIOUS
<1>1. \A h \in Handlers : worker[h] = IdleWorker BY DEF Init, WorkerInit
<1>2. Connected(IdleWorker) /\ Writes(IdleWorker)
  BY DEF IdleWorker, Connected, Writes
<1>3. PICK c \in Clients :
        request = [d \in Clients |-> IF d = c
                     THEN [IdleRequest EXCEPT !.pc = "event", !.op = "create", !.task = task]
                     ELSE IdleRequest]
  BY DEF Init, ServiceInit
<1>4. /\ request[c].pc = "event" /\ request[c].task = task
      /\ \A d \in Clients : request[d].pc \in {"event", "idle"}
  BY <1>3 DEF IdleRequest
<1>5. Carrying BY <1>4 DEF Carrying, AskCarries
<1> QED BY <1>1, <1>2, <1>4, <1>5 DEF CarryInv, Reports

\* A handler moves, the others and the requests stand still.
LEMMA HandlerCarry ==
  ASSUME CarryInv, spent.crashes = 0, NEW h \in Handlers,
         Connected(worker'[h]), Writes(worker'[h]),
         spent'.forsaken \/ (HandsOn(h) /\ spent'.forsaken = spent.forsaken),
         \A g \in Handlers : g # h => worker'[g] = worker[g],
         UNCHANGED request
  PROVE  CarryInv'
<1>1. \A g \in Handlers : Connected(worker'[g]) /\ Writes(worker'[g])
  BY DEF CarryInv
<1>2. ASSUME task'.status \in Waiting, ~ spent'.forsaken PROVE Carrying'
  <2>0. HandsOn(h) /\ ~ spent.forsaken BY <1>2
  <2>1. CASE HandCarries(worker'[h], task'.pending) BY <2>1 DEF Carrying
  <2>2. CASE /\ task' = task
             /\ QueuedIn(ready, delayed, task.pending) \/ HandCarries(worker[h], task.pending) =>
                  QueuedIn(ready', delayed', task.pending) \/ HandCarries(worker'[h], task.pending)
    <3>1. Carrying BY <1>2, <2>0, <2>2 DEF CarryInv
    <3>2. \A g \in Handlers \ {h} : HandCarries(worker[g], task.pending) =>
                                      HandCarries(worker'[g], task.pending)
      OBVIOUS
    <3> QED BY <2>2, <3>1, <3>2 DEF Carrying
  <2> QED BY <1>2, <2>0, <2>1, <2>2 DEF HandsOn
<1> QED BY <1>1, <1>2 DEF CarryInv

\* A request moves.
LEMMA ClientCarry ==
  ASSUME Inv, CarryInv, spent.crashes = 0, NEW d \in Clients,
         Serve(d) \/ NewRequest(d) \/ PublishFails(d) \/ RequestRaises(d), UNCHANGED worker,
         spent'.forsaken = spent.forsaken
  PROVE  CarryInv'
<1>1. /\ \A c \in Clients : c # d => request'[c] = request[c]
      /\ Reports(request'[d])
      /\ \/ task'.status \notin Waiting
         \/ AskCarries(request'[d], task'.pending)
         \/ /\ task' = task
            /\ QueuedIn(ready, delayed, task.pending) \/ AskCarries(request[d], task.pending) =>
                 QueuedIn(ready', delayed', task.pending) \/ AskCarries(request'[d], task.pending)
  <2>1. Reports(request[d]) BY DEF CarryInv
  <2> QED BY <2>1, RequestCarries
<1>2. \A h \in Handlers : Connected(worker'[h]) /\ Writes(worker'[h])
  BY DEF CarryInv
<1>3. \A c \in Clients : Reports(request'[c]) BY <1>1 DEF CarryInv
<1>4. ASSUME task'.status \in Waiting, ~ spent'.forsaken PROVE Carrying'
  <2>1. CASE AskCarries(request'[d], task'.pending) BY <2>1 DEF Carrying
  <2>2. CASE /\ task' = task
             /\ QueuedIn(ready, delayed, task.pending) \/ AskCarries(request[d], task.pending) =>
                  QueuedIn(ready', delayed', task.pending) \/ AskCarries(request'[d], task.pending)
    <3>1. Carrying BY <1>4, <2>2 DEF CarryInv
    <3>2. \A c \in Clients \ {d} : AskCarries(request[c], task.pending) =>
                                     AskCarries(request'[c], task.pending)
      BY <1>1
    <3> QED BY <2>2, <3>1, <3>2 DEF Carrying
  <2> QED BY <1>1, <1>4, <2>1, <2>2
<1> QED BY <1>2, <1>3, <1>4 DEF CarryInv

\* A request is forsaken.
LEMMA ForsakenCarry ==
  ASSUME Inv, CarryInv, spent.crashes = 0, NEW d \in Clients, RequestForsaken(d),
         UNCHANGED worker, spent'.forsaken
  PROVE  CarryInv'
<1>1. request' = [request EXCEPT ![d] = IdleRequest] /\ request \in [Clients -> RequestRecord]
  BY DEF Inv, ServiceInv, RequestForsaken, Done
<1>2. Reports(IdleRequest) BY DEF Reports, IdleRequest
<1>3. \A c \in Clients : Reports(request'[c]) BY <1>1, <1>2 DEF CarryInv
<1> QED BY <1>3 DEF CarryInv

\* Nobody moves and the record at most expires.
LEMMA RestCarry ==
  ASSUME CarryInv, UNCHANGED <<worker, request, spent>>,
         task' = task \/ task'.status \notin Waiting,
         QueuedIn(ready, delayed, task.pending) => QueuedIn(ready', delayed', task.pending)
  PROVE  CarryInv'
BY DEF CarryInv, Carrying

LEMMA CarryNext ==
  ASSUME Inv, CarryInv, [Next]_vars
  PROVE  CarryInv'
<1> SUFFICES ASSUME spent'.crashes = 0 PROVE CarryInv' BY DEF CarryInv
<1>0. /\ WorkerInv /\ QueueInv
      /\ spent \in [requests : 0 .. MaxRequests, faults : 0 .. MaxFaults,
                    crashes : 0 .. MaxCrashes, forsaken : BOOLEAN]
      /\ spent.crashes \in Nat
  BY BoundsAssumption DEF Inv, SpentInv
<1>1. \A bound : ~ Spend("crashes", bound) BY <1>0 DEF Spend
<1>2. ASSUME NEW kind \in {"requests", "faults"}, NEW bound, Spend(kind, bound)
      PROVE  spent'.forsaken = spent.forsaken /\ spent.crashes = 0
  BY <1>0, <1>2 DEF Spend
<1>3. Forsake => spent'.forsaken /\ spent.crashes = 0
  BY <1>0 DEF Forsake
<1>4. UNCHANGED queueVars /\ QueuedIn(ready, delayed, task.pending) =>
        QueuedIn(ready', delayed', task.pending)
  BY DEF QueuedIn, queueVars
<1>5. ASSUME NEW h \in Handlers, Work(h) \/ ChannelGone(h), UNCHANGED <<request, spent>>
      PROVE  CarryInv'
  <2>1. spent.crashes = 0 /\ Connected(worker[h]) /\ Writes(worker[h])
    BY <1>5 DEF CarryInv
  <2>2. Work(h) BY <1>5, <2>1, ChannelOpen
  <2>3. Connected(worker'[h]) /\ Writes(worker'[h]) /\ HandsOn(h)
    BY <2>1, <2>2, WorkCarries
  <2>4. \A g \in Handlers : g # h => worker'[g] = worker[g] BY <1>0, <2>2, OthersStill
  <2> QED BY <1>5, <2>1, <2>3, <2>4, HandlerCarry
<1>6. ASSUME NEW h \in Handlers, WorkerFault(h), Spend("faults", MaxFaults), UNCHANGED request
      PROVE  CarryInv'
  <2>0. spent'.forsaken = spent.forsaken /\ spent.crashes = 0 BY <1>2, <1>6
  <2>1. Connected(worker[h]) /\ Writes(worker[h]) BY <2>0 DEF CarryInv
  <2>2. Connected(worker'[h]) /\ Writes(worker'[h]) /\ HandsOn(h)
    BY <1>6, <2>1, FaultCarries
  <2>3. \A g \in Handlers : g # h => worker'[g] = worker[g] BY <1>0, <1>6, OthersStill
  <2> QED BY <1>6, <2>0, <2>2, <2>3, HandlerCarry
<1>7. ASSUME NEW h \in Handlers, RetryForsaken(h), Forsake, UNCHANGED request
      PROVE  CarryInv'
  <2>0. spent'.forsaken /\ spent.crashes = 0 BY <1>3, <1>7
  <2>1. Connected(worker[h]) BY <2>0 DEF CarryInv
  <2>2. Connected(worker'[h]) /\ Writes(worker'[h]) BY <1>7, <2>1, ForsakenLeaves
  <2>3. \A g \in Handlers : g # h => worker'[g] = worker[g] BY <1>0, <1>7, OthersStill
  <2> QED BY <1>7, <2>0, <2>2, <2>3, HandlerCarry
<1>8. CASE WorkerNext /\ UNCHANGED <<request, offered>>
  <2>1. CASE LeaseExpires /\ UNCHANGED spent
    BY <1>4, <1>8, <2>1, RestCarry DEF LeaseExpires
  <2> QED BY <1>1, <1>5, <1>6, <1>7, <1>8, <2>1 DEF WorkerNext
<1>9. CASE ServiceNext /\ UNCHANGED worker
  <2>1. ASSUME NEW d \in Clients, Serve(d), UNCHANGED spent PROVE CarryInv'
    BY <1>9, <2>1, ClientCarry
  <2>2. ASSUME NEW d \in Clients, NewRequest(d), Spend("requests", MaxRequests) PROVE CarryInv'
    BY <1>2, <1>9, <2>2, ClientCarry
  <2>3. ASSUME NEW d \in Clients, PublishFails(d) \/ RequestRaises(d), Spend("faults", MaxFaults)
        PROVE  CarryInv'
    BY <1>2, <1>9, <2>3, ClientCarry
  <2>4. ASSUME NEW d \in Clients, RequestForsaken(d), Forsake PROVE CarryInv'
    BY <1>3, <1>9, <2>4, ForsakenCarry
  <2>5. CASE ReadOffer /\ UNCHANGED spent
    BY <1>4, <1>9, <2>5, RestCarry DEF ReadOffer, storeVars
  <2> QED BY <1>1, <1>9, <2>1, <2>2, <2>3, <2>4, <2>5 DEF ServiceNext
<1>10. CASE Environment /\ UNCHANGED <<worker, request, offered, spent>>
  <2>1. CASE DelayElapsed /\ UNCHANGED <<storeVars, graphVars>>
    BY <1>0, <1>10, <2>1, ReturnedQueued, RestCarry DEF storeVars
  <2>2. CASE LateCommit /\ UNCHANGED <<storeVars, queueVars>>
    BY <1>4, <1>10, <2>2, RestCarry DEF storeVars
  <2> QED BY <1>10, <2>1, <2>2 DEF Environment
<1>11. CASE ExpireRecord /\ UNCHANGED <<queueVars, graphVars, worker, request, offered, spent>>
  <2>1. task'.status \notin Waiting BY <1>11 DEF ExpireRecord, Absent, Waiting
  <2> QED BY <1>4, <1>11, <2>1, RestCarry
<1>12. CASE UNCHANGED vars
  BY <1>4, <1>12, RestCarry DEF vars, queueVars
<1> QED BY <1>8, <1>9, <1>10, <1>11, <1>12 DEF Next

\* A queued or retrying task always has its message, a handler at work or a
\* request about to publish, for any number of handlers, clients, requests and
\* raised awaits, also when leases expire under running handlers: only a dead
\* process, or an await that raises between a record that promises a message
\* and its publish, can leave the task to nobody.
THEOREM Remembered == Spec => []NotForgotten
<1>1. Inv /\ CarryInv => NotForgotten
  <2> SUFFICES ASSUME Inv, CarryInv, task.status \in Waiting, spent.crashes = 0,
                      ~ spent.forsaken
               PROVE  Carried
    BY DEF NotForgotten, Waiting
  <2>1. Carrying BY DEF CarryInv
  <2>2. task.pending # NoMessage
    BY DEF Inv, StoreInv, RecordOK, Waiting, Awaiting, Final
  <2>3. CASE QueuedIn(ready, delayed, task.pending)
    BY <2>3 DEF QueuedIn, Carried, InFlight
  <2>4. ASSUME NEW h \in Handlers, HandCarries(worker[h], task.pending) PROVE Carried
    <3>1. CASE worker[h].msg = task.pending
      BY <2>2, <3>1 DEF Carried, InFlight
    <3>2. CASE worker[h].msg # task.pending
      BY <2>4, <3>2 DEF HandCarries, Carried, Executing
    <3> QED BY <3>1, <3>2
  <2>5. ASSUME NEW c \in Clients, AskCarries(request[c], task.pending) PROVE Carried
    BY <2>5 DEF AskCarries, Carried
  <2> QED BY <2>1, <2>3, <2>4, <2>5 DEF Carrying
<1>2. Inv /\ CarryInv /\ [Next]_vars => CarryInv' BY CarryNext
<1> QED BY <1>1, <1>2, InitCarry, Invariance, PTL DEF Spec

----------------------------------------------------------------------------
(* A calm instance: no await has raised and nothing has died.  With leases *)
(* that outlive their handlers nobody then leaves the path of a success.   *)

Calm == spent.faults = 0 /\ spent.crashes = 0

CalmPC == {"idle", "delay", "ack_delayed", "load", "skip", "mark", "started", "graph",
           "save", "announce", "ack", "reject", "release"}

\* From the record that was read to the end of the run.
Engaged == {"mark", "started", "graph"}

CalmActivation(w) ==
  /\ w.pc \in CalmPC
  /\ w.pc \notin {"idle", "release"} => w.live
  /\ w.pc = "release" => ~ w.live
  /\ w.task.status \notin {"retrying", "failed"}
  /\ w.pc \in Engaged => w.task.pending = w.msg

CalmRequest(q) ==
  /\ q.pc \notin {"unpublished", "failed_event"}
  /\ q.pc # "idle" => q.task.status = "queued"
  /\ q.pc \in {"lease", "save"} => q.op = "resume"
  /\ q.pc = "transition" => q.op \in {"input", "approval"}
  /\ q.pc = "transition" /\ q.op = "input" =>
       q.expected = "awaiting_input" /\ q.task.pending.kind = "input"

Smooth ==
  /\ lease # "orphan" /\ task.status \notin {"retrying", "failed"}
  /\ \A h \in Handlers : CalmActivation(worker[h])
  /\ \A c \in Clients : CalmRequest(request[c])

\* A step of a handler that concerns neither the record, the graph nor the feed.
Elsewhere(h) ==
  /\ UNCHANGED <<task, feed, graph, checkpoint>>
  /\ worker[h].pc \notin {"started", "graph", "announce"}
  /\ worker'[h].pc \notin {"mark", "started", "graph", "save", "announce"}

\* Load, when the message is the one the record waits for.
Takes(h) ==
  /\ UNCHANGED <<task, feed, graph, checkpoint>>
  /\ At(h, "load") /\ worker'[h].pc = "mark"
  /\ worker'[h].task.product = task.product /\ worker'[h].task.pending = task.pending

LEMMA CalmWork ==
  ASSUME Inv, NEW h \in Handlers, CalmActivation(worker[h]), lease # "orphan",
         task.status \notin {"retrying", "failed"}, Work(h)
  PROVE  /\ CalmActivation(worker'[h])
         /\ lease' # "orphan" /\ task'.status \notin {"retrying", "failed"}
         /\ \/ Elsewhere(h) \/ Takes(h) \/ Mark(h) \/ AnnounceStarted(h) \/ GraphStep(h)
            \/ Outcome(h) \/ SaveOutcome(h) \/ AnnounceOutcome(h)
<1>0. /\ WorkerInv /\ worker \in [Handlers -> Activation] /\ worker[h] \in Activation
      /\ task \in TaskRecord /\ RecordOK(task)
  BY DEF Inv, WorkerInv, StoreInv, RecordOK
<1>1. ASSUME NEW pc \in CalmPC, pc \notin {"idle", "release"}, Goto(h, pc),
             worker[h].pc \notin {"idle", "release"},
             pc \in Engaged => worker[h].pc \in Engaged
      PROVE  CalmActivation(worker'[h]) /\ worker'[h].pc = pc /\ worker'[h].task = worker[h].task
  <2>1. /\ worker'[h].pc = pc /\ worker'[h].msg = worker[h].msg
        /\ worker'[h].live = worker[h].live /\ worker'[h].task = worker[h].task
    BY <1>0, <1>1, GotoIs
  <2> QED BY <1>1, <2>1 DEF CalmActivation
<1>2. ASSUME NEW pc \in {"idle", "release"}, Settled(h, pc)
      PROVE  CalmActivation(worker'[h]) /\ worker'[h].pc = pc
  <2>1. /\ worker'[h].pc = pc /\ worker'[h].live = FALSE /\ worker'[h].task = Absent
    BY <1>0, <1>2, SettledIs
  <2> QED BY <2>1 DEF CalmActivation, CalmPC, Engaged, Absent
<1>3. ASSUME NEW m \in Message, Receive(h, m)
      PROVE  CalmActivation(worker'[h]) /\ lease' # "orphan" /\ Elsewhere(h) /\ task' = task
  <2>1. /\ worker'[h].pc \in {"load", "delay"} /\ worker'[h].live = TRUE /\ worker'[h].task = Absent
        /\ UNCHANGED <<task, feed, graph, checkpoint>> /\ worker[h].pc = "idle"
    BY <1>0, <1>3 DEF Receive, At, NoCopy, graphVars
  <2>2. lease' \in {lease, h} BY <1>3 DEF Receive, AcquireLease
  <2>3. lease' # "orphan" BY <2>2, StoreAssumption
  <2> QED BY <2>1, <2>3 DEF CalmActivation, CalmPC, Engaged, Absent, Elsewhere
<1>4. CASE Delay(h) \/ Ack(h) \/ Reject(h)
  <2>1. /\ UNCHANGED <<task, lease, feed, graph, checkpoint>>
        /\ worker[h].pc \in {"delay", "skip", "ack", "ack_retry", "ack_delayed", "reject"}
        /\ Goto(h, "ack_delayed") \/ Settled(h, "release") \/ Settled(h, "idle")
    BY <1>4 DEF Delay, Ack, Reject, At, storeVars, graphVars
  <2>2. CalmActivation(worker'[h]) /\ worker'[h].pc \in {"ack_delayed", "release", "idle"}
    BY <1>1, <1>2, <2>1 DEF CalmPC, Engaged
  <2> QED BY <2>1, <2>2 DEF Elsewhere
<1>5. CASE Release(h)
  <2>1. worker[h].pc = "release" /\ Finish(h) /\ ReleaseLease(h)
        /\ UNCHANGED <<task, feed, graph, checkpoint>>
    BY <1>5 DEF Release, At, graphVars
  <2>2. ~ worker[h].live BY <2>1 DEF CalmActivation
  <2>3. worker'[h].pc = "idle" /\ worker'[h].task = Absent BY <1>0, <2>1, <2>2, FinishIs
  <2>4. lease' # "orphan" BY <2>1 DEF ReleaseLease
  <2> QED BY <2>1, <2>3, <2>4 DEF CalmActivation, CalmPC, Engaged, Absent, Elsewhere
<1>6. CASE Load(h)
  <2>1. /\ worker[h].pc = "load" /\ UNCHANGED <<task, lease, feed, graph, checkpoint>>
    BY <1>6 DEF Load, At, storeVars, graphVars
  <2>2. CASE Goto(h, "reject") \/ Goto(h, "skip")
    <3>1. CalmActivation(worker'[h]) /\ worker'[h].pc \in {"reject", "skip"}
      BY <1>1, <2>1, <2>2 DEF CalmPC, Engaged
    <3> QED BY <2>1, <3>1 DEF Elsewhere
  <2>3. CASE /\ Runnable(task, worker[h].msg)
             /\ worker' = [worker EXCEPT ![h].pc = "mark",
                                         ![h].task = [task EXCEPT !.status = "running"]]
    <3>1. /\ worker'[h].pc = "mark" /\ worker'[h].msg = worker[h].msg
          /\ worker'[h].live = worker[h].live
          /\ worker'[h].task = [task EXCEPT !.status = "running"]
      BY <1>0, <2>3 DEF Activation
    <3>2. /\ worker'[h].task.status = "running" /\ worker'[h].task.product = task.product
          /\ worker'[h].task.pending = task.pending
      BY <1>0, <3>1 DEF TaskRecord
    <3>3. task.status \in Executable /\ MatchesPending(task, worker[h].msg)
      BY <2>3 DEF Runnable, PublishRecovery
    <3>4. task.pending = worker[h].msg
      BY <1>0, <3>3 DEF RecordOK, MatchesPending, Executable, Awaiting, Final
    <3>5. CalmActivation(worker'[h])
      BY <2>1, <3>1, <3>2, <3>4 DEF CalmActivation, CalmPC
    <3> QED BY <2>1, <3>1, <3>2, <3>5 DEF Takes, At
  <2> QED BY <1>6, <2>2, <2>3 DEF Load
<1>7. CASE Mark(h) \/ SaveOutcome(h)
  <2>1. /\ task' = worker[h].task /\ UNCHANGED lease
        /\ \/ worker[h].pc = "mark" /\ Goto(h, "started")
           \/ worker[h].pc = "save" /\ Goto(h, "announce")
    BY <1>7 DEF Mark, SaveOutcome, SaveTask, At
  <2>2. CalmActivation(worker'[h]) BY <1>1, <2>1 DEF CalmPC, Engaged
  <2> QED BY <1>7, <2>1, <2>2 DEF CalmActivation
<1>8. CASE AnnounceStarted(h) \/ AnnounceOutcome(h)
  <2>1. /\ UNCHANGED <<task, lease>>
        /\ \/ worker[h].pc = "started" /\ Goto(h, "graph")
           \/ worker[h].pc = "announce" /\ Goto(h, "ack")
    BY <1>8 DEF AnnounceStarted, AnnounceOutcome, At
  <2>2. CalmActivation(worker'[h]) BY <1>1, <2>1 DEF CalmPC, Engaged
  <2> QED BY <1>8, <2>1, <2>2
<1>9. CASE GraphStep(h)
  BY <1>9 DEF GraphStep, storeVars
<1>10. CASE Outcome(h)
  <2>1. /\ UNCHANGED <<task, lease>> /\ worker[h].pc = "graph" /\ graph[h].at \in Returned
        /\ worker'[h].pc = "save" /\ worker'[h].live = worker[h].live
        /\ worker'[h].task = [worker[h].task EXCEPT !.status = OutcomeStatus(graph[h].at),
                                                    !.error = "none", !.pending = NoMessage]
    BY <1>0, <1>10 DEF Outcome, Return, At, storeVars, Activation
  <2>2. worker'[h].task.status = OutcomeStatus(graph[h].at)
    BY <1>0, <2>1 DEF Activation, TaskRecord
  <2>3. worker'[h].task.status \in Awaiting \cup Final
    BY <2>1, <2>2 DEF Returned, OutcomeStatus, Awaiting, Final
  <2>4. CalmActivation(worker'[h])
    BY <2>1, <2>3 DEF CalmActivation, CalmPC, Engaged, Awaiting, Final
  <2> QED BY <1>10, <2>1, <2>4
<1>11. ~ (\/ GiveBack(h) \/ SaveFailure(h) \/ Republish(h) \/ AnnounceRetry(h)
          \/ SaveUnpublishedRetry(h) \/ AnnounceFailed(h))
  BY DEF GiveBack, SaveFailure, Republish, AnnounceRetry, SaveUnpublishedRetry, AnnounceFailed,
     At, CalmActivation, CalmPC
<1> QED
  BY <1>3, <1>4, <1>5, <1>6, <1>7, <1>8, <1>9, <1>10, <1>11 DEF Work

\* A request goes on with its copy, or ends.
Goes(d) ==
  /\ UNCHANGED task
  /\ \/ request'[d] = IdleRequest
     \/ /\ request'[d].task = request[d].task /\ request'[d].op = request[d].op
        /\ request'[d].pc = "save" => request[d].pc = "lease"
        /\ request'[d].pc # "lease"

\* It stores its copy.
Puts(d) ==
  /\ task' = request[d].task /\ request'[d].task = request[d].task
  /\ request'[d].op = request[d].op /\ request'[d].pc = "event"
  /\ \/ Asks(d, "save")
     \/ Asks(d, "transition") /\ task.status = request[d].expected

LEMMA CalmServe ==
  ASSUME Inv, NEW d \in Clients, AskingOK(d), CalmRequest(request[d]),
         task.status \notin {"retrying", "failed"}, Serve(d) \/ NewRequest(d)
  PROVE  /\ CalmRequest(request'[d]) /\ task'.status \notin {"retrying", "failed"}
         /\ \A c \in Clients : c # d => request'[c] = request[c]
         /\ UNCHANGED <<lease, graph, checkpoint>>
         /\ Goes(d) \/ Puts(d) \/ NewRequest(d)
         /\ feed' \in {feed, "task.resumed"} \/ request[d].op = "create"
<1>0. /\ request \in [Clients -> RequestRecord] /\ request[d] \in RequestRecord
      /\ request[d].task \in TaskRecord /\ task \in TaskRecord
  BY DEF Inv, ServiceInv, RequestRecord, StoreInv, RecordOK
<1>1. ASSUME NEW pc \in {"transition", "save", "event", "publish"}, Proceed(d, pc),
             ~ Asks(d, "idle"),
             pc = "transition" => request[d].op = "approval",
             pc = "save" => Asks(d, "lease")
      PROVE  /\ CalmRequest(request'[d])
             /\ \A c \in Clients : c # d => request'[c] = request[c]
             /\ request'[d].task = request[d].task /\ request'[d].op = request[d].op
             /\ request'[d].pc = pc
  <2>1. /\ \A c \in Clients : c # d => request'[c] = request[c]
        /\ request'[d].task = request[d].task /\ request'[d].op = request[d].op
        /\ request'[d].pc = pc
    BY <1>0, <1>1 DEF Proceed, RequestRecord
  <2> QED BY <1>1, <2>1 DEF CalmRequest, Asks
<1>2. ASSUME Done(d)
      PROVE  /\ CalmRequest(request'[d])
             /\ \A c \in Clients : c # d => request'[c] = request[c]
             /\ request'[d] = IdleRequest
  <2>1. request'[d] = IdleRequest /\ \A c \in Clients : c # d => request'[c] = request[c]
    BY <1>0, <1>2 DEF Done
  <2> QED BY <2>1 DEF CalmRequest, IdleRequest
<1>3. CASE RecordDecision(d) \/ CheckLease(d) \/ PublishRequest(d)
  <2>1. /\ UNCHANGED <<task, lease, feed, graph, checkpoint>> /\ ~ Asks(d, "idle")
        /\ \/ Done(d) \/ (Proceed(d, "transition") /\ Asks(d, "record"))
           \/ (Proceed(d, "save") /\ Asks(d, "lease"))
    BY <1>3 DEF RecordDecision, CheckLease, PublishRequest, Asks, storeVars, graphVars
  <2>2. CASE Done(d) BY <1>2, <2>1, <2>2 DEF Goes
  <2>3. CASE Proceed(d, "transition") /\ Asks(d, "record")
    <3>1. request[d].op = "approval" BY <2>3 DEF Asks, AskingOK
    <3> QED BY <1>1, <2>1, <2>3, <3>1 DEF Goes
  <2>4. CASE Proceed(d, "save") /\ Asks(d, "lease")
    BY <1>1, <2>1, <2>4 DEF Goes, Asks
  <2> QED BY <2>1, <2>2, <2>3, <2>4
<1>4. CASE Transition(d) \/ SaveResumed(d)
  <2>1. /\ UNCHANGED <<lease, feed, graph, checkpoint>> /\ ~ Asks(d, "idle")
        /\ \/ Done(d) /\ UNCHANGED task
           \/ /\ Proceed(d, "event") /\ task' = request[d].task
              /\ \/ Asks(d, "save")
                 \/ Asks(d, "transition") /\ task.status = request[d].expected
    BY <1>4 DEF Transition, TransitionTask, SaveResumed, SaveTask, Asks, graphVars
  <2>2. CASE Done(d) /\ UNCHANGED task BY <1>2, <2>1, <2>2 DEF Goes
  <2>3. CASE Proceed(d, "event") /\ task' = request[d].task
    <3>1. task'.status = "queued" BY <2>1, <2>3 DEF CalmRequest, Asks
    <3>2. /\ CalmRequest(request'[d])
          /\ \A c \in Clients : c # d => request'[c] = request[c]
          /\ request'[d].task = request[d].task /\ request'[d].op = request[d].op
          /\ request'[d].pc = "event"
      BY <1>1, <2>1, <2>3
    <3>3. Puts(d) \/ (Done(d) /\ UNCHANGED task) BY <2>1, <2>3, <3>2 DEF Puts
    <3> QED BY <2>1, <2>2, <3>1, <3>2, <3>3
  <2> QED BY <2>1, <2>2, <2>3
<1>5. CASE AnnounceRequest(d)
  <2>1. /\ UNCHANGED <<task, lease, graph, checkpoint>> /\ ~ Asks(d, "idle")
        /\ Proceed(d, "publish")
        /\ feed' \in {feed, "task.resumed"} \/ request[d].op = "create"
    BY <1>5 DEF AnnounceRequest, RequestEvent, AppendEvent, Asks, graphVars
  <2> QED BY <1>1, <2>1 DEF Goes
<1>6. ~ SaveUnpublished(d) /\ ~ AnnounceUnpublished(d)
  BY DEF SaveUnpublished, AnnounceUnpublished, Asks, CalmRequest
<1>7. CASE NewRequest(d)
  <2>1. UNCHANGED <<task, lease, feed, graph, checkpoint>>
    BY <1>7 DEF NewRequest, SubmitInput, SubmitApproval, Resume, storeVars, graphVars
  <2>2. ASSUME NEW p \in Products, SubmitInput(d, p)
        PROVE  CalmRequest(request'[d]) /\ \A c \in Clients : c # d => request'[c] = request[c]
    <3> DEFINE r == [task EXCEPT !.product = p, !.status = "queued",
                                 !.pending = [attempt |-> 0, kind |-> "input", id |-> p]]
    <3>1. r.status = "queued" /\ r.pending.kind = "input" BY <1>0 DEF TaskRecord
    <3>2. /\ \A c \in Clients : c # d => request'[c] = request[c]
          /\ request'[d].pc = "transition" /\ request'[d].op = "input"
          /\ request'[d].expected = "awaiting_input" /\ request'[d].task = r
      BY <1>0, <2>2 DEF SubmitInput
    <3> HIDE DEF r
    <3> QED BY <3>1, <3>2 DEF CalmRequest
  <2>3. ASSUME NEW decision \in {"approve", "reject"}, SubmitApproval(d, decision)
        PROVE  CalmRequest(request'[d]) /\ \A c \in Clients : c # d => request'[c] = request[c]
    <3> DEFINE r == [task EXCEPT !.status = "queued", !.error = "none",
                                 !.pending = ApprovalMessage]
    <3>1. r.status = "queued" BY <1>0 DEF TaskRecord
    <3>2. /\ \A c \in Clients : c # d => request'[c] = request[c]
          /\ request'[d].pc = "record" /\ request'[d].op = "approval" /\ request'[d].task = r
      BY <1>0, <2>3 DEF SubmitApproval
    <3> HIDE DEF r
    <3> QED BY <3>1, <3>2 DEF CalmRequest
  <2>4. ASSUME Resume(d)
        PROVE  CalmRequest(request'[d]) /\ \A c \in Clients : c # d => request'[c] = request[c]
    <3> DEFINE r == [task EXCEPT !.status = "queued", !.error = "none",
                                 !.pending = ResumedMessage]
    <3>1. r.status = "queued" BY <1>0 DEF TaskRecord
    <3>2. /\ \A c \in Clients : c # d => request'[c] = request[c]
          /\ request'[d].pc = IF task.status = "running" THEN "lease" ELSE "save"
          /\ request'[d].op = "resume" /\ request'[d].task = r
      BY <1>0, <2>4 DEF Resume
    <3> HIDE DEF r
    <3> QED BY <3>1, <3>2 DEF CalmRequest
  <2> QED BY <1>7, <2>1, <2>2, <2>3, <2>4 DEF NewRequest
<1> QED BY <1>3, <1>4, <1>5, <1>6, <1>7 DEF Serve

----------------------------------------------------------------------------
(* The steps of a calm instance.                                           *)

Idles ==
  /\ UNCHANGED <<task, lease, feed, graph, checkpoint, worker, request>>
  /\ UNCHANGED queueVars \/ DelayElapsed

Expires ==
  /\ Quiet /\ ExpireRecord
  /\ UNCHANGED <<queueVars, graph, checkpoint, worker, request>>

LEMMA CalmForsakesNothing ==
  ASSUME SpentInv, Calm'
  PROVE  ~ Forsake
<1> SUFFICES ASSUME Forsake PROVE FALSE OBVIOUS
<1> DEFINE n == spent.faults + 1
<1>1. spent.faults \in Nat BY BoundsAssumption DEF SpentInv
<1>2. spent' = [spent EXCEPT !.faults = n, !.forsaken = TRUE] BY DEF Forsake
<1>3. spent'.faults = n
  <2> HIDE DEF n
  <2> QED BY <1>2, Zenon DEF SpentInv
<1> QED BY <1>1, <1>3 DEF Calm

LEMMA CalmBefore ==
  ASSUME Inv, [Next]_vars, Calm'
  PROVE  Calm
<1> DEFINE Counts == [requests : 0 .. MaxRequests, faults : 0 .. MaxFaults,
                      crashes : 0 .. MaxCrashes, forsaken : BOOLEAN]
<1>1. /\ spent \in Counts
      /\ spent' \in Counts
  BY InvNext DEF Inv, SpentInv
<1>2. \/ UNCHANGED spent
      \/ \E kind \in {"requests", "faults", "crashes"} : \E bound : Spend(kind, bound)
      \/ Forsake
  BY DEF Next, WorkerNext, ServiceNext, vars
<1>3. ASSUME NEW kind \in {"requests", "faults", "crashes"}, NEW bound, Spend(kind, bound)
      PROVE  Calm
  BY <1>1, <1>3, BoundsAssumption DEF Spend, Calm
<1>4. ~ Forsake BY InvNext, CalmForsakesNothing DEF Inv
<1> QED BY <1>2, <1>3, <1>4 DEF Calm

LEMMA CalmSteps ==
  ASSUME Inv, Smooth, SlowHandlers = FALSE, [Next]_vars, Calm'
  PROVE  \/ \E h \in Handlers : Work(h) /\ UNCHANGED request
         \/ \E d \in Clients : (Serve(d) \/ NewRequest(d)) /\ UNCHANGED worker
         \/ Expires
         \/ Idles
<1> DEFINE Counts == [requests : 0 .. MaxRequests, faults : 0 .. MaxFaults,
                      crashes : 0 .. MaxCrashes, forsaken : BOOLEAN]
<1>1. /\ spent.faults \in Nat /\ spent.crashes \in Nat
      /\ spent \in Counts
  BY BoundsAssumption DEF Inv, SpentInv
<1>2. \A bound : ~ Spend("faults", bound) /\ ~ Spend("crashes", bound)
  BY <1>1 DEF Spend, Calm
<1>3. \A h \in Handlers : ~ ChannelGone(h)
  BY DEF Smooth, CalmActivation, ChannelGone
<1>4. ~ LeaseMayExpire /\ ~ Forsake
  BY CalmForsakesNothing DEF Smooth, LeaseMayExpire, Inv
<1>5. CASE WorkerNext /\ UNCHANGED <<request, offered>>
  BY <1>2, <1>3, <1>4, <1>5 DEF WorkerNext
<1>6. CASE ServiceNext /\ UNCHANGED worker
  <2>1. CASE ReadOffer
    BY <1>6, <2>1 DEF ReadOffer, Idles, storeVars, graphVars, queueVars
  <2> QED BY <1>2, <1>4, <1>6, <2>1 DEF ServiceNext
<1>7. CASE Environment /\ UNCHANGED <<worker, request, offered, spent>>
  BY <1>7 DEF Environment, LateCommit, Idles, storeVars, graphVars
<1>8. CASE Quiet /\ ExpireRecord /\ UNCHANGED <<queueVars, graphVars, worker, request, offered, spent>>
  BY <1>8 DEF Expires, graphVars
<1>9. CASE UNCHANGED vars
  BY <1>9 DEF vars, Idles, queueVars
<1> QED BY <1>5, <1>6, <1>7, <1>8, <1>9 DEF Next

LEMMA SmoothNext ==
  ASSUME Inv, DecisionInv, Smooth, SlowHandlers = FALSE, [Next]_vars, Calm'
  PROVE  Smooth'
<1>0. WorkerInv BY DEF Inv
<1>1. ASSUME NEW h \in Handlers, Work(h), UNCHANGED request PROVE Smooth'
  <2>1. /\ CalmActivation(worker'[h])
        /\ lease' # "orphan" /\ task'.status \notin {"retrying", "failed"}
    BY <1>1, CalmWork DEF Smooth
  <2>2. \A g \in Handlers : g # h => worker'[g] = worker[g] BY <1>0, <1>1, OthersStill
  <2> QED BY <1>1, <2>1, <2>2 DEF Smooth
<1>2. ASSUME NEW d \in Clients, Serve(d) \/ NewRequest(d), UNCHANGED worker PROVE Smooth'
  <2>1. /\ CalmRequest(request'[d]) /\ task'.status \notin {"retrying", "failed"}
        /\ \A c \in Clients : c # d => request'[c] = request[c]
        /\ UNCHANGED lease
    BY <1>2, CalmServe DEF Smooth, DecisionInv
  <2> QED BY <1>2, <2>1 DEF Smooth
<1>3. CASE Expires
  BY <1>3 DEF Expires, ExpireRecord, Absent, Smooth
<1>4. CASE Idles
  BY <1>4 DEF Idles, Smooth
<1> QED BY <1>1, <1>2, <1>3, <1>4, CalmSteps

----------------------------------------------------------------------------
(* What a calm instance has told its subscribers.                          *)

\* create_task has stored its record and nobody else has seen it yet.
Newborn(c) ==
  /\ task.status = "queued" /\ request[c].pc \in {"event", "publish"}
  /\ \A h \in Handlers : At(h, "idle")
  /\ \A m \in Message : ready[m] = 0 /\ delayed[m] = 0
  /\ \A d \in Clients \ {c} : Asks(d, "idle") /\ request[d].op = "none"

CreateFirst == \A c \in Clients : request[c].op = "create" => Newborn(c)

\* An outcome about to be announced is the record's, or was answered already.
OutcomeSaved ==
  \A h \in Handlers : At(h, "announce") => task.status \in {worker[h].task.status, "queued"}

\* An outcome in the record was announced, or is about to be.
OutcomeHeard ==
  task.status \in Said =>
    \/ feed \in {TerminalEvent(task.status), "task.resumed"}
    \/ \E h \in Handlers : At(h, "announce")

FeedInv == CreateFirst /\ OutcomeSaved /\ OutcomeHeard

LEMMA InitFeed == Init => FeedInv
<1> SUFFICES ASSUME Init PROVE FeedInv OBVIOUS
<1>1. /\ task.status = "queued" /\ \A h \in Handlers : At(h, "idle")
      /\ \A m \in Message : ready[m] = 0 /\ delayed[m] = 0
  BY DEF Init, StoreInit, NewTask, WorkerInit, IdleWorker, At, QueueInit
<1>2. PICK c \in Clients :
        request = [d \in Clients |-> IF d = c
                    THEN [IdleRequest EXCEPT !.pc = "event", !.op = "create", !.task = task]
                    ELSE IdleRequest]
  BY DEF Init, ServiceInit
<1>3. /\ request[c].pc = "event"
      /\ \A d \in Clients \ {c} : request[d].pc = "idle" /\ request[d].op = "none"
  BY <1>2 DEF IdleRequest
<1>4. CreateFirst BY <1>1, <1>3 DEF CreateFirst, Newborn, Asks
<1>5. OutcomeSaved /\ OutcomeHeard
  BY <1>1 DEF OutcomeSaved, OutcomeHeard, At, Said, Awaiting, Final
<1> QED BY <1>4, <1>5 DEF FeedInv

\* Until the first message is published there is nothing to work on.
LEMMA NothingToDo ==
  ASSUME CreateFirst, NEW c \in Clients, request[c].op = "create"
  PROVE  /\ \A h \in Handlers : ~ Work(h)
         /\ \A d \in Clients : d # c => ~ Serve(d)
         /\ \A d \in Clients : ~ NewRequest(d)
         /\ ~ DelayElapsed /\ ~ Quiet
<1>1. Newborn(c) BY DEF CreateFirst
<1>2. \A h \in Handlers : ~ Work(h)
  BY <1>1 DEF Newborn, At, Work, Receive, Deliver, Delay, GiveBack, Load, Mark, AnnounceStarted,
     GraphStep, Outcome, SaveOutcome, AnnounceOutcome, Ack, SaveFailure, Republish, AnnounceRetry,
     SaveUnpublishedRetry, AnnounceFailed, Reject, Release
<1>3. \A d \in Clients : d # c => ~ Serve(d)
  BY <1>1 DEF Newborn, Asks, Serve, RecordDecision, Transition, CheckLease, SaveResumed,
     AnnounceRequest, PublishRequest, SaveUnpublished, AnnounceUnpublished
<1>4. \A d \in Clients : ~ NewRequest(d)
  BY <1>1 DEF Newborn, NewRequest, SubmitInput, SubmitApproval, Resume
<1>5. ~ DelayElapsed BY <1>1 DEF Newborn, DelayElapsed
<1>6. ~ Quiet BY <1>1 DEF Newborn, Quiet, Asks
<1> QED BY <1>2, <1>3, <1>4, <1>5, <1>6

\* What a handler does to the feed.
LEMMA WorkFeed ==
  ASSUME Inv, DecisionInv, LeaseHeld, Smooth, FeedInv, NEW h \in Handlers, Work(h),
         UNCHANGED request
  PROVE  FeedInv'
<1>0. WorkerInv /\ worker \in [Handlers -> Activation] BY DEF Inv, WorkerInv
<1>1. CreateFirst' BY NothingToDo DEF FeedInv, CreateFirst
<1>2. \A g \in Handlers : g # h => worker'[g] = worker[g] BY <1>0, OthersStill
<1>3. \A pc : Goto(h, pc) => worker'[h].pc = pc /\ worker'[h].task = worker[h].task
  BY <1>0 DEF Goto, Activation
<1>4. Executing(h) => \A g \in Handlers : At(g, "announce") => g = h
  BY DEF LeaseHeld, Executing, At
<1>5. ASSUME UNCHANGED <<task, feed>>, worker[h].pc # "announce", worker'[h].pc # "announce"
      PROVE  OutcomeSaved' /\ OutcomeHeard'
  <2>1. \A g \in Handlers : At(g, "announce")' <=> At(g, "announce") BY <1>2, <1>5 DEF At
  <2>2. \A g \in Handlers : At(g, "announce") => worker'[g] = worker[g] BY <1>2, <1>5 DEF At
  <2> QED BY <1>5, <2>1, <2>2 DEF FeedInv, OutcomeSaved, OutcomeHeard
<1>6. CASE Elsewhere(h)
  BY <1>1, <1>5, <1>6 DEF Elsewhere, FeedInv
<1>7. CASE Takes(h)
  BY <1>1, <1>5, <1>7 DEF Takes, FeedInv, At
<1>8. CASE Mark(h)
  <2>1. /\ At(h, "mark") /\ task' = worker[h].task /\ worker'[h].pc = "started"
    BY <1>3, <1>8 DEF Mark, SaveTask
  <2>2. task'.status = "running" BY <2>1 DEF DecisionInv, EngagedOK, At
  <2>3. \A g \in Handlers : ~ At(g, "announce")'
    BY <1>2, <1>4, <2>1 DEF At, Executing
  <2>4. OutcomeSaved' /\ OutcomeHeard'
    BY <2>2, <2>3 DEF OutcomeSaved, OutcomeHeard, Said, Awaiting, Final
  <2> QED BY <1>1, <2>4 DEF FeedInv
<1>9. CASE AnnounceStarted(h)
  <2>1. At(h, "started") /\ UNCHANGED task /\ worker'[h].pc = "graph"
    BY <1>3, <1>9 DEF AnnounceStarted
  <2>2. task'.status \notin Said BY <2>1 DEF DecisionInv, EngagedOK, At
  <2>3. \A g \in Handlers : ~ At(g, "announce")'
    BY <1>2, <1>4, <2>1 DEF At, Executing
  <2>4. OutcomeSaved' /\ OutcomeHeard' BY <2>2, <2>3 DEF OutcomeSaved, OutcomeHeard
  <2> QED BY <1>1, <2>4 DEF FeedInv
<1>10. CASE GraphStep(h)
  <2>1. UNCHANGED <<worker, task, feed>> BY <1>10 DEF GraphStep, storeVars
  <2> QED BY <1>1, <2>1 DEF FeedInv, OutcomeSaved, OutcomeHeard, At
<1>11. CASE Outcome(h)
  <2>1. At(h, "graph") /\ UNCHANGED <<task, feed>> /\ worker'[h].pc = "save"
    BY <1>0, <1>11 DEF Outcome, storeVars, Activation
  <2> QED BY <1>1, <1>5, <2>1 DEF FeedInv, At
<1>12. CASE SaveOutcome(h)
  <2>1. /\ At(h, "save") /\ task' = worker[h].task
        /\ worker'[h].pc = "announce" /\ worker'[h].task = worker[h].task
    BY <1>3, <1>12 DEF SaveOutcome, SaveTask
  <2>2. \A g \in Handlers : At(g, "announce")' => g = h
    BY <1>2, <1>4, <2>1 DEF At, Executing
  <2>3. OutcomeSaved' BY <2>1, <2>2 DEF OutcomeSaved
  <2>4. OutcomeHeard' BY <2>1 DEF OutcomeHeard, At
  <2> QED BY <1>1, <2>3, <2>4 DEF FeedInv
<1>13. CASE AnnounceOutcome(h)
  <2>1. /\ At(h, "announce") /\ UNCHANGED task /\ worker'[h].pc = "ack"
        /\ feed' = TerminalEvent(worker[h].task.status)
    BY <1>3, <1>13 DEF AnnounceOutcome, AppendEvent
  <2>2. \A g \in Handlers : ~ At(g, "announce")'
    BY <1>2, <1>4, <2>1 DEF At, Executing
  <2>3. task.status \in Said => task.status = worker[h].task.status
    BY <2>1 DEF FeedInv, OutcomeSaved, Said, Awaiting, Final
  <2>4. OutcomeSaved' /\ OutcomeHeard' BY <2>1, <2>2, <2>3 DEF OutcomeSaved, OutcomeHeard
  <2> QED BY <1>1, <2>4 DEF FeedInv
<1> QED
  BY <1>6, <1>7, <1>8, <1>9, <1>10, <1>11, <1>12, <1>13, CalmWork DEF Smooth

\* What a request does to it.
LEMMA ServeFeed ==
  ASSUME Inv, DecisionInv, Smooth, FeedInv, NEW d \in Clients, Serve(d) \/ NewRequest(d),
         UNCHANGED worker
  PROVE  FeedInv'
<1>0. request \in [Clients -> RequestRecord] /\ request[d] \in RequestRecord
  BY DEF Inv, ServiceInv
<1>1. /\ \A c \in Clients : c # d => request'[c] = request[c]
      /\ Goes(d) \/ Puts(d) \/ NewRequest(d)
      /\ feed' \in {feed, "task.resumed"} \/ request[d].op = "create"
  BY CalmServe DEF Smooth, DecisionInv
<1>2. CASE request[d].op = "create"
  <2>1. Newborn(d) /\ Serve(d) BY <1>2, NothingToDo DEF FeedInv, CreateFirst
  <2>2. AnnounceRequest(d) \/ PublishRequest(d)
    BY <2>1 DEF Newborn, Serve, RecordDecision, Transition, CheckLease, SaveResumed,
       SaveUnpublished, AnnounceUnpublished, Asks
  <2>3. UNCHANGED task BY <2>2 DEF AnnounceRequest, PublishRequest, storeVars
  <2>4. OutcomeSaved' /\ OutcomeHeard'
    BY <2>1, <2>3 DEF Newborn, OutcomeSaved, OutcomeHeard, At, Said, Awaiting, Final
  <2>5. \A c \in Clients \ {d} : request'[c].op = "none" /\ request'[c].pc = "idle"
    BY <1>1, <2>1 DEF Newborn, Asks
  <2>6. CASE AnnounceRequest(d)
    <3>1. request'[d].pc = "publish" /\ request'[d].op = "create" /\ UNCHANGED queueVars
      BY <1>0, <1>2, <2>6 DEF AnnounceRequest, Proceed, RequestRecord
    <3>2. Newborn(d)' BY <2>1, <2>3, <2>5, <3>1 DEF Newborn, At, Asks, queueVars
    <3>3. CreateFirst' BY <2>5, <3>2 DEF CreateFirst
    <3> QED BY <2>4, <3>3 DEF FeedInv
  <2>7. CASE PublishRequest(d)
    <3>1. request'[d].op = "none"
      BY <1>0, <2>7 DEF PublishRequest, Done, IdleRequest
    <3>2. CreateFirst' BY <2>5, <3>1 DEF CreateFirst
    <3> QED BY <2>4, <3>2 DEF FeedInv
  <2> QED BY <2>2, <2>6, <2>7
<1>3. CASE request[d].op # "create"
  <2>1. \A c \in Clients : c # d => request'[c].op # "create"
    BY <1>1, NothingToDo DEF FeedInv
  <2>2. request'[d].op # "create"
    <3>1. NewRequest(d) => request'[d].op \in {"input", "approval", "resume"}
      <4>1. \A p \in Products : SubmitInput(d, p) => request'[d].op = "input"
        BY <1>0 DEF SubmitInput
      <4>2. \A decision \in {"approve", "reject"} :
              SubmitApproval(d, decision) => request'[d].op = "approval"
        BY <1>0 DEF SubmitApproval
      <4>3. Resume(d) => request'[d].op = "resume" BY <1>0 DEF Resume
      <4> QED BY <4>1, <4>2, <4>3 DEF NewRequest
    <3> QED BY <1>1, <1>3, <3>1 DEF Goes, Puts, IdleRequest
  <2>3. CreateFirst' BY <2>1, <2>2 DEF CreateFirst
  <2>4. UNCHANGED task \/ task'.status = "queued"
    <3>1. NewRequest(d) => UNCHANGED task
      BY DEF NewRequest, SubmitInput, SubmitApproval, Resume, storeVars
    <3>2. Puts(d) => task'.status = "queued"
      BY DEF Puts, Smooth, CalmRequest, Asks
    <3> QED BY <1>1, <3>1, <3>2 DEF Goes
  <2>5. OutcomeSaved' BY <2>4 DEF FeedInv, OutcomeSaved, At
  <2>6. OutcomeHeard'
    BY <1>1, <1>3, <2>4 DEF FeedInv, OutcomeHeard, At, Said, Awaiting, Final
  <2> QED BY <2>3, <2>5, <2>6 DEF FeedInv
<1> QED BY <1>2, <1>3

LEMMA FeedNext ==
  ASSUME Inv, LeaseHeld, DecisionInv, Smooth, FeedInv, SlowHandlers = FALSE, [Next]_vars, Calm'
  PROVE  FeedInv'
<1>1. CASE Expires
  <2>1. \A c \in Clients : request'[c].op # "create"
    BY <1>1, NothingToDo DEF Expires, FeedInv
  <2>2. \A h \in Handlers : ~ At(h, "announce")'
    BY <1>1 DEF Expires, Quiet, At
  <2>3. task'.status = "absent" BY <1>1 DEF Expires, ExpireRecord, Absent
  <2> QED
    BY <2>1, <2>2, <2>3 DEF FeedInv, CreateFirst, OutcomeSaved, OutcomeHeard, Said, Awaiting, Final
<1>2. CASE Idles
  <2>1. CreateFirst'
    <3> SUFFICES ASSUME NEW c \in Clients, request[c].op = "create" PROVE Newborn(c)'
      BY <1>2 DEF Idles, CreateFirst
    <3>1. UNCHANGED queueVars BY <1>2, NothingToDo DEF Idles, FeedInv
    <3> QED BY <1>2, <3>1 DEF Idles, FeedInv, CreateFirst, Newborn, At, Asks, queueVars
  <2>2. OutcomeSaved' /\ OutcomeHeard'
    BY <1>2 DEF Idles, FeedInv, OutcomeSaved, OutcomeHeard, At
  <2> QED BY <2>1, <2>2 DEF FeedInv
<1> QED BY <1>1, <1>2, CalmSteps, WorkFeed, ServeFeed

LEMMA InitSmooth == Init => Smooth
<1> SUFFICES ASSUME Init PROVE Smooth OBVIOUS
<1>1. task.status = "queued" /\ lease = "free" BY DEF Init, StoreInit, NewTask
<1>2. \A h \in Handlers : CalmActivation(worker[h])
  BY DEF Init, WorkerInit, IdleWorker, NoCopy, Absent, CalmActivation, CalmPC, Engaged
<1>3. PICK c \in Clients :
        request = [d \in Clients |-> IF d = c
                    THEN [IdleRequest EXCEPT !.pc = "event", !.op = "create", !.task = task]
                    ELSE IdleRequest]
  BY DEF Init, ServiceInit
<1>4. request[c].pc = "event" /\ request[c].task = task
  BY <1>3 DEF IdleRequest
<1>5. \A d \in Clients : d # c => request[d].pc = "idle" BY <1>3 DEF IdleRequest
<1>6. \A d \in Clients : CalmRequest(request[d])
  BY <1>1, <1>4, <1>5 DEF CalmRequest
<1> QED BY <1>1, <1>2, <1>6 DEF Smooth

\* Whenever nobody works on a task, the last lifecycle event of its stream is
\* the one of its status, or that of a redundant resume: for any number of
\* handlers, clients and requests, if no await raised, nothing died and
\* handlers finish within their lease's TTL.
THEOREM Heard ==
  ASSUME SlowHandlers = FALSE
  PROVE  Spec => []FeedTells
<1> DEFINE Heeded == Calm => Smooth /\ FeedInv
<1>1. Init => Heeded BY InitSmooth, InitFeed
<1>2. Inv /\ LeaseHeld /\ DecisionInv /\ Heeded /\ [Next]_vars => Heeded'
  BY CalmBefore, SmoothNext, FeedNext
<1>3. Inv /\ Heeded => FeedTells
  <2> SUFFICES ASSUME Inv, Smooth, FeedInv, Quiet
               PROVE  feed \in TellsOf(task.status) \cup {"task.resumed"}
    BY DEF FeedTells, Calm
  <2>1. feed \in Lifecycle /\ task \in TaskRecord BY DEF Inv, StoreInv, RecordOK
  <2>2. task.status \notin {"failed", "retrying"} BY DEF Smooth
  <2>3. task.status \in Said => feed \in {TerminalEvent(task.status), "task.resumed"}
    BY DEF FeedInv, OutcomeHeard, Quiet, At
  <2>4. task.status \in Said => TellsOf(task.status) = {TerminalEvent(task.status)}
    BY DEF Said, Awaiting, Final, TellsOf, TerminalEvent
  <2>5. task.status \notin Said => TellsOf(task.status) = Lifecycle
    BY <2>2 DEF Said, Awaiting, Final, TellsOf
  <2> QED BY <2>1, <2>3, <2>4, <2>5
<1> HIDE DEF Heeded
<1> QED BY <1>1, <1>2, <1>3, DecisionInvariance, PTL DEF Spec

----------------------------------------------------------------------------
(* The product of a calm instance.  Until the checkpoint has passed the     *)
(* choice of the product, a product that the record names was named by the *)
(* message the running handler took, so nothing stored meanwhile differs.  *)

Unscoped == checkpoint.at \in {"none", "scope", "input"}

\* What the record may say once the graph has diagnosed a product.
Diagnosed == {NoProduct, checkpoint.product}

\* A record waits for the product it names.
NamesOK(r) ==
  r.pending # NoMessage /\ r.pending.kind = "input" => r.product = r.pending.id

\* Whoever comes back to an unanswered interrupt names no product.
OpenOK(r) ==
  r.pending # NoMessage /\ r.pending.kind # "input" => r.product = NoProduct

\* Handlers whose copy is, or may become, the record.
Holding == Engaged \cup {"save"}

Taken(q) ==
  \E h \in Handlers : worker[h].pc \in {"started", "graph"} /\ worker[h].task.product = q

RecordScope ==
  /\ NamesOK(task)
  /\ checkpoint.at = "input" => OpenOK(task)
  /\ Unscoped /\ task.status = "running" /\ task.product # NoProduct => Taken(task.product)
  /\ ~ Unscoped => task.product \in Diagnosed

Resuming(c) == request[c].pc \in {"lease", "save"}

AskScope(c) ==
  /\ NamesOK(request[c].task)
  /\ Resuming(c) /\ checkpoint.at = "input" => OpenOK(request[c].task)
  /\ Resuming(c) /\ Unscoped /\ request[c].task.product # NoProduct =>
       Taken(request[c].task.product)
  /\ (Resuming(c) \/ request[c].op = "approval") /\ ~ Unscoped =>
       request[c].task.product \in Diagnosed

CopyScope(h) ==
  /\ worker[h].pc \in Holding =>
       /\ NamesOK(worker[h].task)
       /\ checkpoint.at = "input" => OpenOK(worker[h].task)
       /\ ~ Unscoped => worker[h].task.product \in Diagnosed
  /\ worker[h].pc \in {"started", "graph"} /\ Unscoped =>
       task.product \in {NoProduct, worker[h].task.product}

RunScope(h) ==
  /\ Unscoped =>
       /\ graph[h].at = "scope"  => graph[h].product = worker[h].task.product
       /\ graph[h].at = "input"  => worker[h].task.product = NoProduct
       /\ graph[h].at = "picked" => worker[h].msg.kind = "input"
       /\ graph[h].at \notin {"off", "scope", "input", "picked"} =>
            worker[h].task.product \in {NoProduct, graph[h].product}
  /\ ~ Unscoped /\ graph[h].at # "off" =>
       /\ graph[h].at \notin {"scope", "input", "picked"}
       /\ graph[h].product = checkpoint.product

\* Between runs the checkpoint stands where a run returns.
BetweenRuns ==
  checkpoint.at \in {"none"} \cup Returned \/ \E h \in Handlers : graph[h].at # "off"

ScopeInv ==
  /\ RecordScope /\ BetweenRuns
  /\ \A c \in Clients : AskScope(c)
  /\ \A h \in Handlers : CopyScope(h) /\ RunScope(h)

LEMMA InitScope == Init => ScopeInv
<1> SUFFICES ASSUME Init PROVE ScopeInv OBVIOUS
<1>1. /\ task.status = "queued" /\ task.pending = FirstMessage
      /\ checkpoint.at = "none" /\ \A h \in Handlers : graph[h].at = "off"
      /\ \A h \in Handlers : worker[h].pc = "idle"
  BY DEF Init, StoreInit, NewTask, GraphInit, Off, WorkerInit, IdleWorker
<1>2. NamesOK(task) /\ NamesOK(Absent)
  BY <1>1 DEF NamesOK, FirstMessage, Absent
<1>3. \A c \in Clients : request[c].pc \in {"idle", "event"} /\ request[c].op \in {"none", "create"}
                         /\ request[c].task \in {task, Absent}
  BY DEF Init, ServiceInit, IdleRequest
<1>4. RecordScope BY <1>1, <1>2 DEF RecordScope, Unscoped
<1>5. \A c \in Clients : AskScope(c)
  BY <1>1, <1>2, <1>3 DEF AskScope, Resuming, Unscoped
<1>6. \A h \in Handlers : CopyScope(h) /\ RunScope(h)
  BY <1>1 DEF CopyScope, RunScope, Holding, Engaged, Unscoped
<1> QED BY <1>1, <1>4, <1>5, <1>6 DEF ScopeInv, BetweenRuns

\* A checkpoint that catches up with the only run.
LEMMA CatchUp ==
  ASSUME Inv, DecisionInv, LeaseHeld, ScopeInv, NEW h \in Handlers, At(h, "graph"),
         graph[h].at \in Saved, checkpoint' = graph[h]
  PROVE  /\ Unscoped' => Unscoped
         /\ checkpoint'.at = "input" => worker[h].task.product = NoProduct
         /\ Unscoped =>
              /\ task.product \in {NoProduct, worker[h].task.product}
              /\ \A c \in Clients : Resuming(c) =>
                   request[c].task.product \in {NoProduct, worker[h].task.product}
         /\ ~ Unscoped' =>
              /\ task.product \in Diagnosed' /\ worker[h].task.product \in Diagnosed'
              /\ \A c \in Clients : Resuming(c) \/ request[c].op = "approval" =>
                   request[c].task.product \in Diagnosed'
<1>0. graph[h].at \notin {"none", "off", "picked"}
  <2>1. graph[h].at \in Position BY DEF Inv, GraphTypeOK
  <2> QED BY <2>1 DEF Saved, Position
<1>1. /\ RecordScope /\ CopyScope(h) /\ RunScope(h) /\ \A c \in Clients : AskScope(c)
  BY DEF ScopeInv
<1>2. \A g \in Handlers : worker[g].pc \in {"started", "graph"} => g = h
  BY AloneAtGraph DEF Executing
<1>3. worker[h].pc \in Holding /\ worker[h].pc \in {"started", "graph"}
  BY DEF At, Holding, Engaged
<1>4. Unscoped' => Unscoped
  BY <1>0, <1>1 DEF RunScope, Unscoped
<1>5. checkpoint'.at = "input" => worker[h].task.product = NoProduct
  BY <1>1 DEF RunScope, Unscoped
<1>6. ASSUME Unscoped
      PROVE  /\ task.product \in {NoProduct, worker[h].task.product}
             /\ \A c \in Clients : Resuming(c) =>
                   request[c].task.product \in {NoProduct, worker[h].task.product}
  BY <1>1, <1>2, <1>3, <1>6 DEF CopyScope, AskScope, Taken
<1>7. CASE Unscoped /\ ~ Unscoped'
  <2>1. worker[h].task.product \in Diagnosed'
    <3>1. graph[h].at \notin {"off", "scope", "input", "picked"}
      BY <1>0, <1>7 DEF Unscoped
    <3> QED BY <1>1, <1>7, <3>1 DEF RunScope, Diagnosed
  <2>2. ~ Offering BY <1>7 DEF DecisionInv, OfferStands, Unscoped
  <2>3. \A c \in Clients : request[c].op # "approval" BY <2>2 DEF Offering
  <2> QED BY <1>4, <1>5, <1>6, <1>7, <2>1, <2>3 DEF Diagnosed
<1>8. CASE ~ Unscoped
  <2>1. checkpoint'.product = checkpoint.product BY <1>0, <1>1, <1>8 DEF RunScope
  <2>2. Diagnosed' = Diagnosed BY <2>1 DEF Diagnosed
  <2> QED BY <1>1, <1>3, <1>4, <1>5, <1>8, <2>2 DEF RecordScope, CopyScope, AskScope
<1> QED BY <1>4, <1>5, <1>6, <1>7, <1>8

\* One step of the only run.
LEMMA RunStep ==
  ASSUME Inv, DecisionInv, LeaseHeld, Smooth, ScopeInv, NEW h \in Handlers, GraphStep(h)
  PROVE  /\ RunScope(h)' /\ graph'[h].at # "off"
         /\ \/ UNCHANGED checkpoint
            \/ graph[h].at \in Saved /\ checkpoint' = graph[h]
<1>0. /\ graph \in [Handlers -> [at : Position, product : Products \cup {NoProduct}]]
      /\ checkpoint \in [at : Saved, product : Products \cup {NoProduct}]
      /\ worker[h].pc = "graph" /\ UNCHANGED worker
  BY DEF Inv, GraphTypeOK, GraphStep, At
<1>1. /\ NamesOK(worker[h].task)
      /\ checkpoint.at = "input" => OpenOK(worker[h].task)
      /\ RunScope(h) /\ BetweenRuns
  BY <1>0 DEF ScopeInv, CopyScope, Holding, Engaged
<1>2. worker[h].task.pending = worker[h].msg /\ worker[h].msg \in Message /\ worker[h].msg # NoMessage
  <2>1. worker[h].msg \in Sendable
    BY <1>0 DEF Inv, WorkerInv, ActivationOK
  <2> QED BY <1>0, <2>1, NoMessageAssumption DEF Smooth, CalmActivation, Engaged, Sendable
<1>3. \A g \in Handlers : g # h => graph[g].at = "off"
  BY <1>0, AloneAtGraph DEF At
<1>4. ASSUME NEW position \in Position \ {"off"}, NEW p, MoveTo(h, position, p)
      PROVE  graph'[h].at = position /\ graph'[h].product = p
  BY <1>0, <1>4 DEF MoveTo
<1>5. CASE Enter(h, worker[h].msg, worker[h].task.product)
  <2>1. graph[h].at = "off" /\ UNCHANGED checkpoint /\ ~ MissingCheckpoint(worker[h].msg)
    BY <1>5 DEF Enter, Off
  <2>2. checkpoint.at \in {"none"} \cup Returned BY <1>1, <1>3, <2>1 DEF BetweenRuns
  <2>3. CASE checkpoint.at = "none"
    <3>1. graph'[h].at = "scope" /\ graph'[h].product = worker[h].task.product
      BY <1>0, <1>5, <2>3 DEF Enter
    <3> QED BY <1>0, <2>1, <2>3, <3>1 DEF RunScope, Unscoped
  <2>4. CASE checkpoint.at \in {"input", "approval"} /\ worker[h].msg.kind = ExpectedKind
    <3>1. /\ graph'[h].product = checkpoint.product
          /\ graph'[h].at = IF worker[h].msg.kind = "input" THEN "picked" ELSE "decided"
      BY <1>0, <1>5, <2>4 DEF Enter
    <3>2. worker[h].msg.kind = IF checkpoint.at = "approval" THEN "approval" ELSE "input"
      BY <2>4 DEF ExpectedKind
    <3>3. CASE checkpoint.at = "input"
      BY <1>0, <2>1, <3>1, <3>2, <3>3 DEF RunScope, Unscoped
    <3>4. CASE checkpoint.at = "approval"
      BY <1>0, <2>1, <3>1, <3>2, <3>4 DEF RunScope, Unscoped
    <3> QED BY <2>4, <3>3, <3>4
  <2>5. CASE /\ checkpoint.at # "none"
             /\ ~ (checkpoint.at \in {"input", "approval"} /\ worker[h].msg.kind = ExpectedKind)
    <3>1. graph'[h] = checkpoint BY <1>0, <1>5, <2>5 DEF Enter
    <3>2. CASE checkpoint.at = "input"
      <4>1. worker[h].msg.kind # "input" BY <2>5, <3>2 DEF ExpectedKind
      <4>2. worker[h].task.product = NoProduct BY <1>1, <1>2, <3>2, <4>1 DEF OpenOK
      <4> QED BY <1>0, <2>1, <3>1, <3>2, <4>2 DEF RunScope, Unscoped
    <3>3. CASE checkpoint.at # "input"
      <4>1. checkpoint.at \in {"approval", "completed", "rejected"}
        BY <2>2, <2>5, <3>3 DEF Returned
      <4> QED BY <1>0, <2>1, <3>1, <4>1 DEF RunScope, Unscoped
    <3> QED BY <3>2, <3>3
  <2> QED BY <2>3, <2>4, <2>5
<1>6. CASE Pick(h, worker[h].msg)
  <2>1. /\ graph[h].at = "picked" /\ UNCHANGED checkpoint
        /\ graph'[h].at = "diagnose" /\ graph'[h].product = worker[h].msg.id
    BY <1>4, <1>6 DEF Pick, Position
  <2>2. worker[h].msg.kind = "input" /\ Unscoped BY <1>1, <2>1 DEF RunScope
  <2>3. worker[h].task.product = worker[h].msg.id BY <1>1, <1>2, <2>2 DEF NamesOK
  <2> QED BY <1>0, <2>1, <2>2, <2>3 DEF RunScope, Unscoped
<1>7. CASE Scope(h)
  <2>1. graph[h].at = "scope" /\ UNCHANGED checkpoint BY <1>7 DEF Scope
  <2>2. Unscoped /\ graph[h].product = worker[h].task.product BY <1>1, <2>1 DEF RunScope
  <2>3. \/ /\ graph'[h].at = "diagnose"
           /\ worker[h].task.product \in {NoProduct, graph'[h].product}
        \/ graph'[h].at = "input" /\ worker[h].task.product = NoProduct
    <3>1. CASE graph[h].product # NoProduct /\ MoveTo(h, "diagnose", graph[h].product)
      BY <1>4, <2>2, <3>1 DEF Position
    <3>2. CASE graph[h].product = NoProduct /\ \E p \in Products : MoveTo(h, "diagnose", p)
      BY <1>4, <2>2, <3>2 DEF Position
    <3>3. CASE graph[h].product = NoProduct /\ MoveTo(h, "input", NoProduct)
      BY <1>4, <2>2, <3>3 DEF Position
    <3> QED BY <1>7, <3>1, <3>2, <3>3 DEF Scope
  <2> QED BY <1>0, <2>1, <2>2, <2>3 DEF RunScope, Unscoped
<1>8. CASE Plan(h) \/ AskApproval(h) \/ Decide(h)
  <2>1. /\ graph[h].at \in {"diagnose", "approve", "decided"} /\ UNCHANGED checkpoint
        /\ \E position \in {"completed", "approve", "approval", "rejected"} :
             MoveTo(h, position, graph[h].product)
    BY <1>8 DEF Plan, AskApproval, Decide
  <2>2. /\ graph'[h].at \in {"completed", "approve", "approval", "rejected"}
        /\ graph'[h].product = graph[h].product
    BY <1>4, <2>1 DEF Position
  <2> QED BY <1>0, <1>1, <2>1, <2>2 DEF RunScope, Unscoped
<1>9. CASE Persist(h)
  <2>1. /\ graph[h].at # "off" /\ UNCHANGED graph
        /\ checkpoint' = graph[h] /\ graph[h].at \in Saved
    BY <1>9 DEF Persist, Flushed
  <2>2. CASE Unscoped'
    <3>1. graph[h].at \in {"scope", "input"}
      BY <1>0, <2>1, <2>2 DEF Unscoped, Position
    <3>2. Unscoped BY <1>1, <3>1 DEF RunScope
    <3> QED BY <1>0, <1>1, <2>1, <2>2, <3>2 DEF RunScope
  <2>3. CASE ~ Unscoped'
    BY <1>0, <2>1, <2>3 DEF RunScope, Unscoped, Saved
  <2> QED BY <2>1, <2>2, <2>3
<1> QED BY <1>5, <1>6, <1>7, <1>8, <1>9 DEF GraphStep

\* A step of a handler whose run, if it has one, does not move.
LEMMA HandlerScope ==
  ASSUME Inv, DecisionInv, LeaseHeld, ScopeInv, NEW h \in Handlers,
         \A g \in Handlers : g # h => worker'[g] = worker[g],
         UNCHANGED <<request, graph, checkpoint>>, ~ At(h, "graph"),
         At(h, "started") =>
           worker'[h].pc = "graph" /\ worker'[h].task = worker[h].task /\ UNCHANGED task,
         UNCHANGED task \/ Executing(h),
         task' # task => RecordScope',
         CopyScope(h)'
  PROVE  ScopeInv'
<1>1. /\ RecordScope /\ BetweenRuns /\ \A c \in Clients : AskScope(c)
      /\ \A g \in Handlers : CopyScope(g) /\ RunScope(g)
  BY DEF ScopeInv
<1>2. ASSUME NEW q, Taken(q) PROVE Taken(q)'
  <2>1. PICK g \in Handlers : worker[g].pc \in {"started", "graph"} /\ worker[g].task.product = q
    BY <1>2 DEF Taken
  <2> QED BY <2>1 DEF Taken, At
<1>3. Unscoped' <=> Unscoped BY DEF Unscoped
<1>4. Diagnosed' = Diagnosed BY DEF Diagnosed
<1>5. RecordScope'
  <2>1. CASE UNCHANGED task
    BY <1>1, <1>2, <1>3, <1>4, <2>1 DEF RecordScope, NamesOK, OpenOK
  <2> QED BY <2>1
<1>6. ASSUME NEW c \in Clients PROVE AskScope(c)'
  BY <1>1, <1>2, <1>3, <1>4 DEF AskScope, Resuming, NamesOK, OpenOK
<1>7. ASSUME NEW g \in Handlers PROVE CopyScope(g)' /\ RunScope(g)'
  <2>1. CASE g = h
    <3>1. graph[h].at = "off" BY DEF DecisionInv, EngagedOK
    <3> QED BY <2>1, <3>1 DEF RunScope
  <2>2. CASE g # h
    <3>1. worker'[g] = worker[g] BY <2>2
    <3>2. RunScope(g)' BY <1>1, <1>3, <3>1 DEF RunScope
    <3>3. CASE UNCHANGED task
      BY <1>1, <1>3, <1>4, <3>1, <3>2, <3>3 DEF CopyScope, NamesOK, OpenOK
    <3>4. CASE Executing(h)
      <4>1. ~ Executing(g) BY <2>2, <3>4 DEF LeaseHeld
      <4>2. worker[g].pc \notin Holding /\ worker[g].pc \notin {"started", "graph"}
        <5>1. ~ (worker[g].pc \in Holding) /\ ~ (worker[g].pc \in {"started", "graph"})
          BY <4>1 DEF Executing, Holding, Engaged
        <5> QED BY <5>1
      <4> QED BY <3>1, <3>2, <4>2 DEF CopyScope
    <3> QED BY <3>3, <3>4
  <2> QED BY <2>1, <2>2
<1>8. BetweenRuns' BY <1>1 DEF BetweenRuns
<1> QED BY <1>5, <1>6, <1>7, <1>8 DEF ScopeInv

\* What the checkpoint's catching up means to record and requests.
LEMMA CaughtUp ==
  ASSUME Inv, DecisionInv, LeaseHeld, ScopeInv, NEW h \in Handlers, At(h, "graph"),
         graph[h].at \in Saved, checkpoint' = graph[h], UNCHANGED <<task, request>>,
         \A q : Unscoped' /\ Taken(q) /\ q # NoProduct => Taken(q)' \/ checkpoint'.at = "input"
  PROVE  RecordScope' /\ \A c \in Clients : AskScope(c)'
<1>1. RecordScope /\ \A c \in Clients : AskScope(c) BY DEF ScopeInv
<1> DEFINE p == worker[h].task.product
<1>2. /\ Unscoped' => Unscoped
      /\ checkpoint'.at = "input" => p = NoProduct
      /\ Unscoped =>
           /\ task.product \in {NoProduct, p}
           /\ \A c \in Clients : Resuming(c) => request[c].task.product \in {NoProduct, p}
      /\ ~ Unscoped' =>
           /\ task.product \in Diagnosed'
           /\ \A c \in Clients : Resuming(c) \/ request[c].op = "approval" =>
                request[c].task.product \in Diagnosed'
  BY CatchUp
<1>3. checkpoint'.at = "input" => Unscoped' BY DEF Unscoped
<1> HIDE DEF p
<1>4. checkpoint'.at = "input" =>
        /\ task.product = NoProduct
        /\ \A c \in Clients : Resuming(c) => request[c].task.product = NoProduct
  BY <1>2, <1>3
<1>5. RecordScope'
  <2>1. NamesOK(task)' BY <1>1 DEF RecordScope, NamesOK
  <2>2. checkpoint'.at = "input" => OpenOK(task)' BY <1>4 DEF OpenOK
  <2>3. Unscoped' /\ task.status = "running" /\ task.product # NoProduct => Taken(task.product)'
    BY <1>1, <1>2, <1>4 DEF RecordScope
  <2> QED BY <1>2, <2>1, <2>2, <2>3 DEF RecordScope
<1>6. ASSUME NEW c \in Clients PROVE AskScope(c)'
  <2>1. NamesOK(request[c].task)' BY <1>1 DEF AskScope, NamesOK
  <2>2. Resuming(c)' <=> Resuming(c) BY DEF Resuming
  <2>3. Resuming(c) /\ checkpoint'.at = "input" => OpenOK(request[c].task)' BY <1>4 DEF OpenOK
  <2>4. Resuming(c) /\ Unscoped' /\ request[c].task.product # NoProduct =>
          Taken(request[c].task.product)'
    BY <1>1, <1>2, <1>4 DEF AskScope
  <2> QED BY <1>2, <2>1, <2>2, <2>3, <2>4 DEF AskScope
<1> QED BY <1>5, <1>6

LEMMA GraphScope ==
  ASSUME Inv, DecisionInv, LeaseHeld, Smooth, ScopeInv, NEW h \in Handlers, GraphStep(h),
         UNCHANGED request
  PROVE  ScopeInv'
<1>0. GraphTypeOK /\ At(h, "graph") /\ UNCHANGED <<worker, task>>
  BY DEF Inv, GraphStep, storeVars
<1>1. /\ RecordScope /\ (\A c \in Clients : AskScope(c))
      /\ \A g \in Handlers : CopyScope(g) /\ RunScope(g)
  BY DEF ScopeInv
<1>2. /\ RunScope(h)' /\ graph'[h].at # "off"
      /\ \/ UNCHANGED checkpoint
         \/ graph[h].at \in Saved /\ checkpoint' = graph[h]
  BY RunStep
<1>3. \A q : Taken(q)' <=> Taken(q) BY <1>0 DEF Taken
<1>4. \A g \in Handlers : g # h => graph[g].at = "off" /\ worker[g].pc \notin Holding
  BY <1>0, AloneAtGraph DEF Executing, Holding, Engaged
<1>5. ASSUME NEW g \in Handlers PROVE RunScope(g)'
  <2>1. CASE g # h
    <3>1. graph'[g].at = "off" BY <1>0, <1>4, <2>1, GraphDecides
    <3> QED BY <3>1 DEF RunScope
  <2> QED BY <1>2, <2>1
<1>6. BetweenRuns' BY <1>2 DEF BetweenRuns
<1>7. CASE UNCHANGED checkpoint
  <2>1. RecordScope' /\ \A c \in Clients : AskScope(c)'
    BY <1>0, <1>1, <1>3, <1>7 DEF RecordScope, AskScope, Unscoped, Diagnosed, Resuming, NamesOK, OpenOK
  <2>2. \A g \in Handlers : CopyScope(g)'
    BY <1>0, <1>1, <1>7 DEF CopyScope, Unscoped, Diagnosed, NamesOK, OpenOK
  <2> QED BY <1>5, <1>6, <2>1, <2>2 DEF ScopeInv
<1>8. CASE graph[h].at \in Saved /\ checkpoint' = graph[h]
  <2>1. RecordScope' /\ \A c \in Clients : AskScope(c)'
    BY <1>0, <1>3, <1>8, CaughtUp
  <2>2. /\ Unscoped' => Unscoped
        /\ checkpoint'.at = "input" => worker[h].task.product = NoProduct
        /\ ~ Unscoped' => worker[h].task.product \in Diagnosed'
    BY <1>0, <1>8, CatchUp
  <2>3. ASSUME NEW g \in Handlers PROVE CopyScope(g)'
    <3>1. CASE g # h
      <4>1. worker[g].pc \notin Holding /\ worker[g].pc \notin {"started", "graph"}
        BY <1>4, <3>1 DEF Holding, Engaged
      <4> QED BY <1>0, <4>1 DEF CopyScope
    <3>2. CASE g = h
      BY <1>0, <1>1, <2>2, <3>2 DEF CopyScope, NamesOK, OpenOK
    <3> QED BY <3>1, <3>2
  <2> QED BY <1>5, <1>6, <2>1, <2>3 DEF ScopeInv
<1> QED BY <1>2, <1>7, <1>8

LEMMA OutcomeScope ==
  ASSUME Inv, DecisionInv, LeaseHeld, Smooth, ScopeInv, NEW h \in Handlers, Outcome(h),
         \A g \in Handlers : g # h => worker'[g] = worker[g],
         UNCHANGED request
  PROVE  ScopeInv'
<1>0. /\ worker \in [Handlers -> Activation] /\ worker[h] \in Activation
      /\ graph \in [Handlers -> [at : Position, product : Products \cup {NoProduct}]]
  BY DEF Inv, WorkerInv, GraphTypeOK
<1>1. /\ UNCHANGED task /\ At(h, "graph") /\ graph[h].at \in Returned
      /\ checkpoint' = graph[h] /\ graph' = [graph EXCEPT ![h] = Off]
  BY <1>0 DEF Outcome, Return, Leave, Flushed, Returned, Saved, storeVars
<1>2. graph[h].at \in Saved BY <1>1 DEF Returned, Saved
<1>3. worker'[h].pc = "save" /\ worker'[h].task.product = worker[h].task.product
      /\ worker'[h].task.pending = NoMessage
  <2>1. /\ worker'[h].pc = "save"
        /\ worker'[h].task = [worker[h].task EXCEPT !.status = OutcomeStatus(graph[h].at),
                                                    !.error = "none", !.pending = NoMessage]
    BY <1>0 DEF Outcome, Activation
  <2> QED BY <1>0, <2>1 DEF Activation, TaskRecord
<1>4. \A g \in Handlers : g # h => graph[g].at = "off" /\ worker[g].pc \notin Holding
  BY <1>1, AloneAtGraph DEF Executing, Holding, Engaged
<1>5. Unscoped' => checkpoint'.at = "input" BY <1>1 DEF Unscoped, Returned
<1>6. RecordScope' /\ \A c \in Clients : AskScope(c)'
  BY <1>1, <1>2, <1>5, CaughtUp
<1>7. ~ Unscoped' => worker[h].task.product \in Diagnosed'
  BY <1>1, <1>2, CatchUp
<1>8. ASSUME NEW g \in Handlers PROVE CopyScope(g)'
  <2>1. CASE g # h
    <3>1. worker[g].pc \notin Holding /\ worker[g].pc \notin {"started", "graph"}
      BY <1>4, <2>1 DEF Holding, Engaged
    <3> QED BY <2>1, <3>1 DEF CopyScope
  <2>2. CASE g = h
    BY <1>3, <1>7, <2>2 DEF CopyScope, NamesOK, OpenOK
  <2> QED BY <2>1, <2>2
<1>9. \A g \in Handlers : RunScope(g)'
  <2>1. \A g \in Handlers : graph'[g].at = "off" BY <1>0, <1>1, <1>4 DEF Off
  <2> QED BY <2>1 DEF RunScope
<1>10. BetweenRuns' BY <1>1 DEF BetweenRuns
<1> QED BY <1>6, <1>8, <1>9, <1>10 DEF ScopeInv

LEMMA WorkScope ==
  ASSUME Inv, DecisionInv, LeaseHeld, Smooth, ScopeInv, NEW h \in Handlers, Work(h),
         UNCHANGED request
  PROVE  ScopeInv'
<1>0. WorkerInv /\ worker \in [Handlers -> Activation] BY DEF Inv, WorkerInv
<1>1. \A g \in Handlers : g # h => worker'[g] = worker[g] BY <1>0, OthersStill
<1>2. \A pc : Goto(h, pc) => worker'[h].pc = pc /\ worker'[h].task = worker[h].task
  BY <1>0 DEF Goto, Activation
<1>3. RecordScope /\ CopyScope(h) BY DEF ScopeInv
<1>4. CASE Elsewhere(h)
  <2>1. worker'[h].pc \notin Holding /\ worker'[h].pc \notin {"started", "graph"}
    BY <1>4 DEF Elsewhere, Holding, Engaged
  <2>2. CopyScope(h)' BY <2>1 DEF CopyScope
  <2> QED BY <1>1, <1>4, <2>2, HandlerScope DEF Elsewhere, At
<1>5. CASE Takes(h)
  <2>1. /\ UNCHANGED <<task, checkpoint, graph>> /\ At(h, "load") /\ worker'[h].pc = "mark"
        /\ worker'[h].task.product = task.product /\ worker'[h].task.pending = task.pending
    BY <1>5 DEF Takes
  <2>2. CopyScope(h)'
    BY <1>3, <2>1 DEF CopyScope, RecordScope, NamesOK, OpenOK, Unscoped, Diagnosed
  <2> QED BY <1>1, <2>1, <2>2, HandlerScope DEF At
<1>6. CASE Mark(h)
  <2>1. /\ UNCHANGED <<checkpoint, graph>> /\ At(h, "mark") /\ task' = worker[h].task
        /\ worker'[h].pc = "started" /\ worker'[h].task = worker[h].task
    BY <1>2, <1>6 DEF Mark, SaveTask, graphVars
  <2>2. /\ NamesOK(worker[h].task)
        /\ checkpoint.at = "input" => OpenOK(worker[h].task)
        /\ ~ Unscoped => worker[h].task.product \in Diagnosed
    BY <1>3, <2>1 DEF CopyScope, Holding, Engaged, At
  <2>3. Taken(task.product)' BY <2>1 DEF Taken
  <2>4. RecordScope'
    BY <2>1, <2>2, <2>3 DEF RecordScope, NamesOK, OpenOK, Unscoped, Diagnosed
  <2>5. CopyScope(h)'
    BY <2>1, <2>2 DEF CopyScope, NamesOK, OpenOK, Unscoped, Diagnosed
  <2> QED BY <1>1, <2>1, <2>4, <2>5, HandlerScope DEF At, Executing
<1>7. CASE AnnounceStarted(h)
  <2>1. /\ UNCHANGED <<task, checkpoint, graph>> /\ At(h, "started")
        /\ worker'[h].pc = "graph" /\ worker'[h].task = worker[h].task
    BY <1>2, <1>7 DEF AnnounceStarted, graphVars
  <2>2. CopyScope(h)'
    BY <1>3, <2>1 DEF CopyScope, Holding, Engaged, At, NamesOK, OpenOK, Unscoped, Diagnosed
  <2> QED BY <1>1, <2>1, <2>2, HandlerScope DEF At
<1>8. CASE GraphStep(h) BY <1>8, GraphScope
<1>9. CASE Outcome(h) BY <1>1, <1>9, OutcomeScope
<1>10. CASE SaveOutcome(h)
  <2>1. /\ UNCHANGED <<checkpoint, graph>> /\ At(h, "save") /\ task' = worker[h].task
        /\ worker'[h].pc = "announce" /\ worker'[h].task = worker[h].task
    BY <1>2, <1>10 DEF SaveOutcome, SaveTask, graphVars
  <2>2. /\ NamesOK(worker[h].task)
        /\ checkpoint.at = "input" => OpenOK(worker[h].task)
        /\ ~ Unscoped => worker[h].task.product \in Diagnosed
    BY <1>3, <2>1 DEF CopyScope, Holding, Engaged, At
  <2>3. task'.status # "running"
    BY <2>1 DEF Inv, WorkerInv, ActivationOK, At, Awaiting, Final
  <2>4. RecordScope'
    BY <2>1, <2>2, <2>3 DEF RecordScope, NamesOK, OpenOK, Unscoped, Diagnosed
  <2>5. CopyScope(h)' BY <2>1 DEF CopyScope, Holding, Engaged
  <2> QED BY <1>1, <2>1, <2>4, <2>5, HandlerScope DEF At, Executing
<1>11. CASE AnnounceOutcome(h)
  <2>1. /\ UNCHANGED <<task, checkpoint, graph>> /\ At(h, "announce") /\ worker'[h].pc = "ack"
    BY <1>2, <1>11 DEF AnnounceOutcome, graphVars
  <2>2. CopyScope(h)' BY <2>1 DEF CopyScope, Holding, Engaged
  <2> QED BY <1>1, <2>1, <2>2, HandlerScope DEF At
<1> QED
  BY <1>4, <1>5, <1>6, <1>7, <1>8, <1>9, <1>10, <1>11, CalmWork DEF Smooth

LEMMA ServeScope ==
  ASSUME Inv, DecisionInv, LeaseHeld, Smooth, ScopeInv, NEW d \in Clients,
         Serve(d) \/ NewRequest(d), UNCHANGED worker
  PROVE  ScopeInv'
<1>0. /\ request \in [Clients -> RequestRecord] /\ request[d] \in RequestRecord
      /\ task \in TaskRecord /\ RecordOK(task)
  BY DEF Inv, ServiceInv, StoreInv, RecordOK
<1>1. /\ \A c \in Clients : c # d => request'[c] = request[c]
      /\ UNCHANGED <<graph, checkpoint>>
      /\ Goes(d) \/ Puts(d) \/ NewRequest(d)
  BY CalmServe DEF Smooth, DecisionInv
<1>2. /\ RecordScope /\ BetweenRuns /\ AskScope(d) /\ \A c \in Clients : AskScope(c)
      /\ \A h \in Handlers : CopyScope(h) /\ RunScope(h)
  BY DEF ScopeInv
<1>3. (Unscoped' <=> Unscoped) /\ Diagnosed' = Diagnosed /\ \A q : Taken(q)' <=> Taken(q)
  BY <1>1 DEF Unscoped, Diagnosed, Taken
<1>4. BetweenRuns' /\ \A h \in Handlers : RunScope(h)'
  BY <1>1, <1>2, <1>3 DEF BetweenRuns, RunScope
<1>5. \A c \in Clients : c # d => AskScope(c)'
  BY <1>1, <1>2, <1>3 DEF AskScope, Resuming, NamesOK, OpenOK
<1>6. ASSUME UNCHANGED task PROVE RecordScope' /\ \A h \in Handlers : CopyScope(h)'
  BY <1>1, <1>2, <1>3, <1>6 DEF RecordScope, CopyScope, NamesOK, OpenOK
<1>7. CASE Goes(d)
  <2>1. UNCHANGED task BY <1>7 DEF Goes
  <2>2. AskScope(d)'
    <3>1. CASE request'[d] = IdleRequest
      BY <3>1 DEF IdleRequest, Absent, AskScope, Resuming, NamesOK
    <3>2. CASE /\ request'[d].task = request[d].task /\ request'[d].op = request[d].op
               /\ request'[d].pc = "save" => request[d].pc = "lease"
               /\ request'[d].pc # "lease"
      <4>1. Resuming(d)' => Resuming(d) BY <3>2 DEF Resuming
      <4> QED BY <1>1, <1>2, <1>3, <3>2, <4>1 DEF AskScope, NamesOK, OpenOK
    <3> QED BY <1>7, <3>1, <3>2 DEF Goes
  <2> QED BY <1>2, <1>4, <1>5, <1>6, <2>1, <2>2 DEF ScopeInv
<1>8. CASE Puts(d)
  <2>1. /\ task' = request[d].task /\ request'[d].task = request[d].task
        /\ request'[d].op = request[d].op /\ request'[d].pc = "event"
        /\ \/ Asks(d, "save")
           \/ Asks(d, "transition") /\ task.status = request[d].expected
    BY <1>8 DEF Puts
  <2>2. task'.status = "queued" /\ NamesOK(task')
    BY <1>2, <2>1 DEF Smooth, CalmRequest, Asks, AskScope
  <2>3. AskScope(d)'
    BY <1>1, <1>2, <1>3, <2>1 DEF AskScope, Resuming, NamesOK, OpenOK
  <2>4. /\ checkpoint.at = "input" => OpenOK(task')
        /\ ~ Unscoped => task'.product \in Diagnosed
        /\ \A h \in Handlers : worker[h].pc \in {"started", "graph"} /\ Unscoped =>
             task'.product \in {NoProduct, worker[h].task.product}
    <3>1. CASE Asks(d, "save")
      <4>1. Resuming(d) BY <3>1 DEF Resuming, Asks
      <4>2. \A g, h \in Handlers : worker[g].pc \in {"started", "graph"}
                                    /\ worker[h].pc \in {"started", "graph"} => g = h
        BY DEF LeaseHeld, Executing
      <4> QED BY <1>2, <2>1, <4>1, <4>2 DEF AskScope, Taken
    <3>2. CASE Asks(d, "transition") /\ request[d].op = "input"
      <4>1. task.status = "awaiting_input" /\ request[d].task.pending.kind = "input"
        BY <2>1, <3>2 DEF Smooth, CalmRequest, Asks
      <4>2. checkpoint.at = "input" BY <4>1 DEF DecisionInv, Told, Behind
      <4>3. \A h \in Handlers : worker[h].pc \notin {"started", "graph"}
        BY <4>1 DEF DecisionInv, EngagedOK, Said, Awaiting
      <4> QED BY <2>1, <4>1, <4>2, <4>3 DEF OpenOK, Unscoped
    <3>3. CASE Asks(d, "transition") /\ request[d].op # "input"
      <4>1. request[d].op = "approval" BY <3>3 DEF Smooth, CalmRequest, Asks
      <4>2. ~ Unscoped BY <4>1 DEF DecisionInv, OfferStands, Offering, Unscoped
      <4> QED BY <1>2, <2>1, <4>1, <4>2 DEF AskScope, Unscoped
    <3> QED BY <2>1, <3>1, <3>2, <3>3
  <2>5. RecordScope'
    BY <1>1, <1>3, <2>2, <2>4 DEF RecordScope, NamesOK, OpenOK
  <2>6. \A h \in Handlers : CopyScope(h)'
    BY <1>1, <1>2, <1>3, <2>4 DEF CopyScope, NamesOK, OpenOK
  <2> QED BY <1>2, <1>4, <1>5, <2>3, <2>5, <2>6 DEF ScopeInv
<1>9. CASE NewRequest(d)
  <2>1. UNCHANGED task
    BY <1>9 DEF NewRequest, SubmitInput, SubmitApproval, Resume, storeVars
  <2>2. ASSUME NEW p \in Products, SubmitInput(d, p) PROVE AskScope(d)'
    <3> DEFINE m == [attempt |-> 0, kind |-> "input", id |-> p]
               r == [task EXCEPT !.product = p, !.status = "queued", !.pending = m]
    <3>1. request'[d].pc = "transition" /\ request'[d].op = "input" /\ request'[d].task = r
      BY <1>0, <2>2 DEF SubmitInput
    <3>2. r.product = p /\ r.pending = m /\ m.id = p BY <1>0 DEF TaskRecord
    <3> HIDE DEF r, m
    <3> QED BY <3>1, <3>2 DEF AskScope, Resuming, NamesOK
  <2>3. ASSUME NEW decision \in {"approve", "reject"}, SubmitApproval(d, decision)
        PROVE  AskScope(d)'
    <3> DEFINE r == [task EXCEPT !.status = "queued", !.error = "none",
                                 !.pending = ApprovalMessage]
    <3>1. request'[d].pc = "record" /\ request'[d].task = r
      BY <1>0, <2>3 DEF SubmitApproval
    <3>2. r.product = task.product /\ r.pending = ApprovalMessage BY <1>0 DEF TaskRecord
    <3>3. ApprovalMessage.kind # "input" BY DEF ApprovalMessage
    <3> HIDE DEF r
    <3> QED BY <1>1, <1>2, <1>3, <3>1, <3>2, <3>3 DEF AskScope, Resuming, NamesOK, RecordScope
  <2>4. ASSUME Resume(d) PROVE AskScope(d)'
    <3> DEFINE r == [task EXCEPT !.status = "queued", !.error = "none",
                                 !.pending = ResumedMessage]
    <3>1. /\ request'[d].op = "resume" /\ request'[d].task = r
          /\ task.status = "running"
      BY <1>0, <2>4 DEF Resume, Smooth
    <3>2. r.product = task.product /\ r.pending = ResumedMessage BY <1>0 DEF TaskRecord
    <3>3. task.pending \in Message /\ task.pending # NoMessage
      BY <1>0, <3>1, NoMessageAssumption DEF RecordOK, TaskRecord, Awaiting, Final
    <3>4. /\ ResumedMessage.kind = "input" <=> task.pending.kind = "input"
          /\ task.pending.kind = "input" => ResumedMessage.id = task.pending.id
      <4>1. CASE task.pending.kind # "none"
        <5>1. ResumedMessage = [task.pending EXCEPT !.attempt = ResumedAttempt]
          BY <3>3, <4>1 DEF ResumedMessage
        <5> QED BY <3>3, <5>1 DEF Message
      <4>2. CASE task.pending.kind = "none"
        BY <3>3, <4>2 DEF ResumedMessage
      <4> QED BY <4>1, <4>2
    <3> HIDE DEF r
    <3>5. NamesOK(r) BY <1>2, <3>2, <3>3, <3>4 DEF RecordScope, NamesOK
    <3>6. OpenOK(task) => OpenOK(r) BY <3>2, <3>3, <3>4 DEF OpenOK
    <3> QED BY <1>1, <1>2, <1>3, <3>1, <3>2, <3>5, <3>6 DEF AskScope, Resuming, RecordScope
  <2> QED BY <1>2, <1>4, <1>5, <1>6, <1>9, <2>1, <2>2, <2>3, <2>4 DEF ScopeInv, NewRequest
<1> QED BY <1>1, <1>7, <1>8, <1>9

LEMMA ScopeNext ==
  ASSUME Inv, LeaseHeld, DecisionInv, Smooth, ScopeInv, SlowHandlers = FALSE, [Next]_vars, Calm'
  PROVE  ScopeInv'
<1>1. CASE UNCHANGED <<checkpoint, graph, worker, request>> /\ task' \in {task, Absent}
  <2>1. (Unscoped' <=> Unscoped) /\ Diagnosed' = Diagnosed /\ \A q : Taken(q)' <=> Taken(q)
    BY <1>1 DEF Unscoped, Diagnosed, Taken
  <2>2. /\ Absent.pending = NoMessage /\ Absent.product = NoProduct /\ Absent.status # "running"
    BY DEF Absent
  <2>3. RecordScope'
    <3>1. NamesOK(task') /\ (checkpoint.at = "input" => OpenOK(task'))
      BY <1>1, <2>2 DEF ScopeInv, RecordScope, NamesOK, OpenOK
    <3>2. CASE task' = task
      BY <1>1, <2>1, <3>2 DEF ScopeInv, RecordScope, NamesOK, OpenOK
    <3>3. CASE task' = Absent
      BY <1>1, <2>1, <2>2, <3>3 DEF RecordScope, NamesOK, OpenOK, Diagnosed
    <3> QED BY <1>1, <3>2, <3>3
  <2>4. \A c \in Clients : AskScope(c)'
    BY <1>1, <2>1 DEF ScopeInv, AskScope, Resuming, NamesOK, OpenOK
  <2>5. \A h \in Handlers : CopyScope(h)'
    BY <1>1, <2>1, <2>2 DEF ScopeInv, CopyScope, NamesOK, OpenOK
  <2>6. BetweenRuns' /\ \A h \in Handlers : RunScope(h)'
    BY <1>1, <2>1 DEF ScopeInv, BetweenRuns, RunScope
  <2> QED BY <2>3, <2>4, <2>5, <2>6 DEF ScopeInv
<1>2. Expires => UNCHANGED <<checkpoint, graph, worker, request>> /\ task' \in {task, Absent}
  BY DEF Expires, ExpireRecord
<1>3. Idles => UNCHANGED <<checkpoint, graph, worker, request>> /\ task' \in {task, Absent}
  BY DEF Idles
<1> QED BY <1>1, <1>2, <1>3, CalmSteps, WorkScope, ServeScope

\* The product in the record of a diagnosed task is the one that was diagnosed,
\* whatever products the clients name and whatever they resume, for any number
\* of handlers, clients, products and requests, if no await raised, nothing
\* died and handlers finish within their lease's TTL.
THEOREM Scoped ==
  ASSUME SlowHandlers = FALSE
  PROVE  Spec => []ScopeAgrees
<1> DEFINE Heeded == Calm => Smooth /\ ScopeInv
<1>1. Init => Heeded BY InitSmooth, InitScope
<1>2. Inv /\ LeaseHeld /\ DecisionInv /\ Heeded /\ [Next]_vars => Heeded'
  BY CalmBefore, SmoothNext, ScopeNext
<1>3. DecisionInv /\ Heeded => ScopeAgrees
  <2> SUFFICES ASSUME DecisionInv, ScopeInv,
                      task.status \in {"awaiting_approval", "completed", "rejected"}
               PROVE  task.product \in {NoProduct, checkpoint.product}
    BY DEF ScopeAgrees, Calm
  <2>1. checkpoint.at \in {"approval", "completed", "rejected"}
    BY DEF DecisionInv, Told, Behind
  <2> QED BY <2>1 DEF ScopeInv, RecordScope, Unscoped, Diagnosed
<1> HIDE DEF Heeded
<1> QED BY <1>1, <1>2, <1>3, DecisionInvariance, PTL DEF Spec

=============================================================================
