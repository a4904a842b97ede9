------------------------- MODULE TaskDecisionProofs ------------------------
(***************************************************************************)
(* What a status of the record says about the graph and the ledger, proved *)
(* for every instance in which no lease expires under a running handler:   *)
(* an offer that can be answered, and a completed task whose approved      *)
(* change was applied; with them the system implements OneDecision.        *)
(* Between the two, without that premise: an answer never comes before the *)
(* checkpoint it belongs to.                                               *)
(***************************************************************************)
EXTENDS TaskSystemProofs

----------------------------------------------------------------------------
(* The inductive invariant.                                                *)

\* The statuses with which the record repeats what a graph returned.
Said == Awaiting \cup Final

\* Where the checkpoint stands behind a record, or a copy, of that status.
Behind(status) ==
  CASE status = "awaiting_input"    -> {"input"}
    [] status = "awaiting_approval" -> {"approval"}
    [] status = "completed"         -> {"completed"}
    [] status = "rejected"          -> {"rejected"}
    [] OTHER                        -> Saved

\* Where a run can stand once the checkpoint says so: it asked for approval
\* only to execute the answer, and what has ended stays ended.
Beyond(at) ==
  CASE at = "approval"                 -> {"off", "approval", "decided", "completed", "rejected"}
    [] at \in {"completed", "rejected"} -> {"off", at}
    [] OTHER                           -> Position

\* A run and a copy belong to a handler that executes; one about to run, or
\* running, has saved "running" and nobody has told of an outcome since.
EngagedOK(h) ==
  /\ graph[h].at # "off" => At(h, "graph")
  /\ worker[h].task.status # "absent" => Executing(h)
  /\ worker[h].pc \in {"mark", "started", "graph"} => worker[h].task.status = "running"
  /\ worker[h].pc \in {"started", "graph"} => task.status \notin Said

\* A request never reports an outcome, and decides with a decision.
AskingOK(c) ==
  /\ request[c].task.status \in {"queued", "failed", "absent"}
  /\ request[c].pc = "record" => request[c].op = "approval" /\ request[c].decision # "none"

Told ==
  /\ checkpoint.at \in Behind(task.status)
  /\ \A h \in Handlers : checkpoint.at \in Behind(worker[h].task.status)

Forward == \A h \in Handlers : graph[h].at \in Beyond(checkpoint.at)

\* Whoever is at or past create_plan finds a plan.
Planned ==
  \/ checkpoint.at \in {"approve", "approval"}
  \/ \E h \in Handlers : graph[h].at \in {"approve", "approval", "decided"}
  => change # "none"

Decided == change \in {"approve", "reject", "applied"}

\* The plan has left the worker for the merchant's eyes, or is about to.
Offering ==
  \/ offered \/ Decided
  \/ task.status = "awaiting_approval"
  \/ \E h \in Handlers : worker[h].task.status = "awaiting_approval"
  \/ \E c \in Clients : request[c].op = "approval"

\* From then on there is a plan, and the checkpoint stands at its approval or
\* behind it.
OfferStands ==
  Offering => checkpoint.at \in {"approval", "completed", "rejected"} /\ change # "none"

\* Then only the run that applied the change completes.
CompletionApplies ==
  /\ Offering
  /\ checkpoint.at = "completed" \/ \E h \in Handlers : graph[h].at = "completed"
  => change = "applied"

DecisionInv ==
  /\ \A h \in Handlers : EngagedOK(h)
  /\ \A c \in Clients : AskingOK(c)
  /\ Told /\ Forward /\ Planned /\ OfferStands /\ CompletionApplies

LEMMA OffIsBeyond == \A at \in Saved : "off" \in Beyond(at)
BY DEF Beyond, Position, Saved

LEMMA SilentStatus == \A status : status \notin Said => Behind(status) = Saved
BY DEF Behind, Said, Awaiting, Final

LEMMA InitDecision == Init => DecisionInv
<1> SUFFICES ASSUME Init PROVE DecisionInv OBVIOUS
<1>1. /\ task.status = "queued" /\ change = "none" /\ offered = FALSE /\ checkpoint.at = "none"
      /\ \A h \in Handlers : graph[h].at = "off" /\ worker[h] = IdleWorker
  BY DEF Init, StoreInit, NewTask, GraphInit, Off, WorkerInit, ServiceInit
<1>2. IdleWorker.task.status = "absent" /\ IdleWorker.pc = "idle"
  BY DEF IdleWorker, NoCopy, Absent
<1>3. \A c \in Clients : /\ request[c].task.status \in {"queued", "absent"}
                         /\ request[c].pc \in {"event", "idle"}
                         /\ request[c].op \in {"create", "none"}
  BY <1>1 DEF Init, ServiceInit, IdleRequest, Absent
<1>4. (\A h \in Handlers : EngagedOK(h)) /\ \A c \in Clients : AskingOK(c)
  BY <1>1, <1>2, <1>3 DEF EngagedOK, AskingOK
<1>5. Told
  BY <1>1, <1>2 DEF Told, Behind, Saved
<1>6. Forward
  BY <1>1, OffIsBeyond DEF Forward, Saved
<1>7. Planned /\ OfferStands /\ CompletionApplies
  BY <1>1, <1>2, <1>3 DEF Planned, OfferStands, CompletionApplies, Offering, Decided
<1> QED BY <1>4, <1>5, <1>6, <1>7 DEF DecisionInv

----------------------------------------------------------------------------
(* The steps of a handler, by what they do to the record and the graph.    *)

\* It touches neither.
Keeps(h) ==
  /\ UNCHANGED <<task, graph, checkpoint, change>>
  /\ ~ At(h, "graph")
  /\ worker'[h].task.status \in {worker[h].task.status, "absent", "running", "retrying", "failed"}
  /\ worker'[h].task.status # "absent" => Executing(h)'
  /\ worker'[h].pc \in {"mark", "started", "graph"} => worker'[h].task.status = "running"
  /\ worker'[h].pc \in {"started", "graph"} => worker[h].pc = "started"

\* It stores its copy.
Stores(h) ==
  /\ UNCHANGED <<graph, checkpoint, change>>
  /\ task' = worker[h].task
  /\ worker'[h].task = worker[h].task
  /\ ~ At(h, "graph") /\ Executing(h) /\ Executing(h)'
  /\ worker'[h].pc \notin {"mark", "graph"}
  /\ worker'[h].pc = "started" => worker[h].pc = "mark"

\* Its run has raised.
Raised(h) ==
  /\ At(h, "graph")
  /\ UNCHANGED <<task, change>>
  /\ Leave(h)
  /\ worker'[h].pc \in {"reject", "resave"}
  /\ worker'[h].task.status \in {worker[h].task.status, "retrying", "failed"}

\* Moving on with the same copy.
LEMMA GotoKeeps ==
  ASSUME WorkerInv, NEW h \in Handlers, EngagedOK(h), NEW pc, Goto(h, pc),
         UNCHANGED <<task, graph, checkpoint, change>>, ~ At(h, "graph"),
         pc \in {"idle", "delay", "requeue", "ack_delayed", "stranded"} => ~ Executing(h),
         pc \notin {"mark", "started"},
         pc = "graph" => worker[h].pc = "started"
  PROVE  Keeps(h)
<1>1. worker'[h].pc = pc /\ worker'[h].task = worker[h].task
  BY DEF Goto, WorkerInv, Activation
<1> QED BY <1>1 DEF Keeps, EngagedOK, Executing

\* Settling the message or ending drops the copy.
LEMMA DropKeeps ==
  ASSUME WorkerInv, NEW h \in Handlers, NEW pc \in {"idle", "release"},
         Settled(h, pc) \/ Finish(h),
         UNCHANGED <<task, graph, checkpoint, change>>, ~ At(h, "graph")
  PROVE  Keeps(h)
<1>1. CASE Settled(h, pc)
  <2>1. worker'[h] = [IdleWorker EXCEPT !.pc = pc] BY <1>1 DEF Settled, WorkerInv
  <2>2. worker'[h].pc = pc /\ worker'[h].task.status = "absent"
    BY <2>1 DEF IdleWorker, NoCopy, Absent
  <2> QED BY <2>2 DEF Keeps
<1>2. CASE Finish(h)
  <2>1. worker'[h] = IF worker[h].live THEN [worker[h] EXCEPT !.pc = "stranded", !.task = NoCopy]
                     ELSE IdleWorker
    BY <1>2 DEF Finish, WorkerInv
  <2>2. worker'[h].pc \in {"idle", "stranded"} /\ worker'[h].task.status = "absent"
    BY <2>1 DEF IdleWorker, NoCopy, Absent, WorkerInv, Activation
  <2> QED BY <2>2 DEF Keeps
<1> QED BY <1>1, <1>2

\* What _handle_failure makes of the copy.
LEMMA FailureCopy ==
  ASSUME Inv, NEW h \in Handlers, NEW e, HandleFailure(h, e)
  PROVE  /\ worker'[h].pc \in {"reject", "resave"}
         /\ worker'[h].task.status \in {worker[h].task.status, "retrying", "failed"}
<1>0. worker \in [Handlers -> Activation] /\ worker[h] \in Activation /\ task \in TaskRecord
  BY DEF Inv, WorkerInv, StoreInv, RecordOK
<1>1. CASE Goto(h, "reject")
  BY <1>0, <1>1 DEF Goto, Activation
<1> DEFINE r == [task EXCEPT !.status  = IF Retryable(h, e) THEN "retrying" ELSE "failed",
                             !.error   = IF e = "blocked" THEN "blocked" ELSE "other",
                             !.pending = NextMessage(h)]
           w == [worker[h] EXCEPT !.pc = "resave", !.task = r]
<1>2. CASE worker' = [worker EXCEPT ![h] = w]
  <2>1. worker'[h] = w BY <1>0, <1>2
  <2>2. w.task = r /\ w.pc = "resave" BY <1>0 DEF Activation
  <2>3. r.status \in {"retrying", "failed"} BY <1>0 DEF TaskRecord
  <2> HIDE DEF r, w
  <2> QED BY <2>1, <2>2, <2>3
<1> QED BY <1>1, <1>2 DEF HandleFailure

\* Every step of a handler is of one of five kinds.
LEMMA HandlerKinds ==
  ASSUME Inv, NEW h \in Handlers, EngagedOK(h), Work(h) \/ ChannelGone(h) \/ WorkerFault(h) \/ RetryForsaken(h)
  PROVE  Keeps(h) \/ Stores(h) \/ GraphStep(h) \/ Outcome(h) \/ Raised(h)
<1>0. WorkerInv /\ worker \in [Handlers -> Activation] /\ worker[h] \in Activation
  BY DEF Inv, WorkerInv
<1>1. ASSUME NEW m \in Message, Receive(h, m) \/ ReceiveFails(h, m) PROVE Keeps(h)
  <2>1. worker'[h].pc \in {"load", "delay", "stranded"} /\ worker'[h].task = NoCopy
    BY <1>0, <1>1 DEF Receive, ReceiveFails
  <2>2. UNCHANGED <<task, graph, checkpoint, change>> /\ ~ At(h, "graph")
    BY <1>1 DEF Receive, ReceiveFails, At, graphVars
  <2> QED BY <2>1, <2>2 DEF Keeps, NoCopy, Absent
<1>2. CASE Delay(h) \/ DelayFails(h)
  <2>1. UNCHANGED <<task, graph, checkpoint, change>> /\ ~ At(h, "graph") /\ ~ Executing(h)
    BY <1>2 DEF Delay, DelayFails, At, Executing, storeVars, graphVars
  <2> QED BY <1>0, <1>2, <2>1, GotoKeeps DEF Delay, DelayFails
<1>3. CASE GiveBack(h) \/ Ack(h) \/ Reject(h) \/ Release(h) \/ ReleaseFails(h)
  <2>1. UNCHANGED <<task, graph, checkpoint, change>> /\ ~ At(h, "graph")
    BY <1>3 DEF GiveBack, Ack, Reject, Release, ReleaseFails, At, storeVars, graphVars
  <2>2. Settled(h, "idle") \/ Settled(h, "release") \/ Finish(h)
    BY <1>3 DEF GiveBack, Ack, Reject, Release, ReleaseFails
  <2> QED BY <1>0, <2>1, <2>2, DropKeeps
<1>4. CASE \/ AnnounceStarted(h) \/ AnnounceOutcome(h) \/ Republish(h) \/ AnnounceRetry(h)
           \/ AnnounceFailed(h)
  <2>1. UNCHANGED <<task, graph, checkpoint, change>> /\ ~ At(h, "graph")
    BY <1>4 DEF AnnounceStarted, AnnounceOutcome, Republish, AnnounceRetry, AnnounceFailed, At,
       storeVars, graphVars
  <2>2. \/ worker[h].pc = "started" /\ Goto(h, "graph")
        \/ Goto(h, "ack") \/ Goto(h, "announce_retry") \/ Goto(h, "ack_retry") \/ Goto(h, "reject")
    BY <1>4 DEF AnnounceStarted, AnnounceOutcome, Republish, AnnounceRetry, AnnounceFailed, At
  <2> QED BY <1>0, <2>1, <2>2, GotoKeeps
<1>5. CASE Escape(h)
  <2>1. UNCHANGED <<task, graph, checkpoint, change>> /\ ~ At(h, "graph")
    BY <1>5 DEF Escape, At, storeVars, graphVars
  <2>2. Goto(h, "release") \/ Finish(h) BY <1>5 DEF Escape
  <2> QED BY <1>0, <2>1, <2>2, GotoKeeps, DropKeeps
<1>6. CASE Load(h)
  <2>1. UNCHANGED <<task, graph, checkpoint, change>> /\ ~ At(h, "graph")
    BY <1>6 DEF Load, At, storeVars, graphVars
  <2>2. CASE Goto(h, "reject") \/ Goto(h, "skip") BY <1>0, <2>1, <2>2, GotoKeeps
  <2>3. CASE worker' = [worker EXCEPT ![h].pc = "mark",
                                      ![h].task = [task EXCEPT !.status = "running"]]
    <3>1. worker'[h].pc = "mark" /\ worker'[h].task = [task EXCEPT !.status = "running"]
      BY <1>0, <2>3 DEF Activation
    <3>2. worker'[h].task.status = "running"
      BY <3>1 DEF Inv, StoreInv, RecordOK, TaskRecord
    <3> QED BY <2>1, <3>1, <3>2 DEF Keeps, Executing
  <2> QED BY <1>6, <2>2, <2>3 DEF Load
<1>7. CASE \/ Mark(h) \/ SaveOutcome(h) \/ SaveFailure(h) \/ SaveUnpublishedRetry(h)
           \/ RetryForsaken(h) /\ SaveTask(worker[h].task)
  <2>1. /\ UNCHANGED <<graph, checkpoint, change>> /\ ~ At(h, "graph") /\ Executing(h)
        /\ task' = worker[h].task
    BY <1>7 DEF Mark, SaveOutcome, SaveFailure, SaveUnpublishedRetry, RetryForsaken, SaveTask,
       At, Executing, graphVars
  <2>2. PICK pc \in {"started", "announce", "republish", "announce_failed", "release"} :
          Goto(h, pc) /\ (pc = "started" => worker[h].pc = "mark")
    BY <1>7 DEF Mark, SaveOutcome, SaveFailure, SaveUnpublishedRetry, RetryForsaken, At
  <2>3. worker'[h].pc = pc /\ worker'[h].task = worker[h].task
    BY <1>0, <2>2 DEF Goto, Activation
  <2> QED BY <2>1, <2>2, <2>3 DEF Stores, Executing
<1>8. CASE RepublishFails(h)
  <2>1. UNCHANGED <<task, graph, checkpoint, change>> /\ ~ At(h, "graph")
    BY <1>8 DEF RepublishFails, At, storeVars, graphVars
  <2>2. /\ worker'[h].pc = "unpublished"
        /\ worker'[h].task = [worker[h].task EXCEPT !.status = "failed", !.error = "publish_failed"]
    BY <1>0, <1>8 DEF RepublishFails, Activation
  <2>3. worker'[h].task.status = "failed" BY <1>0, <2>2 DEF Activation, TaskRecord
  <2> QED BY <2>1, <2>2, <2>3 DEF Keeps, Executing
<1>9. CASE HandlerFault(h)
  <2>1. UNCHANGED <<task, graph, checkpoint, change>> /\ ~ At(h, "graph")
    BY <1>9 DEF HandlerFault, At, graphVars
  <2>2. /\ worker'[h].pc \in {"reject", "resave"}
        /\ worker'[h].task.status \in {worker[h].task.status, "retrying", "failed"}
    BY <1>9, FailureCopy DEF HandlerFault
  <2> QED BY <2>1, <2>2 DEF Keeps, Executing
<1>10. ASSUME NEW e \in {"other", "fatal", "blocked"}, GraphRaises(h, e) PROVE Raised(h)
  <2>1. At(h, "graph") /\ UNCHANGED <<task, change>> /\ Leave(h) /\ HandleFailure(h, e)
    BY <1>10 DEF GraphRaises, Raise, storeVars
  <2> QED BY <2>1, FailureCopy DEF Raised
<1>11. CASE RetryForsaken(h) /\ ~ SaveTask(worker[h].task)
  <2>1. UNCHANGED <<task, graph, checkpoint, change>> /\ ~ At(h, "graph") /\ Goto(h, "release")
    BY <1>11 DEF RetryForsaken, At, graphVars
  <2> QED BY <1>0, <2>1, GotoKeeps
<1> QED
  BY <1>1, <1>2, <1>3, <1>4, <1>5, <1>6, <1>7, <1>8, <1>9, <1>10, <1>11
  DEF Work, ChannelGone, WorkerFault

----------------------------------------------------------------------------
(* Each kind of step keeps the invariant.                                  *)

LEMMA KeepsDecision ==
  ASSUME DecisionInv, GraphTypeOK, NEW h \in Handlers, Keeps(h),
         \A g \in Handlers : g # h => worker'[g] = worker[g],
         UNCHANGED <<request, offered>>
  PROVE  DecisionInv'
<1> USE DEF Keeps
<1>1. ASSUME NEW g \in Handlers PROVE EngagedOK(g)'
  <2>1. CASE g = h
    BY <2>1 DEF DecisionInv, EngagedOK, At
  <2>2. CASE g # h
    BY <2>2 DEF DecisionInv, EngagedOK, At, Executing
  <2> QED BY <2>1, <2>2
<1>2. \A c \in Clients : AskingOK(c)'
  BY DEF DecisionInv, AskingOK
<1>3. Told'
  <2>1. checkpoint.at \in Saved BY DEF GraphTypeOK
  <2>2. \A status \in {"absent", "running", "retrying", "failed"} : Behind(status) = Saved
    BY SilentStatus DEF Said, Awaiting, Final
  <2>3. \A g \in Handlers : checkpoint.at \in Behind(worker'[g].task.status)
    BY <2>1, <2>2 DEF DecisionInv, Told
  <2> QED BY <2>3 DEF DecisionInv, Told
<1>4. Forward' /\ Planned'
  BY DEF DecisionInv, Forward, Planned
<1>5. Offering' => Offering
  BY DEF Offering, Decided
<1>6. OfferStands' /\ CompletionApplies'
  BY <1>5 DEF DecisionInv, OfferStands, CompletionApplies
<1> QED BY <1>1, <1>2, <1>3, <1>4, <1>6 DEF DecisionInv

LEMMA StoresDecision ==
  ASSUME DecisionInv, LeaseHeld, NEW h \in Handlers, Stores(h),
         \A g \in Handlers : g # h => worker'[g] = worker[g],
         UNCHANGED <<request, offered>>
  PROVE  DecisionInv'
<1> USE DEF Stores
<1>1. ASSUME NEW g \in Handlers PROVE EngagedOK(g)'
  <2>1. CASE g = h
    <3>1. worker[h].pc = "mark" => worker[h].task.status \notin Said
      BY DEF DecisionInv, EngagedOK, Said, Awaiting, Final
    <3>2. worker[h].pc = "mark" => worker[h].task.status = "running"
      BY DEF DecisionInv, EngagedOK
    <3> QED BY <2>1, <3>1, <3>2 DEF DecisionInv, EngagedOK, At
  <2>2. CASE g # h
    <3>1. ~ Executing(g) BY <2>2 DEF LeaseHeld
    <3>2. worker[g].pc \notin {"started", "graph"} BY <3>1 DEF Executing
    <3> QED BY <2>2, <3>1, <3>2 DEF DecisionInv, EngagedOK, At, Executing
  <2> QED BY <2>1, <2>2
<1>2. \A c \in Clients : AskingOK(c)'
  BY DEF DecisionInv, AskingOK
<1>3. Told'
  BY DEF DecisionInv, Told
<1>4. Forward' /\ Planned'
  BY DEF DecisionInv, Forward, Planned
<1>5. Offering' => Offering
  BY DEF Offering, Decided
<1>6. OfferStands' /\ CompletionApplies'
  BY <1>5 DEF DecisionInv, OfferStands, CompletionApplies
<1> QED BY <1>1, <1>2, <1>3, <1>4, <1>6 DEF DecisionInv

\* While a handler is at the graph nobody tells of an outcome and no other
\* run or copy exists.
LEMMA AloneAtGraph ==
  ASSUME DecisionInv, LeaseHeld, NEW h \in Handlers, At(h, "graph")
  PROVE  /\ task.status \notin Said /\ worker[h].task.status = "running"
         /\ \A g \in Handlers : g # h => ~ Executing(g)
         /\ \A g \in Handlers : g # h => graph[g].at = "off" /\ worker[g].task.status = "absent"
<1>1. Executing(h) BY DEF At, Executing
<1>2. \A g \in Handlers : g # h => ~ Executing(g) BY <1>1 DEF LeaseHeld
<1> QED BY <1>2 DEF DecisionInv, EngagedOK, At, Executing

\* One step of the run that has the lease: it goes on from what the checkpoint
\* says, and a decision changes the ledger before the run says it is completed.
LEMMA GraphDecides ==
  ASSUME GraphTypeOK, NEW h \in Handlers, DecisionInv, GraphStep(h)
  PROVE  /\ \A g \in Handlers : g # h => graph'[g] = graph[g]
         /\ graph'[h].at \in Beyond(checkpoint'.at) /\ graph'[h].at # "off"
         /\ \/ checkpoint'.at \in {"approve", "approval"}
            \/ graph'[h].at \in {"approve", "approval", "decided"}
            => change' # "none"
         /\ Offering => checkpoint'.at \in {"approval", "completed", "rejected"} /\ change' # "none"
         /\ Offering /\ (checkpoint'.at = "completed" \/ graph'[h].at = "completed")
              => change' = "applied"
         /\ Decided' => Decided
<1>0. /\ graph \in [Handlers -> [at : Position, product : Products \cup {NoProduct}]]
      /\ checkpoint \in [at : Saved, product : Products \cup {NoProduct}]
  BY DEF GraphTypeOK
<1>1. /\ graph[h].at \in Beyond(checkpoint.at)
      /\ \/ checkpoint.at \in {"approve", "approval"}
         \/ graph[h].at \in {"approve", "approval", "decided"}
         => change # "none"
      /\ Offering => checkpoint.at \in {"approval", "completed", "rejected"} /\ change # "none"
      /\ Offering /\ (checkpoint.at = "completed" \/ graph[h].at = "completed")
           => change = "applied"
  BY DEF DecisionInv, Forward, Planned, OfferStands, CompletionApplies
<1>2. ASSUME NEW m, NEW p, Enter(h, m, p)
      PROVE  /\ UNCHANGED <<checkpoint, change>>
             /\ \A g \in Handlers : g # h => graph'[g] = graph[g]
             /\ graph'[h].at =
                  IF checkpoint.at = "none" THEN "scope"
                  ELSE IF checkpoint.at \in {"input", "approval"} /\ m.kind = ExpectedKind
                    THEN IF m.kind = "input" THEN "picked" ELSE "decided"
                  ELSE checkpoint.at
  BY <1>0, <1>2 DEF Enter
<1>3. ASSUME NEW m, NEW p, Enter(h, m, p), checkpoint.at \in {"input", "approval"},
             m.kind = ExpectedKind
      PROVE  graph'[h].at = IF checkpoint.at = "input" THEN "picked" ELSE "decided"
  BY <1>2, <1>3 DEF ExpectedKind
<1>4. ASSUME NEW m, NEW p, Enter(h, m, p)
      PROVE  /\ graph'[h].at \in Beyond(checkpoint.at) /\ graph'[h].at # "off"
             /\ graph'[h].at \in {"approve", "approval", "decided"} =>
                  checkpoint.at \in {"approve", "approval"}
             /\ graph'[h].at = "completed" => checkpoint.at = "completed"
  <2>1. checkpoint.at \in Saved /\ checkpoint.at # "off" BY <1>0 DEF Saved
  <2>2. CASE checkpoint.at \in {"input", "approval"} /\ m.kind = ExpectedKind
    BY <1>3, <1>4, <2>2 DEF Beyond, Position
  <2>3. CASE ~ (checkpoint.at \in {"input", "approval"} /\ m.kind = ExpectedKind)
    BY <1>2, <1>4, <2>1, <2>3 DEF Beyond, Position, Saved
  <2> QED BY <2>2, <2>3
<1>5. ASSUME NEW at \in Position, NEW p, MoveTo(h, at, p)
      PROVE  graph'[h].at = at /\ \A g \in Handlers : g # h => graph'[g] = graph[g]
  BY <1>0, <1>5 DEF MoveTo
<1>6. \/ \E m \in {worker[h].msg} : \E p \in {worker[h].task.product} : Enter(h, m, p)
      \/ Pick(h, worker[h].msg) \/ Scope(h) \/ Plan(h) \/ AskApproval(h) \/ Decide(h)
      \/ Persist(h)
  BY DEF GraphStep
<1>7. CASE Enter(h, worker[h].msg, worker[h].task.product)
  <2>1. Decided' => Decided BY <1>2, <1>7 DEF Decided
  <2> QED BY <1>1, <1>2, <1>4, <1>7, <2>1
<1>8. CASE Pick(h, worker[h].msg) \/ Scope(h)
  <2>1. /\ UNCHANGED <<checkpoint, change>> /\ graph[h].at \in {"picked", "scope"}
        /\ \E p : MoveTo(h, "diagnose", p) \/ MoveTo(h, "input", p)
    BY <1>8 DEF Pick, Scope
  <2>2. graph'[h].at \in {"diagnose", "input"} /\ \A g \in Handlers : g # h => graph'[g] = graph[g]
    BY <1>5, <2>1 DEF Position
  <2>3. checkpoint.at \notin {"approval", "completed", "rejected"}
    BY <1>1, <2>1 DEF Beyond
  <2>4. graph'[h].at \in Beyond(checkpoint.at)
    BY <2>2, <2>3 DEF Beyond, Position
  <2> QED BY <1>1, <2>1, <2>2, <2>3, <2>4 DEF Decided
<1>9. CASE Plan(h)
  <2>1. checkpoint' = checkpoint /\ graph[h].at = "diagnose"
    BY <1>9 DEF Plan
  <2>2. checkpoint.at \notin {"approval", "completed", "rejected"} /\ ~ Offering
    BY <1>1, <2>1 DEF Beyond
  <2>3. /\ graph'[h].at \in {"completed", "approve"}
        /\ \A g \in Handlers : g # h => graph'[g] = graph[g]
        /\ graph'[h].at = "approve" => change' # "none"
        /\ change # "none" => change' = change
        /\ change' \in {change, "planned"}
    BY <1>5, <1>9 DEF Plan, Position
  <2>4. graph'[h].at \in Beyond(checkpoint.at)
    BY <2>2, <2>3 DEF Beyond, Position
  <2> QED BY <1>1, <2>1, <2>2, <2>3, <2>4 DEF Decided
<1>10. CASE AskApproval(h)
  <2>1. /\ UNCHANGED <<checkpoint, change>> /\ graph[h].at = "approve"
        /\ \E p : MoveTo(h, "approval", p)
    BY <1>10 DEF AskApproval
  <2>2. graph'[h].at = "approval" /\ \A g \in Handlers : g # h => graph'[g] = graph[g]
    BY <1>5, <2>1 DEF Position
  <2>3. checkpoint.at \notin {"approval", "completed", "rejected"}
    BY <1>1, <2>1 DEF Beyond
  <2>4. graph'[h].at \in Beyond(checkpoint.at)
    BY <2>2, <2>3 DEF Beyond, Position
  <2> QED BY <1>1, <2>1, <2>2, <2>3, <2>4 DEF Decided
<1>11. CASE Decide(h)
  <2>1. checkpoint' = checkpoint /\ graph[h].at = "decided" /\ Decided
    BY <1>11 DEF Decide, Decided
  <2>2. /\ \A g \in Handlers : g # h => graph'[g] = graph[g]
        /\ \/ graph'[h].at = "rejected" /\ change' = change
           \/ graph'[h].at = "completed" /\ change' = "applied"
    BY <1>5, <1>11 DEF Decide, Position
  <2>3. checkpoint.at = "approval"
    BY <1>1, <2>1 DEF Beyond, Offering
  <2>4. graph'[h].at \in Beyond(checkpoint.at)
    BY <2>2, <2>3 DEF Beyond
  <2> QED BY <1>1, <2>1, <2>2, <2>3, <2>4
<1>12. CASE Persist(h)
  <2>1. /\ UNCHANGED <<graph, change>> /\ graph[h].at # "off"
        /\ checkpoint' = graph[h] /\ graph[h].at \in Saved
    BY <1>12 DEF Persist, Flushed
  <2>2. graph[h].at \in Beyond(graph[h].at)
    BY <1>0, <2>1 DEF Beyond
  <2>3. Offering => graph[h].at \in {"approval", "completed", "rejected"}
    <3>1. Offering => graph[h].at \in {"off", "approval", "decided", "completed", "rejected"}
      BY <1>1 DEF Beyond
    <3> QED BY <2>1, <3>1 DEF Saved
  <2> QED BY <1>1, <2>1, <2>2, <2>3 DEF Decided
<1> QED BY <1>6, <1>7, <1>8, <1>9, <1>10, <1>11, <1>12

LEMMA StepDecision ==
  ASSUME DecisionInv, LeaseHeld, GraphTypeOK, GraphTypeOK', NEW h \in Handlers, GraphStep(h),
         UNCHANGED <<request, offered>>
  PROVE  DecisionInv'
<1>1. UNCHANGED <<worker, task>> /\ At(h, "graph")
  BY DEF GraphStep, storeVars
<1>2. /\ task.status \notin Said /\ worker[h].task.status = "running"
      /\ \A g \in Handlers : g # h => graph[g].at = "off" /\ worker[g].task.status = "absent"
  BY <1>1, AloneAtGraph
<1>3. /\ \A g \in Handlers : g # h => graph'[g] = graph[g]
      /\ graph'[h].at \in Beyond(checkpoint'.at)
      /\ \/ checkpoint'.at \in {"approve", "approval"}
         \/ graph'[h].at \in {"approve", "approval", "decided"}
         => change' # "none"
      /\ Offering => checkpoint'.at \in {"approval", "completed", "rejected"} /\ change' # "none"
      /\ Offering /\ (checkpoint'.at = "completed" \/ graph'[h].at = "completed")
           => change' = "applied"
      /\ Decided' => Decided
  BY GraphDecides
<1>4. ASSUME NEW g \in Handlers PROVE EngagedOK(g)'
  <2>1. CASE g = h BY <1>1, <2>1 DEF DecisionInv, EngagedOK, At, Executing
  <2>2. CASE g # h BY <1>1, <1>3, <2>2 DEF DecisionInv, EngagedOK, At, Executing
  <2> QED BY <2>1, <2>2
<1>5. \A c \in Clients : AskingOK(c)'
  BY DEF DecisionInv, AskingOK
<1>6. checkpoint'.at \in Saved BY DEF GraphTypeOK
<1>7. Told'
  <2>1. "running" \notin Said /\ "absent" \notin Said BY DEF Said, Awaiting, Final
  <2> QED BY <1>1, <1>2, <1>6, <2>1, SilentStatus DEF Told
<1>8. Forward'
  BY <1>2, <1>3, <1>6, OffIsBeyond DEF Forward
<1>9. Planned'
  BY <1>2, <1>3 DEF Planned
<1>10. Offering' => Offering
  BY <1>1, <1>3 DEF Offering
<1>11. OfferStands' /\ CompletionApplies'
  BY <1>2, <1>3, <1>10 DEF OfferStands, CompletionApplies
<1> QED BY <1>4, <1>5, <1>7, <1>8, <1>9, <1>11 DEF DecisionInv

\* A run that returns: the record will say what the checkpoint says by then.
LEMMA OutcomeDecision ==
  ASSUME DecisionInv, LeaseHeld, Inv, NEW h \in Handlers, Outcome(h),
         \A g \in Handlers : g # h => worker'[g] = worker[g],
         UNCHANGED <<request, offered>>
  PROVE  DecisionInv'
<1>0. /\ worker \in [Handlers -> Activation] /\ worker[h] \in Activation
      /\ graph \in [Handlers -> [at : Position, product : Products \cup {NoProduct}]]
  BY DEF Inv, WorkerInv, GraphTypeOK
<1>1. /\ UNCHANGED <<task, change>> /\ At(h, "graph") /\ graph[h].at \in Returned
      /\ checkpoint' = graph[h] /\ graph' = [graph EXCEPT ![h] = Off]
  BY DEF Outcome, Return, Leave, Flushed, Returned, Saved, storeVars
<1>2. /\ task.status \notin Said
      /\ \A g \in Handlers : g # h => graph[g].at = "off" /\ worker[g].task.status = "absent"
  BY <1>1, AloneAtGraph
<1>3. /\ worker'[h].pc = "save"
      /\ worker'[h].task = [worker[h].task EXCEPT !.status = OutcomeStatus(graph[h].at),
                                                  !.error = "none", !.pending = NoMessage]
  BY <1>0 DEF Outcome, Activation
<1>4. worker'[h].task.status = OutcomeStatus(graph[h].at)
  BY <1>0, <1>3 DEF Activation, TaskRecord
<1>5. \A g \in Handlers : graph'[g].at = "off"
  BY <1>0, <1>1, <1>2 DEF Off
<1>6. ASSUME NEW g \in Handlers PROVE EngagedOK(g)'
  <2>1. CASE g = h BY <1>3, <1>5, <2>1 DEF EngagedOK, Executing
  <2>2. CASE g # h BY <1>1, <1>5, <2>2 DEF DecisionInv, EngagedOK, Executing
  <2> QED BY <2>1, <2>2
<1>7. \A c \in Clients : AskingOK(c)'
  BY DEF DecisionInv, AskingOK
<1>8. checkpoint'.at \in Saved BY <1>1 DEF Returned, Saved
<1>9. Told'
  <2>1. checkpoint'.at \in Behind(worker'[h].task.status)
    BY <1>1, <1>4 DEF OutcomeStatus, Behind, Returned
  <2>2. "absent" \notin Said BY DEF Said, Awaiting, Final
  <2> QED BY <1>1, <1>2, <1>8, <2>1, <2>2, SilentStatus DEF Told
<1>10. Forward'
  BY <1>5, <1>8, OffIsBeyond DEF Forward
<1>11. Planned'
  BY <1>1, <1>5 DEF DecisionInv, Planned, Returned
<1>12. Offering' => Offering \/ checkpoint'.at = "approval"
  <2>1. worker'[h].task.status = "awaiting_approval" => checkpoint'.at = "approval"
    BY <1>1, <1>4 DEF OutcomeStatus, Returned
  <2> QED BY <1>1, <2>1 DEF Offering, Decided
<1>13. Offering => checkpoint'.at \in {"approval", "completed", "rejected"}
  <2>1. Offering => graph[h].at \in {"off", "approval", "decided", "completed", "rejected"}
    BY DEF DecisionInv, Forward, OfferStands, Beyond
  <2> QED BY <1>1, <2>1 DEF Returned
<1>14. OfferStands'
  BY <1>1, <1>11, <1>12, <1>13 DEF DecisionInv, OfferStands, Planned
<1>15. CompletionApplies'
  BY <1>1, <1>5, <1>12 DEF DecisionInv, CompletionApplies
<1> QED BY <1>6, <1>7, <1>9, <1>10, <1>11, <1>14, <1>15 DEF DecisionInv

LEMMA RaisedDecision ==
  ASSUME DecisionInv, LeaseHeld, GraphTypeOK, NEW h \in Handlers, Raised(h),
         \A g \in Handlers : g # h => worker'[g] = worker[g],
         UNCHANGED <<request, offered>>
  PROVE  DecisionInv'
<1>0. /\ graph \in [Handlers -> [at : Position, product : Products \cup {NoProduct}]]
      /\ checkpoint.at \in Saved
  BY DEF GraphTypeOK
<1>1. /\ UNCHANGED <<task, change>> /\ At(h, "graph") /\ graph' = [graph EXCEPT ![h] = Off]
      /\ checkpoint' = checkpoint \/ (checkpoint' = graph[h] /\ graph[h].at \in Saved)
  BY DEF Raised, Leave, Flushed
<1>2. /\ task.status \notin Said /\ worker[h].task.status = "running"
      /\ \A g \in Handlers : g # h => graph[g].at = "off" /\ worker[g].task.status = "absent"
  BY <1>1, AloneAtGraph
<1>3. worker'[h].pc \in {"reject", "resave"}
      /\ worker'[h].task.status \in {"running", "retrying", "failed"}
  BY <1>2 DEF Raised
<1>4. \A g \in Handlers : graph'[g].at = "off"
  BY <1>0, <1>1, <1>2 DEF Off
<1>5. ASSUME NEW g \in Handlers PROVE EngagedOK(g)'
  <2>1. CASE g = h BY <1>3, <1>4, <2>1 DEF EngagedOK, Executing
  <2>2. CASE g # h BY <1>1, <1>4, <2>2 DEF DecisionInv, EngagedOK, Executing
  <2> QED BY <2>1, <2>2
<1>6. \A c \in Clients : AskingOK(c)'
  BY DEF DecisionInv, AskingOK
<1>7. checkpoint'.at \in Saved BY <1>0, <1>1
<1>8. Told'
  <2>1. \A status \in {"running", "retrying", "failed", "absent"} : Behind(status) = Saved
    BY SilentStatus DEF Said, Awaiting, Final
  <2> QED BY <1>1, <1>2, <1>3, <1>7, <2>1, SilentStatus DEF Told
<1>9. Forward'
  BY <1>4, <1>7, OffIsBeyond DEF Forward
<1>10. Planned'
  BY <1>1, <1>4 DEF DecisionInv, Planned
<1>11. Offering' => Offering
  BY <1>1, <1>3 DEF Offering, Decided
<1>12. Offering => checkpoint'.at \in {"approval", "completed", "rejected"}
  <2>1. Offering => graph[h].at \in {"off", "approval", "decided", "completed", "rejected"}
    BY DEF DecisionInv, Forward, OfferStands, Beyond
  <2> QED BY <1>1, <2>1 DEF DecisionInv, OfferStands, Saved
<1>13. OfferStands' /\ CompletionApplies'
  BY <1>1, <1>4, <1>11, <1>12 DEF DecisionInv, OfferStands, CompletionApplies
<1> QED BY <1>5, <1>6, <1>8, <1>9, <1>10, <1>13 DEF DecisionInv

----------------------------------------------------------------------------
(* The steps of the API, of the environment, and what dies.                *)

\* What the clients' requests can change of all this.
Requests(d) ==
  /\ UNCHANGED <<worker, graph, checkpoint>>
  /\ UNCHANGED task \/ task' = request[d].task
  /\ \A c \in Clients \ {d} : request'[c] = request[c]
  /\ request'[d].task.status \in {"queued", "failed", "absent"}
  /\ request'[d].pc = "record" => request'[d].op = "approval" /\ request'[d].decision # "none"
  /\ request'[d].op = "approval" => Offering
  /\ offered' => Offering
  /\ \/ UNCHANGED change
     \/ Asks(d, "record") /\ change = "planned" /\ change' = request[d].decision

LEMMA ClientKinds ==
  ASSUME Inv, DecisionInv, NEW d \in Clients, UNCHANGED worker,
         \/ Serve(d) \/ NewRequest(d) \/ PublishFails(d) \/ RequestRaises(d)
         \/ RequestForsaken(d) \/ RequestAborts(d)
  PROVE  Requests(d)
<1>0. /\ request \in [Clients -> RequestRecord] /\ request[d] \in RequestRecord
      /\ task \in TaskRecord /\ request[d].task \in TaskRecord
  BY DEF Inv, ServiceInv, StoreInv, RecordOK, RequestRecord
<1>1. AskingOK(d) BY DEF DecisionInv
<1>2. request[d].op = "approval" => Offering BY DEF Offering
<1>3. offered => Offering BY DEF Offering
<1>4. ASSUME NEW pc, Proceed(d, pc), pc # "record"
      PROVE  /\ \A c \in Clients \ {d} : request'[c] = request[c]
             /\ request'[d].pc = pc /\ request'[d].task = request[d].task
             /\ request'[d].op = request[d].op
  BY <1>0, <1>4 DEF Proceed, RequestRecord
<1>5. ASSUME Done(d)
      PROVE  /\ \A c \in Clients \ {d} : request'[c] = request[c]
             /\ request'[d].pc = "idle" /\ request'[d].task.status = "absent"
             /\ request'[d].op = "none"
  BY <1>0, <1>5 DEF Done, IdleRequest, Absent
<1>6. CASE RecordDecision(d)
  <2>1. /\ UNCHANGED <<graph, checkpoint, task, offered>>
        /\ Proceed(d, "transition") \/ Done(d)
        /\ \/ UNCHANGED change
           \/ Asks(d, "record") /\ change = "planned" /\ change' = request[d].decision
    BY <1>6 DEF RecordDecision, storeVars
  <2> QED BY <1>1, <1>2, <1>3, <1>4, <1>5, <2>1 DEF Requests, AskingOK
<1>7. CASE \/ Transition(d) \/ CheckLease(d) \/ SaveResumed(d) \/ AnnounceRequest(d)
           \/ PublishRequest(d) \/ SaveUnpublished(d) \/ AnnounceUnpublished(d)
           \/ RequestRaises(d) \/ RequestForsaken(d) \/ RequestAborts(d)
  <2>1. /\ UNCHANGED <<graph, checkpoint, change, offered>>
        /\ UNCHANGED task \/ task' = request[d].task
    BY <1>7 DEF Transition, TransitionTask, CheckLease, SaveResumed, SaveTask, AnnounceRequest,
       PublishRequest, SaveUnpublished, AnnounceUnpublished, RequestRaises, RequestForsaken,
       RequestAborts, graphVars, storeVars
  <2>2. Done(d) \/ \E pc \in {"event", "save", "publish", "failed_event"} : Proceed(d, pc)
    BY <1>7 DEF Transition, CheckLease, SaveResumed, AnnounceRequest, PublishRequest,
       SaveUnpublished, AnnounceUnpublished, RequestRaises, RequestForsaken, RequestAborts
  <2> QED BY <1>1, <1>2, <1>3, <1>4, <1>5, <2>1, <2>2 DEF Requests, AskingOK
<1>8. CASE PublishFails(d)
  <2>1. UNCHANGED <<graph, checkpoint, change, offered, task>>
    BY <1>8 DEF PublishFails, graphVars, storeVars
  <2>2. /\ \A c \in Clients \ {d} : request'[c] = request[c]
        /\ request'[d].pc = "unpublished" /\ request'[d].op = request[d].op
        /\ request'[d].task = [request[d].task EXCEPT !.status = "failed",
                                                      !.error = "publish_failed"]
    BY <1>0, <1>8 DEF PublishFails, RequestRecord
  <2>3. request'[d].task.status = "failed" BY <1>0, <2>2 DEF TaskRecord
  <2> QED BY <1>2, <1>3, <2>1, <2>2, <2>3 DEF Requests
<1>9. ASSUME NEW p \in Products, SubmitInput(d, p) PROVE Requests(d)
  <2>1. UNCHANGED <<graph, checkpoint, change, offered, task>>
    BY <1>9 DEF SubmitInput, graphVars, storeVars
  <2>2. /\ \A c \in Clients \ {d} : request'[c] = request[c]
        /\ request'[d].pc = "transition" /\ request'[d].op = "input"
        /\ request'[d].task = [task EXCEPT !.product = p, !.status = "queued",
             !.pending = [attempt |-> 0, kind |-> "input", id |-> p]]
    BY <1>0, <1>9 DEF SubmitInput
  <2>3. request'[d].task.status = "queued" BY <1>0, <2>2 DEF TaskRecord
  <2> QED BY <1>3, <2>1, <2>2, <2>3 DEF Requests
<1>10. ASSUME NEW decision \in {"approve", "reject"}, SubmitApproval(d, decision) PROVE Requests(d)
  <2>1. UNCHANGED <<graph, checkpoint, change, offered, task>> /\ offered
    BY <1>10 DEF SubmitApproval, graphVars, storeVars
  <2>2. /\ \A c \in Clients \ {d} : request'[c] = request[c]
        /\ request'[d].op = "approval" /\ request'[d].decision = decision
        /\ request'[d].task = [task EXCEPT !.status = "queued", !.error = "none",
                                           !.pending = ApprovalMessage]
    BY <1>0, <1>10 DEF SubmitApproval
  <2>3. request'[d].task.status = "queued" BY <1>0, <2>2 DEF TaskRecord
  <2> QED BY <1>3, <2>1, <2>2, <2>3 DEF Requests
<1>11. CASE Resume(d)
  <2>1. UNCHANGED <<graph, checkpoint, change, offered, task>>
    BY <1>11 DEF Resume, graphVars, storeVars
  <2>2. /\ \A c \in Clients \ {d} : request'[c] = request[c]
        /\ request'[d].op = "resume" /\ request'[d].pc \in {"lease", "save"}
        /\ request'[d].task = [task EXCEPT !.status = "queued", !.error = "none",
                                           !.pending = ResumedMessage]
    BY <1>0, <1>11 DEF Resume
  <2>3. request'[d].task.status = "queued" BY <1>0, <2>2 DEF TaskRecord
  <2> QED BY <1>3, <2>1, <2>2, <2>3 DEF Requests
<1> QED
  BY <1>6, <1>7, <1>8, <1>9, <1>10, <1>11 DEF Serve, NewRequest

LEMMA RequestDecision ==
  ASSUME Inv, DecisionInv, NEW d \in Clients, Requests(d)
  PROVE  DecisionInv'
<1> USE DEF Requests
<1>0. /\ AskingOK(d) /\ checkpoint.at \in Saved
      /\ request[d].decision \in {"none", "approve", "reject"}
  BY DEF DecisionInv, Inv, ServiceInv, RequestRecord, GraphTypeOK
<1>1. task'.status \in {task.status, "queued", "failed", "absent"}
  BY <1>0 DEF AskingOK
<1>2. \A status \in {"queued", "failed", "absent"} : status \notin Said /\ Behind(status) = Saved
  BY SilentStatus DEF Said, Awaiting, Final
<1>3. \A g \in Handlers : EngagedOK(g)'
  BY <1>1, <1>2 DEF DecisionInv, EngagedOK, At, Executing
<1>4. \A c \in Clients : AskingOK(c)'
  BY DEF DecisionInv, AskingOK
<1>5. Told'
  BY <1>0, <1>1, <1>2 DEF DecisionInv, Told
<1>6. Forward'
  BY DEF DecisionInv, Forward
<1>7. /\ change # "none" => change' # "none"
      /\ change' # change => change' \in {"approve", "reject"} /\ request[d].op = "approval"
                               /\ change = "planned"
  BY <1>0 DEF AskingOK, Asks
<1>8. Planned'
  BY <1>7 DEF DecisionInv, Planned
<1>9. Offering' => Offering
  <2>1. Decided' => Decided \/ request[d].op = "approval"
    BY <1>7 DEF Decided
  <2>2. \A c \in Clients : request'[c].op = "approval" => Offering
    BY DEF Offering
  <2> QED BY <1>1, <2>1, <2>2 DEF Offering
<1>10. OfferStands'
  BY <1>7, <1>9 DEF DecisionInv, OfferStands
<1>11. CompletionApplies'
  <2>1. change = "applied" => change' = "applied" BY <1>7
  <2> QED BY <1>9, <2>1 DEF DecisionInv, CompletionApplies
<1> QED BY <1>3, <1>4, <1>5, <1>6, <1>8, <1>10, <1>11 DEF DecisionInv

\* A lost connection moves no copy out of its handler; a dead worker drops all.
LEMMA LossDecision ==
  ASSUME Inv, DecisionInv, ConnectionLost \/ WorkerCrash, UNCHANGED <<request, offered>>
  PROVE  DecisionInv'
<1>0. worker \in [Handlers -> Activation] /\ checkpoint.at \in Saved
  BY DEF Inv, WorkerInv, GraphTypeOK
<1>1. IdleWorker.task.status = "absent" /\ IdleWorker.pc = "idle"
  BY DEF IdleWorker, NoCopy, Absent
<1>2. UNCHANGED <<task, checkpoint, change>>
  BY DEF ConnectionLost, WorkerCrash, GraphCrash, storeVars, graphVars
<1>3. ASSUME NEW h \in Handlers
      PROVE  /\ graph'[h] \in {graph[h], Off}
             /\ \/ worker'[h].pc = "idle" /\ worker'[h].task.status = "absent"
                   /\ (graph'[h] = Off \/ At(h, "stranded"))
                \/ worker'[h].pc = worker[h].pc /\ worker'[h].task = worker[h].task
                   /\ graph'[h] = graph[h]
  <2>1. CASE ConnectionLost
    <3>1. graph' = graph /\ worker'[h] = IF At(h, "stranded") THEN IdleWorker
                                         ELSE [worker[h] EXCEPT !.live = FALSE]
      BY <2>1 DEF ConnectionLost, graphVars
    <3> QED BY <1>0, <1>1, <3>1 DEF Activation
  <2>2. CASE WorkerCrash
    BY <1>1, <2>2 DEF WorkerCrash, GraphCrash
  <2> QED BY <2>1, <2>2
<1>4. Off.at = "off" BY DEF Off
<1>5. \A h \in Handlers : EngagedOK(h)'
  BY <1>2, <1>3, <1>4 DEF DecisionInv, EngagedOK, At, Executing
<1>6. \A c \in Clients : AskingOK(c)'
  BY DEF DecisionInv, AskingOK
<1>7. \A h \in Handlers : worker'[h].task.status \in {worker[h].task.status, "absent"}
  BY <1>3
<1>8. Told'
  <2>1. Behind("absent") = Saved BY SilentStatus DEF Said, Awaiting, Final
  <2> QED BY <1>0, <1>2, <1>7, <2>1 DEF DecisionInv, Told
<1>9. Forward'
  BY <1>0, <1>2, <1>3, <1>4, OffIsBeyond DEF DecisionInv, Forward
<1>10. Planned'
  BY <1>2, <1>3, <1>4 DEF DecisionInv, Planned
<1>11. Offering' => Offering
  BY <1>2, <1>7 DEF Offering, Decided
<1>12. OfferStands' /\ CompletionApplies'
  BY <1>2, <1>3, <1>4, <1>11 DEF DecisionInv, OfferStands, CompletionApplies
<1> QED BY <1>5, <1>6, <1>8, <1>9, <1>10, <1>12 DEF DecisionInv

\* Whatever moves nothing but leases, messages, late ledger calls or an expired
\* record.
LEMMA RestDecision ==
  ASSUME Inv, DecisionInv, UNCHANGED <<worker, request, graph, checkpoint>>,
         offered' = offered \/ (offered' = TRUE /\ task.status = "awaiting_approval"),
         task' = task \/ task' = Absent,
         \/ change' = change
         \/ change = "none" /\ change' = "planned"
         \/ change = "approve" /\ change' = "applied"
  PROVE  DecisionInv'
<1>1. task'.status \in {task.status, "absent"} BY DEF Absent
<1>2. "absent" \notin Said /\ Behind("absent") = Saved /\ checkpoint.at \in Saved
  BY SilentStatus DEF Said, Awaiting, Final, Inv, GraphTypeOK
<1>3. (\A h \in Handlers : EngagedOK(h)') /\ \A c \in Clients : AskingOK(c)'
  BY <1>1, <1>2 DEF DecisionInv, EngagedOK, AskingOK, At, Executing
<1>4. Told' /\ Forward'
  BY <1>1, <1>2 DEF DecisionInv, Told, Forward
<1>5. change # "none" => change' # "none"
  OBVIOUS
<1>6. Planned'
  BY <1>5 DEF DecisionInv, Planned
<1>7. Offering' => Offering
  BY <1>1 DEF Offering, Decided
<1>8. OfferStands' /\ CompletionApplies'
  <2>1. change = "applied" => change' = "applied"
    OBVIOUS
  <2> QED BY <1>5, <1>7, <2>1 DEF DecisionInv, OfferStands, CompletionApplies
<1> QED BY <1>3, <1>4, <1>6, <1>8 DEF DecisionInv

LEMMA DecisionNext ==
  ASSUME Inv, LeaseHeld, DecisionInv, [Next]_vars
  PROVE  DecisionInv'
<1>0. GraphTypeOK /\ WorkerInv /\ GraphTypeOK' BY InvNext DEF Inv
<1>1. ASSUME NEW h \in Handlers, Work(h) \/ ChannelGone(h) \/ WorkerFault(h) \/ RetryForsaken(h),
             UNCHANGED <<request, offered>>
      PROVE  DecisionInv'
  <2>1. \A g \in Handlers : g # h => worker'[g] = worker[g] BY <1>0, <1>1, OthersStill
  <2>2. EngagedOK(h) BY DEF DecisionInv
  <2>3. Keeps(h) \/ Stores(h) \/ GraphStep(h) \/ Outcome(h) \/ Raised(h)
    BY <1>1, <2>2, HandlerKinds
  <2> QED
    BY <1>0, <1>1, <2>1, <2>3, KeepsDecision, StoresDecision, StepDecision, OutcomeDecision,
       RaisedDecision
<1>2. CASE WorkerNext /\ UNCHANGED <<request, offered>>
  <2>1. CASE LeaseExpires
    BY <1>2, <2>1, RestDecision DEF LeaseExpires, graphVars
  <2> QED BY <1>1, <1>2, <2>1, LossDecision DEF WorkerNext
<1>3. CASE ServiceNext /\ UNCHANGED worker
  <2>1. CASE ReadOffer
    BY <1>3, <2>1, RestDecision DEF ReadOffer, storeVars, graphVars
  <2>2. ASSUME NEW d \in Clients,
               \/ Serve(d) \/ NewRequest(d) \/ PublishFails(d) \/ RequestRaises(d)
               \/ RequestForsaken(d) \/ RequestAborts(d)
        PROVE  DecisionInv'
    BY <1>3, <2>2, ClientKinds, RequestDecision
  <2> QED BY <1>3, <2>1, <2>2 DEF ServiceNext
<1>4. CASE Environment /\ UNCHANGED <<worker, request, offered>>
  BY <1>4, RestDecision DEF Environment, DelayElapsed, LateCommit, storeVars, graphVars
<1>5. CASE ExpireRecord /\ UNCHANGED <<worker, request, offered, graphVars>>
  BY <1>5, RestDecision DEF ExpireRecord, graphVars
<1>6. CASE UNCHANGED vars
  BY <1>6, RestDecision DEF vars
<1> QED BY <1>2, <1>3, <1>4, <1>5, <1>6 DEF Next

LEMMA DecisionInvariance ==
  ASSUME SlowHandlers = FALSE
  PROVE  Spec => [](Inv /\ LeaseHeld /\ DecisionInv)
<1>1. Init => LeaseHeld
  BY DEF Init, WorkerInit, IdleWorker, LeaseHeld, Executing
<1>2. Inv /\ LeaseHeld /\ [Next]_vars => LeaseHeld' BY LeaseNext
<1>3. Inv /\ LeaseHeld /\ DecisionInv /\ [Next]_vars => DecisionInv' BY DecisionNext
<1> QED BY <1>1, <1>2, <1>3, InitDecision, Invariance, PTL DEF Spec

\* A record that waits for the merchant always waits at the interrupt of the
\* graph that asks, with a plan to decide on, for any number of handlers,
\* clients, faults and crashes, if handlers finish within their lease's TTL.
THEOREM Answerable ==
  ASSUME SlowHandlers = FALSE
  PROVE  Spec => []AwaitingIsAnswerable
<1>1. DecisionInv => AwaitingIsAnswerable
  BY DEF DecisionInv, Told, OfferStands, Offering, Behind, AwaitingIsAnswerable
<1> QED BY <1>1, DecisionInvariance, PTL

\* A completed task never leaves an approved change unapplied, under the same
\* premise.
THEOREM Completed ==
  ASSUME SlowHandlers = FALSE
  PROVE  Spec => []OutcomeTrue
<1>1. DecisionInv => OutcomeTrue
  <2> SUFFICES ASSUME DecisionInv, task.status = "completed", change = "approve" PROVE FALSE
    BY DEF OutcomeTrue
  <2>1. checkpoint.at = "completed" BY DEF DecisionInv, Told, Behind
  <2>2. Offering BY DEF Offering, Decided
  <2> QED BY <2>1, <2>2 DEF DecisionInv, CompletionApplies
<1> QED BY <1>1, DecisionInvariance, PTL

----------------------------------------------------------------------------
(* No answer before its checkpoint.  Until a run has returned from an      *)
(* interrupt no record says that the task waits, so no request can have    *)
(* put an answer into the record, the queue or a handler's hands; and once *)
(* a checkpoint is written none of the later ones takes it away.  This     *)
(* needs no lease.                                                         *)

Fresh(m) == m # NoMessage => m.kind \notin {"input", "approval"}

Plain(r) == r.status \notin Awaiting /\ Fresh(r.pending)

Unasked ==
  /\ ~ offered
  /\ Plain(task)
  /\ \A h \in Handlers : Plain(worker[h].task) /\ Fresh(worker[h].msg)
  /\ \A c \in Clients : Plain(request[c].task)
  /\ \A m \in Message : ready[m] > 0 \/ delayed[m] > 0 => Fresh(m)

AnswersFollow == checkpoint.at = "none" => Unasked

LEMMA FreshMessages == Fresh(FirstMessage) /\ Fresh(NoMessage) /\ Plain(Absent)
BY DEF Fresh, FirstMessage, Plain, Absent, Awaiting

LEMMA PlainStatus ==
  ASSUME NEW r \in TaskRecord, Fresh(r.pending), r.status \notin Awaiting
  PROVE  Plain(r)
BY DEF Plain

\* The queues hold what they held and what is put into them.
LEMMA FreshQueue ==
  ASSUME QueueInv, NEW m \in Message, Fresh(m),
         \A n \in Message : ready[n] > 0 \/ delayed[n] > 0 => Fresh(n),
         Publish(m) \/ PublishRetry(m) \/ Requeue(m) \/ DeadLetter(m) \/ Deliver(m)
           \/ UNCHANGED queueVars
  PROVE  \A n \in Message : ready'[n] > 0 \/ delayed'[n] > 0 => Fresh(n)
<1> SUFFICES ASSUME NEW n \in Message, n # m, ready'[n] > 0 \/ delayed'[n] > 0
             PROVE  ready[n] > 0 \/ delayed[n] > 0
  OBVIOUS
<1>1. ready'[n] = ready[n] /\ delayed'[n] = delayed[n]
  BY DEF Publish, PublishRetry, Requeue, DeadLetter, Deliver, Put, QueueInv, QueueTypeOK, queueVars
<1> QED BY <1>1

\* No step of the graph takes the last checkpoint away.
LEMMA CheckpointStays ==
  ASSUME GraphTypeOK, NEW h \in Handlers, GraphMove(h), checkpoint'.at = "none"
  PROVE  checkpoint.at = "none"
<1>1. graph[h].at # "none" BY DEF GraphTypeOK, Position
<1>2. \/ checkpoint' = checkpoint \/ checkpoint' = graph[h]
  BY DEF GraphMove, Enter, Pick, Scope, Plan, AskApproval, Decide, Persist, Return, Raise, Leave,
     Flushed, graphVars
<1> QED BY <1>1, <1>2

\* What a handler does while nothing was asked.
LEMMA HandlerUnasked ==
  ASSUME Inv, Unasked, NEW h \in Handlers, checkpoint'.at = "none",
         Work(h) \/ ChannelGone(h) \/ WorkerFault(h) \/ RetryForsaken(h)
  PROVE  /\ Plain(task') /\ Plain(worker'[h].task) /\ Fresh(worker'[h].msg)
         /\ \A m \in Message : ready'[m] > 0 \/ delayed'[m] > 0 => Fresh(m)
<1>0. /\ QueueInv /\ WorkerInv /\ worker \in [Handlers -> Activation]
      /\ worker[h] \in Activation /\ task \in TaskRecord
      /\ Plain(task) /\ Plain(worker[h].task) /\ Fresh(worker[h].msg)
      /\ \A m \in Message : ready[m] > 0 \/ delayed[m] > 0 => Fresh(m)
  BY DEF Inv, WorkerInv, StoreInv, RecordOK, Unasked
<1>1. ASSUME NEW pc, Goto(h, pc) \/ Settled(h, pc) \/ Finish(h) \/ UNCHANGED worker
      PROVE  Plain(worker'[h].task) /\ Fresh(worker'[h].msg)
  <2>1. CASE Goto(h, pc)
    BY <1>0, <2>1 DEF Goto, Activation
  <2>2. CASE Settled(h, pc)
    <3>1. worker'[h] = [IdleWorker EXCEPT !.pc = pc] BY <1>0, <2>2 DEF Settled
    <3>2. worker'[h].task = Absent /\ worker'[h].msg = NoMessage
      BY <3>1 DEF IdleWorker, NoCopy
    <3> QED BY <3>2, FreshMessages
  <2>3. CASE Finish(h)
    <3>1. worker'[h] = IF worker[h].live THEN [worker[h] EXCEPT !.pc = "stranded", !.task = NoCopy]
                       ELSE IdleWorker
      BY <1>0, <2>3 DEF Finish
    <3>2. worker'[h].task = Absent /\ worker'[h].msg \in {worker[h].msg, NoMessage}
      BY <1>0, <3>1 DEF IdleWorker, NoCopy, Activation
    <3> QED BY <1>0, <3>2, FreshMessages
  <2>4. CASE UNCHANGED worker BY <1>0, <2>4
  <2> QED BY <1>1, <2>1, <2>2, <2>3, <2>4
<1>2. UNCHANGED queueVars => \A m \in Message : ready'[m] > 0 \/ delayed'[m] > 0 => Fresh(m)
  BY <1>0 DEF queueVars
<1>3. ASSUME NEW m \in Message, Receive(h, m) \/ ReceiveFails(h, m)
      PROVE  /\ Plain(task') /\ Plain(worker'[h].task) /\ Fresh(worker'[h].msg)
             /\ \A n \in Message : ready'[n] > 0 \/ delayed'[n] > 0 => Fresh(n)
  <2>1. Deliver(m) /\ task' = task /\ worker'[h].task = Absent /\ worker'[h].msg = m
    BY <1>0, <1>3 DEF Receive, ReceiveFails, NoCopy
  <2>2. Fresh(m) BY <1>0, <2>1 DEF Deliver
  <2>3. \A n \in Message : ready'[n] > 0 \/ delayed'[n] > 0 => Fresh(n)
    BY <1>0, <2>1, <2>2, FreshQueue
  <2> QED BY <1>0, <2>1, <2>2, <2>3, FreshMessages
<1>4. CASE Delay(h) \/ DelayFails(h) \/ GiveBack(h) \/ Reject(h)
  <2> DEFINE m == worker[h].msg
  <2>1. m \in Message
    BY <1>0, <1>4, InHand DEF Delay, DelayFails, GiveBack, Reject, At
  <2>2. PublishRetry(m) \/ Requeue(m) \/ DeadLetter(m) \/ UNCHANGED queueVars
    BY <1>4 DEF Delay, DelayFails, GiveBack, Reject, PublishRetryRaises
  <2>3. task' = task /\ \E pc : Goto(h, pc) \/ Settled(h, pc)
    BY <1>4 DEF Delay, DelayFails, GiveBack, Reject, storeVars
  <2>4. \A n \in Message : ready'[n] > 0 \/ delayed'[n] > 0 => Fresh(n)
    BY <1>0, <2>1, <2>2, FreshQueue
  <2> QED BY <1>0, <1>1, <2>3, <2>4
<1>5. CASE \/ AnnounceStarted(h) \/ AnnounceOutcome(h) \/ AnnounceRetry(h) \/ AnnounceFailed(h)
           \/ Ack(h) \/ Release(h) \/ ReleaseFails(h) \/ Escape(h) \/ GraphStep(h)
  <2>1. task' = task /\ UNCHANGED queueVars
    BY <1>5 DEF AnnounceStarted, AnnounceOutcome, AnnounceRetry, AnnounceFailed, Ack, Release,
       ReleaseFails, Escape, GraphStep, storeVars, queueVars
  <2>2. \E pc : Goto(h, pc) \/ Settled(h, pc) \/ Finish(h) \/ UNCHANGED worker
    BY <1>5 DEF AnnounceStarted, AnnounceOutcome, AnnounceRetry, AnnounceFailed, Ack, Release,
       ReleaseFails, Escape, GraphStep
  <2> QED BY <1>0, <1>1, <1>2, <2>1, <2>2
<1>6. CASE \/ Mark(h) \/ SaveOutcome(h) \/ SaveFailure(h) \/ SaveUnpublishedRetry(h)
           \/ RetryForsaken(h)
  <2>1. task' \in {task, worker[h].task} /\ UNCHANGED queueVars
    BY <1>6 DEF Mark, SaveOutcome, SaveFailure, SaveUnpublishedRetry, RetryForsaken, SaveTask
  <2>2. \E pc : Goto(h, pc)
    BY <1>6 DEF Mark, SaveOutcome, SaveFailure, SaveUnpublishedRetry, RetryForsaken
  <2> QED BY <1>0, <1>1, <1>2, <2>1, <2>2
<1>7. CASE Load(h)
  <2>1. task' = task /\ UNCHANGED queueVars BY <1>7 DEF Load, storeVars
  <2>2. CASE \E pc : Goto(h, pc) BY <1>0, <1>1, <1>2, <2>1, <2>2
  <2>3. CASE worker' = [worker EXCEPT ![h].pc = "mark",
                                      ![h].task = [task EXCEPT !.status = "running"]]
    <3>1. worker'[h].task = [task EXCEPT !.status = "running"] /\ worker'[h].msg = worker[h].msg
      BY <1>0, <2>3 DEF Activation
    <3>2. worker'[h].task.status = "running" /\ worker'[h].task.pending = task.pending
      BY <1>0, <3>1 DEF TaskRecord
    <3>3. Plain(worker'[h].task) BY <1>0, <3>2 DEF Plain, Awaiting
    <3> QED BY <1>0, <1>2, <2>1, <3>1, <3>3
  <2> QED BY <1>7, <2>2, <2>3 DEF Load
<1>8. CASE Republish(h) \/ RepublishFails(h)
  <2> DEFINE m == worker[h].task.pending
  <2>1. m \in Message /\ Fresh(m)
    BY <1>0, <1>8 DEF Republish, RepublishFails, At, WorkerInv, ActivationOK, Sendable, Plain
  <2>2. task' = task /\ (PublishRetry(m) \/ UNCHANGED queueVars)
    BY <1>8 DEF Republish, RepublishFails, PublishRetryRaises, storeVars
  <2>3. \A n \in Message : ready'[n] > 0 \/ delayed'[n] > 0 => Fresh(n)
    BY <1>0, <2>1, <2>2, FreshQueue
  <2>4. CASE Republish(h) BY <1>0, <1>1, <2>2, <2>3, <2>4 DEF Republish
  <2>5. CASE RepublishFails(h)
    <3>1. /\ worker'[h].task = [worker[h].task EXCEPT !.status = "failed", !.error = "publish_failed"]
          /\ worker'[h].msg = worker[h].msg
      BY <1>0, <2>5 DEF RepublishFails, Activation
    <3>2. worker'[h].task.status = "failed" /\ worker'[h].task.pending = m
      BY <1>0, <3>1 DEF Activation, TaskRecord
    <3>3. Plain(worker'[h].task) BY <2>1, <3>2 DEF Plain, Awaiting
    <3> QED BY <1>0, <2>2, <2>3, <3>1, <3>3
  <2> QED BY <1>8, <2>4, <2>5
<1>9. ASSUME NEW e, HandleFailure(h, e), worker[h].pc \notin {"idle", "release"}
      PROVE  Plain(worker'[h].task) /\ Fresh(worker'[h].msg)
  <2> DEFINE r == [task EXCEPT !.status  = IF Retryable(h, e) THEN "retrying" ELSE "failed",
                               !.error   = IF e = "blocked" THEN "blocked" ELSE "other",
                               !.pending = NextMessage(h)]
             w == [worker[h] EXCEPT !.pc = "resave", !.task = r]
  <2>1. CASE Goto(h, "reject") BY <1>1, <2>1
  <2>2. CASE worker' = [worker EXCEPT ![h] = w]
    <3>1. worker'[h] = w BY <1>0, <2>2
    <3>2. w.task = r /\ w.msg = worker[h].msg BY <1>0 DEF Activation
    <3>3. r.status \in {"retrying", "failed"} /\ r.pending = NextMessage(h)
      BY <1>0 DEF TaskRecord
    <3>4. NextMessage(h).kind \in {worker[h].msg.kind, "retry"}
      <4>1. worker[h].msg \in Message BY <1>0, <1>9, InHand
      <4> QED BY <4>1 DEF NextMessage, Message
    <3>5. worker[h].msg # NoMessage
      BY <1>0, <1>9, InHand, NoMessageAssumption
    <3>6. Fresh(r.pending) BY <1>0, <3>3, <3>4, <3>5 DEF Fresh
    <3> HIDE DEF r, w
    <3>7. Plain(r) BY <3>3, <3>6 DEF Plain, Awaiting
    <3> QED BY <1>0, <3>1, <3>2, <3>7
  <2> QED BY <1>9, <2>1, <2>2 DEF HandleFailure
<1>10. CASE HandlerFault(h) \/ \E e \in {"other", "fatal", "blocked"} : GraphRaises(h, e)
  <2>1. task' = task /\ UNCHANGED queueVars
    BY <1>10 DEF HandlerFault, GraphRaises, storeVars
  <2>2. worker[h].pc \notin {"idle", "release"} /\ \E e : HandleFailure(h, e)
    BY <1>10 DEF HandlerFault, GraphRaises, At
  <2> QED BY <1>0, <1>2, <1>9, <2>1, <2>2
<1>11. ~ Outcome(h)
  <2>1. Outcome(h) => checkpoint' = graph[h] /\ graph[h].at \in Returned
    BY DEF Outcome, Return, Leave, Flushed, Returned, Saved
  <2> QED BY <2>1 DEF Returned
<1> QED
  BY <1>3, <1>4, <1>5, <1>6, <1>7, <1>8, <1>10, <1>11 DEF Work, ChannelGone, WorkerFault

\* What a request does while nothing was asked: there is nothing to answer, and
\* a resume repeats no answer.
LEMMA RequestUnasked ==
  ASSUME Inv, Unasked, NEW d \in Clients,
         \/ Serve(d) \/ NewRequest(d) \/ PublishFails(d) \/ RequestRaises(d)
         \/ RequestForsaken(d) \/ RequestAborts(d)
  PROVE  /\ Plain(task') /\ \A c \in Clients : Plain(request'[c].task)
         /\ ~ offered'
         /\ \A m \in Message : ready'[m] > 0 \/ delayed'[m] > 0 => Fresh(m)
<1>0. /\ QueueInv /\ ServiceInv /\ request \in [Clients -> RequestRecord]
      /\ request[d] \in RequestRecord /\ request[d].task \in TaskRecord /\ task \in TaskRecord
      /\ Plain(task) /\ Plain(request[d].task) /\ ~ offered
      /\ \A c \in Clients : Plain(request[c].task)
      /\ \A m \in Message : ready[m] > 0 \/ delayed[m] > 0 => Fresh(m)
  BY DEF Inv, ServiceInv, StoreInv, RecordOK, Unasked, RequestRecord
<1>1. ASSUME NEW q, Plain(q.task), request' = [request EXCEPT ![d] = q]
      PROVE  \A c \in Clients : Plain(request'[c].task)
  BY <1>0, <1>1
<1>2. ASSUME NEW pc, Proceed(d, pc) \/ Done(d)
      PROVE  \A c \in Clients : Plain(request'[c].task)
  <2>1. CASE Proceed(d, pc)
    <3> DEFINE q == [request[d] EXCEPT !.pc = pc]
    <3>1. Plain(q.task) BY <1>0 DEF RequestRecord
    <3>2. request' = [request EXCEPT ![d] = q] BY <2>1 DEF Proceed
    <3> HIDE DEF q
    <3> QED BY <1>1, <3>1, <3>2
  <2>2. CASE Done(d)
    <3>1. Plain(IdleRequest.task) BY FreshMessages DEF IdleRequest
    <3> QED BY <1>1, <2>2, <3>1 DEF Done
  <2> QED BY <1>2, <2>1, <2>2
<1>3. UNCHANGED queueVars => \A m \in Message : ready'[m] > 0 \/ delayed'[m] > 0 => Fresh(m)
  BY <1>0 DEF queueVars
<1>4. CASE \/ RecordDecision(d) \/ Transition(d) \/ CheckLease(d) \/ SaveResumed(d)
           \/ AnnounceRequest(d) \/ SaveUnpublished(d) \/ AnnounceUnpublished(d)
           \/ RequestRaises(d) \/ RequestForsaken(d) \/ RequestAborts(d)
  <2>1. task' \in {task, request[d].task} /\ offered' = offered /\ UNCHANGED queueVars
    BY <1>4 DEF RecordDecision, Transition, TransitionTask, CheckLease, SaveResumed, SaveTask,
       AnnounceRequest, SaveUnpublished, AnnounceUnpublished, RequestRaises, RequestForsaken,
       RequestAborts, storeVars, queueVars
  <2>2. \E pc : Proceed(d, pc) \/ Done(d)
    BY <1>4 DEF RecordDecision, Transition, CheckLease, SaveResumed, AnnounceRequest,
       SaveUnpublished, AnnounceUnpublished, RequestRaises, RequestForsaken, RequestAborts
  <2> QED BY <1>0, <1>2, <1>3, <2>1, <2>2
<1>5. CASE PublishRequest(d) \/ PublishFails(d)
  <2> DEFINE m == request[d].task.pending
  <2>1. m \in Message /\ Fresh(m)
    BY <1>0, <1>5, Yours DEF PublishRequest, PublishFails, Asks, RequestOK, Sendable, Plain
  <2>2. task' = task /\ offered' = offered /\ (Publish(m) \/ UNCHANGED queueVars)
    BY <1>5 DEF PublishRequest, PublishFails, PublishRaises, storeVars
  <2>3. \A n \in Message : ready'[n] > 0 \/ delayed'[n] > 0 => Fresh(n)
    BY <1>0, <2>1, <2>2, FreshQueue
  <2>4. CASE PublishRequest(d)
    BY <1>0, <1>2, <2>2, <2>3, <2>4 DEF PublishRequest
  <2>5. CASE PublishFails(d)
    <3> DEFINE r == [request[d].task EXCEPT !.status = "failed", !.error = "publish_failed"]
               q == [request[d] EXCEPT !.pc = "unpublished", !.task = r]
    <3>1. r.status = "failed" /\ r.pending = m BY <1>0 DEF TaskRecord
    <3>2. Plain(r) BY <2>1, <3>1 DEF Plain, Awaiting
    <3>3. q.task = r BY <1>0 DEF RequestRecord
    <3>4. request' = [request EXCEPT ![d] = q] BY <1>0, <2>5 DEF PublishFails
    <3> HIDE DEF q, r
    <3> QED BY <1>0, <1>1, <2>2, <2>3, <3>2, <3>3, <3>4
  <2> QED BY <1>5, <2>4, <2>5
<1>6. CASE Resume(d)
  <2>1. task' = task /\ offered' = offered /\ UNCHANGED queueVars
    BY <1>6 DEF Resume, storeVars
  <2> DEFINE r == [task EXCEPT !.status = "queued", !.error = "none", !.pending = ResumedMessage]
             q == [pc |-> IF task.status = "running" THEN "lease" ELSE "save",
                   op |-> "resume", decision |-> "none", expected |-> "absent", task |-> r]
  <2>2. Fresh(ResumedMessage)
    <3>1. CASE task.pending # NoMessage /\ task.pending.kind # "none"
      <4>1. ResumedMessage = [task.pending EXCEPT !.attempt = ResumedAttempt]
        BY <3>1 DEF ResumedMessage
      <4>2. task.pending \in Message BY <1>0, <3>1 DEF TaskRecord
      <4>3. ResumedMessage.kind = task.pending.kind BY <4>1, <4>2 DEF Message
      <4> QED BY <1>0, <3>1, <4>3 DEF Plain, Fresh
    <3>2. CASE ~ (task.pending # NoMessage /\ task.pending.kind # "none")
      BY <3>2 DEF ResumedMessage, Fresh
    <3> QED BY <3>1, <3>2
  <2>3. r.status = "queued" /\ r.pending = ResumedMessage BY <1>0 DEF TaskRecord
  <2>4. Plain(r) BY <2>2, <2>3 DEF Plain, Awaiting
  <2>5. request' = [request EXCEPT ![d] = q] /\ q.task = r BY <1>6 DEF Resume
  <2> HIDE DEF q, r
  <2> QED BY <1>0, <1>1, <1>3, <2>1, <2>4, <2>5
<1>7. ~ (\E p \in Products : SubmitInput(d, p))
      /\ ~ (\E decision \in {"approve", "reject"} : SubmitApproval(d, decision))
  BY <1>0 DEF SubmitInput, SubmitApproval, Plain, Awaiting
<1> QED BY <1>4, <1>5, <1>6, <1>7 DEF Serve, NewRequest

LEMMA InitAnswers == Init => AnswersFollow
<1> SUFFICES ASSUME Init PROVE Unasked BY DEF AnswersFollow
<1>1. Plain(task) /\ ~ offered
  BY FreshMessages DEF Init, StoreInit, NewTask, ServiceInit, Plain, Awaiting
<1>2. \A h \in Handlers : Plain(worker[h].task) /\ Fresh(worker[h].msg)
  BY FreshMessages DEF Init, WorkerInit, IdleWorker, NoCopy
<1>3. \A c \in Clients : request[c].task \in {task, Absent}
  BY DEF Init, ServiceInit, IdleRequest
<1>4. \A m \in Message : ready[m] = 0 /\ delayed[m] = 0
  BY DEF Init, QueueInit
<1> QED BY <1>1, <1>2, <1>3, <1>4, FreshMessages DEF Unasked

LEMMA NextAnswers ==
  ASSUME Inv, AnswersFollow, [Next]_vars
  PROVE  AnswersFollow'
<1> SUFFICES ASSUME checkpoint'.at = "none" PROVE Unasked'
  BY DEF AnswersFollow
<1>0. GraphTypeOK /\ WorkerInv /\ worker \in [Handlers -> Activation] /\ QueueInv
  BY DEF Inv, WorkerInv
<1>1. ASSUME NEW h \in Handlers, Work(h) \/ ChannelGone(h) \/ WorkerFault(h) \/ RetryForsaken(h),
             UNCHANGED <<request, offered>>
      PROVE  Unasked'
  <2>1. Unasked
    BY <1>0, <1>1, HandlerRejects, CheckpointStays DEF AnswersFollow
  <2>2. \A g \in Handlers : g # h => worker'[g] = worker[g] BY <1>0, <1>1, OthersStill
  <2> QED BY <1>1, <2>1, <2>2, HandlerUnasked DEF Unasked
<1>2. ASSUME NEW d \in Clients,
             \/ Serve(d) \/ NewRequest(d) \/ PublishFails(d) \/ RequestRaises(d)
             \/ RequestForsaken(d) \/ RequestAborts(d),
             UNCHANGED worker
      PROVE  Unasked'
  <2>1. UNCHANGED checkpoint
    BY <1>2 DEF Serve, NewRequest, RecordDecision, Transition, CheckLease, SaveResumed,
       AnnounceRequest, PublishRequest, SaveUnpublished, AnnounceUnpublished, SubmitInput,
       SubmitApproval, Resume, PublishFails, RequestRaises, RequestForsaken, RequestAborts,
       graphVars
  <2>2. Unasked BY <2>1 DEF AnswersFollow
  <2> QED BY <1>2, <2>2, RequestUnasked DEF Unasked
<1>3. CASE (ConnectionLost \/ WorkerCrash) /\ UNCHANGED <<request, offered>>
  <2>1. checkpoint' = checkpoint /\ task' = task /\ delayed' = delayed /\ RedeliverAll
    BY <1>3 DEF ConnectionLost, WorkerCrash, GraphCrash, storeVars, graphVars
  <2>2. Unasked BY <2>1 DEF AnswersFollow
  <2>3. ASSUME NEW h \in Handlers
        PROVE  worker'[h].task \in {worker[h].task, Absent} /\ worker'[h].msg \in {worker[h].msg, NoMessage}
    BY <1>0, <1>3 DEF ConnectionLost, WorkerCrash, IdleWorker, NoCopy, Activation
  <2>4. ASSUME NEW m \in Message, ready'[m] > 0 PROVE Fresh(m)
    <3> DEFINE held == {h \in Handlers : worker[h].live /\ worker[h].msg = m}
    <3>1. CASE held = {}
      <4>1. ready'[m] = ready[m] + Cardinality(held) BY <2>1 DEF RedeliverAll
      <4>2. Cardinality(held) = 0 BY <3>1, FS_EmptySet
      <4> HIDE DEF held
      <4>3. ready[m] > 0 BY <1>0, <2>4, <4>1, <4>2 DEF QueueInv, QueueTypeOK
      <4> QED BY <2>2, <4>3 DEF Unasked
    <3>2. CASE held # {} BY <2>2, <3>2 DEF Unasked
    <3> QED BY <3>1, <3>2
  <2> QED BY <1>3, <2>1, <2>2, <2>3, <2>4, FreshMessages DEF Unasked
<1>4. CASE /\ UNCHANGED <<worker, request, graph, checkpoint, queueVars>>
           /\ task' = task \/ task' = Absent
           /\ offered' = offered \/ task.status \in Awaiting
  <2>1. Unasked BY <1>4 DEF AnswersFollow
  <2> QED BY <1>4, <2>1, FreshMessages DEF Unasked, Plain, queueVars
<1>5. CASE DelayElapsed /\ UNCHANGED <<worker, request, offered, storeVars, graphVars>>
  <2>1. Unasked BY <1>5 DEF AnswersFollow, graphVars
  <2>2. \A m \in Message : ready'[m] > 0 \/ delayed'[m] > 0 => ready[m] > 0 \/ delayed[m] > 0
    BY <1>0, <1>5 DEF DelayElapsed, Put, QueueInv, QueueTypeOK
  <2> QED BY <1>5, <2>1, <2>2 DEF Unasked, storeVars
<1>6. CASE WorkerNext /\ UNCHANGED <<request, offered>>
  BY <1>1, <1>3, <1>4, <1>6 DEF WorkerNext, LeaseExpires, graphVars
<1>7. CASE ServiceNext /\ UNCHANGED worker
  BY <1>2, <1>4, <1>7 DEF ServiceNext, ReadOffer, storeVars, graphVars, Awaiting
<1>8. CASE Environment /\ UNCHANGED <<worker, request, offered, spent>>
  BY <1>4, <1>5, <1>8 DEF Environment, LateCommit, storeVars
<1>9. CASE ExpireRecord /\ UNCHANGED <<queueVars, graphVars, worker, request, offered>>
  BY <1>4, <1>9 DEF ExpireRecord, graphVars
<1>10. CASE UNCHANGED vars
  BY <1>4, <1>10 DEF vars, queueVars
<1> QED BY <1>6, <1>7, <1>8, <1>9, <1>10 DEF Next

\* run never raises CHECKPOINT_NOT_FOUND: wherever an answer is executed the
\* interrupt it answers has been checkpointed, whatever crashed, was lost or
\* sent twice, and even when leases expire under running handlers.
THEOREM Resumable == Spec => []ResumeFindsCheckpoint
<1>1. Inv /\ AnswersFollow => ResumeFindsCheckpoint
  <2> SUFFICES ASSUME Inv, AnswersFollow, NEW h \in Handlers, At(h, "graph"),
                      MissingCheckpoint(worker[h].msg)
               PROVE  FALSE
    BY DEF ResumeFindsCheckpoint
  <2>1. worker[h].msg \in Message BY InHand DEF Inv, At
  <2>2. worker[h].msg # NoMessage BY <2>1, NoMessageAssumption
  <2>3. Unasked BY DEF AnswersFollow, MissingCheckpoint
  <2> QED BY <2>2, <2>3 DEF MissingCheckpoint, Unasked, Fresh
<1>2. Inv /\ AnswersFollow /\ [Next]_vars => AnswersFollow' BY NextAnswers
<1> QED BY <1>1, <1>2, InitAnswers, Invariance, PTL DEF Spec

----------------------------------------------------------------------------
(* The refinement of OneDecision.  What a stored status promises is the     *)
(* invariant of the next state; what changes the plan or the offer stores   *)
(* no status.                                                              *)

\* Who decides was offered the plan.
AskedOffered == \A c \in Clients : request[c].op = "approval" => offered

LEMMA AskedNext ==
  ASSUME Inv, AskedOffered, [Next]_vars
  PROVE  AskedOffered' /\ (offered => offered')
<1>0. request \in [Clients -> RequestRecord] BY DEF Inv, ServiceInv
<1>1. ASSUME NEW d \in Clients,
             \/ Serve(d) \/ PublishFails(d) \/ RequestRaises(d) \/ RequestForsaken(d)
             \/ RequestAborts(d)
      PROVE  AskedOffered' /\ UNCHANGED offered
  <2>1. UNCHANGED offered
    BY <1>1 DEF Serve, RecordDecision, Transition, CheckLease, SaveResumed, AnnounceRequest,
       PublishRequest, SaveUnpublished, AnnounceUnpublished, PublishFails, RequestRaises,
       RequestForsaken, RequestAborts
  <2>2. \/ Done(d) \/ (\E pc : Proceed(d, pc)) \/ PublishFails(d)
    BY <1>1 DEF Serve, RecordDecision, Transition, CheckLease, SaveResumed, AnnounceRequest,
       PublishRequest, SaveUnpublished, AnnounceUnpublished, RequestRaises, RequestForsaken,
       RequestAborts
  <2>3. \A c \in Clients : request'[c].op \in {request[c].op, "none"}
    <3>1. Done(d) => \A c \in Clients : request'[c].op \in {request[c].op, "none"}
      BY <1>0 DEF Done, IdleRequest
    <3>2. ASSUME NEW pc, Proceed(d, pc)
          PROVE  \A c \in Clients : request'[c].op \in {request[c].op, "none"}
      BY <1>0, <3>2 DEF Proceed, RequestRecord
    <3>3. PublishFails(d) => \A c \in Clients : request'[c].op \in {request[c].op, "none"}
      BY <1>0 DEF PublishFails, RequestRecord
    <3> QED BY <2>2, <3>1, <3>2, <3>3
  <2> QED BY <2>1, <2>3 DEF AskedOffered
<1>2. ASSUME NEW d \in Clients, NewRequest(d) PROVE AskedOffered' /\ UNCHANGED offered
  <2>1. UNCHANGED offered BY <1>2 DEF NewRequest, SubmitInput, SubmitApproval, Resume
  <2>2. \A c \in Clients : c # d => request'[c] = request[c]
    BY <1>0, <1>2 DEF NewRequest, SubmitInput, SubmitApproval, Resume
  <2>3. request'[d].op = "approval" => offered
    <3>1. \A p \in Products : SubmitInput(d, p) => request'[d].op = "input"
      BY <1>0 DEF SubmitInput
    <3>2. \A decision \in {"approve", "reject"} : SubmitApproval(d, decision) => offered
      BY DEF SubmitApproval
    <3>3. Resume(d) => request'[d].op = "resume" BY <1>0 DEF Resume
    <3> QED BY <1>2, <3>1, <3>2, <3>3 DEF NewRequest
  <2> QED BY <2>1, <2>2, <2>3 DEF AskedOffered
<1>3. CASE ReadOffer BY <1>3 DEF ReadOffer, AskedOffered
<1>4. CASE UNCHANGED <<request, offered>> BY <1>4 DEF AskedOffered
<1> QED BY <1>1, <1>2, <1>3, <1>4 DEF Next, ServiceNext, vars

\* The steps that change the plan's fate, or who has seen it.
LEMMA FateSteps ==
  ASSUME Inv, DecisionInv, [Next]_vars
  PROVE  \/ UNCHANGED <<change, offered>>
         \/ \E h \in Handlers : GraphStep(h) /\ UNCHANGED offered
         \/ \E d \in Clients : RecordDecision(d)
         \/ ReadOffer /\ UNCHANGED change
         \/ LateCommit /\ UNCHANGED <<task, offered>>
<1>1. ASSUME NEW h \in Handlers, Work(h) \/ ChannelGone(h) \/ WorkerFault(h) \/ RetryForsaken(h),
             UNCHANGED offered
      PROVE  UNCHANGED <<change, offered>> \/ (GraphStep(h) /\ UNCHANGED offered)
  <2>1. EngagedOK(h) BY DEF DecisionInv
  <2>2. Keeps(h) \/ Stores(h) \/ GraphStep(h) \/ Outcome(h) \/ Raised(h)
    BY <1>1, <2>1, HandlerKinds
  <2> QED BY <1>1, <2>2 DEF Keeps, Stores, Outcome, Return, Raised
<1>2. CASE WorkerNext /\ UNCHANGED <<request, offered>>
  <2>1. LeaseExpires \/ ConnectionLost \/ WorkerCrash => UNCHANGED change
    BY DEF LeaseExpires, ConnectionLost, WorkerCrash, GraphCrash, graphVars
  <2> QED BY <1>1, <1>2, <2>1 DEF WorkerNext
<1>3. CASE ServiceNext /\ UNCHANGED worker
  <2>1. ASSUME NEW d \in Clients,
               \/ Serve(d) \/ NewRequest(d) \/ PublishFails(d) \/ RequestRaises(d)
               \/ RequestForsaken(d) \/ RequestAborts(d)
        PROVE  UNCHANGED <<change, offered>> \/ RecordDecision(d)
    BY <2>1 DEF Serve, NewRequest, SubmitInput, SubmitApproval, Resume, Transition, CheckLease,
       SaveResumed, AnnounceRequest, PublishRequest, SaveUnpublished, AnnounceUnpublished,
       PublishFails, RequestRaises, RequestForsaken, RequestAborts, graphVars
  <2>2. ReadOffer => UNCHANGED change BY DEF ReadOffer, graphVars
  <2> QED BY <1>3, <2>1, <2>2 DEF ServiceNext
<1>4. CASE Environment /\ UNCHANGED <<worker, request, offered, spent>>
  BY <1>4 DEF Environment, storeVars, graphVars
<1>5. CASE ExpireRecord /\ UNCHANGED <<graphVars, offered>>
  BY <1>5 DEF graphVars
<1>6. CASE UNCHANGED vars BY <1>6 DEF vars
<1> QED BY <1>2, <1>3, <1>4, <1>5, <1>6 DEF Next

LEMMA DecisionStep ==
  ASSUME Inv, DecisionInv, DecisionInv', RejectedIsReal, RejectedIsReal', AskedOffered,
         [Next]_vars
  PROVE  [Merchant!Next]_(Merchant!vars)
<1>1. CASE UNCHANGED <<change, offered>>
  <2>1. CASE task'.status = "awaiting_approval"
    <3>1. change # "none" BY <1>1, <2>1 DEF DecisionInv, OfferStands, Offering
    <3> QED BY <1>1, <2>1, <3>1 DEF Merchant!Next, Merchant!Ask, ReportOf
  <2>2. CASE task'.status = "completed"
    <3>1. checkpoint'.at = "completed" BY <2>2 DEF DecisionInv, Told, Behind
    <3>2. Offering' => change = "applied" BY <1>1, <3>1 DEF DecisionInv, CompletionApplies
    <3>3. change # "approve" /\ (offered => change = "applied")
      BY <1>1, <3>2 DEF Offering, Decided
    <3> QED BY <1>1, <2>2, <3>3 DEF Merchant!Next, Merchant!Complete, ReportOf, Final
  <2>3. CASE task'.status = "rejected"
    <3>1. change = "reject" BY <1>1, <2>3 DEF RejectedIsReal, SaysRejected
    <3> QED BY <1>1, <2>3, <3>1 DEF Merchant!Next, Merchant!Refuse, ReportOf, Final
  <2>4. CASE task'.status \notin {"awaiting_approval", "completed", "rejected"}
    BY <1>1, <2>4 DEF Merchant!Next, Merchant!Open, ReportOf, Final
  <2> QED BY <2>1, <2>2, <2>3, <2>4
<1>2. ASSUME NEW h \in Handlers, GraphStep(h), UNCHANGED offered
      PROVE  [Merchant!Next]_(Merchant!vars)
  <2>1. UNCHANGED task BY <1>2 DEF GraphStep, storeVars
  <2>2. \/ UNCHANGED change
        \/ change = "none" /\ change' = "planned"
        \/ change = "approve" /\ change' = "applied"
    BY <1>2 DEF GraphStep, Enter, Pick, Scope, Plan, AskApproval, Decide, Persist
  <2> QED
    BY <1>1, <1>2, <2>1, <2>2 DEF Merchant!Next, Merchant!Propose, Merchant!Apply
<1>3. ASSUME NEW d \in Clients, RecordDecision(d) PROVE [Merchant!Next]_(Merchant!vars)
  <2>1. UNCHANGED <<task, offered>> /\ request[d].pc = "record"
    BY <1>3 DEF RecordDecision, Asks, storeVars
  <2>2. /\ request[d].op = "approval" /\ offered
        /\ request[d].decision \in {"approve", "reject"}
    BY <2>1 DEF DecisionInv, AskingOK, AskedOffered, Inv, ServiceInv, RequestRecord
  <2>3. CASE UNCHANGED change BY <1>1, <2>1, <2>3
  <2>4. CASE change = "planned" /\ change' = request[d].decision
    <3>1. task.status # "completed"
      <4>1. task.status = "completed" => checkpoint.at = "completed"
        BY DEF DecisionInv, Told, Behind
      <4> QED BY <2>2, <2>4, <4>1 DEF DecisionInv, CompletionApplies, Offering
    <3>2. task.status # "rejected" BY <2>4 DEF RejectedIsReal, SaysRejected
    <3> QED
      BY <2>1, <2>2, <2>4, <3>1, <3>2 DEF Merchant!Next, Merchant!Decide, ReportOf, Final
  <2> QED BY <1>3, <2>3, <2>4 DEF RecordDecision
<1>4. CASE ReadOffer /\ UNCHANGED change
  BY <1>4 DEF ReadOffer, storeVars, Merchant!Next, Merchant!Offer, ReportOf
<1>5. CASE LateCommit /\ UNCHANGED <<task, offered>>
  <2>1. \/ UNCHANGED change
        \/ change = "none" /\ change' = "planned"
        \/ change = "approve" /\ change' = "applied"
    BY <1>5 DEF LateCommit
  <2> QED BY <1>1, <1>5, <2>1 DEF Merchant!Next, Merchant!Propose, Merchant!Apply
<1> QED BY <1>1, <1>2, <1>3, <1>4, <1>5, FateSteps

\* Record, requests, handlers, graph and ledger implement OneDecision, for any
\* number of handlers, clients, products, faults and crashes, if handlers finish
\* within their lease's TTL.
THEOREM ImplementsOneDecision ==
  ASSUME SlowHandlers = FALSE
  PROVE  Spec => DecisionKept
<1>1. Init => Merchant!Init /\ RejectedIsReal /\ AskedOffered
  <2> SUFFICES ASSUME Init PROVE Merchant!Init /\ RejectedIsReal /\ AskedOffered OBVIOUS
  <2>1. /\ task.status = "queued" /\ change = "none" /\ offered = FALSE /\ checkpoint.at = "none"
        /\ \A h \in Handlers : graph[h].at = "off" /\ worker[h].task.status = "absent"
    BY DEF Init, StoreInit, NewTask, GraphInit, Off, WorkerInit, IdleWorker, NoCopy, Absent,
       ServiceInit
  <2>2. \A c \in Clients : request[c].op \in {"create", "none"}
    BY DEF Init, ServiceInit, IdleRequest
  <2> QED
    BY <2>1, <2>2 DEF Merchant!Init, ReportOf, Final, RejectedIsReal, SaysRejected, AskedOffered
<1>2. Inv /\ RejectedIsReal /\ [Next]_vars => RejectedIsReal' BY RejectionNext
<1>3. Inv /\ AskedOffered /\ [Next]_vars => AskedOffered' BY AskedNext
<1>4. /\ Inv /\ DecisionInv /\ DecisionInv' /\ RejectedIsReal /\ RejectedIsReal' /\ AskedOffered
      /\ [Next]_vars
      => [Merchant!Next]_(Merchant!vars)
  BY DecisionStep
<1> QED
  BY <1>1, <1>2, <1>3, <1>4, DecisionInvariance, PTL DEF Spec, DecisionKept, Merchant!Spec

=============================================================================
