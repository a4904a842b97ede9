----------------------------- MODULE AgentGraph -----------------------------
(***************************************************************************)
(* The diagnosis loop of agent/graph.py for one task: metrics, model,      *)
(* tools, validate and plan, with the limits that end it, the calls that   *)
(* run in parallel, and the checkpoints that carry its counters from one   *)
(* run to the next.  Which runs there are, and what becomes of a plan, is  *)
(* the business of AgentOrchestrator and the worker.                       *)
(*                                                                         *)
(* LangGraph (external): the channels of the graph change when a node      *)
(* ends; a checkpoint of them is written while the next node already runs, *)
(* all of them are when ainvoke returns or raises, and a process that dies *)
(* loses those not yet written.  A node that raises leaves the channels as *)
(* they were, and is the first node of the next run.                       *)
(***************************************************************************)
EXTENDS Naturals, Sequences, FiniteSets, SequencesExt, Funnel

CONSTANTS
  Calls,               \* calls of read tools: a name and its arguments
  Permitted,           \* those of a known tool, in the scope of the task
  Submit,              \* a call of submit_diagnosis
  Evidence,            \* evidence ids
  MetricEvidence,      \* those that come with the metrics
  ToolEvidence,        \* those some tool may return
  Diagnoses,           \* arguments of submit_diagnosis that fit the schema
  NoDiagnosis,         \* the channel is None
  Unparsable,          \* {"validation_parse_error": ...}
  Weeks,               \* funnels the database may hold: <<before, after>>
  MaxIterations, MaxRepeatedSteps, MaxToolCallsPerTurn, MaxParallelTools,
  MaxReflections, RetryAttempts,
  MaxRuns, MaxCrashes

Finding == [fact : BOOLEAN, content : BOOLEAN, cites : SUBSET Evidence]

ASSUME GraphAssumption ==
  /\ Permitted \subseteq Calls /\ Submit \notin Calls
  /\ MetricEvidence \subseteq Evidence /\ ToolEvidence \subseteq Evidence
  /\ Diagnoses \subseteq [findings : SUBSET Finding, patch : BOOLEAN]
  /\ {NoDiagnosis, Unparsable} \cap Diagnoses = {} /\ NoDiagnosis # Unparsable
  /\ Weeks \subseteq Window \X Window

ASSUME LimitsAssumption ==
  /\ {MaxIterations, MaxRepeatedSteps, MaxToolCallsPerTurn, MaxParallelTools,
      RetryAttempts} \subseteq Nat \ {0}
  /\ {MaxReflections, MaxRuns, MaxCrashes} \subseteq Nat

-----------------------------------------------------------------------------
\* A message is kept for what later nodes read of it.
Message == [role : {"user", "assistant", "tool"},
            calls : Seq(Calls \cup {Submit}), evidence : SUBSET Evidence]

UserMessage         == [role |-> "user", calls |-> <<>>, evidence |-> {}]
AssistantMessage(c) == [role |-> "assistant", calls |-> c, evidence |-> {}]
ToolMessage(e)      == [role |-> "tool", calls |-> <<>>, evidence |-> e]

Node == {"scope", "metrics", "model", "tools", "validate", "plan", "approval", "end"}

\* AgentState, and the node that runs next.
AgentState ==
  [next : Node, messages : Seq(Message), metrics : BOOLEAN,
   diagnosis : Diagnoses \cup {NoDiagnosis, Unparsable}, iteration : Nat,
   repeated : Nat, signature : Seq(Calls), reflections : Nat]

InitialState ==
  [next |-> "scope", messages |-> <<UserMessage>>, metrics |-> FALSE,
   diagnosis |-> NoDiagnosis, iteration |-> 0, repeated |-> 0, signature |-> <<>>,
   reflections |-> 0]

\* How the last run ended; "blocked" is an error resume_task refuses to retry.
Outcome == {"none", "failed", "blocked", "completed", "awaiting_approval"}

VARIABLES
  state,       \* the channels of the graph
  saved,       \* the last checkpoint written
  running,     \* ainvoke is under way
  outcome,     \* how the last run ended
  steps,       \* supersteps this run has done
  tries,       \* requests the running model node has sent in vain
  tools,       \* the calls of the running tools node
  stray,       \* calls of a tools node that raised, not cancelled by it
  known,       \* history: evidence the metrics or a tool returned
  plan,        \* the diagnosis whose patch create_plan stored for the task
  late,        \* create_plan threads whose awaiter was cancelled
  used         \* bounds: runs started, crashes

vars == <<state, saved, running, outcome, steps, tries, tools, stray, known,
          plan, late, used>>

Limit == MaxIterations * 3 + 12     \* recursion_limit

Waiting == [phase |-> "waiting", evidence |-> {}]

\* asyncio.gather: one coroutine per call of the last message.
Gather(s) ==
  IF s.next = "tools" THEN [i \in DOMAIN Last(s.messages).calls |-> Waiting] ELSE <<>>

Init ==
  /\ state = InitialState /\ saved = InitialState
  /\ running = FALSE /\ outcome = "none"
  /\ steps = 0 /\ tries = 0
  /\ tools = <<>> /\ stray = [waiting |-> 0, running |-> 0]
  /\ known = {} /\ plan = NoDiagnosis /\ late = {}
  /\ used = [runs |-> 0, crashes |-> 0]

\* Mutant: a retry begins again with the prompt.
StartAfresh ==
  /\ ~ running /\ outcome \in {"none", "failed"}
  /\ used.runs < MaxRuns
  /\ used' = [used EXCEPT !.runs = @ + 1]
  /\ running' = TRUE
  /\ state' = InitialState
  /\ tools' = <<>>
  /\ UNCHANGED <<saved, outcome, steps, tries, stray, known, plan, late>>

\* run: continue from the checkpoint, or begin.
Start ==
  /\ ~ running /\ outcome \in {"none", "failed"}
  /\ used.runs < MaxRuns
  /\ used' = [used EXCEPT !.runs = @ + 1]
  /\ running' = TRUE
  /\ tools' = Gather(state)
  /\ UNCHANGED <<state, saved, outcome, steps, tries, stray, known, plan, late>>

\* A node has returned: its writes are applied and the next node begins.
Proceed(s) ==
  /\ state' = s
  /\ tools' = Gather(s)
  /\ steps' = steps + 1
  /\ tries' = 0
  /\ UNCHANGED <<saved, running, outcome, late, used>>

\* ainvoke raises or returns; the checkpoints are written by then.
Finish(o) ==
  /\ running' = FALSE /\ outcome' = o
  /\ saved' = state
  /\ tools' = <<>> /\ tries' = 0 /\ steps' = 0
  /\ UNCHANGED <<state, known, plan, used>>

At(node) == running /\ state.next = node

\* A node raises before its writes: a query, an event or a request fails.
NodeFails ==
  /\ running /\ state.next \notin {"tools", "end"}
  /\ Finish("failed")
  /\ UNCHANGED <<stray, late>>

\* asyncio.timeout of the worker cancels the run, the awaited calls with it; a
\* thread inside create_plan goes on.
Cancelled ==
  /\ running
  /\ Finish("failed")
  /\ late' \in {late} \cup (IF state.next = "plan" /\ state.diagnosis.patch
                            THEN {late \cup {state.diagnosis}} ELSE {})
  /\ UNCHANGED stray

-----------------------------------------------------------------------------
\* _scope_node with a product already chosen; AgentOrchestrator has the rest.
Scope ==
  /\ At("scope")
  /\ Proceed([state EXCEPT !.next = "metrics"])
  /\ UNCHANGED <<stray, known, plan>>

\* _metrics_node
Metrics ==
  /\ At("metrics")
  /\ Proceed([state EXCEPT !.next = "model",
                           !.metrics = TRUE,
                           !.messages = Append(@, UserMessage)])
  /\ known' = known \cup MetricEvidence
  /\ UNCHANGED <<stray, plan>>

\* AssistantTurn: the read calls in their order, the diagnoses beside them.  Of a
\* submit_diagnosis that is not alone only its being there is looked at.
Turns ==
  [calls : UNION {[1 .. n -> Calls] : n \in 0 .. MaxToolCallsPerTurn + 1}, submits : {<<>>}]
    \cup [calls : {<<>>}, submits : {<<d>> : d \in Diagnoses \cup {Unparsable}}]
    \cup [calls : {<<>>} \cup {<<c>> : c \in Calls}, submits : {<<Unparsable, Unparsable>>}]
    \cup [calls : {<<c>> : c \in Calls}, submits : {<<Unparsable>>}]

\* Mutant: the repetition is only looked for within one run.
RepetitionOfRun(turn) ==
  IF turn.calls = <<>> THEN 0
  ELSE IF turn.calls = state.signature /\ steps > 0 THEN state.repeated + 1 ELSE 1

\* _detect_repetition
Repetition(turn) ==
  IF turn.calls = <<>> THEN 0
  ELSE IF turn.calls = state.signature THEN state.repeated + 1 ELSE 1

LoopDetected(turn) ==
  \/ Len(turn.calls) + Len(turn.submits) > MaxToolCallsPerTurn
  \/ Repetition(turn) >= MaxRepeatedSteps

MayAsk == At("model") /\ state.iteration < MaxIterations

\* _model_node: the turn is taken.  A lone submit_diagnosis, or no call at
\* all, goes to validation, anything else to the tools.
AcceptTurn(turn) ==
  LET read      == turn.calls # <<>>
      submitted == turn.submits # <<>>
      diagnosis == IF read THEN NoDiagnosis
                   ELSE IF submitted THEN turn.submits[1] ELSE Unparsable
      s == [state EXCEPT
              !.next = IF read THEN "tools" ELSE "validate",
              !.messages = Append(@, AssistantMessage(
                              IF submitted THEN <<Submit>> ELSE turn.calls)),
              !.diagnosis = diagnosis,
              !.iteration = @ + 1,
              !.repeated = Repetition(turn),
              !.signature = turn.calls]
  IN /\ MayAsk
     /\ ~ LoopDetected(turn)
     /\ ~ (submitted /\ (read \/ Len(turn.submits) # 1))
     /\ state' = s
     /\ tools' = Gather(s)
     /\ steps' = steps + 1
     /\ tries' = 0
     /\ UNCHANGED <<saved, running, outcome, late, used, stray, known, plan>>

\* _model_node raises on the turn: too many calls or a repetition
\* (AGENT_LOOP_DETECTED), or a submit_diagnosis that is not alone.
RejectTurn(turn) ==
  /\ MayAsk
  /\ \/ LoopDetected(turn) /\ Finish("blocked")
     \/ /\ ~ LoopDetected(turn)
        /\ turn.submits # <<>> /\ (turn.calls # <<>> \/ Len(turn.submits) # 1)
        /\ Finish("failed")
  /\ UNCHANGED <<stray, late>>

\* The iterations are used up.
OutOfIterations ==
  /\ At("model") /\ state.iteration >= MaxIterations
  /\ Finish("blocked")
  /\ UNCHANGED <<stray, late>>

\* retry_async around the request: a timeout, a network error, 429 or 5xx is
\* tried again while attempts are left ...
AskAgain ==
  /\ MayAsk
  /\ tries + 1 < RetryAttempts
  /\ tries' = tries + 1
  /\ UNCHANGED <<state, saved, running, outcome, steps, tools, stray, known, plan, late, used>>

\* ... and then raised; another answer the client refuses at once.
ModelFails ==
  /\ MayAsk
  /\ \/ tries + 1 >= RetryAttempts /\ Finish("failed")
     \/ Finish("blocked")
  /\ UNCHANGED <<stray, late>>

-----------------------------------------------------------------------------
Holding == Cardinality({i \in DOMAIN tools : tools[i].phase = "running"})

\* Mutant: the semaphore does not count what an earlier attempt left behind.
FreeOfMine == Holding < MaxParallelTools

\* The semaphore is the orchestrator's, not the run's.
Free == Holding + stray.running < MaxParallelTools

\* The calls of the tools node but for the one that raised are left alone.
Abandon(i) ==
  LET Left(phase) == Cardinality({j \in DOMAIN tools \ {i} : tools[j].phase = phase})
  IN stray' = [waiting |-> stray.waiting + Left("waiting"),
               running |-> stray.running + Left("running")]

\* _execute_tool: past the semaphore, the call is refused or sent.
ToolStarts(i) ==
  LET call == Last(state.messages).calls[i]
  IN /\ At("tools") /\ Free
     /\ tools[i].phase = "waiting"
     /\ call \in Permitted
     /\ tools' = [tools EXCEPT ![i].phase = "running"]
     /\ UNCHANGED <<state, saved, running, outcome, steps, tries, stray, known,
                    plan, late, used>>

\* TOOL_NOT_FOUND, MERCHANT_FORBIDDEN, PRODUCT_SCOPE_FORBIDDEN
ToolRefused(i) ==
  /\ At("tools") /\ Free
  /\ tools[i].phase = "waiting"
  /\ Last(state.messages).calls[i] \notin Permitted
  /\ Finish("failed")
  /\ Abandon(i)
  /\ UNCHANGED late

ToolReturns(i) ==
  /\ At("tools")
  /\ tools[i].phase = "running"
  /\ \E e \in SUBSET ToolEvidence :
       /\ tools' = [tools EXCEPT ![i] = [phase |-> "done", evidence |-> e]]
       /\ known' = known \cup e
  /\ UNCHANGED <<state, saved, running, outcome, steps, tries, stray, plan, late,
                 used>>

\* The first exception ends gather and the run.
ToolFails(i) ==
  /\ At("tools")
  /\ tools[i].phase = "running"
  /\ Finish("failed")
  /\ Abandon(i)
  /\ UNCHANGED late

\* _tool_node returns the results in the order of the calls.
ToolsDone ==
  /\ At("tools")
  /\ \A i \in DOMAIN tools : tools[i].phase = "done"
  /\ Proceed([state EXCEPT !.next = "model",
        !.messages = @ \o [i \in DOMAIN tools |-> ToolMessage(tools[i].evidence)]])
  /\ UNCHANGED <<stray, known, plan>>

\* A call nobody awaits any more gets the semaphore, or ends and releases it.
StrayStarts ==
  /\ stray.waiting > 0 /\ Free
  /\ stray' = [waiting |-> stray.waiting - 1, running |-> stray.running + 1]
  /\ UNCHANGED <<state, saved, running, outcome, steps, tries, tools, known, plan,
                 late, used>>

\* Mutant: the semaphore is released only when the result is awaited.
StrayEndsHolding ==
  /\ stray.running > MaxParallelTools
  /\ stray' = [stray EXCEPT !.running = @ - 1]
  /\ UNCHANGED <<state, saved, running, outcome, steps, tries, tools, known, plan,
                 late, used>>

\* Mutant: the semaphore is released by a call that never got it.
StrayEndsUnheld ==
  /\ stray.running + stray.waiting > 0
  /\ stray' = [stray EXCEPT !.running = @ - 1]
  /\ UNCHANGED <<state, saved, running, outcome, steps, tries, tools, known, plan, late, used>>

StrayEnds ==
  /\ stray.running > 0
  /\ stray' = [stray EXCEPT !.running = @ - 1]
  /\ UNCHANGED <<state, saved, running, outcome, steps, tries, tools, known, plan,
                 late, used>>

-----------------------------------------------------------------------------
\* Mutant: ids count wherever they stand, also in what the model submitted.
CollectFromAll ==
  MetricEvidence \cup UNION {finding.cites : finding \in state.diagnosis.findings}

\* _collect_evidence_ids
CollectEvidence ==
  (IF state.metrics THEN MetricEvidence ELSE {}) \cup
    UNION {m.evidence : m \in {x \in Range(state.messages) : x.role = "tool"}}

\* _validate_diagnosis finds nothing to object to.
Valid ==
  /\ state.diagnosis \in Diagnoses
  /\ \A finding \in state.diagnosis.findings :
       /\ finding.fact => finding.cites # {}
       /\ finding.cites \subseteq CollectEvidence
  /\ state.diagnosis.patch =>
       \E finding \in state.diagnosis.findings :
         finding.fact /\ finding.content /\ finding.cites # {}

Corrected ==
  [state EXCEPT !.next = "model", !.diagnosis = NoDiagnosis,
                !.reflections = @ + 1,
                !.messages = @ \o (IF Submit \in Range(Last(@).calls)
                                   THEN <<ToolMessage({})>> ELSE <<>>) \o <<UserMessage>>]

\* Mutant: the rejected submit_diagnosis gets no answer.
ReflectUnanswered ==
  /\ At("validate") /\ ~ Valid
  /\ state.reflections < MaxReflections
  /\ Proceed([Corrected EXCEPT !.messages = Append(state.messages, UserMessage)])
  /\ UNCHANGED <<stray, known, plan>>

\* Mutant: the limit is looked at after one correction more.
ReflectOnceMore ==
  /\ At("validate") /\ ~ Valid
  /\ state.reflections <= MaxReflections
  /\ Proceed(Corrected)
  /\ UNCHANGED <<stray, known, plan>>

\* _validation_node: tell the model what to correct, while it may try again.
Reflect ==
  /\ At("validate") /\ ~ Valid
  /\ state.reflections < MaxReflections
  /\ Proceed(Corrected)
  /\ UNCHANGED <<stray, known, plan>>

\* DIAGNOSIS_VALIDATION_FAILED
GiveUp ==
  /\ At("validate") /\ ~ Valid
  /\ state.reflections >= MaxReflections
  /\ Finish("failed")
  /\ UNCHANGED <<stray, late>>

Validated ==
  /\ At("validate") /\ Valid
  /\ Proceed([state EXCEPT !.next = "plan"])
  /\ UNCHANGED <<stray, known, plan>>

\* create_plan: a task that has a plan keeps it.
Stored(d) == IF plan = NoDiagnosis THEN d ELSE plan

\* _plan_node
Plan ==
  /\ At("plan")
  /\ IF state.diagnosis.patch
     THEN /\ Proceed([state EXCEPT !.next = "approval"])
          /\ plan' = Stored(state.diagnosis)
     ELSE /\ Proceed([state EXCEPT !.next = "end"])
          /\ UNCHANGED plan
  /\ UNCHANGED <<stray, known>>

LateCommit ==
  \E d \in late :
    /\ late' = late \ {d}
    /\ plan' = Stored(d)
    /\ UNCHANGED <<state, saved, running, outcome, steps, tries, tools, stray,
                   known, used>>

\* _approval_node reaches interrupt(), or the graph its end.
Return ==
  /\ running /\ state.next \in {"approval", "end"}
  /\ Finish(IF state.next = "end" THEN "completed" ELSE "awaiting_approval")
  /\ UNCHANGED <<stray, late>>

-----------------------------------------------------------------------------
Persist ==
  /\ running /\ saved # state
  /\ saved' = state
  /\ UNCHANGED <<state, running, outcome, steps, tries, tools, stray, known, plan,
                 late, used>>

\* The process dies.
Crash ==
  /\ running
  /\ used.crashes < MaxCrashes
  /\ used' = [used EXCEPT !.crashes = @ + 1]
  /\ running' = FALSE /\ outcome' = "none"
  /\ state' = saved
  /\ tools' = <<>> /\ tries' = 0
  /\ stray' = [waiting |-> 0, running |-> 0]
  /\ late' = {}
  /\ steps' = 0
  /\ UNCHANGED <<saved, known, plan>>

\* What a run does by itself: every request and every call has a timeout.
Step ==
  \/ Scope \/ Metrics
  \/ \E turn \in Turns : AcceptTurn(turn) \/ RejectTurn(turn)
  \/ OutOfIterations \/ AskAgain \/ ModelFails
  \/ \E i \in DOMAIN tools : ToolStarts(i) \/ ToolRefused(i) \/ ToolReturns(i) \/ ToolFails(i)
  \/ ToolsDone
  \/ Reflect \/ GiveUp \/ Validated
  \/ Plan \/ Return

Leftover == StrayStarts \/ StrayEnds

Next ==
  \/ Start \/ Step \/ NodeFails \/ Cancelled
  \/ Leftover \/ LateCommit
  \/ Persist \/ Crash

Spec == Init /\ [][Next]_vars

\* asyncio runs what is ready; whether a run starts, fails or is cut off, nothing
\* makes fair.
FairSpec == Spec /\ WF_vars(Step) /\ WF_vars(Leftover)

-----------------------------------------------------------------------------
TypeOK ==
  /\ state \in AgentState /\ saved \in AgentState
  /\ running \in BOOLEAN /\ outcome \in Outcome
  /\ steps \in Nat /\ tries \in Nat
  /\ tools \in Seq([phase : {"waiting", "running", "done"}, evidence : SUBSET Evidence])
  /\ stray \in [waiting : Nat, running : Nat]
  /\ known \in SUBSET Evidence
  /\ plan \in Diagnoses \cup {NoDiagnosis}
  /\ late \in SUBSET Diagnoses
  /\ used \in [runs : Nat, crashes : Nat]

\* A run never meets LangGraph's recursion limit, and over all runs of
\* the task the model is corrected at most max_reflections times: beside the prompt
\* and the context, the conversation holds no more messages of the user.
Corrections == Cardinality({i \in DOMAIN state.messages : state.messages[i].role = "user"})

LoopBounded ==
  /\ running /\ state.next # "end" => steps < Limit
  /\ Corrections <= 2 + MaxReflections

\* No conversation has max_repeated_steps turns in a row that ask for the same
\* calls, however the turns are spread over runs: of so many turns, whatever is said
\* between them, one asks for no read, or two ask for different ones.
TurnsIn(q, i, j) == {k \in i .. j : q[k].role = "assistant"}

Stuck(q, S) ==
  \A k \in S : q[k].calls \notin {<<>>, <<Submit>>} /\ \A l \in S : q[k].calls = q[l].calls

NoStuckRepetition ==
  \A i, j \in DOMAIN state.messages :
    LET turns == TurnsIn(state.messages, i, j)
    IN Cardinality(turns) >= MaxRepeatedSteps => ~ Stuck(state.messages, turns)

\* Whenever the model is asked, every call of every assistant message is answered
\* by a tool message of its own before anything else is said: the chat completions
\* interface refuses any other conversation.
ConversationAnswered ==
  At("model") =>
    \A i \in DOMAIN state.messages :
      LET n == Len(state.messages[i].calls)
          answered == i + n
      IN state.messages[i].role = "assistant" =>
           /\ answered <= Len(state.messages)
           /\ \A j \in i + 1 .. answered : state.messages[j].role = "tool"
           /\ answered < Len(state.messages) => state.messages[answered + 1].role # "tool"

\* max_parallel_tools holds for the process, with the calls a failed attempt left
\* running counted in.
ParallelToolsBounded == Holding + stray.running <= MaxParallelTools

\* Unless the process died in between, the report the merchant reads with a plan
\* is of the diagnosis the plan was made from.
ReportMatchesPlan ==
  used.crashes = 0 /\ outcome = "awaiting_approval" => plan = state.diagnosis

\* Whatever funnel the metrics node meets, the contributions are missing exactly when
\* a week had no clicks, and otherwise account for the whole change of orders.
Explained(before, after) ==
  LET c == CompareFunnel(before, after)
      noClicks == before.clicks = 0 \/ after.clicks = 0
  IN /\ (c.traffic = NoRate) = noClicks
     /\ (c.conversion = NoRate) = noClicks
     /\ ~ noClicks => AddsUp(c)

FunnelExplained == At("metrics") => \A w \in Weeks : Explained(w[1], w[2])

Advice == INSTANCE GroundedAdvice WITH advice <- plan

\* The loop implements GroundedAdvice.
AdviceGrounded == Advice!Spec

\* Every run ends.
RunEnds == running ~> ~ running
=============================================================================
