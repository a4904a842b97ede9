------------------------- MODULE AgentOrchestrator -------------------------
(***************************************************************************)
(* AgentOrchestrator.run and the LangGraph graph it drives, seen from the  *)
(* worker: which node comes next, what the checkpoint of the task says,    *)
(* and the one change the task may make to the commerce ledger.  The       *)
(* metrics, model, tools and validate nodes are the one position           *)
(* "diagnose"; CommerceLedger models the ledger in detail.                 *)
(*                                                                         *)
(* LangGraph (external) writes a checkpoint after every superstep while    *)
(* the next one already runs, and has written all of them when ainvoke     *)
(* returns or raises; a process that dies loses those not yet written.     *)
(***************************************************************************)
EXTENDS TaskQueue

\* Where a run stands.  "picked" and "decided": re-entering the scope or
\* approval node with the value its interrupt() waited for.
Position == {"off", "scope", "input", "picked", "diagnose", "approve", "approval",
             "decided", "completed", "rejected"}

\* The positions a checkpoint can hold; at these runs return.
Saved    == {"none", "scope", "input", "diagnose", "approve", "approval",
             "completed", "rejected"}
Returned == {"input", "approval", "completed", "rejected"}

Change == {"none", "planned", "approve", "reject", "applied"}

Off == [at |-> "off", product |-> NoProduct]

VARIABLES
  graph,         \* graph[h]: the run inside handler h
  checkpoint,    \* the latest checkpoint of the task's thread
  change,        \* the task's plan: none, planned, decided, or applied
  late           \* ledger calls whose awaiter was cancelled, still running

graphVars == <<graph, checkpoint, change, late>>

GraphTypeOK ==
  /\ graph \in [Handlers -> [at : Position, product : Products \cup {NoProduct}]]
  /\ checkpoint \in [at : Saved, product : Products \cup {NoProduct}]
  /\ change \in Change
  /\ late \in SUBSET {"plan", "apply"}

GraphInit ==
  /\ graph = [h \in Handlers |-> Off]
  /\ checkpoint = [at |-> "none", product |-> NoProduct]
  /\ change = "none"
  /\ late = {}

\* Mutant: every interrupt waits for an input.
ExpectInput == "input"

\* _resume_kind_for_interaction
ExpectedKind == IF checkpoint.at = "approval" THEN "approval" ELSE "input"

\* CHECKPOINT_NOT_FOUND: run has nothing to resume and raises.
MissingCheckpoint(m) == checkpoint.at = "none" /\ m.kind \in {"input", "approval"}

\* run up to ainvoke: start afresh, hand a pending interrupt its value or
\* return it unanswered, or continue from the checkpoint.
Enter(h, m, p) ==
  /\ graph[h] = Off
  /\ ~ MissingCheckpoint(m)
  /\ graph' = [graph EXCEPT ![h] =
       IF checkpoint.at = "none" THEN [at |-> "scope", product |-> p]
       ELSE IF checkpoint.at \in {"input", "approval"} /\ m.kind = ExpectedKind
         THEN [checkpoint EXCEPT !.at = IF m.kind = "input" THEN "picked" ELSE "decided"]
       ELSE checkpoint]
  /\ UNCHANGED <<checkpoint, change, late>>

MoveTo(h, position, p) ==
  graph' = [graph EXCEPT ![h] = [at |-> position, product |-> p]]

\* _scope_node: the product is known, or the prompt matches just one, or ask.
Scope(h) ==
  /\ graph[h].at = "scope"
  /\ \/ graph[h].product # NoProduct /\ MoveTo(h, "diagnose", graph[h].product)
     \/ /\ graph[h].product = NoProduct
        /\ \/ \E p \in Products : MoveTo(h, "diagnose", p)
           \/ MoveTo(h, "input", NoProduct)
  /\ UNCHANGED <<checkpoint, change, late>>

\* _scope_node after interrupt() returned the product the message carries.
Pick(h, m) ==
  /\ graph[h].at = "picked"
  /\ MoveTo(h, "diagnose", m.id)
  /\ UNCHANGED <<checkpoint, change, late>>

\* The diagnosis loop and _plan_node: end without a patch, or create_plan,
\* which returns the plan the task already has.
Plan(h) ==
  /\ graph[h].at = "diagnose"
  /\ \/ MoveTo(h, "completed", graph[h].product) /\ UNCHANGED change
     \/ /\ MoveTo(h, "approve", graph[h].product)
        /\ change' = IF change = "none" THEN "planned" ELSE change
  /\ UNCHANGED <<checkpoint, late>>

\* _approval_node up to interrupt().
AskApproval(h) ==
  /\ graph[h].at = "approve"
  /\ MoveTo(h, "approval", graph[h].product)
  /\ UNCHANGED <<checkpoint, change, late>>

\* Mutant: an approved change is reported, not applied.
DecideUnapplied(h) ==
  /\ graph[h].at = "decided"
  /\ MoveTo(h, IF change = "reject" THEN "rejected" ELSE "completed", graph[h].product)
  /\ UNCHANGED <<checkpoint, change, late>>

\* Mutant: the recorded decision is not read again before the change is applied.
DecideUnchecked(h) ==
  /\ graph[h].at = "decided"
  /\ \/ change = "reject" /\ MoveTo(h, "rejected", graph[h].product) /\ UNCHANGED change
     \/ MoveTo(h, "completed", graph[h].product) /\ change' = "applied"
  /\ UNCHANGED <<checkpoint, late>>

\* _approval_node after interrupt(): execute the decision of the merchant.
Decide(h) ==
  /\ graph[h].at = "decided"
  /\ \/ /\ change = "reject"
        /\ MoveTo(h, "rejected", graph[h].product)
        /\ UNCHANGED change
     \/ /\ change \in {"approve", "applied"}
        /\ MoveTo(h, "completed", graph[h].product)
        /\ change' = "applied"
  /\ UNCHANGED <<checkpoint, late>>

\* What the checkpoint says once everything handed to it is written; a resumed
\* node leaves it as it was until the node ends.
Flushed(h) == IF graph[h].at \in Saved THEN graph[h] ELSE checkpoint

Persist(h) ==
  /\ graph[h].at # "off"
  /\ checkpoint # Flushed(h)
  /\ checkpoint' = Flushed(h)
  /\ UNCHANGED <<graph, change, late>>

Leave(h) ==
  /\ checkpoint' = Flushed(h)
  /\ graph' = [graph EXCEPT ![h] = Off]

\* run returns.
Return(h) == graph[h].at \in Returned /\ Leave(h) /\ UNCHANGED <<change, late>>

\* run raises, before ainvoke or within, or asyncio.timeout cancels it.  A
\* cancelled create_plan or apply_approved_plan goes on in its thread.
Raise(h) ==
  /\ graph[h].at \notin Returned
  /\ Leave(h)
  /\ \/ UNCHANGED late
     \/ graph[h].at = "diagnose" /\ late' = late \cup {"plan"}
     \/ graph[h].at = "decided" /\ late' = late \cup {"apply"}
  /\ UNCHANGED change

LateCommit ==
  /\ \/ /\ "plan" \in late
        /\ late' = late \ {"plan"}
        /\ change' = IF change = "none" THEN "planned" ELSE change
     \/ /\ "apply" \in late
        /\ late' = late \ {"apply"}
        /\ change' = IF change = "approve" THEN "applied" ELSE change
  /\ UNCHANGED <<graph, checkpoint>>

\* Mutant: the checkpoints live in the process (InMemorySaver).
GraphCrashForgetting ==
  /\ graph' = [h \in Handlers |-> Off]
  /\ late' = {}
  /\ checkpoint' = [at |-> "none", product |-> NoProduct]
  /\ UNCHANGED change

\* The process dies: runs, threads and unwritten checkpoints are gone.
GraphCrash ==
  /\ graph' = [h \in Handlers |-> Off]
  /\ late' = {}
  /\ UNCHANGED <<checkpoint, change>>
=============================================================================
