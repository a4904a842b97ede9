--------------------------- MODULE CommerceLedger --------------------------
(***************************************************************************)
(* The write side of CommerceRepository (commerce.py): the tables          *)
(* products, action_plans, approvals and action_receipts, and the three    *)
(* functions that write them, each run by asyncio.to_thread.               *)
(*                                                                         *)
(* Row identity.  action_plans.task_id, approvals.task_id and              *)
(* action_receipts.idempotency_key are UNIQUE, and the key is built from   *)
(* the plan's task, so a plan, an approval and a receipt are each indexed  *)
(* by a task.  plan_version is always 1, action_id always                  *)
(* "update_description" and field always "description": requests that name *)
(* anything else are refused before they write, which is a stutter here.   *)
(*                                                                         *)
(* _create_plan_sync is NOT one transaction: sqlite3 opens one only before *)
(* the INSERT, so its two SELECTs and its INSERT are three steps.          *)
(* _record_approval_sync and _apply_approved_plan_sync run under           *)
(* BEGIN IMMEDIATE: one step each; their rollbacks are stutters.           *)
(***************************************************************************)
EXTENDS Naturals

CONSTANTS
  Merchants,     \* authenticated merchants
  Products,      \* product ids
  Tasks,         \* task ids
  Texts,         \* descriptions
  Threads,       \* pool threads that can be inside _create_plan_sync at once
  Owner,         \* [Products -> Merchants]: products.merchant_id
  TaskMerchant,  \* [Tasks -> Merchants]: the merchant that created the task
  InitialText,   \* [Products -> Texts]: the seeded descriptions
  None           \* SQL's "no such row"

Decisions == {"approve", "reject"}

ProductRow == [description : Texts, version : Nat \ {0}]

PlanRow == [merchant : Merchants, product : Products, before : Texts,
            after : Texts, version : Nat \ {0}]

ApprovalRow == [plan : Tasks, decision : Decisions]

ReceiptRow == [product : Products, version : Nat \ {0}]

PlanCall == [task : Tasks, product : Products, after : Texts,
             read : ProductRow \cup {None}]

ASSUME Ownership ==
  /\ Owner \in [Products -> Merchants]
  /\ TaskMerchant \in [Tasks -> Merchants]

ASSUME SeededTexts == InitialText \in [Products -> Texts]

ASSUME NoneIsNoRow ==
  /\ None \notin ProductRow
  /\ None \notin PlanRow
  /\ None \notin ApprovalRow
  /\ None \notin ReceiptRow
  /\ None \notin PlanCall

VARIABLES
  product,       \* product[p]: the row of products
  plan,          \* plan[t]: the row of action_plans for task t, or None
  approval,      \* approval[t]: the row of approvals for task t, or None
  receipt,       \* receipt[t]: the action_receipts row keyed by t's plan, or None
  thread         \* thread[h]: the create_plan call thread h is in, or None

vars == <<product, plan, approval, receipt, thread>>

TypeOK ==
  /\ product \in [Products -> ProductRow]
  /\ plan \in [Tasks -> PlanRow \cup {None}]
  /\ approval \in [Tasks -> ApprovalRow \cup {None}]
  /\ receipt \in [Tasks -> ReceiptRow \cup {None}]
  /\ thread \in [Threads -> PlanCall \cup {None}]

Init ==
  /\ product = [p \in Products |-> [description |-> InitialText[p], version |-> 1]]
  /\ plan = [t \in Tasks |-> None]
  /\ approval = [t \in Tasks |-> None]
  /\ receipt = [t \in Tasks |-> None]
  /\ thread = [h \in Threads |-> None]

----------------------------------------------------------------------------
(* _create_plan_sync.  The same task can be in it twice: a thread outlives *)
(* the asyncio.timeout that cancelled its awaiter, and the retry calls     *)
(* again.                                                                  *)

\* SELECT * FROM action_plans: an existing plan is returned and nothing else
\* happens, so only a call that finds none goes on.
BeginCreatePlan(h, t, p, new) ==
  /\ thread[h] = None
  /\ plan[t] = None
  /\ thread' = [thread EXCEPT ![h] = [task |-> t, product |-> p,
                                      after |-> new, read |-> None]]
  /\ UNCHANGED <<product, plan, approval, receipt>>

\* SELECT description, version FROM products WHERE merchant_id AND product_id.
ReadProduct(h) ==
  /\ thread[h] # None
  /\ thread[h].read = None
  /\ Owner[thread[h].product] = TaskMerchant[thread[h].task]
  /\ thread' = [thread EXCEPT ![h].read = product[thread[h].product]]
  /\ UNCHANGED <<product, plan, approval, receipt>>

\* Mutant: the version is read again at the INSERT, the description is not.
InsertPlanRereading(h) ==
  /\ thread[h] # None
  /\ thread[h].read # None
  /\ plan[thread[h].task] = None
  /\ plan' = [plan EXCEPT ![thread[h].task] =
                [merchant |-> TaskMerchant[thread[h].task],
                 product  |-> thread[h].product,
                 before   |-> thread[h].read.description,
                 after    |-> thread[h].after,
                 version  |-> product[thread[h].product].version]]
  /\ thread' = [thread EXCEPT ![h] = None]
  /\ UNCHANGED <<product, approval, receipt>>

\* INSERT INTO action_plans, and the commit at the end of the with block.
InsertPlan(h) ==
  /\ thread[h] # None
  /\ thread[h].read # None
  /\ plan[thread[h].task] = None
  /\ plan' = [plan EXCEPT ![thread[h].task] =
                [merchant |-> TaskMerchant[thread[h].task],
                 product  |-> thread[h].product,
                 before   |-> thread[h].read.description,
                 after    |-> thread[h].after,
                 version  |-> thread[h].read.version]]
  /\ thread' = [thread EXCEPT ![h] = None]
  /\ UNCHANGED <<product, approval, receipt>>

\* PRODUCT_NOT_FOUND, the UNIQUE constraint of task_id, or the process dies.
AbortCreatePlan(h) ==
  /\ thread[h] # None
  /\ thread' = [thread EXCEPT ![h] = None]
  /\ UNCHANGED <<product, plan, approval, receipt>>

----------------------------------------------------------------------------
(* _record_approval_sync: the request of task t names the plan of task p.  *)

\* Mutant: WHERE plan_id = ? alone.
FindsAnyPlan(t, p) == plan[p] # None

\* SELECT * FROM action_plans WHERE plan_id = ? AND task_id = ?
FindsPlan(t, p) == p = t /\ plan[p] # None

\* Mutant: the last decision replaces the first.
RecordLastApproval(t, p, verdict) ==
  /\ FindsPlan(t, p)
  /\ plan[p].merchant = TaskMerchant[t]
  /\ approval' = [approval EXCEPT ![t] = [plan |-> p, decision |-> verdict]]
  /\ UNCHANGED <<product, plan, receipt, thread>>

RecordApproval(t, p, verdict) ==
  /\ FindsPlan(t, p)
  /\ plan[p].merchant = TaskMerchant[t]
  /\ approval[t] = None
  /\ approval' = [approval EXCEPT ![t] = [plan |-> p, decision |-> verdict]]
  /\ UNCHANGED <<product, plan, receipt, thread>>

----------------------------------------------------------------------------
(* _apply_approved_plan_sync, called with the approval of task t.          *)

\* Mutant: the version counts down.
UpdateProductBackwards(row) ==
  product' = [product EXCEPT ![row.product] =
    [description |-> row.after, version |-> @.version - 1]]

\* UPDATE products ... WHERE merchant_id AND product_id AND version: matches no
\* row, and says nothing, when the version moved.
UpdateProduct(row) ==
  product' = [p \in Products |->
    IF p = row.product /\ Owner[p] = row.merchant /\ product[p].version = row.version
      THEN [description |-> row.after, version |-> product[p].version + 1]
      ELSE product[p]]

\* Mutant: the comparison is left to the UPDATE.
AnyVersion(row) == TRUE

\* The comparison of the two versions before the UPDATE.
SameVersion(row) == product[row.product].version = row.version

ApplyApprovedPlan(t) ==
  /\ approval[t] # None
  /\ approval[t].decision = "approve"
  /\ plan[approval[t].plan] # None
  /\ LET p   == approval[t].plan
         row == plan[p]
     IN /\ receipt[p] = None
        /\ Owner[row.product] = row.merchant
        /\ SameVersion(row)
        /\ UpdateProduct(row)
        /\ receipt' = [receipt EXCEPT ![p] =
                         [product |-> row.product,
                          version |-> product[row.product].version + 1]]
  /\ UNCHANGED <<plan, approval, thread>>

----------------------------------------------------------------------------
Next ==
  \/ \E h \in Threads, t \in Tasks, p \in Products, new \in Texts :
       BeginCreatePlan(h, t, p, new)
  \/ \E h \in Threads : ReadProduct(h) \/ InsertPlan(h) \/ AbortCreatePlan(h)
  \/ \E t \in Tasks, p \in Tasks, verdict \in Decisions :
       RecordApproval(t, p, verdict)
  \/ \E t \in Tasks : ApplyApprovedPlan(t)

Spec == Init /\ [][Next]_vars

----------------------------------------------------------------------------
(* Safety.                                                                 *)

\* The edits of product p that took effect.
AppliedTo(p) == {t \in Tasks : receipt[t] # None /\ receipt[t].product = p}

\* x was the description of p when p was at version n.
WasText(p, n, x) ==
  \/ n = 1 /\ x = InitialText[p]
  \/ \E t \in AppliedTo(p) : receipt[t].version = n /\ plan[t].after = x

\* A receipt is backed by an approving decision on that very plan, names the
\* plan's product at the version after the plan's, and the product belongs to
\* the merchant of the task: what _apply_approved_plan_sync checks in six
\* places, on rows written by other calls.
ReceiptJustified ==
  \A t \in Tasks : receipt[t] # None =>
    /\ plan[t] # None /\ approval[t] # None
    /\ approval[t] = [plan |-> t, decision |-> "approve"]
    /\ receipt[t] = [product |-> plan[t].product, version |-> plan[t].version + 1]
    /\ Owner[plan[t].product] = TaskMerchant[t]

\* The versions of a product and its receipts are one history: every version
\* after the first was produced by exactly one receipt and no receipt claims
\* a version the product never reached.
OneHistory ==
  \A p \in Products :
    /\ \A t \in AppliedTo(p) : receipt[t].version \in 2 .. product[p].version
    /\ \A n \in 2 .. product[p].version : \E t \in AppliedTo(p) : receipt[t].version = n
    /\ \A t, u \in AppliedTo(p) : receipt[t].version = receipt[u].version => t = u

\* No lost edit: a description is the work of the last receipt, and every
\* applied edit replaced exactly the text its plan showed the merchant as
\* `before', although that text was read outside any transaction.
NoLostEdit ==
  /\ \A p \in Products : WasText(p, product[p].version, product[p].description)
  /\ \A t \in Tasks : receipt[t] # None =>
       WasText(receipt[t].product, receipt[t].version - 1, plan[t].before)

\* A plan made for a version the product has left is never executed, by this
\* or a later step: no receipt appears for it.
StaleStaysUnapplied ==
  \A t \in Tasks :
    /\ plan[t] # None /\ receipt[t] = None
    /\ plan[t].version < product[plan[t].product].version
    => receipt'[t] = None

StalePlanNeverApplies == [][StaleStaysUnapplied]_vars

----------------------------------------------------------------------------
(* The promise to the merchant.                                            *)

StageOf(t) ==
  IF receipt[t] # None THEN "applied"
  ELSE IF approval[t] = None THEN "proposed"
  ELSE IF approval[t].decision = "approve" THEN "approved"
  ELSE "rejected"

EditOf(t) ==
  IF plan[t] = None THEN None
  ELSE [product |-> plan[t].product, before |-> plan[t].before,
        after |-> plan[t].after, stage |-> StageOf(t)]

Promise == INSTANCE ApprovedEdits WITH
  NoEdit <- None,
  text   <- [p \in Products |-> product[p].description],
  edit   <- [t \in Tasks |-> EditOf(t)]

ASSUME NoneIsNoEdit == None \notin Promise!Edit

\* The ledger implements ApprovedEdits: the version comparison is as good as
\* comparing the texts themselves.
PromiseKept == Promise!Spec
=============================================================================
