----------------------- MODULE CommerceLedgerProofs ------------------------
(***************************************************************************)
(* Proofs that the ledger keeps its invariants and implements              *)
(* ApprovedEdits, for every set of products, tasks, texts and threads.     *)
(***************************************************************************)
EXTENDS CommerceLedger, TLAPS

----------------------------------------------------------------------------
(* The inductive invariant.  What makes it inductive is Snapshots: a plan, *)
(* and a thread between its SELECT and its INSERT, hold a text the product *)
(* really had at the version they hold; with OneHistory, which makes that  *)
(* text unique, equal versions imply equal texts.                          *)

\* Product p has had description x at version n.
Seen(p, n, x) == n \leq product[p].version /\ WasText(p, n, x)

Snapshots ==
  /\ \A t \in Tasks : plan[t] # None =>
       /\ Seen(plan[t].product, plan[t].version, plan[t].before)
       /\ plan[t].merchant = TaskMerchant[t]
       /\ Owner[plan[t].product] = TaskMerchant[t]
  /\ \A h \in Threads : thread[h] # None /\ thread[h].read # None =>
       /\ Seen(thread[h].product, thread[h].read.version, thread[h].read.description)
       /\ Owner[thread[h].product] = TaskMerchant[thread[h].task]

ApprovalsOwn ==
  \A t \in Tasks : approval[t] # None => plan[t] # None /\ approval[t].plan = t

CurrentTexts ==
  \A p \in Products : WasText(p, product[p].version, product[p].description)

Inv ==
  /\ TypeOK
  /\ Snapshots
  /\ ApprovalsOwn
  /\ ReceiptJustified
  /\ OneHistory
  /\ CurrentTexts

----------------------------------------------------------------------------
\* Two descriptions a product had at one version are the same description.
LEMMA TextIsUnique ==
  ASSUME TypeOK, OneHistory,
         NEW p \in Products, NEW n, NEW x, NEW y,
         WasText(p, n, x), WasText(p, n, y)
  PROVE  x = y
BY SMT DEF TypeOK, OneHistory, WasText, AppliedTo, ProductRow, ReceiptRow

\* History only grows: a step that keeps the receipts, and the plans behind
\* them, keeps every text a product had.
LEMMA HistoryGrows ==
  ASSUME NEW p \in Products, NEW n, NEW x,
         \A t \in Tasks : receipt[t] # None =>
           receipt'[t] = receipt[t] /\ plan'[t] = plan[t],
         WasText(p, n, x)
  PROVE  WasText(p, n, x)'
BY DEF WasText, AppliedTo

\* Every row has the type its table declares, in every reachable state.
THEOREM Typing == Spec => []TypeOK
<1>1. Init => TypeOK
  BY SeededTexts DEF Init, TypeOK, ProductRow
<1>2. TypeOK /\ [Next]_vars => TypeOK'
  <2> SUFFICES ASSUME TypeOK, [Next]_vars PROVE TypeOK'
    OBVIOUS
  <2>1. ASSUME NEW h \in Threads, NEW t \in Tasks, NEW p \in Products,
               NEW new \in Texts, BeginCreatePlan(h, t, p, new)
        PROVE  TypeOK'
    BY <2>1 DEF TypeOK, BeginCreatePlan, PlanCall
  <2>2. ASSUME NEW h \in Threads, ReadProduct(h) PROVE TypeOK'
    BY <2>2, NoneIsNoRow DEF TypeOK, ReadProduct, PlanCall
  <2>3. ASSUME NEW h \in Threads, InsertPlan(h) PROVE TypeOK'
    BY <2>3, NoneIsNoRow, Ownership DEF TypeOK, InsertPlan, PlanCall, PlanRow, ProductRow
  <2>4. ASSUME NEW h \in Threads, AbortCreatePlan(h) PROVE TypeOK'
    BY <2>4 DEF TypeOK, AbortCreatePlan
  <2>5. ASSUME NEW t \in Tasks, NEW p \in Tasks, NEW verdict \in Decisions,
               RecordApproval(t, p, verdict)
        PROVE  TypeOK'
    BY <2>5 DEF TypeOK, RecordApproval, ApprovalRow
  <2>6. ASSUME NEW t \in Tasks, ApplyApprovedPlan(t) PROVE TypeOK'
    <3>1. approval[t] \in ApprovalRow /\ approval[t].plan \in Tasks
      BY <2>6 DEF TypeOK, ApplyApprovedPlan, ApprovalRow
    <3>2. plan[approval[t].plan] \in PlanRow
      BY <2>6, <3>1 DEF TypeOK, ApplyApprovedPlan
    <3> DEFINE row == plan[approval[t].plan]
    <3>3. product' \in [Products -> ProductRow]
      BY <2>6, <3>2 DEF TypeOK, ApplyApprovedPlan, UpdateProduct, PlanRow, ProductRow
    <3>4. receipt' \in [Tasks -> ReceiptRow \cup {None}]
      BY <2>6, <3>1, <3>2 DEF TypeOK, ApplyApprovedPlan, ReceiptRow, PlanRow, ProductRow
    <3> QED
      BY <2>6, <3>3, <3>4 DEF TypeOK, ApplyApprovedPlan
  <2>7. CASE UNCHANGED vars
    BY <2>7 DEF TypeOK, vars
  <2> QED
    BY <2>1, <2>2, <2>3, <2>4, <2>5, <2>6, <2>7 DEF Next
<1> QED
  BY <1>1, <1>2, PTL DEF Spec

----------------------------------------------------------------------------
\* A step that leaves products and receipts alone, and the plans that have
\* receipts, keeps every part of Inv that is about them.
LEMMA Untouched ==
  ASSUME Inv, TypeOK', UNCHANGED <<product, receipt>>,
         \A t \in Tasks : plan[t] # None => plan'[t] = plan[t],
         \A t \in Tasks : approval[t] # None => approval'[t] = approval[t]
  PROVE  /\ OneHistory' /\ CurrentTexts' /\ ReceiptJustified'
         /\ \A t \in Tasks : receipt[t] # None =>
              receipt'[t] = receipt[t] /\ plan'[t] = plan[t]
         /\ \A p \in Products : \A n, x : Seen(p, n, x) => Seen(p, n, x)'
<1>1. \A t \in Tasks : receipt[t] # None =>
        receipt'[t] = receipt[t] /\ plan'[t] = plan[t]
  BY DEF Inv, ReceiptJustified
<1>2. \A p \in Products : \A n, x : WasText(p, n, x) => WasText(p, n, x)'
  BY <1>1, HistoryGrows
<1>3. \A p \in Products : \A n, x : Seen(p, n, x) => Seen(p, n, x)'
  BY <1>2 DEF Seen
<1>4. OneHistory'
  BY DEF Inv, OneHistory, AppliedTo
<1>5. CurrentTexts'
  BY <1>2 DEF Inv, CurrentTexts
<1>6. ReceiptJustified'
  BY DEF Inv, ReceiptJustified
<1> QED
  BY <1>1, <1>3, <1>4, <1>5, <1>6

\* The one step that changes a product: what it does to the rows, spelled out.
LEMMA ApplyEffect ==
  ASSUME Inv, NEW t \in Tasks, ApplyApprovedPlan(t)
  PROVE  /\ plan[t] \in PlanRow /\ approval[t] = [plan |-> t, decision |-> "approve"]
         /\ receipt[t] = None
         /\ product[plan[t].product].version = plan[t].version
         /\ product' = [product EXCEPT ![plan[t].product] =
                          [description |-> plan[t].after, version |-> plan[t].version + 1]]
         /\ receipt' = [receipt EXCEPT ![t] =
                          [product |-> plan[t].product, version |-> plan[t].version + 1]]
         /\ UNCHANGED <<plan, approval, thread>>
<1>1. approval[t] # None /\ approval[t].plan = t /\ approval[t] \in ApprovalRow
  BY DEF Inv, ApprovalsOwn, ApplyApprovedPlan, TypeOK
<1>2. plan[t] \in PlanRow /\ plan[t].product \in Products
  BY <1>1 DEF Inv, TypeOK, ApplyApprovedPlan, PlanRow
<1>3. approval[t] = [plan |-> t, decision |-> "approve"]
  BY <1>1 DEF ApplyApprovedPlan, ApprovalRow
<1>4. /\ receipt[t] = None
      /\ product[plan[t].product].version = plan[t].version
      /\ Owner[plan[t].product] = plan[t].merchant
      /\ receipt' = [receipt EXCEPT ![t] =
                       [product |-> plan[t].product, version |-> plan[t].version + 1]]
      /\ UNCHANGED <<plan, approval, thread>>
      /\ UpdateProduct(plan[t])
  BY <1>1 DEF ApplyApprovedPlan, SameVersion
<1>5. product' = [product EXCEPT ![plan[t].product] =
                    [description |-> plan[t].after, version |-> plan[t].version + 1]]
  <2>1. product \in [Products -> ProductRow]
    BY DEF Inv, TypeOK
  <2> QED
    BY <1>2, <1>4, <2>1 DEF UpdateProduct
<1> QED
  BY <1>2, <1>3, <1>4, <1>5

\* Inv holds initially and every step keeps it.
THEOREM Invariance == Spec => []Inv
<1>1. Init => Inv
  <2> SUFFICES ASSUME Init PROVE Inv
    OBVIOUS
  <2>1. TypeOK
    BY SeededTexts DEF Init, TypeOK, ProductRow
  <2>2. Snapshots /\ ApprovalsOwn /\ ReceiptJustified
    BY DEF Init, Snapshots, ApprovalsOwn, ReceiptJustified
  <2>3. OneHistory /\ CurrentTexts
    BY DEF Init, OneHistory, CurrentTexts, WasText, AppliedTo
  <2> QED
    BY <2>1, <2>2, <2>3 DEF Inv
<1>2. Inv /\ TypeOK' /\ [Next]_vars => Inv'
  <2> SUFFICES ASSUME Inv, TypeOK', [Next]_vars PROVE Inv'
    OBVIOUS
  <2>1. ASSUME NEW h \in Threads, NEW t \in Tasks, NEW p \in Products,
               NEW new \in Texts, BeginCreatePlan(h, t, p, new)
        PROVE  Inv'
    <3>1. /\ OneHistory' /\ CurrentTexts' /\ ReceiptJustified'
          /\ \A q \in Products : \A n, x : Seen(q, n, x) => Seen(q, n, x)'
      BY <2>1, Untouched DEF BeginCreatePlan
    <3>2. \A g \in Threads : thread'[g] = thread[g] \/ thread'[g].read = None
      BY <2>1 DEF Inv, TypeOK, BeginCreatePlan
    <3>3. Snapshots'
      BY <2>1, <3>1, <3>2, NoneIsNoRow
         DEF Inv, TypeOK, Snapshots, BeginCreatePlan, PlanCall, PlanRow
    <3>4. ApprovalsOwn'
      BY <2>1 DEF Inv, ApprovalsOwn, BeginCreatePlan
    <3> QED
      BY <3>1, <3>3, <3>4 DEF Inv
  <2>2. ASSUME NEW h \in Threads, ReadProduct(h) PROVE Inv'
    <3>1. /\ OneHistory' /\ CurrentTexts' /\ ReceiptJustified'
          /\ \A q \in Products : \A n, x : Seen(q, n, x) => Seen(q, n, x)'
      BY <2>2, Untouched DEF ReadProduct
    <3>2. thread[h] \in PlanCall /\ thread[h].product \in Products
      BY <2>2 DEF Inv, TypeOK, ReadProduct, PlanCall
    <3>3. \A q \in Products : Seen(q, product[q].version, product[q].description)
      BY DEF Inv, TypeOK, CurrentTexts, Seen, ProductRow
    <3>4. /\ thread'[h].task = thread[h].task
          /\ thread'[h].product = thread[h].product
          /\ thread'[h].read = product[thread[h].product]
          /\ \A g \in Threads \ {h} : thread'[g] = thread[g]
      BY <2>2, <3>2 DEF Inv, TypeOK, ReadProduct, PlanCall
    <3>5. Snapshots'
      <4>1. \A t \in Tasks : plan'[t] # None =>
              /\ Seen(plan[t].product, plan[t].version, plan[t].before)'
              /\ plan'[t].merchant = TaskMerchant[t]
              /\ Owner[plan'[t].product] = TaskMerchant[t]
        BY <2>2, <3>1 DEF Inv, TypeOK, Snapshots, ReadProduct, PlanRow
      <4>2. ASSUME NEW g \in Threads, thread'[g] # None, thread'[g].read # None
            PROVE  /\ Seen(thread[g].product, thread[g].read.version, thread[g].read.description)'
                   /\ Owner[thread'[g].product] = TaskMerchant[thread'[g].task]
        <5>1. CASE g = h
          BY <2>2, <3>1, <3>2, <3>3, <3>4, <5>1 DEF ReadProduct
        <5>2. CASE g # h
          BY <3>1, <3>4, <4>2, <5>2 DEF Inv, TypeOK, Snapshots, PlanCall
        <5> QED
          BY <5>1, <5>2
      <4> QED
        BY <4>1, <4>2 DEF Snapshots
    <3>6. ApprovalsOwn'
      BY <2>2 DEF Inv, ApprovalsOwn, ReadProduct
    <3> QED
      BY <3>1, <3>5, <3>6 DEF Inv
  <2>3. ASSUME NEW h \in Threads, InsertPlan(h) PROVE Inv'
    <3> DEFINE t == thread[h].task
    <3>1. /\ thread[h] \in PlanCall /\ t \in Tasks /\ thread[h].product \in Products
          /\ thread[h].read \in ProductRow
      BY <2>3 DEF Inv, TypeOK, InsertPlan, PlanCall
    <3>2. /\ plan'[t] = [merchant |-> TaskMerchant[t], product |-> thread[h].product,
                         before |-> thread[h].read.description,
                         after |-> thread[h].after, version |-> thread[h].read.version]
          /\ \A u \in Tasks \ {t} : plan'[u] = plan[u]
          /\ plan[t] = None
      BY <2>3, <3>1 DEF Inv, TypeOK, InsertPlan
    <3>3. /\ OneHistory' /\ CurrentTexts' /\ ReceiptJustified'
          /\ \A q \in Products : \A n, x : Seen(q, n, x) => Seen(q, n, x)'
      BY <2>3, <3>2, Untouched DEF InsertPlan
    <3>4. \A g \in Threads : thread'[g] = thread[g] \/ thread'[g] = None
      BY <2>3 DEF Inv, TypeOK, InsertPlan
    <3>5. Snapshots'
      <4>1. PICK p, n, x :
              /\ p = thread[h].product /\ p \in Products
              /\ n = thread[h].read.version
              /\ x = thread[h].read.description
        BY <3>1
      <4>2. Seen(p, n, x) /\ Owner[p] = TaskMerchant[t]
        BY <2>3, <4>1 DEF Inv, Snapshots, InsertPlan
      <4>3. Seen(p, n, x)'
        BY <3>3, <4>1, <4>2
      <4>4. ASSUME NEW u \in Tasks, plan'[u] # None
            PROVE  /\ Seen(plan[u].product, plan[u].version, plan[u].before)'
                   /\ plan'[u].merchant = TaskMerchant[u]
                   /\ Owner[plan'[u].product] = TaskMerchant[u]
        <5>1. CASE u = t
          BY <3>2, <4>1, <4>2, <4>3, <5>1
        <5>2. CASE u # t
          BY <3>2, <3>3, <4>4, <5>2 DEF Inv, TypeOK, Snapshots, PlanRow
        <5> QED
          BY <5>1, <5>2
      <4>5. ASSUME NEW g \in Threads, thread'[g] # None, thread'[g].read # None
            PROVE  /\ Seen(thread[g].product, thread[g].read.version, thread[g].read.description)'
                   /\ Owner[thread'[g].product] = TaskMerchant[thread'[g].task]
        BY <3>3, <3>4, <4>5 DEF Inv, TypeOK, Snapshots, PlanCall
      <4> QED
        BY <4>4, <4>5 DEF Snapshots
    <3>6. ApprovalsOwn'
      BY <2>3, <3>2 DEF Inv, ApprovalsOwn, InsertPlan
    <3> QED
      BY <3>3, <3>5, <3>6 DEF Inv
  <2>4. ASSUME NEW h \in Threads, AbortCreatePlan(h) PROVE Inv'
    <3>1. /\ OneHistory' /\ CurrentTexts' /\ ReceiptJustified'
          /\ \A q \in Products : \A n, x : Seen(q, n, x) => Seen(q, n, x)'
      BY <2>4, Untouched DEF AbortCreatePlan
    <3>2. \A g \in Threads : thread'[g] = thread[g] \/ thread'[g] = None
      BY <2>4 DEF Inv, TypeOK, AbortCreatePlan
    <3>3. Snapshots'
      BY <2>4, <3>1, <3>2 DEF Inv, TypeOK, Snapshots, AbortCreatePlan, PlanCall, PlanRow
    <3>4. ApprovalsOwn'
      BY <2>4 DEF Inv, ApprovalsOwn, AbortCreatePlan
    <3> QED
      BY <3>1, <3>3, <3>4 DEF Inv
  <2>5. ASSUME NEW t \in Tasks, NEW p \in Tasks, NEW verdict \in Decisions,
               RecordApproval(t, p, verdict)
        PROVE  Inv'
    <3>1. p = t /\ plan[t] # None /\ approval[t] = None
      BY <2>5 DEF RecordApproval, FindsPlan
    <3>2. /\ approval'[t] = [plan |-> t, decision |-> verdict]
          /\ \A u \in Tasks \ {t} : approval'[u] = approval[u]
      BY <2>5, <3>1 DEF Inv, TypeOK, RecordApproval
    <3>3. /\ OneHistory' /\ CurrentTexts' /\ ReceiptJustified'
          /\ \A q \in Products : \A n, x : Seen(q, n, x) => Seen(q, n, x)'
      BY <2>5, <3>1, <3>2, Untouched DEF RecordApproval
    <3>4. Snapshots'
      BY <2>5, <3>3 DEF Inv, TypeOK, Snapshots, RecordApproval, PlanCall, PlanRow
    <3>5. ApprovalsOwn'
      BY <2>5, <3>1, <3>2 DEF Inv, ApprovalsOwn, RecordApproval
    <3> QED
      BY <3>3, <3>4, <3>5 DEF Inv
  <2>6. ASSUME NEW t \in Tasks, ApplyApprovedPlan(t) PROVE Inv'
    <3>0. PICK p \in Products, v \in Nat \ {0} : plan[t].product = p /\ plan[t].version = v
      BY <2>6, ApplyEffect DEF PlanRow
    <3>1. /\ plan[t] \in PlanRow /\ plan[t] # None
          /\ approval[t] = [plan |-> t, decision |-> "approve"]
          /\ receipt[t] = None /\ product[p].version = v
          /\ product' = [product EXCEPT ![p] = [description |-> plan[t].after, version |-> v + 1]]
          /\ receipt' = [receipt EXCEPT ![t] = [product |-> p, version |-> v + 1]]
          /\ UNCHANGED <<plan, approval, thread>>
      BY <2>6, <3>0, ApplyEffect, NoneIsNoRow
    <3>2. [product |-> p, version |-> v + 1] # None
      BY NoneIsNoRow DEF ReceiptRow
    <3>3. /\ receipt'[t] = [product |-> p, version |-> v + 1]
          /\ \A u \in Tasks \ {t} : receipt'[u] = receipt[u]
          /\ product'[p].version = v + 1 /\ product'[p].description = plan[t].after
          /\ \A q \in Products \ {p} : product'[q] = product[q]
      BY <3>1, <3>2 DEF Inv, TypeOK
    <3>4. \A q \in Products : \A n, x : WasText(q, n, x) => WasText(q, n, x)'
      BY <3>1, <3>3, HistoryGrows
    <3>5. \A q \in Products : product[q].version \leq product'[q].version
      BY <3>1, <3>2, <3>3 DEF Inv, TypeOK, ProductRow
    <3>6. Snapshots'
      <4>1. \A q \in Products : \A n, x : n \in Nat /\ Seen(q, n, x) => Seen(q, n, x)'
        BY <3>4, <3>5 DEF Seen, Inv, TypeOK, ProductRow
      <4> QED
        BY <3>1, <4>1 DEF Inv, TypeOK, Snapshots, PlanCall, PlanRow, ProductRow
    <3>7. ApprovalsOwn'
      BY <3>1 DEF Inv, ApprovalsOwn
    <3>8. ReceiptJustified'
      <4>1. Owner[p] = TaskMerchant[t]
        BY <3>0, <3>1 DEF Inv, Snapshots
      <4>2. \A u \in Tasks \ {t} : receipt'[u] = receipt[u] /\ plan'[u] = plan[u]
                                   /\ approval'[u] = approval[u]
        BY <3>1, <3>3
      <4>3. /\ plan'[t] = plan[t] /\ plan'[t] # None /\ approval'[t] # None
            /\ approval'[t] = [plan |-> t, decision |-> "approve"]
        BY <2>6, <3>1 DEF ApplyApprovedPlan
      <4> QED
        BY <3>0, <3>3, <4>1, <4>2, <4>3 DEF Inv, ReceiptJustified
    <3>9. OneHistory'
      <4>1. AppliedTo(p)' = AppliedTo(p) \cup {t}
        BY <3>2, <3>3 DEF AppliedTo
      <4>2. \A q \in Products \ {p} : AppliedTo(q)' = AppliedTo(q)
        BY <3>1, <3>2, <3>3 DEF AppliedTo
      <4>3. t \notin AppliedTo(p)
        BY <3>1 DEF AppliedTo
      <4>4. \A u \in AppliedTo(p) : receipt[u].version \in 2 .. v /\ u # t
        BY <3>1, <3>2, <4>3 DEF Inv, OneHistory
      <4>5. \A n \in 2 .. v + 1 : n = v + 1 \/ n \in 2 .. v
        BY <3>2
      <4> QED
        BY <3>1, <3>2, <3>3, <4>1, <4>2, <4>3, <4>4, <4>5 DEF Inv, OneHistory, AppliedTo
    <3>10. CurrentTexts'
      <4>1. ASSUME NEW q \in Products
            PROVE  WasText(q, product[q].version, product[q].description)'
        <5>1. CASE q = p
          BY <3>1, <3>2, <3>3, <5>1 DEF WasText, AppliedTo
        <5>2. CASE q # p
          BY <3>3, <3>4, <5>2 DEF Inv, CurrentTexts
        <5> QED
          BY <5>1, <5>2
      <4> QED
        BY <4>1 DEF CurrentTexts
    <3> QED
      BY <3>6, <3>7, <3>8, <3>9, <3>10 DEF Inv
  <2>7. CASE UNCHANGED vars
    <3>1. /\ OneHistory' /\ CurrentTexts' /\ ReceiptJustified'
          /\ \A q \in Products : \A n, x : Seen(q, n, x) => Seen(q, n, x)'
      BY <2>7, Untouched DEF vars
    <3>2. Snapshots' /\ ApprovalsOwn'
      BY <2>7, <3>1 DEF vars, Inv, TypeOK, Snapshots, ApprovalsOwn, PlanCall, PlanRow
    <3> QED
      BY <3>1, <3>2 DEF Inv
  <2> QED
    BY <2>1, <2>2, <2>3, <2>4, <2>5, <2>6, <2>7 DEF Next
<1> QED
  BY <1>1, <1>2, Typing, PTL DEF Spec

----------------------------------------------------------------------------
\* Every reachable ledger has one history per product, justified receipts, and
\* edits that replaced exactly the text the merchant was shown.
THEOREM LedgerSafety == Spec => [](ReceiptJustified /\ OneHistory /\ NoLostEdit)
<1>1. Inv => ReceiptJustified /\ OneHistory /\ NoLostEdit
  <2> SUFFICES ASSUME Inv PROVE NoLostEdit
    BY DEF Inv
  <2>1. ASSUME NEW t \in Tasks, receipt[t] # None
        PROVE  WasText(receipt[t].product, receipt[t].version - 1, plan[t].before)
    <3>1. /\ plan[t] # None /\ plan[t] \in PlanRow
          /\ receipt[t] = [product |-> plan[t].product, version |-> plan[t].version + 1]
      BY <2>1 DEF Inv, TypeOK, ReceiptJustified
    <3>2. WasText(plan[t].product, plan[t].version, plan[t].before)
      BY <3>1 DEF Inv, Snapshots, Seen
    <3>3. receipt[t].product = plan[t].product /\ receipt[t].version - 1 = plan[t].version
      BY <3>1 DEF PlanRow
    <3> QED
      BY <3>2, <3>3
  <2> QED
    BY <2>1 DEF Inv, CurrentTexts, NoLostEdit
<1> QED
  BY <1>1, Invariance, PTL

\* Only an approval of the very plan is ever executed: apply_approved_plan writes no
\* receipt without one.
THEOREM Justified == Spec => []ReceiptJustified
<1>1. Inv => ReceiptJustified
  BY DEF Inv
<1> QED
  BY <1>1, Invariance, PTL

\* The versions of a product are numbered without gap or fork by the receipts that
\* apply_approved_plan wrote for it.
THEOREM History == Spec => []OneHistory
<1>1. Inv => OneHistory
  BY DEF Inv
<1> QED
  BY <1>1, Invariance, PTL

\* A plan whose product has moved on never gets a receipt.
THEOREM StaleSafety == Spec => StalePlanNeverApplies
<1>1. Inv /\ [Next]_vars => [StaleStaysUnapplied]_vars
  <2> SUFFICES ASSUME Inv, Next, NEW t \in Tasks, plan[t] # None, receipt[t] = None,
                      plan[t].version < product[plan[t].product].version
               PROVE  receipt'[t] = None
    BY DEF StaleStaysUnapplied
  <2>1. ASSUME NEW u \in Tasks, ApplyApprovedPlan(u) PROVE receipt'[t] = None
    <3>1. /\ plan[u] \in PlanRow /\ product[plan[u].product].version = plan[u].version
          /\ receipt' = [receipt EXCEPT ![u] =
                           [product |-> plan[u].product, version |-> plan[u].version + 1]]
      BY <2>1, ApplyEffect
    <3>2. u # t
      BY <3>1 DEF PlanRow
    <3> QED
      BY <3>1, <3>2 DEF Inv, TypeOK
  <2>2. CASE UNCHANGED receipt
    BY <2>2
  <2> QED
    BY <2>1, <2>2 DEF Next, BeginCreatePlan, ReadProduct, InsertPlan, AbortCreatePlan,
                      RecordApproval
<1> QED
  BY <1>1, Invariance, PTL DEF Spec, StalePlanNeverApplies

----------------------------------------------------------------------------
\* The edit a step does not touch is the same edit after it.
LEMMA SameEdit ==
  ASSUME NEW t \in Tasks,
         plan'[t] = plan[t], approval'[t] = approval[t], receipt'[t] = receipt[t]
  PROVE  EditOf(t)' = EditOf(t)
BY DEF EditOf, StageOf

\* The ledger implements ApprovedEdits: what a task proposed is applied at most
\* once, only if approved, and only over the text it was proposed for.
THEOREM Refinement == Spec => PromiseKept
<1> DEFINE text == [p \in Products |-> product[p].description]
           edit == [t \in Tasks |-> EditOf(t)]
<1>1. Init => Promise!Init
  BY SeededTexts DEF Init, Promise!Init, EditOf
<1>2. Inv /\ Inv' /\ [Next]_vars => [Promise!Next]_(Promise!vars)
  <2> SUFFICES ASSUME Inv, Inv', [Next]_vars PROVE [Promise!Next]_(Promise!vars)
    OBVIOUS
  <2>1. ASSUME UNCHANGED <<product, plan, approval, receipt>>
        PROVE  UNCHANGED Promise!vars
    <3>1. text' = text
      BY <2>1
    <3>2. edit' = edit
      BY <2>1, SameEdit
    <3> QED
      BY <3>1, <3>2 DEF Promise!vars
  <2>2. ASSUME NEW h \in Threads, InsertPlan(h) PROVE Promise!Next
    <3> DEFINE t == thread[h].task
    <3>0. PICK u \in Tasks : u = t
      BY <2>2 DEF Inv, TypeOK, InsertPlan, PlanCall
    <3>1. /\ thread[h] \in PlanCall /\ thread[h].read \in ProductRow
          /\ plan[u] = None /\ approval[u] = None /\ receipt[u] = None
      BY <2>2, <3>0 DEF Inv, TypeOK, InsertPlan, PlanCall, ApprovalsOwn, ReceiptJustified
    <3>2. PICK p \in Products, old \in Texts, new \in Texts :
            /\ plan'[u] # None /\ plan'[u].product = p
            /\ plan'[u].before = old /\ plan'[u].after = new
            /\ \A w \in Tasks \ {u} : plan'[w] = plan[w]
      <4> DEFINE row == [merchant |-> TaskMerchant[u], product |-> thread[h].product,
                         before |-> thread[h].read.description,
                         after |-> thread[h].after, version |-> thread[h].read.version]
      <4>1. row \in PlanRow
        BY <3>1, Ownership DEF PlanCall, PlanRow, ProductRow
      <4>2. plan' = [plan EXCEPT ![u] = row]
        BY <2>2, <3>0 DEF InsertPlan
      <4>3. plan'[u] = row /\ \A w \in Tasks \ {u} : plan'[w] = plan[w]
        BY <4>2 DEF Inv, TypeOK
      <4> QED
        BY <4>1, <4>3, NoneIsNoRow DEF PlanRow
    <3>3. edit' = [edit EXCEPT ![u] = [product |-> p, before |-> old,
                                       after |-> new, stage |-> "proposed"]]
      <4>1. EditOf(u)' = [product |-> p, before |-> old, after |-> new, stage |-> "proposed"]
        BY <2>2, <3>1, <3>2 DEF EditOf, StageOf, InsertPlan
      <4>2. \A w \in Tasks \ {u} : EditOf(w)' = EditOf(w)
        BY <2>2, <3>2, SameEdit DEF InsertPlan
      <4> QED
        BY <4>1, <4>2
    <3>4. edit[u] = None /\ text' = text
      BY <2>2, <3>1 DEF EditOf, InsertPlan
    <3>5. Promise!Propose(u)
      BY <3>3, <3>4 DEF Promise!Propose
    <3> QED
      BY <3>5 DEF Promise!Next
  <2>3. ASSUME NEW t \in Tasks, NEW p \in Tasks, NEW verdict \in Decisions,
               RecordApproval(t, p, verdict)
        PROVE  Promise!Next
    <3>1. /\ plan[t] # None /\ approval[t] = None /\ receipt[t] = None
          /\ UNCHANGED <<product, plan, receipt>>
      BY <2>3 DEF RecordApproval, FindsPlan, Inv, ReceiptJustified
    <3>2. /\ approval'[t] # None /\ approval'[t].decision = verdict
          /\ \A w \in Tasks \ {t} : approval'[w] = approval[w]
      <4>1. [plan |-> p, decision |-> verdict] \in ApprovalRow
        BY DEF ApprovalRow
      <4> QED
        BY <2>3, <4>1, NoneIsNoRow DEF RecordApproval, Inv, TypeOK
    <3>3. EditOf(t) \in Promise!Edit /\ EditOf(t).stage = "proposed"
      BY <3>1 DEF EditOf, StageOf, Inv, TypeOK, PlanRow, Promise!Edit, Promise!Stage
    <3>4. PICK stage \in {"approved", "rejected"} :
            EditOf(t)' = [EditOf(t) EXCEPT !.stage = stage]
      <4>1. StageOf(t)' = (IF verdict = "approve" THEN "approved" ELSE "rejected")
        BY <3>1, <3>2 DEF StageOf
      <4>2. EditOf(t)' = [product |-> plan[t].product, before |-> plan[t].before,
                          after |-> plan[t].after, stage |-> StageOf(t)']
        BY <3>1 DEF EditOf
      <4>3. EditOf(t) = [product |-> plan[t].product, before |-> plan[t].before,
                         after |-> plan[t].after, stage |-> StageOf(t)]
        BY <3>1 DEF EditOf
      <4> QED
        BY <4>1, <4>2, <4>3
    <3>5. \A w \in Tasks \ {t} : EditOf(w)' = EditOf(w)
      BY <3>1, <3>2, SameEdit
    <3>6. edit' = [edit EXCEPT ![t].stage = stage]
      BY <3>4, <3>5
    <3>7. text' = text /\ edit[t] # None /\ edit[t].stage = "proposed"
      BY <3>1, <3>3, NoneIsNoEdit
    <3>8. Promise!Decide(t)
      BY <3>6, <3>7 DEF Promise!Decide
    <3> QED
      BY <3>8 DEF Promise!Next
  <2>4. ASSUME NEW t \in Tasks, ApplyApprovedPlan(t) PROVE Promise!Next
    <3>0. PICK p \in Products, v \in Nat \ {0}, old \in Texts, new \in Texts :
            /\ plan[t].product = p /\ plan[t].version = v
            /\ plan[t].before = old /\ plan[t].after = new
      BY <2>4, ApplyEffect DEF PlanRow
    <3>1. /\ plan[t] \in PlanRow /\ plan[t] # None
          /\ approval[t] = [plan |-> t, decision |-> "approve"] /\ approval[t] # None
          /\ receipt[t] = None /\ product[p].version = v
          /\ product' = [product EXCEPT ![p] = [description |-> new, version |-> v + 1]]
          /\ receipt' = [receipt EXCEPT ![t] = [product |-> p, version |-> v + 1]]
          /\ UNCHANGED <<plan, approval, thread>>
      BY <2>4, <3>0, ApplyEffect, NoneIsNoRow DEF ApplyApprovedPlan, Inv, ApprovalsOwn
    <3>2. product[p].description = old
      <4>1. WasText(p, v, old)
        BY <3>0, <3>1 DEF Inv, Snapshots, Seen
      <4>2. WasText(p, v, product[p].description)
        BY <3>1 DEF Inv, CurrentTexts
      <4> QED
        BY <4>1, <4>2, TextIsUnique DEF Inv
    <3>3. receipt'[t] # None /\ \A w \in Tasks \ {t} : receipt'[w] = receipt[w]
      BY <3>1, NoneIsNoRow DEF Inv, TypeOK, ReceiptRow
    <3>4. /\ EditOf(t) = [product |-> p, before |-> old, after |-> new, stage |-> "approved"]
          /\ EditOf(t)' = [product |-> p, before |-> old, after |-> new, stage |-> "applied"]
      BY <3>0, <3>1, <3>3 DEF EditOf, StageOf
    <3>5. \A w \in Tasks \ {t} : EditOf(w)' = EditOf(w)
      BY <3>1, <3>3, SameEdit
    <3>6. edit' = [edit EXCEPT ![t].stage = "applied"]
      <4>1. EditOf(t)' = [EditOf(t) EXCEPT !.stage = "applied"]
        BY <3>4
      <4> QED
        BY <4>1, <3>5
    <3>7. text' = [text EXCEPT ![p] = new]
      BY <3>1 DEF Inv, TypeOK
    <3>8. edit[t] # None /\ edit[t].product = p /\ edit[t].before = old
          /\ edit[t].after = new /\ edit[t].stage = "approved"
      <4>1. EditOf(t) \in Promise!Edit
        BY <3>4 DEF Promise!Edit, Promise!Stage
      <4> QED
        BY <3>4, <4>1, NoneIsNoEdit
    <3>9. Promise!Apply(t)
      BY <3>2, <3>6, <3>7, <3>8 DEF Promise!Apply
    <3> QED
      BY <3>9 DEF Promise!Next
  <2> QED
    BY <2>1, <2>2, <2>3, <2>4
       DEF Next, vars, BeginCreatePlan, ReadProduct, AbortCreatePlan
<1> QED
  BY <1>1, <1>2, Invariance, PTL DEF Spec, PromiseKept, Promise!Spec
=============================================================================
