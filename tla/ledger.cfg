CONSTANTS
  m1 = m1
  m2 = m2
  p1 = p1
  p2 = p2
  t1 = t1
  t2 = t2
  t3 = t3
  x0 = x0
  x1 = x1
  Merchants <- MCMerchants
  Products <- MCProducts
  Tasks <- MCTasks
  Texts <- MCTexts
  Threads = {h1, h2}
  Owner <- MCOwner
  TaskMerchant <- MCTaskMerchant
  InitialText <- MCInitialText
  None = None
SPECIFICATION Spec
SYMMETRY Interchangeable
CHECK_DEADLOCK FALSE
INVARIANTS
  TypeOK
  ReceiptJustified
  OneHistory
  NoLostEdit
PROPERTIES
  StalePlanNeverApplies
  PromiseKept
