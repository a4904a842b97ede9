SPECIFICATION FairSpec
CONSTANTS
  Calls = {a, b}
  Permitted = {a}
  Submit = Submit
  m = m
  e = e
  x = x
  Evidence = {m, e, x}
  MetricEvidence = {m}
  ToolEvidence = {e}
  Diagnoses <- MCDiagnoses
  NoDiagnosis = NoDiagnosis
  Unparsable = Unparsable
  Weeks <- MCWeeks
  NoRate = NoRate
  MaxIterations = 3
  MaxRepeatedSteps = 2
  MaxToolCallsPerTurn = 2
  MaxParallelTools = 1
  MaxReflections = 1
  RetryAttempts = 2
  MaxRuns = 2
  MaxCrashes = 1
INVARIANTS
  TypeOK
  LoopBounded
  NoStuckRepetition
  ConversationAnswered
  ParallelToolsBounded
  ReportMatchesPlan
  FunnelExplained
PROPERTIES
  AdviceGrounded
  RunEnds
CHECK_DEADLOCK FALSE
