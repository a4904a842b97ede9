SPECIFICATION FairSpec
CONSTANTS
  Requests = {r1, r2, r3}
  NoTask = NoTask
  TaskTtl = 2
INVARIANT KeyHonest
PROPERTY Answered
CHECK_DEADLOCK FALSE
