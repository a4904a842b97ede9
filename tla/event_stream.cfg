SPECIFICATION FairSpec
CONSTANTS
  Writers = {w1, w2}
  Subscribers = {s1}
  MaxLength = 2
  BatchSize = 1
  MaxEvents = 4
  MaxDrops = 1
INVARIANTS
  TypeOK
  NumbersFollow
PROPERTIES
  FeedKept
  CatchesUp
CHECK_DEADLOCK FALSE
