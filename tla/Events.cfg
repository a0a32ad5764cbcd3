SPECIFICATION FairSpec
CONSTANTS
  Conn = {c1, c2}
  Sub = {s1}
  None = None
  Size = {1, 2, 4}
  RingCap = 2
  QueueCap = 2
  QueueBytes = 3
  MaxSubs = 1
  Limit = 1
  MaxEvents = 3
INVARIANTS TypeOK FeedCounted EndDelivered OwnEndOnly
INVARIANTS OnlyFailureStrands PageWhole
PROPERTIES DisconnectEnds
CHECK_DEADLOCK FALSE
