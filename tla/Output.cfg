SPECIFICATION FairSpec
CONSTANTS
  LATEST_ORDER <- MCOrder
  World = "world"
  Remote = "remote"
  MESSAGE_QUEUE_LIMIT = 2
  FrameBytes = 2
  Burst = 2
  NoFrame = NoFrame
  MaxTicks = 3
  MaxVersion = 2
  MaxReliable = 3
  MaxMapChanges = 1
CHECK_DEADLOCK FALSE
INVARIANTS Paced StateDelivered
PROPERTIES Drains Delivers
