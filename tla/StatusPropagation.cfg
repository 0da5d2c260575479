CONSTANTS
  w1 = w1  w2 = w2  alpha = alpha  q1 = q1  q2 = q2  NoQueue = NoQueue
  Workers = {w1, w2}
  DeviceOf <- SameDevice
  QueueOf <- OwnQueues
  PublishInterval = 1
  TimeToLive = 1
  MaxStatuses = 2
SPECIFICATION FairSpec
INVARIANTS
  NewestStatusWins
PROPERTIES
  QueueNeverReassigned
  DroppedOnlyAfterSilence
  DeadWorkerForgotten
  LivingWorkerReachable
