SPECIFICATION FairSpec
CONSTANTS
  w1 = w1
  w2 = w2
  n1 = n1
  n2 = n2
  q1 = q1
  t1 = t1
  Workers = {w1}
  Names = {n1}
  Queues = {q1}
  Tasks = {t1}
  None = None
  NoQueue = NoQueue
  DeviceOf <- OneDevice
  QueueOf <- OneQueue
  Suits <- FirstSuits
  MaxAckFailures = 1
  MaxSendFailures = 1
  MaxStatuses = 1
  MaxStops = 1
INVARIANTS TypeOK OneTaskInFlight
PROPERTIES EveryTaskAnswered TerminationIsHonoured
