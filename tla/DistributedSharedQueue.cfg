SPECIFICATION Spec
CONSTANTS
  w1 = w1
  w2 = w2
  n1 = n1
  n2 = n2
  q1 = q1
  t1 = t1
  Workers = {w1, w2}
  Names = {n1, n2}
  Queues = {q1}
  Tasks = {t1}
  None = None
  NoQueue = NoQueue
  DeviceOf <- SharedQueueDevices
  QueueOf <- SharedQueueQueues
  Suits <- FirstSuits
  MaxAckFailures = 1
  MaxSendFailures = 0
  MaxStatuses = 1
  MaxStops = 1
INVARIANTS EveryCopyAccountedFor ExecutedWhereAssigned
PROPERTIES ImplementsTaskService
