CONSTANTS
  Tasks = {t1, t2}
  Runnable = {t1, t2}
  None = None
  MaxAckFailures = 1
  MaxSendFailures = 1
  MaxStops = 2
SPECIFICATION FairSpec
INVARIANTS
  EveryCopyAccountedFor
  ExecutedInTheirTurn
PROPERTIES
  ImplementsTaskService
  EveryTaskAnswered
  TerminationIsHonoured
