CONSTANTS
  Tasks = {t1, t2}
  Runnable = {t1, t2}
  None = None
  MaxAckFailures = 0
  MaxSendFailures = 0
  MaxStops = 1
SPECIFICATION Spec
INVARIANTS
  TurnFinishes
