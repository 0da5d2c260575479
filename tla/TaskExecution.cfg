CONSTANTS
  MaxCircuits = 3
  WaitTimeouts = {0, 2}
  MaxSliceTime = 2
  INT32_MAX = 1
  Counts <- MCCounts
SPECIFICATION FairSpec
INVARIANTS
  ResultFaithful
  SubmitShutdownCancels
  WaitIsBounded
  LateCallsUnwind
PROPERTIES
  TimeoutIsPerJob
  ShutdownReturns
  BoundedWaitReturns
