SPECIFICATION ConfigSpec
CONSTANTS
  Absent = Absent
  Malformed = Malformed
  Setups <- LongSetups
  MsPerSecond = 10
  TicksPerMs = 10
  Int64Max = 32767
INVARIANTS TimeToLiveOutlivesInterval
