CONSTANTS
  Messages = {m1, m2, m3, bad}
  Undecodable = {bad}
  None = None
  DefaultReceiveTimeout = 2
  WaitForever <- Never
  Timeouts <- MCTimeouts
SPECIFICATION IntakeSpec
INVARIANTS
  UnwindsPromptly
