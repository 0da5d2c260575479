CONSTANTS
  NoQueue = NoQueue
  Self = self
  OwnQueue = compilerQueue
  TimeToLive = 5
  PublishInterval = 3
  MaxLag = 2
  MaxNow = 14
SPECIFICATION OwnSpec
INVARIANTS
  NoSelfExpiry
  FreshWhenExpiring
