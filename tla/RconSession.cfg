SPECIFICATION FairSpec
CONSTANTS
  MaxAttempts = 1
  Delay = 1
  PingRate = 2
  PingTimeout = 1
  Updates = TRUE
  GameVersions = {"ok", "old", "unnamed"}
  AgeCap = 2
  MaxSessions = 3
  MaxInFlight = 2
INVARIANTS FullyConnectedSound SubscribedAttribution NoStalePlayers IInv
PROPERTIES NoHalfOpenSession GivesUp
