SPECIFICATION Spec
CONSTANTS
  Servers = {"g1"}
  Upstreams = {"u1", "u2"}
  Commands = {"sinfo", "ginfo", "PING", "say"}
  Class <- MCClass
  Word <- MCWord
  FakePings = TRUE
  FakeSuppressed = TRUE
  SuppressUnknown = TRUE
  SuppressBlacklisted = TRUE
  LosesPending = FALSE
  MaxAsked = 3
  MaxSent = 4
  Lost = Lost
  Nothing = Nothing
INVARIANTS QueuesSound NobodyIsConfused EverythingIsAnswered
