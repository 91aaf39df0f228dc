SPECIFICATION Spec
CONSTANTS
  Clients = {"a", "b"}
  PluginSets = {{"Ladder"}, {"Medals"}}
  Prompt = TRUE
  Unranked = {}
  UuidIsName = TRUE
  MaxMatches = 1
  MaxPoints = 1
  MaxLines = 1
  MaxSent = 2
  MaxDays = 1
  MaxRecs = 1
INVARIANT LaddersSound
PROPERTIES RecsKept CreditsOnce
