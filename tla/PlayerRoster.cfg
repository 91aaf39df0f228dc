SPECIFICATION Spec
CONSTANTS
  MaxId = 3
  HWIDs = {"h"}
  IPs = {"v4"}
  DevelopmentServer = FALSE
  ResolvesRDNS = TRUE
  Travels = {"seamless", "nonseamless"}
  MaxLinks = 2
  MaxLists = 0
  MaxLog = 1
INVARIANTS ListSound ListIsTheGames HardwareKnown
PROPERTIES EndsOnlyEmpty KicksAreGhosts
