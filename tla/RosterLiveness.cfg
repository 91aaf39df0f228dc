SPECIFICATION FairSpec
CONSTANTS
  MaxId = 2
  HWIDs = {"h"}
  IPs = {"v4", "odd"}
  DevelopmentServer = FALSE
  ResolvesRDNS = TRUE
  Travels = {"seamless"}
  MaxLinks = 1
  MaxLists = 1
  MaxLog = 1
PROPERTIES LookupsAnnounced EndedWhenEmpty
