SPECIFICATION Spec
CONSTANTS
  MaxId = 1
  HWIDs = {"h"}
  IPs = {"v4"}
  DevelopmentServer = FALSE
  ResolvesRDNS = FALSE
  Travels = {"seamless"}
  MaxLinks = 1
  MaxLists = 0
  MaxLog = 1
PROPERTY EndsNoGame
