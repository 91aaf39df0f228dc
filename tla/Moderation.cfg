SPECIFICATION Spec
CONSTANTS
  c1 = c1
  c2 = c2
  Clients = {c1, c2}
  SteamIDs = {"steam"}
  Addresses = {"ip"}
  HardwareIDs = {"hwid"}
  HostNames = {"host"}
  Identity <- MCIdentity
  Enforced = {"steam", "ip", "host", "hwid"}
  RconBan = FALSE
  AddBanNames <- MCAddBanNames
  AddExemptionNames <- MCAddExemptionNames
  AddBanTypes = {"game", "chat"}
  MaxEntries = 2
  MaxNow = 2
  CrashUpgrading = FALSE
INVARIANT BansAreEnforced
PROPERTIES BansAreDurable ExemptionsAreDurable ExemptAreSpared BansRunTheirTerm
