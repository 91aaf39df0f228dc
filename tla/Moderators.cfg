SPECIFICATION Spec
CONSTANTS
  Who <- MCWho
  Persons <- MCPersons
  UUIDs <- MCUUIDs
  UUID <- MCUUID
  Groups <- MCGroups
  ATMDefault = 2
  Moderator = 2
  Administrator = 0
  UserAccess <- MCUserAccess
  Users <- MCUsers
  KickExempt = {}
  TopAccess = 5
  MaxSections = 1
  InitSections <- MCInitSections
INVARIANTS SectionsSound NoEscalation OutranksForAReason
