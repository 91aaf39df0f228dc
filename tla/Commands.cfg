SPECIFICATION Spec
CONSTANTS
  ServerList <- MCServerList
  Channels <- MCChannels
  ChannelType <- MCChannelType
  PublicType <- MCPublicType
  AdminType <- MCAdminType
  Competitive = {"war"}
  NeverSay = {"war"}
  Rotation <- MCRotation
  Persons <- MCPersons
  Who <- MCWho
  Levels <- MCLevels
  KickExempt = {}
  BanExempt = {"w1"}
  Texts <- MCTexts
  Rest = {"", "bobby"}
  PartOf <- MCPartOf
  IdIn <- MCIdIn
  Span <- MCSpan
  DefaultTBan = 2
  MaxTBan = 4
  MaxWarns = 1
  WarnAction <- MCWarnAction
  Users <- MCUsers
  UserAccess <- MCUserAccess
  Settings <- MCSettings
  Buildings <- MCBuildings
  Bans <- MCBans
  Exemptions <- MCExemptions
  GameAccess <- MCGameAccess
  Prefixed <- MCPrefixed
INVARIANTS OrdersStayHome NamedExactly NobodyActsUpward OrdersAllowed
PROPERTY WarningsCount
