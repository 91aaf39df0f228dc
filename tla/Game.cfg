SPECIFICATION Spec
CONSTANTS
  Public <- MCPublic
  Blank <- MCBlank
  MuteOwnExecute = TRUE
  Characters = {"soldier"}
  Clients = {"p1", "p2"}
  VoteBanned = {"p1"}
  PlayerLimit = 2
  MaxMatches = 1
  MaxDeeds <- MCDeeds
  MaxLines = 2
  MaxSent = 3
  MaxConnects <- MCConnects
  VoteTeams = {"Nod", "Global"}
INVARIANTS CountersOfTheMatch AliveKnown ResultsAreReal DelayedForThisMatch BannedVotesFall ChannelsSound PagesSound
PROPERTY InnocentVotesStand
CHECK_DEADLOCK FALSE
