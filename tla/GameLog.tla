------------------------------ MODULE GameLog ------------------------------
(***************************************************************************)
(* What the lines a game logs tell a RenX::Server: what each does to its   *)
(* list of players, and which handlers of RenX.Logging it calls.  A player *)
(* is named in a line by a token, of which the id and the team matter; the *)
(* tokens of the game's own AI ("ai") and of nobody stand for no listed    *)
(* player.  Names, addresses and administrators are in PlayerRoster and    *)
(* Moderators, score and credits in ScoreBoard.                            *)
(***************************************************************************)
EXTENDS Logging, Naturals, Sequences, SequencesExt

CONSTANTS
  Characters   \* what one can play as

Statistics == {"kills", "headshots", "deaths", "suicides", "vehicleKills", "buildingKills",
               "defenceKills", "beaconPlacements", "beaconDisarms", "proxy_placements",
               "proxy_disarms", "captures", "steals", "stolen"}
Zero == [s \in Statistics |-> 0]
NoPlayers == [p \in {} |-> Zero]

Token(who, team) == [who |-> who, team |-> team]
AI     == Token("ai", "GDI")
Nobody == Token(Empty, Empty)

\* known: the address and the steam id are there, and bans were checked with them
PlayerInfo(team) ==
  [team |-> team, character |-> Empty, stats |-> Zero, wins |-> 0, loses |-> 0, known |-> FALSE]

\* parsePlayerData: an id of 0 is none of the players
IsPlayer(token) == token.who \notin {"ai", Empty}

\* parseGetPlayerOrAdd: a token brings the team up to date, or adds a player
Meet(ps, token) ==
  IF ~IsPlayer(token) THEN ps
  ELSE [p \in DOMAIN ps \cup {token.who} |->
          IF p # token.who THEN ps[p]
          ELSE IF p \in DOMAIN ps THEN [ps[p] EXCEPT !.team = token.team] ELSE PlayerInfo(token.team)]

Count(ps, token, stats) ==
  LET met == Meet(ps, token)
  IN  IF ~IsPlayer(token) THEN met
      ELSE [met EXCEPT ![token.who].stats = [s \in Statistics |-> @[s] + IF s \in stats THEN 1 ELSE 0]]

As(ps, token, character) == [Meet(ps, token) EXCEPT ![token.who].character = character]

----------------------------------------------------------------------------
(***************************************************************************)
(* The players after a line                                                *)
(***************************************************************************)
Deployed(ps, l) == Count(ps, l.by, CASE l.what = "beacon" -> {"beaconPlacements"}
                                     [] l.what = "proxy"  -> {"proxy_placements"}
                                     [] OTHER             -> {})
Disarmed(ps, l) == Meet(Count(ps, l.by, CASE l.what = "beacon" -> {"beaconDisarms"}
                                          [] l.what = "proxy"  -> {"proxy_disarms"}
                                          [] OTHER             -> {}), l.on)
Captured(ps, l) == Count(ps, l.by, {"captures"})

\* character purchases, spawns as one, character and spy crates
Plays(ps, l) == As(ps, l.by, l.as)

Killing(l) == l.what \in {"kill", "headshot"}
\* mutant: who is killed keeps the character
DeathKeepsCharacter(ps, l) ==
  LET fallen == Count(ps, l.on, {"deaths"} \cup IF l.what = "suicide" THEN {"suicides"} ELSE {})
  IN  IF Killing(l) THEN Count(fallen, l.by, {"kills"} \cup IF l.what = "headshot" THEN {"headshots"} ELSE {})
                      ELSE fallen
Death(ps, l) ==
  LET fallen == Count(ps, l.on, {"deaths"} \cup IF l.what = "suicide" THEN {"suicides"} ELSE {})
      shot   == Count(fallen, l.by, {"kills"} \cup IF l.what = "headshot" THEN {"headshots"} ELSE {})
  IN  As(IF Killing(l) THEN shot ELSE fallen, l.on, Empty)

\* mutant: the owner of what is stolen is credited, too
StolenByBoth(ps, l) == Count(Count(ps, l.on, {"stolen", "steals"}), l.by, {"steals"})
Stolen(ps, l) == Count(Count(ps, l.on, {"stolen"}), l.by, {"steals"})
Destroyed(ps, l) == Count(ps, l.by, CASE l.what = "vehicle"  -> {"vehicleKills"}
                                      [] l.what = "building" -> {"buildingKills"}
                                      [] OTHER               -> {"defenceKills"})

\* onPreGameOver; nobody won a tie
\* mutant: everybody else loses a tie, too
OnTieAsLoss(ps, l) ==
  [p \in DOMAIN ps |-> IF ps[p].team = l.winner THEN [ps[p] EXCEPT !.wins = @ + 1]
                                                ELSE [ps[p] EXCEPT !.loses = @ + 1]]
OnPreGameOver(ps, l) ==
  IF l.winner = Empty THEN ps
  ELSE [p \in DOMAIN ps |-> IF ps[p].team = l.winner THEN [ps[p] EXCEPT !.wins = @ + 1]
                                                     ELSE [ps[p] EXCEPT !.loses = @ + 1]]

\* onMapChange
OnMapChange(ps, l) ==
  IF ~l.seamless THEN NoPlayers ELSE [p \in DOMAIN ps |-> [ps[p] EXCEPT !.stats = Zero]]

Enter(ps, l)    == [Meet(ps, l.by) EXCEPT ![l.by.who].known = TRUE]
TeamJoin(ps, l) == As(ps, l.by, Empty)
Exit(ps, l)     == [p \in DOMAIN ps \ {l.by.who} |-> ps[p]]

\* the rows of an answer to fetchClientList: counters of the game, and what identifies
Rows(ps, l) ==
  [p \in DOMAIN ps \cup DOMAIN l.rows |->
     IF p \notin DOMAIN l.rows THEN ps[p]
     ELSE LET row == l.rows[p]
              old == IF p \in DOMAIN ps THEN ps[p] ELSE PlayerInfo(row.team)
          IN  [old EXCEPT !.team = row.team, !.character = row.character, !.known = TRUE,
                          !.stats.kills = row.kills, !.stats.deaths = row.deaths]]

\* everything else only names players, first the one who acts
Named(ps, l) == Meet(Meet(ps, l.by), l.on)

After(ps, l) ==
  CASE l.kind = "deployed"  -> Deployed(ps, l)
    [] l.kind = "disarmed"  -> Disarmed(ps, l)
    [] l.kind = "captured"  -> Captured(ps, l)
    [] l.kind = "plays"     -> Plays(ps, l)
    [] l.kind = "death"     -> Death(ps, l)
    [] l.kind = "stolen"    -> Stolen(ps, l)
    [] l.kind = "destroyed" -> Destroyed(ps, l)
    [] l.kind = "matchend"  -> OnPreGameOver(ps, l)
    [] l.kind = "changing"  -> OnMapChange(ps, l)
    [] l.kind = "enter"     -> Enter(ps, l)
    [] l.kind = "teamjoin"  -> TeamJoin(ps, l)
    [] l.kind = "exit"      -> Exit(ps, l)
    [] l.kind = "list"      -> Rows(ps, l)
    [] l.kind \in {"loaded", "start", "info", "pong", "report", "voteover", "votecancelled"} -> ps
    [] OTHER                -> Named(ps, l)

----------------------------------------------------------------------------
(***************************************************************************)
(* What the plugin is told; s says whether a match is pending, whether the *)
(* server travels without taking its players along, and who is listed.     *)
(***************************************************************************)
Objects(l) ==
  CASE l.kind = "deployed"    -> RenX_OnDeploy(l.what)
    [] l.kind = "disarmed"    -> IF l.on = Nobody THEN RenX_OnDisarmNoOwner(l.what) ELSE RenX_OnDisarm(l.what)
    [] l.kind = "exploded"    -> IF l.by = Nobody THEN RenX_OnExplodeNoOwner ELSE RenX_OnExplode
    [] l.kind = "captured"    -> RenX_OnCapture
    [] l.kind = "neutralized" -> RenX_OnNeutralize
    [] l.kind = "stolen"      -> IF l.on = Nobody THEN RenX_OnStealNoOwner ELSE RenX_OnSteal
    [] l.kind = "destroyed"   -> IF IsPlayer(l.by) THEN RenX_OnDestroy(l.what) ELSE RenX_OnDestroyByObject(l.what)

Deaths(l) ==
  CASE l.what = "die"     -> RenX_OnDie
    [] l.what = "suicide" -> RenX_OnSuicide
    [] OTHER              -> IF IsPlayer(l.by) THEN RenX_OnKill ELSE RenX_OnKillByObject

Bought(l) ==
  CASE l.what = "item"    -> RenX_OnItemPurchase
    [] l.what = "weapon"  -> RenX_OnWeaponPurchase
    [] l.what = "refill"  -> RenX_OnRefillPurchase
    [] l.what = "vehicle" -> RenX_OnVehiclePurchase

Spawned(l) == IF l.what = "vehicle" THEN RenX_OnVehicleSpawn ELSE RenX_OnBotJoin

Crates(l) ==
  CASE l.what \in {"vehicle", "tsvehicle", "ravehicle"} -> RenX_OnVehicleCrate
    [] l.what \in {"death", "suicide"} -> RenX_OnDeathCrate
    [] l.what = "money"       -> RenX_OnMoneyCrate
    [] l.what = "refill"      -> RenX_OnRefillCrate
    [] l.what = "timebomb"    -> RenX_OnTimeBombCrate
    [] l.what = "speed"       -> RenX_OnSpeedCrate
    [] l.what = "nuke"        -> RenX_OnNukeCrate
    [] l.what = "abduction"   -> RenX_OnAbductionCrate
    [] l.what = "unspecified" -> RenX_OnUnspecifiedCrate
    [] OTHER                  -> RenX_OnOtherCrate

Chat(l) ==
  CASE l.what = "Say"            -> RenX_OnChat
    [] l.what = "TeamSay"        -> RenX_OnTeamChat
    [] l.what = "Radio"          -> RenX_OnRadioChat
    [] l.what = "AdminMsg"       -> RenX_OnAdminMessage
    [] l.what = "AdminWarn"      -> RenX_OnWarnMessage
    [] l.what = "PAdminMsg"      -> RenX_OnAdminPMessage
    [] l.what = "PAdminWarn"     -> RenX_OnWarnPMessage
    [] l.what = "HostSay"        -> RenX_OnHostChat
    [] l.what = "HostPMsg"       -> RenX_OnHostPage
    [] l.what = "HostAdminMsg"   -> RenX_OnHostAdminMessage
    [] l.what = "HostAdminWarn"  -> RenX_OnHostWarnMessage
    [] l.what = "HostPAdminMsg"  -> RenX_OnHostAdminPMessage
    [] l.what = "HostPAdminWarn" -> RenX_OnHostWarnPMessage
    [] OTHER                     -> RenX_OnOtherChat

\* the player of a Command line may give commands, banned from them or not
Acts(l, s) ==
  CASE l.what = "HWID"       -> RenX_OnPlayerIdentify(s.pending)
    [] l.what = "Kick"       -> RenX_OnKick
    [] l.what = "NameChange" -> RenX_OnNameChange
    [] l.what = "SpeedHack"  -> RenX_OnSpeedHack
    [] l.what = "Command"    -> RenX_OnPlayerCommand(TRUE)
    [] l.what = "NoCommand"  -> RenX_OnPlayerCommand(FALSE)
    [] l.what = "Rcon"       -> RenX_OnPlayerExecute
    [] l.what = "Login"      -> RenX_OnAdminLogin
    [] l.what = "Granted"    -> RenX_OnAdminGrant
    [] l.what = "Logout"     -> RenX_OnAdminLogout
    [] l.what = "Record"     -> RenX_OnDemoRecord
    [] OTHER                 -> RenX_OnPlayer

Reports(l) ==
  CASE l.what = "executedByAnother" -> RenX_OnExecute("another")
    [] l.what = "executedByDevBot"  -> RenX_OnExecute("DevBot")
    [] l.what = "executedByBot" -> RenX_OnExecute("own")
    [] l.what = "v"          -> RenX_OnVersion
    [] l.what = "a"          -> RenX_OnAuthorized
    [] l.what = "Subscribed" -> RenX_OnSubscribe
    [] l.what = "RCON"       -> RenX_OnRCON
    [] l.what = "ADMIN"      -> RenX_OnAdmin
    [] l.what = "VOTE"       -> RenX_OnVote
    [] l.what = "MAP"        -> RenX_OnMap
    [] l.what = "DEMO"       -> RenX_OnDemo
    [] l.what = "Recorded"   -> RenX_OnDemoRecordByRcon
    [] l.what = "RecordStop" -> RenX_OnDemoRecordStop
    [] l.what = "GAME"       -> RenX_OnGame
    [] l.what = "log"        -> RenX_OnLog
    [] l.what = "c"          -> RenX_OnCommand
    [] l.what = "e"          -> RenX_OnError
    [] OTHER                 -> RenX_OnOther

Votes(l) ==
  CASE l.what = "AddBots"    -> RenX_OnVoteAddBots
    [] l.what = "ChangeMap"  -> RenX_OnVoteChangeMap
    [] l.what = "Kick"       -> RenX_OnVoteKick
    [] l.what = "MineBan"    -> RenX_OnVoteMineBan
    [] l.what = "RemoveBots" -> RenX_OnVoteRemoveBots
    [] l.what = "RestartMap" -> RenX_OnVoteRestartMap
    [] l.what = "Surrender"  -> RenX_OnVoteSurrender
    [] l.what = "Survey"     -> RenX_OnVoteSurvey
    [] OTHER                 -> RenX_OnVoteOther

Tells(l, s) ==
  CASE l.kind = "death"     -> Deaths(l)
    [] l.kind = "purchase"  -> Bought(l)
    [] l.kind = "spawn"     -> Spawned(l)
    [] l.kind = "crate"     -> Crates(l)
    [] l.kind = "plays"     -> CASE l.what = "purchase" -> RenX_OnCharacterPurchase
                                 [] l.what = "spawn"    -> RenX_OnSpawn
                                 [] l.what = "crate"    -> RenX_OnCharacterCrate
                                 [] OTHER               -> RenX_OnSpyCrate
    [] l.kind = "chat"      -> Chat(l)
    [] l.kind = "player"    -> Acts(l, s)
    [] l.kind = "report"    -> Reports(l)
    [] l.kind = "donated"   -> RenX_OnDonate
    [] l.kind = "overmine"  -> RenX_OnOverMine
    [] l.kind = "matchend"  -> RenX_OnGameOver(l.winner)
    [] l.kind = "changing"  -> RenX_OnMapChange
    [] l.kind = "loaded"    -> RenX_OnMapLoad
    [] l.kind = "start"     -> RenX_OnMapStart
    [] l.kind = "enter"     -> RenX_OnJoin(s.pending, l.steam)
    [] l.kind = "teamjoin"  -> RenX_OnTeamChange    \* the line has the team that is left
    [] l.kind = "exit"      -> IF l.by.who \in s.listed THEN RenX_OnPart(s.leftBehind) ELSE {}
    [] l.kind = "votecalled"    -> Votes(l)
    [] l.kind = "voteover"      -> RenX_OnVoteOver(l.success)
    [] l.kind = "votecancelled" -> RenX_OnVoteCancel
    [] l.kind \in {"list", "info", "pong"} -> {}
    [] OTHER                -> Objects(l)
=============================================================================
