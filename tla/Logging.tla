------------------------------- MODULE Logging -------------------------------
(***************************************************************************)
(* The RenX.Logging plugin: what it says, of each event of a game server,  *)
(* to the IRC channels attached to the server, the public ones and those   *)
(* of the administrators.  A handler is the set of messages it sends: each *)
(* names the format that is filled in, and the type of the channels.       *)
(***************************************************************************)
EXTENDS FiniteSets

CONSTANTS
  Public,         \* the settings <event>Public that are true
  Blank,          \* the formats that are empty, which silences an event
  MuteOwnExecute  \* s_muteOwnExecute

\* no name: the id of nobody, the character of the dead, the winner of a tie
Empty == ""

\* initialize: what is logged publicly, and not at all, unless configured otherwise
DefaultPublic ==
  {"Join", "Part", "Kick", "NameChange", "TeamChange", "Chat", "HostChat", "AdminMessage",
   "Deploy", "Disarm", "Suicide", "Kill", "Die", "Destroy", "Capture", "Neutralize",
   "VehicleSpawn", "Spawn", "BotJoin", "DeathCrate", "NukeCrate", "AbductionCrate", "Steal",
   "Donate", "Game", "GameOver", "AdminLogin", "AdminGrant", "AdminLogout", "VoteCall",
   "VoteOver", "VoteCancel", "MapChange", "MapLoad", "MapStart", "DemoRecord",
   "DemoRecordStop", "Version", "Authorized"}
DefaultBlank == {"PlayerRDNS", "JoinAdmin", "JoinNoSteamAdmin", "PlayerCommandFail", "DevBotExecute",
                 "Command"}

To(channels, format) == {[on |-> c, says |-> format] : c \in IF format \in Blank THEN {} ELSE channels}

\* sendLogChan if the setting says so, sendAdmChan otherwise
LogAs(setting, format) ==
  To(IF setting \in Public THEN {"public", "admin"} ELSE {"admin"}, format)
Log(event) == LogAs(event, event)

----------------------------------------------------------------------------
(***************************************************************************)
(* Players                                                                 *)
(***************************************************************************)
RenX_OnPlayerRDNS == Log("PlayerRDNS")
RenX_OnPlayerIdentify(pending) == IF pending THEN {} ELSE Log("PlayerIdentify")

\* the public channels are told of every join, the others not while a match is pending
RenX_OnJoin(pending, steam) ==
  (IF "Join" \in Public THEN To({"public"}, "JoinPublic") ELSE {})
  \cup (IF pending THEN {} ELSE To({"admin"}, IF steam THEN "JoinAdmin" ELSE "JoinNoSteamAdmin"))

RenX_OnPart(leftBehind) == IF leftBehind THEN {} ELSE Log("Part")
RenX_OnKick          == Log("Kick")
RenX_OnNameChange    == Log("NameChange")
RenX_OnTeamChange    == Log("TeamChange")
RenX_OnSpeedHack     == Log("SpeedHack")
RenX_OnPlayerExecute == LogAs("Execute", "PlayerExecute")
RenX_OnPlayerCommand(found) ==
  LogAs("PlayerCommand", IF found THEN "PlayerCommandSuccess" ELSE "PlayerCommandFail")
RenX_OnPlayer        == Log("Player")

----------------------------------------------------------------------------
(***************************************************************************)
(* Chat                                                                    *)
(***************************************************************************)
RenX_OnChat      == Log("Chat")
RenX_OnTeamChat  == Log("TeamChat")
RenX_OnRadioChat == Log("RadioChat")
RenX_OnHostChat  == Log("HostChat")
RenX_OnHostPage  == Log("HostPage")
RenX_OnAdminMessage  == LogAs("AdminMessage", "AdminMsg")
RenX_OnWarnMessage   == LogAs("AdminMessage", "WarnMsg")
RenX_OnAdminPMessage == LogAs("AdminPage", "PAdminMsg")
RenX_OnWarnPMessage  == LogAs("AdminPage", "PWarnMsg")
RenX_OnHostAdminMessage  == LogAs("AdminMessage", "AdminMsg")
RenX_OnHostAdminPMessage == LogAs("AdminPage", "PAdminMsg")
RenX_OnHostWarnMessage   == LogAs("AdminMessage", "WarnMsg")
RenX_OnHostWarnPMessage  == LogAs("AdminPage", "PWarnMsg")
RenX_OnOtherChat == Log("OtherChat")

----------------------------------------------------------------------------
(***************************************************************************)
(* What players do in the game                                             *)
(***************************************************************************)
RenX_OnDeploy(object) == IF object = "beacon" THEN Log("Deploy") ELSE Log("MineDeploy")
RenX_OnOverMine == Log("OverMine")

RenX_OnDisarm(object) == IF object = "beacon" THEN Log("Disarm") ELSE Log("MineDisarm")
RenX_OnDisarmNoOwner(object) ==
  IF object = "beacon" THEN LogAs("Disarm", "DisarmNoOwner")
                       ELSE LogAs("MineDisarm", "MineDisarmNoOwner")

RenX_OnExplode        == Log("Explode")
RenX_OnExplodeNoOwner == LogAs("Explode", "ExplodeNoOwner")
RenX_OnSuicide == Log("Suicide")
RenX_OnKill    == Log("Kill")
RenX_OnKillByObject == LogAs("Kill", "Kill2")
RenX_OnDie     == Log("Die")

RenX_OnDestroy(type) ==
  LogAs("Destroy", CASE type = "building" -> "DestroyBuilding"
                     [] type = "defence"  -> "DestroyDefence"
                     [] OTHER             -> "DestroyVehicle")
RenX_OnDestroyByObject(type) ==
  LogAs("Destroy", CASE type = "building" -> "DestroyBuilding2"
                     [] type = "defence"  -> "DestroyDefence2"
                     [] OTHER             -> "DestroyVehicle2")

RenX_OnCapture    == Log("Capture")
RenX_OnNeutralize == Log("Neutralize")
RenX_OnCharacterPurchase == Log("CharacterPurchase")
RenX_OnItemPurchase      == Log("ItemPurchase")
RenX_OnWeaponPurchase    == Log("WeaponPurchase")
RenX_OnRefillPurchase    == Log("RefillPurchase")
RenX_OnVehiclePurchase   == Log("VehiclePurchase")
RenX_OnVehicleSpawn == Log("VehicleSpawn")
RenX_OnSpawn        == Log("Spawn")
RenX_OnBotJoin      == Log("BotJoin")
RenX_OnSteal == Log("Steal")
RenX_OnStealNoOwner == LogAs("Steal", "StealNoOwner")
RenX_OnDonate == Log("Donate")

\* the handlers of Tiberian Sun and Red Alert vehicles are there, and never called
RenX_OnVehicleCrate     == Log("VehicleCrate")
RenX_OnDeathCrate       == Log("DeathCrate")
RenX_OnMoneyCrate       == Log("MoneyCrate")
RenX_OnCharacterCrate   == Log("CharacterCrate")
RenX_OnSpyCrate         == Log("SpyCrate")
RenX_OnRefillCrate      == Log("RefillCrate")
RenX_OnTimeBombCrate    == Log("TimeBombCrate")
RenX_OnSpeedCrate       == Log("SpeedCrate")
RenX_OnNukeCrate        == Log("NukeCrate")
RenX_OnAbductionCrate   == Log("AbductionCrate")
RenX_OnUnspecifiedCrate == Log("UnspecifiedCrate")
RenX_OnOtherCrate       == Log("OtherCrate")

----------------------------------------------------------------------------
(***************************************************************************)
(* The match, the server, its administrators, votes                        *)
(***************************************************************************)

\* the outcome and then the score; winner: "GDI", "Nod", or Empty for a tie
RenX_OnGameOver(winner) ==
  LogAs("GameOver", IF winner = Empty THEN "GameOverTieNoWin" ELSE "GameOver")
  \cup LogAs("GameOver", "GameOverScore")

RenX_OnGame == Log("Game")
RenX_OnExecute(user) ==
  IF MuteOwnExecute /\ user = "own" THEN {}
  ELSE LogAs("Execute", IF user = "DevBot" THEN "DevBotExecute" ELSE "Execute")
RenX_OnSubscribe   == Log("Subscribe")
RenX_OnRCON        == Log("RCON")
RenX_OnAdminLogin  == Log("AdminLogin")
RenX_OnAdminGrant  == Log("AdminGrant")
RenX_OnAdminLogout == Log("AdminLogout")
RenX_OnAdmin       == Log("Admin")
RenX_OnVoteAddBots    == LogAs("VoteCall", "VoteAddBots")
RenX_OnVoteChangeMap  == LogAs("VoteCall", "VoteChangeMap")
RenX_OnVoteKick       == LogAs("VoteCall", "VoteKick")
RenX_OnVoteMineBan    == LogAs("VoteCall", "VoteMineBan")
RenX_OnVoteRemoveBots == LogAs("VoteCall", "VoteRemoveBots")
RenX_OnVoteRestartMap == LogAs("VoteCall", "VoteRestartMap")
RenX_OnVoteSurrender  == LogAs("VoteCall", "VoteSurrender")
RenX_OnVoteSurvey     == LogAs("VoteCall", "VoteSurvey")
RenX_OnVoteOther      == LogAs("VoteCall", "VoteOther")
RenX_OnVoteOver(success) == LogAs("VoteOver", IF success THEN "VoteOverSuccess" ELSE "VoteOverFail")
RenX_OnVoteCancel == Log("VoteCancel")
RenX_OnVote       == Log("Vote")
RenX_OnMapChange  == Log("MapChange")
RenX_OnMapLoad    == Log("MapLoad")
RenX_OnMapStart   == Log("MapStart")
RenX_OnMap        == Log("Map")
RenX_OnDemoRecord == Log("DemoRecord")
RenX_OnDemoRecordByRcon == LogAs("DemoRecord", "RconDemoRecord")
RenX_OnDemoRecordStop   == Log("DemoRecordStop")
RenX_OnDemo       == Log("Demo")
RenX_OnLog        == Log("Log")
RenX_OnCommand    == Log("Command")
RenX_OnError      == Log("Error")
RenX_OnVersion    == Log("Version")
RenX_OnAuthorized == Log("Authorized")
RenX_OnOther      == Log("Other")
=============================================================================
