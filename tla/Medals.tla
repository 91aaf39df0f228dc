------------------------------- MODULE Medals -------------------------------
(***************************************************************************)
(* RenX.Medals: recommendations.  Those of a player on the server are kept *)
(* with the player, and put back into the medals file's image in memory    *)
(* when the player is deleted; the file is written after each match.       *)
(***************************************************************************)
EXTENDS Match

CONSTANTS
  UuidIsName,    \* RenX.NicknameUUID is loaded: the uuid is the name
  MaxRecs        \* bound

ASSUME MedalsAssumption == UuidIsName \in BOOLEAN /\ MaxRecs \in Nat \ {0}

VARIABLES
  recs,          \* "Recs" of each listed player
  given,         \* "gr": the players who have given a recommendation
  medals,        \* [Clients -> Nat]: medalsFile, by uuid
  disk           \* what is in the file

medalsVars == <<recs, given, medals, disk>>

MedalsTypeOK ==
  /\ DOMAIN recs = Listed /\ given \subseteq Listed
  /\ \A c \in Listed : recs[c] \in Nat
  /\ medals \in [Clients -> Nat] /\ disk \in [Clients -> Nat]

MedalsInit ==
  /\ recs = NoOne /\ given = {}
  /\ medals = [c \in Clients |-> 0] /\ disk = medals

----------------------------------------------------------------------------
\* mutant: a player who is deleted is forgotten
PlayersForgotten ==
  LET listed == {server'.players[i].id : i \in DOMAIN server'.players}
  IN  /\ recs' = [c \in listed |-> IF c \in DOMAIN recs THEN recs[c] ELSE medals[c]]
      /\ given' = given \cap listed
      /\ UNCHANGED <<medals, disk>>

\* RenX_OnPlayerCreate and RenX_OnPlayerDelete, of those the server has added
\* and removed
PlayersChange ==
  LET listed == {server'.players[i].id : i \in DOMAIN server'.players}
  IN  /\ recs' = [c \in listed |-> IF c \in DOMAIN recs THEN recs[c] ELSE medals[c]]
      /\ medals' = [c \in Clients |-> IF c \in DOMAIN recs \ listed THEN recs[c] ELSE medals[c]]
      /\ given' = given \cap listed
      /\ UNCHANGED disk

\* the first of those with the most points
Best == CHOOSE c \in Listed :
          \E i \in DOMAIN server.players :
            /\ server.players[i].id = c
            /\ \A j \in DOMAIN server.players :
                 \/ server.players[j].points < server.players[i].points
                 \/ server.players[j].points = server.players[i].points /\ j >= i

PointsOf(c) == server.players[CHOOSE i \in DOMAIN server.players : server.players[i].id = c].points

AddRec(c) == recs' = [recs EXCEPT ![c] = @ + 1]

\* RenX_OnGameOver: the file does not hold what the match has brought yet
OnMatchEnd ==
  /\ IF server.reliable /\ Listed # {} /\ PointsOf(Best) > 0
       THEN AddRec(Best) ELSE UNCHANGED recs
  /\ disk' = medals
  /\ UNCHANGED <<given, medals>>

\* RecGameCommand
OnRec(by, of) ==
  /\ IF {by, of} \subseteq Listed /\ by # of /\ by \notin given
       THEN AddRec(of) /\ given' = given \cup {by}
       ELSE UNCHANGED <<recs, given>>
  /\ UNCHANGED <<medals, disk>>

\* init: what the players on the server have is read by their names
ReadByName(file) == recs' = [c \in Listed |-> IF UuidIsName THEN file[c] ELSE 0]

\* OnRehash
Rehash ==
  /\ disk' = medals /\ medals' = medals
  /\ ReadByName(disk')
  /\ UNCHANGED given

\* the plugin is unloaded, and loaded again
Reload ==
  /\ disk' = [c \in Clients |-> IF c \in Listed THEN recs[c] ELSE medals[c]]
  /\ medals' = disk'
  /\ ReadByName(disk')
  /\ UNCHANGED given

\* the process dies, and comes back without players
MedalsRestart ==
  /\ recs' = NoOne /\ given' = {} /\ medals' = disk
  /\ UNCHANGED disk

\* what a player would be shown
Recs(c) == IF c \in Listed THEN recs[c] ELSE medals[c]
============================================================================
