----------------------------- MODULE Moderators -----------------------------
(***************************************************************************)
(* The RenX.ModSystem plugin on one game server: the groups and the        *)
(* sections of moderators of its configuration, how a player who joins or  *)
(* is authenticated gets the access of his section, the temporary grants,  *)
(* the logins to the game itself, and the commands, from IRC and from the  *)
(* game, that change any of it.  What the plugin changes in memory only is *)
(* lost when the configuration is read again.                              *)
(***************************************************************************)
EXTENDS Naturals, Sequences, FiniteSets

CONSTANTS
  Persons,        \* clients of the game
  Who,            \* what each of them is: [steam, ip, name]; steam "" without Steam
  UUIDs,          \* identifiers a player may have
  UUID(_, _),     \* m_calc_uuid: of a steam id and a name, "" for none
  Groups,         \* groups: the groups in order, the default one first
  ATMDefault,     \* m_atmDefault: index of a group, or 0
  Moderator,      \* m_moderatorGroup: index of a group, or 0
  Administrator,  \* m_administratorGroup: index of a group, or 0
  KickExempt,     \* persons exempt from kicks
  Users,          \* users who may be in the IRC channel the server is attached to
  UserAccess,     \* their access levels there
  TopAccess,      \* getPrefixes().size(): access of those above every prefix
  InitSections,   \* sections of the configuration the plugin is first loaded with
  MaxSections     \* bound: sections there are at most

Steams == {Who[p].steam : p \in Persons} \cup {""}
IPs    == {Who[p].ip : p \in Persons}
Names  == {Who[p].name : p \in Persons}
Inherits == [x \in {} |-> 0]    \* a section without settings of its own

\* own: settings the section has itself, in place of those of its group
Owns    == {InitSections[u].own : u \in DOMAIN InitSections} \cup {Inherits}
Section == [group : 1 .. Len(Groups), steam : Steams, ip : IPs, name : Names, own : Owns]
\* group: what the plugin noted in varData, 0 for nothing; admin: adminType
Player  == [steam : Steams, access : Nat, group : 0 .. Len(Groups),
            admin : {"", "moderator", "administrator"}]

ASSUME ModeratorsAssumption ==
  /\ Who \in [Persons -> [steam : Steams, ip : IPs, name : Names]]
  /\ \A s \in Steams, n \in Names : UUID(s, n) \in UUIDs \cup {""}
  /\ "" \notin UUIDs
  /\ Groups \in Seq([access : Nat, lockSteam : BOOLEAN, lockIP : BOOLEAN, lockName : BOOLEAN,
                     kickLockMismatch : BOOLEAN, autoAuthSteam : BOOLEAN, autoAuthIP : BOOLEAN])
  /\ Groups # <<>>
  /\ {ATMDefault, Moderator, Administrator} \subseteq 0 .. Len(Groups)
  /\ KickExempt \subseteq Persons
  /\ UserAccess \in [Users -> Nat] /\ TopAccess \in Nat
  /\ InitSections \in [DOMAIN InitSections -> Section]
  /\ DOMAIN InitSections \subseteq UUIDs
  /\ \A o \in Owns : "access" \in DOMAIN o => o["access"] \in Nat

VARIABLES
  online,    \* the users who are in the channel, as long as we look
  loaded,    \* the plugin is loaded
  sections,  \* config: the sections in memory
  saved,     \* the sections in the configuration file
  players,   \* players, by person
  kicks      \* kick commands on their way to the game, for a mismatch of locks

vars == <<online, loaded, sections, saved, players, kicks>>

TypeOK ==
  /\ online \subseteq Users
  /\ loaded \in BOOLEAN
  /\ sections \in [DOMAIN sections -> Section] /\ DOMAIN sections \subseteq UUIDs
  /\ saved \in [DOMAIN saved -> Section] /\ DOMAIN saved \subseteq UUIDs
  /\ players \in [DOMAIN players -> Player] /\ DOMAIN players \subseteq Persons
  /\ kicks \subseteq DOMAIN players

----------------------------------------------------------------------------
(***************************************************************************)
(* Groups, sections, and what a player may do                              *)
(***************************************************************************)

Setting(s, key) == IF key \in DOMAIN s.own THEN s.own[key] ELSE Groups[s.group][key]

UuidOf(p) == UUID(players[p].steam, Who[p].name)

\* getConfigAccess
ConfigAccess(p) ==
  IF UuidOf(p) \in DOMAIN sections THEN Setting(sections[UuidOf(p)], "access") ELSE Groups[1].access

LocksHold(p, steam, s) ==
  /\ Setting(s, "lockSteam") => steam = s.steam
  /\ Setting(s, "lockIP")    => Who[p].ip = s.ip
  /\ Setting(s, "lockName")  => Who[p].name = s.name

Recognized(p, steam, s) ==
  \/ Setting(s, "autoAuthSteam") /\ steam = s.steam
  \/ Setting(s, "autoAuthIP") /\ Who[p].ip = s.ip

FromSection(r, s) == [r EXCEPT !.group = s.group, !.access = Setting(s, "access")]
FromGroup(r, g)   == [r EXCEPT !.group = g, !.access = Groups[g].access]

\* auth turns a player of this section away: a kick, and nothing is authenticated
Mismatch(p, r, force, list) ==
  LET u == UUID(r.steam, Who[p].name)
  IN  /\ u \in DOMAIN list
      /\ ~force /\ ~LocksHold(p, r.steam, list[u])
      /\ Setting(list[u], "kickLockMismatch")

\* auth: what becomes of the record r of player p
Auth(p, r, checkAuto, force, list) ==
  LET u == UUID(r.steam, Who[p].name)
  IN  IF u \notin DOMAIN list THEN FromGroup(r, 1)
      ELSE IF \/ force
              \/ LocksHold(p, r.steam, list[u]) /\ (checkAuto => Recognized(p, r.steam, list[u]))
        THEN FromSection(r, list[u])
      ELSE IF Mismatch(p, r, force, list) THEN r
      ELSE FromGroup(r, 1)

LoginAccess(type) ==
  CASE type = "administrator" -> IF Administrator = 0 THEN 2 ELSE Groups[Administrator].access
    [] type = "moderator"     -> IF Moderator = 0 THEN 1 ELSE Groups[Moderator].access
    [] OTHER                  -> Groups[1].access

\* resetAccess
ResetAccess(r) == [r EXCEPT !.access = LoginAccess(r.admin)]

\* kickPlayer, of those who do not match
Kick(who) == kicks' = kicks \cup (who \ KickExempt)

Authenticate(p, checkAuto, force) ==
  /\ players' = [players EXCEPT ![p] = Auth(p, @, checkAuto, force, sections)]
  /\ Kick({q \in {p} : Mismatch(q, players[q], force, sections)})

\* initialize, of a configuration just read: everybody is authenticated again
Initialize(list) ==
  /\ players' = [p \in DOMAIN players |-> Auth(p, players[p], TRUE, FALSE, list)]
  /\ Kick({p \in DOMAIN players : Mismatch(p, players[p], FALSE, list)})

Init ==
  /\ online \in SUBSET Users
  /\ loaded = TRUE
  /\ sections = InitSections /\ saved = InitSections
  /\ players = [p \in {} |-> 0]
  /\ kicks = {}

----------------------------------------------------------------------------
(***************************************************************************)
(* The game                                                                *)
(***************************************************************************)

NewPlayer(steam) == [steam |-> steam, access |-> 0, group |-> 0, admin |-> ""]

\* RenX_OnPlayerCreate: a player is first named, with his steam id or without
PlayerCreate(p, steam) ==
  /\ p \notin DOMAIN players
  /\ LET r == NewPlayer(steam)
     IN  /\ players' = [q \in DOMAIN players \cup {p} |->
                         IF q # p THEN players[q]
                         ELSE IF loaded THEN Auth(p, r, TRUE, FALSE, sections) ELSE r]
         /\ Kick({q \in {p} : loaded /\ Mismatch(q, r, FALSE, sections)})
  /\ UNCHANGED <<online, loaded, sections, saved>>

\* a line tells the steam id of a player who is listed without it: the uuid is
\* calculated again, of which the plugin takes no notice
SteamLearnt(p) ==
  /\ p \in DOMAIN players /\ players[p].steam = "" /\ Who[p].steam # ""
  /\ players' = [players EXCEPT ![p].steam = Who[p].steam]
  /\ UNCHANGED <<online, loaded, sections, saved, kicks>>

\* RenX_OnPlayerDelete: the section of the uuid takes over what the player was
PlayerDelete(p) ==
  /\ p \in DOMAIN players
  /\ sections' = IF loaded /\ UuidOf(p) \in DOMAIN sections
                   THEN [sections EXCEPT ![UuidOf(p)].steam = players[p].steam,
                                         ![UuidOf(p)].ip = Who[p].ip, ![UuidOf(p)].name = Who[p].name]
                   ELSE sections
  /\ players' = [q \in DOMAIN players \ {p} |-> players[q]]
  /\ kicks' = kicks \ {p}
  /\ UNCHANGED <<online, loaded, saved>>

LoginGroup(type) == IF type = "administrator" THEN Administrator ELSE Moderator

\* RenX_OnAdminLogin and RenX_OnAdminGrant: the game lets a player log in once
AdminLogin(p, type) ==
  /\ p \in DOMAIN players /\ players[p].admin = ""
  /\ LET g == LoginGroup(type)
     IN  players' = [players EXCEPT ![p].admin = type,
                       ![p].access = IF loaded /\ g # 0 /\ @ < Groups[g].access
                                       THEN Groups[g].access ELSE @]
  /\ UNCHANGED <<online, loaded, sections, saved, kicks>>

\* mutant: the access stays as the login left it
AdminLogoutOnly(p) ==
  /\ p \in DOMAIN players /\ players[p].admin # ""
  /\ players' = [players EXCEPT ![p].admin = ""]
  /\ UNCHANGED <<online, loaded, sections, saved, kicks>>

\* RenX_OnAdminLogout, after which the server forgets the type of the login
AdminLogout(p) ==
  /\ p \in DOMAIN players /\ players[p].admin # ""
  /\ players' = [players EXCEPT ![p].admin = "",
                   ![p].access = IF loaded /\ @ <= LoginAccess(players[p].admin)
                                   THEN Groups[1].access ELSE @]
  /\ UNCHANGED <<online, loaded, sections, saved, kicks>>

----------------------------------------------------------------------------
(***************************************************************************)
(* Commands from IRC: by user u, whose level lets him, about player p      *)
(***************************************************************************)

\* a moderator of a higher level is not touched, but by those above every prefix
MayTouch(u, p) == ConfigAccess(p) <= UserAccess[u] \/ UserAccess[u] >= TopAccess

AuthIRCCommand(u, p) ==
  /\ loaded /\ p \in DOMAIN players /\ UserAccess[u] >= 3
  /\ MayTouch(u, p) /\ players[p].access < ConfigAccess(p)
  /\ Authenticate(p, FALSE, FALSE)
  /\ UNCHANGED <<online, loaded, sections, saved>>

ForceAuthIRCCommand(u, p) ==
  /\ loaded /\ p \in DOMAIN players /\ UserAccess[u] >= 4
  /\ MayTouch(u, p) /\ players[p].access < ConfigAccess(p)
  /\ Authenticate(p, FALSE, TRUE)
  /\ UNCHANGED <<online, loaded, sections, saved>>

DeAuthIRCCommand(u, p) ==
  /\ loaded /\ p \in DOMAIN players /\ UserAccess[u] >= 3
  /\ MayTouch(u, p)
  /\ players' = [players EXCEPT ![p] = ResetAccess(@)]
  /\ UNCHANGED <<online, loaded, sections, saved, kicks>>

\* mutant: the group asked for is not compared with one's own level
ATMGroupUnchecked(g, access) == IF g = 0 THEN ATMDefault ELSE g

\* the group of an atm command that names group g, or none with 0: an index
\* above one's own level is ignored
ATMGroup(g, access) == IF g = 0 \/ Groups[g].access > access THEN ATMDefault ELSE g

\* tempAuth, unless it would lower the player's access
TempAuth(p, g) ==
  /\ g # 0 /\ players[p].access <= Groups[g].access
  /\ players' = [players EXCEPT ![p] = FromGroup(@, g)]
  /\ UNCHANGED <<online, loaded, sections, saved, kicks>>

ATMIRCCommand(u, p, g) ==
  /\ loaded /\ p \in DOMAIN players /\ UserAccess[u] >= 3
  /\ g # 1    \* group 0 of the list is refused
  /\ TempAuth(p, ATMGroup(g, UserAccess[u]))

\* set: a section for the player, as he is, in memory and in the file
WithSection(p, g) ==
  [u \in DOMAIN sections \cup {UuidOf(p)} |->
     IF u # UuidOf(p) THEN sections[u]
     ELSE [group |-> g, steam |-> players[p].steam, ip |-> Who[p].ip, name |-> Who[p].name,
           own |-> IF u \in DOMAIN sections THEN sections[u].own ELSE Inherits]]

\* mutant: the configuration is not written
AddIRCCommandUnwritten(u, p, g) ==
  /\ loaded /\ p \in DOMAIN players /\ UserAccess[u] >= 5
  /\ UuidOf(p) # "" /\ Cardinality(DOMAIN sections \cup {UuidOf(p)}) <= MaxSections
  /\ sections' = WithSection(p, g) /\ saved' = saved
  /\ players' = [players EXCEPT ![p] = FromSection(@, sections'[UuidOf(p)])]
  /\ UNCHANGED <<online, loaded, kicks>>

AddIRCCommand(u, p, g) ==
  /\ loaded /\ p \in DOMAIN players /\ UserAccess[u] >= 5
  /\ UuidOf(p) # "" /\ Cardinality(DOMAIN sections \cup {UuidOf(p)}) <= MaxSections
  /\ sections' = WithSection(p, g) /\ saved' = sections'
  /\ players' = [players EXCEPT ![p] = Auth(p, ResetAccess(@), FALSE, TRUE, sections')]
  /\ UNCHANGED <<online, loaded, kicks>>

\* removeModSection, of a listed player, a uuid or a name: whoever has the
\* access of the section keeps it
DelIRCCommand(u, uuid) ==
  /\ loaded /\ UserAccess[u] >= 5 /\ uuid \in DOMAIN sections
  /\ sections' = [v \in DOMAIN sections \ {uuid} |-> sections[v]] /\ saved' = sections'
  /\ UNCHANGED <<online, loaded, players, kicks>>

----------------------------------------------------------------------------
(***************************************************************************)
(* Commands from the game: by player j, whose access lets him, about p     *)
(***************************************************************************)

\* what lets j authenticate p; it is then j whom the plugin authenticates
Authenticates(j, p) ==
  /\ loaded /\ {j, p} \subseteq DOMAIN players /\ j # p
  /\ ConfigAccess(p) <= players[j].access /\ players[p].access < ConfigAccess(p)

AuthGameCommand(j, p) ==
  /\ Authenticates(j, p) /\ players[j].access >= 3
  /\ Authenticate(j, FALSE, FALSE)
  /\ UNCHANGED <<online, loaded, sections, saved>>

ForceAuthGameCommand(j, p) ==
  /\ Authenticates(j, p) /\ players[j].access >= 4
  /\ Authenticate(j, FALSE, TRUE)
  /\ UNCHANGED <<online, loaded, sections, saved>>

ATMGameCommand(j, p, g) ==
  /\ loaded /\ {j, p} \subseteq DOMAIN players /\ players[j].access >= 3
  /\ g # 1
  /\ TempAuth(p, ATMGroup(g, players[j].access))

----------------------------------------------------------------------------
(***************************************************************************)
(* The plugin                                                              *)
(***************************************************************************)

\* OnRehash: the configuration is read again
OnRehash ==
  /\ loaded
  /\ sections' = saved /\ Initialize(saved)
  /\ UNCHANGED <<online, loaded, saved>>

\* ~RenX_ModSystemPlugin: access falls back to what the login to the game gives
Unload ==
  /\ loaded /\ loaded' = FALSE
  /\ players' = [p \in DOMAIN players |->
       [players[p] EXCEPT !.group = 0,
          !.access = CASE players[p].admin = "administrator" -> 2
                       [] players[p].admin = "moderator" -> 1
                       [] OTHER -> 0]]
  /\ UNCHANGED <<online, sections, saved, kicks>>

\* initialize of the plugin when it is loaded again
Load ==
  /\ ~loaded /\ loaded' = TRUE
  /\ sections' = saved /\ Initialize(saved)
  /\ UNCHANGED <<online, saved>>

Next ==
  \/ \E p \in Persons : \/ \E s \in {Who[p].steam, ""} : PlayerCreate(p, s)
                        \/ SteamLearnt(p) \/ PlayerDelete(p) \/ AdminLogout(p)
                        \/ \E t \in {"moderator", "administrator"} : AdminLogin(p, t)
  \/ \E u \in online, p \in Persons :
       \/ AuthIRCCommand(u, p) \/ ForceAuthIRCCommand(u, p) \/ DeAuthIRCCommand(u, p)
       \/ \E g \in 0 .. Len(Groups) : ATMIRCCommand(u, p, g)
       \/ \E g \in 1 .. Len(Groups) : AddIRCCommand(u, p, g)
  \/ \E u \in online, uuid \in UUIDs : DelIRCCommand(u, uuid)
  \/ \E j, p \in Persons :
       \/ AuthGameCommand(j, p) \/ ForceAuthGameCommand(j, p)
       \/ \E g \in 0 .. Len(Groups) : ATMGameCommand(j, p, g)
  \/ OnRehash \/ Unload \/ Load

Spec == Init /\ [][Next]_vars

----------------------------------------------------------------------------
(***************************************************************************)
(* Properties                                                              *)
(***************************************************************************)

\* Somebody may write sections: what he writes is bounded by the groups only.
MayAdd == \E u \in online : UserAccess[u] >= 5

\* The levels that sections state themselves.
OwnLevels == {o["access"] : o \in {q \in Owns : "access" \in DOMAIN q}}

\* The levels that are somebody's to give: those of the default group and of
\* ATMDefault, of logins to the game, of the sections the configuration starts
\* with, those up to the level of an IRC user who may use atm, and all of them
\* if somebody may add moderators.
Givable ==
  {0, 1, 2} \cup {Groups[1].access}
  \cup {Groups[g].access : g \in {ATMDefault, Moderator, Administrator} \ {0}}
  \cup {Groups[InitSections[u].group].access : u \in DOMAIN InitSections}
  \cup {Groups[g].access : g \in {h \in 1 .. Len(Groups) :
           MayAdd \/ \E u \in online : UserAccess[u] >= 3 /\ Groups[h].access <= UserAccess[u]}}
  \cup OwnLevels

\* However grants, authentications, logins, rehashes and reloads are chained,
\* nobody gets beyond the highest level that is somebody's to give: the checks
\* of the atm, auth and fauth commands compose.
NoEscalation == \A p \in DOMAIN players : \E a \in Givable : players[p].access <= a

\* Who is a moderator, and of which group, is the same in the file as in
\* memory at all times: what add and del change survives a restart.  (SectionsSound
\* adds that everything has its type.)
MembershipIsDurable ==
  /\ DOMAIN sections = DOMAIN saved
  /\ \A u \in DOMAIN sections : sections[u].group = saved[u].group /\ sections[u].own = saved[u].own

SectionsSound == TypeOK /\ MembershipIsDurable

\* While the plugin is loaded, whoever is above the default group is logged in
\* to the game, was given a group or a level of his section's own, or is being
\* kicked: a logout leaves nothing.
OutranksForAReason ==
  loaded => \A p \in DOMAIN players :
    players[p].access > Groups[1].access =>
      \/ players[p].admin # "" \/ players[p].group > 1
      \/ players[p].access \in OwnLevels \/ p \in kicks \cup KickExempt
=============================================================================
