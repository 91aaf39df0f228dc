---------------------------- MODULE Moderation ----------------------------
(***************************************************************************)
(* Bans and exemptions, and the players of a server they are applied to:   *)
(* the two databases, the checks made when a player is listed or more is   *)
(* learnt of it, and the commands of administrators and moderators.        *)
(*                                                                         *)
(* Who somebody is, and whom an entry names, are sets of identifiers:      *)
(* steam ids, addresses (a range of them is a set), hardware ids, host     *)
(* names. Names of players are left out, which servers do not ban by       *)
(* unless they are configured to.                                          *)
(***************************************************************************)
EXTENDS Naturals, Sequences, FiniteSets, EntryDatabase

CONSTANTS
  Clients,
  SteamIDs, Addresses, HardwareIDs, HostNames,   \* identifiers
  Identity,           \* the identifiers of each client
  Enforced,           \* identifiers a server bans by (m_localSteamBan, ...)
  RconBan,            \* m_rconBan
  AddBanNames, AddBanTypes, AddExemptionNames,  \* sets of identifiers administrators
                      \* ban, from what, and sets of those that they exempt
  MaxEntries, MaxNow,   \* bounds: entries of both databases together, and the clock
  CrashUpgrading      \* whether the bot may stop while it upgrades a file

Identifiers == SteamIDs \cup Addresses \cup HardwareIDs \cup HostNames
Early       == SteamIDs \cup Addresses      \* told together, when a player enters
Permanent   == 0
LocalBan    == Enforced \ HardwareIDs # {}   \* m_localBan: hardware ids do not count

ASSUME ModerationAssumption ==
  /\ Identity \in [Clients -> SUBSET Identifiers]
  /\ Enforced \subseteq Identifiers
  /\ {RconBan, CrashUpgrading} \subseteq BOOLEAN
  /\ AddBanNames \subseteq SUBSET Identifiers
  /\ AddExemptionNames \subseteq (SUBSET Early) \ {{}}
  /\ AddBanTypes \subseteq {"game", "chat"}
  /\ MaxEntries \in Nat \ {0} /\ MaxNow \in Nat \ {0}

\* what is told of a player later is of other kinds
ASSUME KindsAssumption == Early \cap (HardwareIDs \cup HostNames) = {}

\* until: timestamp + length, or Permanent
Ban       == [names : SUBSET Identifiers, types : (SUBSET {"game", "chat"}) \ {{}},
              until : 0 .. MaxNow]
Exemption == [names : SUBSET Early, types : (SUBSET {"ban", "kick"}) \ {{}},
              until : 0 .. MaxNow, byAddress : BOOLEAN]   \* FLAG_USE_IP

VARIABLES
  bans,        \* the ban database
  exemptions,  \* the exemption database
  players,     \* the listed players: [client -> [known, exempt, bansSeen, exemptionsSeen]]
  kicked,      \* clients a kick was sent for, since they are listed
  muted,       \* clients a mute was sent for, since they are listed
  now          \* the clock

vars == <<bans, exemptions, players, kicked, muted, now>>

\* bansSeen, exemptionsSeen: how many entries there were at the last check; no
\* step reads them
Player == [known : SUBSET Identifiers, exempt : SUBSET {"ban", "kick"},
           bansSeen : 0 .. MaxEntries, exemptionsSeen : 0 .. MaxEntries]

TypeOK ==
  /\ bans \in Database(Ban) /\ exemptions \in Database(Exemption)
  /\ DOMAIN players \subseteq Clients /\ players \in [DOMAIN players -> Player]
  /\ kicked \subseteq DOMAIN players /\ muted \subseteq DOMAIN players
  /\ now \in 1 .. MaxNow

Up == bans.phase = "up" /\ exemptions.phase = "up"

----------------------------------------------------------------------------
(***************************************************************************)
(* exemption_check and banCheck, as functions of what handlers change      *)
(***************************************************************************)
State == [bans |-> bans, exemptions |-> exemptions, players |-> players,
          kicked |-> kicked, muted |-> muted]

Become(s) == /\ bans' = s.bans /\ exemptions' = s.exemptions /\ players' = s.players
             /\ kicked' = s.kicked /\ muted' = s.muted

Over(e)     == e.data.until # Permanent /\ e.data.until < now
Names(e, p) == e.data.names \cap p.known # {}

\* an exemption that runs for a time is only applied when that time is over,
\* and deactivated before
Effective(e) == e.active /\ (e.data.until = Permanent \/ Over(e))

ExemptionCheck(s, c) ==
  LET es   == s.exemptions.entries
      mine == {i \in DOMAIN es : Effective(es[i]) /\ Names(es[i], s.players[c])}
  IN  [s EXCEPT
        !.players[c].exempt = @ \cup UNION {es[i].data.types : i \in mine},
        !.players[c].exemptionsSeen = Len(es),
        !.exemptions = Deactivated(@, {i \in DOMAIN es : es[i].active /\ ~Effective(es[i])})]

Applies(e, p) ==
  e.active /\ ~Over(e) /\ e.data.names \cap p.known \cap Enforced # {}

Banned(s, c, type) ==
  \E i \in DOMAIN s.bans.entries :
    Applies(s.bans.entries[i], s.players[c]) /\ type \in s.bans.entries[i].data.types

\* mutant: who is exempt is checked as well
BanCheckOfAll(s, cs) ==
  LET es    == s.bans.entries
      kicks == {c \in cs : Banned(s, c, "game")}
  IN  [s EXCEPT
        !.bans    = Deactivated(@, {i \in DOMAIN es : es[i].active /\ Over(es[i])}),
        !.players = [c \in DOMAIN @ |-> IF c \in cs THEN [@[c] EXCEPT !.bansSeen = Len(es)]
                                                    ELSE @[c]],
        !.kicked  = @ \cup kicks,
        !.muted   = @ \cup {c \in cs \ kicks : Banned(s, c, "chat")}]

\* mutant: a permanent ban has a length of zero, and is over at once
BanCheckEndsPermanent(s, cs) ==
  LET es    == s.bans.entries
      kicks == {c \in cs : Banned(s, c, "game") /\ s.players[c].exempt = {}}
  IN  [s EXCEPT
        !.bans    = Deactivated(@, {i \in DOMAIN es : es[i].active /\ es[i].data.until < now}),
        !.kicked  = @ \cup kicks]

\* the bans whose time is over are deactivated on the way. Players with an
\* exemption of either type are skipped, and who is kicked is not muted.
BanCheck(s, cs) ==
  LET es      == s.bans.entries
      checked == {c \in cs : s.players[c].exempt = {}}
      kicks   == {c \in checked : Banned(s, c, "game")}
  IN  [s EXCEPT
        !.bans    = IF checked = {} THEN @
                    ELSE Deactivated(@, {i \in DOMAIN es : es[i].active /\ Over(es[i])}),
        !.players = [c \in DOMAIN @ |-> IF c \in cs THEN [@[c] EXCEPT !.bansSeen = Len(es)]
                                                    ELSE @[c]],
        !.kicked  = @ \cup kicks,
        !.muted   = @ \cup {c \in checked \ kicks : Banned(s, c, "chat")}]

----------------------------------------------------------------------------
(***************************************************************************)
(* Players                                                                 *)
(***************************************************************************)
Unknown == [known |-> {}, exempt |-> {}, bansSeen |-> 0, exemptionsSeen |-> 0]

Knowing(c, names) ==
  LET p == IF c \in DOMAIN players THEN players[c] ELSE Unknown
  IN  [State EXCEPT !.players = [o \in DOMAIN @ \cup {c} |->
         IF o = c THEN [p EXCEPT !.known = @ \cup names] ELSE @[o]]]

\* getPlayerOrAdd of a new player: from a line that only names it, from PLAYER
\* Enter, or from a row of the client list
Listed(c) ==
  /\ Up /\ c \notin DOMAIN players
  /\ \E names \in {{}, Identity[c] \cap Early, Identity[c] \ HostNames} :
       Become(BanCheck(ExemptionCheck(Knowing(c, names), c), {c}))
  /\ UNCHANGED now

\* getPlayerOrAdd of a listed player, with something that was not known
Completed(c) ==
  /\ Up /\ ~(Identity[c] \ HostNames \subseteq players[c].known)
  /\ Become(BanCheck(ExemptionCheck(Knowing(c, Identity[c] \ HostNames), c), {c}))
  /\ UNCHANGED now

\* mutant: what is learnt is not checked
ToldUnchecked(c, names) ==
  /\ Up /\ ~(names \subseteq players[c].known)
  /\ Become(Knowing(c, names))
  /\ UNCHANGED now

\* a hardware id from the log, or the end of a look-up of the address: only bans
\* are checked
Told(c, names) ==
  /\ Up /\ ~(names \subseteq players[c].known)
  /\ names \cap HostNames # {} => players[c].known \cap Addresses # {}
  /\ Become(BanCheck(Knowing(c, names), {c}))
  /\ UNCHANGED now

Leaves(c) ==
  /\ players' = [o \in DOMAIN players \ {c} |-> players[o]]
  /\ kicked' = kicked \ {c} /\ muted' = muted \ {c}
  /\ UNCHANGED <<bans, exemptions, now>>

\* the connection is lost, and what was sent may be too
Disconnected ==
  /\ players' = << >> /\ kicked' = {} /\ muted' = {}
  /\ UNCHANGED <<bans, exemptions, now>>

----------------------------------------------------------------------------
(***************************************************************************)
(* Commands                                                                *)
(***************************************************************************)
CanAdd       == Up /\ Len(bans.entries) + Len(exemptions.entries) < MaxEntries
CanAddForNow == CanAdd /\ now < MaxNow     \* while the ban can still run out

WithBan(s, names, type, until) ==
  [s EXCEPT !.bans = Added(@, [names |-> names, types |-> {type}, until |-> until])]

\* the ban names what is known of the player; its host name is stored with it,
\* but not banned by
WithBanOf(s, c, type, until) == WithBan(s, s.players[c].known \ HostNames, type, until)

BanPlayer(s, c, until) ==
  IF "ban" \in s.players[c].exempt THEN s
  ELSE LET kick == (RconBan /\ until = Permanent) \/ "kick" \notin s.players[c].exempt
       IN  [IF LocalBan THEN WithBanOf(s, c, "game", until) ELSE s
              EXCEPT !.kicked = IF kick THEN @ \cup {c} ELSE @]

\* of IRC and of the game
KickBan(c) ==
  /\ CanAdd
  /\ Become(BanCheck(BanPlayer(State, c, Permanent), DOMAIN players))
  /\ UNCHANGED now

TempBan(c) ==
  /\ CanAddForNow
  /\ Become(BanPlayer(State, c, now))
  /\ UNCHANGED now

AddBan(names, type, until) ==
  /\ CanAdd /\ (until # Permanent => CanAddForNow)
  /\ Become(BanCheck(WithBan(State, names, type, until), DOMAIN players))
  /\ UNCHANGED now

TempChatBanIRC(c) ==
  /\ CanAddForNow
  /\ Become(WithBanOf(State, c, "chat", now))
  /\ UNCHANGED now

TempChatBanGame(c) ==
  /\ CanAddForNow
  /\ Become([WithBanOf(State, c, "chat", now) EXCEPT !.muted = @ \cup {c}])
  /\ UNCHANGED now

UnBan(i) ==
  /\ Up /\ bans.entries[i].active
  /\ bans' = Deactivated(bans, {i})
  /\ UNCHANGED <<exemptions, players, kicked, muted, now>>

\* BanExempt, KickExempt: flagged to use the address if there is no steam id,
\* but both are stored; the player's own flags are left as they are
ExemptPlayer(c, types) ==
  LET names == players[c].known \cap Early
  IN  /\ CanAdd
      /\ exemptions' = Added(exemptions,
           [names |-> names, types |-> types, until |-> Permanent,
            byAddress |-> names \cap SteamIDs = {}])
      /\ UNCHANGED <<bans, players, kicked, muted, now>>

\* a duration cannot be given: its value is taken for a key that is unknown
AddExemption(names, types) ==
  /\ CanAdd
  /\ exemptions' = Added(exemptions,
       [names |-> names, types |-> types, until |-> Permanent,
        byAddress |-> names \cap Addresses # {}])
  /\ UNCHANGED <<bans, players, kicked, muted, now>>

UnExempt(i) ==
  /\ Up /\ exemptions.entries[i].active
  /\ exemptions' = Deactivated(exemptions, {i})
  /\ UNCHANGED <<bans, players, kicked, muted, now>>

----------------------------------------------------------------------------
(***************************************************************************)
(* The clock, and the bot itself                                           *)
(***************************************************************************)
Tick == now < MaxNow /\ now' = now + 1 /\ UNCHANGED <<bans, exemptions, players, kicked, muted>>

Starts ==
  /\ \/ bans.phase = "down" /\ bans' = Initialized(bans) /\ UNCHANGED exemptions
     \/ bans.phase = "upgrading" /\ bans' = Rewritten(bans) /\ UNCHANGED exemptions
     \/ bans.phase = "up" /\ exemptions.phase = "down"
          /\ exemptions' = Initialized(exemptions) /\ UNCHANGED bans
  /\ UNCHANGED <<players, kicked, muted, now>>

Stops ==
  /\ bans.phase = "up" \/ (CrashUpgrading /\ bans.phase = "upgrading")
  /\ bans' = Stopped(bans) /\ exemptions' = Stopped(exemptions)
  /\ players' = << >> /\ kicked' = {} /\ muted' = {}
  /\ UNCHANGED now

\* the files hold what an earlier run left
Init ==
  /\ \E version \in {"current", "old", "unsupported"}, names \in AddBanNames :
       bans \in {Closed(version, <<>>),
                 Closed(version, <<[active |-> TRUE,
                   data |-> [names |-> names, types |-> {"game"}, until |-> Permanent]]>>)}
  /\ exemptions = Closed("current", <<>>)
  /\ players = << >> /\ kicked = {} /\ muted = {}
  /\ now = 1

Next ==
  \/ \E c \in Clients : Listed(c)
  \/ \E c \in DOMAIN players :
       \/ Completed(c) \/ Leaves(c)
       \/ \E names \in {Identity[c] \cap HardwareIDs, Identity[c] \cap HostNames} : Told(c, names)
       \/ KickBan(c) \/ TempBan(c) \/ TempChatBanIRC(c) \/ TempChatBanGame(c)
       \/ \E types \in {{"ban"}, {"ban", "kick"}} : ExemptPlayer(c, types)
  \/ \E names \in AddBanNames, type \in AddBanTypes, until \in {Permanent, now} :
       AddBan(names, type, until)
  \/ \E names \in AddExemptionNames, types \in (SUBSET {"ban", "kick"}) \ {{}} :
       AddExemption(names, types)
  \/ \E i \in DOMAIN bans.entries : UnBan(i)
  \/ \E i \in DOMAIN exemptions.entries : UnExempt(i)
  \/ Disconnected \/ Tick \/ Starts \/ Stops

Spec == Init /\ [][Next]_vars

----------------------------------------------------------------------------
(***************************************************************************)
(* Properties                                                              *)
(***************************************************************************)

\* Bans are kept by the ban database: not lost, altered or active again,
\* whatever is checked, deactivated or restarted in between.
BanList        == INSTANCE DurableList WITH entries <- Promised(bans), Data <- Ban
BansAreDurable == BanList!Spec

\* The same, of the exemption database.
ExemptionList        == INSTANCE DurableList WITH entries <- Promised(exemptions), Data <- Exemption
ExemptionsAreDurable == ExemptionList!Spec

\* A ban that was in the database when a player was last checked, and names
\* what is known of the player now, has been acted on.
BansAreEnforced ==
  \A c \in DOMAIN players : players[c].exempt = {} =>
    \A i \in 1 .. players[c].bansSeen :
      LET e == bans.entries[i]
      IN  Applies(e, players[c]) =>
            /\ "game" \in e.data.types => c \in kicked
            /\ "chat" \in e.data.types => c \in kicked \cup muted

\* Who was exempt from kicks when it was last looked up is not kicked, unless
\* the exemption has been lifted since.
ExemptAreSpared ==
  [][\A c \in (kicked' \ kicked) \cap DOMAIN players' :
       \A i \in 1 .. players'[c].exemptionsSeen :
         LET e == exemptions'.entries[i]
         IN  ~(e.active /\ "kick" \in e.data.types /\ Names(e, players'[c]))]_vars

\* A ban runs its term, unless an administrator lifts it.
BansRunTheirTerm ==
  [][\A i \in DOMAIN bans.entries \cap DOMAIN bans'.entries :
       bans.entries[i].active /\ ~bans'.entries[i].active
         => Over(bans.entries[i]) \/ UnBan(i)]_vars

(***************************************************************************)
(* What the documentation of the code says, and the code does not do       *)
(***************************************************************************)

\* "Exempts a player from bans using their SteamID, or their IP address if they
\* have none": nobody is exempt by an address unless the entry is flagged so
ExemptByWhatIsSaid ==
  \A c \in DOMAIN players : players[c].exempt # {} =>
    \E i \in DOMAIN exemptions.entries :
      LET d == exemptions.entries[i].data
      IN  d.names \cap players[c].known \cap (SteamIDs \cup IF d.byAddress THEN Addresses ELSE {})
            # {}
============================================================================
