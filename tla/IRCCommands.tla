---------------------------- MODULE IRCCommands ----------------------------
(***************************************************************************)
(* The commands given in IRC channels.  A channel has a type, which says   *)
(* what servers it is attached to; a command acts on all of those, on the  *)
(* player it finds on each, and answers in the channel or to the user.     *)
(***************************************************************************)
EXTENDS GameServers

CONSTANTS
  Users,          \* users
  UserAccess,     \* their access in the channels
  Settings,       \* levels the configuration gives commands, in the order they are read, those of
                  \* all networks first: [cmd, in (a channel, a type, or "any"), level]
  Buildings,      \* buildings of a server, in order: [name, group, strip]
  Bans,           \* entries of the ban database: [ip, hwid, rdns, steam, name, banner, active]
  Exemptions      \* of the exemption database: [ip, steam, setter, active]

ASSUME IRCCommandsAssumption ==
  UserAccess \in [Users -> Nat]

\* setCommandAccessLevels: levels for channels and types are added at the end
\* of lists that are searched from the front, so the first one counts; a plain
\* level overwrites, so the last one counts
SetFor(cmd, where) ==
  LET Fits(e) == e.cmd = cmd /\ e.in = where
      i == IF where = "any" THEN SelectLastInSeq(Settings, Fits) ELSE SelectInSeq(Settings, Fits)
  IN  IF i = 0 THEN {} ELSE {Settings[i].level}

\* OnChat: the channel, its type, and the command are looked up in turn
AccessLevel(cmd, default, c) ==
  LET first == SelectInSeq(<<c, ToString(ChannelType[c]), "any">>, LAMBDA w : SetFor(cmd, w) # {})
  IN  IF first = 0 THEN default ELSE CHOOSE n \in SetFor(cmd, <<c, ToString(ChannelType[c]), "any">>[first]) : TRUE

\* mutant: every server is attached to every channel
AttachedAll(c) == Servers

At(c) == {s \in Servers : IsPublic(s, c) \/ IsAdmin(s, c)}
Attached(c) == SelectSeq(ServerList, LAMBDA s : s \in At(c))

Found(c, t) == {s \in At(c) : PlayerByPartName(s, t) # NoOne}

\* what is sent where: to every server, or about who is found on each
ToEach(c, Do(_)) == UNION {Do(s) : s \in At(c)}
ToFound(c, t, Do(_, _)) == UNION {Do(s, PlayerByPartName(s, t)) : s \in Found(c, t)}

\* answers: [what, about whom]
Say1(what) == {<<what, NoOne>>}
Unattached(c) == IF At(c) = {} THEN Say1("not attached") ELSE {}
Missing(c, t) == IF At(c) # Found(c, t) THEN Say1("not found") ELSE {}
About(what, ps) == {<<what, p>> : p \in ps}
AboutFound(c, t, what) == About(what, {PlayerByPartName(s, t) : s \in Found(c, t)})

\* OnChat: a command is looked up, and triggered by whoever may
IRC(u, c, cmd, default, text, sent, told) ==
  LET needed == AccessLevel(cmd, default, c)
  IN  last' = IF needed < 0 THEN Report(u, UserAccess[u], c, "", "", {}, Say1("disabled"))
              ELSE IF UserAccess[u] < needed THEN Report(u, UserAccess[u], c, "", "", {}, Say1("denied"))
              ELSE Report(u, UserAccess[u], c, cmd, text, sent, told)

Allowed(u, c, cmd, default) == AccessLevel(cmd, default, c) \in 0 .. UserAccess[u]

Unchanged == UNCHANGED <<players, connected, access, warns, phasing>>

----------------------------------------------------------------------------
(***************************************************************************)
(* Messages                                                                *)
(***************************************************************************)

MsgIRCCommand(u, c) ==
  IRC(u, c, "msg", 0, "", ToEach(c, Say), Unattached(c)) /\ Unchanged

PMsgIRCCommand(u, c, t) ==
  IRC(u, c, "pmsg", 1, t, ToFound(c, t, LAMBDA s, p : To(s, "privatesay", p)), Missing(c, t)) /\ Unchanged

\* hmsg and amsg answer for the last server alone
LastUnsent(c, sent(_)) ==
  IF At(c) = {} \/ sent(Attached(c)[Len(Attached(c))]) = {} THEN Say1("not attached") ELSE {}

HostMsgIRCCommand(u, c) ==
  IRC(u, c, "hmsg", 4, "", ToEach(c, Say), LastUnsent(c, Say)) /\ Unchanged

AdminMsgIRCCommand(u, c) ==
  LET Tell(s) == To(s, "amsg", NoOne)
  IN  IRC(u, c, "amsg", 4, "", ToEach(c, Tell), LastUnsent(c, Tell)) /\ Unchanged

PAdminMsgIRCCommand(u, c, t) ==
  IRC(u, c, "pamsg", 4, t, ToFound(c, t, LAMBDA s, p : To(s, "pamsg", p)), Missing(c, t)) /\ Unchanged

----------------------------------------------------------------------------
(***************************************************************************)
(* What is shown                                                           *)
(***************************************************************************)

Listed(c, Of(_)) == UNION {Of(s) : s \in At(c)}

PlayersIRCCommand(u, c) ==
  IRC(u, c, "players", 0, "", {}, Unattached(c) \cup Listed(c, LAMBDA s :
    IF Humans(s) = {} THEN Say1("nobody") ELSE About("named", Range(players[s])))) /\ Unchanged

PlayerTableIRCCommand(u, c) ==
  IRC(u, c, "pt", 0, "", {}, Unattached(c) \cup Listed(c, LAMBDA s :
    IF Humans(s) = {} THEN Say1("nobody")
    ELSE About("named", Humans(s)) \cup IF IsAdmin(s, c) THEN About("address", Humans(s)) ELSE {}))
  /\ Unchanged

\* an empty text lists everybody
PlayerInfoIRCCommand(u, c, t) ==
  LET ps == Listed(c, LAMBDA s : IF t = "" THEN Range(players[s]) ELSE Matches(s, t))
  IN  IRC(u, c, "playerinfo", 0, t, {},
          IF ps = {} THEN Say1("not found")
          ELSE About("named", ps) \cup IF UserAccess[u] > 1 THEN About("address", ps) ELSE {})
      /\ Unchanged

\* the lines of a group are pushed to the front and popped before they are read
Shown(bs) == IF bs = <<>> THEN {} ELSE {<<"building", b.name>> : b \in Range(Front(bs))}
                                       \cup Say1("undefined")

\* of the air strips only the first counts
OneStrip(bs) ==
  LET i == SelectInSeq(bs, LAMBDA b : b.strip)
  IN  IF i = 0 THEN bs ELSE SubSeq(bs, 1, i) \o SelectSeq(SubSeq(bs, i + 1, Len(bs)), LAMBDA b : ~b.strip)

BuildingInfoIRCCommand(u, c) ==
  IRC(u, c, "buildinginfo", 0, "", {}, Unattached(c) \cup Listed(c, LAMBDA s :
    UNION {Shown(SelectSeq(OneStrip(Buildings[s]), LAMBDA b : b.group = g)) :
             g \in {b.group : b \in Range(Buildings[s])}})) /\ Unchanged

\* mutators, rotation, map, gameinfo and rules: one answer of each server
AnswerOfEach(u, c, cmd) ==
  IRC(u, c, cmd, 0, "", {}, Unattached(c) \cup About(cmd, At(c))) /\ Unchanged

MutatorsIRCCommand(u, c) == AnswerOfEach(u, c, "mutators")
RotationIRCCommand(u, c) == AnswerOfEach(u, c, "rotation")
MapIRCCommand(u, c)      == AnswerOfEach(u, c, "map")
GameInfoIRCCommand(u, c) == AnswerOfEach(u, c, "gameinfo")
RulesIRCCommand(u, c)    == AnswerOfEach(u, c, "rules")

\* of all whose names match, or how many of a server's players use Steam
SteamIRCCommand(u, c, t) ==
  LET ps == Listed(c, LAMBDA s : Matches(s, t))
  IN  IRC(u, c, "steam", 1, t, {},
          IF t = "" THEN About("steam", At(c)) ELSE IF ps = {} THEN Say1("not found") ELSE About("named", ps))
      /\ Unchanged

KillDeathRatioIRCCommand(u, c, t) ==
  LET ps == Listed(c, LAMBDA s : Matches(s, t))
  IN  IRC(u, c, "kdr", 0, t, {}, IF ps = {} THEN Say1("not found") ELSE About("named", ps)) /\ Unchanged

ShowModsIRCCommand(u, c) ==
  IRC(u, c, "showmods", 0, "", ToEach(c, Say), Unattached(c)) /\ Unchanged

ModsIRCCommand(u, c) ==
  IRC(u, c, "mods", 0, "", {}, Unattached(c) \cup Listed(c, LAMBDA s :
    IF Staff(s) = {} THEN Say1("no staff") ELSE About("staff", Staff(s)))) /\ Unchanged

ShowRulesIRCCommand(u, c) ==
  IRC(u, c, "showrules", 0, "", ToEach(c, Say), Unattached(c)) /\ Unchanged

\* bansearch and exemptionsearch: by one field, or by any, which finds everything
Search(entries, field, value) ==
  {i \in DOMAIN entries : field \in {"all", "any"} \/ entries[i][field] = value}

SearchIRC(u, c, cmd, entries, field, value) ==
  IRC(u, c, cmd, 2, field, {}, IF entries = <<>> THEN Say1("empty")
        ELSE IF Search(entries, field, value) = {} THEN Say1("no matches")
        ELSE {<<"entry", ToString(i)>> : i \in Search(entries, field, value)}) /\ Unchanged

BanSearchIRCCommand(u, c, field, value) == SearchIRC(u, c, "bansearch", Bans, field, value)
ExemptionSearchIRCCommand(u, c, field, value) == SearchIRC(u, c, "exemptionsearch", Exemptions, field, value)

----------------------------------------------------------------------------
(***************************************************************************)
(* Players who are found by a part of their names                          *)
(***************************************************************************)

\* mute and unmute, mineban: they say it is done
OnFound(u, c, cmd, default, t, verb) ==
  IRC(u, c, cmd, default, t, ToFound(c, t, LAMBDA s, p : To(s, verb, p)),
      Unattached(c) \cup Missing(c, t) \cup AboutFound(c, t, "done")) /\ Unchanged

MuteIRCCommand(u, c, t)    == OnFound(u, c, "mute", 2, t, "textmute")
UnMuteIRCCommand(u, c, t)  == OnFound(u, c, "unmute", 2, t, "textunmute")
MineBanIRCCommand(u, c, t) == OnFound(u, c, "mineban", 2, t, "mineban")

KillIRCCommand(u, c, t) ==
  IRC(u, c, "kill", 2, t, ToFound(c, t, LAMBDA s, p : Fair(s, "kill", p)),
      Unattached(c) \cup Missing(c, t)) /\ Unchanged

\* disarm, disarmc4 and disarmb: they say if the order could be sent
OnFoundIfFair(u, c, cmd, t) ==
  LET sent == ToFound(c, t, LAMBDA s, p : Fair(s, cmd, p))
  IN  IRC(u, c, cmd, 2, t, sent,
          Unattached(c) \cup Missing(c, t) \cup
          {<<IF \E o \in sent : o[1] = s THEN "done" ELSE "unsupported", PlayerByPartName(s, t)>> :
             s \in Found(c, t)}) /\ Unchanged

DisarmIRCCommand(u, c, t)       == OnFoundIfFair(u, c, "disarm", t)
DisarmC4IRCCommand(u, c, t)     == OnFoundIfFair(u, c, "disarmc4", t)
DisarmBeaconIRCCommand(u, c, t) == OnFoundIfFair(u, c, "disarmb", t)

\* kick, ban, nmode and smode: they say how many were found
OnFoundCounted(u, c, cmd, default, t, sent) ==
  IRC(u, c, cmd, default, t, sent, Unattached(c) \cup AboutFound(c, t, "counted")) /\ Unchanged

KickIRCCommand(u, c, t)    == OnFoundCounted(u, c, "kick", 2, t, ToFound(c, t, Kick))
KickBanIRCCommand(u, c, t) == OnFoundCounted(u, c, "ban", 4, t, ToFound(c, t, LAMBDA s, p : Ban(s, p, 0)))
NModeIRCCommand(u, c, t) ==
  OnFoundCounted(u, c, "nmode", 2, t, ToFound(c, t, LAMBDA s, p : To(s, "nmode", p)))
SModeIRCCommand(u, c, t) ==
  OnFoundCounted(u, c, "smode", 2, t, ToFound(c, t, LAMBDA s, p : To(s, "smode", p)))

\* findPlayerByPartName: on the first attached server that has one
FirstFound(c, t) ==
  LET i == SelectInSeq(ServerList, LAMBDA s : s \in Found(c, t))
  IN  IF i = 0 THEN <<>> ELSE <<ServerList[i]>>

\* tban and tchatban: <player>, or <duration> <player>; the first word is a
\* name if it finds somebody, and a duration otherwise
TimedOnFirst(u, c, cmd, t1, t2, Do(_, _, _)) ==
  LET timed == FirstFound(c, t1) = <<>> /\ t2 # "" /\ Span[t1] > 0
      t     == IF timed THEN t2 ELSE t1
      much  == IF ~timed THEN DefaultTBan ELSE IF Span[t1] < MaxTBan THEN Span[t1] ELSE MaxTBan
      at    == FirstFound(c, t)
  IN  IRC(u, c, cmd, 3, t,
          IF at = <<>> THEN {} ELSE Do(at[1], PlayerByPartName(at[1], t), much),
          IF At(c) = {} THEN Unattached(c) ELSE IF at = <<>> THEN Say1("not found") ELSE Say1("done"))
      /\ Unchanged

TempBanIRCCommand(u, c, t1, t2) == TimedOnFirst(u, c, "tban", t1, t2, Ban)
\* the entry alone: nothing is sent
TempChatBanIRCCommand(u, c, t1, t2) ==
  TimedOnFirst(u, c, "tchatban", t1, t2, LAMBDA s, p, much : {<<s, "chatban", p, much>>})

RefundIRCCommand(u, c, t) ==
  LET sent == ToFound(c, t, LAMBDA s, p : Fair(s, "givecredits", p))
  IN  IRC(u, c, "refund", 3, t, sent \cup UNION {To(o[1], "privatesay", o[3]) : o \in sent},
          IF Found(c, t) = {} THEN Say1("not found")
          ELSE {<<IF \E o \in sent : o[1] = s THEN "done" ELSE "unsupported", PlayerByPartName(s, t)>> :
                  s \in Found(c, t)}) /\ Unchanged

\* team and team2 are about everybody whose name has the text in it
OnMatches(u, c, cmd, t) ==
  LET sent == ToEach(c, LAMBDA s : UNION {To(s, cmd, p) : p \in Matches(s, t)})
  IN  IRC(u, c, cmd, 3, t, sent, IF Listed(c, LAMBDA s : Matches(s, t)) = {} THEN Say1("not found") ELSE {})
      /\ Unchanged

TeamChangeIRCCommand(u, c, t)  == OnMatches(u, c, "team", t)
TeamChange2IRCCommand(u, c, t) == OnMatches(u, c, "team2", t)

----------------------------------------------------------------------------
(***************************************************************************)
(* Servers                                                                 *)
(***************************************************************************)

\* the first map of the rotation that has the text in its name
MapNamed(s, t) ==
  LET i == SelectInSeq(Rotation[s], LAMBDA m : m \in PartOf[t]) IN IF i = 0 THEN NoOne ELSE Rotation[s][i]

\* a last server without such a map is answered as if there were no server
SetMapIRCCommand(u, c, t) ==
  IRC(u, c, "setmap", 4, t, ToEach(c, LAMBDA s :
        IF MapNamed(s, t) = NoOne THEN {} ELSE To(s, "changemap", MapNamed(s, t))),
      Listed(c, LAMBDA s : IF MapNamed(s, t) = NoOne THEN Say1("not in rotation")
                           ELSE IF connected[s] THEN {} ELSE Say1("transmission error"))
      \cup IF At(c) = {} \/ MapNamed(Attached(c)[Len(Attached(c))], t) = NoOne
             THEN Say1("not attached") ELSE {}) /\ Unchanged

\* reconnect, which may fail
ReconnectIRCCommand(u, c) ==
  /\ Allowed(u, c, "reconnect", 3)
  /\ \E up \in SUBSET At(c) :
       /\ connected' = [s \in Servers |-> IF s \in At(c) THEN s \in up ELSE connected[s]]
       /\ IRC(u, c, "reconnect", 3, "", {}, Unattached(c) \cup About("connected", up)
                \cup About("not connected", At(c) \ up))
  /\ players' = [s \in Servers |-> IF s \in At(c) THEN <<>> ELSE players[s]]
  /\ Gone({p \in Persons : Who[p].server \in At(c)})
  /\ UNCHANGED phasing

AddBotsIRCCommand(u, c, team) ==
  IRC(u, c, "addbots", 2, team, ToEach(c, LAMBDA s : To(s, AddBotsVerb(team), NoOne) \cup Say(s)),
      Unattached(c)) /\ Unchanged

KillBotsIRCCommand(u, c) ==
  IRC(u, c, "killbots", 2, "", ToEach(c, LAMBDA s : To(s, "killbots", NoOne) \cup Say(s)), Unattached(c))
  /\ Unchanged

PhaseBotsIRCCommand(u, c, asked) ==
  /\ Allowed(u, c, "phasebots", 2)
  /\ phasing' = [s \in Servers |-> IF s \in At(c) THEN Phased(s, asked) ELSE phasing[s]]
  /\ IRC(u, c, "phasebots", 2, asked, ToEach(c, Say), Unattached(c))
  /\ UNCHANGED <<players, connected, access, warns>>

RCONIRCCommand(u, c) ==
  LET sent == ToEach(c, LAMBDA s : To(s, "raw", NoOne))
  IN  IRC(u, c, "rcon", 5, "", sent, IF sent = {} THEN Say1("not attached") ELSE Say1("counted")) /\ Unchanged

CancelVoteIRCCommand(u, c, team) ==
  IRC(u, c, "cancelvote", 2, team, ToEach(c, LAMBDA s : CancelVote(s, team)), Unattached(c)) /\ Unchanged

----------------------------------------------------------------------------
(***************************************************************************)
(* Warnings                                                                *)
(***************************************************************************)

WarnIRCCommand(u, c, t) ==
  /\ Allowed(u, c, "warn", 2)
  /\ IRC(u, c, "warn", 2, t, ToFound(c, t, Warned), Unattached(c) \cup AboutFound(c, t, "warned"))
  /\ warns' = [p \in Persons |->
       IF \E s \in Found(c, t) : PlayerByPartName(s, t) = p THEN WarnsAfter(p) ELSE warns[p]]
  /\ UNCHANGED <<players, connected, access, phasing>>

PardonIRCCommand(u, c, t) ==
  /\ Allowed(u, c, "pardon", 2)
  /\ IRC(u, c, "pardon", 2, t, ToFound(c, t, LAMBDA s, p : To(s, "privatesay", p)),
         Unattached(c) \cup AboutFound(c, t, "pardoned"))
  /\ warns' = [p \in Persons |->
       IF \E s \in Found(c, t) : PlayerByPartName(s, t) = p THEN 0 ELSE warns[p]]
  /\ UNCHANGED <<players, connected, access, phasing>>

IRCNext ==
  \E u \in Users, c \in Channels :
    \/ MsgIRCCommand(u, c) \/ HostMsgIRCCommand(u, c) \/ AdminMsgIRCCommand(u, c)
    \/ PlayersIRCCommand(u, c) \/ PlayerTableIRCCommand(u, c) \/ BuildingInfoIRCCommand(u, c)
    \/ MutatorsIRCCommand(u, c) \/ RotationIRCCommand(u, c) \/ MapIRCCommand(u, c)
    \/ GameInfoIRCCommand(u, c) \/ RulesIRCCommand(u, c) \/ ShowModsIRCCommand(u, c)
    \/ ModsIRCCommand(u, c) \/ ShowRulesIRCCommand(u, c) \/ ReconnectIRCCommand(u, c)
    \/ KillBotsIRCCommand(u, c) \/ RCONIRCCommand(u, c)
    \/ \E t \in Texts \cup {""} : PlayerInfoIRCCommand(u, c, t) \/ SteamIRCCommand(u, c, t)
    \/ \E t \in Texts :
         \/ PMsgIRCCommand(u, c, t) \/ PAdminMsgIRCCommand(u, c, t) \/ KillDeathRatioIRCCommand(u, c, t)
         \/ MuteIRCCommand(u, c, t) \/ UnMuteIRCCommand(u, c, t) \/ MineBanIRCCommand(u, c, t)
         \/ KillIRCCommand(u, c, t) \/ DisarmIRCCommand(u, c, t) \/ DisarmC4IRCCommand(u, c, t)
         \/ DisarmBeaconIRCCommand(u, c, t) \/ KickIRCCommand(u, c, t) \/ KickBanIRCCommand(u, c, t)
         \/ NModeIRCCommand(u, c, t) \/ SModeIRCCommand(u, c, t) \/ RefundIRCCommand(u, c, t)
         \/ TeamChangeIRCCommand(u, c, t) \/ TeamChange2IRCCommand(u, c, t) \/ SetMapIRCCommand(u, c, t)
         \/ WarnIRCCommand(u, c, t) \/ PardonIRCCommand(u, c, t)
         \/ \E t2 \in Rest : TempBanIRCCommand(u, c, t, t2) \/ TempChatBanIRCCommand(u, c, t, t2)
    \/ \E team \in {"", "gdi", "nod"} : AddBotsIRCCommand(u, c, team)
    \/ \E asked \in {"", "on", "off"} : PhaseBotsIRCCommand(u, c, asked)
    \/ \E team \in {"all", "public", "gdi", "nod", "blackhand"} : CancelVoteIRCCommand(u, c, team)
    \/ \E e \in Range(Bans) : \E f \in DOMAIN e \cup {"all", "any"} :
         BanSearchIRCCommand(u, c, f, IF f \in DOMAIN e THEN e[f] ELSE "")
    \/ \E e \in Range(Exemptions) : \E f \in DOMAIN e \cup {"all", "any"} :
         ExemptionSearchIRCCommand(u, c, f, IF f \in DOMAIN e THEN e[f] ELSE "")
=============================================================================
