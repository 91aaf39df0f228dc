---------------------------- MODULE GameServers ----------------------------
(***************************************************************************)
(* The game servers as the commands of the bot see them: who is listed on *)
(* each, how a player is looked up by what somebody typed, and the orders *)
(* that can be sent.  The plugins RenX.Commands and RenX.Warn, and the     *)
(* dispatch of commands from IRC and from the game, are built on it.       *)
(***************************************************************************)
EXTENDS Integers, Sequences, FiniteSets, SequencesExt

CONSTANTS
  ServerList,    \* the servers, in the order of RenX::Core
  Channels,      \* the IRC channels
  ChannelType,   \* their types
  PublicType,    \* m_logChanType: the type of the channels a server is attached to
  AdminType,     \* m_adminLogChanType
  Competitive,   \* servers that play competitively
  NeverSay,      \* servers where the bot may only talk in private
  Rotation,      \* maps of a server, in order
  Persons,       \* players and bots there can be
  Who,           \* what each of them is: [server, name, id, bot]
  Levels,        \* levels of access a person may have
  KickExempt, BanExempt,
  Texts,         \* what may be typed for a name
  Rest,          \* and what may follow it
  PartOf,        \* the names (of players and maps) that contain a text
  IdIn,          \* the id a text of the form pid<n> or Player<n> has, or 0
  Span,          \* the seconds a text reads as, or 0
  DefaultTBan, MaxTBan,
  MaxWarns,      \* m_maxWarns
  WarnAction     \* m_warnAction: -1 to kick, or the seconds to ban for

NoOne == ""
Servers == Range(ServerList)
Home(s) == {p \in Persons : Who[p].server = s}

ASSUME GameServersAssumption ==
  /\ Who \in [Persons -> [server : Servers, name : Texts, id : Nat \ {0}, bot : BOOLEAN]]
  /\ \A p, q \in Persons : Who[p].server = Who[q].server /\ Who[p].id = Who[q].id => p = q
  /\ Levels \in [Persons -> SUBSET Nat] /\ ChannelType \in [Channels -> Nat]
  /\ \A t \in Texts : t \in PartOf[t] /\ IdIn[t] \in Nat /\ Span[t] \in Nat
  /\ {DefaultTBan, MaxTBan} \subseteq Nat \ {0} /\ DefaultTBan <= MaxTBan
  /\ MaxWarns \in Nat /\ WarnAction \in Nat \cup {-1}
  /\ Rest \subseteq Texts \cup {""}
  /\ NoOne \notin Persons \cup Texts
  /\ ServerList \in Seq(Servers) /\ \A s \in Servers : Rotation[s] \in Seq(Range(Rotation[s]))

VARIABLES
  players,    \* players of a server, in the order they are listed
  connected,  \* the connection to a server is open
  access,     \* access of whoever is listed
  warns,      \* warnings of whoever is listed
  phasing,    \* a server's bots are kicked when they die
  last        \* what was just done: by whom, where, what was ordered and answered

vars == <<players, connected, access, warns, phasing, last>>

\* an order: [at, verb, whom, by how much]
Verbs == {"say", "privatesay", "amsg", "pamsg", "warn", "textmute", "textunmute", "kill", "disarm",
          "disarmc4", "disarmb", "mineban", "kick", "ban", "chatban", "givecredits", "team", "team2",
          "nmode", "smode", "cancelvote", "addbots", "addredbots", "addbluebots", "killbots",
          "changemap", "raw"}

----------------------------------------------------------------------------
(***************************************************************************)
(* Looking a player up                                                     *)
(***************************************************************************)

FirstOf(s, Fits(_)) ==
  LET i == SelectInSeq(players[s], Fits) IN IF i = 0 THEN NoOne ELSE players[s][i]

PlayerById(s, id) == FirstOf(s, LAMBDA p : Who[p].id = id)

PlayerByName(s, t) ==
  LET named == FirstOf(s, LAMBDA p : Who[p].name = t)
  IN  IF named = NoOne /\ IdIn[t] # 0 THEN PlayerById(s, IdIn[t]) ELSE named

PlayerByPartNameFast(s, t) == FirstOf(s, LAMBDA p : Who[p].name \in PartOf[t])

PlayerByPartName(s, t) ==
  IF PlayerByName(s, t) # NoOne THEN PlayerByName(s, t) ELSE PlayerByPartNameFast(s, t)

Matches(s, t) == {p \in Range(players[s]) : Who[p].name \in PartOf[t]}

\* isLogChanType
IsPublic(s, c) == PublicType[s] = ChannelType[c]
IsAdmin(s, c)  == AdminType[s] = ChannelType[c]

Humans(s) == {p \in Range(players[s]) : ~Who[p].bot}

----------------------------------------------------------------------------
(***************************************************************************)
(* Orders                                                                  *)
(***************************************************************************)

Send(s, verb, whom, much) == IF connected[s] THEN {<<s, verb, whom, much>>} ELSE {}

To(s, verb, p) == Send(s, verb, p, 0)

\* kill, disarm, disarmC4, disarmBeacon, giveCredits: not where they play competitively
Fair(s, verb, p) == IF s \in Competitive THEN {} ELSE To(s, verb, p)

\* sendMessage, to all
Say(s) == IF s \in NeverSay THEN UNION {To(s, "privatesay", p) : p \in Humans(s)} ELSE To(s, "say", NoOne)

\* kickPlayer
Kick(s, p) == IF p \in KickExempt THEN {} ELSE To(s, "kick", p)

\* banPlayer: an entry of the database, and a forced kick
Ban(s, p, length) == IF p \in BanExempt THEN {} ELSE Send(s, "ban", p, length)

\* cancelVote, of one team or of all
CancelVote(s, team) ==
  IF team = "all" THEN UNION {To(s, "cancelvote", t) : t \in {"public", "gdi", "nod"}}
  ELSE To(s, "cancelvote", IF team = "blackhand" THEN "gdi" ELSE team)

AddBotsVerb(team) == CASE team = "gdi" -> "addredbots" [] team = "nod" -> "addbluebots" [] OTHER -> "addbots"

\* togglePhasing: the state asked for, or the other one
Phased(s, asked) == CASE asked = "" -> ~phasing[s] [] asked = "on" -> TRUE [] OTHER -> FALSE

\* what a warning comes to: an order, and a count that stops at the limit
Warned(s, p) ==
  IF warns[p] + 1 <= MaxWarns THEN To(s, "warn", p)
  ELSE IF WarnAction = -1 THEN Kick(s, p) ELSE Ban(s, p, WarnAction)

\* mutant: the count starts over when somebody is thrown out
WarnsReset(p) == IF warns[p] + 1 <= MaxWarns THEN warns[p] + 1 ELSE 0

WarnsAfter(p) == IF warns[p] + 1 <= MaxWarns THEN warns[p] + 1 ELSE warns[p]

\* the staff that staff, showmods and modrequest speak of; prefixes of names, and
\* administrators of the game, are left out
Staff(s) == {p \in Humans(s) : access[p] # 0}

Report(by, level, at, cmd, text, sent, told) ==
  [by |-> by, level |-> level, at |-> at, cmd |-> cmd, text |-> text, sent |-> sent, told |-> told]

Nothing == Report("nobody", 0, "", "", "", {}, {})

----------------------------------------------------------------------------
(***************************************************************************)
(* What happens without a command                                          *)
(***************************************************************************)

Init ==
  /\ players = [s \in Servers |-> <<>>]
  /\ connected = [s \in Servers |-> TRUE]
  /\ access = [p \in Persons |-> 0] /\ warns = [p \in Persons |-> 0]
  /\ phasing = [s \in Servers |-> FALSE]
  /\ last = Nothing

Join(p) ==
  /\ connected[Who[p].server] /\ p \notin Range(players[Who[p].server])
  /\ players' = [players EXCEPT ![Who[p].server] = Append(@, p)]
  /\ \E a \in Levels[p] : access' = [access EXCEPT ![p] = a]
  /\ last' = Nothing
  /\ UNCHANGED <<connected, warns, phasing>>

Gone(ps) ==
  /\ access' = [p \in Persons |-> IF p \in ps THEN 0 ELSE access[p]]
  /\ warns' = [p \in Persons |-> IF p \in ps THEN 0 ELSE warns[p]]

\* removePlayer: the record goes, with what the plugins noted in it
Leave(p) ==
  /\ p \in Range(players[Who[p].server])
  /\ players' = [players EXCEPT ![Who[p].server] = RemoveFirst(@, p)]
  /\ Gone({p}) /\ last' = Nothing
  /\ UNCHANGED <<connected, phasing>>

\* disconnect, and wipeData
Disconnect(s) ==
  /\ connected[s]
  /\ connected' = [connected EXCEPT ![s] = FALSE] /\ players' = [players EXCEPT ![s] = <<>>]
  /\ Gone(Home(s)) /\ last' = Nothing
  /\ UNCHANGED phasing

Connect(s) ==
  /\ ~connected[s]
  /\ connected' = [connected EXCEPT ![s] = TRUE] /\ last' = Nothing
  /\ UNCHANGED <<players, access, warns, phasing>>

\* onDie, of a suicide, a kill or a death
Die(p) ==
  /\ p \in Range(players[Who[p].server])
  /\ LET s == Who[p].server
     IN  last' = Report("game", 0, s, "die", "", IF Who[p].bot /\ phasing[s] THEN Kick(s, p) ELSE {}, {})
  /\ UNCHANGED <<players, connected, access, warns, phasing>>

\* rcon and rawrcon, typed at the bot's console: to every server
RCONConsoleCommand ==
  /\ last' = Report("console", 0, "", "rcon", "", UNION {To(s, "raw", NoOne) : s \in Servers}, {})
  /\ UNCHANGED <<players, connected, access, warns, phasing>>

GameNext ==
  \/ \E p \in Persons : Join(p) \/ Leave(p) \/ Die(p)
  \/ \E s \in Servers : Disconnect(s) \/ Connect(s)
  \/ RCONConsoleCommand

TypeOK ==
  /\ \A s \in Servers : /\ players[s] \in Seq(Home(s)) /\ IsInjective(players[s])
                        /\ connected[s] \in BOOLEAN /\ phasing[s] \in BOOLEAN
  /\ \A p \in Persons : access[p] \in Levels[p] \cup {0} /\ warns[p] \in 0 .. MaxWarns
  /\ \A o \in last.sent : o[1] \in Servers /\ o[2] \in Verbs
=============================================================================
