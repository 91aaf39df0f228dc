------------------------------ MODULE Commands ------------------------------
(***************************************************************************)
(* RenX.Commands and RenX.Warn as a whole: players come and go, and the    *)
(* staff gives commands in IRC channels and in the game.  The main loop    *)
(* runs one handler at a time; what it ordered and answered is sent before *)
(* the next one starts.                                                    *)
(***************************************************************************)
EXTENDS IRCCommands, GameCommands

\* the names of different kinds are different: a report says by them who is meant
ASSUME CommandsAssumption ==
  /\ Servers \cap Channels = {}
  /\ Persons \cap (Users \cup {"game", "public", "gdi", "nod"} \cup UNION {Range(Rotation[s]) : s \in Servers}) = {}

Sent == last # Nothing /\ last' = Nothing /\ Unchanged

Next == \/ last = Nothing /\ (GameNext \/ IRCNext \/ GameCommandNext)
        \/ Sent

Spec == Init /\ [][Next]_vars

----------------------------------------------------------------------------
\* Orders go to the servers the channel is attached to, or the server the
\* command was given on, and to players who are listed there: a player of the
\* same name elsewhere, or one who has left, is never meant.  Only a command
\* that reconnects leaves nobody to be listed.
OrdersStayHome ==
  last.by \notin {"nobody", "console"} =>
    \A o \in last.sent :
      /\ IF last.at \in Channels THEN IsPublic(o[1], last.at) \/ IsAdmin(o[1], last.at) ELSE o[1] = last.at
      /\ o[3] \in Persons => o[3] \in Range(players[o[1]])

\* Commands of one target (all but team, team2 and pardons of oneself).
OneTarget == {"pmsg", "pamsg", "kill", "disarm", "disarmc4", "disarmb", "mineban", "kick", "ban", "mute",
              "unmute", "nmode", "smode", "refund", "tban", "tchatban", "warn"}

\* Whoever types a full name means that player: whatever the order people
\* joined in, nobody whose name merely contains it is hit instead.
NamedExactly ==
  last.cmd \in OneTarget =>
    \A o \in last.sent : \A p \in Range(players[o[1]]) :
      Who[p].name = last.text => Who[o[3]].name = last.text

\* What hurts a player in the game is only ordered by somebody with more
\* access than the player has, except by nmode, smode and warnings.
NobodyActsUpward ==
  last.by \in Persons /\ last.cmd \notin {"nmode", "smode", "warn", "pardon", "staff", "rules", "pamsg"} =>
    \A o \in last.sent : o[3] \in Persons =>
      access[o[3]] < access[last.by] /\ access[last.by] >= Level(last.at, last.cmd)

\* Servers that play competitively are told to kill or disarm nobody, and to
\* give no credits; nobody is told a refund happened there.
FairPlay ==
  \A o \in last.sent : o[1] \in Competitive =>
    /\ o[2] \notin {"kill", "disarm", "disarmc4", "disarmb", "givecredits"}
    /\ last.cmd # "refund"

\* Addresses appear on channels for the staff, or were asked for by a user
\* with access above 1.
AddressesForStaff ==
  (\E a \in last.told : a[1] = "address") =>
    \/ \E s \in Servers : IsAdmin(s, last.at)
    \/ last.level > 1

\* setmap changes a server's map to one of its own rotation.
MapsOfTheRotation ==
  \A o \in last.sent : o[2] = "changemap" => o[3] \in Range(Rotation[o[1]])

\* Nobody is banned for longer than the configuration allows, or for ever, by
\* tban and tchatban, whatever is typed for the duration.
BansAreTemporary ==
  last.cmd \in {"tban", "tchatban"} =>
    \A o \in last.sent : o[2] \in {"ban", "chatban"} => o[4] \in 1 .. MaxTBan

\* Of those who die only bots are kicked, and only while their server phases
\* its bots out.
OnlyBotsArePhased ==
  last.cmd = "die" => \A o \in last.sent : Who[o[3]].bot /\ phasing[o[1]]

\* What may be ordered and answered at all, whoever asks, and however it is typed.
OrdersAllowed ==
  /\ TypeOK /\ FairPlay /\ AddressesForStaff
  /\ MapsOfTheRotation /\ BansAreTemporary /\ OnlyBotsArePhased

\* A warning of somebody who has all that are allowed is carried out: a kick, or
\* a ban, unless they are exempt.
LimitIsFinal ==
  [][\A a \in last'.told : a[1] = "warned" /\ warns[a[2]] = MaxWarns /\ a[2] \notin KickExempt \cup BanExempt
       => \E o \in last'.sent : o[2] \in {"kick", "ban"} /\ o[3] = a[2]]_vars

\* Warnings are kept for as long as a player stays, and only a pardon takes them
\* away.
WarningsStay ==
  [][\A s \in Servers : \A p \in Range(players[s]) \cap Range(players'[s]) :
       warns'[p] < warns[p] => last'.cmd = "pardon"]_vars

\* Warnings add up to the limit, and are then carried out every time.
WarningsCount == LimitIsFinal /\ WarningsStay
=============================================================================
