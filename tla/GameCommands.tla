---------------------------- MODULE GameCommands ----------------------------
(***************************************************************************)
(* The commands players give in the chat of a server.  They act on that    *)
(* server alone; those that do something to a player are for issuers whose *)
(* access is above the player's.                                           *)
(***************************************************************************)
EXTENDS GameServers

CONSTANTS
  GameAccess,  \* configured levels, by <<server, command>>; below 0 it is not added
  Prefixed     \* users with a prefix in a channel, this bot aside

\* create: the levels the commands come with
DefaultLevel ==
  [cmd \in {"help", "staff", "rules", "modrequest"} |-> 0] @@
  [cmd \in {"amsg", "pamsg", "kill", "disarm", "disarmc4", "disarmb", "mineban", "kick", "mute", "tban",
            "tchatban", "addbots", "phasebots", "nmode", "smode", "cancelvote", "warn", "pardon"} |-> 1] @@
  [cmd \in {"ban", "killbots"} |-> 2]

\* addCommand
Level(s, cmd) == IF <<s, cmd>> \in DOMAIN GameAccess THEN GameAccess[<<s, cmd>>] ELSE DefaultLevel[cmd]
Added(s) == {cmd \in DOMAIN DefaultLevel : Level(s, cmd) >= 0}

At0(j) == Who[j].server
Speaks(j) == j \in Range(players[At0(j)]) /\ connected[At0(j)] /\ ~Who[j].bot
May(j, cmd) == cmd \in Added(At0(j)) /\ access[j] >= Level(At0(j), cmd)

\* triggerCommand: a command that was added, by somebody with the access
Game(j, cmd, text, sent, told) ==
  /\ Speaks(j) /\ cmd \in Added(At0(j))
  /\ last' = IF access[j] >= Level(At0(j), cmd)
               THEN Report(j, access[j], At0(j), cmd, text, sent, told)
               ELSE Report(j, access[j], At0(j), "", "", {}, {<<"denied", j>>})

Same == UNCHANGED <<players, connected, access, warns, phasing>>

Target(j, t) == PlayerByPartName(At0(j), t)

----------------------------------------------------------------------------
HelpGameCommand(j) ==
  Game(j, "help", "", {}, {<<"help", cmd>> : cmd \in {d \in Added(At0(j)) : Level(At0(j), d) <= access[j]}})
  /\ Same

\* help of one command: only for those who may give it
HelpAbout(j, cmd) ==
  Game(j, "help", cmd, {}, {IF cmd \notin Added(At0(j)) THEN <<"not found", NoOne>>
                            ELSE IF access[j] >= Level(At0(j), cmd) THEN <<"help", cmd>> ELSE <<"denied", j>>})
  /\ Same

ModsGameCommand(j)  == Game(j, "staff", "", Say(At0(j)), {<<"staff", p>> : p \in Staff(At0(j))}) /\ Same
RulesGameCommand(j) == Game(j, "rules", "", Say(At0(j)), {}) /\ Same

\* the admin channels hear of it, and the users of theirs who have a prefix
ModRequestGameCommand(j) ==
  LET cs == {c \in Channels : IsAdmin(At0(j), c)}
  IN  Game(j, "modrequest", "", {}, {<<"alert", c>> : c \in cs} \cup {<<"alert", u>> : u \in UNION {Prefixed[c] : c \in cs}})
      /\ Same

AdminMessageGameCommand(j) == Game(j, "amsg", "", To(At0(j), "amsg", NoOne), {}) /\ Same

PAdminMessageGameCommand(j, t) ==
  Game(j, "pamsg", t, IF Target(j, t) = NoOne THEN {} ELSE To(At0(j), "pamsg", Target(j, t)), {}) /\ Same

----------------------------------------------------------------------------
(***************************************************************************)
(* What is done to players                                                 *)
(***************************************************************************)

\* the target is found, may be somebody else, and has less access
OnLower(j, cmd, t, alsoSelf, Do(_)) ==
  LET p == Target(j, t)
  IN  Game(j, cmd, t,
           IF p = NoOne \/ (p = j /\ ~alsoSelf) \/ access[p] >= access[j] THEN {} ELSE Do(p),
           {<<IF p = NoOne THEN "not found" ELSE IF access[p] >= access[j] THEN "higher level" ELSE "done", p>>})
      /\ Same

\* mutant: the access of who is found is not looked at
KickAnybody(j, t) ==
  LET p == Target(j, t) IN Game(j, "kick", t, IF p \in {NoOne, j} THEN {} ELSE Kick(At0(j), p), {}) /\ Same

KillGameCommand(j, t)         == OnLower(j, "kill", t, TRUE, LAMBDA p : Fair(At0(j), "kill", p))
DisarmGameCommand(j, t)       == OnLower(j, "disarm", t, TRUE, LAMBDA p : Fair(At0(j), "disarm", p))
DisarmC4GameCommand(j, t)     == OnLower(j, "disarmc4", t, TRUE, LAMBDA p : Fair(At0(j), "disarmc4", p))
DisarmBeaconGameCommand(j, t) == OnLower(j, "disarmb", t, TRUE, LAMBDA p : Fair(At0(j), "disarmb", p))
MineBanGameCommand(j, t)      == OnLower(j, "mineban", t, TRUE, LAMBDA p : To(At0(j), "mineban", p))
KickGameCommand(j, t)         == OnLower(j, "kick", t, FALSE, LAMBDA p : Kick(At0(j), p))
MuteGameCommand(j, t)         == OnLower(j, "mute", t, FALSE, LAMBDA p :
                                   To(At0(j), "textmute", p) \cup To(At0(j), "privatesay", p))
KickBanGameCommand(j, t)      == OnLower(j, "ban", t, FALSE, LAMBDA p : Ban(At0(j), p, 0))

\* <player>, or <duration> <player> when the first word finds nobody
TimedOnLower(j, cmd, t1, t2, Do(_, _)) ==
  LET timed == Target(j, t1) = NoOne /\ t2 # "" /\ Span[t1] > 0
      much  == IF ~timed THEN DefaultTBan ELSE IF Span[t1] < MaxTBan THEN Span[t1] ELSE MaxTBan
  IN  OnLower(j, cmd, IF timed THEN t2 ELSE t1, FALSE, LAMBDA p : Do(p, much))

\* mutant: as long as was asked for
TempBanUncapped(j, t1, t2) ==
  LET timed == Target(j, t1) = NoOne /\ t2 # "" /\ Span[t1] > 0
  IN  OnLower(j, "tban", IF timed THEN t2 ELSE t1, FALSE, LAMBDA p :
        Ban(At0(j), p, IF timed THEN Span[t1] ELSE DefaultTBan))

TempBanGameCommand(j, t1, t2) ==
  TimedOnLower(j, "tban", t1, t2, LAMBDA p, much : Ban(At0(j), p, much))
TempChatBanGameCommand(j, t1, t2) ==
  TimedOnLower(j, "tchatban", t1, t2, LAMBDA p, much :
    To(At0(j), "textmute", p) \cup {<<At0(j), "chatban", p, much>>})

\* nmode and smode ask for no access above the target's
OnAnybody(j, cmd, t) ==
  Game(j, cmd, t, IF Target(j, t) = NoOne THEN {} ELSE To(At0(j), cmd, Target(j, t)), {}) /\ Same

NModeGameCommand(j, t) == OnAnybody(j, "nmode", t)
SModeGameCommand(j, t) == OnAnybody(j, "smode", t)

\* nor do warnings, which may end in a kick or a ban
WarnGameCommand(j, t) ==
  /\ May(j, "warn") /\ Target(j, t) # NoOne
  /\ Game(j, "warn", t, Warned(At0(j), Target(j, t)), {<<"warned", Target(j, t)>>})
  /\ warns' = [warns EXCEPT ![Target(j, t)] = WarnsAfter(Target(j, t))]
  /\ UNCHANGED <<players, connected, access, phasing>>

\* without a name it is oneself who is pardoned
PardonGameCommand(j, t) ==
  LET p == Target(j, IF t = "" THEN Who[j].name ELSE t)
  IN  /\ May(j, "pardon") /\ p # NoOne
      /\ Game(j, "pardon", t, To(At0(j), "privatesay", p), {<<"pardoned", p>>})
      /\ warns' = [warns EXCEPT ![p] = 0]
      /\ UNCHANGED <<players, connected, access, phasing>>

----------------------------------------------------------------------------
(***************************************************************************)
(* Bots and votes                                                          *)
(***************************************************************************)

AddBotsGameCommand(j, team) == Game(j, "addbots", team, To(At0(j), AddBotsVerb(team), NoOne), {}) /\ Same
KillBotsGameCommand(j)      == Game(j, "killbots", "", To(At0(j), "killbots", NoOne), {}) /\ Same

PhaseBotsGameCommand(j, asked) ==
  /\ May(j, "phasebots")
  /\ Game(j, "phasebots", asked, {}, {})
  /\ phasing' = [phasing EXCEPT ![At0(j)] = Phased(At0(j), asked)]
  /\ UNCHANGED <<players, connected, access, warns>>

CancelVoteGameCommand(j, team) == Game(j, "cancelvote", team, CancelVote(At0(j), team), {}) /\ Same

GameCommandNext ==
  \E j \in Persons :
    \/ HelpGameCommand(j) \/ ModsGameCommand(j) \/ RulesGameCommand(j) \/ ModRequestGameCommand(j)
    \/ AdminMessageGameCommand(j) \/ KillBotsGameCommand(j) \/ PardonGameCommand(j, "")
    \/ \E cmd \in DOMAIN DefaultLevel : HelpAbout(j, cmd)
    \/ \E t \in Texts :
         \/ PAdminMessageGameCommand(j, t) \/ KillGameCommand(j, t) \/ DisarmGameCommand(j, t)
         \/ DisarmC4GameCommand(j, t) \/ DisarmBeaconGameCommand(j, t) \/ MineBanGameCommand(j, t)
         \/ KickGameCommand(j, t) \/ MuteGameCommand(j, t) \/ KickBanGameCommand(j, t)
         \/ NModeGameCommand(j, t) \/ SModeGameCommand(j, t) \/ WarnGameCommand(j, t) \/ PardonGameCommand(j, t)
         \/ \E t2 \in Rest : TempBanGameCommand(j, t, t2) \/ TempChatBanGameCommand(j, t, t2)
    \/ \E team \in {"", "gdi", "nod"} : AddBotsGameCommand(j, team)
    \/ \E asked \in {"", "on", "off"} : PhaseBotsGameCommand(j, asked)
    \/ \E team \in {"all", "public", "gdi", "nod", "blackhand"} : CancelVoteGameCommand(j, team)
=============================================================================
