-------------------------------- MODULE Game --------------------------------
(***************************************************************************)
(* A game and the RenX::Server that follows it by its log: matches come    *)
(* and go, players do what GameLog knows, votes are called, and users have *)
(* matches ended now or later.  The game logs and answers in order, on one *)
(* connection that may be lost.  The parts of the log touch each other     *)
(* only in the match they belong to, so a behaviour is about one topic.    *)
(* What the bot shows of it on the web is RenX.ServerList's; a second      *)
(* server, with nobody on it, comes and goes.                              *)
(***************************************************************************)
EXTENDS GameLog

CONSTANTS
  Clients,        \* who may play
  VoteBanned,     \* those the ban database bans from voting
  VoteTeams,      \* who may vote: "GDI", "Nod", "Global"
  PlayerLimit,    \* m_playerLimit
  MaxMatches, MaxLines, MaxSent,   \* bounds
  MaxConnects, MaxDeeds            \* and of connections, and deeds in a match, by topic

Topics == {"deaths", "objects", "shop", "result", "end", "vote", "talk", "web"}

ASSUME GameAssumption ==
  /\ IsFiniteSet(Clients) /\ Clients \cap {"ai", Empty} = {} /\ VoteBanned \subseteq Clients
  /\ Characters # {} /\ Characters \cap {Empty, "none", "dead"} = {}
  /\ {PlayerLimit, MaxMatches, MaxLines, MaxSent} \subseteq Nat /\ MaxLines >= 2 /\ MaxSent >= 3
  /\ {MaxConnects, MaxDeeds} \subseteq [Topics -> Nat]

VARIABLES
  topic,      \* what this behaviour is about
  game,       \* the game
  tx,         \* commands of the bot the game has yet to read
  rx,         \* lines the bot has yet to read
  bot,        \* RenX::Server
  hall,       \* whom the public channels believe to be in the game
  pages,      \* what web clients are shown
  connects    \* connections so far

vars == <<topic, game, tx, rx, bot, hall, pages, connects>>

Web == INSTANCE ServerList

Teams  == {"GDI", "Nod"}
NoVote == [by |-> Empty, heard |-> FALSE, raced |-> FALSE]
NoTimer == [on |-> FALSE, sure |-> FALSE, state |-> "over", match |-> 0]

Disconnected == [up |-> FALSE, informed |-> FALSE, full |-> FALSE, state |-> "playing", seamless |-> TRUE,
                 match |-> 0, players |-> NoPlayers]

\* RenX::Core's list of servers, as the web pages see it, with the followed one as s
Own(s) == [name |-> "own", connected |-> s.up, full |-> s.full, active |-> DOMAIN s.players]
Other(up) == [name |-> "other", connected |-> up, full |-> up, active |-> {}]
Servers(s) == <<Own(s), Other(bot.other)>>

Init ==
  /\ topic \in Topics
  /\ game = [match |-> 0, phase |-> "pending", deeds |-> 0, players |-> NoPlayers,
             votes |-> [t \in VoteTeams |-> NoVote]]
  /\ tx = <<>> /\ rx = <<>> /\ hall = {} /\ connects = 0
  /\ bot = [server |-> Disconnected, timer |-> NoTimer, other |-> FALSE]
  /\ pages = Web!InitialPages(Servers(Disconnected))

----------------------------------------------------------------------------
(***************************************************************************)
(* The game.  It keeps of its players what the bot should know: what they  *)
(* did in this match, and the matches won and lost since they joined.      *)
(* seen, whole: the bot has been there since this match of theirs began,   *)
(* and since they joined.                                                  *)
(***************************************************************************)
server == bot.server
Present == DOMAIN game.players
Tok(p) == Token(p, game.players[p].team)
Living == {p \in Present : game.players[p].character \in Characters}

Writes(line) ==
  /\ Len(rx) < MaxLines
  /\ rx' = IF server.up THEN Append(rx, line) ELSE rx
  /\ UNCHANGED <<topic, bot, hall, pages, connects>>

Join(c, team, steam) ==
  /\ c \notin Present /\ game.phase # "travelling"
  /\ game' = [game EXCEPT !.players =
       [p \in Present \cup {c} |->
          IF p # c THEN @[p]
          ELSE [team |-> team, character |-> "none", stats |-> Zero, won |-> 0, lost |-> 0,
                seen |-> server.up, whole |-> server.up]]]
  /\ Writes([kind |-> "enter", by |-> Token(c, team), on |-> Nobody, steam |-> steam])
  /\ UNCHANGED tx

Leave(c) ==
  /\ c \in Present
  /\ game' = [game EXCEPT !.players = [p \in Present \ {c} |-> @[p]]]
  /\ Writes([kind |-> "exit", by |-> Tok(c), on |-> Nobody])
  /\ UNCHANGED tx

ChangeTeam(c) ==
  /\ c \in Present /\ game.phase = "playing" /\ game.deeds < MaxDeeds[topic]
  /\ LET other == CHOOSE t \in Teams : t # game.players[c].team
     IN  /\ game' = [game EXCEPT !.deeds = @ + 1, !.players[c].team = other,
                                 !.players[c].character = "dead"]
         /\ Writes([kind |-> "teamjoin", by |-> Token(c, other), on |-> Nobody])
  /\ UNCHANGED tx

\* what each deed counts for, to the one who acts and to the other one
Merits == {<<"death", "kill", "kills">>, <<"death", "headshot", "kills">>, <<"death", "headshot", "headshots">>,
           <<"destroyed", "vehicle", "vehicleKills">>, <<"destroyed", "building", "buildingKills">>,
           <<"destroyed", "defence", "defenceKills">>, <<"deployed", "beacon", "beaconPlacements">>,
           <<"deployed", "proxy", "proxy_placements">>, <<"disarmed", "beacon", "beaconDisarms">>,
           <<"disarmed", "proxy", "proxy_disarms">>, <<"captured", "building", "captures">>,
           <<"stolen", "vehicle", "steals">>}
Losses == {<<"death", how, "deaths">> : how \in {"kill", "headshot", "die", "suicide"}}
          \cup {<<"death", "suicide", "suicides">>, <<"stolen", "vehicle", "stolen">>}

Counts(l, p, s) == \/ l.by.who = p /\ <<l.kind, l.what, s>> \in Merits
                   \/ l.on.who = p /\ <<l.kind, l.what, s>> \in Losses

Deed(l) ==
  /\ game.phase = "playing" /\ game.deeds < MaxDeeds[topic]
  /\ game' = [game EXCEPT !.deeds = @ + 1, !.players =
       [p \in Present |->
          [game.players[p] EXCEPT
                       !.stats = [s \in Statistics |-> @[s] + IF Counts(l, p, s) THEN 1 ELSE 0],
                       !.character = IF l.kind = "plays" /\ l.by.who = p THEN l.as
                                     ELSE IF l.kind = "death" /\ l.on.who = p THEN "dead" ELSE @]]]
  /\ Writes(l)
  /\ UNCHANGED tx

Line(kind, by, on, what) == [kind |-> kind, by |-> by, on |-> on, what |-> what]
LineAs(by, how, c) == [kind |-> "plays", by |-> by, on |-> Nobody, what |-> how, as |-> c]
Toks == {Tok(p) : p \in Present}

Deeds ==
  CASE topic = "deaths" ->
         {Line("death", by, Tok(v), how) : by \in {AI} \cup Toks, v \in Living, how \in {"kill", "headshot"}}
         \cup {Line("death", Nobody, Tok(v), how) : v \in Living, how \in {"die", "suicide"}}
         \cup {LineAs(Tok(p), "spawn", c) : p \in Present \ Living, c \in Characters}
    [] topic = "shop" ->
         {LineAs(Tok(p), how, c) :
            p \in Present, c \in Characters, how \in {"spawn", "purchase", "crate", "spy"}}
         \cup {Line("purchase", t, Nobody, w) : t \in Toks, w \in {"item", "weapon", "refill", "vehicle"}}
         \cup {Line("spawn", Nobody, Nobody, "vehicle")} \cup {Line("spawn", t, Nobody, "bot") : t \in Toks}
         \cup {Line("crate", t, Nobody, w) : t \in Toks,
                 w \in {"vehicle", "tsvehicle", "death", "money", "refill", "timebomb", "speed", "nuke",
                        "abduction", "unspecified", "other"}}
         \cup {Line("donated", t, u, Empty) : t \in Toks, u \in Toks} \cup {Line("overmine", t, Nobody, Empty) : t \in Toks}
    [] topic = "objects" ->
         {Line("destroyed", t, Nobody, w) : t \in Toks \cup {AI}, w \in {"vehicle", "building", "defence"}}
         \cup {Line("deployed", t, Nobody, w) : t \in Toks, w \in {"beacon", "proxy", "mine"}}
         \cup {Line("disarmed", t, Nobody, w) : t \in Toks, w \in {"beacon", "proxy"}}
         \cup {Line("exploded", t, Nobody, Empty) : t \in Toks \cup {AI, Nobody}}
         \cup {Line(k, t, Nobody, "building") : k \in {"captured", "neutralized"}, t \in Toks}
         \cup {Line("stolen", t, Nobody, "vehicle") : t \in Toks}
         \cup {Line(k[1], Tok(pq[1]), Tok(pq[2]), k[2]) : k \in {<<"stolen", "vehicle">>, <<"disarmed", "beacon">>},
                  pq \in {pq \in Present \X Present : pq[1] # pq[2]}}
    [] OTHER -> {}

Talk ==
  {Line("chat", t, Nobody, w) : t \in Toks,
     w \in {"Say", "TeamSay", "Radio", "AdminMsg", "AdminWarn", "PAdminMsg", "PAdminWarn"}}
  \cup {Line("chat", Nobody, Nobody, w) :
     w \in {"HostSay", "HostPMsg", "HostAdminMsg", "HostAdminWarn", "HostPAdminMsg", "HostPAdminWarn", "other"}}
  \cup {Line("player", t, Nobody, w) : t \in Toks,
     w \in {"HWID", "Kick", "NameChange", "SpeedHack", "Command", "NoCommand", "Rcon", "Login", "Granted",
            "Logout", "Record", "other"}}
  \cup {Line("report", Nobody, Nobody, w) :
     w \in {"executedByAnother", "executedByDevBot", "executedByBot", "Subscribed", "RCON", "ADMIN",
            "VOTE", "MAP", "DEMO", "Recorded", "RecordStop", "GAME", "log", "c", "e", "other"}}

\* logged and, but for who is named, without effect: once in the first match will do
Says(l) ==
  /\ topic = "talk" /\ rx = <<>> /\ server.up /\ game.match = 0
  /\ Writes(l)
  /\ UNCHANGED <<game, tx>>

EndedBy(winner) ==
  [game EXCEPT !.phase = "over", !.players =
     [p \in Present |-> IF winner = Empty THEN game.players[p]
                        ELSE IF game.players[p].team = winner THEN [game.players[p] EXCEPT !.won = @ + 1]
                        ELSE [game.players[p] EXCEPT !.lost = @ + 1]]]

EndMatch(winner) ==
  /\ game.phase = "playing"
  /\ game' = EndedBy(winner)
  /\ Writes([kind |-> "matchend", winner |-> winner])
  /\ UNCHANGED tx

\* after a match or, when the map is changed, out of one
Travel(seamless) ==
  /\ game.phase \in {"playing", "over"} /\ game.match < MaxMatches
  /\ game' = [match |-> game.match + 1, phase |-> "travelling", deeds |-> 0,
              votes |-> [t \in VoteTeams |-> NoVote],
              players |-> IF ~seamless THEN NoPlayers
                          ELSE [p \in Present |-> [game.players[p] EXCEPT
                                 !.stats = Zero, !.character = "none", !.seen = server.up]]]
  /\ Writes([kind |-> "changing", seamless |-> seamless, match |-> game.match + 1,
          ended |-> game.phase = "over"])
  /\ UNCHANGED tx

Loads == /\ game.phase = "travelling" /\ game' = [game EXCEPT !.phase = "pending"]
         /\ Writes([kind |-> "loaded"]) /\ UNCHANGED tx
Starts == /\ game.phase = "pending" /\ game' = [game EXCEPT !.phase = "playing"]
          /\ Writes([kind |-> "start"]) /\ UNCHANGED tx

----------------------------------------------------------------------------
(***************************************************************************)
(* Votes, of one team or of everybody, one at a time each                  *)
(***************************************************************************)
Votes9 == {"AddBots", "ChangeMap", "Kick", "MineBan", "RemoveBots", "RestartMap", "Surrender", "Survey", "other"}
Outstanding(t) ==
  \/ <<"cancel", t>> \in Range(tx)
  \/ \E i \in DOMAIN rx : rx[i].kind = "votecalled" /\ rx[i].team = t /\ rx[i].by.who \in VoteBanned

CallVote(t, c, what) ==
  /\ topic = "vote" /\ game.phase = "playing" /\ game.deeds < MaxDeeds[topic]
  /\ c \in Present /\ game.votes[t] = NoVote
  /\ game' = [game EXCEPT !.deeds = @ + 1, !.votes[t] =
       [by |-> c, heard |-> server.up /\ game.players[c].whole, raced |-> Outstanding(t)]]
  /\ Writes([kind |-> "votecalled", by |-> Tok(c), on |-> Nobody, what |-> what, team |-> t])
  /\ UNCHANGED tx

VoteEnds(t, success) ==
  /\ game.votes[t] # NoVote
  /\ game' = [game EXCEPT !.votes[t] = NoVote]
  /\ Writes([kind |-> "voteover", success |-> success])
  /\ UNCHANGED tx

----------------------------------------------------------------------------
(***************************************************************************)
(* Commands of the bot                                                     *)
(***************************************************************************)
Reads(command) == tx # <<>> /\ Head(tx)[1] = command /\ tx' = Tail(tx)

AnswerInfo == /\ Reads("info") /\ Writes([kind |-> "info", state |-> game.phase]) /\ UNCHANGED game

Row(p) == [team |-> p.team, kills |-> p.stats.kills, deaths |-> p.stats.deaths,
           character |-> IF p.character \in Characters THEN p.character ELSE Empty]
AnswerList ==
  /\ Reads("list")
  /\ Writes([kind |-> "list", rows |-> [p \in Present |-> Row(game.players[p])]])
  /\ UNCHANGED game

AnswerPing == /\ Reads("ping") /\ Writes([kind |-> "pong"]) /\ UNCHANGED game

EndMap(winner) ==
  /\ Reads("endmap")
  /\ IF game.phase = "playing"
     THEN game' = EndedBy(winner) /\ Writes([kind |-> "matchend", winner |-> winner])
     ELSE UNCHANGED <<topic, game, rx, bot, hall, pages, connects>>

CancelVote ==
  /\ Reads("cancel")
  /\ LET t == Head(tx)[2]
     IN  IF game.votes[t] = NoVote THEN UNCHANGED <<topic, game, rx, bot, hall, pages, connects>>
         ELSE /\ game' = [game EXCEPT !.votes[t] = NoVote]
              /\ Writes([kind |-> "votecancelled"])

GameStep ==
  \/ \E c \in Clients : \/ \E team \in Teams : (team = "Nod" => topic = "result") /\ Join(c, team, topic # "talk")
                        \/ topic \in {"result", "web"} /\ Leave(c)
                        \/ topic = "result" /\ ChangeTeam(c)
                        \/ \E t \in VoteTeams, what \in Votes9 :
                             (what # "Kick" => t = "Nod" /\ c \notin VoteBanned) /\ CallVote(t, c, what)
  \/ \E l \in Deeds : Deed(l)
  \/ \E l \in Talk : Says(l)
  \/ \E winner \in Teams \cup {Empty} :
       (winner # "GDI" => topic = "result") /\ topic # "web" /\ (EndMatch(winner) \/ EndMap(winner))
  \/ \E seamless \in BOOLEAN : Travel(seamless)
  \/ Loads \/ Starts
  \/ \E t \in VoteTeams : VoteEnds(t, t = "Nod")
  \/ AnswerInfo \/ AnswerList \/ AnswerPing \/ CancelVote

----------------------------------------------------------------------------
(***************************************************************************)
(* The server.  It is subscribed to the log when it has read the version   *)
(* of the game, and fully connected with the answer to its first ping,     *)
(* which only the pages wait for; RconSession has the handshake.           *)
(***************************************************************************)
Connect ==
  /\ ~server.up /\ connects < MaxConnects[topic]
  /\ connects' = connects + 1
  /\ bot' = [bot EXCEPT !.server = [Disconnected EXCEPT !.up = TRUE, !.match = game.match]]
  /\ tx' = IF topic = "web" THEN <<<<"info", Empty>>, <<"list", Empty>>, <<"ping", Empty>>>>
                            ELSE <<<<"info", Empty>>, <<"list", Empty>>>>
  /\ rx' = <<Line("report", Nobody, Nobody, "v"), Line("report", Nobody, Nobody, "a")>>
  /\ UNCHANGED <<topic, game, hall, pages>>

\* disconnect, wipeData: what is scheduled stays
Lost ==
  /\ server.up
  /\ bot' = [bot EXCEPT !.server = Disconnected, !.timer.sure = FALSE]
  /\ LET closed == [server EXCEPT !.up = FALSE]
     IN  pages' = Web!RenX_OnServerDisconnect(pages, Servers(closed), Own(closed))
  /\ game' = [game EXCEPT !.players = [p \in Present |-> [game.players[p] EXCEPT !.seen = FALSE, !.whole = FALSE]],
                          !.votes = [t \in VoteTeams |-> [game.votes[t] EXCEPT !.heard = FALSE]]]
  /\ tx' = <<>> /\ rx' = <<>> /\ hall' = {}
  /\ UNCHANGED <<topic, connects>>

\* mutant: those who leave while the server travels are left behind, seamless or not
ContextAnyTravel ==
  [pending    |-> server.state \in {"pending", "travelling"},
   leftBehind |-> server.state = "travelling", listed |-> DOMAIN server.players]
Context == [pending    |-> server.state \in {"pending", "travelling"},
            leftBehind |-> server.state = "travelling" /\ ~server.seamless,
            listed     |-> DOMAIN server.players]

Told == Tells(Head(rx), Context)

\* whom the public channels have seen join, and not leave
Attended ==
  LET l == Head(rx)
  IN  CASE [on |-> "public", says |-> "JoinPublic"] \in Told -> hall \cup {l.by.who}
        [] [on |-> "public", says |-> "Part"] \in Told       -> hall \ {l.by.who}
        [] l.kind = "changing" /\ ~l.seamless                -> {}
        [] OTHER                                             -> hall

Heard == [server EXCEPT !.players = After(@, Head(rx))]
Full  == [server EXCEPT !.full = TRUE]

\* who leaves is still listed when the plugins are told
Browsed ==
  LET l == Head(rx)
  IN  CASE l.kind = "pong"   -> Web!RenX_OnServerFullyConnected(pages, Servers(Full), Own(Full))
        [] l.kind = "enter"  -> Web!RenX_OnJoin(pages, Servers(Heard), Own(Heard))
        [] l.kind = "exit" /\ l.by.who \in Context.listed ->
             Web!RenX_OnPart(pages, Servers(server), Own(server), Context.leftBehind)
        [] l.kind = "loaded" -> Web!RenX_OnMapLoad(pages, Servers(server), Own(server))
        [] OTHER             -> pages

Processes(kinds) ==
  /\ server.up /\ rx # <<>> /\ Head(rx).kind \in kinds
  /\ rx' = Tail(rx) /\ hall' = Attended /\ pages' = Browsed
  /\ UNCHANGED <<topic, game, connects>>

ProcessEvent ==
  /\ Processes({"deployed", "disarmed", "exploded", "captured", "neutralized", "stolen", "destroyed", "death",
                "plays", "purchase", "spawn", "crate", "donated", "overmine", "chat", "player", "report",
                "enter", "teamjoin", "exit", "list", "voteover", "votecancelled"})
  /\ bot' = [bot EXCEPT !.server = Heard]
  /\ UNCHANGED tx

\* mutant: what was scheduled for the match is left for the next one
MatchEndKeepsTimer ==
  /\ Processes({"matchend"})
  /\ bot' = [bot EXCEPT !.server = [Heard EXCEPT !.state = "over"]]
  /\ UNCHANGED tx
MatchEnd ==
  /\ Processes({"matchend"})
  /\ bot' = [bot EXCEPT !.server = [Heard EXCEPT !.state = "over"], !.timer = NoTimer]
  /\ UNCHANGED tx

MapChanging ==
  /\ Processes({"changing"})
  /\ LET l == Head(rx)
     IN  bot' = [bot EXCEPT !.server = [Heard EXCEPT !.state = "travelling", !.seamless = l.seamless,
                                                     !.match = l.match],
                            !.timer.sure = @ /\ l.ended]
  /\ UNCHANGED tx

MapLoaded == /\ Processes({"loaded"})
             /\ bot' = [bot EXCEPT !.server.state = "pending"] /\ UNCHANGED tx
MapStart  == /\ Processes({"start"})
             /\ bot' = [bot EXCEPT !.server.state = "playing"] /\ UNCHANGED tx
GameInfo  == /\ Processes({"info"})
             /\ bot' = [bot EXCEPT !.server.state = Head(rx).state, !.server.informed = TRUE]
             /\ UNCHANGED tx

FullyConnected == /\ Processes({"pong"})
                  /\ bot' = [bot EXCEPT !.server = Full] /\ UNCHANGED tx

\* mutant: only the votes of teams fall
VoteCalledOfTeams ==
  /\ Processes({"votecalled"}) /\ Len(tx) < MaxSent
  /\ bot' = [bot EXCEPT !.server = Heard]
  /\ LET l == Head(rx)
     IN  tx' = IF l.team # "Global" /\ bot'.server.players[l.by.who].known /\ l.by.who \in VoteBanned
               THEN Append(tx, <<"cancel", l.team>>) ELSE tx
\* mutant: every vote falls that is called when a banned player is there
VoteCalledNearBanned ==
  /\ Processes({"votecalled"}) /\ Len(tx) < MaxSent
  /\ bot' = [bot EXCEPT !.server = Heard]
  /\ LET l == Head(rx)
     IN  tx' = IF VoteBanned \cap DOMAIN server.players # {}
               THEN Append(tx, <<"cancel", l.team>>) ELSE tx
VoteCalled ==
  /\ Processes({"votecalled"}) /\ Len(tx) < MaxSent
  /\ bot' = [bot EXCEPT !.server = Heard]
  /\ LET l == Head(rx)
     IN  tx' = IF l.by.who \in VoteBanned /\ bot'.server.players[l.by.who].known
               THEN Append(tx, <<"cancel", l.team>>) ELSE tx

Send(command) == /\ Len(tx) < MaxSent /\ tx' = Append(tx, <<command, Empty>>)

\* gameover, gameover(delay), gameoverStop; a user asks on IRC
Ask == topic = "end" /\ UNCHANGED <<topic, game, rx, hall, pages, connects>>

GameOverNow == Ask /\ server.up /\ Send("endmap") /\ UNCHANGED bot

GameOverIn ==
  /\ Ask
  /\ bot' = [bot EXCEPT !.timer = [on |-> TRUE, sure |-> server.informed, state |-> server.state,
                                   match |-> server.match]]
  /\ UNCHANGED tx

GameOverStop ==
  /\ Ask /\ bot.timer.on
  /\ bot' = [bot EXCEPT !.timer = NoTimer]
  /\ UNCHANGED tx

\* think, when the time has come
GameOverTime ==
  /\ Ask /\ server.up /\ bot.timer.on
  /\ Send("endmap")
  /\ bot' = [bot EXCEPT !.timer = NoTimer]

\* the page of the server is asked for
Browse ==
  /\ topic = "web"
  /\ pages' = Web!handle_server_page(pages, Own(server))
  /\ UNCHANGED <<topic, game, tx, rx, bot, hall, connects>>

OtherServer ==
  /\ topic = "web" /\ bot' = [bot EXCEPT !.other = ~@]
  /\ LET all == <<Own(server), Other(bot'.other)>>
     IN  pages' = IF bot.other THEN Web!RenX_OnServerDisconnect(pages, all, all[2])
                               ELSE Web!RenX_OnServerFullyConnected(pages, all, all[2])
  /\ UNCHANGED <<topic, game, tx, rx, hall, connects>>

BotStep ==
  \/ Connect \/ Lost
  \/ ProcessEvent \/ MatchEnd \/ MapChanging \/ MapLoaded \/ MapStart \/ GameInfo \/ VoteCalled
  \/ FullyConnected \/ Browse \/ OtherServer
  \/ GameOverNow \/ GameOverIn \/ GameOverStop \/ GameOverTime

Next == GameStep \/ BotStep
Spec == Init /\ [][Next]_vars

----------------------------------------------------------------------------
TypeOK ==
  /\ topic \in Topics /\ hall \subseteq Clients /\ connects \in 0 .. MaxConnects[topic]
  /\ game.match \in 0 .. MaxMatches /\ game.deeds \in 0 .. MaxDeeds[topic]
  /\ game.phase \in {"pending", "playing", "over", "travelling"}
  /\ Present \subseteq Clients
  /\ Len(rx) <= MaxLines /\ Len(tx) <= MaxSent
  /\ \A i \in DOMAIN tx : tx[i] \in {"info", "list", "ping", "endmap", "cancel"} \X (VoteTeams \cup {Empty})
  /\ {server.up, server.informed, server.full, server.seamless, bot.other, bot.timer.on, bot.timer.sure} \subseteq BOOLEAN
  /\ {server.state, bot.timer.state} \subseteq {"pending", "playing", "over", "travelling"}
  /\ DOMAIN server.players \subseteq Clients
  /\ \A p \in DOMAIN server.players : server.players[p].team \in Teams
  /\ \A name \in {"own", "other"} : pages.details[name].players \subseteq Clients

\* what the bot will know when it has read what is on its way
Eventually == FoldLeft(After, server.players, rx)
Answered == <<"list", Empty>> \notin Range(tx)

\* The counters of a player are those of the present match: everything it did
\* if the bot was there, of the rest kills and deaths as the game tells them,
\* and never anything of an earlier match, or of somebody else.
CountersOfTheMatch ==
  server.up => LET heard == Eventually IN
    \A p \in Present \cap DOMAIN heard :
      LET mine == game.players[p].stats
          known == heard[p].stats
      IN  /\ game.players[p].seen => known = mine
          /\ Answered => known.kills = mine.kills /\ known.deaths = mine.deaths
          /\ \A s \in Statistics : known[s] <= mine[s]

\* The bot knows what the living play as, and who is dead.
AliveKnown ==
  server.up => LET heard == Eventually IN
    \A p \in Present \cap DOMAIN heard :
      Answered \/ game.players[p].seen =>
        CASE game.players[p].character \in Characters -> heard[p].character = game.players[p].character
          [] game.players[p].character = "dead"       -> heard[p].character = Empty
          [] OTHER                                    -> TRUE

\* Matches are won and lost by those who were there, on the side they were on
\* at the end, once each; a tie is neither.
ResultsAreReal ==
  server.up => LET heard == Eventually IN
    \A p \in Present \cap DOMAIN heard :
      LET g == game.players[p] b == heard[p]
      IN  /\ g.whole => b.wins = g.won /\ b.loses = g.lost
          /\ b.wins <= g.won /\ b.loses <= g.lost

\* A gameover that was scheduled in a match is not left for the next one, if
\* the bot knew the match and was told of its end.
DelayedForThisMatch ==
  bot.timer.on /\ bot.timer.sure /\ bot.timer.state = "playing" => bot.timer.match = server.match

\* A vote of a player who is banned from voting, and whom the bot saw join, is
\* about to be cancelled as long as it lasts.
BannedVotesFall ==
  \A t \in VoteTeams :
    LET v == game.votes[t]
    IN  v.heard /\ v.by \in VoteBanned =>
          \/ <<"cancel", t>> \in Range(tx)
          \/ \E i \in DOMAIN rx : rx[i].kind = "votecalled" /\ rx[i].team = t /\ rx[i].by.who = v.by

\* Nobody else's vote is cancelled, unless it began while an earlier one of its
\* team was about to be: a command names the team, not the vote.
InnocentVotesStand ==
  [][\A t \in VoteTeams :
       LET v == game.votes[t]
       IN  v # NoVote /\ game'.votes[t] = NoVote /\ CancelVote => v.by \in VoteBanned \/ v.raced]_vars

\* What the configuration has as private by default (RenX.Logging.ini: "If you
\* don't want a log message public, set it to false here") is only told to the
\* channels of administrators, whatever line it is in.
PrivateFormats ==
  {"PlayerRDNS", "PlayerIdentify", "SpeedHack", "PlayerExecute", "PlayerCommandSuccess", "PlayerCommandFail",
   "Player", "TeamChat", "RadioChat", "HostPage", "PAdminMsg", "PWarnMsg", "OtherChat", "MineDeploy", "OverMine",
   "MineDisarm", "MineDisarmNoOwner", "Explode", "ExplodeNoOwner", "CharacterPurchase", "ItemPurchase",
   "WeaponPurchase", "RefillPurchase", "VehiclePurchase", "VehicleCrate", "MoneyCrate", "CharacterCrate",
   "SpyCrate", "RefillCrate", "TimeBombCrate", "SpeedCrate", "UnspecifiedCrate", "OtherCrate", "Execute",
   "DevBotExecute", "Subscribe", "RCON", "Admin", "Vote", "Map", "Demo", "Log", "Command", "Error", "Other"}

KeptPrivate ==
  \A m \in IF rx = <<>> THEN RenX_OnPlayerRDNS ELSE Told : m.on = "public" => m.says \notin PrivateFormats

\* Who reads the public channels knows who is in the game: of those the bot saw
\* join everybody, and nobody who has left.
HallIsKnown ==
  server.up /\ rx = <<>> =>
    /\ {p \in Present : game.players[p].whole} \subseteq hall
    /\ hall \subseteq Present

\* What is said on the channels, and everything has its type.
ChannelsSound == TypeOK /\ KeptPrivate /\ HallIsKnown

\* The list that is kept ready has the servers that a list made now would have
\* (RenX.ServerList.ini: "the servers that the bot is connected to"), each once.
PagesAgree ==
  /\ {e.name : e \in Range(pages.list)} = {e.name : e \in Range(Web!handle_server_list_long_page(Servers(server)))}
  /\ Len(pages.list) = Len(Web!Shown(Servers(server)))

\* But for the one who left last, it counts who is there; only while the map is
\* changed it may be behind.
CountsWithinOne ==
  \A e \in Range(pages.list) : e.name = "own" /\ server.state # "travelling" =>
    LET n == Cardinality(DOMAIN server.players)
    IN  e.players \in {Web!getListedPlayerCount(n), Web!getListedPlayerCount(n + 1)}

\* The page of the server has nobody who has left, and everybody whom the
\* public channels saw join, however long ago it was made.
DetailsHeard ==
  LET d == pages.details["own"]
  IN  ~d.stale /\ server.state # "travelling" =>
        d.players \subseteq DOMAIN server.players /\ hall \cap DOMAIN server.players \subseteq d.players

\* What web clients are shown, on all pages, as of the last event that reaches them.
PagesSound == PagesAgree /\ CountsWithinOne /\ DetailsHeard
=============================================================================
