# Jupiter Bot in TLA+

Jupiter Bot administers Renegade X game servers. It keeps one RCON connection
to each of them, mirrors their players and match, enforces bans, keeps ladders,
and lets IRC users and players in the game run commands. This directory holds
TLA+ specifications of its core logic, TLC configurations that check them on
small instances, and TLAPS proofs.

## The system

Everything but the console input and the reverse DNS look-ups runs on one
thread: the main loop of `src/Bot/src/Main.cpp` calls `think` of every plugin
again and again, `RenX::Core::think` calls `think` of every server, and a
server reads its socket and hands each line to `processLine`, which calls the
event handlers of every plugin. So there is little shared memory, but every
connection is a conversation of two programs through buffers, and most
of what can go wrong is a matter of order: commands are pipelined, their replies
carry no request number, lines are cut anywhere by `recv`, and each piece of
state has to be reset by hand when a connection ends.

| Component | State | Operations | What is hard, and what makes it correct |
|---|---|---|---|
| RCON session (`RenX::Server`: `connect`, `think`, `processLine`) | connected, subscribed, fully connected, last command, unfinished line, pings, attempts | connect, handshake, attribute replies, ping, time out, reconnect, give up | replies are attributed by the last command logged: order, leftovers of earlier connections, half-open sessions |
| Player list (`getPlayerOrAdd`, `removePlayer`, `wipePlayers`) | players, pending look-ups | add or complete a player from any line that names one, rename, change id, remove, wipe | look-ups that end at any time, the same player learnt from several lines, ids that change |
| Match and gameover | match state, pending gameover, gameover when empty | schedule, cancel, trigger, end of match, map change | a timer racing the end of the match, requests that outlive the match they were meant for |
| Ban database, ban check, exemptions | entries in memory and in a file | add, deactivate, load, upgrade; match a player against the entries | in-place writes at remembered positions, crash between two writes, expiry |
| Ladder and its databases | waiting for the last list, ranked entries, files | update after a match, re-rank, save, start afresh | points are added when a list arrives, which is not when the match ends; two files written one after the other |
| Core server list | servers | add, remove, think, erase | erasing while iterating |
| Main loop and console | input buffer, mutex | read a line, hand it over | a thread that holds a mutex while it waits |
| IRC bots, command dispatch, game commands | channels, active server, active command | connect, dispatch, copy of commands per server | a global that names the current server during a call |
| Relay | sessions, response queues, order of commands | pass commands of upstream hosts on, make up answers, give responses back | whose response it is follows from the order of all commands on one connection |
| Moderators (ModSystem) | groups, sections in memory and in the file, access and grants of who is listed | join, log in, authenticate, grant, add, delete, rehash, unload | many ways to get a level, each with checks of its own, that can be chained |
| Commands and warnings | warnings, the phasing of bots; the player list, levels | ~60 commands from IRC, ~30 from the game | who is meant by what was typed, on which server, and who may |
| Log of the game (GAME, PLAYER, CHAT, VOTE, MAP lines) and its announcement | counters, characters, results of each player | one branch per kind of line, one logging handler per event | counters reset field by field, characters set on many paths, rows that replace what was counted; what is public |
| Server list for web clients | a list kept ready, a page cached per server | a handler per event, pages on demand | what is kept has to be made anew on every event that matters |
| Medals | recommendations per player, file | award, recommend, save, reload | counts that travel between the player entries and the file |
| Other plugins with state: KickDupes, MinPlayers, ExcessiveHeadshots, Listen | small per-player or per-server state | event handlers | events in an order nobody tested |
| Tags, formatting, simple commands, templates | none | text | not a matter for a model checker |

## Modules

| Module | What it is |
|---|---|
| `RconSession` | one server and its game server: connection, handshake, replies, pings, all ends of a session |
| `RconSessionProofs` | its type correctness, inductive invariant and safety theorems |
| `PlayerRoster` | the player list of a server, reverse DNS look-ups, gameover when empty, and the KickDupes plugin |
| `PlayerRosterProofs` | the list follows the game: its inductive invariant and what it implies |
| `DurableList` | abstract: a list whose entries are added, deactivated and never lost |
| `EntryDatabase` | the ban and the exemption database: entries in memory and the same in a file written in place (pure operators over a record) |
| `Moderation` | both databases, the players of a server, ban and exemption checks, and the commands that change them; implements `DurableList` twice |
| `ModerationProofs` | what the operations of a database preserve; type correctness, enforcement, both refinements, how bans end, whom kicks spare |
| `Relay` | game servers, upstream hosts and the order of commands between them |
| `RelayProofs` | the queues and the order agree, answers come to who asked |
| `LadderDatabase` | the operators of a ladder: credit, sort, rank |
| `Match` | a game server from match to match, and the server that mirrors it |
| `Ladder`, `Medals` | the two plugins that keep score, as actions on their own variables |
| `Season` | their composition over one server |
| `SeasonProofs` | ladders stay in order, recommendations are kept, `ScoreBoard` is implemented |
| `ScoreBoard` | abstract: points are credited to who made them, at most once, and stay |
| `Moderators` | the moderator system: groups, sections, access, grants, logins, and the commands from IRC and the game that change them |
| `ModeratorsProofs` | type correctness, durability, no escalation, no level without a reason |
| `GameServers` | the servers as commands see them: look-ups by name, orders, warnings, phasing of bots |
| `IRCCommands`, `GameCommands` | the commands of RenX.Commands and RenX.Warn, from channels and from the game, with the levels they need |
| `Commands` | their composition, and what orders may never do |
| `CommandsProofs` | the same for any servers, people, names and settings |
| `Logging` | the handlers of RenX.Logging: which format goes to which channels (operators only) |
| `GameLog` | what each log line does to the players of a server, and which handlers it calls (operators only) |
| `ServerList` | what web clients are shown, and what makes it stale (operators only) |
| `Game` | a game with matches, votes, and the server that follows it; composes the three |
| `GameProofs` | the bot knows the game: its inductive invariant, and what follows for counters, results, votes, channels, web pages |
| `MC...` | the instances TLC checks; values are in the cfg files |

### RconSession

One call of `think` either finds the server disconnected (`ThinkConnect`,
`ThinkGiveUp`), finds its ping overdue (`ThinkPingTimeout`), or reads the socket
(`ThinkRecv`, `ThinkQuiet`, `ThinkSocketError`), handles the complete lines it
got one after the other (`ProcessLine`, one action per kind of line) and does
its closing work (`ThinkTail`). `pc` is the place in the call; only the game
server, the network and the clock move while a call is in progress.

The stream is two sequences, `tx` of commands and `rx` of lines. `recv` may
return any number of complete lines and the beginning of the next one; that
beginning is `m_lastLine` (`residue`), and `cut` says that the line at the front of
`rx` was begun. What an earlier connection left in `m_lastLine` is put in front
of the first line of the next (`StaleResidue`, `whole = FALSE`).

The initial requests are represented by three of them: `serverinfo` (any request
with a reply of its own), `clientvarlist` (a request whose rows become players)
and the `ping srv_init_done` that closes the burst, which shares its first token
with a keepalive. `roster` is the set of connections whose rows are in the player
list, which is all these properties need to know of the players.

Game server, network and clock are the environment. The game server answers
commands in order; once it has logged the subscription it shows the bot
each of its own commands before the reply, which is what attribution relies on.
It may refuse connections, announce a version that is too old or has no name,
and fall silent for good.

### PlayerRoster

The game hands out ids, each once, and writes a log (`log`) of who enters,
leaves, changes id, or is mentioned. `players` is the list in the order of
`RenX::Server::players`; `GetPlayerOrAdd` is the search by id that completes the
entry or appends one, `RemovePlayer` and `WipePlayers` the two ways out.
`pending` is `m_player_rdns_resolutions_pending`; a look-up ends at any time
(`LookupEnds`, the resolver's thread) and is noticed by `CycleRDNS`, a part of
`think` of its own. A connection may be lost between any two lines; while the
bot is not connected nothing is logged for it, and the list it asks for after
connecting overlaps what is logged meanwhile. `whenEmpty` is
`m_gameover_when_empty`, tested when an Exit line was handled (RenX_Server.cpp:2876)
and when it is asked for (817), but not when the list is wiped.
KickDupes is part of the lines that identify a player, as in the code; on a
`DevelopmentServer`, whose version says -DEV, it kicks nobody.

### EntryDatabase and Moderation

A database is a record, so that a handler which adds an entry and deactivates
others is one step; `Moderation` keeps `bans`, `exemptions` and `players` and
composes the operators. A file is a version and a sequence of records;
`Added` writes behind the place where the last write ended (`eof`), and
`Deactivated` overwrites one record in place at its remembered position. `Starts`
reads both files and begins to rewrite a ban file of an old version; `Rewritten`
ends that. `Stops` is a crash at any time between two handlers and, if
`CrashUpgrading`, in the middle of a rewrite.

Who somebody is, is a set of identifiers. What is known of a player grows: steam
id and address on entering (`Listed`), more by rows (`Completed`), then hardware
id and host name (`Told`). Each handler ends with the checks the code makes
there (`BanCheck`, `ExemptionCheck`). `bansSeen` and `exemptionsSeen` are history:
the number of entries when a player was last checked.

### Relay

A session is a pair of a game server and an upstream. `tracker` is
`m_command_tracker`, shared by all sessions; `queue` is each session's
`m_response_queue` with made-up and real commands; `processing` holds the
sessions with `m_processing_command` set. `HandleExecuted`, `HandleResponse` and
`HandleDone` are `RenX_OnRaw` and `process_renx_message` for the three kinds of
line that concern commands. `view` is the upstream's side: what it asked and
has not been answered, what it is being told, and whether it was told anything
else (`confused`). `BotAsks` are the bot's own commands on the same connection.

### Season: Match, Ladder, Medals

`Match` is the game (`game`, `career`) and the parts of `RenX::Server` the
plugins look at: connected, ranked, reliable, and players with their points.
`Ladder` is the flag `w` (`waiting`), the entries of every database and their
files. `OnGameOver` asks for a client list; `OnList` is `RenX_OnCommand` when a
list has been handled, whoever asked for it. One database never forgets, the
other starts afresh when the day has changed (daily stands for weekly, monthly
and yearly). Databases are updated in the order in which their plugins are
loaded, which the configuration decides; `Order` has the all-time one first, and
`DailyWithinAllTime` depends on it. `CrashInUpdate` stops the process after any
number of entries of any of the files. `Medals` keeps the recommendations of those present with the
players (`recs`) and of all others in the image of the file (`medals`).
`Season` says which handlers each line calls, in the order of `processLine`.

An entry of a ladder is represented by its score; the other totals are added in
the same statements and nothing is decided by them. Of the awards at the end of
a match only the one for the best score is modelled. The two plugins share no
state, so the run takes one of them at a time (`PluginSets`), and `Init` chooses.

### Moderators

`sections` are the sections of moderators in memory, `saved` those in the file;
`add` and `del` write both, `Load` and `OnRehash` read the file again.
`players` holds of each listed player the group (0 for none) and the access he
has. What gives it is a section whose locks fit (steam id, address, name), the atm
commands, and a login to the game, which the plugin turns into groups of its
own. Identifiers are an operator (`UUID`), as plugins change what they are made
of; the run takes those of RenX.HybridUUID, where somebody without Steam is known by
a name that others can take. A kick for a failed lock is noted in `kicks`: the
player is gone only when the game says so.

### GameServers, IRCCommands, GameCommands, Commands

One action per command; it looks up whom the typed text means (`PlayerByName`,
`PlayerByPartName`, `Matches`), checks what the code checks, and leaves in `last`
who gave it, where, what was ordered from which server, and what was answered.
An order is a server, a verb, whom it concerns and by how much. `Sent` empties
`last`: the main loop runs one handler at a time. Texts that can be typed are a
small set with what they are part of (`PartOf`), what id (`IdIn`) and what duration
(`Span`) they read as. Levels of commands come from a sequence of `Settings`
in the order the configuration is read, because the code searches some of them
from the front and overwrites others.

### Game: GameLog, Logging, ServerList

`game` is the game as it is: phase, players with what they did in this match and
the matches they won and lost, votes. Every step that is logged is a line at the
end of `rx`, if the bot is connected. `GameLog.After` is what `processLine` does to
the players for each kind of line, `Tells` the messages the line causes, by the
handlers of `Logging`. `bot.server` is the mirror, `bot.timer` the scheduled
gameover with the match it was meant for, `hall` what somebody who reads the public
channels believes, `pages` what web clients are shown. `tx` are the commands the
game has yet to read: gameinfo, clientlist, ping, endmap and cancelvote.
The properties about counters, characters and results speak of what the bot will
know when all that is on its way has been read (`Eventually`), so that they hold at all times
and not only when the log is idle.

Of the environment it is assumed that lines and answers come in order on a
connection, that the kills and deaths in a client list are those the log told,
and that `MatchEnd` is logged before the map changes unless an
administrator changes it in the middle of a match. `endmap` is without effect
between matches.

## Runs

| Run | Checks | Result |
|---|---|---|
| `rcon_safety` | `FullyConnectedSound`, `SubscribedAttribution`, `NoStalePlayers`, `IInv`, `NoHalfOpenSession`, `GivesUp` | hold |
| `roster_safety` | `ListSound` (types, `NoTwins`, `PendingCounted`), `ListIsTheGames`, `HardwareKnown`, `EndsOnlyEmpty`, `KicksAreGhosts` | hold |
| `roster_liveness` | `LookupsAnnounced`, `EndedWhenEmpty` | hold |
| `roster_ended_early` | `EndsNoGame` | violated: a server whose list has not arrived is taken for empty |
| `moderation` | `BansAreEnforced`, `BansAreDurable`, `ExemptionsAreDurable`, `ExemptAreSpared`, `BansRunTheirTerm` | hold |
| `moderation_exempt` | `ExemptByWhatIsSaid` | violated: an exemption by steam id exempts the address |
| `relay` | `QueuesSound` (types, `FrontIsQueued`, `DoneIsTheFront`), `NobodyIsConfused`, `EverythingIsAnswered` | hold |
| `relay_loses_pending` | `DoneIsTheFront` | violated: an upstream lost with a command pending leaves a null pointer at the front |
| `season` | `LaddersSound` (types, `LaddersOrdered`, `WaitsForAList`, `DailyWithinAllTime`), `RecsKept`, `CreditsOnce` | hold |
| `moderators` | `SectionsSound` (types, `MembershipIsDurable`), `NoEscalation`, `OutranksForAReason` | hold |
| `commands` | `OrdersStayHome`, `NamedExactly`, `NobodyActsUpward`, `OrdersAllowed` (types, `FairPlay`, `AddressesForStaff`, `MapsOfTheRotation`, `BansAreTemporary`, `OnlyBotsArePhased`), `WarningsCount` (`LimitIsFinal`, `WarningsStay`) | hold |
| `game` | `CountersOfTheMatch`, `AliveKnown`, `ResultsAreReal`, `DelayedForThisMatch`, `BannedVotesFall`, `InnocentVotesStand`, `ChannelsSound` (types, `KeptPrivate`, `HallIsKnown`), `PagesSound` (`PagesAgree`, `CountsWithinOne`, `DetailsHeard`) | hold |

`IInv` includes the types of the session, and those of `Moderation` are a theorem.
What a few of the properties say, beyond their names:

* `NoEscalation`: the levels that are anybody's to give are those of the groups
  the configuration refers to, those up to the level of an IRC user who may use
  atm, and all of them if somebody may add moderators. Authentications, grants,
  logins, rehashes and reloads chained in any order lead no further.
* `NobodyActsUpward`: in the game, only people below the issuer are hurt; nmode, smode
  and the warnings are not checked by the code and are excepted.
* `CountersOfTheMatch`: whatever a list, a lost connection or a change of map
  does in between, a counter is never more than what the player did in the match
  that is being played, and exactly that if the bot was there.
* `BannedVotesFall` and `InnocentVotesStand`: the vote of somebody banned from voting
  is about to be cancelled for as long as it lasts, and no other is, except one that
  began while a cancellation of an earlier one of the same team was on its way.
* `DetailsHeard`: a cached page of a server has nobody who has left and everybody
  who was seen to join. It need not have those who were learnt from a list.

Each finding is described, with the line it contradicts, in `PROJECT.json`.

### Bounds

* `rcon_safety`: three connections, so that what is left of one
  can meet the next and its successor; one attempt before giving up; ping rate 2
  and timeout 1, so that a ping can be due, overdue and late; `AgeCap` 2, beyond which
  no clock of the session is compared; two client-list updates in flight, which
  is what it takes to have a command pipelined behind another. Versions that are
  accepted, too old, and without a name. Safety and liveness over the same graph.
* `roster_*`: three ids, the least with a ghost kick (more than `s_tolerance` + 1
  clients with one hardware id); two connections, so that players can be left
  over from the first; one unread line, behind which the game waits, which is
  enough for the list to be behind. The liveness run has the address that cannot be read.
* `moderation`: two clients behind one address, one with a steam id; two
  entries of both databases together, the least with one behind another that is
  deactivated, and with an exemption meeting a ban; a clock of two, so that a
  temporary ban can be made, run and be over. Temporary bans are only made while
  they can still run out.
* `relay`: two upstreams that ask three commands each, so that a made-up answer
  can wait behind a real one with another real one behind it; four commands in flight. One
  game server, because `m_command_tracker` is one for all of them (see below), and no
  upstream lost with a command pending, as the violation shows what happens otherwise.
* `season`: two matches of two players who score once; a line of the game
  unread, behind which it waits, and two requests of the bot; two days. Two entries do not
  show that a longer list is sorted, so the sort is also evaluated on all
  lists of four (`SortEntriesSorts` in `MCSeason`).
  `Prompt`: the next match starts only when the bot has handled all of the last one and
  has counted it, which takes the bot one turn of its main loop and one answer of
  the game, unless the connection is lost just then. Without it
  `CreditsOnce` is violated: `w` survives `wipeData`, so a bot that loses the
  connection at the end of a match and comes back in the next takes the first client list for that
  of the end (RenX_Ladder.cpp:67, where neither `isRanked` nor `isReliable` is
  asked again), and the points of the match being played are counted there and again at its end.

* `moderators`: two players of one name, one of them without Steam and therefore
  known by the name; three groups, of levels 0, 3 and 5, so that there is one below, at and
  above what each of the two IRC users may give; at most one section at a time, which is
  deleted and added again.
* `commands`: two servers in one type of channel, one of them competitive; on one, two players
  of whom one's name is part of the other's, on the other a bot and a namesake; three channels;
  texts that are a name, part of one, an id, and a duration; one warning allowed. Every command is given with
  every one of these parameters in every state.
* `game`: two players, one of them banned from voting; two matches with a change of map between
  them, seamless or not; one deed in a match, two where deeds build on
  each other (deaths, votes); two unread lines, behind which the game waits,
  which is enough for a line, a list and a vote to cross; three commands in flight; two
  connections where losing one matters (`end`, `web`), one elsewhere; `PlayerLimit` 2. The kinds of events
  touch different fields and different handlers, and only meet in the match they belong to, so a behaviour is
  about one `topic`, which `Init` chooses. These bounds stop the game in the end, hence no check for deadlock.

### Fairness

Only the bot's own steps are fair, weakly: the main loop calls `think` of every
plugin every millisecond for ever (Main.cpp:138-164), and `think` reads what
has arrived, looks at its timers and connects again. So `Think` and `Tick` in
`RconSession`, and `HandleLine`, `CycleRDNS` and `Connected` in `PlayerRoster`.
Nothing is assumed of game servers, look-ups or the network: they may be silent for
ever. `GivesUp` holds for a limited number of attempts only; `EndedWhenEmpty` only
for players who leave one by one while the bot stays connected (its
configuration leaves out the rest): a server that is emptied by a wipe or while
the bot is away is not ended. The other runs have no liveness properties:
what must come is stated as what is on its way (`EverythingIsAnswered`, `WaitsForAList`, `BannedVotesFall`).

## Proofs

All theorems hold for every value of the constants that the named assumptions
(`RconAssumption`, `RosterAssumption`, `ModerationAssumption`, `KindsAssumption`, `ModeratorsAssumption`,
`RelayAssumption`, `MatchAssumption`, `LadderAssumption`, `GameServersAssumption`, `IRCCommandsAssumption`,
`CommandsAssumption`, `GameAssumption`) allow; what a theorem assumes beyond them is in its statement.

* **RconSession.** `FullyConnectedSound` and `SubscribedAttribution` are not
  inductive: whom a reply is attributed to depends on the last command logged,
  which depends on what was sent before, on this connection or an earlier one.
  `IInv` adds what the stream can hold in each phase: nothing from a connection
  that is gone (`DisconnectedOK`), whole or cut lines and the residue
  (`LinesOK`, `ResidueOK`), what may be answered before the subscription is
  logged (`EarlyOK`) and, after it, that each reply is preceded by the log line
  of its own command (`LateOK`). The proof has one lemma per action;
  `TypeCorrect`, `InvariantHolds`, `FullyConnectedIsSound`,
  `SubscribedAttributionHolds`, `NoStalePlayersHolds` and `ErasedIsSound`
  follow.
* **Moderation.** A handler is a composition of functions on a state record
  (`BanCheck`, `ExemptionCheck`, `WithBan`...), so each function has lemmas that
  say it keeps the state well formed (the file holds the entries, each at its
  position), that databases only grow and entries only become inactive, and that bans
  are enforced on whom it leaves checked; an action combines them.
  `ModerationTypeCorrect`, `BansEnforced`, `ExemptionsDurable` need no more.
  `BansDurable` is proved under `CrashUpgrading = FALSE`: a stop in the middle
  of a rewrite does lose entries, and the theorem says so.
  A second round of lemmas over the same functions (`StepFair`) says which entries a step may
  deactivate and whom it may kick: `BansRun`, which needs that nothing is in memory before a file is
  read (`Idle`), and `ExemptSpared`, whose invariant `ExemptionsHeld` says that every listed player has the
  flags of the exemptions that named it when it was looked up. What is told of a player later is only checked against bans, so
  that one rests on `KindsAssumption` (hardware ids and host names are no steam ids or addresses), and it
  assumes `RconBan = FALSE`: a server told to ban over RCON kicks whom it bans for good, exempt or not.
* **Moderators.** `NoEscalation` is not inductive: a rehash gives players the levels of
  sections, so those must be bounded as well. `OutranksForAReason` is not either: a logout
  takes the access back only if it is not above what the login gave, so whoever has
  more than that must already have another reason while he is logged in. `IInv` says both:
  every section's level is one that somebody may give, and every player has a
  reason (`Reasoned`) to be above the default group and above his login. One lemma per
  action, over what each does to a record (`FromLevelFacts`, `WithLoginFacts`,
  `AuthOutcome`); `SectionsAreSound`, `NobodyEscalates` and `NobodyOutranksForNothing` follow.

* **PlayerRoster.** `ListIsTheGames` speaks of a log of any length and is only true when the list
  was received, so it says nothing about the steps before that. `IInv` relates list and game at all
  times: there is a course of the list over the unread lines (`Course`), a set of ids and the
  hardware ids known after each line, which begins at the list of the bot and arrives at the
  clients of the game, or at some of them while the list is awaited (`Arrives`). A line
  that is written makes the course longer at its end, a line that is handled takes its beginning
  away, so that each action is one lemma about one end. Besides, an id that a line gives somebody is
  new to the bot (`Fresh`), a closed connection leaves nothing (`Closed`), and the awaited look-ups are as
  many as `pending` says (`PendingOK`). `FoldFacts` shows that the fold in the property is the end of a course.
  From `IInv`: `ListIsSound`, `ListIsKept`, `HardwareIsKept`, `EndsOnlyWhenEmpty` and `OnlyGhostsAreKicked`.
* **Relay.** Nothing names a command but its place in three queues. `IInv` has a function from the entries of
  `tracker` to the positions of the commands in the queues of their sessions, increasing for each
  session and covering all commands that are not made up; `OInv` has one from `tracker` to the lines and
  commands on the way. `QueuesStaySound` needs the first and assumes that no upstream is lost with
  a command pending (`~LosesPending`); `NobodyGetsConfused` and `EverythingGetsAnswered` need both, and also one game
  server (`OneServer`) and that an echo is the whole command (`EchoesAreWhole`). Each hypothesis is needed: see
  `relay_loses_pending` and the notes below on the order kept for all servers and on the echo.
* **Commands.** One step is one command, so the invariant is about the report in `last`: every order in it
  is one that the command may give to that server about that person (`Permitted`), and the orders, addresses and
  warnings in it are as they should be (`Proper`). It is inductive with the fact that nobody is
  listed on a server that is not connected, without which a warning could be past the
  limit and nobody be kicked. The look-ups by name, part of a name and id have lemmas of their own:
  whoever is found is listed, and the one whose whole name was typed comes first (`FullNamesAreExact`).
* **Season.** `Inv` is the types, ladders in order (`LadderOK`), `BehindOK` for the two of them, `MedalsOK` and
  `WaitsForAList`. Its lemmas are about lists of any length: `SortFacts` (`SortEntries` brings every list in
  order and changes nobody), `CountingFacts` and `FairFacts` (a match adds what it says, once),
  `BehindFacts` (of two ladders the one that is behind stays behind), `CutFacts` (what was
  written of a file is a ladder). `LaddersStaySound` follows, and `RecommendationsAreKept` for uuids
  made of names. `CreditsOnce` is not a matter of the ladder alone: that nothing is counted twice depends on
  what is on the way to it. `OrderOK` says which lines can be behind each other when the game
  waits for the bot (`Prompt`), and `TotalsOK` that, as long as the present match may still be counted
  (`Pending`), total and points together are no more than was made, for the points the game
  has, those the server has, and those in any list that is unread (`Uncounted`). With both, each
  step is one of `ScoreBoard` or none (`TotalsStep`, `BoardMoves`, `PointsAreCreditedOnce`). TLC has checked both as invariants
  of the run's instance.
* **Game.** The properties are about what the bot will know when it has read what is on its way, and none of
  them is inductive: a list that replaces counters may itself be overtaken by lines behind it, and whether a
  vote will fall depends on whether the player who called it is known when that line is read. `Knows` has a mind
  for every place in the unread log: what the bot knows now, after one line, after two (`Trail`). Each is
  what the line makes of the one before (`Reading`, through `After` of GameLog); in the last one the players are the
  game's, and with the list answered or not their counters, characters and results fit (`Mirrors`, `Fits`);
  at every place the line is one that the game writes to such a reader (`Due`): who joins is not
  listed, who leaves is, a match ends that was being played. A line that the game writes adds a mind at
  the end (`TrailExtended`), one that the bot reads takes the first away (`TrailShortened`), so each kind of line
  has one lemma about what it does to a mind and what the deed does to the game (`Leads`), in which the game's
  own counting (`Counts`) is compared with the code's. The rest of `Knows` are the types (`Typed`), that nobody
  whom the bot has not seen is said to be seen while there is no connection (`Connected`), the match that a
  sure gameover was scheduled in (`Timed`) and which votes no command is on its way for (`Innocent`).
  `SpecChannels` adds what handlers say for each line (`Decent`, one fact per handler), for configurations that
  make nothing public that is not by default, and announce joins and parts, without which nobody in a channel could
  know who is there. `SpecPages` adds a second invariant (`ShowsWell`), which is inductive with the first: what is
  listed, counted and kept of the details at all times, and that the answer to the ping is the last that the bot waits for
  (`Orderly`), so that a server is on the list only when its list of players has been read; without that a row
  would make the count wrong by more than one.

How a fold or a recursive function goes through a sequence is proved where a proof needs it, from the
function it is the last value of, by the least number at which the claim fails (`Least`, `Induction`).

Every invariant and action property of a passing run is stated by a theorem. Only model-checked, being out of the
prover's reach: liveness under fairness (`NoHalfOpenSession`, `GivesUp`, `LookupsAnnounced`,
`EndedWhenEmpty`) and `ENABLED`.

## Where code and documentation disagree, without a run

Met while modelling; the models follow the code.

* A lost connection is retried at once, without the delay between attempts (RenX_Server.cpp:124).
* `m_port` is overwritten by any reply with that field (RenX_Server.cpp:2029).
* A keepalive answered early is not sent again (RenX_Server.cpp:156, comment at 155).
* A look-up may be noticed for a player already identified (RenX_Server.cpp:1549, RenX_PlayerInfo.h:96).
* A game emptied while the bot is away is never ended (`gameoverWhenEmpty`).
* `isMatchOver` calls itself (RenX_Server.cpp:233); nothing calls it.
* `TempChatBan` on IRC neither mutes nor checks, its help says it mutes (RenX_Commands.cpp:2170).
* The duration given to `AddExemption` is read from the wrong word, and exemptions with a term are treated as over until it has passed.
* The ladder's name search stops one output early (RenX_LadderDatabase.cpp:294, RenX_LadderDatabase.h:124).
* "Only one recommendation per game" is per stay of the player entry (RenX_Medals.cpp:366-371).
* `Medals` looks players up by name when it is loaded or rehashed, by uuid otherwise (RenX_Medals.cpp:274).
* The daily ladder starts afresh with the first match that ends on a day with another day of the week than the last; a restart over midnight keeps yesterday's entries.
* `KillsPerSecond` of ExcessiveHeadshots is compared with kills per millisecond (RenX_ExcessiveHeadshots.cpp:53).
* Relay: steam ids are only sanitized along with addresses or hardware ids (RenX_Relay.cpp:504-508); the echo of an unknown command has no parameters (RenX_Relay.cpp:701, RenX_Relay.h:33).
* The IRC configuration is re-read from a section "Defualt" (ServerManager.cpp:75).

Session and core:

* `m_lastLine` and `m_lastCommand` survive `wipeData` (RenX_Server.h:1010): the first line of a connection may complete the last of another.
* `OnRehash` restores the old address if the new section has a host name, and keeps the new one if it has none (RenX_Server.cpp:172).
* `Core::getServer` accepts the index one past the last; `removeServer(Server*)` returns the distance from the end.
* The relay keeps one order for the commands of all game servers (RenX_Relay.h:85): with two of them an answer can be taken for the other's.
* A gameover asked for when the match has just ended is read by the game in the next one, and ends it; so does one that was scheduled before the first list, or kept over a lost connection or a map that was changed (RenX_Server.cpp:150).
* `MinPlayers` counts the bots to be removed over all servers and never resets the count; `RenX_OnKill` looks at the killer where it means the victim (RenX_MinPlayers.cpp).
* `PluginManager` reloads a plugin by a name that belongs to the plugin it has freed.

Moderators (RenX_ModSystem.cpp):

* The level a section states is not bounded by its group, and `add` does not look at the level of who adds (359; baseline/Configs/RenX.ModSystem.ini:5).
* In the game, `auth` and `fauth` check the player named and authenticate who gave the command. `del` leaves the access of who is listed.
* A player who is turned away for a failed lock keeps the access he had; a steam id learnt later changes the uuid without anybody looking at the sections again.

Commands (RenX_Commands.cpp, RenX_Warn.cpp, IRC_Command.cpp):

* For a level given for a type or channel the general section wins, for a plain level the one of the network.
* The destructor of a command in the game removes the first command with its trigger, its own or not.
* `BuildingInfo` drops elements before it reads them, and misses buildings ("Provides a list of buildings, and the status of each one.").
* The searches for bans and exemptions match everything with "any". `HostMsg`, `AdminMsg` and `SetMap` report on the last server only; `KickIRC` counts those exempt; `KillGame` says killed on servers where it does nothing; `PMsg` is silent without servers; `TeamChange` takes all whose names match in part.
* `tban` takes a name for a duration if it reads as one; "blackhand" is GDI where votes are cancelled.
* `Warn`, `Pardon`, `nmode` and `smode` in the game do not compare access. The notice of a ban by `WarnIRC` has its arguments in the wrong order (RenX_Warn.cpp:84).

Log (RenX_Server.cpp, RenX_Logging.cpp):

* Votes to add and remove bots read the team token for the one of the victim (3220 ff). The list of mutators never clears `m_pure`.
* Commands in chat are refused to those banned from the bot (1408); PLAYER Command lines run them (2955).
* `TSVehicleCratePublic` and `RAVehicleCratePublic` have no effect; the configuration shipped has `PlayerCommandPuiblic`, and lacks `AdminMessagePublic` and `AdminPagePublic`. The recording of a user replaces the name tag, not the internal one.

Web pages (RenX_ServerList.cpp):

* After a socket error with no attempts to reconnect the server is destroyed and no plugin told (RenX_Server.cpp:120-134): it stays on the list, which is of "the servers that the bot is connected to" (baseline/Configs/RenX.ServerList.ini:3).
* The count is made before who leaves is removed, so it is one too high until the next event (`CountsWithinOne`). A page made before the first list has no players until somebody joins or leaves.
* Without maps and mutators the details of a server with players have a comma first.

## Not modelled

* Formatting: tags, names of weapons and the like, the text of messages, and the plugins that
  write to files what RenX.Logging says. Web pages of the ladder, and skeletons.
* The Jupiter library (sockets, IRC, configuration, plugins), which is not in the repository and is
  modelled from its use where a component needs it. With it, the connections to IRC networks, the loading
  of plugins, and the relay between channels.
* The console thread: two threads and one slot under a mutex. That no line is lost
  or run twice is immediate; whether the main loop ever gets the mutex from a thread that keeps
  taking it again is up to the scheduler. What is typed there are the commands of IRC.
* Plugins without a promise to state: MinPlayers (a counter for all servers), ExcessiveHeadshots
  (thresholds, in floating point), announcements, greetings, recordings.
* In the modelled components: bots and temporary players in the list, names as identifiers of bans, bans
  that only send a message, failures of files, log lines that go to every upstream, noobs and greetings of
  the medals, the commands that only show what a ladder or a list of moderators has, aliases of
  commands, the clock of a match, and a server added or configured anew while the bot runs.
* Of the relay, the beginning of a line from an upstream that is lost: the code keeps it (`m_last_line`,
  RenX_Relay.cpp:75-79) and puts it in front of the first line of the next connection, whose command is then another
  one. Lines of upstreams are whole in `Relay`.
* `Staff` are the players with access; the code also asks for a name prefix, and counts administrators of the
  game (RenX_Commands.cpp:1193, 3430). What a command confirms to its caller in private is left out of what it tells.
* A limit of players that changes: `PlayerLimit` is what the reply to `gameinfo` said (RenX_Server.cpp:2046), which the bot
  has before a server is on the list, and which is taken to stay.

## Plan

Nothing that a run checks is left to prove but liveness. What would extend the project next is in the section before: the
components without a module, and what the modelled ones leave out.
