---------------------------- MODULE PlayerRoster ----------------------------
(***************************************************************************)
(* The player list of a RenX::Server: learnt from the log of the game, one *)
(* line at a time, from lists the game sends on request, and from any line *)
(* that names a player; the reverse DNS look-up of each player's address,  *)
(* which ends on a thread of its own; and what waits for the list to say   *)
(* something: gameoverWhenEmpty, and the KickDupes plugin, which kicks      *)
(* clients that share a hardware id.                                       *)
(*                                                                         *)
(* Bots are left out: they have no address and no hardware id, and are not *)
(* counted where a server is asked whether it is empty.                    *)
(***************************************************************************)
EXTENDS Naturals, FiniteSets, SequencesExt

CONSTANTS
  MaxId,         \* bound: ids the game hands out, 1 .. MaxId, each once
  HWIDs,         \* hardware ids
  IPs,           \* addresses of clients: "v4", or "odd", which pton4 reads as 0
  ResolvesRDNS,  \* m_resolve_player_rdns
  DevelopmentServer,  \* the version of the game server says -DEV
  Travels,       \* ways the game changes the map: "seamless", "nonseamless"
  MaxLinks,      \* bound: connections of the bot to the game server
  MaxLists,      \* bound: lists asked for in a connection
  MaxLog         \* bound: the game does nothing while more lines are unread

Unknown == ""   \* an address, or a hardware id, that the bot was not told

ASSUME RosterAssumption ==
  /\ MaxId \in Nat \ {0} /\ MaxLinks \in Nat \ {0} /\ MaxLists \in Nat /\ MaxLog \in Nat
  /\ Unknown \notin HWIDs
  /\ IPs \subseteq {"v4", "odd"}
  /\ {ResolvesRDNS, DevelopmentServer} \subseteq BOOLEAN
  /\ Travels \subseteq {"seamless", "nonseamless"}

Tolerance == 1  \* RenX_KickDupesPlugin::s_tolerance

VARIABLES
  clients,    \* the game: the players present, [id -> [ip, hwid]]
  nextId,     \* the game: the id it hands out next
  log,        \* lines of the game server that the bot has not handled
  asked,      \* a list was asked for and not yet sent
  lists,      \* lists asked for in this connection
  links,      \* connections so far
  linked,     \* the bot is connected and subscribed
  players,    \* players: the list of the bot, in the order of its creation
  pending,    \* m_player_rdns_resolutions_pending
  whenEmpty,  \* m_gameover_when_empty
  kicks,      \* kick commands on their way: the ids they name
  endmap      \* an endmap command is on its way

game == <<clients, nextId>>
bot  == <<players, pending, whenEmpty>>
wire == <<log, asked, lists, links, linked, kicks, endmap>>
vars == <<game, bot, wire>>

Ids     == 1 .. MaxId
Client  == [ip : IPs, hwid : HWIDs \cup {Unknown}]
Lookups == {"none", "running", "found", "failed"}
Player  == [id : Ids, ip : IPs \cup {Unknown}, hwid : HWIDs \cup {Unknown},
            lookup : Lookups, waiting : BOOLEAN]   \* waiting: rdns_pending
Line    == [kind : {"Enter", "HWID", "Named", "Exit", "ChangeID", "Row",
                    "Seamless", "Nonseamless"},
            id : Ids, to : Ids, ip : IPs \cup {Unknown}, hwid : HWIDs \cup {Unknown}]

About(kind, id, ip, hwid) == [kind |-> kind, id |-> id, to |-> id, ip |-> ip, hwid |-> hwid]
Renumbered(id, to) == [kind |-> "ChangeID", id |-> id, to |-> to, ip |-> Unknown, hwid |-> Unknown]

TypeOK ==
  /\ nextId \in 1 .. MaxId + 1
  /\ DOMAIN clients \subseteq 1 .. nextId - 1
  /\ \A id \in DOMAIN clients : clients[id] \in Client
  /\ log \in Seq(Line)
  /\ players \in Seq(Player)
  /\ pending \in Nat
  /\ {asked, linked, whenEmpty, endmap} \subseteq BOOLEAN
  /\ lists \in 0 .. MaxLists /\ links \in 0 .. MaxLinks
  /\ kicks \subseteq Ids

Listed == {players[i].id : i \in DOMAIN players}
IndexOf(list, id) == SelectInSeq(list, LAMBDA p : p.id = id)

----------------------------------------------------------------------------
(***************************************************************************)
(* getPlayerOrAdd, with the look-ups it starts                             *)
(***************************************************************************)

NewPlayer(id, ip, hwid) ==
  LET resolve == ResolvesRDNS /\ ip = "v4"
  IN  [id |-> id, ip |-> ip, hwid |-> hwid,
       lookup |-> IF resolve THEN "running" ELSE "none", waiting |-> resolve]

\* a listed player whose address is not known is given one, and then resolved
Resolves(p, ip) == p.ip # "v4" /\ ip # Unknown /\ ResolvesRDNS

\* mutant: a hardware id learnt late is dropped
CompletedAddressOnly(p, ip, hwid) ==
  [p EXCEPT !.ip      = IF p.ip # "v4" /\ ip # Unknown THEN ip ELSE @,
            !.lookup  = IF Resolves(p, ip) THEN "running" ELSE @,
            !.waiting = @ \/ Resolves(p, ip)]

Completed(p, ip, hwid) ==
  [p EXCEPT !.ip      = IF p.ip # "v4" /\ ip # Unknown THEN ip ELSE @,
            !.hwid    = IF @ = Unknown THEN hwid ELSE @,
            !.lookup  = IF Resolves(p, ip) THEN "running" ELSE @,
            !.waiting = @ \/ Resolves(p, ip)]

\* mutants: the list is not searched; a later look-up is not counted
GetPlayerOrAddUnsearched(id, ip, hwid) ==
  /\ players' = Append(players, NewPlayer(id, ip, hwid))
  /\ pending' = IF NewPlayer(id, ip, hwid).waiting THEN pending + 1 ELSE pending

GetPlayerOrAddUncounted(id, ip, hwid) ==
  LET i == IndexOf(players, id)
  IN  IF i = 0
        THEN /\ players' = Append(players, NewPlayer(id, ip, hwid))
             /\ pending' = IF NewPlayer(id, ip, hwid).waiting THEN pending + 1 ELSE pending
        ELSE /\ players' = [players EXCEPT ![i] = Completed(@, ip, hwid)]
             /\ pending' = pending

GetPlayerOrAdd(id, ip, hwid) ==
  LET i == IndexOf(players, id)
  IN  IF i = 0
        THEN /\ players' = Append(players, NewPlayer(id, ip, hwid))
             /\ pending' = IF NewPlayer(id, ip, hwid).waiting THEN pending + 1 ELSE pending
        ELSE /\ players' = [players EXCEPT ![i] = Completed(@, ip, hwid)]
             /\ pending' = IF Resolves(players[i], ip) THEN pending + 1 ELSE pending

\* removePlayer, of the first player with this id
RemovePlayer(id) ==
  LET i == IndexOf(players, id)
  IN  IF i = 0 THEN UNCHANGED <<players, pending>>
      ELSE /\ players' = RemoveAt(players, i)
           /\ pending' = IF players[i].waiting THEN pending - 1 ELSE pending

WipePlayers == players' = <<>> /\ pending' = 0

\* mutant: one twin is one too many
DuplicatesIntolerant(list, p) ==
  {list[i].id : i \in {j \in DOMAIN list : /\ ~DevelopmentServer
                                          /\ list[j].hwid = p.hwid /\ list[j].id # p.id}}

\* RenX_OnPlayerIdentify of KickDupes: walking the list, every further player
\* with the same hardware id beyond the tolerated number is kicked, unless the
\* server is for development
Duplicates(list, p) ==
  LET same(n) == {i \in 1 .. n : list[i].hwid = p.hwid /\ list[i].id # p.id}
  IN  {list[i].id : i \in {j \in same(Len(list)) : ~DevelopmentServer /\ Cardinality(same(j)) > Tolerance}}

Init ==
  /\ clients = << >> /\ nextId = 1
  /\ log = <<>> /\ asked = FALSE /\ lists = 0 /\ links = 0 /\ linked = FALSE
  /\ players = <<>> /\ pending = 0 /\ whenEmpty = FALSE
  /\ kicks = {} /\ endmap = FALSE

----------------------------------------------------------------------------
(***************************************************************************)
(* The game server                                                         *)
(***************************************************************************)

\* what the game writes reaches the bot only while it is connected
Write(lines) ==
  /\ Len(log) < MaxLog
  /\ log' = IF linked THEN log \o lines ELSE log

Join(ip, hwid) ==
  /\ nextId <= MaxId
  /\ clients' = [id \in DOMAIN clients \cup {nextId} |->
                   IF id = nextId THEN [ip |-> ip, hwid |-> hwid] ELSE clients[id]]
  /\ nextId' = nextId + 1
  /\ Write(<<About("Enter", nextId, ip, hwid)>>)
  /\ UNCHANGED <<bot, asked, lists, links, linked, kicks, endmap>>

\* the hardware id of a client may only be known some time after it joined
TellHWID(id, hwid) ==
  /\ clients[id].hwid = Unknown
  /\ clients' = [clients EXCEPT ![id].hwid = hwid]
  /\ Write(<<About("HWID", id, Unknown, hwid)>>)
  /\ UNCHANGED <<nextId, bot, asked, lists, links, linked, kicks, endmap>>

\* chat, a team change, a kill: any line that names a player
Mention(id) ==
  /\ Write(<<About("Named", id, Unknown, Unknown)>>)
  /\ UNCHANGED <<game, bot, asked, lists, links, linked, kicks, endmap>>

Without(id) == [other \in DOMAIN clients \ {id} |-> clients[other]]

Leave(id) ==
  /\ clients' = Without(id)
  /\ Write(<<About("Exit", id, Unknown, Unknown)>>)
  /\ UNCHANGED <<nextId, bot, asked, lists, links, linked, kicks, endmap>>

ChangeId(id) ==
  /\ nextId <= MaxId
  /\ clients' = [other \in (DOMAIN clients \ {id}) \cup {nextId} |->
                   IF other = nextId THEN clients[id] ELSE clients[other]]
  /\ nextId' = nextId + 1
  /\ Write(<<Renumbered(id, nextId)>>)
  /\ UNCHANGED <<bot, asked, lists, links, linked, kicks, endmap>>

\* clients stay connected over a seamless change of the map; after any other
\* they join anew
Travel(how) ==
  /\ clients' = IF how = "seamless" THEN clients ELSE << >>
  /\ Write(<<[kind |-> IF how = "seamless" THEN "Seamless" ELSE "Nonseamless",
              id |-> 1, to |-> 1, ip |-> Unknown, hwid |-> Unknown]>>)
  /\ UNCHANGED <<nextId, bot, asked, lists, links, linked, kicks>>

GameTravels == \E how \in Travels : Travel(how) /\ UNCHANGED endmap

GameEndsMap == endmap /\ endmap' = FALSE /\ \E how \in Travels : Travel(how)

GameKicks(id) ==
  /\ id \in kicks
  /\ kicks' = kicks \ {id}
  /\ IF id \in DOMAIN clients
       THEN clients' = Without(id) /\ Write(<<About("Exit", id, Unknown, Unknown)>>)
       ELSE UNCHANGED <<clients, log>>
  /\ UNCHANGED <<nextId, bot, asked, lists, links, linked, endmap>>

\* the list that was asked for, one row for each client
GameLists ==
  /\ asked /\ asked' = FALSE
  /\ LET ids == SetToSeq(DOMAIN clients)
     IN  Write([i \in DOMAIN ids |->
                  About("Row", ids[i], clients[ids[i]].ip, clients[ids[i]].hwid)])
  /\ UNCHANGED <<game, bot, lists, links, linked, kicks, endmap>>

Game == \/ \E ip \in IPs, hwid \in HWIDs \cup {Unknown} : Join(ip, hwid)
        \/ \E id \in DOMAIN clients : \/ \E hwid \in HWIDs : TellHWID(id, hwid)
                                      \/ Mention(id) \/ Leave(id) \/ ChangeId(id)
        \/ GameTravels \/ GameEndsMap \/ GameLists
        \/ \E id \in Ids : GameKicks(id)

----------------------------------------------------------------------------
(***************************************************************************)
(* The bot: processLine, one action per kind of line                       *)
(***************************************************************************)
Handling(kind) == log # <<>> /\ log[1].kind = kind

\* gameover sends endmap and forgets that it was waited for
Gameover == whenEmpty' = FALSE /\ endmap' = linked

\* PLAYER Enter, a row of a list, and any line that names a player
HandleMention(kind) ==
  /\ Handling(kind)
  /\ log' = Tail(log)
  /\ GetPlayerOrAdd(log[1].id, log[1].ip, log[1].hwid)
  /\ UNCHANGED <<game, whenEmpty, asked, lists, links, linked, kicks, endmap>>

\* PLAYER HWID: the player is identified, unless the look-up is still awaited
HandleHWID ==
  LET i == IndexOf(players, log[1].id)
      p == IF i = 0 THEN NewPlayer(log[1].id, Unknown, Unknown) ELSE players[i]
      known == [p EXCEPT !.hwid = log[1].hwid]
  IN  /\ Handling("HWID")
      /\ log' = Tail(log)
      /\ players' = IF i = 0 THEN Append(players, known) ELSE [players EXCEPT ![i] = known]
      /\ kicks' = IF known.waiting THEN kicks ELSE kicks \cup Duplicates(players', known)
      /\ UNCHANGED <<game, pending, whenEmpty, asked, lists, links, linked, endmap>>

\* mutants: the test comes before the removal; a last player is overlooked
HandleExitTestsFirst ==
  /\ Handling("Exit")
  /\ log' = Tail(log)
  /\ RemovePlayer(log[1].id)
  /\ IF whenEmpty /\ players = <<>> THEN Gameover ELSE UNCHANGED <<whenEmpty, endmap>>
  /\ UNCHANGED <<game, asked, lists, links, linked, kicks>>

HandleExitOverlooks ==
  /\ Handling("Exit")
  /\ log' = Tail(log)
  /\ RemovePlayer(log[1].id)
  /\ IF whenEmpty /\ Len(players') <= 1 THEN Gameover ELSE UNCHANGED <<whenEmpty, endmap>>
  /\ UNCHANGED <<game, asked, lists, links, linked, kicks>>

HandleExit ==
  /\ Handling("Exit")
  /\ log' = Tail(log)
  /\ RemovePlayer(log[1].id)
  /\ IF whenEmpty /\ players' = <<>> THEN Gameover ELSE UNCHANGED <<whenEmpty, endmap>>
  /\ UNCHANGED <<game, asked, lists, links, linked, kicks>>

HandleChangeID ==
  LET i == IndexOf(players, log[1].id)
  IN  /\ Handling("ChangeID")
      /\ log' = Tail(log)
      /\ players' = IF i = 0 THEN players ELSE [players EXCEPT ![i].id = log[1].to]
      /\ UNCHANGED <<game, pending, whenEmpty, asked, lists, links, linked, kicks, endmap>>

\* mutant: every change of the map is taken to be seamless
HandleChangingSeamlessly ==
  /\ Handling("Seamless") \/ Handling("Nonseamless")
  /\ log' = Tail(log)
  /\ UNCHANGED <<game, players, pending, whenEmpty, asked, lists, links, linked, kicks, endmap>>

\* onMapChange only resets statistics on a seamless change
HandleChanging ==
  /\ Handling("Seamless") \/ Handling("Nonseamless")
  /\ log' = Tail(log)
  /\ IF log[1].kind = "Nonseamless" THEN WipePlayers ELSE UNCHANGED <<players, pending>>
  /\ UNCHANGED <<game, whenEmpty, asked, lists, links, linked, kicks, endmap>>

HandleLine == \/ \E kind \in {"Enter", "Row", "Named"} : HandleMention(kind)
              \/ HandleHWID \/ HandleExit \/ HandleChangeID \/ HandleChanging

----------------------------------------------------------------------------
(***************************************************************************)
(* The bot: look-ups, the start of a call of think, connections, commands  *)
(***************************************************************************)

\* the thread of a look-up ends; the host may have no name
LookupEnds(i, outcome) ==
  /\ players[i].lookup = "running"
  /\ players' = [players EXCEPT ![i].lookup = outcome]
  /\ UNCHANGED <<game, pending, whenEmpty, wire>>

\* cycle_player_rdns, which counts down and stops at zero
CycleRDNS ==
  LET resolved == {i \in DOMAIN players : players[i].waiting /\ players[i].lookup = "found"}
      done == {i \in resolved : Cardinality({j \in resolved : j < i}) < pending}
  IN  /\ linked /\ pending # 0 /\ done # {}
      /\ players' = [i \in DOMAIN players |->
                       IF i \in done THEN [players[i] EXCEPT !.waiting = FALSE]
                                     ELSE players[i]]
      /\ pending' = pending - Cardinality(done)
      /\ kicks' = kicks \cup UNION {Duplicates(players, players[i]) :
                                      i \in {j \in done : players[j].hwid # Unknown}}
      /\ UNCHANGED <<game, whenEmpty, log, asked, lists, links, linked, endmap>>

\* clientlist and clientvarlist with all fields, as an administrator may ask for
AskForList ==
  /\ linked /\ ~asked /\ lists < MaxLists
  /\ asked' = TRUE
  /\ lists' = lists + 1
  /\ UNCHANGED <<game, bot, log, links, linked, kicks, endmap>>

\* disconnect: what is on its way is lost, and wipeData keeps the wish to end
\* the game when the server is empty
Disconnected ==
  /\ linked /\ links < MaxLinks
  /\ linked' = FALSE /\ asked' = FALSE
  /\ log' = <<>> /\ kicks' = {} /\ endmap' = FALSE
  /\ WipePlayers
  /\ UNCHANGED <<game, whenEmpty, lists, links>>

\* the handshake: subscribed first, and then a list is asked for
Connected ==
  /\ ~linked
  /\ linked' = TRUE
  /\ links' = links + 1
  /\ asked' = TRUE
  /\ lists' = 0
  /\ UNCHANGED <<game, bot, log, kicks, endmap>>

GameoverWhenEmpty ==
  /\ IF players = <<>> THEN Gameover
     ELSE whenEmpty' = TRUE /\ UNCHANGED endmap
  /\ UNCHANGED <<game, players, pending, log, asked, lists, links, linked, kicks>>

Bot == \/ HandleLine \/ CycleRDNS \/ AskForList \/ Disconnected \/ Connected
       \/ GameoverWhenEmpty
       \/ \E i \in DOMAIN players, outcome \in {"found", "failed"} : LookupEnds(i, outcome)

Next == Game \/ Bot

Spec == Init /\ [][Next]_vars

\* the main loop keeps calling think, which reads what has arrived, looks for
\* look-ups that ended, and connects again
FairSpec == Spec /\ WF_vars(HandleLine) /\ WF_vars(CycleRDNS) /\ WF_vars(Connected)

----------------------------------------------------------------------------
(***************************************************************************)
(* Safety                                                                  *)
(***************************************************************************)

\* The list is the game's, as of the line last handled: when the lines that
\* were not read yet are applied to it, it holds the clients that are present,
\* whatever the bot missed while it was not connected.
Effect(ids, line) ==
  CASE line.kind = "Exit"        -> ids \ {line.id}
    [] line.kind = "ChangeID"    -> IF line.id \in ids THEN (ids \ {line.id}) \cup {line.to}
                                                       ELSE ids
    [] line.kind = "Nonseamless" -> {}
    [] line.kind = "Seamless"    -> ids
    [] OTHER                     -> ids \cup {line.id}

ListIsTheGames ==
  linked /\ ~asked => FoldLeft(Effect, Listed, log) = DOMAIN clients

\* Nobody is listed twice, which getPlayer and removePlayer rely on.
NoTwins == \A i, j \in DOMAIN players : players[i].id = players[j].id => i = j

\* m_player_rdns_resolutions_pending never runs out before the players that
\* wait for a look-up, and counts exactly them if every address can be read.
PendingCounted ==
  LET waiting == Cardinality({i \in DOMAIN players : players[i].waiting})
  IN  IF "odd" \in IPs THEN pending >= waiting ELSE pending = waiting

\* The list is a map from ids to players, and its count of awaited look-ups is right.
ListSound == TypeOK /\ NoTwins /\ PendingCounted

\* A hardware id, once the game has told it, is not forgotten: a client that is
\* listed and was told to have one is listed with it when the lines are read.
HardwareKnown ==
  linked /\ ~asked /\ log = <<>> =>
    \A i \in DOMAIN players : players[i].hwid = clients[players[i].id].hwid

\* The game is ended for want of players only if nobody is left, as far as the
\* lines tell that were handled (once the list was received).
EndsOnlyEmpty ==
  [][endmap' /\ ~endmap /\ ~asked => FoldLeft(Effect, {}, log') = DOMAIN clients]_vars

\* Who is kicked as a ghost is on the server, and so are at least two more
\* clients with the same hardware id, as far as the lines tell that were handled.
KicksAreGhosts ==
  [][\A id \in kicks' \ kicks :
       log' = <<>> /\ ~asked =>
         /\ id \in DOMAIN clients
         /\ Cardinality({c \in DOMAIN clients : clients[c].hwid = clients[id].hwid}) > 2]_vars

(***************************************************************************)
(* Liveness                                                                *)
(***************************************************************************)

\* Every look-up that finds a name is announced, or its player is gone.
LookupsAnnounced ==
  \A id \in Ids :
    LET found == \E i \in DOMAIN players :
                   players[i].id = id /\ players[i].waiting /\ players[i].lookup = "found"
    IN  found ~> ~found

\* A server for which it was asked is ended when it is empty. It holds while the
\* players leave it one by one and the bot stays connected, and not otherwise.
EndedWhenEmpty ==
  whenEmpty /\ clients = << >> ~> ~whenEmpty \/ clients # << >>

(***************************************************************************)
(* What the documentation of the code says, and the code does not do       *)
(***************************************************************************)

\* "Forces the game to end when the server is empty": it is never ended with
\* somebody on it, if every line was handled
EndsNoGame == [][endmap' /\ ~endmap /\ log' = <<>> => clients = << >>]_vars
============================================================================
