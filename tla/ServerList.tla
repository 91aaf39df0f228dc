----------------------------- MODULE ServerList -----------------------------
(***************************************************************************)
(* The RenX.ServerList plugin: what it shows web clients of the servers    *)
(* the bot is connected to.  One page lists the servers and is kept ready, *)
(* with its totals; one has the details of a server, and is made when it   *)
(* is asked for and kept until something happens; one is made every time.  *)
(*                                                                         *)
(* A server is [name, connected, full, active]: whether it is connected,   *)
(* and fully connected, and the players that are active.                   *)
(***************************************************************************)
EXTENDS Naturals, FiniteSets, SequencesExt

CONSTANT PlayerLimit   \* the most players a server is said to have; the reply to
                       \* gameinfo is known before it is listed

Stale == [stale |-> TRUE, players |-> {}]

AddIfShown(shown, s) == IF s.connected /\ s.full THEN Append(shown, s) ELSE shown
Shown(servers) == FoldLeft(AddIfShown, <<>>, servers)

getListedPlayerCount(n) == IF n <= PlayerLimit THEN n ELSE PlayerLimit

server_as_json(s) == [name |-> s.name, players |-> getListedPlayerCount(Cardinality(s.active))]
server_as_server_details_json(s) == [stale |-> FALSE, players |-> s.active]
server_as_long_json(s) == [name |-> s.name, active |-> s.active]

AddPlayers(n, s) == n + server_as_json(s).players
Totals(servers) == [servers |-> Len(Shown(servers)), players |-> FoldLeft(AddPlayers, 0, Shown(servers))]
updateMetadata(pages, servers) == [pages EXCEPT !.metadata = Totals(servers)]

updateServerList(pages, servers) ==
  LET shown == Shown(servers)
  IN  updateMetadata([pages EXCEPT !.list = [i \in DOMAIN shown |-> server_as_json(shown[i])]], servers)

\* the other servers are left as they were
addServerToServerList(pages, servers, s) ==
  updateMetadata([pages EXCEPT !.list = Append(@, server_as_json(s))], servers)

markDetailsStale(pages, s) == [pages EXCEPT !.details[s.name] = Stale]
touchDetails(pages, s) ==
  IF pages.details[s.name].stale
  THEN [pages EXCEPT !.details[s.name] = server_as_server_details_json(s)] ELSE pages

\* initialize
InitialPages(servers) ==
  updateServerList([list |-> <<>>, metadata |-> [servers |-> 0, players |-> 0],
                    details |-> [name \in {servers[i].name : i \in DOMAIN servers} |-> Stale]], servers)

----------------------------------------------------------------------------
RenX_OnServerFullyConnected(pages, servers, s) == addServerToServerList(pages, servers, s)

\* mutant: only the details are forgotten
RenX_OnServerDisconnectQuietly(pages, servers, s) == markDetailsStale(pages, s)
RenX_OnServerDisconnect(pages, servers, s) == markDetailsStale(updateServerList(pages, servers), s)

RenX_OnJoin(pages, servers, s) == updateServerList(markDetailsStale(pages, s), servers)

\* told before the player is removed, and not of a server that leaves its players behind
RenX_OnPart(pages, servers, s, leftBehind) ==
  IF leftBehind THEN pages ELSE updateServerList(markDetailsStale(pages, s), servers)

RenX_OnMapLoad(pages, servers, s) == updateServerList(markDetailsStale(pages, s), servers)

handle_server_list_long_page(servers) ==
  LET shown == Shown(servers) IN [i \in DOMAIN shown |-> server_as_long_json(shown[i])]
handle_server_page(pages, s) == touchDetails(pages, s)
=============================================================================
