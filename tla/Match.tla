-------------------------------- MODULE Match --------------------------------
(***************************************************************************)
(* A game server from match to match, and the RenX::Server that mirrors    *)
(* it, as far as the plugins that keep score see them: who is on it, the   *)
(* points of the present match, and whether the bot saw the match start.   *)
(* The game logs what happens and answers requests for the client list on  *)
(* one connection, which may be lost at any time.                          *)
(***************************************************************************)
EXTENDS Naturals, Sequences, FiniteSets, SequencesExt

CONSTANTS
  Clients,       \* who may be on the game server
  Prompt,        \* no match starts before the bot knows all of the last one
  MaxMatches, MaxPoints, MaxLines, MaxSent    \* bounds

ASSUME MatchAssumption ==
  /\ IsFiniteSet(Clients) /\ Prompt \in BOOLEAN
  /\ {MaxMatches, MaxPoints, MaxLines, MaxSent} \subseteq Nat \ {0}

VARIABLES
  game,      \* the present match, and the points of those who play it
  career,    \* [Clients -> Nat]: all the points each one ever made
  tx,        \* requests of the bot, not answered yet
  rx,        \* lines of the game, not handled yet
  server     \* RenX::Server

matchVars == <<game, career, tx, rx, server>>
gameVars  == <<game, career>>

Offline == [up |-> FALSE, ranked |-> FALSE, reliable |-> FALSE, players |-> <<>>]
NoOne   == [c \in {} |-> 0]

MatchTypeOK ==
  /\ game.match \in 0 .. MaxMatches /\ game.phase \in {"playing", "over", "travelling"}
  /\ DOMAIN game.score \subseteq Clients
  /\ career \in [Clients -> 0 .. MaxPoints]
  /\ tx \in Seq({"list", "ping"})
  /\ {server.up, server.ranked, server.reliable} \subseteq BOOLEAN
  /\ server.players \in Seq([id : Clients, points : 0 .. MaxPoints])

MatchInit ==
  /\ game = [match |-> 0, phase |-> "travelling", score |-> NoOne]
  /\ career = [c \in Clients |-> 0]
  /\ tx = <<>> /\ rx = <<>> /\ server = Offline

----------------------------------------------------------------------------
(***************************************************************************)
(* The game                                                                *)
(***************************************************************************)
Log(line) == /\ Len(rx) < MaxLines
             /\ rx' = IF server.up THEN Append(rx, line) ELSE rx

Join(c) ==
  /\ game.phase # "travelling" /\ c \notin DOMAIN game.score
  /\ game' = [game EXCEPT !.score = [x \in DOMAIN @ \cup {c} |-> IF x = c THEN 0 ELSE @[x]]]
  /\ Log([kind |-> "join", who |-> c])
  /\ UNCHANGED <<career, tx, server>>

Leave(c) ==
  /\ c \in DOMAIN game.score
  /\ game' = [game EXCEPT !.score = [x \in DOMAIN @ \ {c} |-> @[x]]]
  /\ Log([kind |-> "leave", who |-> c])
  /\ UNCHANGED <<career, tx, server>>

Score(c) ==
  /\ game.phase = "playing" /\ c \in DOMAIN game.score /\ career[c] < MaxPoints
  /\ game' = [game EXCEPT !.score[c] = @ + 1]
  /\ career' = [career EXCEPT ![c] = @ + 1]
  /\ UNCHANGED <<tx, rx, server>>

EndMatch ==
  /\ game.phase = "playing"
  /\ game' = [game EXCEPT !.phase = "over"]
  /\ Log([kind |-> "end"])
  /\ UNCHANGED <<career, tx, server>>

Travel(seamless) ==
  /\ game.phase = "over" /\ game.match < MaxMatches
  /\ Prompt => rx = <<>> /\ tx = <<>>
  /\ game' = [match |-> game.match + 1, phase |-> "travelling",
              score |-> IF seamless THEN [c \in DOMAIN game.score |-> 0] ELSE NoOne]
  /\ Log([kind |-> "changing", seamless |-> seamless])
  /\ UNCHANGED <<career, tx, server>>

StartMatch ==
  /\ game.phase = "travelling"
  /\ game' = [game EXCEPT !.phase = "playing"]
  /\ Log([kind |-> "start"])
  /\ UNCHANGED <<career, tx, server>>

Answer ==
  /\ tx # <<>>
  /\ tx' = Tail(tx)
  /\ Log(IF Head(tx) = "list" THEN [kind |-> "list", rows |-> game.score] ELSE [kind |-> "ready"])
  /\ UNCHANGED <<gameVars, server>>

GameStep ==
  \/ \E c \in Clients : Join(c) \/ Leave(c) \/ Score(c)
  \/ EndMatch \/ StartMatch \/ Answer
  \/ \E seamless \in BOOLEAN : Travel(seamless)

----------------------------------------------------------------------------
(***************************************************************************)
(* The server: what each line does to it, before the plugins are told      *)
(***************************************************************************)
Handle(kind) ==
  /\ server.up /\ rx # <<>> /\ Head(rx).kind = kind
  /\ rx' = Tail(rx)
  /\ UNCHANGED gameVars

Line == Head(rx)
Listed == {server.players[i].id : i \in DOMAIN server.players}
Player(c, points) == [id |-> c, points |-> points]

ServerJoin ==
  /\ Handle("join")
  /\ server' = [server EXCEPT !.players =
                  IF Line.who \in Listed THEN @ ELSE Append(@, Player(Line.who, 0))]
  /\ UNCHANGED tx

ServerLeave ==
  /\ Handle("leave")
  /\ server' = [server EXCEPT !.players = RemoveFirstMatch(@, LAMBDA p : p.id = Line.who)]
  /\ UNCHANGED tx

\* rows complete the players they name, or add them
Completed ==
  LET rows == Line.rows
      known == [i \in DOMAIN server.players |->
                  LET p == server.players[i]
                  IN  IF p.id \in DOMAIN rows THEN Player(p.id, rows[p.id]) ELSE p]
      new == SetToSeq(DOMAIN rows \ Listed)
  IN  known \o [i \in DOMAIN new |-> Player(new[i], rows[new[i]])]

ServerList ==
  /\ Handle("list")
  /\ server' = [server EXCEPT !.players = Completed]
  /\ UNCHANGED tx

\* onMapChange: the statistics are reset, or the players are wiped
ServerChanging ==
  /\ Handle("changing")
  /\ server' = [server EXCEPT !.players =
                  IF Line.seamless THEN [i \in DOMAIN @ |-> Player(@[i].id, 0)] ELSE <<>>]
  /\ UNCHANGED tx

ServerStart ==
  /\ Handle("start")
  /\ server' = [server EXCEPT !.reliable = TRUE]
  /\ UNCHANGED tx

\* updateClientList, with what was asked before; nothing is asked for nobody
Asked == IF server.players = <<>> THEN tx ELSE Append(tx, "list")

UpdateClientList ==
  /\ server.up /\ Len(tx) < MaxSent /\ tx' = Asked
  /\ UNCHANGED <<gameVars, rx, server>>

ServerConnects ==
  /\ ~server.up
  /\ server' = [Offline EXCEPT !.up = TRUE]
  /\ tx' = <<"list", "ping">>
  /\ UNCHANGED <<gameVars, rx>>

\* disconnect, wipeData
ServerLost ==
  /\ server.up
  /\ server' = Offline /\ tx' = <<>> /\ rx' = <<>>
  /\ UNCHANGED gameVars
============================================================================
