------------------------------- MODULE Relay -------------------------------
(***************************************************************************)
(* RenX.Relay: every game server the bot is fully connected to is listed   *)
(* with a number of upstream hosts, to each of which the relay behaves     *)
(* like that game server.  It passes the upstreams' commands on over the   *)
(* one connection the bot itself uses, answers some of them on its own,    *)
(* and gives each response back to the upstream that asked for it, which   *)
(* it finds out from the order of the commands alone.                      *)
(*                                                                         *)
(* A session is one upstream of one game server.  What is said in the log  *)
(* and not in response to a command goes to everybody and is left out.     *)
(***************************************************************************)
EXTENDS Naturals, Sequences

CONSTANTS
  Servers,            \* game servers
  Upstreams,          \* m_configured_upstreams
  Commands,           \* command lines, of upstreams and of the bot
  Class,              \* what each is: known, a ping, blacklisted, unknown
  Word,               \* its first word
  FakePings, FakeSuppressed,                  \* settings
  SuppressUnknown, SuppressBlacklisted,
  LosesPending,       \* an upstream may be lost while the game has its commands
  MaxAsked, MaxSent   \* bounds: commands of an upstream, commands on their way

Sessions == Servers \X Upstreams
Classes  == {"known", "ping", "blacklisted", "unknown"}

ASSUME RelayAssumption ==
  /\ Class \in [Commands -> Classes]
  /\ Word \in [Commands -> Commands]
  /\ {FakePings, FakeSuppressed, SuppressUnknown, SuppressBlacklisted, LosesPending} \subseteq BOOLEAN
  /\ MaxAsked \in Nat \ {0} /\ MaxSent \in Nat \ {0}

\* in m_command_tracker, what is left of a session that was lost; what an
\* upstream is being told about when it is told nothing
CONSTANTS Lost, Nothing
ASSUME NoSession == Lost \notin Sessions /\ Nothing \notin Commands

VARIABLES
  linked,      \* servers that are fully connected: those in m_server_info_map
  up,          \* sessions whose upstream is connected: m_connected
  queue,       \* [Sessions -> Seq(UpstreamCommand)]: m_response_queue
  processing,  \* sessions a response is passed on to: m_processing_command
  tracker,     \* m_command_tracker
  tx,          \* [Servers -> Seq(Commands)]: commands on their way to the game
  rx,          \* [Servers -> Seq(Line)]: lines of the game, not handled yet
  view         \* [Sessions -> View]: what the upstream knows

relay == <<queue, processing, tracker>>
wire  == <<tx, rx>>
vars  == <<linked, up, relay, wire, view>>

UpstreamCommand == [command : Commands, isFake : BOOLEAN]
Line == [kind : {"executed", "response", "done"}, command : Commands]

\* asked: the commands it waits for, since it is connected; told: the one whose
\* response it is receiving; confused: it was told something it did not ask
View == [asked : Seq(Commands), told : Commands \cup {Nothing}, confused : BOOLEAN]
Idle == [asked |-> <<>>, told |-> Nothing, confused |-> FALSE]

TypeOK ==
  /\ linked \subseteq Servers
  /\ up \subseteq Sessions /\ processing \subseteq Sessions
  /\ queue \in [Sessions -> Seq(UpstreamCommand)]
  /\ tracker \in Seq(Sessions \cup {Lost})
  /\ tx \in [Servers -> Seq(Commands)] /\ rx \in [Servers -> Seq(Line)]
  /\ view \in [Sessions -> View]

Init ==
  /\ linked = {} /\ up = {} /\ processing = {} /\ tracker = <<>>
  /\ queue = [s \in Sessions |-> <<>>] /\ view = [s \in Sessions |-> Idle]
  /\ tx = [g \in Servers |-> <<>>] /\ rx = [g \in Servers |-> <<>>]

----------------------------------------------------------------------------
(***************************************************************************)
(* What an upstream makes of a line it is sent                             *)
(***************************************************************************)
Executed(c) == [kind |-> "executed", command |-> c]
Response(c) == [kind |-> "response", command |-> c]
Done(c)     == [kind |-> "done", command |-> c]

Expects(v, line) ==
  IF line.kind = "executed"
    THEN v.told = Nothing /\ v.asked # <<>> /\ line.command = Head(v.asked)
    ELSE v.told = line.command

Told(v, line) ==
  IF ~Expects(v, line) THEN [v EXCEPT !.confused = TRUE]
  ELSE CASE line.kind = "executed"  -> [v EXCEPT !.told = line.command]
         [] line.kind = "response"  -> v
         [] line.kind = "done"      -> [v EXCEPT !.told = Nothing, !.asked = Tail(@)]

\* to_rcon, of an answer the relay makes up
Faked(v, c) == Told(Told(v, Executed(c)), Done(c))

FakedAll(v, cs) ==
  LET after[n \in 0 .. Len(cs)] == IF n = 0 THEN v ELSE Faked(after[n - 1], cs[n].command)
  IN  after[Len(cs)]

----------------------------------------------------------------------------
(***************************************************************************)
(* Commands of an upstream: process_upstream_message                       *)
(***************************************************************************)
IsFake(c) == CASE Class[c] = "ping"        -> FakePings
               [] Class[c] = "unknown"     -> SuppressUnknown /\ FakeSuppressed
               [] Class[c] = "blacklisted" -> SuppressBlacklisted /\ FakeSuppressed
               [] OTHER                    -> FALSE

IsIgnored(c) == CASE Class[c] = "unknown"     -> SuppressUnknown /\ ~FakeSuppressed
                  [] Class[c] = "blacklisted" -> SuppressBlacklisted /\ ~FakeSuppressed
                  [] OTHER                    -> FALSE

\* the echo of an unknown command leaves its parameters out
EchoOf(c) == IF Class[c] = "unknown" /\ IsFake(c) THEN Word[c] ELSE c

MayAsk(s, c) ==
  /\ s \in up
  /\ Len(view[s].asked) < MaxAsked /\ Len(queue[s]) < MaxAsked
  /\ Len(tx[s[1]]) < MaxSent /\ Len(tracker) < MaxSent
  /\ ~IsIgnored(c)

Asking(s, c) == [view[s] EXCEPT !.asked = Append(@, c)]

\* mutant: an answer that is made up does not wait for its turn
AskFakeAtOnce(s, c) ==
  /\ MayAsk(s, c) /\ IsFake(c)
  /\ view' = [view EXCEPT ![s] = Faked(Asking(s, c), EchoOf(c))]
  /\ UNCHANGED <<linked, up, relay, wire>>

\* answered at once, unless commands that wait must be answered before
AskFake(s, c) ==
  /\ MayAsk(s, c) /\ IsFake(c)
  /\ IF queue[s] = <<>>
       THEN /\ view' = [view EXCEPT ![s] = Faked(Asking(s, c), EchoOf(c))]
            /\ UNCHANGED queue
       ELSE /\ view' = [view EXCEPT ![s] = Asking(s, c)]
            /\ queue' = [queue EXCEPT ![s] = Append(@, [command |-> EchoOf(c), isFake |-> TRUE])]
  /\ UNCHANGED <<linked, up, processing, tracker, wire>>

AskReal(s, c) ==
  /\ MayAsk(s, c) /\ ~IsFake(c)
  /\ view' = [view EXCEPT ![s] = Asking(s, c)]
  /\ queue' = [queue EXCEPT ![s] = Append(@, [command |-> c, isFake |-> FALSE])]
  /\ tracker' = Append(tracker, s)
  /\ tx' = [tx EXCEPT ![s[1]] = Append(@, c)]
  /\ UNCHANGED <<linked, up, processing, rx>>

----------------------------------------------------------------------------
(***************************************************************************)
(* Lines of a game server: RenX_OnRaw, process_renx_message                *)
(***************************************************************************)
Handling(g, kind) == g \in linked /\ rx[g] # <<>> /\ Head(rx[g]).kind = kind
NextLine(g) == rx' = [rx EXCEPT ![g] = Tail(@)]

\* the command that was executed is the one waited for, of whichever server
IsWaitedFor(c) ==
  /\ tracker # <<>> /\ Head(tracker) # Lost
  /\ Head(tracker) \notin processing
  /\ c = Head(queue[Head(tracker)]).command

HandleExecuted(g) ==
  /\ Handling(g, "executed")
  /\ NextLine(g)
  /\ LET s == Head(tracker)
     IN  IF IsWaitedFor(Head(rx[g]).command)
           THEN /\ processing' = processing \cup {s}
                /\ view' = [view EXCEPT ![s] = Told(@, Head(rx[g]))]
           ELSE UNCHANGED <<processing, view>>
  /\ UNCHANGED <<linked, up, queue, tracker, tx>>

\* the sessions of this game server that a response is passed on to
Receivers(g) == {s \in processing : s[1] = g}

\* a session that is lost is sent what is left of the response as well, which
\* its closed socket does not deliver
Pass(g, line) == [s \in Sessions |-> IF s \in Receivers(g) \cap up THEN Told(view[s], line)
                                                                   ELSE view[s]]

HandleResponse(g) ==
  /\ Handling(g, "response")
  /\ NextLine(g)
  /\ view' = Pass(g, Head(rx[g]))
  /\ UNCHANGED <<linked, up, relay, tx>>

\* mutant: those that waited for the command are not answered after it
FakesLeft(q) == <<>>

\* the made-up answers at the front of a queue
FakesOf(q) ==
  LET n == CHOOSE n \in 0 .. Len(q) : /\ \A i \in 1 .. n : q[i].isFake
                                      /\ n < Len(q) => ~q[n + 1].isFake
  IN  SubSeq(q, 1, n)

DoneTracked(g, after) ==
  /\ Handling(g, "done")
  /\ NextLine(g)
  /\ processing' = processing \ Receivers(g)
  /\ LET passed == Pass(g, Head(rx[g]))
         popped == {s \in Receivers(g) : queue[s] # <<>>}
         fakes(s) == FakesOf(Tail(queue[s]))
     IN  /\ queue' = [s \in Sessions |->
                        IF s \in popped THEN SubSeq(queue[s], Len(fakes(s)) + 2, Len(queue[s]))
                                        ELSE queue[s]]
         /\ view' = [s \in Sessions |->
                       IF s \in popped \cap up THEN FakedAll(passed[s], fakes(s)) ELSE passed[s]]
         /\ tracker' = IF popped = {} THEN tracker ELSE after
  /\ UNCHANGED <<linked, up, tx>>

\* mutant: the session stays the next in the order of commands
HandleDoneAgain(g) == DoneTracked(g, tracker)

\* the command is done: it and the made-up answers behind it leave the queue
HandleDone(g) == DoneTracked(g, Tail(tracker))

----------------------------------------------------------------------------
(***************************************************************************)
(* Connections: think, upstream_connected, upstream_disconnected,          *)
(* RenX_OnServerFullyConnected, RenX_OnServerDisconnect                    *)
(***************************************************************************)
Forgotten(ss) == [i \in DOMAIN tracker |-> IF tracker[i] \in ss THEN Lost ELSE tracker[i]]

\* a timeout or an error; what waits in the queue stays there. Lines are whole
\* here: what m_last_line keeps of one that was cut is not modelled
UpstreamLost(s) ==
  /\ s \in up
  /\ LosesPending \/ queue[s] = <<>>
  /\ up' = up \ {s}
  /\ tracker' = Forgotten({s})
  /\ view' = [view EXCEPT ![s] = Idle]
  /\ UNCHANGED <<linked, queue, processing, wire>>

UpstreamConnects(s) ==
  /\ s[1] \in linked /\ s \notin up
  /\ up' = up \cup {s}
  /\ UNCHANGED <<linked, relay, wire, view>>

\* the sessions of the server are destroyed
ServerLost(g) ==
  /\ g \in linked
  /\ LosesPending \/ \A s \in {g} \X Upstreams : queue[s] = <<>>
  /\ LET gone == {g} \X Upstreams
     IN  /\ linked' = linked \ {g} /\ up' = up \ gone /\ processing' = processing \ gone
         /\ tracker' = Forgotten(gone)
         /\ queue' = [s \in Sessions |-> IF s \in gone THEN <<>> ELSE queue[s]]
         /\ view' = [s \in Sessions |-> IF s \in gone THEN Idle ELSE view[s]]
         /\ tx' = [tx EXCEPT ![g] = <<>>] /\ rx' = [rx EXCEPT ![g] = <<>>]

\* those upstreams that accept are connected at once
ServerFullyConnected(g) ==
  /\ g \notin linked
  /\ linked' = linked \cup {g}
  /\ \E ss \in SUBSET ({g} \X Upstreams) : up' = up \cup ss
  /\ UNCHANGED <<relay, wire, view>>

----------------------------------------------------------------------------
(***************************************************************************)
(* The bot's own commands, and the game server                             *)
(***************************************************************************)
BotAsks(g, c) ==
  /\ g \in linked /\ Class[c] = "known" /\ Len(tx[g]) < MaxSent
  /\ tx' = [tx EXCEPT ![g] = Append(@, c)]
  /\ UNCHANGED <<linked, up, relay, rx, view>>

\* each command is logged, answered and done before the next
GameAnswers(g) ==
  /\ tx[g] # <<>> /\ Len(rx[g]) < MaxSent
  /\ tx' = [tx EXCEPT ![g] = Tail(@)]
  /\ LET c == Head(tx[g])
     IN  rx' = [rx EXCEPT ![g] = @ \o <<Executed(c), Response(c), Done(c)>>]
  /\ UNCHANGED <<linked, up, relay, view>>

Next ==
  \/ \E s \in Sessions : \/ UpstreamLost(s) \/ UpstreamConnects(s)
                         \/ \E c \in Commands : AskFake(s, c) \/ AskReal(s, c)
  \/ \E g \in Servers : \/ HandleExecuted(g) \/ HandleResponse(g) \/ HandleDone(g)
                        \/ ServerLost(g) \/ ServerFullyConnected(g) \/ GameAnswers(g)
                        \/ \E c \in Commands : BotAsks(g, c)

Spec == Init /\ [][Next]_vars

----------------------------------------------------------------------------
(***************************************************************************)
(* Properties                                                              *)
(***************************************************************************)

\* To an upstream the relay is a game server of its own: it is told the result
\* of the commands it asks, one after the other and in that order, whatever the
\* bot and other upstreams ask meanwhile and whichever answers are made up.
NobodyIsConfused == \A s \in Sessions : ~view[s].confused

\* When the game servers have answered all they were sent, so has the relay.
EverythingIsAnswered ==
  (\A g \in Servers : tx[g] = <<>> /\ rx[g] = <<>>) =>
    \A s \in up : view[s].asked = <<>>

\* process_renx_message asserts of a command that is done
\* "assert(m_command_tracker.front() == &server_info)"
DoneIsTheFront ==
  \A g \in Servers : Handling(g, "done") =>
    \A s \in Receivers(g) : queue[s] # <<>> => Head(tracker) = s

\* The command that RenX_OnRaw compares with the one executed is there: no
\* session is waited for after the last of its commands is done, or after its
\* server is gone and it comes back with an empty queue.
FrontIsQueued ==
  (tracker # <<>> /\ Head(tracker) # Lost) => \E i \in DOMAIN queue[Head(tracker)] :
                                                 ~queue[Head(tracker)][i].isFake

\* The queues and the order of commands agree, whoever asks, is lost or comes back.
QueuesSound == TypeOK /\ FrontIsQueued /\ DoneIsTheFront
============================================================================
