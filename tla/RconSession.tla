---------------------------- MODULE RconSession ----------------------------
(***************************************************************************)
(* One RenX::Server of the bot and the game server at the other end of its *)
(* RCON connection: connecting, the version / authentication /            *)
(* subscription handshake, the burst of initial requests, the attribution  *)
(* of replies to requests, the two pings, and every way a session ends.    *)
(*                                                                         *)
(* RenX::Server::think is called by the main loop, one call at a time.  A  *)
(* call that receives data handles the lines one by one and then does its  *)
(* closing work, so a call is split at those points (pc); between them only *)
(* the game server and the network move.                                   *)
(***************************************************************************)
EXTENDS Integers, Sequences

CONSTANTS
  MaxAttempts,   \* m_maxAttempts: failed attempts before giving up, < 0: never
  Delay,         \* m_delay: time between two attempts of think
  PingRate,      \* m_pingRate: silence after which a ping is sent
  PingTimeout,   \* m_pingTimeoutThreshold: silence that ends an unanswered ping
  Updates,       \* m_clientUpdateRate or m_buildingUpdateRate is not zero
  GameVersions,  \* what the game server may announce: "ok", "old", "unnamed"
  AgeCap,        \* bound: the ages of the three time stamps saturate here
  MaxSessions,   \* bound: connections that succeed
  MaxInFlight    \* bound: a list update is only sent below this much traffic

ASSUME ConfigAssumption ==
  /\ MaxAttempts \in Int
  /\ AgeCap \in Nat
  /\ Delay \in 0 .. AgeCap
  /\ PingRate \in 0 .. AgeCap
  /\ PingTimeout \in 0 .. AgeCap
  /\ Updates \in BOOLEAN
  /\ GameVersions \subseteq {"ok", "old", "unnamed"}
  /\ MaxSessions \in Nat \ {0}
  /\ MaxInFlight \in Nat

VARIABLES
  connected,       \* m_connected
  attempts,        \* m_attempts
  erased,          \* think returned non-zero: Core::think erased the server
  subscribed,      \* m_subscribed
  fullyConnected,  \* m_fully_connected
  awaitingPong,    \* m_awaitingPong
  rconVersion,     \* m_rconVersion: "none" (0) or "ok" (3 and up)
  userKnown,       \* m_rconUser is the name the game logs this bot under
  lastCommand,     \* m_lastCommand
  port,            \* m_port: "right", or "wrong" once garbage was stored in it
  roster,          \* players: the sessions whose client list rows are in it
  residue,         \* m_lastLine: the line whose first part is kept in it
  sinceActivity,   \* age of m_lastActivity
  sinceSend,       \* age of m_lastSendActivity
  sinceAttempt,    \* age of m_lastAttempt
  pc,              \* where think is: "idle", "lines" or "tail"
  batch,           \* complete lines at the front of rx that recv has returned
  session,         \* connections made so far
  link,            \* the socket: "up", "broken" (the next recv may fail), "down"
  tx,              \* commands on their way to the game server
  rx,              \* lines written by the game server and not handled yet
  cut,             \* the first part of line rx[batch + 1] was received
  gameSubscribed,  \* the game server logs to this connection
  answered         \* initial requests whose reply was attributed, this session

wiped   == <<subscribed, fullyConnected, awaitingPong, rconVersion, userKnown,
             roster, answered>>
kept    == <<lastCommand, port, residue>>
clocks  == <<sinceActivity, sinceSend, sinceAttempt>>
network == <<session, link, tx, rx, cut, gameSubscribed>>
vars    == <<connected, attempts, erased, pc, batch, wiped, kept, clocks, network>>

(***************************************************************************)
(* Commands and lines.  The first token of a command is its name: the ping *)
(* that closes the initial burst and a keepalive share one, and so do the  *)
(* full client list and its updates.                                       *)
(***************************************************************************)
\* mutant: the closing ping is sent before the client list is asked for
PingBeforeList == <<"serverinfo", "initPing", "clientvarlist">>

Burst    == <<"serverinfo", "clientvarlist", "initPing">>
Queries  == {"serverinfo", "clientvarlist"}
Commands == {"auth", "s", "ping", "refresh", "initPing"} \cup Queries

Name(c) == CASE c = "initPing" -> "ping"
             [] c = "refresh"  -> "clientvarlist"
             [] OTHER          -> c

Kinds == {"none", "v", "a", "subscribed", "exec", "log", "r", "c"}
Words == Commands \cup {"ok", "old", "unnamed", ""}
Line  == [kind : Kinds, word : Words, sess : 1 .. MaxSessions, whole : BOOLEAN]

LineOf(k, w) == [kind |-> k, word |-> w, sess |-> session, whole |-> TRUE]
NoLine == [kind |-> "none", word |-> "", sess |-> 1, whole |-> TRUE]

\* m_lastLine still holds the first part of a line of an earlier connection
StaleResidue == residue.kind # "none" /\ residue.sess # session

TypeOK ==
  /\ connected \in BOOLEAN /\ erased \in BOOLEAN /\ subscribed \in BOOLEAN
  /\ fullyConnected \in BOOLEAN /\ awaitingPong \in BOOLEAN
  /\ userKnown \in BOOLEAN /\ cut \in BOOLEAN /\ gameSubscribed \in BOOLEAN
  /\ attempts \in Nat
  /\ rconVersion \in {"none", "ok"}
  /\ lastCommand \in Words \cup {"none"}
  /\ port \in {"right", "wrong"}
  /\ roster \subseteq 1 .. MaxSessions
  /\ residue \in Line
  /\ sinceActivity \in 0 .. AgeCap
  /\ sinceSend \in 0 .. AgeCap
  /\ sinceAttempt \in 0 .. AgeCap
  /\ pc \in {"idle", "lines", "tail"}
  /\ session \in 1 .. MaxSessions
  /\ link \in {"up", "broken", "down"}
  /\ tx \in Seq(Commands)
  /\ rx \in Seq(Line)
  /\ batch \in 0 .. Len(rx)
  /\ answered \subseteq Queries

----------------------------------------------------------------------------
(***************************************************************************)
(* Building blocks: wipeData, the two outcomes of connect, and startPing.  *)
(***************************************************************************)
AttemptCap == IF MaxAttempts < 0 THEN 0 ELSE MaxAttempts + 1

\* mutants: wipeData forgets one of the fields it resets
WipeDataKeeping(k) ==
  /\ subscribed' = (k = "subscribed" /\ subscribed)
  /\ fullyConnected' = FALSE
  /\ awaitingPong' = FALSE
  /\ rconVersion' = "none"
  /\ userKnown' = FALSE
  /\ roster' = IF k = "roster" THEN roster ELSE {}
  /\ answered' = {}
KeepSubscribed     == WipeDataKeeping("subscribed")
KeepRoster         == WipeDataKeeping("roster")

\* wipeData resets the session's data, but not m_lastLine, m_lastCommand or
\* the port the last serverinfo reply left behind
WipeData ==
  /\ subscribed' = FALSE
  /\ fullyConnected' = FALSE
  /\ awaitingPong' = FALSE
  /\ rconVersion' = "none"
  /\ userKnown' = FALSE
  /\ roster' = {}
  /\ answered' = {}

\* connect when the game server accepts: it announces its version on its own,
\* and the bot sends its password
ConnectOK ==
  /\ session < MaxSessions
  /\ port = "right"
  /\ session' = session + 1
  /\ connected' = TRUE
  /\ attempts' = 0
  /\ link' = "up"
  /\ gameSubscribed' = FALSE
  /\ cut' = FALSE
  /\ tx' = <<"auth">>
  /\ \E v \in GameVersions :
       rx' = <<[kind |-> "v", word |-> v, sess |-> session + 1, whole |-> TRUE]>>
  /\ sinceAttempt' = 0
  /\ sinceSend' = 0

\* mutant: a failed attempt is not counted
FailUncounted ==
  /\ connected' = FALSE
  /\ link' = "down"
  /\ cut' = FALSE
  /\ sinceAttempt' = 0
  /\ UNCHANGED <<attempts, session, gameSubscribed, tx, rx, sinceSend>>

\* connect when nobody accepts
ConnectFail ==
  /\ connected' = FALSE
  /\ attempts' = IF attempts < AttemptCap THEN attempts + 1 ELSE attempts
  /\ link' = "down"
  /\ cut' = FALSE
  /\ sinceAttempt' = 0
  /\ UNCHANGED <<session, gameSubscribed, tx, rx, sinceSend>>

Connect == ConnectOK \/ ConnectFail

\* disconnect, for a caller that stays disconnected
Disconnect ==
  /\ connected' = FALSE
  /\ link' = "down"
  /\ cut' = FALSE
  /\ WipeData

Init ==
  /\ connected = TRUE /\ attempts = 0 /\ erased = FALSE
  /\ subscribed = FALSE /\ fullyConnected = FALSE /\ awaitingPong = FALSE
  /\ rconVersion = "none" /\ userKnown = FALSE
  /\ lastCommand = "none" /\ port = "right"
  /\ roster = {} /\ residue = NoLine
  /\ sinceActivity = 0 /\ sinceSend = 0 /\ sinceAttempt = 0
  /\ pc = "idle" /\ batch = 0
  /\ session = 1 /\ link = "up" /\ cut = FALSE /\ gameSubscribed = FALSE
  /\ tx = <<"auth">>
  /\ \E v \in GameVersions :
       rx = <<[kind |-> "v", word |-> v, sess |-> 1, whole |-> TRUE]>>
  /\ answered = {}

----------------------------------------------------------------------------
(***************************************************************************)
(* think, when no line is being handled.                                   *)
(***************************************************************************)
\* mutant: the ping timeout only watches servers that are fully connected
PingExpiredLate == fullyConnected /\ awaitingPong /\ sinceActivity >= PingTimeout

PingExpired == awaitingPong /\ sinceActivity >= PingTimeout
Ready       == pc = "idle" /\ ~erased

\* not connected, and the delay since the last attempt has passed
ThinkConnect ==
  /\ Ready /\ ~connected
  /\ MaxAttempts < 0 \/ attempts < MaxAttempts
  /\ sinceAttempt >= Delay
  /\ Connect
  /\ UNCHANGED <<erased, pc, batch, wiped, kept, sinceActivity>>

\* not connected, and no attempts are left
ThinkGiveUp ==
  /\ Ready /\ ~connected
  /\ ~(MaxAttempts < 0 \/ attempts < MaxAttempts)
  /\ erased' = TRUE
  /\ UNCHANGED <<connected, attempts, pc, batch, wiped, kept, clocks, network>>

ThinkPingTimeout ==
  /\ Ready /\ connected /\ PingExpired
  /\ Disconnect
  /\ UNCHANGED <<attempts, erased, pc, batch, kept, clocks, session, tx, rx,
                 gameSubscribed>>

\* recv returns k complete lines and, if part holds, the beginning of the next.
\* What m_lastLine holds is put in front of the first of them, whichever
\* connection it was received from.
ThinkRecv(k, part) ==
  /\ Ready /\ connected /\ ~PingExpired
  /\ part => k < Len(rx)
  /\ k = 0 => part /\ ~cut
  /\ rx' = IF k > 0 /\ StaleResidue
             THEN [rx EXCEPT ![1] = [residue EXCEPT !.whole = FALSE]]
             ELSE rx
  /\ residue' = IF k = 0 /\ StaleResidue THEN residue
                ELSE IF part THEN rx[k + 1] ELSE NoLine
  /\ cut' = part
  /\ batch' = k
  /\ pc' = IF k = 0 THEN "tail" ELSE "lines"
  /\ sinceActivity' = 0
  /\ UNCHANGED <<connected, attempts, erased, wiped, lastCommand, port, sinceSend,
                 sinceAttempt, session, link, tx, gameSubscribed>>

\* recv would block: nothing arrived, or only the part of a line already taken
ThinkQuiet ==
  /\ Ready /\ connected /\ ~PingExpired
  /\ link = "up"
  /\ Len(rx) = IF cut THEN 1 ELSE 0
  /\ IF ~awaitingPong /\ sinceActivity >= PingRate
       THEN /\ awaitingPong' = TRUE
            /\ tx' = Append(tx, "ping")
            /\ sinceActivity' = 0
            /\ sinceSend' = 0
       ELSE UNCHANGED <<awaitingPong, tx, sinceActivity, sinceSend>>
  /\ pc' = "tail"
  /\ UNCHANGED <<connected, attempts, erased, batch, subscribed, fullyConnected,
                 rconVersion, userKnown, roster, answered, kept, sinceAttempt,
                 session, link, rx, cut, gameSubscribed>>

\* recv fails: reconnect at once, unless no attempt may be made
ThinkSocketError ==
  /\ Ready /\ connected /\ ~PingExpired
  /\ link = "broken"
  /\ WipeData
  /\ IF MaxAttempts # 0
       THEN Connect /\ UNCHANGED erased
       ELSE /\ erased' = TRUE
            /\ UNCHANGED <<connected, attempts, sinceSend, sinceAttempt, network>>
  /\ UNCHANGED <<pc, batch, kept, sinceActivity>>

\* The closing work of a call that got past the connection checks: a list
\* update that is due, then the keepalive ping
ThinkTail(update) ==
  /\ pc = "tail"
  /\ update => /\ Updates
               /\ rconVersion = "ok"
               /\ roster # {}
               /\ Len(tx) + Len(rx) < MaxInFlight
  /\ LET sent == IF update THEN Append(tx, "refresh") ELSE tx
         keepalive == ~awaitingPong /\ ~update /\ sinceSend >= PingRate
     IN  /\ tx' = IF keepalive THEN Append(sent, "ping") ELSE sent
         /\ awaitingPong' = (awaitingPong \/ keepalive)
         /\ sinceActivity' = IF keepalive THEN 0 ELSE sinceActivity
         /\ sinceSend' = IF keepalive \/ update THEN 0 ELSE sinceSend
  /\ pc' = "idle"
  /\ UNCHANGED <<connected, attempts, erased, batch, subscribed, fullyConnected,
                 rconVersion, userKnown, roster, answered, kept, sinceAttempt,
                 session, link, rx, cut, gameSubscribed>>

----------------------------------------------------------------------------
(***************************************************************************)
(* processLine, one action per kind of line.  A line that disconnects does *)
(* not stop the loop of think: the rest of the batch is still handled.     *)
(***************************************************************************)
Handling(kind) == pc = "lines" /\ rx[1].kind = kind

NextLine ==
  /\ rx' = Tail(rx)
  /\ batch' = batch - 1
  /\ pc' = IF batch = 1 THEN "tail" ELSE "lines"

\* what a version line announces: one glued to the beginning of another version
\* line may read as a lower number
Announced(line) == IF line.whole THEN {line.word} ELSE {"ok", "old"}

\* mutant: the subscription is asked for after the initial requests
SubscribeLast ==
  /\ Handling("v") /\ "ok" \in Announced(rx[1])
  /\ rconVersion' = "ok"
  /\ tx' = tx \o Burst \o <<"s">>
  /\ sinceSend' = 0
  /\ NextLine
  /\ UNCHANGED <<connected, attempts, erased, subscribed, fullyConnected,
                 awaitingPong, userKnown, roster, answered, kept, sinceActivity,
                 sinceAttempt, session, link, cut, gameSubscribed>>

LineVersionOK ==
  /\ Handling("v") /\ "ok" \in Announced(rx[1])
  /\ rconVersion' = "ok"
  /\ tx' = tx \o <<"s">> \o Burst
  /\ sinceSend' = 0
  /\ NextLine
  /\ UNCHANGED <<connected, attempts, erased, subscribed, fullyConnected,
                 awaitingPong, userKnown, roster, answered, kept, sinceActivity,
                 sinceAttempt, session, link, cut, gameSubscribed>>

\* too old, or without the name of the game version
LineVersionBad ==
  /\ Handling("v") /\ Announced(rx[1]) \cap {"old", "unnamed"} # {}
  /\ Disconnect
  /\ NextLine
  /\ UNCHANGED <<attempts, erased, kept, clocks, session, tx, gameSubscribed>>

\* the acknowledgement of the password; glued to another line it names nobody
LineAuth ==
  /\ Handling("a")
  /\ userKnown' = rx[1].whole
  /\ NextLine
  /\ UNCHANGED <<connected, attempts, erased, subscribed, fullyConnected,
                 awaitingPong, rconVersion, roster, answered, kept, clocks,
                 session, link, tx, cut, gameSubscribed>>

\* log lines are only read once the version is known; both of these compare
\* the user they name with m_rconUser
LineSubscribed ==
  /\ Handling("subscribed")
  /\ subscribed' = (subscribed \/ (rconVersion = "ok" /\ userKnown))
  /\ NextLine
  /\ UNCHANGED <<connected, attempts, erased, fullyConnected, awaitingPong,
                 rconVersion, userKnown, roster, answered, kept, clocks,
                 session, link, tx, cut, gameSubscribed>>

LineExecuted ==
  /\ Handling("exec")
  /\ lastCommand' = IF rconVersion = "ok" /\ userKnown THEN Name(rx[1].word)
                                                       ELSE lastCommand
  /\ NextLine
  /\ UNCHANGED <<connected, attempts, erased, wiped, port, residue, clocks,
                 session, link, tx, cut, gameSubscribed>>

\* a reply is whatever m_lastCommand says it is a reply to
LineReply ==
  LET line == rx[1] IN
  /\ Handling("r")
  /\ port' \in IF lastCommand # "serverinfo" THEN {port}
               ELSE IF line.word # "serverinfo" THEN {"wrong"}
               ELSE IF line.whole THEN {"right"} ELSE {"right", "wrong"}
  /\ roster' \in IF lastCommand = "clientvarlist" /\ line.word = "clientvarlist"
                   THEN {roster, roster \cup {line.sess}} ELSE {roster}
  /\ IF lastCommand = "ping"
       THEN IF line.whole /\ line.word = "initPing"
              THEN fullyConnected' = TRUE /\ UNCHANGED awaitingPong
              ELSE awaitingPong' = FALSE /\ UNCHANGED fullyConnected
       ELSE UNCHANGED <<fullyConnected, awaitingPong>>
  /\ answered' = IF line.whole /\ line.word \in Queries /\ lastCommand = Name(line.word)
                   THEN answered \cup {line.word} ELSE answered
  /\ NextLine
  /\ UNCHANGED <<connected, attempts, erased, subscribed, rconVersion, userKnown,
                 lastCommand, residue, clocks, session, link, tx, cut,
                 gameSubscribed>>

LineEnd ==
  /\ Handling("c")
  /\ lastCommand' = "none"
  /\ NextLine
  /\ UNCHANGED <<connected, attempts, erased, wiped, port, residue, clocks,
                 session, link, tx, cut, gameSubscribed>>

\* any other line of the log
LineLog ==
  /\ Handling("log")
  /\ NextLine
  /\ UNCHANGED <<connected, attempts, erased, wiped, kept, clocks,
                 session, link, tx, cut, gameSubscribed>>

ProcessLine == \/ LineVersionOK \/ LineVersionBad \/ LineAuth \/ LineSubscribed
               \/ LineExecuted \/ LineReply \/ LineEnd \/ LineLog

----------------------------------------------------------------------------
(***************************************************************************)
(* The reconnect command, run from IRC between two calls of think.         *)
(***************************************************************************)
CommandReconnect ==
  /\ Ready
  /\ WipeData
  /\ Connect
  /\ UNCHANGED <<erased, pc, batch, kept, sinceActivity>>

(***************************************************************************)
(* The game server handles the commands in order; once subscribed, the bot *)
(* is shown the log line of each of its own commands before the reply.     *)
(***************************************************************************)
Answer(c) ==
  CASE c = "auth" -> <<LineOf("a", "")>>
    [] c = "s"    -> <<LineOf("subscribed", "")>>
    [] OTHER      -> IF gameSubscribed
                       THEN <<LineOf("exec", c), LineOf("r", c), LineOf("c", "")>>
                       ELSE <<LineOf("r", c), LineOf("c", "")>>

GameAnswers ==
  /\ link = "up" /\ tx # <<>>
  /\ tx' = Tail(tx)
  /\ rx' = rx \o Answer(tx[1])
  /\ gameSubscribed' = (gameSubscribed \/ tx[1] = "s")
  /\ UNCHANGED <<connected, attempts, erased, pc, batch, wiped, kept, clocks,
                 session, link, cut>>

\* a log line about something else; a game server that hangs neither answers
\* nor logs, so it logs when it has answered what it was sent
GameLogs ==
  /\ link = "up" /\ gameSubscribed /\ tx = <<>> /\ rx = <<>>
  /\ rx' = <<LineOf("log", "")>>
  /\ UNCHANGED <<connected, attempts, erased, pc, batch, wiped, kept, clocks,
                 session, link, tx, cut, gameSubscribed>>

LinkBreaks ==
  /\ link = "up"
  /\ link' = "broken"
  /\ UNCHANGED <<connected, attempts, erased, pc, batch, wiped, kept, clocks,
                 session, tx, rx, cut, gameSubscribed>>

Older(age) == IF age < AgeCap THEN age + 1 ELSE age

Tick ==
  /\ sinceActivity' = Older(sinceActivity)
  /\ sinceSend' = Older(sinceSend)
  /\ sinceAttempt' = Older(sinceAttempt)
  /\ UNCHANGED <<connected, attempts, erased, pc, batch, wiped, kept, network>>

Think == \/ ThinkConnect \/ ThinkGiveUp \/ ThinkPingTimeout \/ ThinkQuiet
         \/ ThinkSocketError \/ ProcessLine
         \/ \E k \in 0 .. Len(rx), part \in BOOLEAN : ThinkRecv(k, part)
         \/ \E update \in BOOLEAN : ThinkTail(update)

Next == Think \/ CommandReconnect \/ GameAnswers \/ GameLogs \/ LinkBreaks \/ Tick

Spec == Init /\ [][Next]_vars

\* The main loop calls think again and again, and time passes.  Nothing is
\* assumed of the game server or the network.
FairSpec == Spec /\ WF_vars(Think) /\ WF_vars(Tick)

----------------------------------------------------------------------------
(***************************************************************************)
(* Safety.                                                                 *)
(***************************************************************************)

\* A server is only reported as fully connected while it is connected and
\* subscribed, and after every initial request has had its reply attributed to
\* it: what isFullyConnected promises the plugins.
FullyConnectedSound ==
  fullyConnected => /\ connected /\ subscribed /\ rconVersion = "ok"
                    /\ answered = Queries

\* Once the bot knows it is subscribed, a reply is always handled as the reply
\* to the command it answers, however commands were pipelined and received.
SubscribedAttribution ==
  Handling("r") /\ subscribed => rx[1].whole /\ lastCommand = Name(rx[1].word)

\* After the handshake of a connection, every player listed was learnt in this
\* connection: no player of an earlier one outlives it.
NoStalePlayers == rconVersion = "ok" => roster \subseteq {session}

\* Core::think only drops a server that may not be retried any more.
ErasedSound == erased => MaxAttempts >= 0 /\ attempts >= MaxAttempts

----------------------------------------------------------------------------
(***************************************************************************)
(* The inductive invariant behind them.  The handshake and the initial     *)
(* requests go through the connection in a fixed order, which is given as  *)
(* a rank; a rank is done when the bot has seen the line that ends it.      *)
(***************************************************************************)
CmdRank(c) == CASE c = "auth" -> 1 [] c = "s" -> 2 [] c = "serverinfo" -> 3
                [] c = "clientvarlist" -> 4 [] c = "initPing" -> 5 [] OTHER -> 0

LineRank(line) == CASE line.kind = "a" -> 1 [] line.kind = "subscribed" -> 2
                    [] line.kind = "r" /\ line.word # "auth" /\ line.word # "s"
                         -> CmdRank(line.word)
                    [] OTHER -> 0

\* every rank below these comes first; a log line needs the subscription
CmdNeeds(c) == IF c = "refresh" THEN 3 ELSE CmdRank(c)
LineNeeds(line) == IF line.kind = "exec" THEN 3 ELSE LineRank(line)

Done(n) == CASE n = 1 -> userKnown
             [] n = 2 -> subscribed
             [] n = 3 -> "serverinfo" \in answered
             [] n = 4 -> "clientvarlist" \in answered

\* the connection is in use, or the last lines it brought are being handled
Live == ~erased /\ (connected \/ pc = "lines")

ErasedOK == erased => rconVersion = "none" /\ pc = "idle"

BatchOK == pc = "lines" <=> batch > 0

DisconnectedOK ==
  ~connected => /\ link = "down" /\ ~subscribed /\ ~fullyConnected
                /\ rconVersion = "none" /\ roster = {} /\ answered = {}

\* only the first line of a connection is a version line, and only that one can
\* be glued to what an earlier connection left in m_lastLine
LineOK(i, line) ==
  /\ line.kind = "v" => i = 1 /\ connected /\ roster = {}
  /\ IF line.whole THEN line.sess = session
                   ELSE i = 1 /\ batch > 0 /\ connected /\ rconVersion = "none"

LinesOK == Live => \A i \in 1 .. Len(rx) : LineOK(i, rx[i])

ResidueOK ==
  Live /\ StaleResidue => batch = 0 /\ rx # <<>> /\ rx[1].kind = "v"

\* before the version line was accepted, nothing has been asked but the password
EarlyLineOK(line) ==
  line.whole => \/ line.kind \in {"v", "a", "c"}
                \/ line.kind = "r" /\ line.word = "ping"

AuthAhead == \/ userKnown
             \/ \E j \in 1 .. Len(rx) : rx[j].kind = "a"
             \/ \E j \in 1 .. Len(tx) : tx[j] = "auth"

EarlyOK ==
  Live /\ rconVersion = "none" =>
    /\ ~gameSubscribed /\ ~subscribed /\ ~fullyConnected /\ answered = {}
    /\ \A i \in 1 .. Len(tx) : tx[i] \in {"auth", "ping"}
    /\ \A i \in 1 .. Len(rx) : EarlyLineOK(rx[i])
    /\ \A i \in 1 .. Len(rx) : rx[i].kind = "v" => AuthAhead

\* and after it was, rank m is done when the lines up to n are handled
Reached(m, n) == Done(m) \/ \E j \in 1 .. n : LineRank(rx[j]) = m

RxOK == \A i \in 1 .. Len(rx), m \in 1 .. 4 : m < LineNeeds(rx[i]) => Reached(m, i - 1)

TxOK == \A i \in 1 .. Len(tx), m \in 1 .. 4 :
          m < CmdNeeds(tx[i]) => \/ Reached(m, Len(rx))
                                 \/ \E j \in 1 .. (i - 1) : CmdRank(tx[j]) = m

GameOK == IF gameSubscribed
            THEN \A m \in 1 .. 2 : Reached(m, Len(rx))
            ELSE ~subscribed /\ \A j \in 1 .. Len(rx) : rx[j].kind # "subscribed"

\* reply i will be attributed when it is handled, or can be now, or is the
\* reply to a ping that was sent too early
Preceded(i)  == i > 1 /\ rx[i - 1].kind = "exec" /\ rx[i - 1].word = rx[i].word
Current(i)   == i = 1 /\ lastCommand = Name(rx[i].word)
EarlyPing(i) == /\ rx[i].word = "ping" /\ ~subscribed
                /\ \A j \in 1 .. (i - 1) : rx[j].kind # "subscribed"

ReplyOK == \A i \in 1 .. Len(rx) :
             rx[i].kind = "r" => Preceded(i) \/ Current(i) \/ EarlyPing(i)

LateOK ==
  rconVersion = "ok" =>
    /\ \A i \in 1 .. Len(rx) : rx[i].kind # "v"
    /\ RxOK /\ TxOK /\ GameOK /\ ReplyOK
    /\ roster \subseteq {session}
    /\ roster # {} => subscribed

IInv == /\ TypeOK /\ BatchOK /\ ErasedOK /\ DisconnectedOK /\ LinesOK /\ ResidueOK /\ EarlyOK
        /\ LateOK /\ FullyConnectedSound

(***************************************************************************)
(* Liveness.                                                               *)
(***************************************************************************)

\* No connection is left half-initialised: it gets fully connected, or ends,
\* even if the game server falls silent or its version line was lost.
NoHalfOpenSession ==
  connected ~> (fullyConnected \/ ~connected \/ erased \/ link = "broken")

\* With a limit on the attempts, a lost server is reconnected or dropped.
GivesUp == ~connected /\ MaxAttempts >= 0 ~> connected \/ erased
============================================================================
