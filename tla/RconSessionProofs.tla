------------------------- MODULE RconSessionProofs -------------------------
(* Proofs about RconSession, for every value of its constants. *)
EXTENDS RconSession, TLAPS

----------------------------------------------------------------------------
(* Facts about the sequences that hold the commands and the lines. *)

LEMMA TailFacts ==
  ASSUME NEW S, NEW s \in Seq(S), s # <<>>
  PROVE  /\ Tail(s) \in Seq(S)
         /\ Len(Tail(s)) = Len(s) - 1
         /\ Len(s) >= 1
         /\ s[1] \in S
         /\ \A i \in 1 .. Len(Tail(s)) : Tail(s)[i] = s[i + 1]
  OBVIOUS

LEMMA AppendFacts ==
  ASSUME NEW S, NEW s \in Seq(S), NEW e \in S
  PROVE  /\ Append(s, e) \in Seq(S)
         /\ Len(Append(s, e)) = Len(s) + 1
         /\ \A i \in 1 .. Len(s) : Append(s, e)[i] = s[i]
         /\ Append(s, e)[Len(s) + 1] = e
  OBVIOUS

LEMMA ConcatFacts ==
  ASSUME NEW S, NEW s \in Seq(S), NEW t \in Seq(S)
  PROVE  /\ s \o t \in Seq(S)
         /\ Len(s \o t) = Len(s) + Len(t)
         /\ \A i \in 1 .. Len(s) : (s \o t)[i] = s[i]
         /\ \A i \in 1 .. Len(t) : (s \o t)[Len(s) + i] = t[i]
  OBVIOUS

LEMMA TupleTypes ==
  ASSUME NEW S, NEW a \in S, NEW b \in S, NEW c \in S
  PROVE  <<a>> \in Seq(S) /\ <<a, b>> \in Seq(S) /\ <<a, b, c>> \in Seq(S)
  OBVIOUS

LEMMA TupleElements ==
  ASSUME NEW a, NEW b, NEW c
  PROVE  /\ Len(<<a>>) = 1 /\ <<a>>[1] = a
         /\ Len(<<a, b>>) = 2 /\ <<a, b>>[1] = a /\ <<a, b>>[2] = b
         /\ Len(<<a, b, c>>) = 3 /\ <<a, b, c>>[1] = a /\ <<a, b, c>>[2] = b
         /\ <<a, b, c>>[3] = c
  OBVIOUS

LEMMA FirstFacts ==
  ASSUME NEW S, NEW s \in Seq(S), s # <<>>, NEW e \in S
  PROVE  /\ [s EXCEPT ![1] = e] \in Seq(S)
         /\ Len([s EXCEPT ![1] = e]) = Len(s)
         /\ [s EXCEPT ![1] = e][1] = e
         /\ \A i \in 2 .. Len(s) : [s EXCEPT ![1] = e][i] = s[i]
  OBVIOUS

LEMMA LineOfType ==
  ASSUME TypeOK, NEW k \in Kinds, NEW w \in Words
  PROVE  LineOf(k, w) \in Line
  BY DEF LineOf, Line, TypeOK

LEMMA AnswerType ==
  ASSUME TypeOK, NEW c \in Commands
  PROVE  Answer(c) \in Seq(Line)
  <1>1. \A k \in Kinds, w \in Words : LineOf(k, w) \in Line
    BY LineOfType
  <1>2. c \in Words /\ "" \in Words /\ {"a", "subscribed", "exec", "r", "c"} \subseteq Kinds
    BY DEF Words, Kinds
  <1>3. /\ LineOf("a", "") \in Line /\ LineOf("subscribed", "") \in Line
        /\ LineOf("exec", c) \in Line /\ LineOf("r", c) \in Line /\ LineOf("c", "") \in Line
    BY <1>1, <1>2
  <1> QED
    BY <1>3, TupleTypes DEF Answer

LEMMA FirstLine ==
  ASSUME GameVersions \subseteq {"ok", "old", "unnamed"}, NEW v \in GameVersions,
         NEW n \in 1 .. MaxSessions
  PROVE  <<[kind |-> "v", word |-> v, sess |-> n, whole |-> TRUE]>> \in Seq(Line)
  <1>1. [kind |-> "v", word |-> v, sess |-> n, whole |-> TRUE] \in Line
    BY DEF Line, Kinds, Words
  <1> QED  BY <1>1, TupleTypes

----------------------------------------------------------------------------
(* Connecting, disconnecting and the batch of lines keep the types. *)

LEMMA WipeType ==
  ASSUME WipeData, MaxSessions \in Nat
  PROVE  /\ subscribed' \in BOOLEAN /\ fullyConnected' \in BOOLEAN
         /\ awaitingPong' \in BOOLEAN /\ userKnown' \in BOOLEAN
         /\ rconVersion' \in {"none", "ok"} /\ roster' \subseteq 1 .. MaxSessions
         /\ answered' \subseteq Queries
  BY DEF WipeData

LEMMA ConnectType ==
  ASSUME TypeOK, Connect
  PROVE  /\ connected' \in BOOLEAN /\ attempts' \in Nat
         /\ cut' \in BOOLEAN /\ gameSubscribed' \in BOOLEAN
         /\ sinceSend' \in 0 .. AgeCap /\ sinceAttempt' \in 0 .. AgeCap
         /\ session' \in 1 .. MaxSessions /\ link' \in {"up", "broken", "down"}
         /\ tx' \in Seq(Commands) /\ rx' \in Seq(Line)
  <1>1. CASE ConnectOK
    <2>1. session' \in 1 .. MaxSessions /\ session' = session + 1
      BY <1>1, ConfigAssumption DEF ConnectOK, TypeOK
    <2>2. tx' \in Seq(Commands)
      BY <1>1, TupleTypes DEF ConnectOK, Commands
    <2>3. rx' \in Seq(Line)
      BY <1>1, <2>1, FirstLine, ConfigAssumption DEF ConnectOK
    <2>4. connected' = TRUE /\ attempts' = 0 /\ cut' = FALSE /\ gameSubscribed' = FALSE
          /\ link' = "up" /\ sinceSend' = 0 /\ sinceAttempt' = 0
      BY <1>1 DEF ConnectOK
    <2>5. 0 \in 0 .. AgeCap
      BY ConfigAssumption
    <2> QED
      BY <2>1, <2>2, <2>3, <2>4, <2>5
  <1>2. CASE ConnectFail
    <2>1. attempts' \in Nat
      BY <1>2 DEF ConnectFail, TypeOK
    <2>2. /\ connected' = FALSE /\ cut' = FALSE /\ link' = "down" /\ sinceAttempt' = 0
          /\ UNCHANGED <<session, gameSubscribed, tx, rx, sinceSend>>
      BY <1>2 DEF ConnectFail
    <2>3. /\ 0 \in 0 .. AgeCap /\ sinceSend \in 0 .. AgeCap
          /\ session \in 1 .. MaxSessions /\ gameSubscribed \in BOOLEAN
          /\ tx \in Seq(Commands) /\ rx \in Seq(Line)
      BY ConfigAssumption DEF TypeOK
    <2> QED
      BY <2>1, <2>2, <2>3
  <1> QED  BY <1>1, <1>2 DEF Connect

LEMMA NextLineType ==
  ASSUME TypeOK, BatchOK, NextLine, pc = "lines"
  PROVE  /\ rx' \in Seq(Line) /\ batch' \in 0 .. Len(rx') /\ rx[1] \in Line
         /\ pc' \in {"lines", "tail"} /\ (pc' = "lines" <=> batch' > 0)
  <1>1. batch \in 1 .. Len(rx) /\ rx # <<>> /\ rx \in Seq(Line)
    BY DEF TypeOK, BatchOK
  <1> QED
    BY <1>1, TailFacts DEF NextLine

LEMMA TypeStep ==
  ASSUME TypeOK, BatchOK, [Next]_vars
  PROVE  TypeOK' /\ BatchOK'
  <1> USE ConfigAssumption
  <1>1. CASE ThinkConnect
    BY <1>1, ConnectType DEF ThinkConnect, Ready, TypeOK, BatchOK, wiped, kept
  <1>2. CASE ThinkGiveUp
    BY <1>2 DEF ThinkGiveUp, TypeOK, BatchOK, wiped, kept, clocks, network
  <1>3. CASE ThinkPingTimeout
    BY <1>3, WipeType DEF ThinkPingTimeout, Disconnect, TypeOK, BatchOK, kept, clocks
  <1>4. ASSUME NEW k \in 0 .. Len(rx), NEW part \in BOOLEAN, ThinkRecv(k, part)
        PROVE  TypeOK' /\ BatchOK'
    <2>0. 1 \in 1 .. MaxSessions
      OBVIOUS
    <2>1. residue \in Line /\ rx \in Seq(Line) /\ NoLine \in Line /\ k \in Nat /\ k <= Len(rx)
      <3>1. NoLine \in Line
        BY <2>0 DEF NoLine, Line, Kinds, Words
      <3> QED  BY <3>1, <1>4 DEF TypeOK
    <2>2. [residue EXCEPT !.whole = FALSE] \in Line
      BY <2>1 DEF Line
    <2>3. rx' \in Seq(Line) /\ Len(rx') = Len(rx)
      <3>1. CASE k > 0 /\ StaleResidue
        <4>1. rx # <<>>
          BY <3>1, <2>1
        <4>2. rx' = [rx EXCEPT ![1] = [residue EXCEPT !.whole = FALSE]]
          BY <1>4, <3>1 DEF ThinkRecv
        <4> QED  BY <4>1, <4>2, <2>1, <2>2, FirstFacts
      <3>2. CASE ~(k > 0 /\ StaleResidue)
        BY <1>4, <3>2, <2>1 DEF ThinkRecv
      <3> QED  BY <3>1, <3>2
    <2>4. residue' \in Line
      <3>1. part => rx[k + 1] \in Line
        BY <1>4, <2>1 DEF ThinkRecv
      <3> QED  BY <1>4, <2>1, <3>1 DEF ThinkRecv
    <2>5. /\ batch' = k /\ pc' = (IF k = 0 THEN "tail" ELSE "lines") /\ cut' = part
          /\ sinceActivity' = 0
          /\ UNCHANGED <<connected, attempts, erased, wiped, lastCommand, port, sinceSend,
                         sinceAttempt, session, link, tx, gameSubscribed>>
      BY <1>4 DEF ThinkRecv
    <2>6. BatchOK' /\ pc' \in {"idle", "lines", "tail"} /\ batch' \in 0 .. Len(rx')
          /\ sinceActivity' \in 0 .. AgeCap
      BY <2>1, <2>3, <2>5 DEF BatchOK
    <2> QED
      BY <2>3, <2>4, <2>5, <2>6 DEF TypeOK, wiped
  <1>5. CASE ThinkQuiet
    <2>1. tx' \in Seq(Commands)
      <3>1. "ping" \in Commands /\ tx \in Seq(Commands)
        BY DEF Commands, TypeOK
      <3>2. tx' = tx \/ tx' = Append(tx, "ping")
        BY <1>5 DEF ThinkQuiet
      <3> QED  BY <3>1, <3>2, AppendFacts
    <2>2. sinceActivity' \in 0 .. AgeCap /\ sinceSend' \in 0 .. AgeCap
          /\ awaitingPong' \in BOOLEAN
      <3>1. /\ 0 \in 0 .. AgeCap /\ sinceActivity \in 0 .. AgeCap
            /\ sinceSend \in 0 .. AgeCap /\ awaitingPong \in BOOLEAN
        BY DEF TypeOK
      <3> QED  BY <1>5, <3>1 DEF ThinkQuiet
    <2>3. BatchOK'
      BY <1>5 DEF ThinkQuiet, Ready, BatchOK
    <2> QED
      BY <1>5, <2>1, <2>2, <2>3 DEF ThinkQuiet, TypeOK, kept
  <1>6. CASE ThinkSocketError
    <2>1. WipeData /\ BatchOK'
      BY <1>6 DEF ThinkSocketError, Ready, BatchOK
    <2>2. CASE MaxAttempts # 0
      BY <1>6, <2>1, <2>2, WipeType, ConnectType
      DEF ThinkSocketError, Ready, TypeOK, BatchOK, kept
    <2>3. CASE MaxAttempts = 0
      BY <1>6, <2>1, <2>3, WipeType DEF ThinkSocketError, TypeOK, kept, network
    <2> QED  BY <2>2, <2>3
  <1>7. ASSUME NEW update \in BOOLEAN, ThinkTail(update)
        PROVE  TypeOK' /\ BatchOK'
    <2>1. tx' \in Seq(Commands)
      <3>1. "ping" \in Commands /\ "refresh" \in Commands /\ tx \in Seq(Commands)
        BY DEF Commands, TypeOK
      <3>2. Append(tx, "refresh") \in Seq(Commands)
        BY <3>1, AppendFacts
      <3>3. PICK sent \in Seq(Commands) : tx' = sent \/ tx' = Append(sent, "ping")
        BY <1>7, <3>1, <3>2 DEF ThinkTail
      <3> QED  BY <3>1, <3>3, AppendFacts
    <2>2. sinceActivity' \in 0 .. AgeCap /\ sinceSend' \in 0 .. AgeCap
          /\ awaitingPong' \in BOOLEAN
      <3>1. /\ 0 \in 0 .. AgeCap /\ sinceActivity \in 0 .. AgeCap
            /\ sinceSend \in 0 .. AgeCap /\ awaitingPong \in BOOLEAN
        BY DEF TypeOK
      <3> QED  BY <1>7, <3>1 DEF ThinkTail
    <2>3. BatchOK'
      BY <1>7 DEF ThinkTail, BatchOK
    <2> QED  BY <1>7, <2>1, <2>2, <2>3 DEF ThinkTail, TypeOK, kept
  <1>8. CASE LineVersionOK
    <2>1. tx' \in Seq(Commands)
      <3>1. <<"s">> \in Seq(Commands) /\ Burst \in Seq(Commands) /\ tx \in Seq(Commands)
        BY TupleTypes DEF Burst, Commands, Queries, TypeOK
      <3>2. tx \o <<"s">> \in Seq(Commands)
        BY <3>1, ConcatFacts
      <3> QED  BY <1>8, <3>1, <3>2, ConcatFacts DEF LineVersionOK
    <2>2. NextLine /\ pc = "lines"
      BY <1>8 DEF LineVersionOK, Handling
    <2>3. rconVersion' = "ok" /\ sinceSend' = 0
          /\ UNCHANGED <<connected, attempts, erased, subscribed, fullyConnected,
                         awaitingPong, userKnown, roster, answered, kept, sinceActivity,
                         sinceAttempt, session, link, cut, gameSubscribed>>
      BY <1>8 DEF LineVersionOK
    <2> QED
      BY <2>1, <2>2, <2>3, NextLineType DEF TypeOK, BatchOK, kept
  <1>9. CASE LineVersionBad
    BY <1>9, NextLineType, WipeType
    DEF LineVersionBad, Handling, Disconnect, TypeOK, BatchOK, kept, clocks
  <1>10. CASE LineAuth
    BY <1>10, NextLineType DEF LineAuth, Handling, TypeOK, BatchOK, kept, clocks, Line
  <1>11. CASE LineSubscribed
    BY <1>11, NextLineType DEF LineSubscribed, Handling, TypeOK, BatchOK, kept, clocks
  <1>12. CASE LineExecuted
    <2>1. NextLine /\ pc = "lines" /\ rx[1].kind = "exec"
      BY <1>12 DEF LineExecuted, Handling
    <2>2. lastCommand' \in Words \cup {"none"}
      <3>1. rx[1].word \in Words /\ lastCommand \in Words \cup {"none"}
        BY <2>1, NextLineType DEF TypeOK, Line
      <3>2. Name(rx[1].word) \in Words
        BY <3>1 DEF Name, Words, Commands, Queries
      <3> QED  BY <1>12, <3>1, <3>2 DEF LineExecuted
    <2> QED
      BY <1>12, <2>1, <2>2, NextLineType DEF LineExecuted, TypeOK, BatchOK, wiped, clocks
  <1>13. CASE LineReply
    <2>1. NextLine /\ pc = "lines"
      BY <1>13 DEF LineReply, Handling
    <2>2. rx[1] \in Line
      BY <2>1, NextLineType
    <2>3. roster' \subseteq 1 .. MaxSessions
      BY <1>13, <2>2 DEF LineReply, TypeOK, Line
    <2>4. answered' \subseteq Queries
      BY <1>13 DEF LineReply, TypeOK
    <2>5. fullyConnected' \in BOOLEAN /\ awaitingPong' \in BOOLEAN
      BY <1>13 DEF LineReply, TypeOK
    <2>6. port' \in {"right", "wrong"}
      BY <1>13 DEF LineReply, TypeOK
    <2>7. UNCHANGED <<connected, attempts, erased, subscribed, rconVersion, userKnown,
                      lastCommand, residue, clocks, session, link, tx, cut, gameSubscribed>>
      BY <1>13 DEF LineReply
    <2> QED
      BY <2>1, <2>3, <2>4, <2>5, <2>6, <2>7, NextLineType DEF TypeOK, BatchOK, clocks
  <1>14. CASE LineEnd
    BY <1>14, NextLineType DEF LineEnd, Handling, TypeOK, BatchOK, wiped, clocks
  <1>15. CASE LineLog
    BY <1>15, NextLineType DEF LineLog, Handling, TypeOK, BatchOK, wiped, kept, clocks
  <1>16. CASE CommandReconnect
    BY <1>16, WipeType, ConnectType DEF CommandReconnect, Ready, TypeOK, BatchOK, kept
  <1>17. CASE GameAnswers
    BY <1>17, AnswerType, ConcatFacts, TailFacts
    DEF GameAnswers, TypeOK, BatchOK, wiped, kept, clocks
  <1>18. CASE GameLogs
    <2>1. "log" \in Kinds /\ "" \in Words
      BY DEF Kinds, Words
    <2>2. rx' \in Seq(Line) /\ Len(rx') = 1
      BY <1>18, <2>1, LineOfType, TupleTypes DEF GameLogs
    <2>3. batch = 0
      <3>1. rx = <<>> /\ batch \in 0 .. Len(rx)
        BY <1>18 DEF GameLogs, TypeOK
      <3> QED  BY <3>1
    <2>4. /\ UNCHANGED <<connected, attempts, erased, pc, batch, wiped, kept, clocks,
                         session, link, tx, cut, gameSubscribed>>
      BY <1>18 DEF GameLogs
    <2>5. batch' \in 0 .. Len(rx')
      BY <2>2, <2>3, <2>4
    <2> QED
      BY <2>2, <2>4, <2>5 DEF TypeOK, BatchOK, wiped, kept, clocks
  <1>19. CASE LinkBreaks
    BY <1>19 DEF LinkBreaks, TypeOK, BatchOK, wiped, kept, clocks
  <1>20. CASE Tick
    BY <1>20 DEF Tick, Older, TypeOK, BatchOK, wiped, kept, network
  <1>21. CASE UNCHANGED vars
    BY <1>21 DEF vars, TypeOK, BatchOK, wiped, kept, clocks, network
  <1> QED
    BY <1>1, <1>2, <1>3, <1>4, <1>5, <1>6, <1>7, <1>8, <1>9, <1>10, <1>11, <1>12,
       <1>13, <1>14, <1>15, <1>16, <1>17, <1>18, <1>19, <1>20, <1>21
    DEF Next, Think, ProcessLine

LEMMA TypeInit == Init => TypeOK /\ BatchOK
  <1> SUFFICES ASSUME Init PROVE TypeOK /\ BatchOK
    OBVIOUS
  <1>1. NoLine \in Line /\ 1 \in 1 .. MaxSessions
    BY ConfigAssumption DEF NoLine, Line, Kinds, Words
  <1>2. rx \in Seq(Line)
    BY <1>1, FirstLine, ConfigAssumption DEF Init
  <1>3. tx \in Seq(Commands)
    BY TupleTypes DEF Init, Commands
  <1>4. batch \in 0 .. Len(rx)
    BY <1>2 DEF Init
  <1>5. 0 \in 0 .. AgeCap /\ 0 \in Nat
    BY ConfigAssumption
  <1>6. /\ connected = TRUE /\ attempts = 0 /\ erased = FALSE
        /\ subscribed = FALSE /\ fullyConnected = FALSE /\ awaitingPong = FALSE
        /\ rconVersion = "none" /\ userKnown = FALSE
        /\ lastCommand = "none" /\ port = "right" /\ roster = {} /\ residue = NoLine
        /\ sinceActivity = 0 /\ sinceSend = 0 /\ sinceAttempt = 0
        /\ pc = "idle" /\ batch = 0 /\ session = 1 /\ link = "up"
        /\ cut = FALSE /\ gameSubscribed = FALSE /\ answered = {}
    BY DEF Init
  <1>7. /\ connected \in BOOLEAN /\ erased \in BOOLEAN /\ subscribed \in BOOLEAN
        /\ fullyConnected \in BOOLEAN /\ awaitingPong \in BOOLEAN
        /\ userKnown \in BOOLEAN /\ cut \in BOOLEAN /\ gameSubscribed \in BOOLEAN
    BY <1>6
  <1>8. lastCommand \in Words \cup {"none"} /\ roster \subseteq 1 .. MaxSessions /\ answered \subseteq Queries
    BY <1>6
  <1>9. BatchOK
    BY <1>6 DEF BatchOK
  <1> QED
    BY <1>1, <1>2, <1>3, <1>4, <1>5, <1>6, <1>7, <1>8, <1>9 DEF TypeOK

(* Every variable keeps its type, and lines are left to handle exactly while *)
(* think is handling lines.                                                  *)
THEOREM TypeCorrect == Spec => [](TypeOK /\ BatchOK)
  <1>1. Init => TypeOK /\ BatchOK
    BY TypeInit
  <1>2. TypeOK /\ BatchOK /\ [Next]_vars => (TypeOK /\ BatchOK)'
    BY TypeStep
  <1> QED
    BY <1>1, <1>2, PTL DEF Spec

----------------------------------------------------------------------------
(* The lines that are left of a batch, and what handling one leaves. *)

LEMMA Lines ==
  ASSUME TypeOK, BatchOK, ErasedOK, pc = "lines"
  PROVE  /\ Live /\ ~erased
         /\ rx \in Seq(Line) /\ rx[1] \in Line /\ 1 \in 1 .. Len(rx) /\ batch > 0
         /\ NextLine =>
              /\ rx' \in Seq(Line) /\ Len(rx') = Len(rx) - 1
              /\ \A i \in 1 .. Len(rx') : i + 1 \in 2 .. Len(rx) /\ rx'[i] = rx[i + 1]
              /\ pc' = "lines" \/ pc' = "tail"
  <1>1. Live /\ ~erased
    BY DEF Live, ErasedOK
  <1>2. batch > 0 /\ batch \in 0 .. Len(rx) /\ rx \in Seq(Line)
    BY DEF TypeOK, BatchOK
  <1>3. rx # <<>> /\ 1 \in 1 .. Len(rx)
    BY <1>2
  <1>4. /\ Tail(rx) \in Seq(Line) /\ Len(Tail(rx)) = Len(rx) - 1 /\ rx[1] \in Line
        /\ \A i \in 1 .. Len(Tail(rx)) : Tail(rx)[i] = rx[i + 1]
    BY <1>2, <1>3, TailFacts
  <1>5. \A i \in 1 .. Len(Tail(rx)) : i + 1 \in 2 .. Len(rx)
    BY <1>2, <1>4
  <1> QED
    BY <1>1, <1>2, <1>3, <1>4, <1>5 DEF NextLine

(* What can be said of the first line when the version is not known. *)
LEMMA EarlyLine ==
  ASSUME TypeOK, BatchOK, ErasedOK, DisconnectedOK, LinesOK, EarlyOK, pc = "lines",
         rconVersion = "none"
  PROVE  /\ rx[1].whole =>
              \/ rx[1].kind \in {"v", "a", "c"}
              \/ rx[1].kind = "r" /\ rx[1].word = "ping"
         /\ ~connected => rx[1].whole /\ rx[1].kind # "v"
         /\ ~subscribed /\ ~fullyConnected /\ answered = {}
  <1>1. Live /\ 1 \in 1 .. Len(rx)
    BY Lines
  <1> QED
    BY <1>1 DEF LinesOK, LineOK, EarlyOK, EarlyLineOK

LEMMA DisconnectedStep ==
  ASSUME IInv, [Next]_vars
  PROVE  DisconnectedOK'
  <1> USE DEF DisconnectedOK
  <1>0. TypeOK /\ BatchOK /\ ErasedOK /\ DisconnectedOK /\ LinesOK /\ EarlyOK
    BY DEF IInv
  <1>1. CASE ThinkConnect
    BY <1>0, <1>1 DEF ThinkConnect, Connect, ConnectOK, ConnectFail, wiped
  <1>2. CASE ThinkGiveUp
    BY <1>0, <1>2 DEF ThinkGiveUp, wiped, network
  <1>3. CASE ThinkPingTimeout
    BY <1>3 DEF ThinkPingTimeout, Disconnect, WipeData
  <1>4. ASSUME NEW k \in 0 .. Len(rx), NEW part \in BOOLEAN, ThinkRecv(k, part)
        PROVE  DisconnectedOK'
    BY <1>0, <1>4 DEF ThinkRecv, wiped
  <1>5. CASE ThinkQuiet
    BY <1>0, <1>5 DEF ThinkQuiet
  <1>6. CASE ThinkSocketError
    BY <1>0, <1>6 DEF ThinkSocketError, WipeData, Connect, ConnectOK, ConnectFail
  <1>7. ASSUME NEW update \in BOOLEAN, ThinkTail(update)
        PROVE  DisconnectedOK'
    BY <1>0, <1>7 DEF ThinkTail
  <1>8. CASE LineVersionOK
    BY <1>0, <1>8, EarlyLine DEF LineVersionOK, Handling
  <1>9. CASE LineVersionBad
    BY <1>9 DEF LineVersionBad, Disconnect, WipeData
  <1>10. CASE LineAuth
    BY <1>0, <1>10 DEF LineAuth
  <1>11. CASE LineSubscribed
    BY <1>0, <1>11 DEF LineSubscribed
  <1>12. CASE LineExecuted
    BY <1>0, <1>12 DEF LineExecuted, wiped
  <1>13. CASE LineReply
    <2>1. SUFFICES ASSUME ~connected PROVE DisconnectedOK'
      BY <1>13 DEF LineReply
    <2>2. rx[1].whole /\ rx[1].word = "ping"
      BY <1>0, <1>13, <2>1, EarlyLine DEF LineReply, Handling
    <2> QED
      BY <1>0, <1>13, <2>1, <2>2 DEF LineReply, Queries
  <1>14. CASE LineEnd
    BY <1>0, <1>14 DEF LineEnd, wiped
  <1>15. CASE LineLog
    BY <1>0, <1>15 DEF LineLog, wiped
  <1>16. CASE CommandReconnect
    BY <1>16 DEF CommandReconnect, WipeData, Connect, ConnectOK, ConnectFail
  <1>17. CASE GameAnswers
    BY <1>0, <1>17 DEF GameAnswers, wiped
  <1>18. CASE GameLogs
    BY <1>0, <1>18 DEF GameLogs, wiped
  <1>19. CASE LinkBreaks
    BY <1>0, <1>19 DEF LinkBreaks, wiped
  <1>20. CASE Tick
    BY <1>0, <1>20 DEF Tick, wiped, network
  <1>21. CASE UNCHANGED vars
    BY <1>0, <1>21 DEF vars, wiped, network
  <1> QED
    BY <1>1, <1>2, <1>3, <1>4, <1>5, <1>6, <1>7, <1>8, <1>9, <1>10, <1>11, <1>12,
       <1>13, <1>14, <1>15, <1>16, <1>17, <1>18, <1>19, <1>20, <1>21
    DEF Next, Think, ProcessLine

(* What can be said of the first line when the version is known. *)
LEMMA LateLine ==
  ASSUME IInv, pc = "lines", rconVersion = "ok"
  PROVE  /\ connected /\ rx[1].whole /\ rx[1].sess = session /\ rx[1].kind # "v"
         /\ \A m \in 1 .. 4 : m < LineNeeds(rx[1]) => Done(m)
         /\ rx[1].kind = "subscribed" => gameSubscribed
         /\ rx[1].kind = "r" => \/ lastCommand = Name(rx[1].word)
                                \/ rx[1].word = "ping" /\ ~subscribed
  <1>1. Live /\ 1 \in 1 .. Len(rx)
    BY Lines DEF IInv
  <1>2. connected
    BY DEF IInv, DisconnectedOK
  <1>3. rx[1].whole /\ rx[1].sess = session /\ rx[1].kind # "v"
    BY <1>1 DEF IInv, LinesOK, LineOK, LateOK
  <1>4. \A m \in 1 .. 4 : m < LineNeeds(rx[1]) => Done(m)
    BY <1>1 DEF IInv, LateOK, RxOK, Reached
  <1>5. rx[1].kind = "subscribed" => gameSubscribed
    BY <1>1 DEF IInv, LateOK, GameOK
  <1>6. rx[1].kind = "r" => \/ lastCommand = Name(rx[1].word)
                            \/ rx[1].word = "ping" /\ ~subscribed
    <2>1. ReplyOK
      BY DEF IInv, LateOK
    <2>2. rx[1].kind = "r" => Preceded(1) \/ Current(1) \/ EarlyPing(1)
      BY <1>1, <2>1 DEF ReplyOK
    <2>3. ~Preceded(1)
      BY DEF Preceded
    <2>4. Current(1) => lastCommand = Name(rx[1].word)
      BY DEF Current
    <2>5. EarlyPing(1) => rx[1].word = "ping" /\ ~subscribed
      BY DEF EarlyPing
    <2> QED  BY <2>2, <2>3, <2>4, <2>5
  <1> QED  BY <1>2, <1>3, <1>4, <1>5, <1>6

LEMMA ErasedStep ==
  ASSUME IInv, [Next]_vars
  PROVE  ErasedOK'
  <1> USE DEF ErasedOK
  <1>0. BatchOK /\ ErasedOK /\ DisconnectedOK
    BY DEF IInv
  <1>1. CASE ThinkConnect
    BY <1>0, <1>1 DEF ThinkConnect, Ready
  <1>2. CASE ThinkGiveUp
    BY <1>0, <1>2 DEF ThinkGiveUp, Ready, DisconnectedOK, wiped
  <1>3. CASE ThinkPingTimeout
    BY <1>0, <1>3 DEF ThinkPingTimeout, Ready
  <1>4. ASSUME NEW k \in 0 .. Len(rx), NEW part \in BOOLEAN, ThinkRecv(k, part)
        PROVE  ErasedOK'
    BY <1>0, <1>4 DEF ThinkRecv, Ready
  <1>5. CASE ThinkQuiet
    BY <1>0, <1>5 DEF ThinkQuiet, Ready
  <1>6. CASE ThinkSocketError
    BY <1>0, <1>6 DEF ThinkSocketError, WipeData, Ready
  <1>7. ASSUME NEW update \in BOOLEAN, ThinkTail(update)
        PROVE  ErasedOK'
    BY <1>0, <1>7 DEF ThinkTail
  <1>8. CASE ProcessLine
    BY <1>0, <1>8 DEF ProcessLine, LineVersionOK, LineVersionBad, LineAuth, LineSubscribed,
                      LineExecuted, LineReply, LineEnd, LineLog, Handling
  <1>9. CASE CommandReconnect
    BY <1>0, <1>9 DEF CommandReconnect, Ready
  <1>10. CASE GameAnswers \/ GameLogs \/ LinkBreaks \/ Tick \/ UNCHANGED vars
    BY <1>0, <1>10 DEF GameAnswers, GameLogs, LinkBreaks, Tick, vars, wiped
  <1> QED
    BY <1>1, <1>2, <1>3, <1>4, <1>5, <1>6, <1>7, <1>8, <1>9, <1>10 DEF Next, Think

LEMMA FullyStep ==
  ASSUME IInv, [Next]_vars
  PROVE  FullyConnectedSound'
  <1> USE DEF FullyConnectedSound
  <1>0. TypeOK /\ BatchOK /\ ErasedOK /\ DisconnectedOK /\ LinesOK /\ EarlyOK
        /\ FullyConnectedSound
    BY DEF IInv
  <1>1. CASE ThinkConnect
    BY <1>0, <1>1 DEF ThinkConnect, DisconnectedOK, wiped
  <1>2. CASE ThinkPingTimeout \/ LineVersionBad
    BY <1>2 DEF ThinkPingTimeout, LineVersionBad, Disconnect, WipeData
  <1>3. CASE ThinkSocketError \/ CommandReconnect
    BY <1>3 DEF ThinkSocketError, CommandReconnect, WipeData
  <1>4. ASSUME NEW k \in 0 .. Len(rx), NEW part \in BOOLEAN, ThinkRecv(k, part)
        PROVE  FullyConnectedSound'
    BY <1>0, <1>4 DEF ThinkRecv, wiped
  <1>5. CASE ThinkGiveUp \/ ThinkQuiet
    BY <1>0, <1>5 DEF ThinkGiveUp, ThinkQuiet, wiped
  <1>6. ASSUME NEW update \in BOOLEAN, ThinkTail(update)
        PROVE  FullyConnectedSound'
    BY <1>0, <1>6 DEF ThinkTail
  <1>7. CASE LineVersionOK \/ LineAuth \/ LineSubscribed
    BY <1>0, <1>7 DEF LineVersionOK, LineAuth, LineSubscribed
  <1>8. CASE LineExecuted \/ LineEnd \/ LineLog
    BY <1>0, <1>8 DEF LineExecuted, LineEnd, LineLog, wiped
  <1>9. CASE LineReply
    <2>1. /\ pc = "lines" /\ rx[1].kind = "r" /\ answered \subseteq Queries
          /\ answered \subseteq answered' /\ answered' \subseteq Queries
          /\ UNCHANGED <<connected, subscribed, rconVersion>>
      BY <1>0, <1>9 DEF LineReply, Handling, TypeOK
    <2>2. SUFFICES ASSUME fullyConnected' PROVE FullyConnectedSound'
      OBVIOUS
    <2>3. CASE fullyConnected
      BY <1>0, <2>1, <2>3
    <2>4. CASE ~fullyConnected
      <3>1. rx[1].whole /\ rx[1].word = "initPing"
        BY <1>9, <2>2, <2>4 DEF LineReply
      <3>2. rconVersion = "ok"
        BY <1>0, <2>1, <3>1, EarlyLine DEF TypeOK
      <3>3. LineNeeds(rx[1]) = 5
        BY <2>1, <3>1 DEF LineNeeds, LineRank, CmdRank
      <3>4. connected /\ Done(2) /\ Done(3) /\ Done(4)
        BY <2>1, <3>2, <3>3, LateLine
      <3> QED  BY <2>1, <3>2, <3>4 DEF Done, Queries
    <2> QED  BY <2>3, <2>4
  <1>10. CASE GameAnswers \/ GameLogs \/ LinkBreaks \/ Tick \/ UNCHANGED vars
    BY <1>0, <1>10 DEF GameAnswers, GameLogs, LinkBreaks, Tick, vars, wiped
  <1> QED
    BY <1>1, <1>2, <1>3, <1>4, <1>5, <1>6, <1>7, <1>8, <1>9, <1>10
    DEF Next, Think, ProcessLine

----------------------------------------------------------------------------
(* How each action changes the lines that are not handled yet. *)

(* what line i of the answer to command c may be *)
AnswerLine(c, i, line) ==
  /\ line.whole /\ line.sess = session
  /\ line.kind \in {"a", "subscribed", "exec", "r", "c"}
  /\ line.kind = "a" => c = "auth"
  /\ line.kind = "subscribed" => c = "s"
  /\ line.kind = "exec" => gameSubscribed
  /\ line.kind = "r" => line.word = c /\ c \notin {"auth", "s"} /\ (gameSubscribed => i = 2)

LEMMA Answers ==
  ASSUME TypeOK, NEW c \in Commands
  PROVE  /\ Answer(c) \in Seq(Line)
         /\ \A i \in 1 .. Len(Answer(c)) : AnswerLine(c, i, Answer(c)[i])
         /\ c = "auth" => Len(Answer(c)) = 1 /\ Answer(c)[1].kind = "a"
         /\ c = "s" => Len(Answer(c)) = 1 /\ Answer(c)[1].kind = "subscribed"
         /\ c \notin {"auth", "s"} =>
              IF gameSubscribed
                THEN /\ Len(Answer(c)) = 3
                     /\ Answer(c)[1].kind = "exec" /\ Answer(c)[1].word = c
                     /\ Answer(c)[2].kind = "r" /\ Answer(c)[2].word = c
                ELSE Len(Answer(c)) = 2 /\ Answer(c)[1].kind = "r" /\ Answer(c)[1].word = c
  <1>1. Answer(c) \in Seq(Line)
    BY AnswerType
  <1>2. CASE c = "auth"
    <2>1. Len(Answer(c)) = 1
      BY <1>2, TupleElements DEF Answer
    <2>3. Answer(c)[1] = LineOf("a", "")
      BY <1>2, TupleElements DEF Answer
    <2>4. \A i \in 1 .. Len(Answer(c)) : i = 1
      BY <2>1
    <2>2. AnswerLine(c, 1, LineOf("a", "")) /\ LineOf("a", "").kind = "a"
      BY <1>2 DEF AnswerLine, LineOf
    <2> QED  BY <1>1, <1>2, <2>1, <2>2, <2>3, <2>4, Zenon
  <1>3. CASE c = "s"
    <2>1. Len(Answer(c)) = 1
      BY <1>3, TupleElements DEF Answer
    <2>3. Answer(c)[1] = LineOf("subscribed", "")
      BY <1>3, TupleElements DEF Answer
    <2>4. \A i \in 1 .. Len(Answer(c)) : i = 1
      BY <2>1
    <2>2. AnswerLine(c, 1, LineOf("subscribed", ""))
          /\ LineOf("subscribed", "").kind = "subscribed"
      BY <1>3 DEF AnswerLine, LineOf
    <2> QED  BY <1>1, <1>3, <2>1, <2>2, <2>3, <2>4, Zenon
  <1>4. CASE c \notin {"auth", "s"} /\ gameSubscribed
    <2>1. Len(Answer(c)) = 3
      BY <1>4, TupleElements DEF Answer
    <2>5. /\ Answer(c)[1] = LineOf("exec", c)
          /\ Answer(c)[2] = LineOf("r", c) /\ Answer(c)[3] = LineOf("c", "")
      BY <1>4, TupleElements DEF Answer
    <2>2. AnswerLine(c, 1, LineOf("exec", c)) /\ AnswerLine(c, 2, LineOf("r", c))
          /\ AnswerLine(c, 3, LineOf("c", ""))
      BY <1>4 DEF AnswerLine, LineOf
    <2>3. LineOf("exec", c).kind = "exec" /\ LineOf("exec", c).word = c
          /\ LineOf("r", c).kind = "r" /\ LineOf("r", c).word = c
      BY DEF LineOf
    <2>4. \A i \in 1 .. Len(Answer(c)) : i = 1 \/ i = 2 \/ i = 3
      BY <2>1
    <2> QED  BY <1>1, <1>4, <2>1, <2>2, <2>3, <2>4, <2>5, Zenon
  <1>5. CASE c \notin {"auth", "s"} /\ ~gameSubscribed
    <2>1. Len(Answer(c)) = 2
      BY <1>5, TupleElements DEF Answer
    <2>5. /\ Answer(c)[1] = LineOf("r", c) /\ Answer(c)[2] = LineOf("c", "")
      BY <1>5, TupleElements DEF Answer
    <2>2. AnswerLine(c, 1, LineOf("r", c)) /\ AnswerLine(c, 2, LineOf("c", ""))
      BY <1>5 DEF AnswerLine, LineOf
    <2>3. LineOf("r", c).kind = "r" /\ LineOf("r", c).word = c
      BY DEF LineOf
    <2>4. \A i \in 1 .. Len(Answer(c)) : i = 1 \/ i = 2
      BY <2>1
    <2> QED  BY <1>1, <1>5, <2>1, <2>2, <2>3, <2>4, <2>5, Zenon
  <1> QED  BY <1>2, <1>3, <1>4, <1>5

LEMMA Answering ==
  ASSUME TypeOK, GameAnswers
  PROVE  /\ tx[1] \in Commands /\ 1 \in 1 .. Len(tx)
         /\ Len(tx') = Len(tx) - 1
         /\ \A i \in 1 .. Len(tx') : i + 1 \in 2 .. Len(tx) /\ tx'[i] = tx[i + 1]
         /\ Len(rx') = Len(rx) + Len(Answer(tx[1]))
         /\ \A i \in 1 .. Len(rx) : i \in 1 .. Len(rx') /\ rx'[i] = rx[i]
         /\ \A i \in 1 .. Len(Answer(tx[1])) :
              Len(rx) + i \in 1 .. Len(rx') /\ rx'[Len(rx) + i] = Answer(tx[1])[i]
         /\ \A i \in 1 .. Len(rx') :
              i \notin 1 .. Len(rx) => i - Len(rx) \in 1 .. Len(Answer(tx[1]))
                                       /\ rx'[i] = Answer(tx[1])[i - Len(rx)]
  <1>1. tx \in Seq(Commands) /\ rx \in Seq(Line) /\ tx # <<>>
    BY DEF TypeOK, GameAnswers
  <1>2. tx[1] \in Commands /\ 1 \in 1 .. Len(tx) /\ Answer(tx[1]) \in Seq(Line)
    BY <1>1, AnswerType
  <1>3. tx' = Tail(tx) /\ rx' = rx \o Answer(tx[1])
    BY DEF GameAnswers
  <1>4. Len(tx') = Len(tx) - 1 /\ \A i \in 1 .. Len(tx') : tx'[i] = tx[i + 1]
    BY <1>1, <1>3, TailFacts
  <1>5. /\ Len(rx') = Len(rx) + Len(Answer(tx[1]))
        /\ \A i \in 1 .. Len(rx) : rx'[i] = rx[i]
        /\ \A i \in 1 .. Len(Answer(tx[1])) : rx'[Len(rx) + i] = Answer(tx[1])[i]
    BY <1>1, <1>2, <1>3, ConcatFacts
  <1>6. /\ Len(tx) \in Nat /\ Len(rx) \in Nat /\ Len(Answer(tx[1])) \in Nat
    BY <1>1, <1>2
  <1>7. \A i \in 1 .. Len(rx') :
           i \notin 1 .. Len(rx) => i - Len(rx) \in 1 .. Len(Answer(tx[1]))
                                    /\ rx'[i] = Answer(tx[1])[i - Len(rx)]
    <2> TAKE i \in 1 .. Len(rx')
    <2>1. HAVE i \notin 1 .. Len(rx)
    <2>2. i - Len(rx) \in 1 .. Len(Answer(tx[1])) /\ i = Len(rx) + (i - Len(rx))
      BY <2>1, <1>5, <1>6
    <2>3. rx'[Len(rx) + (i - Len(rx))] = Answer(tx[1])[i - Len(rx)]
      BY <2>2, <1>5, Zenon
    <2> QED  BY <2>2, <2>3, Zenon
  <1>8. \A i \in 1 .. Len(tx') : i + 1 \in 2 .. Len(tx)
    BY <1>4, <1>6
  <1>9. \A i \in 1 .. Len(rx) : i \in 1 .. Len(rx')
    BY <1>5, <1>6
  <1>10. \A i \in 1 .. Len(Answer(tx[1])) : Len(rx) + i \in 1 .. Len(rx')
    BY <1>5, <1>6
  <1> QED  BY <1>2, <1>4, <1>5, <1>7, <1>8, <1>9, <1>10, Zenon

(* what connecting leaves in the connection *)
LEMMA Connecting ==
  ASSUME TypeOK, Connect
  PROVE  \/ /\ connected' = TRUE /\ session' = session + 1 /\ gameSubscribed' = FALSE
            /\ Len(tx') = 1 /\ tx'[1] = "auth"
            /\ Len(rx') = 1 /\ rx'[1].kind = "v" /\ rx'[1].whole /\ rx'[1].sess = session'
         \/ connected' = FALSE /\ UNCHANGED session
  <1>1. CASE ConnectOK
    <2>1. PICK v \in GameVersions :
            rx' = <<[kind |-> "v", word |-> v, sess |-> session + 1, whole |-> TRUE]>>
      BY <1>1 DEF ConnectOK
    <2>2. /\ connected' = TRUE /\ session' = session + 1 /\ gameSubscribed' = FALSE
          /\ tx' = <<"auth">>
      BY <1>1 DEF ConnectOK
    <2>3. Len(tx') = 1 /\ tx'[1] = "auth"
      BY <2>2, TupleElements
    <2>4. Len(rx') = 1
          /\ rx'[1] = [kind |-> "v", word |-> v, sess |-> session + 1, whole |-> TRUE]
      BY <2>1, TupleElements
    <2> QED  BY <2>2, <2>3, <2>4
  <1>2. CASE ConnectFail
    BY <1>2 DEF ConnectFail
  <1> QED  BY <1>1, <1>2 DEF Connect

LEMMA Logging ==
  ASSUME GameLogs
  PROVE  /\ Len(rx') = 1 /\ rx'[1].kind = "log" /\ rx'[1].whole /\ rx'[1].sess = session
         /\ rx = <<>> /\ tx = <<>> /\ tx' = tx
  <1>1. Len(rx') = 1 /\ rx'[1] = LineOf("log", "")
    BY TupleElements DEF GameLogs
  <1> QED  BY <1>1 DEF LineOf, GameLogs

(* a call of recv only changes the version line, and only if m_lastLine was *)
(* left behind by an earlier connection                                     *)
LEMMA Receiving ==
  ASSUME IInv, NEW k \in 0 .. Len(rx), NEW part \in BOOLEAN, ThinkRecv(k, part)
  PROVE  /\ Live /\ connected /\ batch = 0 /\ batch' = k /\ Len(rx') = Len(rx)
         /\ \/ rx' = rx
            \/ /\ k > 0 /\ rconVersion = "none" /\ Len(rx) > 0
               /\ rx[1].kind = "v" /\ rx[1].whole /\ ~rx'[1].whole
               /\ \A i \in 2 .. Len(rx) : rx'[i] = rx[i]
         /\ UNCHANGED <<connected, erased, wiped, session, link, tx, gameSubscribed,
                        lastCommand>>
  <1>1. Live /\ connected /\ batch = 0 /\ batch' = k /\ Len(rx) \in Nat /\ k \in Nat
    BY DEF ThinkRecv, Ready, Live, IInv, BatchOK, TypeOK
  <1>2. UNCHANGED <<connected, erased, wiped, session, link, tx, gameSubscribed, lastCommand>>
    BY DEF ThinkRecv
  <1>3. CASE k > 0 /\ StaleResidue
    <2>1. rx # <<>> /\ 1 \in 1 .. Len(rx) /\ rx[1].kind = "v" /\ rx \in Seq(Line) /\ residue \in Line
      BY <1>1, <1>3 DEF IInv, ResidueOK, TypeOK
    <2>2. rconVersion = "none" /\ rx[1].whole
      BY <1>1, <2>1 DEF IInv, LinesOK, LineOK, LateOK, TypeOK
    <2>3. rx' = [rx EXCEPT ![1] = [residue EXCEPT !.whole = FALSE]]
      BY <1>3 DEF ThinkRecv
    <2>4. /\ [residue EXCEPT !.whole = FALSE] \in Line
          /\ ~[residue EXCEPT !.whole = FALSE].whole
      BY <2>1 DEF Line
    <2>5. Len(rx') = Len(rx) /\ ~rx'[1].whole /\ \A i \in 2 .. Len(rx) : rx'[i] = rx[i]
      BY <2>1, <2>3, <2>4, FirstFacts
    <2> QED  BY <1>1, <1>2, <1>3, <2>1, <2>2, <2>5
  <1>4. CASE ~(k > 0 /\ StaleResidue)
    BY <1>1, <1>2, <1>4 DEF ThinkRecv
  <1> QED  BY <1>3, <1>4

(* handling a line takes the first one away *)
LEMMA Processing ==
  ASSUME IInv, ProcessLine
  PROVE  /\ pc = "lines" /\ Live /\ ~erased' /\ 1 \in 1 .. Len(rx)
         /\ Len(rx') = Len(rx) - 1
         /\ \A i \in 1 .. Len(rx') : i + 1 \in 2 .. Len(rx) /\ rx'[i] = rx[i + 1]
         /\ UNCHANGED <<session, gameSubscribed>>
         /\ Live' => connected' \/ pc' = "lines"
  <1>1. NextLine /\ pc = "lines" /\ UNCHANGED <<session, gameSubscribed, erased>>
    BY DEF ProcessLine, LineVersionOK, LineVersionBad, LineAuth, LineSubscribed,
           LineExecuted, LineReply, LineEnd, LineLog, Handling
  <1> QED  BY <1>1, Lines DEF IInv, Live

LEMMA LinesStep ==
  ASSUME IInv, [Next]_vars
  PROVE  LinesOK'
  <1> SUFFICES ASSUME Live', NEW i \in 1 .. Len(rx') PROVE LineOK(i, rx[i])'
    BY DEF LinesOK
  <1>0. TypeOK /\ BatchOK /\ LinesOK
    BY DEF IInv
  <1>00. Live => \A j \in 1 .. Len(rx) : LineOK(j, rx[j])
    BY <1>0 DEF LinesOK
  <1>1. CASE ThinkConnect
    <2>1. connected' /\ roster' = {} /\ Connect
      BY <1>1 DEF ThinkConnect, Ready, Live, IInv, DisconnectedOK, wiped
    <2>2. Len(rx') = 1 /\ rx'[1].kind = "v" /\ rx'[1].whole /\ rx'[1].sess = session'
      BY <1>0, <2>1, Connecting
    <2>3. i = 1
      BY <2>2
    <2> QED  BY <2>1, <2>2, <2>3 DEF LineOK
  <1>2. CASE ThinkGiveUp \/ ThinkPingTimeout
    BY <1>2 DEF ThinkGiveUp, ThinkPingTimeout, Ready, Disconnect, Live
  <1>3. CASE ThinkSocketError \/ CommandReconnect
    <2>1. connected' /\ roster' = {} /\ Connect
      BY <1>3 DEF ThinkSocketError, CommandReconnect, Ready, Live, WipeData
    <2>2. Len(rx') = 1 /\ rx'[1].kind = "v" /\ rx'[1].whole /\ rx'[1].sess = session'
      BY <1>0, <2>1, Connecting
    <2>3. i = 1
      BY <2>2
    <2> QED  BY <2>1, <2>2, <2>3 DEF LineOK
  <1>4. ASSUME NEW k \in 0 .. Len(rx), NEW part \in BOOLEAN, ThinkRecv(k, part)
        PROVE  LineOK(i, rx[i])'
    <2>1. LineOK(i, rx[i]) /\ UNCHANGED <<connected, roster, rconVersion, session>>
      BY <1>00, <1>4, Receiving DEF wiped
    <2>2. batch = 0 /\ batch' = k /\ connected
      BY <1>4, Receiving
    <2>3. CASE rx' = rx
      BY <2>1, <2>2, <2>3 DEF LineOK
    <2>4. CASE /\ k > 0 /\ rconVersion = "none" /\ Len(rx) > 0
               /\ rx[1].kind = "v" /\ ~rx'[1].whole
               /\ \A j \in 2 .. Len(rx) : rx'[j] = rx[j]
      <3>1. LineOK(1, rx[1]) /\ roster = {}
        BY <1>00, <1>4, <2>4, Receiving DEF LineOK
      <3>2. CASE i = 1
        BY <2>1, <2>2, <2>4, <3>1, <3>2 DEF LineOK
      <3>3. CASE i # 1
        <4>1. rx'[i] = rx[i]
          BY <1>4, <2>4, <3>3, Receiving
        <4> QED  BY <2>1, <2>2, <3>3, <4>1 DEF LineOK
      <3> QED  BY <3>2, <3>3
    <2> QED  BY <1>4, <2>3, <2>4, Receiving
  <1>5. CASE ThinkQuiet
    <2>1. LineOK(i, rx[i])
      BY <1>00, <1>5 DEF ThinkQuiet, Ready, Live
    <2> QED  BY <1>5, <2>1 DEF ThinkQuiet, LineOK
  <1>6. ASSUME NEW update \in BOOLEAN, ThinkTail(update)
        PROVE  LineOK(i, rx[i])'
    <2>1. LineOK(i, rx[i])
      BY <1>00, <1>6 DEF ThinkTail, Live
    <2> QED  BY <1>6, <2>1 DEF ThinkTail, LineOK
  <1>7. CASE ProcessLine
    <2>1. i + 1 \in 1 .. Len(rx) /\ i + 1 # 1 /\ rx'[i] = rx[i + 1] /\ session' = session
      BY <1>7, Processing
    <2>2. LineOK(i + 1, rx[i + 1])
      BY <1>00, <1>7, <2>1, Processing
    <2> QED  BY <2>1, <2>2 DEF LineOK
  <1>8. CASE GameAnswers
    <2>1. Live /\ UNCHANGED <<connected, roster, rconVersion, session, batch>>
      BY <1>8 DEF GameAnswers, Live, wiped
    <2>2. CASE i \in 1 .. Len(rx)
      BY <1>0, <1>00, <1>8, <2>1, <2>2, Answering DEF LineOK
    <2>3. CASE i \notin 1 .. Len(rx)
      <3>1. /\ rx'[i] = Answer(tx[1])[i - Len(rx)] /\ i - Len(rx) \in 1 .. Len(Answer(tx[1]))
            /\ tx[1] \in Commands
        BY <1>0, <1>8, <2>3, Answering
      <3>2. AnswerLine(tx[1], i - Len(rx), rx'[i])
        BY <1>0, <3>1, Answers
      <3> QED  BY <2>1, <3>2 DEF AnswerLine, LineOK
    <2> QED  BY <2>2, <2>3
  <1>9. CASE GameLogs
    <2>1. /\ Len(rx') = 1 /\ rx'[1].kind = "log" /\ rx'[1].whole
          /\ rx'[1].sess = session /\ session' = session
      BY <1>9, Logging DEF GameLogs
    <2>2. i = 1
      BY <2>1
    <2> QED  BY <2>1, <2>2 DEF LineOK
  <1>10. CASE LinkBreaks \/ Tick \/ UNCHANGED vars
    <2>1. Live /\ UNCHANGED <<connected, roster, rconVersion, session, batch, rx>>
      BY <1>10 DEF LinkBreaks, Tick, vars, wiped, network, Live
    <2> QED  BY <1>00, <2>1 DEF LineOK
  <1> QED
    BY <1>1, <1>2, <1>3, <1>4, <1>5, <1>6, <1>7, <1>8, <1>9, <1>10 DEF Next, Think

LEMMA ResidueStep ==
  ASSUME IInv, [Next]_vars
  PROVE  ResidueOK'
  <1> SUFFICES ASSUME Live', StaleResidue'
               PROVE  batch' = 0 /\ rx' # <<>> /\ rx'[1].kind = "v"
    BY DEF ResidueOK
  <1>0. TypeOK /\ BatchOK /\ LinesOK
    BY DEF IInv
  <1>00. Live /\ StaleResidue => batch = 0 /\ rx # <<>> /\ rx[1].kind = "v"
    BY DEF IInv, ResidueOK
  <1>1. CASE ThinkConnect \/ ThinkSocketError \/ CommandReconnect
    <2>1. CASE Connect
      <3>1. batch' = 0
        BY <1>0, <1>1, <2>1
        DEF ThinkConnect, ThinkSocketError, CommandReconnect, Ready, BatchOK, TypeOK
      <3>2. connected'
        BY <1>1 DEF ThinkConnect, ThinkSocketError, CommandReconnect, Ready, Live
      <3>3. Len(rx') = 1 /\ rx'[1].kind = "v"
        BY <1>0, <2>1, <3>2, Connecting
      <3> QED  BY <3>1, <3>3
    <2>2. CASE ~Connect
      BY <1>1, <2>2 DEF ThinkConnect, ThinkSocketError, CommandReconnect, Live
    <2> QED  BY <2>1, <2>2
  <1>2. CASE ThinkGiveUp \/ ThinkPingTimeout
    BY <1>2 DEF ThinkGiveUp, ThinkPingTimeout, Ready, Disconnect, Live
  <1>3. ASSUME NEW k \in 0 .. Len(rx), NEW part \in BOOLEAN, ThinkRecv(k, part)
        PROVE  batch' = 0 /\ rx' # <<>> /\ rx'[1].kind = "v"
    <2>1. Live /\ batch = 0 /\ batch' = k /\ session' = session
      BY <1>3, Receiving
    <2>2. residue' = (IF k = 0 /\ StaleResidue THEN residue
                      ELSE IF part THEN rx[k + 1] ELSE NoLine)
      BY <1>3 DEF ThinkRecv
    <2>3. CASE k = 0 /\ StaleResidue
      <3>1. rx' = rx
        BY <1>3, <2>3 DEF ThinkRecv
      <3> QED  BY <1>00, <2>1, <2>3, <3>1
    <2>4. CASE ~(k = 0 /\ StaleResidue) /\ part
      <3>1. k + 1 \in 1 .. Len(rx)
        BY <1>0, <1>3, <2>4 DEF ThinkRecv, TypeOK
      <3>2. rx[k + 1].sess = session
        BY <1>0, <2>1, <3>1 DEF LinesOK, LineOK, TypeOK
      <3> QED  BY <2>1, <2>2, <2>4, <3>2 DEF StaleResidue
    <2>5. CASE ~(k = 0 /\ StaleResidue) /\ ~part
      BY <2>2, <2>5 DEF StaleResidue, NoLine
    <2> QED  BY <2>3, <2>4, <2>5
  <1>4. CASE ThinkQuiet
    BY <1>00, <1>4 DEF ThinkQuiet, Ready, Live, StaleResidue, kept
  <1>5. ASSUME NEW update \in BOOLEAN, ThinkTail(update)
        PROVE  batch' = 0 /\ rx' # <<>> /\ rx'[1].kind = "v"
    BY <1>00, <1>5 DEF ThinkTail, Live, StaleResidue, kept
  <1>6. CASE ProcessLine
    <2>1. Live /\ batch > 0 /\ session' = session /\ residue' = residue
      BY <1>0, <1>6, Processing
      DEF ProcessLine, LineVersionOK, LineVersionBad, LineAuth, LineSubscribed,
          LineExecuted, LineReply, LineEnd, LineLog, BatchOK, kept
    <2> QED  BY <1>00, <2>1 DEF StaleResidue
  <1>7. CASE GameAnswers
    <2>1. Live /\ StaleResidue /\ batch' = batch
      BY <1>7 DEF GameAnswers, Live, StaleResidue, kept
    <2>2. 1 \in 1 .. Len(rx)
      BY <1>0, <1>00, <2>1 DEF TypeOK
    <2>3. rx'[1] = rx[1] /\ Len(rx') > 0
      BY <1>0, <1>7, <2>2, Answering
    <2> QED  BY <1>00, <2>1, <2>3
  <1>8. CASE GameLogs
    BY <1>00, <1>8 DEF GameLogs, Live, StaleResidue, kept
  <1>9. CASE LinkBreaks \/ Tick \/ UNCHANGED vars
    BY <1>00, <1>9 DEF LinkBreaks, Tick, vars, kept, network, Live, StaleResidue
  <1> QED
    BY <1>1, <1>2, <1>3, <1>4, <1>5, <1>6, <1>7, <1>8, <1>9 DEF Next, Think

LEMMA EarlyStep ==
  ASSUME IInv, [Next]_vars
  PROVE  EarlyOK'
  <1> DEFINE Unasked == ~gameSubscribed /\ ~subscribed /\ ~fullyConnected /\ answered = {}
             TxEarly == \A i \in 1 .. Len(tx) : tx[i] \in {"auth", "ping"}
             RxEarly == \A i \in 1 .. Len(rx) : EarlyLineOK(rx[i])
             Ahead   == \A i \in 1 .. Len(rx) : rx[i].kind = "v" => AuthAhead
  <1> SUFFICES ASSUME Live', rconVersion' = "none"
               PROVE  Unasked' /\ TxEarly' /\ RxEarly' /\ Ahead'
    BY DEF EarlyOK
  <1>0. TypeOK /\ BatchOK /\ DisconnectedOK /\ LinesOK
    BY DEF IInv
  <1>00. Live /\ rconVersion = "none" => Unasked /\ TxEarly /\ RxEarly /\ Ahead
    BY DEF IInv, EarlyOK
  <1> HIDE DEF Unasked, TxEarly, RxEarly, Ahead
  <1>1. CASE ThinkConnect \/ ThinkSocketError \/ CommandReconnect
    <2>1. Connect /\ connected'
      BY <1>1 DEF ThinkConnect, ThinkSocketError, CommandReconnect, Ready, Live
    <2>2. ~subscribed' /\ ~fullyConnected' /\ answered' = {}
      BY <1>0, <1>1
      DEF ThinkConnect, ThinkSocketError, CommandReconnect, DisconnectedOK, WipeData, wiped
    <2>3. /\ ~gameSubscribed' /\ Len(tx') = 1 /\ tx'[1] = "auth"
          /\ Len(rx') = 1 /\ rx'[1].kind = "v"
      BY <1>0, <2>1, Connecting
    <2>4. (\A i \in 1 .. Len(tx') : i = 1) /\ (\A i \in 1 .. Len(rx') : i = 1) /\ 1 \in 1 .. Len(tx')
      BY <2>3
    <2>5. AuthAhead'
      BY <2>3, <2>4 DEF AuthAhead
    <2>6. EarlyLineOK(rx[1])'
      BY <2>3 DEF EarlyLineOK
    <2>7. Unasked'
      BY <2>2, <2>3 DEF Unasked
    <2>8. TxEarly' /\ RxEarly' /\ Ahead'
      BY <2>3, <2>4, <2>5, <2>6, Zenon DEF TxEarly, RxEarly, Ahead
    <2> QED  BY <2>7, <2>8
  <1>2. CASE ThinkGiveUp \/ ThinkPingTimeout
    BY <1>2 DEF ThinkGiveUp, ThinkPingTimeout, Ready, Disconnect, Live
  <1>3. ASSUME NEW k \in 0 .. Len(rx), NEW part \in BOOLEAN, ThinkRecv(k, part)
        PROVE  Unasked' /\ TxEarly' /\ RxEarly' /\ Ahead'
    <2>1. Unasked /\ TxEarly /\ RxEarly /\ Ahead
      BY <1>00, <1>3, Receiving DEF wiped
    <2>2. Unasked' /\ TxEarly' /\ Len(rx') = Len(rx) /\ Len(rx) \in Nat
      BY <1>0, <1>3, <2>1, Receiving DEF Unasked, TxEarly, wiped, TypeOK
    <2>3. CASE rx' = rx
      BY <1>3, <2>1, <2>2, <2>3, Receiving DEF RxEarly, Ahead, AuthAhead, wiped
    <2>4. CASE /\ Len(rx) > 0 /\ rx[1].kind = "v" /\ ~rx'[1].whole
               /\ \A j \in 2 .. Len(rx) : rx'[j] = rx[j]
      <3>1. \A i \in 1 .. Len(rx') : i = 1 \/ i \in 2 .. Len(rx)
        BY <2>2
      <3>2. RxEarly'
        <4>1. EarlyLineOK(rx[1])'
          BY <2>4 DEF EarlyLineOK
        <4>2. ASSUME NEW i \in 2 .. Len(rx) PROVE EarlyLineOK(rx[i])'
          <5>1. EarlyLineOK(rx[i]) /\ rx'[i] = rx[i]
            BY <2>1, <2>2, <2>4 DEF RxEarly
          <5> QED  BY <5>1 DEF EarlyLineOK
        <4> QED  BY <2>2, <3>1, <4>1, <4>2 DEF RxEarly
      <3>3. AuthAhead
        BY <2>1, <2>2, <2>4 DEF Ahead
      <3>4. UNCHANGED <<userKnown, tx>>
        BY <1>3, Receiving DEF wiped
      <3>5. (\E j \in 1 .. Len(rx) : rx[j].kind = "a")
              => \E j \in 1 .. Len(rx') : rx'[j].kind = "a"
        BY <2>2, <2>4
      <3>6. AuthAhead'
        BY <3>3, <3>4, <3>5 DEF AuthAhead
      <3> QED  BY <2>2, <3>2, <3>6 DEF Ahead
    <2> QED  BY <1>3, <2>3, <2>4, Receiving
  <1>4. CASE ThinkQuiet \/ \E update \in BOOLEAN : ThinkTail(update)
    <2>1. Live /\ rconVersion = "none"
      BY <1>4 DEF ThinkQuiet, ThinkTail, Ready, Live
    <2>2. Unasked /\ TxEarly /\ RxEarly /\ Ahead
      BY <1>00, <2>1
    <2>3. tx' = tx \/ tx' = Append(tx, "ping")
      BY <1>4, <2>1 DEF ThinkQuiet, ThinkTail
    <2>4. UNCHANGED <<subscribed, fullyConnected, answered, gameSubscribed, rx, userKnown>>
      BY <1>4 DEF ThinkQuiet, ThinkTail
    <2>5. tx \in Seq(Commands) /\ "ping" \in Commands
      BY <1>0 DEF TypeOK, Commands
    <2>6. TxEarly'
      BY <2>2, <2>3, <2>5, AppendFacts DEF TxEarly
    <2>7. (\E j \in 1 .. Len(tx) : tx[j] = "auth") => \E j \in 1 .. Len(tx') : tx'[j] = "auth"
      BY <2>3, <2>5, AppendFacts
    <2>8. AuthAhead => AuthAhead'
      BY <2>4, <2>7 DEF AuthAhead
    <2> QED  BY <2>2, <2>4, <2>6, <2>8 DEF Unasked, RxEarly, Ahead, EarlyLineOK
  <1>5. CASE ProcessLine
    <2>1. pc = "lines" /\ Live /\ Len(rx) \in Nat /\ 1 \in 1 .. Len(rx)
          /\ \A i \in 1 .. Len(rx') : i + 1 \in 2 .. Len(rx) /\ rx'[i] = rx[i + 1]
      BY <1>0, <1>5, Processing DEF TypeOK
    <2>2. rconVersion = "none"
      <3>1. SUFFICES ASSUME rconVersion # "none" PROVE FALSE
        OBVIOUS
      <3>2. rconVersion = "ok"
        BY <1>0, <3>1 DEF TypeOK
      <3>3. rx[1].kind # "v"
        BY <2>1, <3>2, LateLine
      <3> QED
        BY <1>5, <3>2, <3>3
        DEF ProcessLine, LineVersionOK, LineVersionBad, LineAuth, LineSubscribed,
            LineExecuted, LineReply, LineEnd, LineLog, Handling, wiped
    <2>3. Unasked /\ TxEarly /\ RxEarly
      BY <1>00, <2>1, <2>2
    <2>4. tx' = tx /\ gameSubscribed' = gameSubscribed
      BY <1>5
      DEF ProcessLine, LineVersionOK, LineVersionBad, LineAuth, LineSubscribed,
          LineExecuted, LineReply, LineEnd, LineLog
    <2>5. ~subscribed' /\ ~fullyConnected' /\ answered' = {}
      <3>1. CASE LineVersionBad
        BY <3>1 DEF LineVersionBad, Disconnect, WipeData
      <3>2. CASE LineReply
        <4>1. rx[1].whole => rx[1].word = "ping"
          BY <2>1, <2>3, <3>2 DEF RxEarly, EarlyLineOK, LineReply, Handling
        <4> QED  BY <2>3, <3>2, <4>1 DEF LineReply, Unasked, Queries
      <3>3. CASE LineSubscribed
        <4>1. ~subscribed'
          BY <2>2, <2>3, <3>3 DEF LineSubscribed, Unasked
        <4> QED  BY <2>3, <3>3, <4>1 DEF LineSubscribed, Unasked
      <3>4. CASE LineVersionOK \/ LineAuth
        BY <2>3, <3>4 DEF LineVersionOK, LineAuth, Unasked
      <3>5. CASE LineExecuted \/ LineEnd \/ LineLog
        BY <2>3, <3>5 DEF LineExecuted, LineEnd, LineLog, Unasked, wiped
      <3> QED  BY <1>5, <3>1, <3>2, <3>3, <3>4, <3>5 DEF ProcessLine
    <2>6. Unasked' /\ TxEarly'
      BY <2>3, <2>4, <2>5 DEF Unasked, TxEarly
    <2>7. RxEarly'
      <3>1. ASSUME NEW i \in 1 .. Len(rx') PROVE EarlyLineOK(rx[i])'
        <4>1. EarlyLineOK(rx[i + 1]) /\ rx'[i] = rx[i + 1]
          BY <2>1, <2>3 DEF RxEarly
        <4> QED  BY <4>1 DEF EarlyLineOK
      <3> QED  BY <3>1 DEF RxEarly
    <2>8. Ahead'
      <3>1. ASSUME NEW i \in 1 .. Len(rx') PROVE rx'[i].kind # "v"
        <4>1. LineOK(i + 1, rx[i + 1]) /\ i + 1 # 1
          BY <1>0, <2>1 DEF LinesOK
        <4> QED  BY <2>1, <4>1 DEF LineOK
      <3> QED  BY <3>1 DEF Ahead
    <2> QED  BY <2>6, <2>7, <2>8
  <1>6. CASE GameAnswers
    <2>1. Live /\ rconVersion = "none"
          /\ UNCHANGED <<subscribed, fullyConnected, answered, userKnown>>
      BY <1>6 DEF GameAnswers, Live, wiped
    <2>2. Unasked /\ TxEarly /\ RxEarly /\ Ahead
      BY <1>00, <2>1
    <2>3. tx[1] \in {"auth", "ping"} /\ tx[1] \in Commands
      BY <1>0, <1>6, <2>2, Answering DEF TxEarly
    <2>4. Unasked'
      BY <1>6, <2>1, <2>2, <2>3 DEF Unasked, GameAnswers
    <2>5. TxEarly'
      BY <1>0, <1>6, <2>2, Answering DEF TxEarly
    <2>6. ASSUME NEW i \in 1 .. Len(rx'), i \notin 1 .. Len(rx)
          PROVE  EarlyLineOK(rx[i])' /\ rx'[i].kind # "v"
      <3>1. rx'[i] = Answer(tx[1])[i - Len(rx)] /\ i - Len(rx) \in 1 .. Len(Answer(tx[1]))
        BY <1>0, <1>6, <2>6, Answering
      <3>2. AnswerLine(tx[1], i - Len(rx), rx'[i])
        BY <1>0, <2>3, <3>1, Answers
      <3> QED  BY <2>2, <2>3, <3>2 DEF AnswerLine, EarlyLineOK, Unasked
    <2>7. ASSUME NEW i \in 1 .. Len(rx) PROVE EarlyLineOK(rx[i])' /\ rx'[i] = rx[i]
      <3>1. EarlyLineOK(rx[i]) /\ rx'[i] = rx[i]
        BY <1>0, <1>6, <2>2, Answering DEF RxEarly
      <3> QED  BY <3>1 DEF EarlyLineOK
    <2>8. RxEarly'
      BY <2>6, <2>7 DEF RxEarly
    <2>9. AuthAhead => AuthAhead'
      <3>1. ASSUME NEW j \in 1 .. Len(rx), rx[j].kind = "a"
            PROVE  \E n \in 1 .. Len(rx') : rx'[n].kind = "a"
        BY <1>0, <1>6, <2>7, <3>1, Answering
      <3>2. ASSUME NEW j \in 1 .. Len(tx), tx[j] = "auth"
            PROVE  \/ \E n \in 1 .. Len(rx') : rx'[n].kind = "a"
                   \/ \E n \in 1 .. Len(tx') : tx'[n] = "auth"
        <4>1. CASE j = 1
          <5>1. Len(Answer(tx[1])) = 1 /\ Answer(tx[1])[1].kind = "a"
            BY <1>0, <2>3, <3>2, <4>1, Answers
          <5>2. 1 \in 1 .. Len(Answer(tx[1]))
            BY <5>1
          <5>3. rx'[Len(rx) + 1].kind = "a" /\ Len(rx) + 1 \in 1 .. Len(rx')
            BY <1>0, <1>6, <5>1, <5>2, Answering
          <5> QED  BY <5>3
        <4>2. CASE j # 1
          <5>1. Len(tx') = Len(tx) - 1 /\ Len(tx) \in Nat
            BY <1>0, <1>6, Answering DEF TypeOK
          <5>2. j - 1 \in 1 .. Len(tx') /\ (j - 1) + 1 = j
            BY <4>2, <5>1
          <5>3. tx'[j - 1] = tx[(j - 1) + 1]
            BY <1>0, <1>6, <5>2, Answering
          <5> QED  BY <3>2, <5>2, <5>3
        <4> QED  BY <4>1, <4>2
      <3> QED  BY <2>1, <3>1, <3>2 DEF AuthAhead
    <2>10. Ahead'
      BY <2>2, <2>6, <2>7, <2>9 DEF Ahead
    <2> QED  BY <2>4, <2>5, <2>8, <2>10
  <1>7. CASE GameLogs
    <2>1. Live /\ rconVersion = "none" /\ gameSubscribed
      BY <1>7 DEF GameLogs, Live, wiped
    <2> QED  BY <1>00, <2>1 DEF Unasked
  <1>8. CASE LinkBreaks \/ Tick \/ UNCHANGED vars
    <2>1. Live /\ rconVersion = "none"
          /\ UNCHANGED <<subscribed, fullyConnected, answered, userKnown, gameSubscribed, tx, rx>>
      BY <1>8 DEF LinkBreaks, Tick, vars, wiped, network, Live
    <2> QED  BY <1>00, <2>1 DEF Unasked, TxEarly, RxEarly, Ahead, AuthAhead, EarlyLineOK
  <1> QED
    BY <1>1, <1>2, <1>3, <1>4, <1>5, <1>6, <1>7, <1>8 DEF Next, Think

----------------------------------------------------------------------------
(* After the version line: the order of the handshake and the requests. *)

LEMMA RankTwo ==
  ASSUME NEW line, LineRank(line) = 2
  PROVE  line.kind = "subscribed"
  BY DEF LineRank, CmdRank

LEMMA DoneKept ==
  ASSUME userKnown => userKnown', subscribed => subscribed', answered \subseteq answered'
  PROVE  /\ \A m \in 1 .. 4 : Done(m) => Done(m)'
         /\ (Done(1)' <=> userKnown') /\ (Done(2)' <=> subscribed')
         /\ (Done(3)' <=> "serverinfo" \in answered')
         /\ (Done(4)' <=> "clientvarlist" \in answered')
  <1>1. /\ (Done(1) <=> userKnown) /\ (Done(2) <=> subscribed)
        /\ (Done(3) <=> "serverinfo" \in answered)
        /\ (Done(4) <=> "clientvarlist" \in answered)
    BY DEF Done
  <1>2. /\ (Done(1)' <=> userKnown') /\ (Done(2)' <=> subscribed')
        /\ (Done(3)' <=> "serverinfo" \in answered')
        /\ (Done(4)' <=> "clientvarlist" \in answered')
    BY DEF Done
  <1>3. \A m \in 1 .. 4 : m = 1 \/ m = 2 \/ m = 3 \/ m = 4
    OBVIOUS
  <1> QED  BY <1>1, <1>2, <1>3

(* handling the first line does what that line is the end of *)
LEMMA Consumed ==
  ASSUME IInv, ProcessLine, rconVersion = "ok"
  PROVE  /\ rconVersion' = "ok" /\ tx' = tx /\ gameSubscribed' = gameSubscribed
         /\ subscribed' <=> (subscribed \/ rx[1].kind = "subscribed")
         /\ \A m \in 1 .. 4 : Done(m) \/ LineRank(rx[1]) = m => Done(m)'
         /\ roster' \subseteq roster \cup {session}
         /\ roster' # {} => roster # {} \/ subscribed
         /\ rx[1].kind = "exec" => lastCommand' = Name(rx[1].word) /\ subscribed
  <1>0. pc = "lines"
    BY Processing
  <1>1. /\ rx[1].whole /\ rx[1].sess = session /\ rx[1].kind # "v"
        /\ \A m \in 1 .. 4 : m < LineNeeds(rx[1]) => Done(m)
        /\ rx[1].kind = "r" => \/ lastCommand = Name(rx[1].word)
                               \/ rx[1].word = "ping" /\ ~subscribed
    BY <1>0, LateLine
  <1>2. CASE LineVersionOK \/ LineVersionBad
    BY <1>1, <1>2 DEF LineVersionOK, LineVersionBad, Handling
  <1>3. CASE LineAuth
    <2>1. rx[1].kind = "a" /\ userKnown' = TRUE
          /\ UNCHANGED <<rconVersion, tx, gameSubscribed, subscribed, roster, answered>>
      BY <1>1, <1>3 DEF LineAuth, Handling
    <2>2. LineRank(rx[1]) = 1
      BY <2>1 DEF LineRank
    <2> QED  BY <2>1, <2>2, DoneKept
  <1>4. CASE LineSubscribed
    <2>1. rx[1].kind = "subscribed"
          /\ UNCHANGED <<rconVersion, tx, gameSubscribed, userKnown, roster, answered>>
      BY <1>4 DEF LineSubscribed, Handling
    <2>2. LineRank(rx[1]) = 2 /\ LineNeeds(rx[1]) = 2
      BY <2>1 DEF LineRank, LineNeeds
    <2>3. userKnown
      BY <1>1, <2>2 DEF Done
    <2>4. subscribed' = TRUE
      BY <1>4, <2>3 DEF LineSubscribed
    <2> QED  BY <2>1, <2>2, <2>4, DoneKept
  <1>5. CASE LineExecuted
    <2>1. rx[1].kind = "exec"
          /\ UNCHANGED <<rconVersion, tx, gameSubscribed, userKnown, subscribed, roster, answered>>
      BY <1>5 DEF LineExecuted, Handling, wiped
    <2>2. LineRank(rx[1]) = 0 /\ LineNeeds(rx[1]) = 3
      BY <2>1 DEF LineRank, LineNeeds
    <2>3. userKnown /\ subscribed
      BY <1>1, <2>2 DEF Done
    <2>4. lastCommand' = Name(rx[1].word)
      BY <1>5, <2>3 DEF LineExecuted
    <2> QED  BY <2>1, <2>2, <2>3, <2>4, DoneKept
  <1>6. CASE LineReply
    <2>1. rx[1].kind = "r"
          /\ UNCHANGED <<rconVersion, tx, gameSubscribed, userKnown, subscribed>>
      BY <1>6 DEF LineReply, Handling
    <2>2. answered \subseteq answered'
      BY <1>6 DEF LineReply
    <2>3. ASSUME rx[1].word \in Queries
          PROVE  rx[1].word \in answered' /\ subscribed
      <3>1. lastCommand = Name(rx[1].word)
        BY <1>1, <2>1, <2>3 DEF Queries
      <3>2. LineNeeds(rx[1]) \in {3, 4}
        BY <2>1, <2>3 DEF LineNeeds, LineRank, CmdRank, Queries
      <3> QED  BY <1>1, <1>6, <2>3, <3>1, <3>2 DEF LineReply, Done
    <2>4. LineRank(rx[1]) = 3 => rx[1].word = "serverinfo"
      BY <2>1 DEF LineRank, CmdRank
    <2>5. LineRank(rx[1]) = 4 => rx[1].word = "clientvarlist"
      BY <2>1 DEF LineRank, CmdRank
    <2>6. LineRank(rx[1]) # 1 /\ LineRank(rx[1]) # 2
      BY <2>1 DEF LineRank, CmdRank
    <2>7. \A m \in 1 .. 4 : Done(m) \/ LineRank(rx[1]) = m => Done(m)'
      <3>1. \A m \in 1 .. 4 : Done(m) => Done(m)'
        BY <2>1, <2>2, DoneKept
      <3>2. LineRank(rx[1]) = 3 => Done(3)'
        BY <2>1, <2>2, <2>3, <2>4, DoneKept DEF Queries
      <3>3. LineRank(rx[1]) = 4 => Done(4)'
        BY <2>1, <2>2, <2>3, <2>5, DoneKept DEF Queries
      <3>4. \A m \in 1 .. 4 : m = 1 \/ m = 2 \/ m = 3 \/ m = 4
        OBVIOUS
      <3> QED  BY <2>6, <3>1, <3>2, <3>3, <3>4
    <2>8. roster' \subseteq roster \cup {session} /\ (roster' # roster => subscribed)
      <3>1. \/ roster' = roster
            \/ rx[1].word = "clientvarlist" /\ roster' = roster \cup {session}
        <4>1. roster' = roster \/ /\ rx[1].word = "clientvarlist"
                                  /\ roster' = roster \cup {rx[1].sess}
          BY <1>6 DEF LineReply
        <4>2. rx[1].sess = session
          BY <1>1
        <4> QED  BY <4>1, <4>2
      <3> QED  BY <2>3, <3>1 DEF Queries
    <2> QED  BY <2>1, <2>7, <2>8
  <1>7. CASE LineEnd \/ LineLog
    <2>1. rx[1].kind \in {"c", "log"}
          /\ UNCHANGED <<rconVersion, tx, gameSubscribed, userKnown, subscribed, roster, answered>>
      BY <1>7 DEF LineEnd, LineLog, Handling, wiped
    <2>2. LineRank(rx[1]) = 0
      BY <2>1 DEF LineRank
    <2> QED  BY <2>1, <2>2, DoneKept
  <1> QED  BY <1>2, <1>3, <1>4, <1>5, <1>6, <1>7 DEF ProcessLine

LEMMA LateProcess ==
  ASSUME IInv, ProcessLine, rconVersion = "ok"
  PROVE  LateOK'
  <1>0. TypeOK /\ LinesOK /\ RxOK /\ TxOK /\ GameOK /\ ReplyOK /\ roster \subseteq {session}
        /\ (roster # {} => subscribed)
    BY DEF IInv, LateOK
  <1>1. /\ Len(rx) \in Nat /\ Len(rx) >= 1 /\ Len(rx') = Len(rx) - 1 /\ session' = session
        /\ \A i \in 1 .. Len(rx') : i + 1 \in 2 .. Len(rx) /\ rx'[i] = rx[i + 1]
        /\ Live /\ tx' = tx
    BY <1>0, Processing, Consumed DEF TypeOK
  <1>2. ASSUME NEW m \in 1 .. 4, NEW n \in 0 .. Len(rx), Reached(m, n)
        PROVE  Reached(m, n - 1)'
    <2>1. CASE Done(m)
      BY <2>1, Consumed DEF Reached
    <2>2. ASSUME NEW j \in 1 .. n, LineRank(rx[j]) = m
          PROVE  Reached(m, n - 1)'
      <3>1. CASE j = 1
        BY <2>2, <3>1, Consumed DEF Reached
      <3>2. CASE j # 1
        <4>1. j - 1 \in 1 .. (n - 1) /\ j - 1 \in 1 .. Len(rx') /\ (j - 1) + 1 = j
          BY <1>1, <3>2
        <4>2. rx'[j - 1] = rx[j]
          BY <1>1, <4>1
        <4>3. LineRank(rx'[j - 1]) = m
          BY <2>2, <4>2
        <4>4. LineRank(rx[j - 1])' = m
          BY <4>3 DEF LineRank, CmdRank
        <4> QED  BY <4>1, <4>4 DEF Reached
      <3> QED  BY <3>1, <3>2
    <2> QED  BY <1>2, <2>1, <2>2 DEF Reached
  <1>3. RxOK'
    <2>1. ASSUME NEW i \in 1 .. Len(rx'), NEW m \in 1 .. 4, m < LineNeeds(rx[i])'
          PROVE  Reached(m, i - 1)'
      <3>1. i + 1 \in 1 .. Len(rx) /\ i \in 0 .. Len(rx) /\ (i + 1) - 1 = i
            /\ rx'[i] = rx[i + 1]
        BY <1>1
      <3>2. m < LineNeeds(rx[i + 1])
        BY <2>1, <3>1 DEF LineNeeds, LineRank, CmdRank
      <3>3. Reached(m, i)
        BY <1>0, <3>1, <3>2 DEF RxOK
      <3> QED  BY <1>2, <3>1, <3>3
    <2> QED  BY <2>1 DEF RxOK
  <1>4. \A m \in 1 .. 4 : Reached(m, Len(rx)) => Reached(m, Len(rx))'
    BY <1>1, <1>2
  <1>5. TxOK'
    <2>1. ASSUME NEW i \in 1 .. Len(tx), NEW m \in 1 .. 4, m < CmdNeeds(tx[i])
          PROVE  Reached(m, Len(rx))' \/ \E j \in 1 .. (i - 1) : CmdRank(tx[j]) = m
      BY <1>0, <1>4, <2>1 DEF TxOK
    <2> QED  BY <1>1, <2>1 DEF TxOK
  <1>6. GameOK'
    <2>1. CASE gameSubscribed
      BY <1>0, <1>4, <2>1, Consumed DEF GameOK
    <2>2. CASE ~gameSubscribed
      BY <1>0, <1>1, <2>2, Consumed DEF GameOK
    <2> QED  BY <2>1, <2>2
  <1>7. ReplyOK'
    <2>1. SUFFICES ASSUME NEW i \in 1 .. Len(rx'), rx'[i].kind = "r"
                   PROVE  Preceded(i)' \/ Current(i)' \/ EarlyPing(i)'
      BY DEF ReplyOK
    <2>2. i + 1 \in 1 .. Len(rx) /\ rx'[i] = rx[i + 1] /\ i \in Nat /\ i >= 1
      BY <1>1
    <2>3. Preceded(i + 1) \/ Current(i + 1) \/ EarlyPing(i + 1)
      BY <1>0, <2>1, <2>2 DEF ReplyOK
    <2>4. ~Current(i + 1)
      BY <2>2 DEF Current
    <2>5. CASE Preceded(i + 1)
      <3>1. (i + 1) - 1 = i
        BY <2>2
      <3>2. rx[i].kind = "exec" /\ rx[i].word = rx[i + 1].word
        BY <2>5, <3>1 DEF Preceded
      <3>3. CASE i = 1
        BY <2>2, <3>2, <3>3, Consumed DEF Current, Name
      <3>4. CASE i # 1
        <4>1. i - 1 \in 1 .. Len(rx') /\ (i - 1) + 1 = i /\ i > 1
          BY <1>1, <2>2, <3>4
        <4>2. rx'[i - 1] = rx[i]
          BY <1>1, <4>1
        <4> QED  BY <2>2, <3>2, <4>1, <4>2 DEF Preceded
      <3> QED  BY <3>3, <3>4
    <2>6. CASE EarlyPing(i + 1)
      <3>1. /\ rx[i + 1].word = "ping" /\ ~subscribed
            /\ \A j \in 1 .. i : rx[j].kind # "subscribed"
        BY <2>2, <2>6 DEF EarlyPing
      <3>2. ~subscribed'
        BY <2>2, <3>1, Consumed
      <3>3. \A j \in 1 .. (i - 1) : rx'[j].kind # "subscribed"
        <4>1. ASSUME NEW j \in 1 .. (i - 1) PROVE rx'[j] = rx[j + 1] /\ j + 1 \in 1 .. i
          <5>1. j \in 1 .. Len(rx') /\ j + 1 \in 1 .. i
            BY <1>1, <2>2
          <5> QED  BY <1>1, <5>1
        <4> QED  BY <3>1, <4>1
      <3> QED  BY <2>2, <3>1, <3>2, <3>3 DEF EarlyPing
    <2> QED  BY <2>3, <2>4, <2>5, <2>6
  <1>8. \A i \in 1 .. Len(rx') : rx'[i].kind # "v"
    <2>1. ASSUME NEW i \in 1 .. Len(rx') PROVE rx'[i].kind # "v"
      <3>1. LineOK(i + 1, rx[i + 1]) /\ i + 1 # 1 /\ rx'[i] = rx[i + 1]
        BY <1>0, <1>1 DEF LinesOK
      <3> QED  BY <3>1 DEF LineOK
    <2> QED  BY <2>1
  <1>9. roster' \subseteq {session'} /\ (roster' # {} => subscribed')
    BY <1>0, <1>1, Consumed
  <1> QED  BY <1>3, <1>5, <1>6, <1>7, <1>8, <1>9 DEF LateOK

LEMMA LateVersion ==
  ASSUME IInv, LineVersionOK
  PROVE  LateOK'
  <1>0. TypeOK /\ BatchOK /\ LinesOK /\ EarlyOK /\ ProcessLine /\ pc = "lines"
    BY DEF IInv, ProcessLine, LineVersionOK, Handling
  <1>1. /\ Live /\ Len(rx) \in Nat /\ 1 \in 1 .. Len(rx) /\ Len(rx') = Len(rx) - 1
        /\ session' = session /\ rx[1].kind = "v"
        /\ \A i \in 1 .. Len(rx') : i + 1 \in 2 .. Len(rx) /\ rx'[i] = rx[i + 1]
    BY <1>0, Processing DEF TypeOK, LineVersionOK, Handling
  <1>2. rconVersion = "none"
    BY <1>0, <1>1, LateLine DEF TypeOK
  <1>3. /\ ~gameSubscribed /\ ~subscribed /\ AuthAhead
        /\ \A i \in 1 .. Len(tx) : tx[i] \in {"auth", "ping"}
        /\ \A i \in 1 .. Len(rx) : EarlyLineOK(rx[i])
    BY <1>0, <1>1, <1>2 DEF EarlyOK
  <1>4. UNCHANGED <<subscribed, userKnown, roster, gameSubscribed>>
    BY DEF LineVersionOK
  <1>5. \A i \in 1 .. Len(rx') : \/ rx'[i].kind \in {"a", "c"}
                                 \/ rx'[i].kind = "r" /\ rx'[i].word = "ping"
    <2>1. ASSUME NEW i \in 1 .. Len(rx')
          PROVE  \/ rx'[i].kind \in {"a", "c"}
                 \/ rx'[i].kind = "r" /\ rx'[i].word = "ping"
      <3>1. /\ LineOK(i + 1, rx[i + 1]) /\ EarlyLineOK(rx[i + 1]) /\ i + 1 # 1
            /\ rx'[i] = rx[i + 1]
        BY <1>0, <1>1, <1>3 DEF LinesOK
      <3> QED  BY <3>1 DEF LineOK, EarlyLineOK
    <2> QED  BY <2>1
  <1>6. /\ tx \in Seq(Commands) /\ Len(tx) \in Nat /\ Len(tx') = Len(tx) + 4
        /\ \A i \in 1 .. Len(tx) : tx'[i] = tx[i]
        /\ tx'[Len(tx) + 1] = "s" /\ tx'[Len(tx) + 2] = "serverinfo"
        /\ tx'[Len(tx) + 3] = "clientvarlist" /\ tx'[Len(tx) + 4] = "initPing"
    <2>1. tx \in Seq(Commands) /\ <<"s">> \in Seq(Commands) /\ Burst \in Seq(Commands)
      BY <1>0, TupleTypes DEF TypeOK, Burst, Commands, Queries
    <2>2. /\ Len(<<"s">>) = 1 /\ <<"s">>[1] = "s" /\ Len(Burst) = 3
          /\ Burst[1] = "serverinfo" /\ Burst[2] = "clientvarlist" /\ Burst[3] = "initPing"
      BY TupleElements DEF Burst
    <2> DEFINE u == tx \o <<"s">>
    <2>3. tx' = u \o Burst
      BY DEF LineVersionOK
    <2>4. /\ u \in Seq(Commands) /\ Len(u) = Len(tx) + 1
          /\ \A i \in 1 .. Len(tx) : u[i] = tx[i]
      BY <2>1, <2>2, ConcatFacts
    <2>5. u[Len(tx) + 1] = "s"
      BY <2>1, <2>2, ConcatFacts
    <2> HIDE DEF u
    <2>6. /\ Len(tx') = Len(u) + Len(Burst) /\ \A i \in 1 .. Len(u) : tx'[i] = u[i]
          /\ \A i \in 1 .. Len(Burst) : tx'[Len(u) + i] = Burst[i]
      <3>1. u \in Seq(Commands) /\ Burst \in Seq(Commands)
        BY <2>1, <2>4
      <3>2. /\ Len(u \o Burst) = Len(u) + Len(Burst)
            /\ \A i \in 1 .. Len(u) : (u \o Burst)[i] = u[i]
            /\ \A i \in 1 .. Len(Burst) : (u \o Burst)[Len(u) + i] = Burst[i]
        BY <3>1, ConcatFacts
      <3> QED  BY <2>3, <3>2, Zenon
    <2>7. Len(tx) \in Nat
      BY <2>1
    <2>8. tx'[Len(u) + 1] = Burst[1] /\ tx'[Len(u) + 2] = Burst[2] /\ tx'[Len(u) + 3] = Burst[3]
      BY <2>2, <2>6
    <2>9. Len(u) + 1 = Len(tx) + 2 /\ Len(u) + 2 = Len(tx) + 3 /\ Len(u) + 3 = Len(tx) + 4
      BY <2>4, <2>7
    <2>10. tx'[Len(tx) + 1] = "s"
      BY <2>4, <2>5, <2>6, <2>7
    <2>11. \A i \in 1 .. Len(tx) : tx'[i] = tx[i]
      BY <2>4, <2>6, <2>7
    <2> QED  BY <2>1, <2>2, <2>6, <2>7, <2>8, <2>9, <2>10, <2>11
  <1>7. Reached(1, Len(rx))' \/ \E j \in 1 .. Len(tx) : CmdRank(tx'[j]) = 1
    <2>1. CASE userKnown
      BY <1>4, <2>1 DEF Reached, Done
    <2>2. ASSUME NEW j \in 1 .. Len(rx), rx[j].kind = "a"
          PROVE  Reached(1, Len(rx))'
      <3>1. j # 1 /\ j - 1 \in 1 .. Len(rx') /\ (j - 1) + 1 = j
        BY <1>1, <2>2
      <3>2. rx'[j - 1].kind = "a"
        BY <1>1, <2>2, <3>1
      <3>3. LineRank(rx[j - 1])' = 1
        BY <3>2 DEF LineRank
      <3> QED  BY <3>1, <3>3 DEF Reached
    <2>3. ASSUME NEW j \in 1 .. Len(tx), tx[j] = "auth"
          PROVE  CmdRank(tx'[j]) = 1
      BY <1>6, <2>3 DEF CmdRank
    <2> QED  BY <1>3, <2>1, <2>2, <2>3 DEF AuthAhead
  <1>8. RxOK'
    <2>1. ASSUME NEW i \in 1 .. Len(rx') PROVE LineNeeds(rx'[i]) \in {0, 1}
      BY <1>5 DEF LineNeeds, LineRank, CmdRank
    <2>2. ASSUME NEW i \in 1 .. Len(rx'), NEW m \in 1 .. 4 PROVE ~(m < LineNeeds(rx[i])')
      <3>1. LineNeeds(rx[i])' \in {0, 1}
        BY <2>1 DEF LineNeeds, LineRank, CmdRank
      <3> QED  BY <3>1
    <2> QED  BY <2>2 DEF RxOK
  <1>9. TxOK'
    <2>1. SUFFICES ASSUME NEW i \in 1 .. Len(tx'), NEW m \in 1 .. 4, m < CmdNeeds(tx'[i])
                   PROVE  Reached(m, Len(rx))' \/ \E j \in 1 .. (i - 1) : CmdRank(tx'[j]) = m
      BY DEF TxOK, CmdNeeds, CmdRank
    <2>2. CASE i \in 1 .. Len(tx)
      <3>1. tx'[i] \in {"auth", "ping"}
        BY <1>3, <1>6, <2>2
      <3>2. CmdNeeds(tx'[i]) \in {0, 1}
        BY <3>1 DEF CmdNeeds, CmdRank
      <3> QED  BY <2>1, <3>2
    <2>3. CASE i \notin 1 .. Len(tx)
      <3> DEFINE n == Len(tx)
      <3>1. n \in Nat /\ i \in {n + 1, n + 2, n + 3, n + 4} /\ i - 1 >= n
        BY <1>6, <2>3
      <3>2. Reached(1, Len(rx))' \/ \E j \in 1 .. (i - 1) : CmdRank(tx'[j]) = 1
        <4>1. \A j \in 1 .. Len(tx) : j \in 1 .. (i - 1)
          BY <3>1
        <4> QED  BY <1>7, <4>1
      <3>3. CmdRank(tx'[n + 1]) = 2 /\ CmdRank(tx'[n + 2]) = 3 /\ CmdRank(tx'[n + 3]) = 4
        BY <1>6 DEF CmdRank
      <3>4. CASE i = n + 1
        <4>1. CmdNeeds(tx'[i]) = 2
          BY <1>6, <3>4 DEF CmdNeeds, CmdRank
        <4> QED  BY <2>1, <3>2, <4>1
      <3>5. CASE i = n + 2
        <4>1. CmdNeeds(tx'[i]) = 3 /\ n + 1 \in 1 .. (i - 1)
          BY <1>6, <3>1, <3>5 DEF CmdNeeds, CmdRank
        <4>2. m = 1 \/ m = 2
          BY <2>1, <4>1
        <4> QED  BY <3>2, <3>3, <4>1, <4>2
      <3>6. CASE i = n + 3
        <4>1. CmdNeeds(tx'[i]) = 4 /\ n + 1 \in 1 .. (i - 1) /\ n + 2 \in 1 .. (i - 1)
          BY <1>6, <3>1, <3>6 DEF CmdNeeds, CmdRank
        <4>2. m = 1 \/ m = 2 \/ m = 3
          BY <2>1, <4>1
        <4> QED  BY <3>2, <3>3, <4>1, <4>2
      <3>7. CASE i = n + 4
        <4>1. n + 1 \in 1 .. (i - 1) /\ n + 2 \in 1 .. (i - 1) /\ n + 3 \in 1 .. (i - 1)
          BY <3>1, <3>7
        <4>2. m = 1 \/ m = 2 \/ m = 3 \/ m = 4
          BY <2>1
        <4> QED  BY <3>2, <3>3, <4>1, <4>2
      <3> QED  BY <3>1, <3>4, <3>5, <3>6, <3>7
    <2> QED  BY <2>2, <2>3
  <1>10. GameOK'
    BY <1>3, <1>4, <1>5 DEF GameOK
  <1>11. ReplyOK'
    <2>1. ASSUME NEW i \in 1 .. Len(rx'), rx'[i].kind = "r" PROVE EarlyPing(i)'
      <3>1. \A j \in 1 .. (i - 1) : j \in 1 .. Len(rx')
        BY <1>1, <2>1
      <3> QED  BY <1>3, <1>4, <1>5, <2>1, <3>1 DEF EarlyPing
    <2> QED  BY <2>1 DEF ReplyOK
  <1>12. roster' = {}
    BY <1>0, <1>1, <1>4 DEF LinesOK, LineOK
  <1>13. \A i \in 1 .. Len(rx') : rx'[i].kind # "v"
    BY <1>5
  <1> QED  BY <1>8, <1>9, <1>10, <1>11, <1>12, <1>13 DEF LateOK

LEMMA LateAnswer ==
  ASSUME IInv, GameAnswers, rconVersion = "ok"
  PROVE  LateOK'
  <1> DEFINE c == tx[1]
             n == Len(rx)
  <1>0. TypeOK /\ RxOK /\ TxOK /\ GameOK /\ ReplyOK /\ roster \subseteq {session}
        /\ (roster # {} => subscribed) /\ \A i \in 1 .. n : rx[i].kind # "v"
    BY DEF IInv, LateOK
  <1>1. UNCHANGED <<subscribed, userKnown, answered, roster, session, lastCommand, rconVersion>>
        /\ gameSubscribed' = (gameSubscribed \/ c = "s")
    BY DEF GameAnswers, wiped, kept
  <1>2. /\ c \in Commands /\ 1 \in 1 .. Len(tx) /\ Len(tx') = Len(tx) - 1
        /\ n \in Nat /\ Len(tx) \in Nat /\ Len(Answer(c)) \in Nat
        /\ \A i \in 1 .. Len(tx') : i + 1 \in 2 .. Len(tx) /\ tx'[i] = tx[i + 1]
    BY <1>0, Answering, AnswerType, SMTT(30), ZenonT(30) DEF TypeOK
  <1>3. /\ Len(rx') = n + Len(Answer(c))
        /\ \A i \in 1 .. n : i \in 1 .. Len(rx') /\ rx'[i] = rx[i]
        /\ \A i \in 1 .. Len(Answer(c)) : n + i \in 1 .. Len(rx') /\ rx'[n + i] = Answer(c)[i]
    BY <1>0, Answering
  <1>4. ASSUME NEW i \in 1 .. Len(rx'), i \notin 1 .. n
        PROVE  /\ i - n \in 1 .. Len(Answer(c)) /\ i >= n + 1
               /\ rx'[i] = Answer(c)[i - n] /\ AnswerLine(c, i - n, rx'[i])
    <2>1. i - n \in 1 .. Len(Answer(c)) /\ rx'[i] = Answer(c)[i - n]
      BY <1>0, <1>4, Answering
    <2>2. AnswerLine(c, i - n, rx'[i])
      BY <1>0, <1>2, <2>1, Answers
    <2> QED  BY <1>2, <2>1, <2>2
  <1>5. \A m \in 1 .. 4 : Done(m) => Done(m)'
    BY <1>1, DoneKept
  <1> HIDE DEF c, n
  <1>6. ASSUME NEW m \in 1 .. 4, NEW a \in 0 .. n, NEW b \in 0 .. Len(rx'), a <= b, Reached(m, a)
        PROVE  Reached(m, b)'
    <2>1. CASE Done(m)
      BY <1>5, <2>1 DEF Reached
    <2>2. ASSUME NEW j \in 1 .. a, LineRank(rx[j]) = m
          PROVE  Reached(m, b)'
      <3>1. j \in 1 .. b /\ j \in 1 .. n
        BY <1>2, <1>6
      <3>2. rx'[j] = rx[j]
        BY <1>3, <3>1
      <3>3. LineRank(rx[j])' = m
        BY <2>2, <3>2 DEF LineRank, CmdRank
      <3> QED  BY <3>1, <3>3 DEF Reached
    <2> QED  BY <1>6, <2>1, <2>2 DEF Reached
  <1>7. \A m \in 1 .. 4 : m < CmdNeeds(c) => Reached(m, n)
    BY <1>0, <1>2 DEF TxOK, c, n
  <1>8. n \in 0 .. n /\ Len(rx') \in 0 .. Len(rx') /\ n <= Len(rx') /\ n \in 0 .. Len(rx')
    BY <1>2, <1>3
  \* the answer brings the line that ends the rank of its command
  <1>9. ASSUME NEW m \in 1 .. 4, CmdRank(c) = m PROVE Reached(m, Len(rx))'
    <2>1. ASSUME NEW k \in 1 .. Len(Answer(c)), LineRank(Answer(c)[k]) = m
          PROVE  Reached(m, Len(rx))'
      <3>1. n + k \in 1 .. Len(rx') /\ rx'[n + k] = Answer(c)[k]
        BY <1>3
      <3>2. \E j \in 1 .. Len(rx') : LineRank(rx'[j]) = m
        BY <2>1, <3>1
      <3> QED  BY <3>2 DEF Reached, LineRank, CmdRank
    <2>2. CASE c = "auth"
      <3>1. Len(Answer(c)) = 1 /\ Answer(c)[1].kind = "a"
        BY <1>0, <1>2, <2>2, Answers
      <3>2. 1 \in 1 .. Len(Answer(c)) /\ LineRank(Answer(c)[1]) = 1 /\ m = 1
        BY <1>9, <2>2, <3>1 DEF LineRank, CmdRank
      <3> QED  BY <2>1, <3>2
    <2>3. CASE c = "s"
      <3>1. Len(Answer(c)) = 1 /\ Answer(c)[1].kind = "subscribed"
        BY <1>0, <1>2, <2>3, Answers
      <3>2. 1 \in 1 .. Len(Answer(c)) /\ LineRank(Answer(c)[1]) = 2 /\ m = 2
        BY <1>9, <2>3, <3>1 DEF LineRank, CmdRank
      <3> QED  BY <2>1, <3>2
    <2>4. CASE c \notin {"auth", "s"} /\ gameSubscribed
      <3>1. Len(Answer(c)) = 3 /\ Answer(c)[2].kind = "r" /\ Answer(c)[2].word = c
        BY <1>0, <1>2, <2>4, Answers
      <3>2. 2 \in 1 .. Len(Answer(c)) /\ LineRank(Answer(c)[2]) = m
        BY <1>9, <2>4, <3>1 DEF LineRank
      <3> QED  BY <2>1, <3>2
    <2>5. CASE c \notin {"auth", "s"} /\ ~gameSubscribed
      <3>1. Len(Answer(c)) = 2 /\ Answer(c)[1].kind = "r" /\ Answer(c)[1].word = c
        BY <1>0, <1>2, <2>5, Answers
      <3>2. 1 \in 1 .. Len(Answer(c)) /\ LineRank(Answer(c)[1]) = m
        BY <1>9, <2>5, <3>1 DEF LineRank
      <3> QED  BY <2>1, <3>2
    <2> QED  BY <2>2, <2>3, <2>4, <2>5
  <1>10. RxOK'
    <2>1. ASSUME NEW i \in 1 .. Len(rx'), NEW m \in 1 .. 4, m < LineNeeds(rx'[i])
          PROVE  Reached(m, i - 1)'
      <3>1. CASE i \in 1 .. n
        <4>1. m < LineNeeds(rx[i]) /\ i - 1 \in 0 .. n /\ i - 1 \in 0 .. Len(rx') /\ i - 1 <= i - 1
          BY <1>2, <1>3, <2>1, <3>1
        <4>2. Reached(m, i - 1)
          BY <1>0, <3>1, <4>1 DEF RxOK, n
        <4> QED  BY <1>6, <4>1, <4>2
      <3>2. CASE i \notin 1 .. n
        <4>1. AnswerLine(c, i - n, rx'[i]) /\ n <= i - 1 /\ i - 1 \in 0 .. Len(rx')
          BY <1>2, <1>3, <1>4, <3>2
        <4>2. Reached(m, n)
          <5>1. CASE rx'[i].kind = "exec"
            <6>1. gameSubscribed /\ LineNeeds(rx'[i]) = 3
              BY <4>1, <5>1 DEF AnswerLine, LineNeeds
            <6>2. m \in 1 .. 2
              BY <2>1, <6>1
            <6> QED  BY <1>0, <6>1, <6>2 DEF GameOK, n
          <5>2. CASE rx'[i].kind # "exec"
            <6>1. LineNeeds(rx'[i]) \in {0, CmdRank(c)}
              BY <4>1, <5>2 DEF AnswerLine, LineNeeds, LineRank, CmdRank
            <6>2. CmdRank(c) <= CmdNeeds(c)
              BY DEF CmdNeeds, CmdRank
            <6>3. CmdNeeds(c) \in 0 .. 5 /\ CmdRank(c) \in 0 .. 5
              BY DEF CmdNeeds, CmdRank
            <6>4. m < CmdNeeds(c)
              BY <2>1, <6>1, <6>2, <6>3
            <6> QED  BY <1>7, <6>4
          <5> QED  BY <5>1, <5>2
        <4> QED  BY <1>6, <1>8, <4>1, <4>2
      <3> QED  BY <3>1, <3>2
    <2> QED  BY <2>1 DEF RxOK, LineNeeds, LineRank, CmdRank
  <1>11. TxOK'
    <2>1. SUFFICES ASSUME NEW i \in 1 .. Len(tx'), NEW m \in 1 .. 4, m < CmdNeeds(tx'[i])
                   PROVE  Reached(m, Len(rx))' \/ \E j \in 1 .. (i - 1) : CmdRank(tx'[j]) = m
      BY DEF TxOK, CmdNeeds, CmdRank
    <2>2. i + 1 \in 1 .. Len(tx) /\ tx'[i] = tx[i + 1] /\ (i + 1) - 1 = i
      BY <1>2
    <2>3. Reached(m, n) \/ \E j \in 1 .. i : CmdRank(tx[j]) = m
      BY <1>0, <2>1, <2>2 DEF TxOK, n
    <2>4. CASE Reached(m, n)
      BY <1>6, <1>8, <2>4
    <2>5. ASSUME NEW j \in 1 .. i, CmdRank(tx[j]) = m
          PROVE  Reached(m, Len(rx))' \/ \E k \in 1 .. (i - 1) : CmdRank(tx'[k]) = m
      <3>1. CASE j = 1
        BY <1>9, <2>5, <3>1 DEF c
      <3>2. CASE j # 1
        <4>1. j - 1 \in 1 .. (i - 1) /\ j - 1 \in 1 .. Len(tx') /\ (j - 1) + 1 = j
          BY <1>2, <3>2
        <4>2. tx'[j - 1] = tx[j]
          BY <1>2, <4>1
        <4> QED  BY <2>5, <4>1, <4>2
      <3> QED  BY <3>1, <3>2
    <2> QED  BY <2>3, <2>4, <2>5
  <1>12. GameOK'
    <2>1. CASE gameSubscribed
      <3>1. \A m \in 1 .. 2 : Reached(m, n)
        BY <1>0, <2>1 DEF GameOK, n
      <3>2. \A m \in 1 .. 2 : m \in 1 .. 4
        OBVIOUS
      <3> QED  BY <1>1, <1>6, <1>8, <2>1, <3>1, <3>2 DEF GameOK
    <2>2. CASE c = "s"
      <3>1. CmdRank(c) = 2 /\ CmdNeeds(c) = 2
        BY <2>2 DEF CmdRank, CmdNeeds
      <3>2. Reached(1, Len(rx))'
        BY <1>6, <1>7, <1>8, <3>1
      <3>3. Reached(2, Len(rx))'
        BY <1>9, <3>1
      <3>4. \A m \in 1 .. 2 : m = 1 \/ m = 2
        OBVIOUS
      <3> QED  BY <1>1, <2>2, <3>2, <3>3, <3>4 DEF GameOK
    <2>3. CASE ~gameSubscribed /\ c # "s"
      <3>1. ~subscribed' /\ ~gameSubscribed' /\ \A j \in 1 .. n : rx[j].kind # "subscribed"
        BY <1>0, <1>1, <2>3 DEF GameOK, n
      <3>2. ASSUME NEW j \in 1 .. Len(rx') PROVE rx'[j].kind # "subscribed"
        <4>1. CASE j \in 1 .. n
          BY <1>3, <3>1, <4>1
        <4>2. CASE j \notin 1 .. n
          BY <1>4, <2>3, <4>2 DEF AnswerLine
        <4> QED  BY <4>1, <4>2
      <3> QED  BY <3>1, <3>2 DEF GameOK
    <2> QED  BY <2>1, <2>2, <2>3
  <1>13. ReplyOK'
    <2>1. SUFFICES ASSUME NEW i \in 1 .. Len(rx'), rx'[i].kind = "r"
                   PROVE  Preceded(i)' \/ Current(i)' \/ EarlyPing(i)'
      BY DEF ReplyOK
    <2>2. CASE i \in 1 .. n
      <3>1. rx'[i] = rx[i] /\ (Preceded(i) \/ Current(i) \/ EarlyPing(i))
        BY <1>0, <1>3, <2>1, <2>2 DEF ReplyOK, n
      <3>2. CASE Preceded(i)
        <4>1. i - 1 \in 1 .. n
          BY <1>2, <2>2, <3>2 DEF Preceded
        <4>2. rx'[i - 1] = rx[i - 1]
          BY <1>3, <4>1
        <4> QED  BY <3>1, <3>2, <4>2 DEF Preceded
      <3>3. CASE Current(i)
        BY <1>1, <3>1, <3>3 DEF Current, Name
      <3>4. CASE EarlyPing(i)
        <4>1. \A j \in 1 .. (i - 1) : j \in 1 .. n
          BY <1>2, <2>2
        <4>2. \A j \in 1 .. (i - 1) : rx'[j] = rx[j]
          BY <1>3, <4>1
        <4> QED  BY <1>1, <3>1, <3>4, <4>2 DEF EarlyPing
      <3> QED  BY <3>1, <3>2, <3>3, <3>4
    <2>3. CASE i \notin 1 .. n
      <3>1. /\ i - n \in 1 .. Len(Answer(c)) /\ rx'[i].word = c /\ c \notin {"auth", "s"}
            /\ gameSubscribed => i - n = 2
        BY <1>4, <2>1, <2>3 DEF AnswerLine
      <3>2. CASE gameSubscribed
        <4>1. i - n = 2 /\ i - 1 = n + 1 /\ i > 1
          BY <1>2, <3>1, <3>2
        <4>2. Len(Answer(c)) = 3 /\ Answer(c)[1].kind = "exec" /\ Answer(c)[1].word = c
          BY <1>0, <1>2, <3>1, <3>2, Answers
        <4>3. rx'[n + 1] = Answer(c)[1]
          BY <1>3, <4>2
        <4> QED  BY <3>1, <4>1, <4>2, <4>3 DEF Preceded
      <3>3. CASE ~gameSubscribed
        <4>1. ~subscribed /\ \A j \in 1 .. n : rx[j].kind # "subscribed"
          BY <1>0, <3>3 DEF GameOK, n
        <4>2. ~Reached(2, n)
          BY <4>1, RankTwo DEF Reached, Done
        <4>3. ~(2 < CmdNeeds(c))
          BY <1>7, <4>2
        <4>4. c = "ping"
          BY <1>2, <3>1, <4>3 DEF CmdNeeds, CmdRank, Commands, Queries
        <4>5. ASSUME NEW j \in 1 .. (i - 1) PROVE rx'[j].kind # "subscribed"
          <5>1. j \in 1 .. Len(rx')
            BY <1>2, <1>3, <2>1
          <5>2. CASE j \in 1 .. n
            BY <1>3, <4>1, <5>2
          <5>3. CASE j \notin 1 .. n
            BY <1>4, <3>1, <5>1, <5>3 DEF AnswerLine
          <5> QED  BY <5>2, <5>3
        <4> QED  BY <1>1, <3>1, <4>1, <4>4, <4>5 DEF EarlyPing
      <3> QED  BY <3>2, <3>3
    <2> QED  BY <2>2, <2>3
  <1>14. ASSUME NEW i \in 1 .. Len(rx') PROVE rx'[i].kind # "v"
    <2>1. CASE i \in 1 .. n
      BY <1>0, <1>3, <2>1 DEF n
    <2>2. CASE i \notin 1 .. n
      BY <1>4, <2>2 DEF AnswerLine
    <2> QED  BY <2>1, <2>2
  <1> QED  BY <1>0, <1>1, <1>10, <1>11, <1>12, <1>13, <1>14 DEF LateOK

LEMMA LateSame ==
  ASSUME LateOK,
         UNCHANGED <<session, tx, rx, gameSubscribed, lastCommand, subscribed, userKnown,
                     answered, roster, rconVersion>>
  PROVE  LateOK'
  <1> SUFFICES ASSUME rconVersion = "ok" PROVE LateOK'
    BY DEF LateOK
  <1>1. ASSUME NEW m, NEW n PROVE Reached(m, n)' = Reached(m, n)
    <2>1. Done(m)' = Done(m)
      BY DEF Done
    <2> QED  BY <2>1 DEF Reached, LineRank, CmdRank
  <1>2. RxOK'
    BY <1>1 DEF LateOK, RxOK, LineNeeds, LineRank, CmdRank
  <1>3. TxOK'
    BY <1>1 DEF LateOK, TxOK, CmdNeeds, CmdRank
  <1>4. GameOK'
    BY <1>1 DEF LateOK, GameOK
  <1>5. ASSUME NEW i \in 1 .. Len(rx), Preceded(i) \/ Current(i) \/ EarlyPing(i)
        PROVE  Preceded(i)' \/ Current(i)' \/ EarlyPing(i)'
    BY <1>5 DEF Preceded, Current, EarlyPing, Name
  <1>6. ReplyOK'
    BY <1>5 DEF LateOK, ReplyOK
  <1> QED  BY <1>2, <1>3, <1>4, <1>6 DEF LateOK

(* a command that is put behind the others, when what must come first is done *)
LEMMA LateAppend ==
  ASSUME LateOK, rconVersion = "ok", TypeOK, NEW c \in Commands, tx' = Append(tx, c),
         \A m \in 1 .. 4 : m < CmdNeeds(c) => Reached(m, Len(rx)),
         UNCHANGED <<session, rx, gameSubscribed, lastCommand, subscribed, userKnown,
                     answered, roster, rconVersion>>
  PROVE  LateOK'
  <1>1. ASSUME NEW m, NEW n PROVE Reached(m, n)' = Reached(m, n)
    <2>1. Done(m)' = Done(m)
      BY DEF Done
    <2> QED  BY <2>1 DEF Reached, LineRank, CmdRank
  <1>2. RxOK'
    BY <1>1 DEF LateOK, RxOK, LineNeeds, LineRank, CmdRank
  <1>3. TxOK'
    <2>1. /\ Len(tx) \in Nat /\ Len(tx') = Len(tx) + 1 /\ tx'[Len(tx) + 1] = c
          /\ \A i \in 1 .. Len(tx) : tx'[i] = tx[i]
      BY AppendFacts DEF TypeOK
    <2> SUFFICES ASSUME NEW i \in 1 .. Len(tx'), NEW m \in 1 .. 4, m < CmdNeeds(tx'[i])
                 PROVE  Reached(m, Len(rx))' \/ \E j \in 1 .. (i - 1) : CmdRank(tx'[j]) = m
      BY DEF TxOK, CmdNeeds, CmdRank
    <2>2. CASE i = Len(tx) + 1
      <3>1. Reached(m, Len(rx))
        BY <2>1, <2>2
      <3> QED  BY <1>1, <3>1
    <2>3. CASE i # Len(tx) + 1
      <3>1. i \in 1 .. Len(tx) /\ tx'[i] = tx[i] /\ \A j \in 1 .. (i - 1) : tx'[j] = tx[j]
        BY <2>1, <2>3
      <3>2. Reached(m, Len(rx)) \/ \E j \in 1 .. (i - 1) : CmdRank(tx[j]) = m
        BY <3>1 DEF LateOK, TxOK
      <3> QED  BY <1>1, <3>1, <3>2
    <2> QED  BY <2>2, <2>3
  <1>4. GameOK'
    BY <1>1 DEF LateOK, GameOK
  <1>5. ASSUME NEW i \in 1 .. Len(rx), Preceded(i) \/ Current(i) \/ EarlyPing(i)
        PROVE  Preceded(i)' \/ Current(i)' \/ EarlyPing(i)'
    BY <1>5 DEF Preceded, Current, EarlyPing, Name
  <1>6. ReplyOK'
    BY <1>5 DEF LateOK, ReplyOK
  <1> QED  BY <1>2, <1>3, <1>4, <1>6 DEF LateOK

(* a ping or a list update only adds to what is on its way *)
LEMMA LateSend ==
  ASSUME IInv, ThinkQuiet \/ \E update \in BOOLEAN : ThinkTail(update), rconVersion' = "ok"
  PROVE  LateOK'
  <1>0. TypeOK /\ LateOK /\ rconVersion = "ok"
    BY DEF IInv, ThinkQuiet, ThinkTail
  <1>1. UNCHANGED <<session, rx, gameSubscribed, lastCommand, subscribed, userKnown,
                    answered, roster, rconVersion>>
    BY DEF ThinkQuiet, ThinkTail, kept
  <1>2. CASE tx' = tx
    BY <1>0, <1>1, <1>2, LateSame
  <1>3. CASE tx' = Append(tx, "ping")
    <2>1. "ping" \in Commands /\ CmdNeeds("ping") = 0
      BY DEF Commands, CmdNeeds, CmdRank
    <2>2. \A m \in 1 .. 4 : ~(m < CmdNeeds("ping"))
      BY <2>1
    <2> QED  BY <1>0, <1>1, <1>3, <2>1, <2>2, LateAppend
  <1>4. CASE tx' = Append(tx, "refresh") /\ roster # {}
    <2>1. "refresh" \in Commands /\ CmdNeeds("refresh") = 3
      BY DEF Commands, CmdNeeds, CmdRank
    <2>2. \A m \in 1 .. 2 : Reached(m, Len(rx))
      BY <1>0, <1>4 DEF LateOK, GameOK
    <2>3. \A m \in 1 .. 4 : m < CmdNeeds("refresh") => m \in 1 .. 2
      BY <2>1
    <2> QED  BY <1>0, <1>1, <1>4, <2>1, <2>2, <2>3, LateAppend
  <1>5. tx' = tx \/ tx' = Append(tx, "ping") \/ (tx' = Append(tx, "refresh") /\ roster # {})
    BY DEF ThinkQuiet, ThinkTail
  <1> QED  BY <1>2, <1>3, <1>4, <1>5

(* a line of the log comes alone, and nothing waits for it *)
LEMMA LateLog ==
  ASSUME IInv, GameLogs, rconVersion' = "ok"
  PROVE  LateOK'
  <1>0. LateOK /\ rconVersion = "ok" /\ gameSubscribed /\ tx = <<>> /\ rx = <<>>
    BY DEF IInv, GameLogs, wiped
  <1>1. UNCHANGED <<session, tx, gameSubscribed, lastCommand, subscribed, userKnown,
                    answered, roster, rconVersion>>
    BY DEF GameLogs, wiped, kept
  <1>2. Len(tx) = 0 /\ Len(rx) = 0 /\ Len(rx') = 1 /\ rx'[1].kind = "log"
    BY <1>0, Logging
  <1>3. ASSUME NEW i \in 1 .. Len(rx')
        PROVE  /\ LineNeeds(rx[i])' = 0
               /\ rx'[i].kind = "log"
    <2>1. i = 1
      BY <1>2
    <2> QED  BY <1>2, <2>1 DEF LineNeeds, LineRank
  <1>4. RxOK'
    BY <1>3 DEF RxOK
  <1>5. TxOK'
    BY <1>1, <1>2 DEF TxOK
  <1>6. GameOK'
    <2>1. \A m \in 1 .. 2 : Reached(m, 0)
      BY <1>0, <1>2 DEF LateOK, GameOK
    <2>2. \A m \in 1 .. 2 : Done(m)
      BY <2>1 DEF Reached
    <2>3. \A m \in 1 .. 2 : Done(m)'
      BY <1>1, <2>2 DEF Done
    <2> QED  BY <1>0, <1>1, <2>3 DEF GameOK, Reached
  <1>7. ReplyOK' /\ \A i \in 1 .. Len(rx') : rx'[i].kind # "v"
    BY <1>3 DEF ReplyOK
  <1>8. (roster \subseteq {session})' /\ (roster # {} => subscribed)'
    BY <1>0, <1>1 DEF LateOK
  <1> QED  BY <1>4, <1>5, <1>6, <1>7, <1>8 DEF LateOK

LEMMA LateStep ==
  ASSUME IInv, [Next]_vars
  PROVE  LateOK'
  <1>0. TypeOK /\ BatchOK /\ ErasedOK /\ DisconnectedOK /\ LateOK
    BY DEF IInv
  <1> SUFFICES ASSUME rconVersion' = "ok" PROVE LateOK'
    BY DEF LateOK
  <1>1. CASE ThinkConnect
    BY <1>0, <1>1 DEF ThinkConnect, DisconnectedOK, wiped
  <1>2. CASE \/ ThinkPingTimeout \/ ThinkSocketError \/ LineVersionBad \/ CommandReconnect
    BY <1>2 DEF ThinkPingTimeout, ThinkSocketError, LineVersionBad, CommandReconnect,
                Disconnect, WipeData
  <1>3. ASSUME NEW k \in 0 .. Len(rx), NEW part \in BOOLEAN, ThinkRecv(k, part)
        PROVE  LateOK'
    <2>1. rconVersion = "ok" /\ rx' = rx
      BY <1>3, Receiving DEF wiped
    <2>2. UNCHANGED <<session, tx, rx, gameSubscribed, lastCommand, subscribed, userKnown,
                      answered, roster>>
      BY <1>3, <2>1, Receiving DEF wiped
    <2> QED  BY <1>0, <2>1, <2>2, LateSame
  <1>4. CASE ThinkGiveUp \/ LinkBreaks \/ Tick \/ UNCHANGED vars
    <2>1. UNCHANGED <<session, tx, rx, gameSubscribed, lastCommand, subscribed, userKnown,
                      answered, roster, rconVersion>>
      BY <1>4 DEF ThinkGiveUp, LinkBreaks, Tick, vars, wiped, kept, network
    <2> QED  BY <1>0, <2>1, LateSame
  <1>5. CASE ThinkQuiet \/ \E update \in BOOLEAN : ThinkTail(update)
    BY <1>5, LateSend
  <1>6. CASE ProcessLine
    <2>1. CASE LineVersionOK
      BY <2>1, LateVersion
    <2>2. CASE ~LineVersionOK
      <3>1. rconVersion = "ok"
        BY <1>6, <2>2
        DEF ProcessLine, LineVersionBad, LineAuth, LineSubscribed, LineExecuted, LineReply,
            LineEnd, LineLog, Disconnect, WipeData, wiped
      <3> QED  BY <1>6, <3>1, LateProcess
    <2> QED  BY <2>1, <2>2
  <1>7. CASE GameAnswers
    BY <1>7, LateAnswer DEF GameAnswers, wiped
  <1>8. CASE GameLogs
    BY <1>8, LateLog
  <1> QED
    BY <1>1, <1>2, <1>3, <1>4, <1>5, <1>6, <1>7, <1>8 DEF Next, Think

----------------------------------------------------------------------------
(* The invariant, and what follows from it. *)

LEMMA Inductive ==
  ASSUME IInv, [Next]_vars
  PROVE  IInv'
  <1>1. TypeOK' /\ BatchOK'
    BY TypeStep DEF IInv
  <1>2. ErasedOK' /\ DisconnectedOK' /\ LinesOK' /\ ResidueOK' /\ EarlyOK' /\ LateOK'
        /\ FullyConnectedSound'
    BY ErasedStep, DisconnectedStep, LinesStep, ResidueStep, EarlyStep, LateStep, FullyStep
  <1> QED  BY <1>1, <1>2 DEF IInv

LEMMA InitInv == Init => IInv
  <1> SUFFICES ASSUME Init PROVE IInv
    OBVIOUS
  <1>1. TypeOK /\ BatchOK
    BY TypeInit
  <1>2. /\ connected = TRUE /\ erased = FALSE /\ subscribed = FALSE
        /\ fullyConnected = FALSE /\ rconVersion = "none" /\ roster = {} /\ batch = 0
        /\ residue = NoLine /\ session = 1 /\ gameSubscribed = FALSE /\ answered = {}
        /\ tx = <<"auth">>
    BY DEF Init
  <1>3. PICK v \in GameVersions :
          rx = <<[kind |-> "v", word |-> v, sess |-> 1, whole |-> TRUE]>>
    BY DEF Init
  <1>4. Len(tx) = 1 /\ tx[1] = "auth" /\ Len(rx) = 1
        /\ rx[1] = [kind |-> "v", word |-> v, sess |-> 1, whole |-> TRUE]
    BY <1>2, <1>3, TupleElements
  <1>5. rx[1].kind = "v" /\ rx[1].whole /\ rx[1].sess = 1
    BY <1>4
  <1>6. (\A i \in 1 .. Len(tx) : i = 1) /\ (\A i \in 1 .. Len(rx) : i = 1) /\ 1 \in 1 .. Len(tx)
    BY <1>4
  <1>7. ErasedOK /\ DisconnectedOK /\ LateOK /\ FullyConnectedSound
    BY <1>2 DEF ErasedOK, DisconnectedOK, LateOK, FullyConnectedSound
  <1>8. ResidueOK
    BY <1>2 DEF ResidueOK, StaleResidue, NoLine
  <1>9. LineOK(1, rx[1]) /\ EarlyLineOK(rx[1]) /\ AuthAhead
    BY <1>2, <1>4, <1>5, <1>6 DEF LineOK, EarlyLineOK, AuthAhead
  <1>10. LinesOK
    BY <1>6, <1>9 DEF LinesOK
  <1>11. EarlyOK
    BY <1>2, <1>4, <1>6, <1>9 DEF EarlyOK
  <1> QED  BY <1>1, <1>7, <1>8, <1>10, <1>11 DEF IInv

(* Every reachable state satisfies the invariant: the order in which the    *)
(* handshake of think and processLine (RenX_Server.cpp) goes through one    *)
(* connection, whatever is pipelined, delayed, cut or left over in it.      *)
THEOREM InvariantHolds == Spec => []IInv
  <1>1. Init => IInv
    BY InitInv
  <1>2. IInv /\ [Next]_vars => IInv'
    BY Inductive
  <1> QED  BY <1>1, <1>2, PTL DEF Spec

(* RenX_OnServerFullyConnected is only raised, and isFullyConnected only     *)
(* true, after every initial request was answered on a subscribed connection *)
(* (processLine, the reply to the last ping of the burst).                   *)
THEOREM FullyConnectedIsSound == Spec => []FullyConnectedSound
  <1>1. IInv => FullyConnectedSound
    BY DEF IInv
  <1> QED  BY <1>1, InvariantHolds, PTL

(* On a subscribed connection a reply is handled as the reply to the command *)
(* it answers: m_lastCommand, set by the log line before it, is its name.    *)
THEOREM SubscribedAttributionHolds == Spec => []SubscribedAttribution
  <1>1. ASSUME IInv PROVE SubscribedAttribution
    <2>0. TypeOK /\ BatchOK /\ ErasedOK /\ LinesOK /\ EarlyOK /\ LateOK
      BY <1>1 DEF IInv
    <2> SUFFICES ASSUME Handling("r"), subscribed
                 PROVE  rx[1].whole /\ lastCommand = Name(rx[1].word)
      BY DEF SubscribedAttribution
    <2>1. pc = "lines" /\ rx[1].kind = "r"
      BY DEF Handling
    <2>2. Live
      BY <2>0, <2>1 DEF ErasedOK, Live
    <2>3. rconVersion = "ok"
      BY <2>0, <2>2 DEF EarlyOK, TypeOK
    <2>4. Len(rx) \in Nat /\ 1 \in 1 .. Len(rx)
      BY <2>0, <2>1 DEF TypeOK, BatchOK
    <2>5. rx[1].whole
      BY <2>0, <2>2, <2>3, <2>4 DEF LinesOK, LineOK
    <2>6. Preceded(1) \/ Current(1) \/ EarlyPing(1)
      BY <2>0, <2>1, <2>3, <2>4 DEF LateOK, ReplyOK
    <2>7. Current(1)
      BY <2>6 DEF Preceded, EarlyPing
    <2> QED  BY <2>5, <2>7 DEF Current
  <1> QED  BY <1>1, InvariantHolds, PTL

(* No player learnt on an earlier connection is listed once the version of   *)
(* the present one is known: wipeData empties the list, and a row glued to   *)
(* what m_lastLine kept can only be handled before that.                     *)
THEOREM NoStalePlayersHolds == Spec => []NoStalePlayers
  <1>1. IInv => NoStalePlayers
    BY DEF IInv, LateOK, NoStalePlayers
  <1> QED  BY <1>1, InvariantHolds, PTL

LEMMA ErasedSoundStep ==
  ASSUME TypeOK, ErasedSound, [Next]_vars
  PROVE  ErasedSound'
  <1> USE DEF ErasedSound
  <1>0. attempts \in Nat /\ MaxAttempts \in Int
    BY ConfigAssumption DEF TypeOK
  <1>1. CASE UNCHANGED <<erased, attempts>>
    BY <1>1
  <1>2. CASE ThinkConnect \/ CommandReconnect
    BY <1>2 DEF ThinkConnect, CommandReconnect, Ready
  <1>3. CASE ThinkGiveUp
    BY <1>0, <1>3 DEF ThinkGiveUp
  <1>4. CASE ThinkSocketError
    <2>1. CASE MaxAttempts # 0
      BY <1>4, <2>1 DEF ThinkSocketError, Ready
    <2>2. CASE MaxAttempts = 0
      BY <1>0, <1>4, <2>2 DEF ThinkSocketError
    <2> QED  BY <2>1, <2>2
  <1>5. ASSUME NEW k \in 0 .. Len(rx), NEW part \in BOOLEAN, ThinkRecv(k, part)
        PROVE  UNCHANGED <<erased, attempts>>
    BY <1>5 DEF ThinkRecv
  <1>6. ASSUME NEW update \in BOOLEAN, ThinkTail(update)
        PROVE  UNCHANGED <<erased, attempts>>
    BY <1>6 DEF ThinkTail
  <1>7. CASE ThinkPingTimeout \/ ThinkQuiet \/ ProcessLine
    BY <1>1, <1>7
    DEF ThinkPingTimeout, ThinkQuiet, ProcessLine, LineVersionOK, LineVersionBad, LineAuth,
        LineSubscribed, LineExecuted, LineReply, LineEnd, LineLog
  <1>8. CASE GameAnswers \/ GameLogs \/ LinkBreaks \/ Tick \/ UNCHANGED vars
    BY <1>1, <1>8 DEF GameAnswers, GameLogs, LinkBreaks, Tick, vars
  <1> QED
    BY <1>1, <1>2, <1>3, <1>4, <1>5, <1>6, <1>7, <1>8 DEF Next, Think

(* Core::think only destroys a server that has used up the attempts its      *)
(* configuration allows, and nothing reconnects it afterwards.               *)
THEOREM ErasedIsSound == Spec => []ErasedSound
  <1>1. Init => ErasedSound
    BY DEF Init, ErasedSound
  <1>2. TypeOK /\ ErasedSound /\ [Next]_vars => ErasedSound'
    BY ErasedSoundStep
  <1>3. IInv => TypeOK
    BY DEF IInv
  <1> QED  BY <1>1, <1>2, <1>3, InvariantHolds, PTL DEF Spec
============================================================================
