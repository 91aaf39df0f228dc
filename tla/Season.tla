------------------------------- MODULE Season -------------------------------
(***************************************************************************)
(* A game server over several matches, with the plugins that keep score:   *)
(* each line of the game is handled by the server and then by them.        *)
(***************************************************************************)
EXTENDS Ladder, Medals

CONSTANT PluginSets    \* which plugins may be loaded together

VARIABLES
  loaded,  \* those that are
  torn     \* a ladder file was left unfinished when the process died

bot  == <<loaded, torn>>
vars == <<matchVars, ladderVars, medalsVars, bot>>

TypeOK ==
  /\ MatchTypeOK /\ LadderTypeOK /\ MedalsTypeOK
  /\ loaded \in PluginSets /\ torn \in BOOLEAN

Init == MatchInit /\ LadderInit /\ MedalsInit /\ loaded \in PluginSets /\ torn = FALSE

Idle == UNCHANGED <<ladderVars, medalsVars, bot>>

\* if the game waits for the bot, no match follows one that is still to be counted
Game ==
  /\ GameStep \/ UpdateClientList \/ ServerConnects
  /\ Prompt /\ waiting => game'.match = game.match
  /\ Idle

\* a chat message of a player who recommends another
AsksToRecommend(by, of) ==
  /\ "Medals" \in loaded
  /\ {by, of} \subseteq DOMAIN game.score /\ Recs(of) < MaxRecs
  /\ Log([kind |-> "rec", by |-> by, of |-> of])
  /\ UNCHANGED <<gameVars, tx, server>> /\ Idle

HandlePlayers ==
  /\ ServerJoin \/ ServerLeave \/ ServerChanging
  /\ PlayersChange
  /\ UNCHANGED <<ladderVars, bot>>

HandleStart == ServerStart /\ Idle

HandleEnd ==
  /\ Handle("end") /\ UNCHANGED <<server, bot>>
  /\ IF "Ladder" \in loaded THEN OnGameOver ELSE UNCHANGED <<tx, ladderVars>>
  /\ IF "Medals" \in loaded THEN OnMatchEnd ELSE UNCHANGED medalsVars

HandleRec ==
  /\ Handle("rec") /\ UNCHANGED <<tx, server>>
  /\ OnRec(Line.by, Line.of)
  /\ UNCHANGED <<ladderVars, bot>>

HandleList == ServerList /\ PlayersChange /\ OnList /\ UNCHANGED bot

\* RenX.Ladder's OnServerFullyConnected
HandleReady ==
  /\ Handle("ready")
  /\ server' = [server EXCEPT !.ranked = TRUE]
  /\ UNCHANGED tx /\ Idle

Lost == ServerLost /\ PlayersChange /\ UNCHANGED <<ladderVars, bot>>

\* the process dies, and is started again
Stopped == server' = Offline /\ tx' = <<>> /\ rx' = <<>> /\ UNCHANGED gameVars /\ MedalsRestart
Crash == Stopped /\ Restart(file) /\ UNCHANGED bot

CrashInUpdate ==
  /\ server.up /\ rx # <<>> /\ Line.kind = "list" /\ Due
  /\ \E k \in DOMAIN Order : \E n \in 0 .. Len(Updated(Order[k])) :
       /\ Restart(WrittenUpTo(k, n))
       /\ torn' = (torn \/ n < Len(Updated(Order[k])))
  /\ Stopped /\ UNCHANGED loaded

RehashMedals == "Medals" \in loaded /\ Rehash /\ UNCHANGED <<matchVars, ladderVars, bot>>
ReloadMedals == "Medals" \in loaded /\ Reload /\ UNCHANGED <<matchVars, ladderVars, bot>>
NextDay == "Ladder" \in loaded /\ Midnight /\ UNCHANGED <<matchVars, medalsVars, bot>>

Next ==
  \/ Game \/ \E by, of \in Clients : AsksToRecommend(by, of)
  \/ HandlePlayers \/ HandleStart \/ HandleEnd \/ HandleRec \/ HandleList \/ HandleReady
  \/ Lost \/ Crash \/ CrashInUpdate \/ RehashMedals \/ ReloadMedals \/ NextDay

Spec == Init /\ [][Next]_vars

----------------------------------------------------------------------------
(***************************************************************************)
(* Properties                                                              *)
(***************************************************************************)

\* The ladders are in the order of their scores, nobody is listed twice and the
\* ranks are the positions, in memory and in the files, whatever was written
\* when the process died.
LaddersOrdered ==
  \A d \in Databases : \A list \in {entries[d], file[d]} :
    IsOrdered(list) /\ list = Ranked(list)

\* The match that ended is not forgotten: as long as the connection lasts, a
\* list of the clients is on its way when one is waited for.
WaitsForAList ==
  waiting /\ server.up =>
    \/ \E i \in DOMAIN tx : tx[i] = "list"
    \/ \E i \in DOMAIN rx : rx[i].kind = "list"

\* Of two ladders that are updated together, the one that forgets never shows
\* more than the other, even if the process dies between the two.
DailyWithinAllTime ==
  ~torn => \A c \in Clients : TotalOf(file["daily"], c) <= TotalOf(file["alltime"], c)

\* What the ladders and their files hold at any time, and that a match which ended
\* will be added to them.
LaddersSound == TypeOK /\ LaddersOrdered /\ WaitsForAList /\ DailyWithinAllTime

\* Players keep the recommendations they were given, however they leave and
\* whatever happens to the connection. A rehash and the death of the process
\* lose those of the present stay, or since.
RecsKept ==
  [][RehashMedals \/ Crash \/ CrashInUpdate \/ \A c \in Clients : Recs(c)' >= Recs(c)]_vars

\* The all-time ladder credits nobody with points not made, or made once and
\* counted twice, and what it has written stays written.
Board == INSTANCE ScoreBoard WITH totals <- [c \in Clients |-> TotalOf(file["alltime"], c)]
CreditsOnce == Board!Spec
============================================================================
