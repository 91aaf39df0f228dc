------------------------------- MODULE Ladder -------------------------------
(***************************************************************************)
(* RenX.Ladder and its databases: at the end of a match the client list is *)
(* asked for once more, and when it has arrived its players' points are    *)
(* added to every database.  RenX.Ladder.All-Time never forgets; the       *)
(* others start afresh with each period, of which RenX.Ladder.Daily stands *)
(* for all.  The handlers say what becomes of the plugin's own variables.  *)
(***************************************************************************)
EXTENDS Match, LadderDatabase

CONSTANTS
  Unranked,      \* clients without a Steam id, or banned from the ladder
  MaxDays        \* bound

ASSUME LadderAssumption == Unranked \subseteq Clients /\ MaxDays \in Nat

VARIABLES
  waiting,       \* "w": the next client list is that of the end of a match
  entries,       \* [Databases -> Seq(Entry)]: in memory
  file,          \* [Databases -> Seq(Entry)]
  lastSorted,    \* last_sorted_day of RenX.Ladder.Daily
  today

ladderVars == <<waiting, entries, file, lastSorted, today>>
stored     == <<entries, file, lastSorted>>

\* mutant: the other way around
OrderDailyFirst == <<"daily", "alltime">>

\* in the order in which the plugins are loaded, as the administrator lists them
Order     == <<"alltime", "daily">>
Databases == Range(Order)

IsLadder(list) == \A i \in DOMAIN list :
  list[i].id \in Clients /\ list[i].score \in Nat /\ list[i].rank \in 0 .. Len(list)

LadderTypeOK ==
  /\ waiting \in BOOLEAN /\ today \in 0 .. MaxDays /\ lastSorted \in 0 .. MaxDays
  /\ \A d \in Databases : IsLadder(entries[d]) /\ IsLadder(file[d])

LadderInit ==
  /\ waiting = FALSE /\ today = 0 /\ lastSorted = 0
  /\ entries = [d \in Databases |-> <<>>] /\ file = entries

----------------------------------------------------------------------------
MatchCounts == server.ranked /\ server.reliable /\ server.players # <<>>

\* OnGameOver; the request it sends is told apart from the server's own by
\* nothing but the flag
OnGameOver ==
  /\ waiting' = (waiting \/ MatchCounts)
  /\ tx' = IF MatchCounts THEN Asked ELSE tx
  /\ UNCHANGED <<stored, today>>

\* updateLadder: OnPreUpdateLadder, the players' points, sort_entries, write
Kept(d) == IF d = "daily" /\ lastSorted # today THEN <<>> ELSE entries[d]

Counted(list, player) == IF player.id \in Unranked THEN list ELSE Credit(list, player)
CreditAll(list, players) == FoldLeft(Counted, list, players)

\* write does nothing if there are no entries
Updated(d) == Ranked(SortEntries(CreditAll(Kept(d), Completed)))
Written(d) == IF Updated(d) = <<>> THEN file[d] ELSE Updated(d)

Due == waiting /\ Completed # <<>>

\* mutant: any client list will do
OnAnyList ==
  /\ waiting' = FALSE
  /\ entries' = [d \in Databases |-> Updated(d)]
  /\ file' = [d \in Databases |-> Written(d)]
  /\ lastSorted' = today
  /\ UNCHANGED today

\* RenX_OnCommand, when the server has completed its players
OnList ==
  /\ waiting' = FALSE
  /\ entries' = [d \in Databases |-> IF Due THEN Updated(d) ELSE entries[d]]
  /\ file' = [d \in Databases |-> IF Due THEN Written(d) ELSE file[d]]
  /\ lastSorted' = IF Due THEN today ELSE lastSorted
  /\ UNCHANGED today

\* initialize: process_file, after the bot was stopped
Restart(f) ==
  /\ waiting' = FALSE /\ lastSorted' = today
  /\ file' = f /\ entries' = [d \in Databases |-> Ranked(f[d])]
  /\ UNCHANGED today

\* the process dies when it has written n entries of the k-th database
WrittenUpTo(k, n) ==
  [d \in Databases |->
     LET i == CHOOSE i \in DOMAIN Order : Order[i] = d
     IN  IF i < k THEN Written(d)
         ELSE IF i = k /\ Updated(d) # <<>> THEN SubSeq(Updated(d), 1, n)
         ELSE file[d]]

Midnight ==
  /\ today < MaxDays /\ today' = today + 1
  /\ UNCHANGED <<waiting, stored>>
============================================================================
