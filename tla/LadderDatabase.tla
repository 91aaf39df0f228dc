--------------------------- MODULE LadderDatabase ---------------------------
(***************************************************************************)
(* RenX::LadderDatabase: a list of players in the order of their scores,   *)
(* that is rewritten to its file after every match.  An entry is           *)
(* represented by its score: the other totals are added up in the same     *)
(* place, and only the score decides the order.                            *)
(***************************************************************************)
EXTENDS Naturals, Sequences, SequencesExt

Entry(id, score, rank) == [id |-> id, score |-> score, rank |-> rank]

\* a player's total, 0 for one who is not listed
TotalOf(list, id) ==
  LET i == SelectInSeq(list, LAMBDA e : e.id = id)
  IN  IF i = 0 THEN 0 ELSE list[i].score

\* getPlayerEntry, append and the additions of updateLadder, for one player
Credit(list, player) ==
  IF \E i \in DOMAIN list : list[i].id = player.id
    THEN [i \in DOMAIN list |-> IF list[i].id = player.id
                                  THEN [list[i] EXCEPT !.score = @ + player.points]
                                  ELSE list[i]]
    ELSE Append(list, Entry(player.id, player.points, 0))

\* sort_entries: what is greater than the one before it moves behind the last
\* entry that is greater than itself
Insert(sorted, e) ==
  IF sorted = <<>> \/ Last(sorted).score >= e.score
    THEN Append(sorted, e)
    ELSE LET greater == {i \in DOMAIN sorted : sorted[i].score > e.score}
         IN  InsertAt(sorted, Max({0} \cup greater) + 1, e)

SortEntries(list) == FoldLeft(Insert, <<>>, list)

\* write and process_data: the rank is the position
Ranked(list) == [i \in DOMAIN list |-> [list[i] EXCEPT !.rank = i]]

IsOrdered(list) ==
  \A i, j \in DOMAIN list : i < j => list[i].score >= list[j].score /\ list[i].id # list[j].id
============================================================================
