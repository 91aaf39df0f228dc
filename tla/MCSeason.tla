------------------------------ MODULE MCSeason ------------------------------
(* The instance TLC checks; the values of the constants are in the cfg file. *)
EXTENDS Season

\* Four players, whose scores tie or not, in any order: sort_entries brings them
\* in order and loses none.
Scored(scores) == [i \in DOMAIN scores |-> Entry(i, scores[i], i)]
ASSUME SortEntriesSorts ==
  \A scores \in [1 .. 4 -> 0 .. 2] :
    LET sorted == SortEntries(Scored(scores))
    IN  /\ IsOrdered(sorted)
        /\ Range(sorted) = Range(Scored(scores))
============================================================================
