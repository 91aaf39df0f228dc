---------------------------- MODULE DurableList ----------------------------
(***************************************************************************)
(* What the ban database and the exemption database promise: a list of     *)
(* entries to which entries are added at the end, each active until it is  *)
(* deactivated, and none of which is ever lost, altered or active again,   *)
(* across any number of restarts.                                          *)
(***************************************************************************)
EXTENDS Naturals, Sequences

CONSTANT Data       \* what an entry says, besides being active

VARIABLE entries    \* the list

Entry == [active : BOOLEAN, data : Data]

Init == entries \in Seq(Entry)

\* at most one entry is added, and any number of entries are deactivated
Next ==
  /\ entries' \in Seq(Entry)
  /\ Len(entries') \in {Len(entries), Len(entries) + 1}
  /\ \A i \in 1 .. Len(entries) : /\ entries'[i].data = entries[i].data
                                  /\ entries'[i].active => entries[i].active

Spec == Init /\ [][Next]_entries
============================================================================
