--------------------------- MODULE EntryDatabase ---------------------------
(***************************************************************************)
(* RenX::BanDatabase and RenX::ExemptionDatabase: entries in memory, and a *)
(* file that holds a version and the same entries. An addition is appended *)
(* to the file where the last write ended, a deactivation overwrites the   *)
(* flags of one entry in place, and the file is only read when the bot     *)
(* starts. Positions in the file are counted in entries.                   *)
(*                                                                         *)
(* A database is a record, so that a handler that adds an entry and then   *)
(* deactivates others is one step.                                         *)
(***************************************************************************)
EXTENDS Naturals, Sequences

\* Data: what an entry says, besides being active
Record(Data) == [active : BOOLEAN, data : Data]                 \* in the file
Entry(Data)  == [active : BOOLEAN, data : Data, pos : Nat]      \* in memory

Database(Data) == [phase   : {"down", "upgrading", "up"},
                   entries : Seq(Entry(Data)),                  \* m_entries
                   eof     : Nat,                               \* m_eof
                   version : {"current", "old", "unsupported"},
                   records : Seq(Record(Data))]

RecordOf(e) == [active |-> e.active, data |-> e.data]
Records(es) == [i \in DOMAIN es |-> RecordOf(es[i])]
InFile(r, pos) == [active |-> r.active, data |-> r.data, pos |-> pos]

Closed(version, records) ==
  [phase |-> "down", entries |-> <<>>, eof |-> 0, version |-> version, records |-> records]

----------------------------------------------------------------------------
(***************************************************************************)
(* process_file: the header, the entries, process_file_finish              *)
(***************************************************************************)

\* a file of an old version is emptied, to be rewritten; one that is not
\* supported is emptied, with a warning
Initialized(d) ==
  LET loaded == [i \in DOMAIN d.records |-> InFile(d.records[i], i)]
  IN  CASE d.version = "current" ->
             [d EXCEPT !.phase = "up", !.entries = loaded, !.eof = Len(d.records)]
        [] d.version = "old" ->
             [d EXCEPT !.phase = "upgrading", !.entries = loaded, !.eof = 0,
                       !.version = "current", !.records = <<>>]
        [] d.version = "unsupported" ->
             [d EXCEPT !.phase = "up", !.entries = <<>>, !.eof = 0,
                       !.version = "current", !.records = <<>>]

Rewritten(d) ==
  LET n == d.eof + 1
  IN  IF n > Len(d.entries) THEN [d EXCEPT !.phase = "up"]
      ELSE [d EXCEPT !.entries[n].pos = n,
                     !.records = Append(@, RecordOf(d.entries[n])),
                     !.eof = n]

----------------------------------------------------------------------------
(***************************************************************************)
(* add and deactivate                                                      *)
(***************************************************************************)

\* a write at a position of the file
Put(records, pos, r) ==
  IF pos <= Len(records) THEN [records EXCEPT ![pos] = r] ELSE Append(records, r)

\* mutant: m_eof is left where it was
AddedInPlace(d, data) ==
  LET pos == d.eof + 1
  IN  [d EXCEPT !.entries = Append(@, [active |-> TRUE, data |-> data, pos |-> pos]),
                !.records = Put(@, pos, [active |-> TRUE, data |-> data])]

Added(d, data) ==
  LET pos == d.eof + 1
  IN  [d EXCEPT !.entries = Append(@, [active |-> TRUE, data |-> data, pos |-> pos]),
                !.records = Put(@, pos, [active |-> TRUE, data |-> data]),
                !.eof = pos]

\* mutant: only the entry in memory is deactivated
DeactivatedInMemory(d, is) ==
  [d EXCEPT !.entries = [i \in DOMAIN @ |-> IF i \in is THEN [@[i] EXCEPT !.active = FALSE]
                                                        ELSE @[i]]]

\* of the entries with these indices, those that are active
Deactivated(d, is) ==
  LET places == {d.entries[i].pos : i \in {j \in is : d.entries[j].active}}
  IN  [d EXCEPT !.entries = [i \in DOMAIN @ |-> IF i \in is THEN [@[i] EXCEPT !.active = FALSE]
                                                            ELSE @[i]],
                !.records = [p \in DOMAIN @ |-> IF p \in places THEN [@[p] EXCEPT !.active = FALSE]
                                                                ELSE @[p]]]

\* the process ends, or is killed: an addition or a deactivation that was not
\* written is not known to anybody
Stopped(d) == Closed(d.version, d.records)

----------------------------------------------------------------------------
(***************************************************************************)
(* The list a user of the database can rely on: the entries in memory      *)
(* while the bot runs, and else those the next start will read.            *)
(***************************************************************************)
Promised(d) == IF d.phase # "down" THEN Records(d.entries)
               ELSE IF d.version = "unsupported" THEN <<>> ELSE d.records
============================================================================
