-------------------------- MODULE ModerationProofs --------------------------
(***************************************************************************)
(* Every handler of Moderation is a function of what it changes, and these *)
(* proofs follow it: what each helper keeps (Good), what it does to the    *)
(* promised lists (Grows), and whose bans it leaves unenforced (nobody's). *)
(* A second round follows which bans end, and who is kicked (StepFair).    *)
(***************************************************************************)
EXTENDS Moderation, TLAPS

----------------------------------------------------------------------------
(***************************************************************************)
(* The databases: every operation keeps entries and file in step, and its  *)
(* effect on the promised list is one a durable list may have.             *)
(***************************************************************************)

\* While the bot runs, the file holds the entries at the positions they
\* remember; while it is being rewritten, the first of them.
InStep(d) ==
  /\ d.phase = "up" => /\ d.version = "current"
                       /\ d.eof = Len(d.records)
                       /\ Len(d.records) = Len(d.entries)
  /\ d.phase = "upgrading" => /\ d.version = "current"
                              /\ d.eof = Len(d.records)
                              /\ Len(d.records) <= Len(d.entries)
  /\ d.phase # "down" =>
       \A i \in 1 .. Len(d.records) : /\ d.entries[i].pos = i
                                      /\ d.records[i] = RecordOf(d.entries[i])

Sound(Data, d) == d \in Database(Data) /\ InStep(d)

\* What may become of a promised list in one step (DurableList!Next).
Grows(Data, es, fs) ==
  /\ fs \in Seq(Record(Data))
  /\ Len(fs) \in {Len(es), Len(es) + 1}
  /\ \A i \in 1 .. Len(es) : /\ fs[i].data = es[i].data
                             /\ fs[i].active => es[i].active

\* A function on 1 .. n is a sequence.
LEMMA FunctionIsSequence ==
  ASSUME NEW S, NEW n \in Nat, NEW f \in [1 .. n -> S]
  PROVE  f \in Seq(S) /\ Len(f) = n /\ DOMAIN f = 1 .. n
OBVIOUS

\* Sequences of the same elements are equal.
LEMMA SameSequence ==
  ASSUME NEW S, NEW f \in Seq(S), NEW g \in Seq(S), Len(f) = Len(g),
         \A i \in 1 .. Len(f) : f[i] = g[i]
  PROVE  f = g
OBVIOUS

\* The records of a list of entries, one by one.
LEMMA RecordsOfEntries ==
  ASSUME NEW Data, NEW es \in Seq(Entry(Data))
  PROVE  /\ Records(es) \in Seq(Record(Data))
         /\ Len(Records(es)) = Len(es)
         /\ \A i \in 1 .. Len(es) : Records(es)[i] = RecordOf(es[i])
<1>1. DOMAIN es = 1 .. Len(es) /\ \A i \in 1 .. Len(es) : es[i] \in Entry(Data)
  OBVIOUS
<1>2. \A i \in 1 .. Len(es) : RecordOf(es[i]) \in Record(Data)
  BY <1>1 DEF RecordOf, Entry, Record
<1>3. Records(es) = [i \in 1 .. Len(es) |-> RecordOf(es[i])]
  BY <1>1 DEF Records
<1> QED
  BY <1>2, <1>3

\* A promised list is a list of records.
LEMMA PromisedIsAList ==
  ASSUME NEW Data, NEW d \in Database(Data)
  PROVE  Promised(d) \in Seq(Record(Data))
<1>1. d.entries \in Seq(Entry(Data)) /\ d.records \in Seq(Record(Data))
  BY DEF Database
<1> QED
  BY <1>1, RecordsOfEntries DEF Promised

\* Nothing need happen.
LEMMA GrowsNot ==
  ASSUME NEW Data, NEW es \in Seq(Record(Data))
  PROVE  Grows(Data, es, es)
BY DEF Grows

\* A database that is not running, whatever its file holds.
LEMMA ClosedSound ==
  ASSUME NEW Data, NEW records \in Seq(Record(Data)),
         NEW version \in {"current", "old", "unsupported"}
  PROVE  Sound(Data, Closed(version, records))
BY DEF Sound, Database, InStep, Closed

\* The bot stops: what the file holds is what was promised, unless it was being
\* rewritten.
LEMMA StoppedSound ==
  ASSUME NEW Data, NEW d, Sound(Data, d)
  PROVE  /\ Sound(Data, Stopped(d))
         /\ d.phase # "upgrading" => Promised(Stopped(d)) = Promised(d)
         /\ Len(Promised(Stopped(d))) <= Len(Promised(d))
<1>1. /\ d.records \in Seq(Record(Data)) /\ d.entries \in Seq(Entry(Data))
      /\ d.version \in {"current", "old", "unsupported"}
      /\ d.phase \in {"down", "upgrading", "up"}
  BY DEF Sound, Database
<1>2. Sound(Data, Stopped(d))
  BY <1>1, ClosedSound DEF Stopped
<1>3. /\ Promised(Stopped(d)) = IF d.version = "unsupported" THEN <<>> ELSE d.records
      /\ Stopped(d).phase = "down"
  BY DEF Promised, Stopped, Closed
<1>4. d.phase # "upgrading" => Promised(Stopped(d)) = Promised(d)
  <2> SUFFICES ASSUME d.phase = "up" PROVE d.records = Records(d.entries)
    BY <1>1, <1>3 DEF Promised, Sound, InStep
  <2>1. Len(d.records) = Len(d.entries)
    BY DEF Sound, InStep
  <2>2. \A i \in 1 .. Len(d.records) : d.records[i] = Records(d.entries)[i]
    BY <1>1, <2>1, RecordsOfEntries DEF Sound, InStep
  <2> QED
    BY <1>1, <2>1, <2>2, RecordsOfEntries, SMTT(30), ZenonT(30)
<1>5. Len(Promised(Stopped(d))) <= Len(Promised(d))
  <2>1. CASE d.phase = "up"
    BY <2>1, <1>1, <1>4, RecordsOfEntries DEF Promised
  <2>2. CASE d.phase = "upgrading"
    <3>1. Len(Promised(d)) = Len(d.entries) /\ Len(d.records) <= Len(d.entries)
      BY <2>2, <1>1, RecordsOfEntries DEF Promised, Sound, InStep
    <3>2. Promised(Stopped(d)) = d.records
      BY <1>3, <2>2 DEF Sound, InStep
    <3> QED
      BY <3>1, <3>2
  <2>3. CASE d.phase = "down"
    BY <2>3, <1>1, <1>3 DEF Promised
  <2> QED
    BY <1>1, <2>1, <2>2, <2>3
<1> QED
  BY <1>2, <1>4, <1>5

\* The bot starts: the promised list is what the file held.
LEMMA InitializedSound ==
  ASSUME NEW Data, NEW d, Sound(Data, d), d.phase = "down"
  PROVE  /\ Sound(Data, Initialized(d))
         /\ Promised(Initialized(d)) = Promised(d)
<1> DEFINE loaded == [i \in DOMAIN d.records |-> InFile(d.records[i], i)]
<1>1. /\ d \in Database(Data)
      /\ d.records \in Seq(Record(Data)) /\ d.entries \in Seq(Entry(Data))
      /\ d.version \in {"current", "old", "unsupported"}
  BY DEF Sound, Database
<1>2. /\ loaded \in Seq(Entry(Data))
      /\ Len(loaded) = Len(d.records)
      /\ \A i \in 1 .. Len(d.records) : /\ loaded[i].pos = i
                                        /\ d.records[i] = RecordOf(loaded[i])
  <2>1. DOMAIN d.records = 1 .. Len(d.records)
    BY <1>1
  <2>2. \A i \in 1 .. Len(d.records) : /\ d.records[i] \in Record(Data)
                                       /\ loaded[i] = InFile(d.records[i], i)
    BY <1>1, <2>1
  <2>3. \A r \in Record(Data), i \in Nat : /\ InFile(r, i) \in Entry(Data)
                                           /\ InFile(r, i).pos = i
                                           /\ r = RecordOf(InFile(r, i))
    BY DEF InFile, RecordOf, Record, Entry
  <2> HIDE DEF loaded
  <2>4. \A i \in 1 .. Len(d.records) : /\ loaded[i] \in Entry(Data)
                                       /\ loaded[i].pos = i
                                       /\ d.records[i] = RecordOf(loaded[i])
    BY <2>2, <2>3
  <2>5. Len(d.records) \in Nat
    BY <1>1
  <2>6. loaded = [i \in 1 .. Len(d.records) |-> InFile(d.records[i], i)]
    BY <2>1 DEF loaded
  <2>7. loaded \in [1 .. Len(d.records) -> Entry(Data)]
    BY <2>4, <2>6
  <2> QED
    BY <2>4, <2>5, <2>7, FunctionIsSequence
<1> HIDE DEF loaded
<1>3. Records(loaded) = d.records
  <2>1. \A i \in 1 .. Len(d.records) : Records(loaded)[i] = d.records[i]
    BY <1>1, <1>2, RecordsOfEntries
  <2>2. Records(loaded) \in Seq(Record(Data)) /\ Len(Records(loaded)) = Len(d.records)
    BY <1>1, <1>2, RecordsOfEntries
  <2> QED
    BY <1>1, <2>1, <2>2, SameSequence
<1>4. CASE d.version = "current"
  <2>1. Initialized(d) = [d EXCEPT !.phase = "up", !.entries = loaded, !.eof = Len(d.records)]
    BY <1>4 DEF Initialized, loaded
  <2>2. /\ Initialized(d).phase = "up" /\ Initialized(d).entries = loaded
        /\ Initialized(d).records = d.records /\ Initialized(d).version = "current"
        /\ Initialized(d).eof = Len(d.records)
    BY <1>1, <1>4, <2>1 DEF Database
  <2>3. Initialized(d) \in Database(Data)
    <3>1. Initialized(d) = [phase |-> "up", entries |-> loaded, eof |-> Len(d.records),
                            version |-> d.version, records |-> d.records]
      BY <1>1, <2>1 DEF Database
    <3> QED
      BY <1>1, <1>2, <3>1 DEF Database
  <2> QED
    BY <1>1, <1>2, <1>3, <1>4, <2>2, <2>3 DEF Sound, InStep, Promised
<1>5. CASE d.version = "old"
  <2>1. Initialized(d) = [d EXCEPT !.phase = "upgrading", !.entries = loaded, !.eof = 0,
                                   !.version = "current", !.records = <<>>]
    BY <1>5 DEF Initialized, loaded
  <2>2. /\ Initialized(d).phase = "upgrading" /\ Initialized(d).entries = loaded
        /\ Initialized(d).records = <<>> /\ Initialized(d).version = "current"
        /\ Initialized(d).eof = 0
    BY <1>1, <2>1 DEF Database
  <2>3. Initialized(d) \in Database(Data)
    <3>1. Initialized(d) = [phase |-> "upgrading", entries |-> loaded, eof |-> 0,
                            version |-> "current", records |-> <<>>]
      BY <1>1, <2>1 DEF Database
    <3> QED
      BY <1>2, <3>1 DEF Database
  <2> QED
    BY <1>1, <1>2, <1>3, <1>5, <2>2, <2>3 DEF Sound, InStep, Promised
<1>6. CASE d.version = "unsupported"
  <2>1. Initialized(d) = [d EXCEPT !.phase = "up", !.entries = <<>>, !.eof = 0,
                                   !.version = "current", !.records = <<>>]
    BY <1>6 DEF Initialized
  <2>2. /\ Initialized(d).phase = "up" /\ Initialized(d).entries = <<>>
        /\ Initialized(d).records = <<>> /\ Initialized(d).version = "current"
        /\ Initialized(d).eof = 0
    BY <1>1, <2>1 DEF Database
  <2>3. Initialized(d) \in Database(Data)
    <3>1. Initialized(d) = [phase |-> "up", entries |-> <<>>, eof |-> 0,
                            version |-> "current", records |-> <<>>]
      BY <1>1, <2>1 DEF Database
    <3> QED
      BY <3>1 DEF Database
  <2>4. Records(<<>>) = <<>>
    BY DEF Records
  <2> QED
    BY <1>1, <1>6, <2>2, <2>3, <2>4 DEF Sound, InStep, Promised
<1> QED
  BY <1>1, <1>4, <1>5, <1>6

\* One more entry is rewritten, or all of them have been.
LEMMA RewrittenSound ==
  ASSUME NEW Data, NEW d, Sound(Data, d), d.phase = "upgrading"
  PROVE  /\ Sound(Data, Rewritten(d))
         /\ Promised(Rewritten(d)) = Promised(d)
<1> DEFINE n == d.eof + 1
<1>1. /\ d \in Database(Data)
      /\ d.records \in Seq(Record(Data)) /\ d.entries \in Seq(Entry(Data))
      /\ d.eof = Len(d.records) /\ d.version = "current"
      /\ Len(d.records) <= Len(d.entries)
      /\ \A i \in 1 .. Len(d.records) : /\ d.entries[i].pos = i
                                        /\ d.records[i] = RecordOf(d.entries[i])
  BY DEF Sound, Database, InStep
<1>2. CASE n > Len(d.entries)
  <2>1. Rewritten(d) = [d EXCEPT !.phase = "up"]
    BY <1>2 DEF Rewritten
  <2>2. /\ Rewritten(d).phase = "up" /\ Rewritten(d).entries = d.entries
        /\ Rewritten(d).records = d.records /\ Rewritten(d).version = "current"
        /\ Rewritten(d).eof = d.eof
    BY <1>1, <2>1 DEF Database
  <2>3. Rewritten(d) \in Database(Data)
    BY <1>1, <2>1 DEF Database
  <2>4. Len(d.records) = Len(d.entries)
    BY <1>1, <1>2
  <2> QED
    BY <1>1, <2>2, <2>3, <2>4 DEF Sound, InStep, Promised
<1>3. CASE ~(n > Len(d.entries))
  <2> DEFINE es == [d.entries EXCEPT ![n].pos = n]
             rs == Append(d.records, RecordOf(d.entries[n]))
  <2>1. n \in 1 .. Len(d.entries) /\ n = Len(d.records) + 1
    BY <1>1, <1>3
  <2>2. d.entries[n] \in Entry(Data) /\ RecordOf(d.entries[n]) \in Record(Data)
    <3>1. d.entries[n] \in Entry(Data)
      BY <1>1, <2>1
    <3> QED
      BY <3>1 DEF RecordOf, Entry, Record
  <2>3. /\ es \in Seq(Entry(Data)) /\ Len(es) = Len(d.entries)
        /\ \A i \in 1 .. Len(es) : /\ i # n => es[i] = d.entries[i]
                                   /\ i = n => es[i] = [d.entries[n] EXCEPT !.pos = n]
    <3>1. [d.entries[n] EXCEPT !.pos = n] \in Entry(Data)
      BY <2>1, <2>2 DEF Entry
    <3> QED
      BY <1>1, <2>1, <3>1
  <2>4. \A i \in 1 .. Len(es) : RecordOf(es[i]) = RecordOf(d.entries[i])
    BY <1>1, <2>2, <2>3 DEF RecordOf, Entry
  <2>5. /\ rs \in Seq(Record(Data)) /\ Len(rs) = n
        /\ \A i \in 1 .. Len(d.records) : rs[i] = d.records[i]
        /\ rs[n] = RecordOf(d.entries[n])
    BY <1>1, <2>1, <2>2
  <2>6. n \in Nat /\ es[n].pos = n
    BY <1>1, <2>1, <2>2, <2>3 DEF Entry
  <2>7. \A i \in 1 .. n : es[i].pos = i /\ rs[i] = RecordOf(es[i])
    BY <1>1, <2>1, <2>3, <2>4, <2>5, <2>6, SMTT(30), ZenonT(30)
  <2>8. Records(es) = Records(d.entries)
    <3> HIDE DEF es
    <3>1. \A i \in 1 .. Len(d.entries) : Records(es)[i] = Records(d.entries)[i]
      BY <1>1, <2>3, <2>4, RecordsOfEntries
    <3>2. /\ Records(es) \in Seq(Record(Data)) /\ Records(d.entries) \in Seq(Record(Data))
          /\ Len(Records(es)) = Len(d.entries) /\ Len(Records(d.entries)) = Len(d.entries)
      BY <1>1, <2>3, RecordsOfEntries
    <3> QED
      BY <3>1, <3>2, SameSequence
  <2>9. Rewritten(d) = [d EXCEPT !.entries = es, !.records = rs, !.eof = n]
    BY <1>1, <1>3 DEF Rewritten, Database
  <2> HIDE DEF es, rs, n
  <2>10. /\ Rewritten(d).phase = "upgrading" /\ Rewritten(d).entries = es
         /\ Rewritten(d).records = rs /\ Rewritten(d).version = "current"
         /\ Rewritten(d).eof = n
    BY <1>1, <2>9 DEF Database
  <2>11. Rewritten(d) \in Database(Data)
    BY <1>1, <2>3, <2>5, <2>6, <2>9 DEF Database
  <2> QED
    BY <2>1, <2>3, <2>5, <2>7, <2>8, <2>10, <2>11 DEF Sound, InStep, Promised
<1> QED
  BY <1>2, <1>3

\* An entry is added.
LEMMA AddedSound ==
  ASSUME NEW Data, NEW d, Sound(Data, d), d.phase = "up", NEW data \in Data
  PROVE  /\ Sound(Data, Added(d, data))
         /\ Added(d, data).phase = "up"
         /\ Len(Added(d, data).entries) = Len(d.entries) + 1
         /\ \A i \in 1 .. Len(d.entries) : Added(d, data).entries[i] = d.entries[i]
         /\ Grows(Data, Promised(d), Promised(Added(d, data)))
<1> DEFINE pos == d.eof + 1
           e == [active |-> TRUE, data |-> data, pos |-> pos]
           r == [active |-> TRUE, data |-> data]
           es == Append(d.entries, e)
           rs == Append(d.records, r)
<1>1. /\ d \in Database(Data)
      /\ d.records \in Seq(Record(Data)) /\ d.entries \in Seq(Entry(Data))
      /\ d.eof = Len(d.records) /\ d.version = "current"
      /\ Len(d.records) = Len(d.entries)
      /\ \A i \in 1 .. Len(d.records) : /\ d.entries[i].pos = i
                                        /\ d.records[i] = RecordOf(d.entries[i])
  BY DEF Sound, Database, InStep
<1>2. pos = Len(d.entries) + 1 /\ pos \in Nat
  BY <1>1
<1>3. e \in Entry(Data) /\ r \in Record(Data) /\ r = RecordOf(e)
  BY <1>2 DEF Entry, Record, RecordOf
<1>4. /\ es \in Seq(Entry(Data)) /\ Len(es) = pos /\ es[pos] = e
      /\ \A i \in 1 .. Len(d.entries) : es[i] = d.entries[i]
  BY <1>1, <1>2, <1>3
<1>5. /\ rs \in Seq(Record(Data)) /\ Len(rs) = pos /\ rs[pos] = r
      /\ \A i \in 1 .. Len(d.records) : rs[i] = d.records[i]
  BY <1>1, <1>2, <1>3
<1>6. Put(d.records, pos, r) = rs
  BY <1>1 DEF Put
<1>7. Added(d, data) = [d EXCEPT !.entries = es, !.records = rs, !.eof = pos]
  BY <1>1, <1>6 DEF Added, Database
<1>8. \A i \in 1 .. pos : es[i].pos = i /\ rs[i] = RecordOf(es[i])
  BY <1>1, <1>2, <1>3, <1>4, <1>5
<1> HIDE DEF es, rs, pos, e, r
<1>9. /\ Added(d, data).phase = "up" /\ Added(d, data).entries = es
      /\ Added(d, data).records = rs /\ Added(d, data).version = "current"
      /\ Added(d, data).eof = pos
  BY <1>1, <1>7 DEF Database
<1>10. Added(d, data) \in Database(Data)
  BY <1>1, <1>2, <1>4, <1>5, <1>7 DEF Database
<1>11. Sound(Data, Added(d, data))
  BY <1>4, <1>5, <1>8, <1>9, <1>10 DEF Sound, InStep
<1>12. Grows(Data, Promised(d), Promised(Added(d, data)))
  <2>1. Promised(d) = Records(d.entries) /\ Promised(Added(d, data)) = Records(es)
    BY <1>9 DEF Promised
  <2>2. \A i \in 1 .. Len(d.entries) : Records(es)[i] = Records(d.entries)[i]
    BY <1>1, <1>2, <1>4, RecordsOfEntries
  <2>3. /\ Records(es) \in Seq(Record(Data))
        /\ Len(Records(es)) = Len(d.entries) + 1 /\ Len(Records(d.entries)) = Len(d.entries)
    BY <1>1, <1>2, <1>4, RecordsOfEntries
  <2> QED
    BY <2>1, <2>2, <2>3 DEF Grows
<1> QED
  BY <1>2, <1>4, <1>9, <1>11, <1>12

\* Entries are deactivated: after whatever else happened to the list.
LEMMA DeactivatedSound ==
  ASSUME NEW Data, NEW d, Sound(Data, d), d.phase = "up",
         NEW is \in SUBSET DOMAIN d.entries
  PROVE  /\ Sound(Data, Deactivated(d, is))
         /\ Deactivated(d, is).phase = "up"
         /\ Len(Deactivated(d, is).entries) = Len(d.entries)
         /\ \A i \in 1 .. Len(d.entries) :
              /\ Deactivated(d, is).entries[i].data = d.entries[i].data
              /\ Deactivated(d, is).entries[i].active => d.entries[i].active
         /\ \A es : Grows(Data, es, Promised(d)) => Grows(Data, es, Promised(Deactivated(d, is)))
<1> DEFINE off(e) == [e EXCEPT !.active = FALSE]
           places == {d.entries[i].pos : i \in {j \in is : d.entries[j].active}}
           es == [i \in DOMAIN d.entries |-> IF i \in is THEN off(d.entries[i]) ELSE d.entries[i]]
           rs == [p \in DOMAIN d.records |-> IF p \in places THEN off(d.records[p])
                                                             ELSE d.records[p]]
           n == Len(d.entries)
<1>1. /\ d \in Database(Data)
      /\ d.records \in Seq(Record(Data)) /\ d.entries \in Seq(Entry(Data))
      /\ d.eof = n /\ d.version = "current" /\ Len(d.records) = n /\ n \in Nat
      /\ \A i \in 1 .. n : d.entries[i].pos = i /\ d.records[i] = RecordOf(d.entries[i])
      /\ DOMAIN d.entries = 1 .. n /\ DOMAIN d.records = 1 .. n
  BY DEF Sound, Database, InStep
<1>2. \A i \in 1 .. n : d.entries[i] \in Entry(Data) /\ d.records[i] \in Record(Data)
  BY <1>1
<1>3. \A i \in 1 .. n : i \in places <=> i \in is /\ d.entries[i].active
  BY <1>1
<1>4. \A i \in 1 .. n : /\ es[i] \in Entry(Data) /\ rs[i] \in Record(Data)
                        /\ es[i].pos = i /\ es[i].data = d.entries[i].data
                        /\ es[i].active => d.entries[i].active
                        /\ rs[i] = RecordOf(es[i])
  <2> TAKE i \in 1 .. n
  <2>1. /\ es[i] = IF i \in is THEN off(d.entries[i]) ELSE d.entries[i]
        /\ rs[i] = IF i \in is /\ d.entries[i].active THEN off(d.records[i]) ELSE d.records[i]
    BY <1>1, <1>3
  <2> HIDE DEF es, rs
  <2>2. d.entries[i] \in Entry(Data) /\ d.records[i] \in Record(Data)
    BY <1>2
  <2>3. /\ d.entries[i].pos = i /\ d.entries[i].active \in BOOLEAN
        /\ d.records[i].active = d.entries[i].active /\ d.records[i].data = d.entries[i].data
    <3>1. d.records[i] = RecordOf(d.entries[i])
      BY <1>1
    <3>2. d.entries[i].pos = i
      BY <1>1
    <3> QED
      BY <2>2, <3>1, <3>2 DEF RecordOf, Entry
  <2>4. /\ off(d.entries[i]) \in Entry(Data)
        /\ off(d.entries[i]).active = FALSE /\ off(d.entries[i]).pos = d.entries[i].pos
        /\ off(d.entries[i]).data = d.entries[i].data
    BY <2>2 DEF Entry
  <2>5. /\ off(d.records[i]) \in Record(Data)
        /\ off(d.records[i]).active = FALSE /\ off(d.records[i]).data = d.records[i].data
    BY <2>2 DEF Record
  <2>6. /\ es[i] \in Entry(Data) /\ rs[i] \in Record(Data)
        /\ es[i].pos = i /\ es[i].data = d.entries[i].data
        /\ es[i].active => d.entries[i].active
        /\ rs[i].active = es[i].active /\ rs[i].data = es[i].data
    <3> HIDE DEF off
    <3>1. CASE i \notin is
      BY <2>1, <2>2, <2>3, <3>1
    <3>2. CASE i \in is /\ d.entries[i].active
      BY <2>1, <2>2, <2>3, <2>4, <2>5, <3>2
    <3>3. CASE i \in is /\ ~d.entries[i].active
      <4>1. d.records[i].active = FALSE
        BY <2>3, <3>3
      <4>2. es[i] = off(d.entries[i]) /\ rs[i] = d.records[i]
        BY <2>1, <3>3
      <4> QED
        BY <2>2, <2>3, <2>4, <4>1, <4>2
    <3> QED
      BY <3>1, <3>2, <3>3
  <2>7. rs[i] = RecordOf(es[i])
    BY <2>6 DEF Record, RecordOf
  <2> QED
    BY <2>6, <2>7
<1>5. es \in Seq(Entry(Data)) /\ Len(es) = n /\ rs \in Seq(Record(Data)) /\ Len(rs) = n
  <2>1. es \in [1 .. n -> Entry(Data)] /\ rs \in [1 .. n -> Record(Data)]
    BY <1>1, <1>4
  <2> QED
    BY <1>1, <2>1, FunctionIsSequence
<1>6. Deactivated(d, is) = [d EXCEPT !.entries = es, !.records = rs]
  BY <1>1 DEF Deactivated, Database
<1> HIDE DEF es, rs, places, n
<1>7. /\ Deactivated(d, is).phase = "up" /\ Deactivated(d, is).entries = es
      /\ Deactivated(d, is).records = rs /\ Deactivated(d, is).version = "current"
      /\ Deactivated(d, is).eof = n
  BY <1>1, <1>6 DEF Database
<1>8. Deactivated(d, is) \in Database(Data)
  BY <1>1, <1>5, <1>6 DEF Database
<1>9. Sound(Data, Deactivated(d, is))
  BY <1>4, <1>5, <1>7, <1>8 DEF Sound, InStep
<1>10. ASSUME NEW fs, Grows(Data, fs, Promised(d))
       PROVE  Grows(Data, fs, Promised(Deactivated(d, is)))
  <2>1. Promised(d) = Records(d.entries) /\ Promised(Deactivated(d, is)) = Records(es)
    BY <1>7 DEF Promised
  <2>2. /\ Len(Records(d.entries)) = n /\ Len(Records(es)) = n
        /\ Records(es) \in Seq(Record(Data))
    BY <1>1, <1>5, RecordsOfEntries DEF n
  <2>3. \A i \in 1 .. n : /\ Records(es)[i].data = Records(d.entries)[i].data
                          /\ Records(es)[i].active => Records(d.entries)[i].active
    <3>1. \A i \in 1 .. n : /\ Records(es)[i] = RecordOf(es[i])
                            /\ Records(d.entries)[i] = RecordOf(d.entries[i])
      BY <1>1, <1>5, RecordsOfEntries DEF n
    <3>2. \A i \in 1 .. n : /\ RecordOf(es[i]).data = es[i].data
                            /\ RecordOf(es[i]).active = es[i].active
                            /\ RecordOf(d.entries[i]).data = d.entries[i].data
                            /\ RecordOf(d.entries[i]).active = d.entries[i].active
      BY DEF RecordOf
    <3> QED
      BY <1>4, <3>1, <3>2
  <2>4. \A i \in 1 .. Len(fs) : i \in 1 .. n
    BY <1>10, <2>1, <2>2 DEF Grows
  <2> QED
    BY <1>10, <2>1, <2>2, <2>3, <2>4 DEF Grows
<1> QED
  BY <1>4, <1>7, <1>9, <1>10 DEF n, es

----------------------------------------------------------------------------
(***************************************************************************)
(* The players                                                             *)
(***************************************************************************)

States == [bans : Database(Ban), exemptions : Database(Exemption),
           players : UNION {[C -> Player] : C \in SUBSET Clients},
           kicked : SUBSET Clients, muted : SUBSET Clients]

Lengths(s) == Len(s.bans.entries) + Len(s.exemptions.entries)

\* What holds between two helpers while the bot runs.
Good(s) ==
  /\ s \in States
  /\ Sound(Ban, s.bans) /\ Sound(Exemption, s.exemptions)
  /\ s.bans.phase = "up" /\ s.exemptions.phase = "up"
  /\ s.exemptions.version = "current"
  /\ Lengths(s) <= MaxEntries
  /\ s.kicked \subseteq DOMAIN s.players /\ s.muted \subseteq DOMAIN s.players
  /\ \A c \in DOMAIN s.players : s.players[c].bansSeen <= Len(s.bans.entries)

\* The bans a player was checked against have been acted on.
EnforcedOn(s, c) ==
  s.players[c].exempt = {} =>
    \A i \in 1 .. s.players[c].bansSeen :
      Applies(s.bans.entries[i], s.players[c]) =>
        /\ "game" \in s.bans.entries[i].data.types => c \in s.kicked
        /\ "chat" \in s.bans.entries[i].data.types => c \in s.kicked \cup s.muted

----------------------------------------------------------------------------
(***************************************************************************)
(* The checks                                                              *)
(***************************************************************************)

\* The parts of a good state.
LEMMA GoodParts ==
  ASSUME NEW s, Good(s)
  PROVE  /\ s.bans \in Database(Ban) /\ s.exemptions \in Database(Exemption)
         /\ s.bans.entries \in Seq(Entry(Ban)) /\ s.exemptions.entries \in Seq(Entry(Exemption))
         /\ Len(s.bans.entries) \in Nat /\ Len(s.exemptions.entries) \in Nat
         /\ DOMAIN s.bans.entries = 1 .. Len(s.bans.entries)
         /\ DOMAIN s.exemptions.entries = 1 .. Len(s.exemptions.entries)
         /\ DOMAIN s.players \in SUBSET Clients
         /\ s.players \in [DOMAIN s.players -> Player]
         /\ s.kicked \in SUBSET Clients /\ s.muted \in SUBSET Clients
<1>1. s \in States
  BY DEF Good
<1>2. /\ s.bans \in Database(Ban) /\ s.exemptions \in Database(Exemption)
      /\ s.players \in UNION {[C -> Player] : C \in SUBSET Clients}
      /\ s.kicked \in SUBSET Clients /\ s.muted \in SUBSET Clients
  BY <1>1 DEF States
<1>3. s.bans.entries \in Seq(Entry(Ban)) /\ s.exemptions.entries \in Seq(Entry(Exemption))
  BY <1>2 DEF Database
<1> QED
  BY <1>2, <1>3

\* What an entry of a good state is.
LEMMA GoodEntries ==
  ASSUME NEW s, Good(s)
  PROVE  /\ \A i \in DOMAIN s.bans.entries : s.bans.entries[i] \in Entry(Ban)
         /\ \A i \in DOMAIN s.exemptions.entries : s.exemptions.entries[i] \in Entry(Exemption)
BY GoodParts

\* banCheck acts on every ban that applies to a player it checks, and forgets
\* nothing of what was acted on before.
LEMMA BanCheckGood ==
  ASSUME NEW s, Good(s), NEW cs \in SUBSET DOMAIN s.players
  PROVE  LET r == BanCheck(s, cs)
         IN  /\ Good(r)
             /\ DOMAIN r.players = DOMAIN s.players
             /\ r.exemptions = s.exemptions
             /\ \A es : Grows(Ban, es, Promised(s.bans)) => Grows(Ban, es, Promised(r.bans))
             /\ \A c \in DOMAIN s.players : c \in cs \/ EnforcedOn(s, c) => EnforcedOn(r, c)
<1> DEFINE r == BanCheck(s, cs)
           es == s.bans.entries
           checked == {c \in cs : s.players[c].exempt = {}}
           kicks == {c \in checked : Banned(s, c, "game")}
           mutes == {c \in checked \ kicks : Banned(s, c, "chat")}
           ended == {i \in DOMAIN es : es[i].active /\ Over(es[i])}
           b == IF checked = {} THEN s.bans ELSE Deactivated(s.bans, ended)
           p == [c \in DOMAIN s.players |-> IF c \in cs
                                            THEN [s.players[c] EXCEPT !.bansSeen = Len(es)]
                                            ELSE s.players[c]]
<1>1. r = [s EXCEPT !.bans = b, !.players = p, !.kicked = s.kicked \cup kicks,
                    !.muted = s.muted \cup mutes]
  BY DEF BanCheck, Good, States
<1>2. /\ Sound(Ban, b) /\ b.phase = "up" /\ Len(b.entries) = Len(es)
      /\ \A i \in 1 .. Len(es) : /\ b.entries[i].data = es[i].data
                                 /\ b.entries[i].active => es[i].active
      /\ \A fs : Grows(Ban, fs, Promised(s.bans)) => Grows(Ban, fs, Promised(b))
  <2>1. Sound(Ban, s.bans) /\ s.bans.phase = "up"
    BY DEF Good
  <2>2. ended \in SUBSET DOMAIN s.bans.entries
    OBVIOUS
  <2>3. CASE checked = {}
    BY <2>1, <2>3
  <2>4. CASE checked # {}
    <3> HIDE DEF ended, checked
    <3>1. b = Deactivated(s.bans, ended)
      BY <2>4
    <3> HIDE DEF b
    <3> QED
      BY <2>1, <2>2, <3>1, DeactivatedSound
  <2> QED
    BY <2>3, <2>4
<1> HIDE DEF b, ended
<1>3. /\ kicks \subseteq cs /\ mutes \subseteq cs /\ checked \subseteq cs
      /\ cs \subseteq Clients /\ DOMAIN s.players \subseteq Clients
  BY GoodParts
<1>4. /\ p \in [DOMAIN s.players -> Player]
      /\ \A c \in DOMAIN s.players :
           /\ p[c].known = s.players[c].known /\ p[c].exempt = s.players[c].exempt
           /\ p[c].bansSeen = IF c \in cs THEN Len(es) ELSE s.players[c].bansSeen
  <2>1. Len(es) \in 0 .. MaxEntries
    <3>1. /\ Len(es) \in Nat /\ Len(s.exemptions.entries) \in Nat
          /\ Len(es) + Len(s.exemptions.entries) <= MaxEntries
      BY GoodParts DEF Good, Lengths
    <3>2. MaxEntries \in Nat
      BY ModerationAssumption
    <3>3. \A m, n, k \in Nat : m + n <= k => m \in 0 .. k
      OBVIOUS
    <3> QED
      BY <3>1, <3>2, <3>3
  <2>2. \A c \in DOMAIN s.players : s.players[c] \in Player
    BY GoodParts
  <2> QED
    BY <2>1, <2>2 DEF Player
<1> HIDE DEF p, kicks, mutes, r
<1>5. /\ r.bans = b /\ r.players = p /\ r.exemptions = s.exemptions
      /\ r.kicked = s.kicked \cup kicks /\ r.muted = s.muted \cup mutes
      /\ r \in States
  <2>1. /\ b \in Database(Ban) /\ p \in UNION {[C -> Player] : C \in SUBSET Clients}
        /\ s.kicked \cup kicks \in SUBSET Clients /\ s.muted \cup mutes \in SUBSET Clients
    BY <1>2, <1>3, <1>4, GoodParts DEF Sound
  <2> QED
    BY <1>1, <2>1 DEF Good, States
<1>6. DOMAIN p = DOMAIN s.players
  BY <1>4
<1>7. Good(r)
  <2>1. /\ Lengths(r) = Lengths(s)
        /\ r.kicked \subseteq DOMAIN r.players /\ r.muted \subseteq DOMAIN r.players
    BY <1>2, <1>3, <1>5, <1>6 DEF Lengths, Good
  <2>2. \A c \in DOMAIN r.players : r.players[c].bansSeen <= Len(r.bans.entries)
    BY <1>2, <1>4, <1>5, <1>6, GoodParts DEF Good
  <2> QED
    BY <1>2, <1>5, <2>1, <2>2 DEF Good
<1>8. ASSUME NEW c \in DOMAIN s.players, c \in cs \/ EnforcedOn(s, c)
      PROVE  EnforcedOn(r, c)
  <2> SUFFICES ASSUME r.players[c].exempt = {},
                      NEW i \in 1 .. r.players[c].bansSeen,
                      Applies(r.bans.entries[i], r.players[c])
               PROVE  /\ "game" \in r.bans.entries[i].data.types => c \in r.kicked
                      /\ "chat" \in r.bans.entries[i].data.types => c \in r.kicked \cup r.muted
    BY DEF EnforcedOn
  <2>1. /\ s.players[c].exempt = {} /\ r.players[c].known = s.players[c].known
        /\ i \in 1 .. Len(es)
    <3>1. p[c].bansSeen <= Len(es) /\ p[c].bansSeen \in Nat /\ Len(es) \in Nat
      BY <1>4, GoodParts DEF Good, Player
    <3> QED
      BY <1>4, <1>5, <3>1
  <2>2. r.bans.entries[i].data = es[i].data /\ Applies(es[i], s.players[c])
    BY <1>2, <1>5, <2>1 DEF Applies, Over
  <2>3. CASE c \in cs
    <3>1. c \in checked
      BY <2>1, <2>3
    <3>2. \A type \in es[i].data.types : Banned(s, c, type)
      BY <2>1, <2>2, GoodParts DEF Banned
    <3> QED
      BY <1>5, <2>2, <3>1, <3>2 DEF kicks, mutes
  <2>4. CASE c \notin cs
    <3>1. i \in 1 .. s.players[c].bansSeen
      BY <1>4, <1>5, <2>4
    <3> QED
      BY <1>5, <1>8, <2>1, <2>2, <2>4, <3>1 DEF EnforcedOn
  <2> QED
    BY <2>3, <2>4
<1> QED
  BY <1>2, <1>5, <1>6, <1>7, <1>8 DEF r

\* exemption_check only changes the player, and ends exemptions.
LEMMA ExemptionCheckGood ==
  ASSUME NEW s, Good(s), NEW c \in DOMAIN s.players
  PROVE  LET r == ExemptionCheck(s, c)
         IN  /\ Good(r)
             /\ DOMAIN r.players = DOMAIN s.players
             /\ r.bans = s.bans
             /\ \A es : Grows(Exemption, es, Promised(s.exemptions))
                          => Grows(Exemption, es, Promised(r.exemptions))
             /\ \A o \in DOMAIN s.players : o # c /\ EnforcedOn(s, o) => EnforcedOn(r, o)
<1> DEFINE r == ExemptionCheck(s, c)
           es == s.exemptions.entries
           mine == {i \in DOMAIN es : Effective(es[i]) /\ Names(es[i], s.players[c])}
           types == UNION {es[i].data.types : i \in mine}
           ended == {i \in DOMAIN es : es[i].active /\ ~Effective(es[i])}
           x == Deactivated(s.exemptions, ended)
           q == [s.players[c] EXCEPT !.exempt = @ \cup types, !.exemptionsSeen = Len(es)]
           p == [s.players EXCEPT ![c] = q]
<1>1. r = [s EXCEPT !.players = p, !.exemptions = x]
  BY GoodParts DEF ExemptionCheck, Good, States, Player
<1>2. /\ Sound(Exemption, x) /\ x.phase = "up" /\ x.version = "current"
      /\ Len(x.entries) = Len(es)
      /\ \A fs : Grows(Exemption, fs, Promised(s.exemptions)) => Grows(Exemption, fs, Promised(x))
  <2>1. ended \in SUBSET DOMAIN s.exemptions.entries
    OBVIOUS
  <2>2. Sound(Exemption, s.exemptions) /\ s.exemptions.phase = "up"
    BY DEF Good
  <2> HIDE DEF ended
  <2>3. Sound(Exemption, x) /\ x.phase = "up"
    BY <2>1, <2>2, DeactivatedSound
  <2> QED
    BY <2>1, <2>2, <2>3, DeactivatedSound, SMTT(30), ZenonT(30) DEF Sound, InStep
<1>3. types \subseteq {"ban", "kick"}
  <2>1. \A i \in DOMAIN es : es[i].data.types \subseteq {"ban", "kick"}
    BY GoodEntries DEF Entry, Exemption
  <2> QED
    BY <2>1
<1>4. Len(es) \in 0 .. MaxEntries
  <2>1. /\ Len(s.bans.entries) \in Nat /\ Len(es) \in Nat
        /\ Len(s.bans.entries) + Len(es) <= MaxEntries
    BY GoodParts DEF Good, Lengths
  <2>2. MaxEntries \in Nat
    BY ModerationAssumption
  <2>3. \A m, n, k \in Nat : m + n <= k => n \in 0 .. k
    OBVIOUS
  <2> QED
    BY <2>1, <2>2, <2>3
<1> HIDE DEF types, x, es
<1>5. s.players[c] \in Player
  BY GoodParts
<1>6. q \in Player /\ q.bansSeen = s.players[c].bansSeen
  BY <1>3, <1>4, <1>5 DEF Player
<1> HIDE DEF q
<1>7. /\ p \in [DOMAIN s.players -> Player]
      /\ p[c] = q
      /\ \A o \in DOMAIN s.players : o # c => p[o] = s.players[o]
  BY <1>6, GoodParts
<1> HIDE DEF p, r
<1>8. /\ r.bans = s.bans /\ r.players = p /\ r.exemptions = x
      /\ r.kicked = s.kicked /\ r.muted = s.muted
      /\ r \in States
  <2>1. /\ x \in Database(Exemption) /\ DOMAIN s.players \in SUBSET Clients
        /\ p \in UNION {[C -> Player] : C \in SUBSET Clients}
    BY <1>2, <1>7, GoodParts DEF Sound
  <2> QED
    BY <1>1, <2>1 DEF Good, States
<1>9. DOMAIN p = DOMAIN s.players
  BY <1>7
<1>10. Good(r)
  <2>1. Lengths(r) = Lengths(s)
    BY <1>2, <1>8 DEF Lengths, es
  <2>2. \A o \in DOMAIN r.players : r.players[o].bansSeen <= Len(r.bans.entries)
    BY <1>6, <1>7, <1>8, <1>9 DEF Good
  <2> QED
    BY <1>2, <1>8, <1>9, <2>1, <2>2 DEF Good
<1>11. \A o \in DOMAIN s.players : o # c /\ EnforcedOn(s, o) => EnforcedOn(r, o)
  BY <1>7, <1>8 DEF EnforcedOn
<1> QED
  BY <1>2, <1>8, <1>9, <1>10, <1>11 DEF r

\* A ban is added; nobody was checked against it yet.
LEMMA WithBanGood ==
  ASSUME NEW s, Good(s), Lengths(s) < MaxEntries,
         NEW names \in SUBSET Identifiers, NEW type \in {"game", "chat"},
         NEW until \in 0 .. MaxNow
  PROVE  LET r == WithBan(s, names, type, until)
         IN  /\ Good(r)
             /\ r.players = s.players /\ r.exemptions = s.exemptions
             /\ r.kicked = s.kicked /\ r.muted = s.muted
             /\ Grows(Ban, Promised(s.bans), Promised(r.bans))
             /\ \A c \in DOMAIN s.players : EnforcedOn(s, c) => EnforcedOn(r, c)
<1> DEFINE r == WithBan(s, names, type, until)
           data == [names |-> names, types |-> {type}, until |-> until]
           b == Added(s.bans, data)
<1>1. r = [s EXCEPT !.bans = b]
  BY DEF WithBan, Good, States
<1>2. data \in Ban
  BY DEF Ban
<1> HIDE DEF data
<1>3. /\ Sound(Ban, b) /\ b.phase = "up" /\ Len(b.entries) = Len(s.bans.entries) + 1
      /\ \A i \in 1 .. Len(s.bans.entries) : b.entries[i] = s.bans.entries[i]
      /\ Grows(Ban, Promised(s.bans), Promised(b))
  BY <1>2, AddedSound DEF Good
<1> HIDE DEF b, r
<1>4. /\ r.bans = b /\ r.players = s.players /\ r.exemptions = s.exemptions
      /\ r.kicked = s.kicked /\ r.muted = s.muted
      /\ r \in States
  <2>1. b \in Database(Ban)
    BY <1>3 DEF Sound
  <2> QED
    BY <1>1, <2>1 DEF Good, States
<1>5. Good(r)
  <2>1. Lengths(r) <= MaxEntries
    <3>1. /\ Len(s.bans.entries) \in Nat /\ Len(s.exemptions.entries) \in Nat
          /\ MaxEntries \in Nat
      BY GoodParts, ModerationAssumption
    <3>2. /\ Lengths(s) = Len(s.bans.entries) + Len(s.exemptions.entries)
          /\ Lengths(r) = Len(s.bans.entries) + 1 + Len(s.exemptions.entries)
      BY <1>3, <1>4 DEF Lengths
    <3>3. \A a, b1, k \in Nat : a + b1 < k => a + 1 + b1 <= k
      OBVIOUS
    <3> QED
      BY <3>1, <3>2, <3>3
  <2>2. \A c \in DOMAIN r.players : r.players[c].bansSeen <= Len(r.bans.entries)
    <3>1. \A c \in DOMAIN s.players : /\ s.players[c].bansSeen <= Len(s.bans.entries)
                                      /\ s.players[c].bansSeen \in Nat
      BY GoodParts, ModerationAssumption DEF Good, Player
    <3>2. Len(s.bans.entries) \in Nat
      BY GoodParts
    <3> QED
      BY <1>3, <1>4, <3>1, <3>2
  <2> QED
    BY <1>3, <1>4, <2>1, <2>2 DEF Good
<1>6. ASSUME NEW c \in DOMAIN s.players, EnforcedOn(s, c)
      PROVE  EnforcedOn(r, c)
  <2>1. \A i \in 1 .. s.players[c].bansSeen : i \in 1 .. Len(s.bans.entries)
    <3>1. /\ s.players[c].bansSeen <= Len(s.bans.entries)
          /\ s.players[c].bansSeen \in Nat /\ Len(s.bans.entries) \in Nat
      BY GoodParts, ModerationAssumption DEF Good, Player
    <3> QED
      BY <3>1
  <2> QED
    BY <1>3, <1>4, <1>6, <2>1 DEF EnforcedOn
<1> QED
  BY <1>3, <1>4, <1>5, <1>6 DEF r

\* More are kicked or muted than before, of those who play.
LEMMA ActedOnGood ==
  ASSUME NEW s, Good(s), NEW r \in States,
         r.players = s.players, r.bans = s.bans, r.exemptions = s.exemptions,
         s.kicked \subseteq r.kicked, r.kicked \subseteq DOMAIN s.players,
         s.muted \subseteq r.muted, r.muted \subseteq DOMAIN s.players
  PROVE  /\ Good(r)
         /\ \A c \in DOMAIN s.players : EnforcedOn(s, c) => EnforcedOn(r, c)
<1>1. Good(r)
  BY DEF Good, Lengths
<1>2. \A c \in DOMAIN s.players : EnforcedOn(s, c) => EnforcedOn(r, c)
  BY DEF EnforcedOn
<1> QED
  BY <1>1, <1>2

\* A player is banned, and kicked unless it is exempt.
LEMMA BanPlayerGood ==
  ASSUME NEW s, Good(s), Lengths(s) < MaxEntries,
         NEW c \in DOMAIN s.players, NEW until \in 0 .. MaxNow
  PROVE  LET r == BanPlayer(s, c, until)
         IN  /\ Good(r)
             /\ r.players = s.players /\ r.exemptions = s.exemptions
             /\ Grows(Ban, Promised(s.bans), Promised(r.bans))
             /\ \A o \in DOMAIN s.players : EnforcedOn(s, o) => EnforcedOn(r, o)
<1> DEFINE kick == (RconBan /\ until = Permanent) \/ "kick" \notin s.players[c].exempt
           b == IF LocalBan THEN WithBanOf(s, c, "game", until) ELSE s
           r == [b EXCEPT !.kicked = IF kick THEN @ \cup {c} ELSE @]
<1>1. Grows(Ban, Promised(s.bans), Promised(s.bans))
  BY GoodParts, PromisedIsAList, GrowsNot
<1>2. /\ Good(b) /\ b.players = s.players /\ b.exemptions = s.exemptions
      /\ Grows(Ban, Promised(s.bans), Promised(b.bans))
      /\ \A o \in DOMAIN s.players : EnforcedOn(s, o) => EnforcedOn(b, o)
  <2>1. CASE LocalBan
    <3>1. s.players[c].known \ HostNames \in SUBSET Identifiers
      BY GoodParts DEF Player
    <3>2. b = WithBan(s, s.players[c].known \ HostNames, "game", until)
      BY <2>1 DEF WithBanOf
    <3> HIDE DEF b
    <3> QED
      BY <3>1, <3>2, WithBanGood
  <2>2. CASE ~LocalBan
    BY <1>1, <2>2
  <2> QED
    BY <2>1, <2>2
<1> HIDE DEF b, kick
<1>3. /\ r \in States /\ r.players = b.players /\ r.bans = b.bans
      /\ r.exemptions = b.exemptions /\ r.muted = b.muted
      /\ r.kicked = IF kick THEN b.kicked \cup {c} ELSE b.kicked
  <2>1. b.kicked \cup {c} \in SUBSET Clients /\ b.kicked \in SUBSET Clients
    BY <1>2, GoodParts
  <2> QED
    BY <1>2, <2>1 DEF Good, States
<1> HIDE DEF r
<1>4. Good(r) /\ \A o \in DOMAIN b.players : EnforcedOn(b, o) => EnforcedOn(r, o)
  <2>1. /\ b.kicked \subseteq r.kicked /\ r.kicked \subseteq DOMAIN b.players
        /\ b.muted \subseteq r.muted /\ r.muted \subseteq DOMAIN b.players
    BY <1>2, <1>3 DEF Good
  <2> QED
    BY <1>2, <1>3, <2>1, ActedOnGood
<1>5. CASE "ban" \in s.players[c].exempt
  <2>1. BanPlayer(s, c, until) = s
    BY <1>5 DEF BanPlayer
  <2> QED
    BY <1>1, <2>1
<1>6. CASE "ban" \notin s.players[c].exempt
  <2>1. BanPlayer(s, c, until) = r
    BY <1>6 DEF BanPlayer, r, b, kick
  <2> QED
    BY <1>2, <1>3, <1>4, <2>1
<1> QED
  BY <1>5, <1>6

\* The databases change without a new ban.
LEMMA DatabasesGood ==
  ASSUME NEW s, Good(s), NEW r \in States,
         r.players = s.players, r.kicked = s.kicked, r.muted = s.muted,
         Sound(Ban, r.bans), r.bans.phase = "up", Len(r.bans.entries) = Len(s.bans.entries),
         \A i \in 1 .. Len(s.bans.entries) :
           /\ r.bans.entries[i].data = s.bans.entries[i].data
           /\ r.bans.entries[i].active => s.bans.entries[i].active,
         Sound(Exemption, r.exemptions), r.exemptions.phase = "up",
         Lengths(r) <= MaxEntries
  PROVE  /\ Good(r)
         /\ \A c \in DOMAIN s.players : EnforcedOn(s, c) => EnforcedOn(r, c)
<1>1. Good(r)
  BY DEF Good, Sound, InStep
<1>2. ASSUME NEW c \in DOMAIN s.players, EnforcedOn(s, c)
      PROVE  EnforcedOn(r, c)
  <2>1. \A i \in 1 .. s.players[c].bansSeen : i \in 1 .. Len(s.bans.entries)
    <3>1. /\ s.players[c].bansSeen <= Len(s.bans.entries)
          /\ s.players[c].bansSeen \in Nat /\ Len(s.bans.entries) \in Nat
      BY GoodParts, ModerationAssumption DEF Good, Player
    <3> QED
      BY <3>1
  <2> QED
    BY <1>2, <2>1 DEF EnforcedOn, Applies, Over
<1> QED
  BY <1>1, <1>2

----------------------------------------------------------------------------
(***************************************************************************)
(* The inductive invariant, and what a step does                           *)
(***************************************************************************)

\* Both databases are in step with their files, nobody is listed unless the bot
\* runs, and no player was checked against more bans than there are.
IInv ==
  /\ TypeOK
  /\ InStep(bans) /\ InStep(exemptions)
  /\ exemptions.version = "current" /\ exemptions.phase # "upgrading"
  /\ Len(Promised(bans)) + Len(Promised(exemptions)) <= MaxEntries
  /\ Up \/ DOMAIN players = {}
  /\ \A c \in DOMAIN players : players[c].bansSeen <= Len(bans.entries)

AllEnforced(s) == \A c \in DOMAIN s.players : EnforcedOn(s, c)

\* What every step is shown to do.
StepOK ==
  /\ IInv' /\ BansAreEnforced'
  /\ CrashUpgrading \/ Grows(Ban, Promised(bans), Promised(bans'))
  /\ Grows(Exemption, Promised(exemptions), Promised(exemptions'))

\* Stopped and started again, or disconnected: nobody is listed.
LEMMA NobodyListed ==
  players' = << >> => /\ players' \in UNION {[C -> Player] : C \in SUBSET Clients}
                      /\ DOMAIN players' = {}
<1> SUFFICES ASSUME players' = << >>
             PROVE  players' \in [{} -> Player] /\ DOMAIN players' = {}
  OBVIOUS
<1> QED
  OBVIOUS

\* The promised lists while the bot runs.
LEMMA PromisedLengths ==
  ASSUME NEW Data, NEW d, Sound(Data, d)
  PROVE  /\ Promised(d) \in Seq(Record(Data))
         /\ Len(Promised(d)) \in Nat
         /\ d.phase # "down" => Len(Promised(d)) = Len(d.entries)
<1>1. d \in Database(Data) /\ d.entries \in Seq(Entry(Data))
  BY DEF Sound, Database
<1>2. Promised(d) \in Seq(Record(Data))
  BY <1>1, PromisedIsAList
<1>3. d.phase # "down" => Len(Promised(d)) = Len(d.entries)
  BY <1>1, RecordsOfEntries DEF Promised
<1> QED
  BY <1>2, <1>3

\* Between two steps of a running bot the state is good.
LEMMA GoodState ==
  ASSUME IInv, Up
  PROVE  /\ Good(State)
         /\ State.bans = bans /\ State.exemptions = exemptions /\ State.players = players
         /\ State.kicked = kicked /\ State.muted = muted
         /\ BansAreEnforced <=> AllEnforced(State)
<1>1. /\ State.bans = bans /\ State.exemptions = exemptions /\ State.players = players
      /\ State.kicked = kicked /\ State.muted = muted
  BY DEF State
<1>2. Sound(Ban, bans) /\ Sound(Exemption, exemptions)
  BY DEF IInv, TypeOK, Sound
<1>3. State \in States
  <2>1. DOMAIN players \in SUBSET Clients
    BY DEF IInv, TypeOK
  <2> QED
    BY <2>1 DEF State, States, IInv, TypeOK
<1>4. Lengths(State) <= MaxEntries
  <2>1. bans.phase # "down" /\ exemptions.phase # "down"
    BY DEF Up
  <2>2. /\ Len(Promised(bans)) = Len(bans.entries)
        /\ Len(Promised(exemptions)) = Len(exemptions.entries)
    BY <1>2, <2>1, PromisedLengths
  <2>3. Len(Promised(bans)) + Len(Promised(exemptions)) <= MaxEntries
    BY DEF IInv
  <2> QED
    BY <1>1, <2>2, <2>3 DEF Lengths
<1>5. Good(State)
  BY <1>1, <1>2, <1>3, <1>4 DEF Good, IInv, TypeOK, Up
<1>6. BansAreEnforced <=> AllEnforced(State)
  BY <1>1 DEF BansAreEnforced, AllEnforced, EnforcedOn
<1> QED
  BY <1>1, <1>5, <1>6

\* A handler of a running bot.
LEMMA HandlerStep ==
  ASSUME NEW s, Good(s), AllEnforced(s), TypeOK,
         Grows(Ban, Promised(bans), Promised(s.bans)),
         Grows(Exemption, Promised(exemptions), Promised(s.exemptions)),
         Become(s), UNCHANGED now
  PROVE  StepOK
<1>1. /\ bans' = s.bans /\ exemptions' = s.exemptions /\ players' = s.players
      /\ kicked' = s.kicked /\ muted' = s.muted /\ now' = now
  BY DEF Become
<1>2. TypeOK'
  <2>1. s \in States
    BY DEF Good
  <2> QED
    BY <1>1, <2>1 DEF TypeOK, States, Good
<1>3. /\ InStep(bans') /\ InStep(exemptions') /\ Up'
      /\ exemptions'.version = "current" /\ exemptions'.phase # "upgrading"
      /\ \A c \in DOMAIN players' : players'[c].bansSeen <= Len(bans'.entries)
  BY <1>1 DEF Good, Sound, Up
<1>4. Len(Promised(bans')) + Len(Promised(exemptions')) <= MaxEntries
  <2>1. s.bans.phase # "down" /\ s.exemptions.phase # "down"
    BY DEF Good
  <2>2. Sound(Ban, s.bans) /\ Sound(Exemption, s.exemptions) /\ Lengths(s) <= MaxEntries
    BY DEF Good
  <2>3. /\ Len(Promised(s.bans)) = Len(s.bans.entries)
        /\ Len(Promised(s.exemptions)) = Len(s.exemptions.entries)
    BY <2>1, <2>2, PromisedLengths
  <2> QED
    BY <1>1, <2>2, <2>3 DEF Lengths
<1>5. IInv'
  BY <1>2, <1>3, <1>4 DEF IInv, InStep, RecordOf, Promised, Records, Up
<1>6. BansAreEnforced'
  BY <1>1 DEF BansAreEnforced, AllEnforced, EnforcedOn, Applies, Over
<1> QED
  BY <1>1, <1>5, <1>6 DEF StepOK

\* Something is learnt of a player, listed or not; what was enforced on the
\* others still is.
LEMMA KnowingGood ==
  ASSUME IInv, BansAreEnforced, Up, NEW c \in Clients, NEW names \in SUBSET Identifiers
  PROVE  LET s == Knowing(c, names)
         IN  /\ Good(s)
             /\ DOMAIN s.players = DOMAIN players \cup {c}
             /\ s.bans = bans /\ s.exemptions = exemptions
             /\ \A o \in DOMAIN players : o # c => EnforcedOn(s, o)
<1> DEFINE p == IF c \in DOMAIN players THEN players[c] ELSE Unknown
           q == [p EXCEPT !.known = @ \cup names]
           ps == [o \in DOMAIN players \cup {c} |-> IF o = c THEN q ELSE players[o]]
           s == Knowing(c, names)
<1>1. Good(State) /\ AllEnforced(State)
  BY GoodState
<1>2. /\ State.bans = bans /\ State.exemptions = exemptions /\ State.players = players
      /\ State.kicked = kicked /\ State.muted = muted
  BY GoodState
<1>3. s = [State EXCEPT !.players = ps]
  BY DEF Knowing, State
<1>4. \A o \in DOMAIN players : players[o] \in Player /\ o \in Clients
  BY <1>1, <1>2, GoodParts
<1>5. p \in Player /\ p.bansSeen <= Len(bans.entries)
  <2>1. CASE c \in DOMAIN players
    BY <1>1, <1>2, <1>4, <2>1 DEF Good
  <2>2. CASE c \notin DOMAIN players
    <3>1. Unknown \in Player /\ Unknown.bansSeen = 0
      BY ModerationAssumption DEF Unknown, Player
    <3>2. Len(bans.entries) \in Nat
      BY <1>1, <1>2, GoodParts
    <3> QED
      BY <2>2, <3>1, <3>2
  <2> QED
    BY <2>1, <2>2
<1> HIDE DEF p
<1>6. q \in Player /\ q.bansSeen = p.bansSeen
  BY <1>5 DEF Player
<1> HIDE DEF q
<1>7. /\ ps \in [DOMAIN players \cup {c} -> Player]
      /\ ps[c] = q /\ \A o \in DOMAIN players : o # c => ps[o] = players[o]
  BY <1>4, <1>6
<1> HIDE DEF ps, s
<1>8. /\ s.bans = bans /\ s.exemptions = exemptions /\ s.players = ps
      /\ s.kicked = kicked /\ s.muted = muted /\ s \in States
  <2>1. ps \in UNION {[C -> Player] : C \in SUBSET Clients}
    BY <1>4, <1>7
  <2> QED
    BY <1>1, <1>2, <1>3, <2>1 DEF Good, States
<1>9. DOMAIN ps = DOMAIN players \cup {c}
  BY <1>7
<1>10. Good(s)
  <2>1. \A o \in DOMAIN s.players : s.players[o].bansSeen <= Len(s.bans.entries)
    BY <1>1, <1>2, <1>5, <1>6, <1>7, <1>8, <1>9 DEF Good
  <2> QED
    BY <1>1, <1>2, <1>8, <1>9, <2>1 DEF Good, Lengths
<1>11. \A o \in DOMAIN players : o # c => EnforcedOn(s, o)
  BY <1>1, <1>2, <1>7, <1>8 DEF AllEnforced, EnforcedOn
<1> QED
  BY <1>8, <1>9, <1>10, <1>11 DEF s

\* The lists are what they were.
LEMMA GrowsNothing ==
  ASSUME IInv
  PROVE  /\ Grows(Ban, Promised(bans), Promised(bans))
         /\ Grows(Exemption, Promised(exemptions), Promised(exemptions))
BY PromisedIsAList, GrowsNot DEF IInv, TypeOK

\* A player is checked against exemptions and bans.
LEMMA CheckedStep ==
  ASSUME IInv, BansAreEnforced, Up, NEW c \in Clients, NEW names \in SUBSET Identifiers,
         Become(BanCheck(ExemptionCheck(Knowing(c, names), c), {c})), UNCHANGED now
  PROVE  StepOK
<1> DEFINE s1 == Knowing(c, names)
           s2 == ExemptionCheck(s1, c)
           s3 == BanCheck(s2, {c})
<1>1. /\ Good(s1) /\ DOMAIN s1.players = DOMAIN players \cup {c}
      /\ s1.bans = bans /\ s1.exemptions = exemptions
      /\ \A o \in DOMAIN s1.players : o # c => EnforcedOn(s1, o)
  BY KnowingGood
<1> HIDE DEF s1
<1>2. /\ Good(s2) /\ DOMAIN s2.players = DOMAIN s1.players /\ s2.bans = bans
      /\ Grows(Exemption, Promised(exemptions), Promised(s2.exemptions))
      /\ \A o \in DOMAIN s1.players : o # c => EnforcedOn(s2, o)
  BY <1>1, ExemptionCheckGood, GrowsNothing
<1> HIDE DEF s2
<1>3. /\ Good(s3) /\ DOMAIN s3.players = DOMAIN s2.players
      /\ Grows(Ban, Promised(bans), Promised(s3.bans))
      /\ Grows(Exemption, Promised(exemptions), Promised(s3.exemptions))
      /\ \A o \in DOMAIN s2.players : EnforcedOn(s3, o)
  <2>1. {c} \in SUBSET DOMAIN s2.players
    BY <1>1, <1>2
  <2> QED
    BY <1>1, <1>2, <2>1, BanCheckGood, GrowsNothing
<1> HIDE DEF s3
<1> QED
  BY <1>3, HandlerStep DEF AllEnforced, IInv, s1, s2, s3

\* A player is listed.
LEMMA ListedStep ==
  ASSUME IInv, BansAreEnforced, NEW c \in Clients, Listed(c)
  PROVE  StepOK
<1>1. PICK names \in {{}, Identity[c] \cap Early, Identity[c] \ HostNames} :
        Become(BanCheck(ExemptionCheck(Knowing(c, names), c), {c}))
  BY DEF Listed
<1>2. names \in SUBSET Identifiers
  BY ModerationAssumption
<1> QED
  BY <1>1, <1>2, CheckedStep DEF Listed

\* More is learnt of a player from a row or a log line.
LEMMA CompletedStep ==
  ASSUME IInv, BansAreEnforced, NEW c \in Clients, Completed(c)
  PROVE  StepOK
<1>1. Identity[c] \ HostNames \in SUBSET Identifiers
  BY ModerationAssumption
<1> QED
  BY <1>1, CheckedStep DEF Completed

\* A hardware id or a host name is learnt.
LEMMA ToldStep ==
  ASSUME IInv, BansAreEnforced, NEW c \in DOMAIN players,
         NEW names \in SUBSET Identifiers, Told(c, names)
  PROVE  StepOK
<1> DEFINE s1 == Knowing(c, names)
           s2 == BanCheck(s1, {c})
<1>1. Up /\ c \in Clients
  BY DEF Told, IInv, TypeOK
<1>2. /\ Good(s1) /\ DOMAIN s1.players = DOMAIN players \cup {c}
      /\ s1.bans = bans /\ s1.exemptions = exemptions
      /\ \A o \in DOMAIN s1.players : o # c => EnforcedOn(s1, o)
  BY <1>1, KnowingGood
<1> HIDE DEF s1
<1>3. /\ Good(s2) /\ DOMAIN s2.players = DOMAIN s1.players
      /\ Grows(Ban, Promised(bans), Promised(s2.bans))
      /\ Grows(Exemption, Promised(exemptions), Promised(s2.exemptions))
      /\ \A o \in DOMAIN s1.players : EnforcedOn(s2, o)
  <2>1. {c} \in SUBSET DOMAIN s1.players
    BY <1>2
  <2> QED
    BY <1>2, <2>1, BanCheckGood, GrowsNothing
<1>4. Become(s2) /\ UNCHANGED now
  BY DEF Told, s1
<1> HIDE DEF s2
<1> QED
  BY <1>3, <1>4, HandlerStep DEF AllEnforced, IInv

\* A player leaves.
LEMMA LeavesStep ==
  ASSUME IInv, BansAreEnforced, NEW c \in DOMAIN players, Leaves(c)
  PROVE  StepOK
<1> DEFINE ps == [o \in DOMAIN players \ {c} |-> players[o]]
           s  == [State EXCEPT !.players = ps, !.kicked = kicked \ {c}, !.muted = muted \ {c}]
<1>1. /\ Good(State) /\ AllEnforced(State)
      /\ State.bans = bans /\ State.exemptions = exemptions /\ State.players = players
      /\ State.kicked = kicked /\ State.muted = muted
  BY GoodState DEF IInv
<1>2. \A o \in DOMAIN players : players[o] \in Player /\ o \in Clients
  BY <1>1, GoodParts
<1>3. /\ ps \in [DOMAIN players \ {c} -> Player] /\ DOMAIN ps = DOMAIN players \ {c}
      /\ \A o \in DOMAIN ps : ps[o] = players[o]
  BY <1>2
<1>4. Become(s) /\ UNCHANGED now
  BY <1>1 DEF Leaves, Become, State
<1> HIDE DEF ps
<1>5. /\ s.bans = bans /\ s.exemptions = exemptions /\ s.players = ps
      /\ s.kicked = kicked \ {c} /\ s.muted = muted \ {c} /\ s \in States
  <2>1. ps \in UNION {[C -> Player] : C \in SUBSET Clients}
    BY <1>2, <1>3
  <2>2. kicked \ {c} \in SUBSET Clients /\ muted \ {c} \in SUBSET Clients
    BY <1>1, GoodParts
  <2> QED
    BY <1>1, <2>1, <2>2 DEF State, States, Good
<1> HIDE DEF s
<1>6. Good(s) /\ AllEnforced(s)
  <2>1. Good(s)
    BY <1>1, <1>3, <1>5 DEF Good, Lengths
  <2>2. \A o \in DOMAIN ps : EnforcedOn(State, o) => EnforcedOn(s, o)
    BY <1>1, <1>3, <1>5 DEF EnforcedOn
  <2> QED
    BY <1>1, <1>3, <1>5, <2>1, <2>2 DEF AllEnforced
<1> QED
  BY <1>4, <1>5, <1>6, GrowsNothing, HandlerStep DEF IInv

----------------------------------------------------------------------------
(***************************************************************************)
(* Commands                                                                *)
(***************************************************************************)

\* What the bounds of the commands say of the state.
LEMMA RoomToAdd ==
  ASSUME IInv, BansAreEnforced, CanAdd
  PROVE  /\ Good(State) /\ AllEnforced(State) /\ Lengths(State) < MaxEntries
         /\ Up /\ TypeOK
         /\ State.bans = bans /\ State.exemptions = exemptions /\ State.players = players
         /\ State.kicked = kicked /\ State.muted = muted
         /\ Permanent \in 0 .. MaxNow /\ now \in 0 .. MaxNow
<1>1. now \in 1 .. MaxNow /\ MaxNow \in Nat
  BY ModerationAssumption DEF IInv, TypeOK
<1>2. Permanent \in 0 .. MaxNow /\ now \in 0 .. MaxNow
  BY <1>1 DEF Permanent
<1>3. Up /\ TypeOK
  BY DEF CanAdd, IInv
<1>4. /\ Good(State) /\ AllEnforced(State)
      /\ State.bans = bans /\ State.exemptions = exemptions /\ State.players = players
      /\ State.kicked = kicked /\ State.muted = muted
  BY <1>3, GoodState
<1>5. Lengths(State) < MaxEntries
  BY <1>4 DEF CanAdd, Lengths
<1> QED
  BY <1>2, <1>3, <1>4, <1>5

\* Everybody is checked, after a ban.
LEMMA AllCheckedStep ==
  ASSUME IInv, NEW s, Good(s), AllEnforced(s),
         Grows(Ban, Promised(bans), Promised(s.bans)), s.exemptions = exemptions,
         Become(BanCheck(s, DOMAIN s.players)), UNCHANGED now
  PROVE  StepOK
<1> DEFINE r == BanCheck(s, DOMAIN s.players)
<1>1. /\ Good(r) /\ DOMAIN r.players = DOMAIN s.players
      /\ Grows(Ban, Promised(bans), Promised(r.bans))
      /\ Grows(Exemption, Promised(exemptions), Promised(r.exemptions))
      /\ \A c \in DOMAIN s.players : EnforcedOn(r, c)
  BY BanCheckGood, GrowsNothing DEF AllEnforced
<1> HIDE DEF r
<1> QED
  BY <1>1, HandlerStep DEF AllEnforced, IInv, r

\* A player is banned for good, and everybody is checked.
LEMMA KickBanStep ==
  ASSUME IInv, BansAreEnforced, NEW c \in DOMAIN players, KickBan(c)
  PROVE  StepOK
<1> DEFINE s == BanPlayer(State, c, Permanent)
<1>1. CanAdd /\ Become(BanCheck(s, DOMAIN players)) /\ UNCHANGED now
  BY DEF KickBan
<1>2. /\ Good(s) /\ s.players = players /\ s.exemptions = exemptions
      /\ Grows(Ban, Promised(bans), Promised(s.bans))
      /\ \A o \in DOMAIN players : EnforcedOn(s, o)
  BY <1>1, RoomToAdd, BanPlayerGood DEF AllEnforced
<1> HIDE DEF s
<1> QED
  BY <1>1, <1>2, AllCheckedStep DEF AllEnforced

\* A player is banned for a time.
LEMMA TempBanStep ==
  ASSUME IInv, BansAreEnforced, NEW c \in DOMAIN players, TempBan(c)
  PROVE  StepOK
<1> DEFINE s == BanPlayer(State, c, now)
<1>1. CanAdd /\ Become(s) /\ UNCHANGED now
  BY DEF TempBan, CanAddForNow
<1>2. /\ Good(s) /\ s.players = players /\ s.exemptions = exemptions
      /\ Grows(Ban, Promised(bans), Promised(s.bans))
      /\ \A o \in DOMAIN players : EnforcedOn(s, o)
  BY <1>1, RoomToAdd, BanPlayerGood DEF AllEnforced
<1> HIDE DEF s
<1> QED
  BY <1>1, <1>2, HandlerStep, GrowsNothing DEF AllEnforced, IInv

\* A ban is given by what it names, and everybody is checked.
LEMMA AddBanStep ==
  ASSUME IInv, BansAreEnforced, NEW names \in AddBanNames, NEW type \in AddBanTypes,
         NEW until \in {Permanent, now}, AddBan(names, type, until)
  PROVE  StepOK
<1> DEFINE s == WithBan(State, names, type, until)
<1>1. CanAdd /\ Become(BanCheck(s, DOMAIN players)) /\ UNCHANGED now
  BY DEF AddBan
<1>2. names \in SUBSET Identifiers /\ type \in {"game", "chat"}
  BY ModerationAssumption
<1>3. /\ Good(s) /\ s.players = players /\ s.exemptions = exemptions
      /\ Grows(Ban, Promised(bans), Promised(s.bans))
      /\ \A o \in DOMAIN players : EnforcedOn(s, o)
  <2>1. until \in 0 .. MaxNow
    BY <1>1, RoomToAdd
  <2>2. Good(State) /\ AllEnforced(State) /\ Lengths(State) < MaxEntries
    BY <1>1, RoomToAdd
  <2>3. State.bans = bans /\ State.exemptions = exemptions /\ State.players = players
    BY <1>1, RoomToAdd
  <2> QED
    BY <1>2, <2>1, <2>2, <2>3, WithBanGood DEF AllEnforced
<1> HIDE DEF s
<1> QED
  BY <1>1, <1>3, AllCheckedStep DEF AllEnforced

\* What a chat ban of a player does to the state.
LEMMA ChatBanGood ==
  ASSUME IInv, BansAreEnforced, CanAdd, NEW c \in DOMAIN players
  PROVE  LET s == WithBanOf(State, c, "chat", now)
         IN  /\ Good(s) /\ AllEnforced(s)
             /\ s.players = players /\ s.exemptions = exemptions
             /\ s.kicked = kicked /\ s.muted = muted
             /\ Grows(Ban, Promised(bans), Promised(s.bans))
<1> DEFINE s == WithBan(State, players[c].known \ HostNames, "chat", now)
<1>1. players[c].known \ HostNames \in SUBSET Identifiers
  BY RoomToAdd, GoodParts DEF Player
<1>2. /\ Good(s) /\ s.players = players /\ s.exemptions = exemptions
      /\ s.kicked = kicked /\ s.muted = muted
      /\ Grows(Ban, Promised(bans), Promised(s.bans))
      /\ \A o \in DOMAIN players : EnforcedOn(s, o)
  BY <1>1, RoomToAdd, WithBanGood DEF AllEnforced
<1>3. WithBanOf(State, c, "chat", now) = s
  BY RoomToAdd DEF WithBanOf
<1> HIDE DEF s
<1> QED
  BY <1>2, <1>3 DEF AllEnforced

\* A chat ban, given on IRC.
LEMMA TempChatBanIRCStep ==
  ASSUME IInv, BansAreEnforced, NEW c \in DOMAIN players, TempChatBanIRC(c)
  PROVE  StepOK
BY ChatBanGood, HandlerStep, GrowsNothing DEF TempChatBanIRC, CanAddForNow, IInv

\* A chat ban, given in the game.
LEMMA TempChatBanGameStep ==
  ASSUME IInv, BansAreEnforced, NEW c \in DOMAIN players, TempChatBanGame(c)
  PROVE  StepOK
<1> DEFINE s == WithBanOf(State, c, "chat", now)
           r == [s EXCEPT !.muted = @ \cup {c}]
<1>1. CanAdd /\ Become(r) /\ UNCHANGED now
  BY DEF TempChatBanGame, CanAddForNow
<1>2. /\ Good(s) /\ AllEnforced(s) /\ s.players = players /\ s.exemptions = exemptions
      /\ s.kicked = kicked /\ s.muted = muted
      /\ Grows(Ban, Promised(bans), Promised(s.bans))
  BY <1>1, ChatBanGood
<1> HIDE DEF s
<1>3. /\ r \in States /\ r.players = s.players /\ r.bans = s.bans
      /\ r.exemptions = s.exemptions /\ r.kicked = s.kicked /\ r.muted = s.muted \cup {c}
  <2>1. s.muted \cup {c} \in SUBSET Clients
    BY <1>2, GoodParts
  <2> QED
    BY <1>2, <2>1 DEF Good, States
<1> HIDE DEF r
<1>4. Good(r) /\ AllEnforced(r)
  <2>1. r.kicked \subseteq DOMAIN s.players /\ r.muted \subseteq DOMAIN s.players
    BY <1>2, <1>3 DEF Good
  <2> QED
    BY <1>2, <1>3, <2>1, ActedOnGood DEF AllEnforced
<1> QED
  BY <1>1, <1>2, <1>3, <1>4, HandlerStep, GrowsNothing DEF IInv

\* A ban is lifted.
LEMMA UnBanStep ==
  ASSUME IInv, BansAreEnforced, NEW i \in DOMAIN bans.entries, UnBan(i)
  PROVE  StepOK
<1> DEFINE d == Deactivated(bans, {i})
           s == [State EXCEPT !.bans = d]
<1>1. Up /\ TypeOK
  BY DEF UnBan, IInv
<1>2. /\ Good(State) /\ AllEnforced(State)
      /\ State.bans = bans /\ State.exemptions = exemptions /\ State.players = players
      /\ State.kicked = kicked /\ State.muted = muted
  BY <1>1, GoodState
<1>3. /\ Sound(Ban, d) /\ d.phase = "up" /\ Len(d.entries) = Len(bans.entries)
      /\ \A j \in 1 .. Len(bans.entries) : /\ d.entries[j].data = bans.entries[j].data
                                           /\ d.entries[j].active => bans.entries[j].active
      /\ Grows(Ban, Promised(bans), Promised(d))
  <2>1. Sound(Ban, bans) /\ bans.phase = "up" /\ {i} \in SUBSET DOMAIN bans.entries
    BY <1>2 DEF Good
  <2> QED
    BY <2>1, DeactivatedSound, GrowsNothing
<1>4. Become(s) /\ UNCHANGED now
  BY DEF UnBan, Become, State
<1> HIDE DEF d
<1>5. /\ s.bans = d /\ s.exemptions = exemptions /\ s.players = players
      /\ s.kicked = kicked /\ s.muted = muted /\ s \in States
  BY <1>2, <1>3 DEF State, States, Good, Sound
<1> HIDE DEF s
<1>6. Good(s) /\ AllEnforced(s)
  <2>1. /\ Sound(Exemption, s.exemptions) /\ s.exemptions.phase = "up"
        /\ Lengths(s) <= MaxEntries
    BY <1>2, <1>3, <1>5 DEF Good, Lengths
  <2> QED
    BY <1>2, <1>3, <1>5, <2>1, DatabasesGood DEF AllEnforced
<1> QED
  BY <1>1, <1>3, <1>4, <1>5, <1>6, GrowsNothing, HandlerStep

\* The exemptions change, and there is room for one more of them.
LEMMA ExemptionsStep ==
  ASSUME IInv, BansAreEnforced, Up, NEW x,
         Sound(Exemption, x), x.phase = "up",
         Len(bans.entries) + Len(x.entries) <= MaxEntries,
         Grows(Exemption, Promised(exemptions), Promised(x)),
         exemptions' = x, UNCHANGED <<bans, players, kicked, muted, now>>
  PROVE  StepOK
<1> DEFINE s == [State EXCEPT !.exemptions = x]
<1>1. /\ Good(State) /\ AllEnforced(State) /\ TypeOK
      /\ State.bans = bans /\ State.exemptions = exemptions /\ State.players = players
      /\ State.kicked = kicked /\ State.muted = muted
  BY GoodState DEF IInv
<1>2. Become(s) /\ UNCHANGED now
  BY DEF Become, State
<1>3. /\ s.bans = bans /\ s.exemptions = x /\ s.players = players
      /\ s.kicked = kicked /\ s.muted = muted /\ s \in States
  BY <1>1 DEF State, States, Good, Sound
<1> HIDE DEF s
<1>4. Good(s) /\ AllEnforced(s)
  <2>1. Lengths(s) <= MaxEntries
    BY <1>3 DEF Lengths
  <2> QED
    BY <1>1, <1>3, <2>1, DatabasesGood DEF AllEnforced, Good
<1> QED
  BY <1>1, <1>2, <1>3, <1>4, GrowsNothing, HandlerStep

\* An exemption is given.
LEMMA ExemptedStep ==
  ASSUME IInv, BansAreEnforced, CanAdd, NEW data \in Exemption,
         exemptions' = Added(exemptions, data), UNCHANGED <<bans, players, kicked, muted, now>>
  PROVE  StepOK
<1> DEFINE x == Added(exemptions, data)
<1>1. /\ Sound(Exemption, exemptions) /\ exemptions.phase = "up" /\ Up
      /\ Len(bans.entries) \in Nat /\ Len(exemptions.entries) \in Nat
      /\ Len(bans.entries) + Len(exemptions.entries) < MaxEntries
  <2>1. Good(State) /\ State.bans = bans /\ State.exemptions = exemptions
    BY RoomToAdd
  <2> QED
    BY <2>1, GoodParts DEF Good, CanAdd
<1>2. /\ Sound(Exemption, x) /\ x.phase = "up"
      /\ Len(x.entries) = Len(exemptions.entries) + 1
      /\ Grows(Exemption, Promised(exemptions), Promised(x))
  BY <1>1, AddedSound
<1> HIDE DEF x
<1>3. Len(bans.entries) + Len(x.entries) <= MaxEntries
  <2>1. MaxEntries \in Nat
    BY ModerationAssumption
  <2>2. \A m, n, k \in Nat : m + n < k => m + (n + 1) <= k
    OBVIOUS
  <2> QED
    BY <1>1, <1>2, <2>1, <2>2
<1> QED
  BY <1>1, <1>2, <1>3, ExemptionsStep DEF x

\* A player is exempt.
LEMMA ExemptPlayerStep ==
  ASSUME IInv, BansAreEnforced, NEW c \in DOMAIN players,
         NEW types \in {{"ban"}, {"ban", "kick"}}, ExemptPlayer(c, types)
  PROVE  StepOK
<1> DEFINE names == players[c].known \cap Early
           data == [names |-> names, types |-> types, until |-> Permanent,
                    byAddress |-> names \cap SteamIDs = {}]
<1>1. CanAdd /\ exemptions' = Added(exemptions, data)
      /\ UNCHANGED <<bans, players, kicked, muted, now>>
  BY DEF ExemptPlayer
<1>2. data \in Exemption
  BY <1>1, RoomToAdd DEF Exemption
<1> HIDE DEF data
<1> QED
  BY <1>1, <1>2, ExemptedStep

\* An exemption is given by what it names.
LEMMA AddExemptionStep ==
  ASSUME IInv, BansAreEnforced, NEW names \in AddExemptionNames,
         NEW types \in (SUBSET {"ban", "kick"}) \ {{}}, AddExemption(names, types)
  PROVE  StepOK
<1> DEFINE data == [names |-> names, types |-> types, until |-> Permanent,
                    byAddress |-> names \cap Addresses # {}]
<1>1. CanAdd /\ exemptions' = Added(exemptions, data)
      /\ UNCHANGED <<bans, players, kicked, muted, now>>
  BY DEF AddExemption
<1>2. data \in Exemption
  BY <1>1, RoomToAdd, ModerationAssumption DEF Exemption
<1> HIDE DEF data
<1> QED
  BY <1>1, <1>2, ExemptedStep

\* An exemption is lifted.
LEMMA UnExemptStep ==
  ASSUME IInv, BansAreEnforced, NEW i \in DOMAIN exemptions.entries, UnExempt(i)
  PROVE  StepOK
<1> DEFINE x == Deactivated(exemptions, {i})
<1>1. Up /\ exemptions' = x /\ UNCHANGED <<bans, players, kicked, muted, now>>
  BY DEF UnExempt
<1>2. /\ Sound(Exemption, exemptions) /\ exemptions.phase = "up"
      /\ Len(bans.entries) + Len(exemptions.entries) <= MaxEntries
  <2>1. Good(State) /\ State.bans = bans /\ State.exemptions = exemptions
    BY <1>1, GoodState
  <2> QED
    BY <2>1 DEF Good, Lengths
<1>3. /\ Sound(Exemption, x) /\ x.phase = "up"
      /\ Len(x.entries) = Len(exemptions.entries)
      /\ Grows(Exemption, Promised(exemptions), Promised(x))
  <2>1. {i} \in SUBSET DOMAIN exemptions.entries
    OBVIOUS
  <2> QED
    BY <1>2, <2>1, DeactivatedSound, GrowsNothing
<1> HIDE DEF x
<1> QED
  BY <1>1, <1>2, <1>3, ExemptionsStep

----------------------------------------------------------------------------
(***************************************************************************)
(* The clock, and the bot itself                                           *)
(***************************************************************************)

\* What was over is over.
LEMMA TickStep ==
  ASSUME IInv, BansAreEnforced, Tick
  PROVE  StepOK
<1>1. now \in 1 .. MaxNow /\ MaxNow \in Nat /\ now < MaxNow /\ now' = now + 1
  BY ModerationAssumption DEF IInv, TypeOK, Tick
<1>2. UNCHANGED <<bans, exemptions, players, kicked, muted>>
  BY DEF Tick
<1>3. IInv'
  <2>1. now' \in 1 .. MaxNow
    BY <1>1
  <2>2. TypeOK'
    BY <1>2, <2>1 DEF IInv, TypeOK
  <2> QED
    BY <1>2, <2>2 DEF IInv, InStep, RecordOf, Promised, Records, Up
<1>4. ASSUME NEW c \in DOMAIN players, NEW i \in 1 .. players[c].bansSeen,
             Applies(bans.entries[i], players[c])'
      PROVE  Applies(bans.entries[i], players[c])
  <2>1. bans.entries[i].data.until \in Nat
    <3>1. Up
      BY DEF IInv
    <3>2. /\ Good(State) /\ State.bans = bans /\ State.players = players
      BY <3>1, GoodState
    <3>3. /\ players[c].bansSeen \in Nat /\ players[c].bansSeen <= Len(bans.entries)
          /\ Len(bans.entries) \in Nat /\ DOMAIN bans.entries = 1 .. Len(bans.entries)
      BY <3>2, GoodParts, ModerationAssumption DEF Good, Player
    <3>4. i \in DOMAIN bans.entries
      BY <3>3
    <3>5. bans.entries[i] \in Entry(Ban)
      BY <3>2, <3>4, GoodEntries
    <3> QED
      BY <3>5, <1>1 DEF Entry, Ban
  <2>2. ~(bans.entries[i].data.until # Permanent /\ bans.entries[i].data.until < now')
    BY <1>2, <1>4 DEF Applies, Over
  <2>3. ~Over(bans.entries[i])
    BY <1>1, <2>1, <2>2 DEF Over
  <2> QED
    BY <1>2, <1>4, <2>3 DEF Applies
<1>5. BansAreEnforced'
  BY <1>2, <1>4 DEF BansAreEnforced
<1> QED
  BY <1>2, <1>3, <1>5, GrowsNothing DEF StepOK

\* Nobody is listed before both databases are read.
LEMMA StartsStep ==
  ASSUME IInv, BansAreEnforced, Starts
  PROVE  StepOK
<1>1. Sound(Ban, bans) /\ Sound(Exemption, exemptions) /\ exemptions.version = "current"
  BY DEF IInv, TypeOK, Sound
<1>2. ~Up /\ UNCHANGED <<players, kicked, muted, now>>
  BY DEF Starts, Up
<1>3. /\ Sound(Ban, bans') /\ Promised(bans') = Promised(bans)
      /\ Sound(Exemption, exemptions') /\ Promised(exemptions') = Promised(exemptions)
      /\ exemptions'.version = "current" /\ exemptions'.phase # "upgrading"
  <2>1. CASE bans.phase = "down" /\ bans' = Initialized(bans) /\ UNCHANGED exemptions
    BY <1>1, <2>1, InitializedSound DEF IInv
  <2>2. CASE bans.phase = "upgrading" /\ bans' = Rewritten(bans) /\ UNCHANGED exemptions
    BY <1>1, <2>2, RewrittenSound DEF IInv
  <2>3. CASE /\ bans.phase = "up" /\ exemptions.phase = "down"
             /\ exemptions' = Initialized(exemptions) /\ UNCHANGED bans
    <3>1. exemptions \in Database(Exemption)
      BY <1>1 DEF Sound
    <3>2. exemptions'.phase = "up" /\ exemptions'.version = "current"
      BY <1>1, <2>3, <3>1 DEF Initialized, Database
    <3>3. Sound(Exemption, exemptions') /\ Promised(exemptions') = Promised(exemptions)
      BY <1>1, <2>3, InitializedSound
    <3> QED
      BY <1>1, <2>3, <3>2, <3>3
  <2> QED
    BY <2>1, <2>2, <2>3 DEF Starts
<1>4. DOMAIN players' = {}
  BY <1>2 DEF IInv
<1>5. TypeOK'
  BY <1>2, <1>3 DEF IInv, TypeOK, Sound
<1>6. IInv'
  <2>1. Len(Promised(bans')) + Len(Promised(exemptions')) <= MaxEntries
    BY <1>3 DEF IInv
  <2>2. InStep(bans') /\ InStep(exemptions')
    BY <1>3 DEF Sound
  <2> QED
    BY <1>3, <1>4, <1>5, <2>1, <2>2 DEF IInv, InStep, RecordOf, Promised, Records, Up
<1>7. BansAreEnforced'
  BY <1>4 DEF BansAreEnforced
<1> QED
  BY <1>3, <1>6, <1>7, GrowsNothing DEF StepOK

\* The next start reads what was promised, unless the bot stops while it rewrites
\* the ban database.
LEMMA StopsStep ==
  ASSUME IInv, BansAreEnforced, Stops
  PROVE  StepOK
<1>1. Sound(Ban, bans) /\ Sound(Exemption, exemptions) /\ exemptions.version = "current"
  BY DEF IInv, TypeOK, Sound
<1>2. /\ bans' = Stopped(bans) /\ exemptions' = Stopped(exemptions)
      /\ players' = << >> /\ kicked' = {} /\ muted' = {} /\ now' = now
  BY DEF Stops
<1>3. /\ Sound(Ban, bans') /\ Len(Promised(bans')) <= Len(Promised(bans))
      /\ CrashUpgrading \/ Promised(bans') = Promised(bans)
  BY <1>1, <1>2, StoppedSound DEF Stops
<1>4. Sound(Exemption, exemptions') /\ Promised(exemptions') = Promised(exemptions)
  BY <1>1, <1>2, StoppedSound DEF IInv
<1>5. exemptions'.phase = "down" /\ exemptions'.version = "current"
  BY <1>1, <1>2 DEF Stopped, Closed
<1>6. players' \in UNION {[C -> Player] : C \in SUBSET Clients} /\ DOMAIN players' = {}
  BY <1>2, NobodyListed
<1>7. TypeOK'
  BY <1>2, <1>3, <1>4, <1>6 DEF IInv, TypeOK, Sound
<1>8. Len(Promised(bans')) + Len(Promised(exemptions')) <= MaxEntries
  <2>1. /\ Len(Promised(bans)) \in Nat /\ Len(Promised(bans')) \in Nat
        /\ Len(Promised(exemptions)) \in Nat /\ MaxEntries \in Nat
    BY <1>1, <1>3, PromisedLengths, ModerationAssumption
  <2>2. Len(Promised(bans)) + Len(Promised(exemptions)) <= MaxEntries
    BY DEF IInv
  <2>3. \A a, b, m, k \in Nat : a <= b /\ b + m <= k => a + m <= k
    OBVIOUS
  <2>4. Len(Promised(bans')) <= Len(Promised(bans))
    BY <1>3
  <2> QED
    BY <1>4, <2>1, <2>2, <2>3, <2>4
<1>9. IInv'
  <2>1. InStep(bans') /\ InStep(exemptions')
    BY <1>3, <1>4 DEF Sound
  <2> QED
    BY <1>5, <1>6, <1>7, <1>8, <2>1 DEF IInv, InStep, RecordOf, Promised, Records, Up
<1>10. BansAreEnforced'
  BY <1>6 DEF BansAreEnforced
<1> QED
  BY <1>3, <1>4, <1>9, <1>10, GrowsNothing DEF StepOK

\* The connection is lost.
LEMMA DisconnectedStep ==
  ASSUME IInv, BansAreEnforced, Disconnected
  PROVE  StepOK
<1>1. /\ players' = << >> /\ kicked' = {} /\ muted' = {}
      /\ UNCHANGED <<bans, exemptions, now>>
  BY DEF Disconnected
<1>2. players' \in UNION {[C -> Player] : C \in SUBSET Clients} /\ DOMAIN players' = {}
  BY <1>1, NobodyListed
<1>3. TypeOK'
  BY <1>1, <1>2 DEF IInv, TypeOK
<1>4. IInv'
  BY <1>1, <1>2, <1>3, SMTT(30), ZenonT(30) DEF IInv, InStep, RecordOf, Promised, Records, Up
<1>5. BansAreEnforced'
  BY <1>2 DEF BansAreEnforced
<1> QED
  BY <1>1, <1>4, <1>5, GrowsNothing DEF StepOK

----------------------------------------------------------------------------
(***************************************************************************)
(* The theorems                                                            *)
(***************************************************************************)

\* The files hold at most one ban when the first run starts.
LEMMA InitOK == Init => IInv /\ BansAreEnforced
<1> SUFFICES ASSUME Init PROVE IInv /\ BansAreEnforced
  OBVIOUS
<1>1. PICK version \in {"current", "old", "unsupported"}, names \in AddBanNames :
        bans \in {Closed(version, <<>>),
                  Closed(version, <<[active |-> TRUE,
                    data |-> [names |-> names, types |-> {"game"}, until |-> Permanent]]>>)}
  BY DEF Init
<1>2. [names |-> names, types |-> {"game"}, until |-> Permanent] \in Ban
  BY ModerationAssumption DEF Ban, Permanent
<1>3. PICK records \in Seq(Record(Ban)) : Len(records) <= 1 /\ bans = Closed(version, records)
  <2> DEFINE r == [active |-> TRUE,
                   data |-> [names |-> names, types |-> {"game"}, until |-> Permanent]]
  <2>1. r \in Record(Ban)
    BY <1>2 DEF Record
  <2> HIDE DEF r
  <2>2. <<r>> \in Seq(Record(Ban)) /\ Len(<<r>>) <= 1
    BY <2>1
  <2>3. << >> \in Seq(Record(Ban)) /\ Len(<< >>) <= 1
    OBVIOUS
  <2>4. bans = Closed(version, << >>) \/ bans = Closed(version, <<r>>)
    BY <1>1 DEF r
  <2> QED
    BY <2>2, <2>3, <2>4
<1>4. exemptions = Closed("current", << >>) /\ players = << >> /\ kicked = {} /\ muted = {}
      /\ now = 1
  BY DEF Init
<1>5. Sound(Ban, bans) /\ Sound(Exemption, exemptions)
  <2>1. Sound(Ban, bans)
    BY <1>3, ClosedSound
  <2>2. << >> \in Seq(Record(Exemption))
    OBVIOUS
  <2>3. Sound(Exemption, exemptions)
    BY <1>4, <2>2, ClosedSound
  <2> QED
    BY <2>1, <2>3
<1>6. /\ Promised(bans) = << >> \/ Promised(bans) = bans.records
      /\ Promised(exemptions) = << >> /\ bans.records \in Seq(Record(Ban))
      /\ Len(bans.records) <= 1
      /\ exemptions.version = "current" /\ exemptions.phase # "upgrading"
  BY <1>3, <1>4 DEF Promised, Closed
<1>7. players \in [{} -> Player] /\ DOMAIN players = {}
  BY <1>4
<1>8. TypeOK
  <2>1. players \in UNION {[C -> Player] : C \in SUBSET Clients}
    BY <1>7
  <2>2. now \in 1 .. MaxNow
    BY <1>4, ModerationAssumption
  <2> QED
    BY <1>4, <1>5, <2>1, <2>2 DEF TypeOK, Sound
<1>9. Len(Promised(bans)) + Len(Promised(exemptions)) <= MaxEntries
  BY <1>6, ModerationAssumption
<1> QED
  BY <1>5, <1>6, <1>7, <1>8, <1>9 DEF IInv, BansAreEnforced, Sound

\* Every step keeps the invariant, what is enforced, and the promised lists.
LEMMA NextOK == IInv /\ BansAreEnforced /\ [Next]_vars => StepOK
<1> SUFFICES ASSUME IInv, BansAreEnforced, [Next]_vars PROVE StepOK
  OBVIOUS
<1>1. CASE UNCHANGED vars
  <2>1. TypeOK'
    BY <1>1 DEF IInv, TypeOK, vars
  <2>2. IInv'
    BY <1>1, <2>1 DEF IInv, InStep, RecordOf, Promised, Records, Up, vars
  <2>3. BansAreEnforced'
    BY <1>1 DEF BansAreEnforced, Applies, Over, vars
  <2> QED
    BY <1>1, <2>2, <2>3, GrowsNothing DEF StepOK, vars
<1>2. ASSUME NEW c \in Clients, Listed(c) PROVE StepOK
  BY <1>2, ListedStep
<1>3. ASSUME NEW c \in DOMAIN players,
             \/ Completed(c) \/ Leaves(c)
             \/ \E names \in {Identity[c] \cap HardwareIDs, Identity[c] \cap HostNames} :
                  Told(c, names)
             \/ KickBan(c) \/ TempBan(c) \/ TempChatBanIRC(c) \/ TempChatBanGame(c)
             \/ \E types \in {{"ban"}, {"ban", "kick"}} : ExemptPlayer(c, types)
      PROVE  StepOK
  <2>1. c \in Clients
    BY DEF IInv, TypeOK
  <2>2. CASE Completed(c)
    BY <2>1, <2>2, CompletedStep
  <2>3. CASE Leaves(c)
    BY <2>3, LeavesStep
  <2>4. ASSUME NEW names \in {Identity[c] \cap HardwareIDs, Identity[c] \cap HostNames},
               Told(c, names)
        PROVE  StepOK
    <3>1. names \in SUBSET Identifiers
      BY <2>1, ModerationAssumption
    <3> QED
      BY <2>4, <3>1, ToldStep
  <2>5. CASE KickBan(c)
    BY <2>5, KickBanStep
  <2>6. CASE TempBan(c)
    BY <2>6, TempBanStep
  <2>7. CASE TempChatBanIRC(c)
    BY <2>7, TempChatBanIRCStep
  <2>8. CASE TempChatBanGame(c)
    BY <2>8, TempChatBanGameStep
  <2>9. ASSUME NEW types \in {{"ban"}, {"ban", "kick"}}, ExemptPlayer(c, types)
        PROVE  StepOK
    BY <2>9, ExemptPlayerStep
  <2> QED
    BY <1>3, <2>2, <2>3, <2>4, <2>5, <2>6, <2>7, <2>8, <2>9
<1>4. ASSUME NEW names \in AddBanNames, NEW type \in AddBanTypes,
             NEW until \in {Permanent, now}, AddBan(names, type, until)
      PROVE  StepOK
  BY <1>4, AddBanStep
<1>5. ASSUME NEW names \in AddExemptionNames, NEW types \in (SUBSET {"ban", "kick"}) \ {{}},
             AddExemption(names, types)
      PROVE  StepOK
  BY <1>5, AddExemptionStep
<1>6. ASSUME NEW i \in DOMAIN bans.entries, UnBan(i) PROVE StepOK
  BY <1>6, UnBanStep
<1>7. ASSUME NEW i \in DOMAIN exemptions.entries, UnExempt(i) PROVE StepOK
  BY <1>7, UnExemptStep
<1>8. CASE Disconnected
  BY <1>8, DisconnectedStep
<1>9. CASE Tick
  BY <1>9, TickStep
<1>10. CASE Starts
  BY <1>10, StartsStep
<1>11. CASE Stops
  BY <1>11, StopsStep
<1> QED
  BY <1>1, <1>2, <1>3, <1>4, <1>5, <1>6, <1>7, <1>8, <1>9, <1>10, <1>11 DEF Next

\* The databases are in step with their files, and the state is of its type.
THEOREM ModerationTypeCorrect == Spec => []TypeOK
<1>1. IInv /\ BansAreEnforced /\ [Next]_vars => (IInv /\ BansAreEnforced)'
  BY NextOK DEF StepOK
<1>2. IInv => TypeOK
  BY DEF IInv
<1> QED
  BY InitOK, <1>1, <1>2, PTL DEF Spec

\* Whoever a ban names that was in the database at the last check is kicked or
\* muted, however bans, exemptions, look-ups and the clock interleave.
THEOREM BansEnforced == Spec => []BansAreEnforced
<1>1. IInv /\ BansAreEnforced /\ [Next]_vars => (IInv /\ BansAreEnforced)'
  BY NextOK DEF StepOK
<1> QED
  BY InitOK, <1>1, PTL DEF Spec

\* A step that makes a promised list grow is a step of the durable list.
LEMMA BansGrow ==
  Grows(Ban, Promised(bans), Promised(bans)') => BanList!Next
BY DEF Grows, BanList!Next, BanList!Entry, Record

\* The same, of exemptions.
LEMMA ExemptionsGrow ==
  Grows(Exemption, Promised(exemptions), Promised(exemptions)') => ExemptionList!Next
BY DEF Grows, ExemptionList!Next, ExemptionList!Entry, Record

\* No ban is lost, altered or active again, provided that the bot does not stop
\* while it rewrites a database of an old version.
THEOREM BansDurable ==
  ASSUME CrashUpgrading = FALSE
  PROVE  Spec => BansAreDurable
<1>1. IInv /\ BansAreEnforced => BanList!Init
  BY PromisedIsAList DEF IInv, TypeOK, BanList!Init, BanList!Entry, Record
<1>2. IInv /\ BansAreEnforced /\ [Next]_vars => (IInv /\ BansAreEnforced)'
  BY NextOK DEF StepOK
<1>3. IInv /\ BansAreEnforced /\ [Next]_vars => [BanList!Next]_(Promised(bans))
  BY NextOK, BansGrow DEF StepOK, Promised, Records, RecordOf
<1> QED
  BY InitOK, <1>1, <1>2, <1>3, PTL DEF Spec, BansAreDurable, BanList!Spec

\* No exemption is lost, altered or active again.
THEOREM ExemptionsDurable == Spec => ExemptionsAreDurable
<1>1. IInv /\ BansAreEnforced => ExemptionList!Init
  BY PromisedIsAList DEF IInv, TypeOK, ExemptionList!Init, ExemptionList!Entry, Record
<1>2. IInv /\ BansAreEnforced /\ [Next]_vars => (IInv /\ BansAreEnforced)'
  BY NextOK DEF StepOK
<1>3. IInv /\ BansAreEnforced /\ [Next]_vars => [ExemptionList!Next]_(Promised(exemptions))
  BY NextOK, ExemptionsGrow DEF StepOK, Promised, Records, RecordOf
<1> QED
  BY InitOK, <1>1, <1>2, <1>3, PTL DEF Spec, ExemptionsAreDurable, ExemptionList!Spec

----------------------------------------------------------------------------
(***************************************************************************)
(* How bans end, and who is exempt                                         *)
(***************************************************************************)

\* Of the entries es, those that are not active in fs had run their term.
Lapse(es, fs) ==
  \A i \in DOMAIN es \cap DOMAIN fs : es[i].active /\ ~fs[i].active => Over(es[i])

\* A player is exempt from kicks if an exemption it was checked against says so.
Exempted(p, es) ==
  /\ p.exemptionsSeen <= Len(es)
  /\ \A i \in 1 .. p.exemptionsSeen :
       es[i].active /\ "kick" \in es[i].data.types /\ Names(es[i], p) => "kick" \in p.exempt

\* The parts of a player that exemptions are about.
SameTo(p, q) == p.known = q.known /\ p.exempt = q.exempt /\ p.exemptionsSeen = q.exemptionsSeen

\* Whoever is kicked in r, and not in k before, is not exempt from it.
Kicks(k, r) == \A c \in r.kicked \ k : "kick" \notin r.players[c].exempt

\* Entries with these indices are deactivated, and no other.
LEMMA DeactivatedEntries ==
  ASSUME NEW Data, NEW d \in Database(Data), NEW is, NEW fs, fs = Deactivated(d, is).entries
  PROVE  /\ DOMAIN fs = DOMAIN d.entries
         /\ \A i \in DOMAIN d.entries : \/ (i \in is /\ ~fs[i].active)
                                       \/ (i \notin is /\ fs[i] = d.entries[i])
<1>1. d = [phase |-> d.phase, entries |-> d.entries, eof |-> d.eof, version |-> d.version,
           records |-> d.records]
      /\ d.entries \in Seq(Entry(Data))
  BY DEF Database
<1>2. fs = [i \in DOMAIN d.entries |->
              IF i \in is THEN [d.entries[i] EXCEPT !.active = FALSE] ELSE d.entries[i]]
  BY <1>1 DEF Deactivated
<1>3. \A i \in DOMAIN d.entries : [d.entries[i] EXCEPT !.active = FALSE].active = FALSE
  BY <1>1 DEF Entry
<1> QED
  BY <1>2, <1>3

\* banCheck ends the bans that are over, and kicks nobody with an exemption.
LEMMA BanCheckSpares ==
  ASSUME NEW s, Good(s), NEW cs \in SUBSET DOMAIN s.players, NEW r, r = BanCheck(s, cs)
  PROVE  /\ DOMAIN r.bans.entries = DOMAIN s.bans.entries
         /\ Lapse(s.bans.entries, r.bans.entries)
         /\ DOMAIN r.players = DOMAIN s.players /\ r.exemptions = s.exemptions
         /\ \A c \in DOMAIN s.players : SameTo(s.players[c], r.players[c])
         /\ \A c \in r.kicked \ s.kicked : c \in DOMAIN s.players /\ r.players[c].exempt = {}
<1> DEFINE es == s.bans.entries
           checked == {c \in cs : s.players[c].exempt = {}}
           kicks == {c \in checked : Banned(s, c, "game")}
           mutes == {c \in checked \ kicks : Banned(s, c, "chat")}
           ended == {i \in DOMAIN es : es[i].active /\ Over(es[i])}
           b == IF checked = {} THEN s.bans ELSE Deactivated(s.bans, ended)
           p == [c \in DOMAIN s.players |-> IF c \in cs
                                            THEN [s.players[c] EXCEPT !.bansSeen = Len(es)]
                                            ELSE s.players[c]]
<1>1. r = [s EXCEPT !.bans = b, !.players = p, !.kicked = s.kicked \cup kicks,
                    !.muted = s.muted \cup mutes]
  BY DEF BanCheck, Good, States
<1>2. \A i \in DOMAIN es : es[i].active \in BOOLEAN
  BY GoodEntries DEF Entry
<1>3. DOMAIN b.entries = DOMAIN es /\ Lapse(es, b.entries)
  <2>1. CASE checked = {}
    BY <2>1 DEF Lapse
  <2>2. CASE checked # {}
    <3> HIDE DEF checked, ended
    <3>1. PICK fs : fs = Deactivated(s.bans, ended).entries
      OBVIOUS
    <3>2. s.bans \in Database(Ban)
      BY GoodParts
    <3>3. /\ DOMAIN fs = DOMAIN es
          /\ \A i \in DOMAIN es : \/ (i \in ended /\ ~fs[i].active)
                                 \/ (i \notin ended /\ fs[i] = es[i])
      BY <3>1, <3>2, DeactivatedEntries
    <3>4. Lapse(es, fs)
      BY <3>3 DEF Lapse, ended
    <3> QED
      BY <2>2, <3>1, <3>3, <3>4
  <2> QED
    BY <2>1, <2>2
<1>4. \A c \in DOMAIN s.players : SameTo(s.players[c], p[c])
  <2>1. \A c \in DOMAIN s.players : s.players[c] \in Player
    BY GoodParts
  <2> QED
    BY <2>1 DEF SameTo, Player
<1>5. \A c \in kicks : c \in DOMAIN s.players /\ s.players[c].exempt = {}
  OBVIOUS
<1>6. DOMAIN p = DOMAIN s.players
  OBVIOUS
<1> HIDE DEF b, p, kicks, mutes
<1>7. r.bans = b /\ r.players = p /\ r.exemptions = s.exemptions /\ r.kicked = s.kicked \cup kicks
  BY <1>1 DEF Good, States
<1> QED
  BY <1>3, <1>4, <1>5, <1>6, <1>7 DEF SameTo

\* A player that is checked against the exemptions has those that it is named by.
LEMMA ExemptionCheckExempts ==
  ASSUME NEW s, Good(s), NEW c \in DOMAIN s.players, NEW r, r = ExemptionCheck(s, c)
  PROVE  /\ r.bans = s.bans /\ r.kicked = s.kicked /\ DOMAIN r.players = DOMAIN s.players
         /\ Exempted(r.players[c], r.exemptions.entries)
         /\ \A o \in DOMAIN s.players : o # c => /\ r.players[o] = s.players[o]
                                                 /\ Exempted(s.players[o], s.exemptions.entries)
                                                      => Exempted(r.players[o], r.exemptions.entries)
<1> DEFINE es == s.exemptions.entries
           mine == {i \in DOMAIN es : Effective(es[i]) /\ Names(es[i], s.players[c])}
           types == UNION {es[i].data.types : i \in mine}
           ended == {i \in DOMAIN es : es[i].active /\ ~Effective(es[i])}
           x == Deactivated(s.exemptions, ended)
           q == [s.players[c] EXCEPT !.exempt = @ \cup types, !.exemptionsSeen = Len(es)]
           p == [s.players EXCEPT ![c] = q]
<1>1. r = [s EXCEPT !.players = p, !.exemptions = x]
  BY GoodParts DEF ExemptionCheck, Good, States, Player
<1>2. /\ s.exemptions \in Database(Exemption) /\ es \in Seq(Entry(Exemption))
      /\ Len(es) \in Nat /\ DOMAIN es = 1 .. Len(es)
  BY GoodParts
<1>3. PICK fs : fs = x.entries
  OBVIOUS
<1>4. /\ DOMAIN fs = DOMAIN es
      /\ \A i \in DOMAIN es : \/ (i \in ended /\ ~fs[i].active)
                             \/ (i \notin ended /\ fs[i] = es[i])
  <2> HIDE DEF ended
  <2> QED
    BY <1>2, <1>3, DeactivatedEntries
<1>5. Len(fs) = Len(es)
  <2>1. /\ Sound(Exemption, s.exemptions) /\ s.exemptions.phase = "up"
        /\ ended \in SUBSET DOMAIN s.exemptions.entries
    BY DEF Good
  <2> HIDE DEF ended
  <2> QED
    BY <1>3, <2>1, DeactivatedSound
<1>6. s.players[c] \in Player
  BY GoodParts
<1> HIDE DEF types
<1>7. /\ q.known = s.players[c].known /\ q.exempt = s.players[c].exempt \cup types
      /\ q.exemptionsSeen = Len(es)
  BY <1>6 DEF Player
<1> HIDE DEF q
<1>8. DOMAIN p = DOMAIN s.players /\ p[c] = q /\ \A o \in DOMAIN s.players : o # c => p[o] = s.players[o]
  BY GoodParts
<1> HIDE DEF p, x
<1>9. r.bans = s.bans /\ r.kicked = s.kicked /\ r.players = p /\ r.exemptions.entries = fs
  BY <1>1, <1>3 DEF Good, States
<1>10. Exempted(q, fs)
  <2> SUFFICES ASSUME NEW i \in 1 .. Len(es), fs[i].active, "kick" \in fs[i].data.types, Names(fs[i], q)
               PROVE  "kick" \in q.exempt
    BY <1>2, <1>5, <1>7 DEF Exempted
  <2>1. fs[i] = es[i] /\ i \notin ended
    BY <1>2, <1>4
  <2>2. Effective(es[i])
    BY <1>2, <2>1
  <2>3. i \in mine
    BY <1>2, <1>7, <2>1, <2>2 DEF Names
  <2>4. "kick" \in types
    BY <2>1, <2>3 DEF types
  <2> QED
    BY <1>7, <2>4
<1>11. ASSUME NEW o \in DOMAIN s.players, Exempted(s.players[o], es)
       PROVE  Exempted(s.players[o], fs)
  <2>1. s.players[o].exemptionsSeen \in Nat /\ s.players[o].exemptionsSeen <= Len(es)
    BY <1>11, GoodParts, ModerationAssumption DEF Player, Exempted
  <2>2. \A i \in 1 .. s.players[o].exemptionsSeen : i \in DOMAIN es
    BY <1>2, <2>1
  <2> QED
    BY <1>4, <1>5, <1>11, <2>1, <2>2 DEF Exempted, Names
<1> QED
  BY <1>8, <1>9, <1>10, <1>11

\* The entries es are still there in fs, as they were.
Extends(es, fs) == \A i \in DOMAIN es : i \in DOMAIN fs /\ fs[i] = es[i]

\* Entries are added, and then some lapse.
LEMMA ExtendedLapse ==
  ASSUME NEW es, NEW fs, NEW gs, Extends(es, fs), Lapse(fs, gs)
  PROVE  Lapse(es, gs)
BY DEF Extends, Lapse

\* What exemptions are about has not changed.
LEMMA SameExempted ==
  ASSUME NEW p, NEW q, NEW es, SameTo(p, q), Exempted(p, es)
  PROVE  Exempted(q, es)
BY DEF SameTo, Exempted, Names

\* A ban is added to those there are, and nobody is kicked for it.
LEMMA WithBanExtends ==
  ASSUME NEW s, Good(s), NEW names \in SUBSET Identifiers, NEW type \in {"game", "chat"},
         NEW until \in 0 .. MaxNow, NEW r, r = WithBan(s, names, type, until)
  PROVE  Extends(s.bans.entries, r.bans.entries) /\ r.kicked = s.kicked
<1> DEFINE data == [names |-> names, types |-> {type}, until |-> until]
           b == Added(s.bans, data)
<1>1. r = [s EXCEPT !.bans = b]
  BY DEF WithBan, Good, States
<1>2. data \in Ban
  BY DEF Ban
<1> HIDE DEF data
<1>3. Sound(Ban, s.bans) /\ s.bans.phase = "up"
  BY DEF Good
<1>4. /\ Sound(Ban, b) /\ Len(b.entries) = Len(s.bans.entries) + 1
      /\ \A i \in 1 .. Len(s.bans.entries) : b.entries[i] = s.bans.entries[i]
  BY <1>2, <1>3, AddedSound
<1> HIDE DEF b
<1>5. /\ DOMAIN s.bans.entries = 1 .. Len(s.bans.entries) /\ Len(s.bans.entries) \in Nat
      /\ DOMAIN b.entries = 1 .. Len(b.entries)
  BY <1>3, <1>4 DEF Sound, Database
<1>6. r.bans = b /\ r.kicked = s.kicked
  BY <1>1 DEF Good, States
<1> QED
  BY <1>4, <1>5, <1>6 DEF Extends

\* A player is banned; who is exempt from kicks is only kicked if the server
\* bans over RCON.
LEMMA BanPlayerSpares ==
  ASSUME NEW s, Good(s), NEW c \in DOMAIN s.players, NEW until \in 0 .. MaxNow,
         NEW r, r = BanPlayer(s, c, until)
  PROVE  /\ Extends(s.bans.entries, r.bans.entries)
         /\ \A o \in r.kicked \ s.kicked : RconBan \/ "kick" \notin s.players[o].exempt
<1> DEFINE kick == (RconBan /\ until = Permanent) \/ "kick" \notin s.players[c].exempt
           b == IF LocalBan THEN WithBanOf(s, c, "game", until) ELSE s
<1>1. Extends(s.bans.entries, s.bans.entries)
  BY DEF Extends
<1>2. Extends(s.bans.entries, b.bans.entries) /\ b.kicked = s.kicked /\ b \in States
  <2>1. CASE LocalBan
    <3>1. s.players[c].known \ HostNames \in SUBSET Identifiers
      BY GoodParts DEF Player
    <3>2. b = WithBan(s, s.players[c].known \ HostNames, "game", until)
      BY <2>1 DEF WithBanOf
    <3> DEFINE names == s.players[c].known \ HostNames
               data == [names |-> names, types |-> {"game"}, until |-> until]
    <3>3. names \in SUBSET Identifiers /\ b = WithBan(s, names, "game", until)
      BY <3>1, <3>2
    <3>4. data \in Ban
      BY <3>1 DEF Ban
    <3>5. Sound(Ban, s.bans) /\ s.bans.phase = "up"
      BY DEF Good
    <3>6. b = [s EXCEPT !.bans = Added(s.bans, data)]
      BY <3>3 DEF WithBan, Good, States
    <3> HIDE DEF b, names, data
    <3>7. Added(s.bans, data) \in Database(Ban)
      BY <3>4, <3>5, AddedSound DEF Sound
    <3>8. b \in States
      BY <3>6, <3>7 DEF Good, States
    <3> QED
      BY <3>3, <3>8, WithBanExtends
  <2>2. CASE ~LocalBan
    BY <1>1, <2>2 DEF Good
  <2> QED
    BY <2>1, <2>2
<1> HIDE DEF b
<1>3. CASE "ban" \in s.players[c].exempt
  <2>1. r = s
    BY <1>3 DEF BanPlayer
  <2> QED
    BY <1>1, <2>1
<1>4. CASE "ban" \notin s.players[c].exempt
  <2>1. r = [b EXCEPT !.kicked = IF kick THEN b.kicked \cup {c} ELSE b.kicked]
    BY <1>2, <1>4 DEF BanPlayer, b, States
  <2>2. r.bans = b.bans /\ r.kicked = IF kick THEN b.kicked \cup {c} ELSE b.kicked
    <3> HIDE DEF kick
    <3> QED
      BY <1>2, <2>1 DEF States
  <2> QED
    BY <1>2, <2>2
<1> QED
  BY <1>3, <1>4

\* Something is learnt of a player, and nothing else happens.
LEMMA KnowingSpares ==
  ASSUME IInv, Up, NEW c \in Clients, NEW names \in SUBSET Identifiers,
         NEW s, s = Knowing(c, names)
  PROVE  /\ s.kicked = kicked /\ DOMAIN s.players = DOMAIN players \cup {c}
         /\ \A o \in DOMAIN players : o # c => s.players[o] = players[o]
         /\ c \in DOMAIN players => /\ s.players[c].known = players[c].known \cup names
                                    /\ s.players[c].exempt = players[c].exempt
                                    /\ s.players[c].exemptionsSeen = players[c].exemptionsSeen
<1> DEFINE p == IF c \in DOMAIN players THEN players[c] ELSE Unknown
           q == [p EXCEPT !.known = @ \cup names]
           ps == [o \in DOMAIN players \cup {c} |-> IF o = c THEN q ELSE players[o]]
<1>1. s = [State EXCEPT !.players = ps]
  BY DEF Knowing, State
<1>2. c \in DOMAIN players => players[c] \in Player
  BY DEF IInv, TypeOK
<1>3. c \in DOMAIN players => /\ q.known = players[c].known \cup names
                              /\ q.exempt = players[c].exempt
                              /\ q.exemptionsSeen = players[c].exemptionsSeen
  <2> HAVE c \in DOMAIN players
  <2>1. p = players[c] /\ p \in Player
    BY <1>2
  <2> HIDE DEF p
  <2> QED
    BY <2>1 DEF Player
<1> HIDE DEF q
<1>4. /\ DOMAIN ps = DOMAIN players \cup {c} /\ ps[c] = q
      /\ \A o \in DOMAIN players : o # c => ps[o] = players[o]
  OBVIOUS
<1> HIDE DEF ps
<1>5. s.players = ps /\ s.kicked = kicked
  BY <1>1 DEF State
<1> QED
  BY <1>3, <1>4, <1>5

----------------------------------------------------------------------------
(***************************************************************************)
(* What a step does about bans that end, and about those who are exempt    *)
(***************************************************************************)

\* Every player is exempt who was named by an exemption when they were looked up,
\* and which has not been lifted.
ExemptionsHeld == \A c \in DOMAIN players : Exempted(players[c], exemptions.entries)

\* No entry is in memory before a database is read.
Idle == bans.phase = "down" => bans.entries = << >>

\* What every step does about bans that end, and about those who are exempt.
StepFair ==
  /\ bans'.phase = "down" => bans'.entries = << >>
  /\ \A i \in DOMAIN bans.entries \cap DOMAIN bans'.entries :
       bans.entries[i].active /\ ~bans'.entries[i].active => Over(bans.entries[i]) \/ UnBan(i)
  /\ \A c \in DOMAIN players' : Exempted(players'[c], exemptions'.entries)
  /\ \A c \in (kicked' \ kicked) \cap DOMAIN players' :
       RconBan \/ "kick" \notin players'[c].exempt

\* The same, of what a handler changes.
FairOf(s) ==
  /\ s.bans.phase = "up" /\ Lapse(bans.entries, s.bans.entries)
  /\ \A c \in DOMAIN s.players : Exempted(s.players[c], s.exemptions.entries)
  /\ \A c \in s.kicked \ kicked : RconBan \/ "kick" \notin s.players[c].exempt

\* A handler of a running bot.
LEMMA FairStep ==
  ASSUME NEW s, FairOf(s), Become(s)
  PROVE  StepFair
<1>1. /\ bans' = s.bans /\ exemptions' = s.exemptions /\ players' = s.players
      /\ kicked' = s.kicked
  BY DEF Become
<1>2. bans'.phase = "up"
  BY <1>1 DEF FairOf
<1>3. Lapse(bans.entries, bans'.entries)
  BY <1>1 DEF FairOf
<1>4. \A c \in DOMAIN players' : Exempted(players'[c], exemptions'.entries)
  BY <1>1 DEF FairOf
<1>5. \A c \in (kicked' \ kicked) \cap DOMAIN players' :
        RconBan \/ "kick" \notin players'[c].exempt
  BY <1>1 DEF FairOf
<1> QED
  BY <1>2, <1>3, <1>4, <1>5 DEF StepFair, Lapse

\* Neither bans nor players change, but exemptions may be added or end.
LEMMA WeakenedExempted ==
  ASSUME NEW es \in Seq(Entry(Exemption)), NEW fs \in Seq(Entry(Exemption)),
         \A i \in DOMAIN es : i \in DOMAIN fs /\ (fs[i] = es[i] \/ ~fs[i].active),
         NEW p \in Player, Exempted(p, es)
  PROVE  Exempted(p, fs)
<1>1. /\ Len(es) \in Nat /\ Len(fs) \in Nat
      /\ DOMAIN es = 1 .. Len(es) /\ DOMAIN fs = 1 .. Len(fs)
  OBVIOUS
<1>2. Len(es) <= Len(fs)
  <2>1. CASE Len(es) = 0
    BY <1>1, <2>1
  <2>2. CASE Len(es) # 0
    <3>1. Len(es) \in DOMAIN es
      BY <1>1, <2>2
    <3>2. Len(es) \in DOMAIN fs
      BY <3>1
    <3> QED
      BY <1>1, <3>2
  <2> QED
    BY <2>1, <2>2
<1>3. p.exemptionsSeen \in Nat /\ p.exemptionsSeen <= Len(es)
  BY ModerationAssumption DEF Player, Exempted
<1>4. p.exemptionsSeen <= Len(fs)
  BY <1>1, <1>2, <1>3
<1>5. \A i \in 1 .. p.exemptionsSeen : i \in DOMAIN es
  BY <1>1, <1>3
<1> QED
  BY <1>4, <1>5 DEF Exempted

\* banCheck after whatever else a handler does.
LEMMA FairCheck ==
  ASSUME NEW s, Good(s), NEW cs \in SUBSET DOMAIN s.players,
         Extends(bans.entries, s.bans.entries),
         \A c \in DOMAIN s.players : Exempted(s.players[c], s.exemptions.entries),
         \A c \in s.kicked \ kicked : RconBan \/ "kick" \notin s.players[c].exempt
  PROVE  FairOf(BanCheck(s, cs))
<1>1. PICK r : r = BanCheck(s, cs)
  OBVIOUS
<1>2. /\ Lapse(s.bans.entries, r.bans.entries)
      /\ DOMAIN r.players = DOMAIN s.players /\ r.exemptions = s.exemptions
      /\ \A c \in DOMAIN s.players : SameTo(s.players[c], r.players[c])
      /\ \A c \in r.kicked \ s.kicked : c \in DOMAIN s.players /\ r.players[c].exempt = {}
  BY <1>1, BanCheckSpares
<1>3. r.bans.phase = "up"
  BY <1>1, BanCheckGood DEF Good
<1>4. Lapse(bans.entries, r.bans.entries)
  BY <1>2, ExtendedLapse
<1>5. \A c \in DOMAIN r.players : Exempted(r.players[c], r.exemptions.entries)
  BY <1>2, SameExempted
<1>6. ASSUME NEW c \in r.kicked \ kicked
      PROVE  RconBan \/ "kick" \notin r.players[c].exempt
  <2>1. CASE c \in s.kicked
    <3>1. c \in DOMAIN s.players
      BY <2>1 DEF Good
    <3> QED
      BY <1>2, <1>6, <2>1, <3>1 DEF SameTo
  <2>2. CASE c \notin s.kicked
    BY <1>2, <1>6, <2>2
  <2> QED
    BY <2>1, <2>2
<1> QED
  BY <1>1, <1>3, <1>4, <1>5, <1>6 DEF FairOf

\* A player is checked against exemptions and bans.
LEMMA CheckedFair ==
  ASSUME IInv, BansAreEnforced, ExemptionsHeld, Up,
         NEW c \in Clients, NEW names \in SUBSET Identifiers,
         Become(BanCheck(ExemptionCheck(Knowing(c, names), c), {c}))
  PROVE  StepFair
<1>1. PICK s1 : s1 = Knowing(c, names)
  OBVIOUS
<1>2. PICK s2 : s2 = ExemptionCheck(s1, c)
  OBVIOUS
<1>3. /\ Good(s1) /\ DOMAIN s1.players = DOMAIN players \cup {c}
      /\ s1.bans = bans /\ s1.exemptions = exemptions
  BY <1>1, KnowingGood
<1>4. /\ s1.kicked = kicked
      /\ \A o \in DOMAIN players : o # c => s1.players[o] = players[o]
  BY <1>1, KnowingSpares
<1>5. c \in DOMAIN s1.players
  BY <1>3
<1>6. /\ s2.bans = s1.bans /\ s2.kicked = s1.kicked /\ DOMAIN s2.players = DOMAIN s1.players
      /\ Exempted(s2.players[c], s2.exemptions.entries)
      /\ \A o \in DOMAIN s1.players : o # c => /\ s2.players[o] = s1.players[o]
                                               /\ Exempted(s1.players[o], s1.exemptions.entries)
                                                    => Exempted(s2.players[o], s2.exemptions.entries)
  BY <1>2, <1>3, <1>5, ExemptionCheckExempts
<1>7. Good(s2)
  BY <1>2, <1>3, <1>5, ExemptionCheckGood
<1>8. \A o \in DOMAIN s2.players : Exempted(s2.players[o], s2.exemptions.entries)
  BY <1>3, <1>4, <1>6 DEF ExemptionsHeld
<1>9. Extends(bans.entries, s2.bans.entries)
  BY <1>3, <1>6 DEF Extends
<1>10. \A o \in s2.kicked \ kicked : RconBan \/ "kick" \notin s2.players[o].exempt
  BY <1>4, <1>6
<1>11. {c} \in SUBSET DOMAIN s2.players
  BY <1>5, <1>6
<1>12. FairOf(BanCheck(s2, {c}))
  BY <1>7, <1>8, <1>9, <1>10, <1>11, FairCheck
<1> QED
  BY <1>1, <1>2, <1>12, FairStep

\* A hardware id or a host name is learnt, which no exemption names.
LEMMA ToldFair ==
  ASSUME IInv, BansAreEnforced, ExemptionsHeld, NEW c \in DOMAIN players,
         NEW names \in SUBSET Identifiers, names \cap Early = {}, Told(c, names)
  PROVE  StepFair
<1>1. PICK s : s = Knowing(c, names)
  OBVIOUS
<1>2. Up /\ c \in Clients
  BY DEF Told, IInv, TypeOK
<1>3. /\ Good(s) /\ DOMAIN s.players = DOMAIN players \cup {c}
      /\ s.bans = bans /\ s.exemptions = exemptions
  BY <1>1, <1>2, KnowingGood
<1>4. /\ s.kicked = kicked
      /\ \A o \in DOMAIN players : o # c => s.players[o] = players[o]
      /\ s.players[c].known = players[c].known \cup names
      /\ s.players[c].exempt = players[c].exempt
      /\ s.players[c].exemptionsSeen = players[c].exemptionsSeen
  BY <1>1, <1>2, KnowingSpares
<1>5. Exempted(s.players[c], exemptions.entries)
  <2>1. Exempted(players[c], exemptions.entries)
    BY DEF ExemptionsHeld
  <2>2. ASSUME NEW i \in 1 .. players[c].exemptionsSeen, Names(exemptions.entries[i], s.players[c])
        PROVE  Names(exemptions.entries[i], players[c])
    <3>1. i \in DOMAIN exemptions.entries
      <4>1. /\ DOMAIN s.exemptions.entries = 1 .. Len(s.exemptions.entries)
            /\ Len(s.exemptions.entries) \in Nat
        BY <1>3, GoodParts
      <4>2. players[c] \in Player
        BY DEF IInv, TypeOK
      <4>3. players[c].exemptionsSeen \in Nat
        BY <4>2, ModerationAssumption DEF Player
      <4>4. players[c].exemptionsSeen <= Len(exemptions.entries)
        BY <2>1 DEF Exempted
      <4> QED
        BY <1>3, <4>1, <4>3, <4>4
    <3>2. exemptions.entries[i] \in Entry(Exemption)
      BY <1>3, <3>1, GoodEntries
    <3>3. exemptions.entries[i].data.names \in SUBSET Early
      BY <3>2 DEF Entry, Exemption
    <3> QED
      BY <1>4, <2>2, <3>3 DEF Names
  <2> QED
    BY <1>4, <2>1, <2>2 DEF Exempted
<1>6. \A o \in DOMAIN s.players : Exempted(s.players[o], s.exemptions.entries)
  BY <1>3, <1>4, <1>5 DEF ExemptionsHeld
<1>7. Extends(bans.entries, s.bans.entries)
  BY <1>3 DEF Extends
<1>8. \A o \in s.kicked \ kicked : RconBan \/ "kick" \notin s.players[o].exempt
  BY <1>4
<1>9. {c} \in SUBSET DOMAIN s.players
  BY <1>3
<1>10. FairOf(BanCheck(s, {c}))
  BY <1>3, <1>6, <1>7, <1>8, <1>9, FairCheck
<1>11. Become(BanCheck(s, {c}))
  BY <1>1 DEF Told
<1> QED
  BY <1>10, <1>11, FairStep

----------------------------------------------------------------------------
(***************************************************************************)
(* The same, of commands, the clock and the bot itself                     *)
(***************************************************************************)

\* Between two steps everything is as the last one left it.
LEMMA FairState ==
  ASSUME IInv, BansAreEnforced, ExemptionsHeld, Up
  PROVE  /\ Good(State) /\ State.bans = bans /\ State.exemptions = exemptions
         /\ State.players = players /\ State.kicked = kicked
         /\ Extends(bans.entries, State.bans.entries) /\ Lapse(bans.entries, bans.entries)
         /\ \A c \in DOMAIN State.players : Exempted(State.players[c], State.exemptions.entries)
BY GoodState DEF Extends, Lapse, ExemptionsHeld

\* A player is banned for good, and everybody is checked.
LEMMA KickBanFair ==
  ASSUME IInv, BansAreEnforced, ExemptionsHeld, NEW c \in DOMAIN players, KickBan(c)
  PROVE  StepFair
<1>1. PICK s : s = BanPlayer(State, c, Permanent)
  OBVIOUS
<1>2. CanAdd /\ Up /\ Become(BanCheck(s, DOMAIN players))
  BY <1>1 DEF KickBan, CanAdd
<1>3. /\ Good(State) /\ Lengths(State) < MaxEntries /\ Permanent \in 0 .. MaxNow
      /\ State.bans = bans /\ State.exemptions = exemptions /\ State.players = players
      /\ State.kicked = kicked
  BY <1>2, RoomToAdd
<1>4. Good(s) /\ s.players = players /\ s.exemptions = exemptions
  BY <1>1, <1>3, BanPlayerGood
<1>5. /\ Extends(bans.entries, s.bans.entries)
      /\ \A o \in s.kicked \ kicked : RconBan \/ "kick" \notin s.players[o].exempt
  BY <1>1, <1>3, <1>4, BanPlayerSpares
<1>6. \A o \in DOMAIN s.players : Exempted(s.players[o], s.exemptions.entries)
  BY <1>4 DEF ExemptionsHeld
<1>7. DOMAIN players \in SUBSET DOMAIN s.players
  BY <1>4
<1>8. FairOf(BanCheck(s, DOMAIN players))
  BY <1>4, <1>5, <1>6, <1>7, FairCheck
<1> QED
  BY <1>2, <1>8, FairStep

\* A player is banned for a time.
LEMMA TempBanFair ==
  ASSUME IInv, BansAreEnforced, ExemptionsHeld, NEW c \in DOMAIN players, TempBan(c)
  PROVE  StepFair
<1>1. PICK s : s = BanPlayer(State, c, now)
  OBVIOUS
<1>2. CanAdd /\ Up /\ Become(s)
  BY <1>1 DEF TempBan, CanAddForNow, CanAdd
<1>3. /\ Good(State) /\ Lengths(State) < MaxEntries /\ now \in 0 .. MaxNow
      /\ State.bans = bans /\ State.exemptions = exemptions /\ State.players = players
      /\ State.kicked = kicked
  BY <1>2, RoomToAdd
<1>4. Good(s) /\ s.players = players /\ s.exemptions = exemptions
  BY <1>1, <1>3, BanPlayerGood
<1>5. /\ Extends(bans.entries, s.bans.entries)
      /\ \A o \in s.kicked \ kicked : RconBan \/ "kick" \notin s.players[o].exempt
  BY <1>1, <1>3, <1>4, BanPlayerSpares
<1>6. \A o \in DOMAIN s.players : Exempted(s.players[o], s.exemptions.entries)
  BY <1>4 DEF ExemptionsHeld
<1>7. FairOf(s)
  BY <1>4, <1>5, <1>6 DEF FairOf, Good, Extends, Lapse
<1> QED
  BY <1>2, <1>7, FairStep

\* A ban is given by what it names, and everybody is checked.
LEMMA AddBanFair ==
  ASSUME IInv, BansAreEnforced, ExemptionsHeld,
         NEW names \in AddBanNames, NEW type \in AddBanTypes,
         NEW until \in {Permanent, now}, AddBan(names, type, until)
  PROVE  StepFair
<1>1. PICK s : s = WithBan(State, names, type, until)
  OBVIOUS
<1>2. CanAdd /\ Up /\ Become(BanCheck(s, DOMAIN players))
  BY <1>1 DEF AddBan, CanAdd
<1>3. /\ Good(State) /\ Lengths(State) < MaxEntries /\ until \in 0 .. MaxNow
      /\ State.bans = bans /\ State.exemptions = exemptions /\ State.players = players
      /\ State.kicked = kicked
  BY <1>2, RoomToAdd
<1>4. names \in SUBSET Identifiers /\ type \in {"game", "chat"}
  BY ModerationAssumption
<1>5. Good(s) /\ s.players = players /\ s.exemptions = exemptions
  BY <1>1, <1>3, <1>4, WithBanGood
<1>6. Extends(bans.entries, s.bans.entries) /\ s.kicked = kicked
  BY <1>1, <1>3, <1>4, WithBanExtends
<1>7. \A o \in DOMAIN s.players : Exempted(s.players[o], s.exemptions.entries)
  BY <1>5 DEF ExemptionsHeld
<1>8. DOMAIN players \in SUBSET DOMAIN s.players
  BY <1>5
<1>9. \A o \in s.kicked \ kicked : RconBan \/ "kick" \notin s.players[o].exempt
  BY <1>6
<1>10. FairOf(BanCheck(s, DOMAIN players))
  BY <1>5, <1>6, <1>7, <1>8, <1>9, FairCheck
<1> QED
  BY <1>2, <1>10, FairStep

\* A chat ban kicks nobody.
LEMMA ChatBanFair ==
  ASSUME IInv, BansAreEnforced, ExemptionsHeld, CanAdd, NEW c \in DOMAIN players
  PROVE  FairOf(WithBanOf(State, c, "chat", now))
<1>1. PICK names : names = players[c].known \ HostNames
  OBVIOUS
<1>2. /\ Good(State) /\ Lengths(State) < MaxEntries /\ now \in 0 .. MaxNow
      /\ State.bans = bans /\ State.exemptions = exemptions /\ State.players = players
      /\ State.kicked = kicked
  BY RoomToAdd
<1>3. names \in SUBSET Identifiers
  <2>1. players[c] \in Player
    BY DEF IInv, TypeOK
  <2>2. players[c].known \in SUBSET Identifiers
    BY <2>1 DEF Player
  <2> QED
    BY <1>1, <2>2
<1>4. PICK s : s = WithBan(State, names, "chat", now)
  OBVIOUS
<1>5. WithBanOf(State, c, "chat", now) = s
  BY <1>1, <1>2, <1>4 DEF WithBanOf
<1>6. Good(s) /\ s.players = players /\ s.exemptions = exemptions
  BY <1>2, <1>3, <1>4, WithBanGood
<1>7. Extends(bans.entries, s.bans.entries) /\ s.kicked = kicked
  <2>1. PICK type \in {"game", "chat"} : type = "chat"
    OBVIOUS
  <2>2. s = WithBan(State, names, type, now)
    BY <1>4, <2>1
  <2>3. Extends(State.bans.entries, s.bans.entries) /\ s.kicked = State.kicked
    BY ONLY <1>2, <1>3, <2>1, <2>2, WithBanExtends
  <2> QED
    BY <1>2, <2>3
<1>8. Lapse(bans.entries, s.bans.entries)
  BY <1>7 DEF Extends, Lapse
<1>9. \A o \in DOMAIN s.players : Exempted(s.players[o], s.exemptions.entries)
  BY <1>6 DEF ExemptionsHeld
<1>10. s.bans.phase = "up"
  BY <1>6 DEF Good
<1> QED
  BY <1>5, <1>7, <1>8, <1>9, <1>10 DEF FairOf

\* A chat ban, given on IRC.
LEMMA TempChatBanIRCFair ==
  ASSUME IInv, BansAreEnforced, ExemptionsHeld, NEW c \in DOMAIN players, TempChatBanIRC(c)
  PROVE  StepFair
BY ChatBanFair, FairStep DEF TempChatBanIRC, CanAddForNow

\* A chat ban, given in the game.
LEMMA TempChatBanGameFair ==
  ASSUME IInv, BansAreEnforced, ExemptionsHeld, NEW c \in DOMAIN players, TempChatBanGame(c)
  PROVE  StepFair
<1>1. PICK s : s = WithBanOf(State, c, "chat", now)
  OBVIOUS
<1>2. CanAdd /\ Become([s EXCEPT !.muted = @ \cup {c}])
  BY <1>1 DEF TempChatBanGame, CanAddForNow
<1>3. FairOf(s) /\ Good(s)
  BY <1>1, <1>2, ChatBanFair, ChatBanGood
<1>4. PICK r : r = [s EXCEPT !.muted = @ \cup {c}]
  OBVIOUS
<1>5. /\ r.bans = s.bans /\ r.exemptions = s.exemptions /\ r.players = s.players
      /\ r.kicked = s.kicked
  BY <1>3, <1>4 DEF Good, States
<1>6. FairOf(r)
  BY <1>3, <1>5 DEF FairOf
<1> QED
  BY <1>2, <1>4, <1>6, FairStep

\* A ban is lifted.
LEMMA UnBanFair ==
  ASSUME IInv, ExemptionsHeld, NEW i \in DOMAIN bans.entries, UnBan(i)
  PROVE  StepFair
<1>1. /\ Up /\ bans' = Deactivated(bans, {i})
      /\ UNCHANGED <<exemptions, players, kicked, muted, now>>
  BY DEF UnBan
<1>2. bans \in Database(Ban) /\ Sound(Ban, bans) /\ bans.phase = "up"
  BY <1>1 DEF IInv, TypeOK, Up, Sound
<1>3. PICK fs : fs = Deactivated(bans, {i}).entries
  OBVIOUS
<1>4. \A j \in DOMAIN bans.entries : \/ (j \in {i} /\ ~fs[j].active)
                                     \/ (j \notin {i} /\ fs[j] = bans.entries[j])
  BY <1>2, <1>3, DeactivatedEntries
<1>5. bans'.entries = fs
  BY <1>1, <1>3
<1>6. bans'.phase = "up"
  <2>1. {i} \in SUBSET DOMAIN bans.entries
    OBVIOUS
  <2> QED
    BY <1>1, <1>2, <2>1, DeactivatedSound
<1>7. ASSUME NEW j \in DOMAIN bans.entries, bans.entries[j].active, ~bans'.entries[j].active
      PROVE  UnBan(j)
  <2>1. j = i
    BY <1>4, <1>5, <1>7
  <2> QED
    BY <2>1
<1>8. \A c \in DOMAIN players' : Exempted(players'[c], exemptions'.entries)
  BY <1>1 DEF ExemptionsHeld
<1> QED
  BY <1>1, <1>6, <1>7, <1>8 DEF StepFair

\* The bans do not change, and the players are not more than before.
LEMMA BansAloneFair ==
  ASSUME Idle, UNCHANGED bans, kicked' \subseteq kicked,
         \A c \in DOMAIN players' : Exempted(players'[c], exemptions'.entries)
  PROVE  StepFair
BY DEF StepFair, Idle

\* Exemptions are added or lifted.
LEMMA ExemptionsFair ==
  ASSUME IInv, ExemptionsHeld, Idle, NEW x, Sound(Exemption, x), exemptions' = x,
         \A i \in DOMAIN exemptions.entries :
           i \in DOMAIN x.entries /\ (x.entries[i] = exemptions.entries[i] \/ ~x.entries[i].active),
         UNCHANGED <<bans, players, kicked, muted, now>>
  PROVE  StepFair
<1>1. PICK es, fs : es = exemptions.entries /\ fs = x.entries
  OBVIOUS
<1>2. es \in Seq(Entry(Exemption)) /\ fs \in Seq(Entry(Exemption))
  BY <1>1 DEF IInv, TypeOK, Sound, Database
<1>3. \A i \in DOMAIN es : i \in DOMAIN fs /\ (fs[i] = es[i] \/ ~fs[i].active)
  BY <1>1
<1>4. \A c \in DOMAIN players : players[c] \in Player /\ Exempted(players[c], es)
  BY <1>1 DEF IInv, TypeOK, ExemptionsHeld
<1>5. \A c \in DOMAIN players : Exempted(players[c], fs)
  BY <1>2, <1>3, <1>4, WeakenedExempted
<1> QED
  BY <1>1, <1>5, BansAloneFair

\* An exemption is added.
LEMMA AddedFair ==
  ASSUME IInv, ExemptionsHeld, Idle, Up, NEW data \in Exemption,
         exemptions' = Added(exemptions, data), UNCHANGED <<bans, players, kicked, muted, now>>
  PROVE  StepFair
<1>1. PICK x : x = Added(exemptions, data)
  OBVIOUS
<1>2. Sound(Exemption, exemptions) /\ exemptions.phase = "up"
  BY DEF IInv, TypeOK, Up, Sound
<1>3. /\ Sound(Exemption, x) /\ Len(x.entries) = Len(exemptions.entries) + 1
      /\ \A i \in 1 .. Len(exemptions.entries) : x.entries[i] = exemptions.entries[i]
  BY <1>1, <1>2, AddedSound
<1>4. /\ DOMAIN exemptions.entries = 1 .. Len(exemptions.entries) /\ Len(exemptions.entries) \in Nat
      /\ DOMAIN x.entries = 1 .. Len(x.entries)
  BY <1>2, <1>3 DEF Sound, Database
<1>5. \A i \in DOMAIN exemptions.entries : i \in DOMAIN x.entries /\ x.entries[i] = exemptions.entries[i]
  BY <1>3, <1>4
<1> QED
  BY <1>1, <1>3, <1>5, ExemptionsFair

\* A player is exempt from now on.
LEMMA ExemptPlayerFair ==
  ASSUME IInv, ExemptionsHeld, Idle, NEW c \in DOMAIN players,
         NEW types \in {{"ban"}, {"ban", "kick"}}, ExemptPlayer(c, types)
  PROVE  StepFair
<1> DEFINE names == players[c].known \cap Early
           data == [names |-> names, types |-> types, until |-> Permanent,
                    byAddress |-> names \cap SteamIDs = {}]
<1>1. /\ CanAdd /\ exemptions' = Added(exemptions, data)
      /\ UNCHANGED <<bans, players, kicked, muted, now>>
  BY DEF ExemptPlayer
<1>2. data \in Exemption
  BY ModerationAssumption DEF Exemption, Permanent
<1> HIDE DEF data
<1>3. Up
  BY <1>1 DEF CanAdd
<1> QED
  BY <1>1, <1>2, <1>3, AddedFair

\* The same, by what an exemption names.
LEMMA AddExemptionFair ==
  ASSUME IInv, ExemptionsHeld, Idle, NEW names \in AddExemptionNames,
         NEW types \in (SUBSET {"ban", "kick"}) \ {{}}, AddExemption(names, types)
  PROVE  StepFair
<1> DEFINE data == [names |-> names, types |-> types, until |-> Permanent,
                    byAddress |-> names \cap Addresses # {}]
<1>1. /\ CanAdd /\ exemptions' = Added(exemptions, data)
      /\ UNCHANGED <<bans, players, kicked, muted, now>>
  BY DEF AddExemption
<1>2. data \in Exemption
  BY ModerationAssumption DEF Exemption, Permanent
<1> HIDE DEF data
<1>3. Up
  BY <1>1 DEF CanAdd
<1> QED
  BY <1>1, <1>2, <1>3, AddedFair

\* An exemption is lifted.
LEMMA UnExemptFair ==
  ASSUME IInv, ExemptionsHeld, Idle, NEW i \in DOMAIN exemptions.entries, UnExempt(i)
  PROVE  StepFair
<1>1. PICK x : x = Deactivated(exemptions, {i})
  OBVIOUS
<1>2. Up /\ exemptions' = x /\ UNCHANGED <<bans, players, kicked, muted, now>>
  BY <1>1 DEF UnExempt
<1>3. /\ Sound(Exemption, exemptions) /\ exemptions \in Database(Exemption)
      /\ exemptions.phase = "up" /\ {i} \in SUBSET DOMAIN exemptions.entries
  BY <1>2 DEF IInv, TypeOK, Up, Sound
<1>4. Sound(Exemption, x)
  BY <1>1, <1>3, DeactivatedSound
<1>5. PICK fs : fs = Deactivated(exemptions, {i}).entries
  OBVIOUS
<1>6. /\ DOMAIN fs = DOMAIN exemptions.entries
      /\ \A j \in DOMAIN exemptions.entries : \/ (j \in {i} /\ ~fs[j].active)
                                             \/ (j \notin {i} /\ fs[j] = exemptions.entries[j])
  BY <1>3, <1>5, DeactivatedEntries
<1>7. fs = x.entries
  BY <1>1, <1>5
<1>8. \A j \in DOMAIN exemptions.entries :
        j \in DOMAIN x.entries /\ (x.entries[j] = exemptions.entries[j] \/ ~x.entries[j].active)
  BY <1>6, <1>7
<1> QED
  BY <1>2, <1>4, <1>8, ExemptionsFair

\* A player leaves.
LEMMA LeavesFair ==
  ASSUME ExemptionsHeld, Idle, NEW c \in DOMAIN players, Leaves(c)
  PROVE  StepFair
<1>1. /\ players' = [o \in DOMAIN players \ {c} |-> players[o]]
      /\ kicked' = kicked \ {c} /\ UNCHANGED <<bans, exemptions>>
  BY DEF Leaves
<1>2. \A o \in DOMAIN players' : o \in DOMAIN players /\ players'[o] = players[o]
  BY <1>1
<1>3. \A o \in DOMAIN players' : Exempted(players'[o], exemptions'.entries)
  BY <1>1, <1>2 DEF ExemptionsHeld
<1> QED
  BY <1>1, <1>3, BansAloneFair

\* The bot starts: bans that are read, or written again, are as active as before.
LEMMA StartsFair ==
  ASSUME IInv, Idle, Starts
  PROVE  StepFair
<1>1. ~Up /\ UNCHANGED <<players, kicked, muted, now>>
  BY DEF Starts, Up
<1>2. DOMAIN players' = {}
  BY <1>1 DEF IInv
<1>3. bans \in Database(Ban)
  BY DEF IInv, TypeOK
<1>4. ASSUME bans.phase = "down", bans' = Initialized(bans)
      PROVE  DOMAIN bans.entries = {} /\ bans'.phase # "down"
  <2>1. bans.entries = << >>
    BY <1>4 DEF Idle
  <2>2. bans'.phase \in {"up", "upgrading"}
    BY <1>3, <1>4 DEF Initialized, Database
  <2> QED
    BY <2>1, <2>2
<1>5. ASSUME bans.phase = "upgrading", bans' = Rewritten(bans)
      PROVE  /\ bans'.phase # "down"
             /\ \A i \in DOMAIN bans.entries : bans'.entries[i].active <=> bans.entries[i].active
  <2> DEFINE n == bans.eof + 1
  <2>1. CASE n > Len(bans.entries)
    <3>1. bans' = [bans EXCEPT !.phase = "up"]
      BY <1>5, <2>1 DEF Rewritten
    <3>2. bans'.phase = "up" /\ bans'.entries = bans.entries
      BY <1>3, <3>1 DEF Database
    <3> QED
      BY <3>2
  <2>2. CASE ~(n > Len(bans.entries))
    <3>1. bans' = [bans EXCEPT !.entries[n].pos = n,
                               !.records = Append(@, RecordOf(bans.entries[n])), !.eof = n]
      BY <1>5, <2>2 DEF Rewritten
    <3> HIDE DEF n
    <3>2. bans'.phase = bans.phase /\ bans'.entries = [bans.entries EXCEPT ![n].pos = n]
      BY <1>3, <3>1 DEF Database
    <3>3. \A i \in DOMAIN bans.entries : bans.entries[i] \in Entry(Ban)
      BY <1>3 DEF Database
    <3>4. \A i \in DOMAIN bans.entries : bans'.entries[i].active = bans.entries[i].active
      BY <3>2, <3>3 DEF Entry
    <3> QED
      BY <1>5, <3>2, <3>4
  <2> QED
    BY <2>1, <2>2
<1>6. CASE bans.phase = "down" /\ bans' = Initialized(bans)
  BY <1>1, <1>2, <1>4, <1>6 DEF StepFair
<1>7. CASE bans.phase = "upgrading" /\ bans' = Rewritten(bans)
  BY <1>1, <1>2, <1>5, <1>7 DEF StepFair
<1>8. CASE bans.phase = "up" /\ UNCHANGED bans
  BY <1>1, <1>2, <1>8 DEF StepFair
<1> QED
  BY <1>6, <1>7, <1>8 DEF Starts

\* The bot stops, and nothing is left in memory.
LEMMA StopsFair ==
  ASSUME Stops
  PROVE  StepFair
<1>1. bans' = Stopped(bans) /\ players' = << >> /\ kicked' = {}
  BY DEF Stops
<1>2. bans'.entries = << >>
  BY <1>1 DEF Stopped, Closed
<1>3. DOMAIN players' = {} /\ DOMAIN bans'.entries = {}
  BY <1>1, <1>2
<1> QED
  BY <1>1, <1>2, <1>3 DEF StepFair

\* The connection is lost.
LEMMA DisconnectedFair ==
  ASSUME Idle, Disconnected
  PROVE  StepFair
<1>1. players' = << >> /\ kicked' = {} /\ UNCHANGED <<bans, exemptions>>
  BY DEF Disconnected
<1>2. DOMAIN players' = {}
  BY <1>1
<1> QED
  BY <1>1, <1>2, BansAloneFair

----------------------------------------------------------------------------
(***************************************************************************)
(* How bans end, and whom kicks spare                                      *)
(***************************************************************************)

\* A step that touches neither bans, exemptions nor players.
LEMMA AloneFair ==
  ASSUME ExemptionsHeld, Idle, UNCHANGED <<bans, exemptions, players, kicked>>
  PROVE  StepFair
BY BansAloneFair DEF ExemptionsHeld

\* Every step.
LEMMA NextFair ==
  IInv /\ BansAreEnforced /\ ExemptionsHeld /\ Idle /\ [Next]_vars => StepFair
<1> SUFFICES ASSUME IInv, BansAreEnforced, ExemptionsHeld, Idle, [Next]_vars PROVE StepFair
  OBVIOUS
<1>1. CASE UNCHANGED vars
  BY <1>1, AloneFair DEF vars
<1>2. ASSUME NEW c \in Clients, Listed(c) PROVE StepFair
  <2>1. PICK names \in {{}, Identity[c] \cap Early, Identity[c] \ HostNames} :
          Become(BanCheck(ExemptionCheck(Knowing(c, names), c), {c}))
    BY <1>2 DEF Listed
  <2>2. names \in SUBSET Identifiers
    BY ModerationAssumption
  <2> QED
    BY <1>2, <2>1, <2>2, CheckedFair DEF Listed
<1>3. ASSUME NEW c \in DOMAIN players,
             \/ Completed(c) \/ Leaves(c)
             \/ \E names \in {Identity[c] \cap HardwareIDs, Identity[c] \cap HostNames} :
                  Told(c, names)
             \/ KickBan(c) \/ TempBan(c) \/ TempChatBanIRC(c) \/ TempChatBanGame(c)
             \/ \E types \in {{"ban"}, {"ban", "kick"}} : ExemptPlayer(c, types)
      PROVE  StepFair
  <2>1. c \in Clients
    BY DEF IInv, TypeOK
  <2>2. CASE Completed(c)
    <3>1. Identity[c] \ HostNames \in SUBSET Identifiers
      BY <2>1, ModerationAssumption
    <3> QED
      BY <2>1, <2>2, <3>1, CheckedFair DEF Completed
  <2>3. CASE Leaves(c)
    BY <2>3, LeavesFair
  <2>4. ASSUME NEW names \in {Identity[c] \cap HardwareIDs, Identity[c] \cap HostNames},
               Told(c, names)
        PROVE  StepFair
    <3>1. names \in SUBSET Identifiers
      BY <2>1, ModerationAssumption
    <3>2. names \cap Early = {}
      BY KindsAssumption
    <3> QED
      BY <2>4, <3>1, <3>2, ToldFair
  <2>5. CASE KickBan(c)
    BY <2>5, KickBanFair
  <2>6. CASE TempBan(c)
    BY <2>6, TempBanFair
  <2>7. CASE TempChatBanIRC(c)
    BY <2>7, TempChatBanIRCFair
  <2>8. CASE TempChatBanGame(c)
    BY <2>8, TempChatBanGameFair
  <2>9. ASSUME NEW types \in {{"ban"}, {"ban", "kick"}}, ExemptPlayer(c, types)
        PROVE  StepFair
    BY <2>9, ExemptPlayerFair
  <2> QED
    BY <1>3, <2>2, <2>3, <2>4, <2>5, <2>6, <2>7, <2>8, <2>9
<1>4. ASSUME NEW names \in AddBanNames, NEW type \in AddBanTypes,
             NEW until \in {Permanent, now}, AddBan(names, type, until)
      PROVE  StepFair
  BY <1>4, AddBanFair
<1>5. ASSUME NEW names \in AddExemptionNames, NEW types \in (SUBSET {"ban", "kick"}) \ {{}},
             AddExemption(names, types)
      PROVE  StepFair
  BY <1>5, AddExemptionFair
<1>6. ASSUME NEW i \in DOMAIN bans.entries, UnBan(i) PROVE StepFair
  BY <1>6, UnBanFair
<1>7. ASSUME NEW i \in DOMAIN exemptions.entries, UnExempt(i) PROVE StepFair
  BY <1>7, UnExemptFair
<1>8. CASE Disconnected
  BY <1>8, DisconnectedFair
<1>9. CASE Tick
  BY <1>9, AloneFair DEF Tick
<1>10. CASE Starts
  BY <1>10, StartsFair
<1>11. CASE Stops
  BY <1>11, StopsFair
<1> QED
  BY <1>1, <1>2, <1>3, <1>4, <1>5, <1>6, <1>7, <1>8, <1>9, <1>10, <1>11 DEF Next

\* What is shown of bans and exemptions together is inductive.
FairInv == IInv /\ BansAreEnforced /\ ExemptionsHeld /\ Idle

\* It holds when nothing has been read yet.
LEMMA FairInvHolds == Init => FairInv
<1> SUFFICES ASSUME Init PROVE FairInv
  OBVIOUS
<1>1. DOMAIN players = {}
  BY DEF Init
<1>2. bans.entries = << >>
  BY DEF Init, Closed
<1> QED
  BY <1>1, <1>2, InitOK DEF FairInv, ExemptionsHeld, Idle

\* Every step keeps it.
LEMMA FairInvKept == FairInv /\ [Next]_vars => FairInv' /\ StepFair
<1> SUFFICES ASSUME FairInv, [Next]_vars PROVE FairInv' /\ StepFair
  OBVIOUS
<1>1. IInv' /\ BansAreEnforced'
  BY NextOK DEF FairInv, StepOK
<1>2. StepFair
  BY NextFair DEF FairInv
<1>3. ExemptionsHeld' /\ Idle'
  BY <1>2 DEF StepFair, ExemptionsHeld, Idle, Exempted, Names
<1> QED
  BY <1>1, <1>2, <1>3 DEF FairInv

\* Bans end because their time is over or an administrator lifts them, and for no
\* other reason: not by a check, a write to the file or a restart.
THEOREM BansRun == Spec => BansRunTheirTerm
<1>1. FairInv /\ [Next]_vars => FairInv'
  BY FairInvKept
<1>2. FairInv /\ [Next]_vars =>
        [\A i \in DOMAIN bans.entries \cap DOMAIN bans'.entries :
           bans.entries[i].active /\ ~bans'.entries[i].active
             => Over(bans.entries[i]) \/ UnBan(i)]_vars
  BY FairInvKept DEF StepFair
<1> QED
  BY FairInvHolds, <1>1, <1>2, PTL DEF Spec, BansRunTheirTerm

\* Nobody is kicked whom an exemption named when it was last looked up, and which
\* has not been lifted, unless the server bans over RCON.
THEOREM ExemptSpared ==
  ASSUME RconBan = FALSE
  PROVE  Spec => ExemptAreSpared
<1>1. FairInv /\ [Next]_vars => FairInv'
  BY FairInvKept
<1>2. FairInv /\ [Next]_vars =>
        [\A c \in (kicked' \ kicked) \cap DOMAIN players' :
           \A i \in 1 .. players'[c].exemptionsSeen :
             LET e == exemptions'.entries[i]
             IN  ~(e.active /\ "kick" \in e.data.types /\ Names(e, players'[c]))]_vars
  BY FairInvKept DEF StepFair, Exempted, Names
<1> QED
  BY FairInvHolds, <1>1, <1>2, PTL DEF Spec, ExemptAreSpared
=============================================================================
