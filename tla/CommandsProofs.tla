--------------------------- MODULE CommandsProofs ---------------------------
(***************************************************************************)
(* Proofs about Commands, for any servers, channels, players, levels and   *)
(* settings.  What a command may order is a property of each order by      *)
(* itself (Permitted), given who is listed: so the orders of a command are *)
(* looked at one by one, whatever servers they go to, and each action has  *)
(* to show that its orders are permitted and its answers discreet.         *)
(***************************************************************************)
EXTENDS Commands, SequenceTheorems, WellFoundedInduction, TLAPS

\* The state besides the report.  Whoever is listed plays there, once, and
\* nobody is listed on a server that is not connected: that is what makes an
\* order to somebody listed an order that is sent.
StateOK ==
  /\ players \in [Servers -> Seq(Persons)]
  /\ \A s \in Servers : /\ Range(players[s]) \subseteq Home(s)
                        /\ IsInjective(players[s])
                        /\ ~connected[s] => players[s] = <<>>
  /\ connected \in [Servers -> BOOLEAN] /\ phasing \in [Servers -> BOOLEAN]
  /\ access \in [Persons -> Nat] /\ \A p \in Persons : access[p] \in Levels[p] \cup {0}
  /\ warns \in [Persons -> 0 .. MaxWarns]

\* An order a command may lead to, given what was typed.
Permitted(cmd, text, o) ==
  /\ o[1] \in Servers /\ o[2] \in Verbs
  /\ o[3] \in Persons => o[3] \in Range(players[o[1]])
  /\ cmd \in OneTarget =>
       \A p \in Range(players[o[1]]) : Who[p].name = text => Who[o[3]].name = text
  /\ o[1] \in Competitive => /\ o[2] \notin {"kill", "disarm", "disarmc4", "disarmb", "givecredits"}
                             /\ cmd # "refund"
  /\ o[2] = "changemap" => o[3] \in Range(Rotation[o[1]])
  /\ cmd \in {"tban", "tchatban"} /\ o[2] \in {"ban", "chatban"} => o[4] \in 1 .. MaxTBan
  /\ cmd = "die" => Who[o[3]].bot /\ phasing[o[1]]

\* A report all of whose orders are permitted, and go where they should.
Proper(r) ==
  /\ \A o \in r.sent : Permitted(r.cmd, r.text, o)
  /\ r.by \notin {"nobody", "console"} =>
       \A o \in r.sent : IF r.at \in Channels THEN o[1] \in At(r.at) ELSE o[1] = r.at
  /\ r.by \in Persons /\ r.cmd \notin {"nmode", "smode", "warn", "pardon", "staff", "rules", "pamsg"} =>
       \A o \in r.sent : o[3] \in Persons =>
         access[o[3]] < access[r.by] /\ access[r.by] >= Level(r.at, r.cmd)
  /\ (\E a \in r.told : a[1] = "address") => (\E s \in Servers : IsAdmin(s, r.at)) \/ r.level > 1

IInv == StateOK /\ Proper(last)

\* What a step may not do to warnings.
Counts ==
  /\ \A a \in last'.told : a[1] = "warned" /\ warns[a[2]] = MaxWarns /\ a[2] \notin KickExempt \cup BanExempt
       => \E o \in last'.sent : o[2] \in {"kick", "ban"} /\ o[3] = a[2]
  /\ \A s \in Servers : \A p \in Range(players[s]) \cap Range(players'[s]) :
       warns'[p] < warns[p] => last'.cmd = "pardon"

\* Answers with no addresses, about no warnings.
Plain(told) == \A a \in told : a[1] \notin {"address", "warned"}

----------------------------------------------------------------------------
(***************************************************************************)
(* The invariant says what the runs check                                  *)
(***************************************************************************)

LEMMA SeqOfHome ==
  ASSUME NEW S, NEW q \in Seq(Persons), Range(q) \subseteq S
  PROVE  q \in Seq(S)
<1>1. Len(q) \in Nat /\ q = [i \in 1 .. Len(q) |-> q[i]]
  OBVIOUS
<1>2. \A i \in 1 .. Len(q) : q[i] \in S
  BY DEF Range
<1>3. q \in [1 .. Len(q) -> S]
  BY <1>1, <1>2
<1> QED  BY <1>1, <1>3

LEMMA IInvIsEnough ==
  IInv => OrdersStayHome /\ NamedExactly /\ NobodyActsUpward /\ OrdersAllowed
<1> SUFFICES ASSUME IInv PROVE OrdersStayHome /\ NamedExactly /\ NobodyActsUpward /\ OrdersAllowed
  OBVIOUS
<1>1. OrdersStayHome
  BY DEF IInv, Proper, Permitted, OrdersStayHome, At
<1>2. NamedExactly
  BY DEF IInv, Proper, Permitted, NamedExactly
<1>3. NobodyActsUpward
  BY DEF IInv, Proper, NobodyActsUpward
<1>4. TypeOK
  <2>1. \A s \in Servers : players[s] \in Seq(Home(s))
    BY SeqOfHome DEF IInv, StateOK
  <2>2. \A s \in Servers : IsInjective(players[s]) /\ connected[s] \in BOOLEAN /\ phasing[s] \in BOOLEAN
    BY DEF IInv, StateOK
  <2>3. \A p \in Persons : access[p] \in Levels[p] \cup {0} /\ warns[p] \in 0 .. MaxWarns
    BY DEF IInv, StateOK
  <2>4. \A o \in last.sent : o[1] \in Servers /\ o[2] \in Verbs
    BY DEF IInv, Proper, Permitted
  <2> QED  BY <2>1, <2>2, <2>3, <2>4 DEF TypeOK
<1>5. FairPlay /\ MapsOfTheRotation /\ BansAreTemporary /\ OnlyBotsArePhased
  BY DEF IInv, Proper, Permitted, FairPlay, MapsOfTheRotation, BansAreTemporary, OnlyBotsArePhased
<1>6. AddressesForStaff
  BY DEF IInv, Proper, AddressesForStaff
<1> QED  BY <1>1, <1>2, <1>3, <1>4, <1>5, <1>6 DEF OrdersAllowed

----------------------------------------------------------------------------
(***************************************************************************)
(* Looking players up                                                      *)
(***************************************************************************)

LEMMA Limits ==
  /\ MaxWarns \in Nat /\ DefaultTBan \in 1 .. MaxTBan /\ MaxTBan \in Nat
  /\ \A t \in Texts : Span[t] \in Nat
<1>1. MaxWarns \in Nat /\ DefaultTBan \in Nat \ {0} /\ MaxTBan \in Nat \ {0} /\ DefaultTBan <= MaxTBan
      /\ \A t \in Texts : Span[t] \in Nat
  BY Zenon, GameServersAssumption
<1> QED  BY <1>1

\* A nonempty set of positions has a first.
LEMMA FirstPosition ==
  ASSUME NEW I \in SUBSET Nat, I # {}
  PROVE  Min(I) \in I
<1> DEFINE R == OpToRel(<, Nat)
<1>1. IsWellFoundedOn(R, Nat)
  BY NatLessThanWellFounded
<1>2. \A x, y \in Nat : x < y => <<x, y>> \in R
  BY DEF OpToRel
<1> HIDE DEF R
<1>3. PICK n \in I : \A m \in I : ~(<<m, n>> \in R)
  BY <1>1, WFMin
<1>4. \A m \in I : ~(m < n)
  BY <1>2, <1>3
<1>5. \A m \in I : n =< m
  BY <1>4
<1> QED  BY <1>5 DEF Min

\* Whatever is listed, and nothing else, is at some position.
LEMMA ListedFacts ==
  ASSUME StateOK, NEW s \in Servers
  PROVE  /\ Len(players[s]) \in Nat
         /\ \A i \in 1 .. Len(players[s]) : players[s][i] \in Range(players[s])
         /\ \A p \in Range(players[s]) : \E i \in 1 .. Len(players[s]) : p = players[s][i]
         /\ Range(players[s]) \subseteq Persons
         /\ \A p \in Range(players[s]) : Who[p].server = s
<1>1. players[s] \in Seq(Persons)
  BY DEF StateOK
<1>2. Len(players[s]) \in Nat /\ DOMAIN players[s] = 1 .. Len(players[s])
  BY <1>1
<1> QED  BY <1>2 DEF StateOK, Range, Home

\* Who is found by an id is listed, and has it; one who has it is found.
LEMMA ByIdFacts ==
  ASSUME StateOK, NEW s \in Servers, NEW id
  PROVE  /\ PlayerById(s, id) \in Range(players[s]) \cup {NoOne}
         /\ PlayerById(s, id) # NoOne => Who[PlayerById(s, id)].id = id
<1> DEFINE I == {i \in 1 .. Len(players[s]) : Who[players[s][i]].id = id}
<1>1. I # {} => Min(I) \in I
  <2>1. I \in SUBSET Nat
    BY ListedFacts
  <2> QED  BY <2>1, FirstPosition
<1>2. PlayerById(s, id) = IF I # {} THEN IF Min(I) = 0 THEN NoOne ELSE players[s][Min(I)] ELSE NoOne
  BY DEF PlayerById, FirstOf, SelectInSeq
<1>3. \A i \in I : i # 0 /\ players[s][i] \in Range(players[s]) /\ Who[players[s][i]].id = id
  BY ListedFacts
<1> HIDE DEF I
<1> QED  BY <1>1, <1>2, <1>3

\* The same by name.
NamedPlayer(s, t) == FirstOf(s, LAMBDA p : Who[p].name = t)

LEMMA NamedFacts ==
  ASSUME StateOK, NEW s \in Servers, NEW t,
         NEW named, named = NamedPlayer(s, t)
  PROVE  /\ named \in Range(players[s]) \cup {NoOne}
         /\ named # NoOne => Who[named].name = t
         /\ (\E p \in Range(players[s]) : Who[p].name = t) => named # NoOne
<1> DEFINE I == {i \in 1 .. Len(players[s]) : Who[players[s][i]].name = t}
<1>1. I # {} => Min(I) \in I
  <2>1. I \in SUBSET Nat
    BY ListedFacts
  <2> QED  BY <2>1, FirstPosition
<1>2. named = IF I # {} THEN IF Min(I) = 0 THEN NoOne ELSE players[s][Min(I)] ELSE NoOne
  BY DEF NamedPlayer, FirstOf, SelectInSeq
<1>3. \A i \in I : i # 0 /\ players[s][i] \in Range(players[s]) /\ Who[players[s][i]].name = t
  BY ListedFacts
<1>4. (\E p \in Range(players[s]) : Who[p].name = t) => I # {}
  BY ListedFacts, SMTT(30), ZenonT(30)
<1>5. NoOne \notin Range(players[s])
  BY ListedFacts, GameServersAssumption
<1> HIDE DEF I
<1> QED  BY <1>1, <1>2, <1>3, <1>4, <1>5

\* The same by a part of the name.
LEMMA PartFacts ==
  ASSUME StateOK, NEW s \in Servers, NEW t
  PROVE  PlayerByPartNameFast(s, t) \in Range(players[s]) \cup {NoOne}
<1> DEFINE I == {i \in 1 .. Len(players[s]) : Who[players[s][i]].name \in PartOf[t]}
<1>1. I # {} => Min(I) \in I
  <2>1. I \in SUBSET Nat
    BY ListedFacts
  <2> QED  BY <2>1, FirstPosition
<1>2. PlayerByPartNameFast(s, t) = IF I # {} THEN IF Min(I) = 0 THEN NoOne ELSE players[s][Min(I)] ELSE NoOne
  BY DEF PlayerByPartNameFast, FirstOf, SelectInSeq
<1>3. \A i \in I : players[s][i] \in Range(players[s])
  BY ListedFacts
<1> HIDE DEF I
<1> QED  BY <1>1, <1>2, <1>3

\* Whoever is found is listed on the server; and if somebody listed has the
\* very name that was typed, who is found has it.
LEMMA LookUpFacts ==
  ASSUME StateOK, NEW s \in Servers, NEW t,
         NEW p, p = PlayerByPartName(s, t), p # NoOne
  PROVE  /\ p \in Range(players[s]) /\ p \in Persons
         /\ \A q \in Range(players[s]) : Who[q].name = t => Who[p].name = t
<1> DEFINE named == NamedPlayer(s, t)
<1>1. /\ named \in Range(players[s]) \cup {NoOne}
      /\ named # NoOne => Who[named].name = t
      /\ (\E q \in Range(players[s]) : Who[q].name = t) => named # NoOne
  BY NamedFacts
<1>2. PlayerByName(s, t) = IF named = NoOne /\ IdIn[t] # 0 THEN PlayerById(s, IdIn[t]) ELSE named
  BY Zenon DEF PlayerByName, NamedPlayer
<1> HIDE DEF named
<1>3. p \in Range(players[s])
  BY <1>1, <1>2, ByIdFacts, PartFacts DEF PlayerByPartName
<1>4. \A q \in Range(players[s]) : Who[q].name = t => Who[p].name = t
  BY <1>1, <1>2 DEF PlayerByPartName
<1> QED  BY <1>3, <1>4, ListedFacts

----------------------------------------------------------------------------
(***************************************************************************)
(* Orders                                                                  *)
(***************************************************************************)

\* An order about nobody.
LEMMA OrderToNobody ==
  ASSUME StateOK, NEW s \in Servers, NEW cmd, NEW text, cmd \notin OneTarget \cup {"die"},
         NEW verb \in {"say", "amsg", "raw", "killbots", "addbots", "addredbots", "addbluebots"},
         NEW o \in To(s, verb, NoOne)
  PROVE  o[1] = s /\ o[3] \notin Persons /\ Permitted(cmd, text, o)
<1>1. o = <<s, verb, NoOne, 0>>
  BY DEF To, Send
<1>2. verb \in Verbs /\ verb \notin {"kill", "disarm", "disarmc4", "disarmb", "givecredits", "changemap"}
  BY DEF Verbs
<1>3. cmd \notin {"refund", "tban", "tchatban", "die"}
  BY DEF OneTarget
<1> QED  BY <1>1, <1>2, <1>3, GameServersAssumption DEF Permitted

\* What is said to all is said to nobody, or to whoever is listed.
LEMMA OrderToSay ==
  ASSUME StateOK, NEW s \in Servers, NEW cmd, NEW text, cmd \notin OneTarget \cup {"die"},
         NEW o \in Say(s)
  PROVE  o[1] = s /\ Permitted(cmd, text, o)
<1>1. CASE s \in NeverSay
  <2>1. PICK p \in Humans(s) : o \in To(s, "privatesay", p)
    BY <1>1 DEF Say
  <2>2. o = <<s, "privatesay", p, 0>> /\ p \in Range(players[s])
    BY <2>1 DEF To, Send, Humans
  <2>3. cmd \notin {"refund", "tban", "tchatban", "die"} /\ "privatesay" \in Verbs
    BY DEF OneTarget, Verbs
  <2> QED  BY <2>2, <2>3 DEF Permitted
<1>2. CASE s \notin NeverSay
  BY <1>2, OrderToNobody DEF Say
<1> QED  BY <1>1, <1>2

\* An order about who was found.
LEMMA OrderToFound ==
  ASSUME StateOK, NEW s \in Servers, NEW t, NEW cmd, cmd # "die",
         NEW p, p = PlayerByPartName(s, t), p # NoOne,
         NEW o, o[1] = s, o[2] \in Verbs \ {"changemap"}, o[3] = p,
         s \in Competitive => /\ o[2] \notin {"kill", "disarm", "disarmc4", "disarmb", "givecredits"}
                              /\ cmd # "refund",
         cmd \in {"tban", "tchatban"} /\ o[2] \in {"ban", "chatban"} => o[4] \in 1 .. MaxTBan
  PROVE  Permitted(cmd, t, o)
<1>1. /\ p \in Range(players[s]) /\ p \in Persons
      /\ \A q \in Range(players[s]) : Who[q].name = t => Who[p].name = t
  BY LookUpFacts
<1> QED  BY <1>1 DEF Permitted

----------------------------------------------------------------------------
(***************************************************************************)
(* What a command has to show                                              *)
(***************************************************************************)

LEMMA ReportFacts ==
  ASSUME NEW by, NEW level, NEW at, NEW cmd, NEW text, NEW sent, NEW told,
         NEW r, r = Report(by, level, at, cmd, text, sent, told)
  PROVE  /\ r.by = by /\ r.level = level /\ r.at = at /\ r.cmd = cmd
         /\ r.text = text /\ r.sent = sent /\ r.told = told
<1> QED  BY DEF Report

LEMMA SayFacts ==
  ASSUME NEW what \in {"disabled", "denied"}, NEW whom
  PROVE  \A a \in {<<what, whom>>} : a[1] \notin {"address", "warned"}
<1> QED  OBVIOUS

\* Nobody else's level is looked at in a channel: users are not players.
LEMMA IRCProper ==
  ASSUME StateOK, NEW u \in Users, NEW c \in Channels, NEW cmd, cmd # "die",
         NEW default, NEW text, NEW sent, NEW told,
         IRC(u, c, cmd, default, text, sent, told),
         players' = players, access' = access,
         \A o \in sent : o[1] \in At(c) /\ Permitted(cmd, text, o),
         (\E a \in told : a[1] = "address") => (\E s \in Servers : IsAdmin(s, c)) \/ UserAccess[u] > 1
  PROVE  Proper(last)'
<1>0. PICK r : r = last'
  OBVIOUS
<1>1. /\ r.by = u /\ r.at = c /\ r.level = UserAccess[u]
      /\ \/ r.sent = {} /\ \A a \in r.told : a[1] # "address"
         \/ r.cmd = cmd /\ r.text = text /\ r.sent = sent /\ r.told = told
  <2>1. \/ \E what \in {"disabled", "denied"} : r = Report(u, UserAccess[u], c, NoOne, NoOne, {}, Say1(what))
        \/ r = Report(u, UserAccess[u], c, cmd, text, sent, told)
    BY <1>0, Zenon DEF IRC, NoOne
  <2> QED  BY <2>1, ReportFacts, SayFacts DEF Say1
<1>2. u \notin Persons
  BY CommandsAssumption
<1>3. \A o \in r.sent : o[1] \in At(c) /\ Permitted(r.cmd, r.text, o) /\ r.cmd # "die"
  BY <1>1
<1>4. \A o \in r.sent : Permitted(r.cmd, r.text, o)'
  BY <1>3 DEF Permitted
<1>5. (\E a \in r.told : a[1] = "address") => (\E s \in Servers : IsAdmin(s, c)) \/ r.level > 1
  BY <1>1
<1> QED  BY <1>0, <1>1, <1>2, <1>3, <1>4, <1>5 DEF Proper, At, IsAdmin, IsPublic

\* What the state was it stays, as long as only the report changes.
LEMMA StateStays ==
  ASSUME StateOK, Unchanged
  PROVE  StateOK'
<1> QED  BY DEF StateOK, Unchanged

LEMMA WarningsStand ==
  ASSUME StateOK, warns' = warns
  PROVE  \A h \in Servers : \A x \in Range(players[h]) : ~(warns'[x] < warns[x])
<1>1. \A h \in Servers : \A x \in Range(players[h]) : warns[x] \in 0 .. MaxWarns
  BY ListedFacts DEF StateOK
<1>2. \A n \in 0 .. MaxWarns : ~(n < n)
  BY Limits
<1> QED  BY <1>1, <1>2

\* A command in a channel is answered, or refused.
LEMMA AnswersOrRefuses ==
  ASSUME NEW u, NEW c, NEW cmd, NEW default, NEW text, NEW sent, NEW told,
         IRC(u, c, cmd, default, text, sent, told), \A a \in told : a[1] # "warned"
  PROVE  \A a \in last'.told : a[1] # "warned"
<1>1. \/ \E what \in {"disabled", "denied"} : last' = Report(u, UserAccess[u], c, NoOne, NoOne, {}, Say1(what))
      \/ last' = Report(u, UserAccess[u], c, cmd, text, sent, told)
  BY Zenon DEF IRC, NoOne
<1> QED  BY <1>1, ReportFacts, SayFacts DEF Say1

LEMMA NoneCounted ==
  ASSUME StateOK, Unchanged, \A a \in last'.told : a[1] # "warned"
  PROVE  Counts
<1> QED  BY WarningsStand DEF Counts, Unchanged

LEMMA IRCObeys ==
  ASSUME StateOK, NEW u \in Users, NEW c \in Channels, NEW cmd, cmd # "die",
         NEW default, NEW text, NEW sent, NEW told,
         IRC(u, c, cmd, default, text, sent, told), Unchanged,
         \A o \in sent : o[1] \in At(c) /\ Permitted(cmd, text, o),
         (\E a \in told : a[1] = "address") => (\E s \in Servers : IsAdmin(s, c)) \/ UserAccess[u] > 1,
         \A a \in told : a[1] # "warned"
  PROVE  IInv' /\ Counts
<1>1. Proper(last)'
  BY IRCProper DEF Unchanged
<1>2. \A a \in last'.told : a[1] # "warned"
  BY AnswersOrRefuses
<1> QED  BY <1>1, <1>2, StateStays, NoneCounted DEF IInv

\* In the game everything is about the server of who speaks; a player with
\* more access than another may do something to him.
LEMMA GameProper ==
  ASSUME StateOK, NEW j \in Persons, NEW cmd, cmd # "die",
         NEW text, NEW sent, NEW told,
         Game(j, cmd, text, sent, told),
         players' = players, access' = access,
         \A o \in sent : o[1] = At0(j) /\ Permitted(cmd, text, o),
         cmd \notin {"nmode", "smode", "warn", "pardon", "staff", "rules", "pamsg"} =>
           \A o \in sent : o[3] \in Persons => access[o[3]] < access[j],
         \A a \in told : a[1] # "address"
  PROVE  Proper(last)'
<1>0. PICK r : r = last'
  OBVIOUS
<1>1. /\ r.by = j /\ r.at = At0(j)
      /\ \/ r.sent = {} /\ \A a \in r.told : a[1] # "address"
         \/ /\ r.cmd = cmd /\ r.text = text /\ r.sent = sent /\ r.told = told
            /\ access[j] >= Level(At0(j), cmd)
  <2>1. \/ r = Report(j, access[j], At0(j), NoOne, NoOne, {}, {<<"denied", j>>})
        \/ access[j] >= Level(At0(j), cmd) /\ r = Report(j, access[j], At0(j), cmd, text, sent, told)
    BY <1>0, Zenon DEF Game, NoOne
  <2> QED  BY <2>1, ReportFacts, SayFacts
<1>2. At0(j) \in Servers /\ At0(j) \notin Channels
  BY CommandsAssumption, GameServersAssumption DEF At0
<1>3. \A o \in r.sent : /\ o[1] = At0(j) /\ Permitted(r.cmd, r.text, o) /\ r.cmd # "die"
                        /\ access[j] >= Level(At0(j), r.cmd)
  BY <1>1
<1>4. \A o \in r.sent : Permitted(r.cmd, r.text, o)'
  BY <1>3 DEF Permitted
<1>5. \A a \in r.told : a[1] # "address"
  BY <1>1
<1>6. r.cmd \notin {"nmode", "smode", "warn", "pardon", "staff", "rules", "pamsg"} =>
        \A o \in r.sent : o[3] \in Persons => access[o[3]] < access[j]
  BY <1>1
<1> QED  BY <1>0, <1>1, <1>2, <1>3, <1>4, <1>5, <1>6 DEF Proper

LEMMA GameObeys ==
  ASSUME StateOK, NEW j \in Persons, NEW cmd, cmd # "die",
         NEW text, NEW sent, NEW told,
         Game(j, cmd, text, sent, told), Unchanged,
         \A o \in sent : o[1] = At0(j) /\ Permitted(cmd, text, o),
         cmd \notin {"nmode", "smode", "warn", "pardon", "staff", "rules", "pamsg"} =>
           \A o \in sent : o[3] \in Persons => access[o[3]] < access[j],
         Plain(told)
  PROVE  IInv' /\ Counts
<1>1. Proper(last)'
  BY GameProper DEF Unchanged, Plain
<1>2. \A a \in last'.told : a[1] # "warned"
  <2>1. \/ last' = Report(j, access[j], At0(j), NoOne, NoOne, {}, {<<"denied", j>>})
        \/ last' = Report(j, access[j], At0(j), cmd, text, sent, told)
    BY Zenon DEF Game, NoOne
  <2> QED  BY <2>1, ReportFacts, SayFacts DEF Plain
<1> QED  BY <1>1, <1>2, StateStays, NoneCounted DEF IInv

----------------------------------------------------------------------------
(***************************************************************************)
(* What happens without a command                                          *)
(***************************************************************************)

LEMMA NothingIsProper == Proper(Nothing)
<1> QED  BY DEF Proper, Nothing, Report

LEMMA InitIInv == Init => IInv
<1> SUFFICES ASSUME Init PROVE IInv
  OBVIOUS
<1>1. \A s \in Servers : players[s] = <<>>
  BY DEF Init
<1>2. <<>> \in Seq(Persons) /\ Range(<<>>) = {} /\ IsInjective(<<>>)
  BY DEF Range, IsInjective
<1>3. StateOK
  <2>1. players \in [Servers -> Seq(Persons)]
    BY <1>2 DEF Init
  <2>2. \A s \in Servers : /\ Range(players[s]) \subseteq Home(s)
                           /\ IsInjective(players[s])
                           /\ ~connected[s] => players[s] = <<>>
    BY <1>1, <1>2
  <2>3. 0 \in 0 .. MaxWarns
    BY Limits
  <2>4. connected \in [Servers -> BOOLEAN] /\ phasing \in [Servers -> BOOLEAN] /\ access \in [Persons -> Nat]
        /\ warns \in [Persons -> 0 .. MaxWarns]
    BY <2>3 DEF Init
  <2>5. \A p \in Persons : access[p] \in Levels[p] \cup {0}
    BY DEF Init
  <2> QED  BY <2>1, <2>2, <2>4, <2>5 DEF StateOK
<1>4. Proper(last)
  BY NothingIsProper DEF Init, Nothing
<1> QED  BY <1>3, <1>4 DEF IInv

LEMMA AppendFacts ==
  ASSUME NEW q \in Seq(Persons), IsInjective(q), NEW p \in Persons, p \notin Range(q)
  PROVE  /\ Append(q, p) \in Seq(Persons)
         /\ IsInjective(Append(q, p))
         /\ Range(Append(q, p)) = Range(q) \cup {p}
<1> DEFINE n == Len(q)
           r == Append(q, p)
<1>1. n \in Nat /\ Len(r) = n + 1 /\ r \in Seq(Persons) /\ DOMAIN q = 1 .. n /\ DOMAIN r = 1 .. (n + 1)
  OBVIOUS
<1>2. r[n + 1] = p /\ \A i \in 1 .. n : r[i] = q[i]
  OBVIOUS
<1> HIDE DEF n, r
<1>3. 1 .. (n + 1) = (1 .. n) \cup {n + 1} /\ n + 1 \notin 1 .. n
  BY <1>1
<1>4. \A i \in 1 .. n : q[i] \in Range(q)
  BY <1>1 DEF Range
<1>5. IsInjective(r)
  BY <1>1, <1>2, <1>3, <1>4 DEF IsInjective
<1>6. Range(r) = Range(q) \cup {p}
  BY <1>1, <1>2, <1>3 DEF Range
<1> QED  BY <1>1, <1>5, <1>6 DEF r

LEMMA RemoveFacts ==
  ASSUME NEW q \in Seq(Persons), IsInjective(q), NEW p, p \in Range(q)
  PROVE  /\ RemoveFirst(q, p) \in Seq(Persons)
         /\ IsInjective(RemoveFirst(q, p))
         /\ Range(RemoveFirst(q, p)) = Range(q) \ {p}
<1> DEFINE n == Len(q)
           I == {i \in 1 .. n : q[i] = p}
<1>1. n \in Nat /\ DOMAIN q = 1 .. n
  OBVIOUS
<1>2. I # {} /\ I \in SUBSET Nat
  BY <1>1 DEF Range
<1>3. Min(I) \in I
  BY <1>2, FirstPosition
<1>4. PICK k \in 1 .. n : q[k] = p /\ RemoveFirst(q, p) = SubSeq(q, 1, k - 1) \o SubSeq(q, k + 1, n)
  <2>1. SelectInSeq(q, LAMBDA v : v = p) = Min(I)
    BY <1>2 DEF SelectInSeq
  <2>2. RemoveFirst(q, p) = RemoveAt(q, SelectInSeq(q, LAMBDA v : v = p))
    BY <1>3 DEF RemoveFirst
  <2>3. RemoveFirst(q, p) = RemoveAt(q, Min(I))
    BY <2>1, <2>2
  <2> HIDE DEF I
  <2>4. Min(I) \in 1 .. n /\ q[Min(I)] = p
    BY <1>3 DEF I
  <2> QED  BY <2>3, <2>4 DEF RemoveAt
<1> DEFINE r == SubSeq(q, 1, k - 1) \o SubSeq(q, k + 1, n)
<1> HIDE DEF I
<1>5. /\ r \in Seq(Persons) /\ Len(r) = n - 1
      /\ \A i \in 1 .. n - 1 : r[i] = IF i < k THEN q[i] ELSE q[i + 1]
  <2> DEFINE a == SubSeq(q, 1, k - 1)
             b == SubSeq(q, k + 1, n)
  <2>1. a \in Seq(Persons) /\ Len(a) = k - 1 /\ \A i \in 1 .. k - 1 : a[i] = q[i]
    BY <1>1
  <2>2. b \in Seq(Persons) /\ Len(b) = n - k /\ \A i \in 1 .. n - k : b[i] = q[k + i]
    <3>1. k + 1 \in Int /\ n \in Int /\ \A i \in k + 1 .. n : q[i] \in Persons
      BY <1>1
    <3>2. b \in Seq(Persons) /\ Len(b) = IF k + 1 <= n THEN n - (k + 1) + 1 ELSE 0
      BY <3>1, SubSeqProperties
    <3>3. \A i \in 1 .. n - (k + 1) + 1 : b[i] = q[(k + 1) + i - 1]
      BY <3>1, SubSeqProperties
    <3>4. n - (k + 1) + 1 = n - k /\ (k + 1 <= n \/ n - k = 0) /\ \A i \in 1 .. n - k : (k + 1) + i - 1 = k + i
      <4> HIDE DEF n
      <4>1. n \in Nat /\ k \in 1 .. n
        BY <1>1
      <4> QED  BY ONLY <4>1
    <3> HIDE DEF b
    <3> QED  BY <3>2, <3>3, <3>4
  <2> HIDE DEF a, b
  <2>3. a \o b \in Seq(Persons) /\ Len(a \o b) = n - 1
    <3>1. (k - 1) + (n - k) = n - 1
      <4> HIDE DEF n
      <4>1. n \in Nat /\ k \in 1 .. n
        BY <1>1
      <4> QED  BY ONLY <4>1
    <3>2. a \o b \in Seq(Persons) /\ Len(a \o b) = Len(a) + Len(b)
      BY <2>1, <2>2, ConcatProperties
    <3> HIDE DEF n
    <3> QED  BY ONLY <2>1, <2>2, <3>1, <3>2
  <2>4. \A i \in 1 .. n - 1 : (a \o b)[i] = IF i < k THEN a[i] ELSE b[i - (k - 1)]
    BY <1>1, <2>1, <2>2
  <2>5. \A i \in 1 .. n - 1 : i >= k => i - (k - 1) \in 1 .. n - k /\ k + (i - (k - 1)) = i + 1
    BY <1>1
  <2>6. \A i \in 1 .. n - 1 : (a \o b)[i] = IF i < k THEN q[i] ELSE q[i + 1]
    <3> TAKE i \in 1 .. n - 1
    <3>1. CASE i < k
      <4>1. i \in 1 .. k - 1
        BY <1>1, <3>1
      <4> QED  BY <2>1, <2>4, <3>1, <4>1
    <3>2. CASE ~(i < k)
      <4>1. i - (k - 1) \in 1 .. n - k /\ k + (i - (k - 1)) = i + 1
        BY <1>1, <2>5, <3>2
      <4> QED  BY <2>2, <2>4, <3>2, <4>1
    <3> QED  BY <3>1, <3>2
  <2> QED  BY <2>3, <2>6 DEF a, b
<1> HIDE DEF r, n
<1>6. DOMAIN r = 1 .. n - 1
  BY <1>5
<1>7. IsInjective(r)
  <2> SUFFICES ASSUME NEW i \in 1 .. n - 1, NEW m \in 1 .. n - 1, r[i] = r[m] PROVE i = m
    BY <1>6 DEF IsInjective
  <2>1. PICK x \in 1 .. n : r[i] = q[x] /\ x = IF i < k THEN i ELSE i + 1
    BY <1>1, <1>5
  <2>2. PICK y \in 1 .. n : r[m] = q[y] /\ y = IF m < k THEN m ELSE m + 1
    BY <1>1, <1>5
  <2>3. x = y
    BY <1>1, <2>1, <2>2 DEF IsInjective
  <2> QED  BY <1>1, <2>1, <2>2, <2>3
<1>8. \A x \in 1 .. n : x # k => \E i \in 1 .. n - 1 : r[i] = q[x]
  <2> TAKE x \in 1 .. n
  <2>1. CASE x < k
    BY <1>1, <1>5, <2>1
  <2>2. CASE x > k
    <3>1. x - 1 \in 1 .. n - 1 /\ ~(x - 1 < k) /\ (x - 1) + 1 = x
      BY <1>1, <2>2
    <3> QED  BY <1>5, <3>1
  <2> QED  BY <1>1, <2>1, <2>2
<1>9. \A i \in 1 .. n - 1 : \E x \in 1 .. n : x # k /\ r[i] = q[x]
  <2> TAKE i \in 1 .. n - 1
  <2>1. CASE i < k
    BY <1>1, <1>5, <2>1
  <2>2. CASE ~(i < k)
    <3>1. i + 1 \in 1 .. n /\ i + 1 # k
      BY <1>1, <2>2
    <3> QED  BY <1>5, <2>2, <3>1
  <2> QED  BY <2>1, <2>2
<1>10. \A x \in 1 .. n : x # k => q[x] # p
  BY <1>1, <1>4 DEF IsInjective
<1>11. Range(r) = Range(q) \ {p}
  <2>1. \A z : z \in Range(r) <=> \E i \in 1 .. n - 1 : z = r[i]
    BY <1>6 DEF Range
  <2>2. \A z : z \in Range(q) <=> \E x \in 1 .. n : z = q[x]
    BY <1>1 DEF Range
  <2>3. \A z \in Range(r) : z \in Range(q) /\ z # p
    BY <1>9, <1>10, <2>1, <2>2
  <2>4. ASSUME NEW z \in Range(q), z # p
        PROVE  z \in Range(r)
    <3>1. PICK x \in 1 .. n : z = q[x]
      BY <2>2
    <3>2. x # k
      BY <1>4, <2>4, <3>1
    <3>3. PICK i \in 1 .. n - 1 : r[i] = q[x]
      BY <1>8, <3>2
    <3> QED  BY <2>1, <3>1, <3>3
  <2> QED  BY <2>3, <2>4
<1> QED  BY <1>4, <1>5, <1>7, <1>11 DEF r

LEMMA NothingDone ==
  ASSUME last' = Nothing
  PROVE  Proper(last)' /\ last'.told = {}
<1>1. PICK r : r = last'
  OBVIOUS
<1>2. Nothing = Report("nobody", 0, NoOne, NoOne, NoOne, {}, {})
  BY Zenon DEF Nothing, NoOne
<1>3. r.sent = {} /\ r.told = {}
  BY <1>1, <1>2, ReportFacts
<1> QED  BY <1>1, <1>3 DEF Proper

LEMMA SentObeys ==
  ASSUME IInv, Sent
  PROVE  IInv' /\ Counts
<1>1. Proper(last)' /\ last'.told = {} /\ Unchanged
  BY NothingDone DEF Sent
<1> QED  BY <1>1, StateStays, NoneCounted DEF IInv

\* What was Nothing, or a step in which warnings only go with who leaves.
LEMMA JoinObeys ==
  ASSUME IInv, NEW p \in Persons, Join(p)
  PROVE  IInv' /\ Counts
<1> DEFINE s == Who[p].server
<1>1. s \in Servers /\ connected[s] = TRUE /\ p \notin Range(players[s]) /\ last' = Nothing
  BY GameServersAssumption DEF Join, IInv, StateOK
<1>2. players' = [players EXCEPT ![s] = Append(players[s], p)]
  BY DEF Join
<1>3. PICK a \in Levels[p] : access' = [access EXCEPT ![p] = a]
  BY DEF Join
<1>4. UNCHANGED <<connected, warns, phasing>>
  BY DEF Join
<1> DEFINE q == players[s]
           r == Append(players[s], p)
<1>5. q \in Seq(Persons) /\ IsInjective(q) /\ p \in Home(s)
  BY <1>1 DEF IInv, StateOK, Home
<1>6. r \in Seq(Persons) /\ IsInjective(r) /\ Range(r) = Range(q) \cup {p}
  BY <1>1, <1>5, AppendFacts
<1> HIDE DEF r, q
<1>7. players'[s] = r /\ \A h \in Servers : h # s => players'[h] = players[h]
  BY <1>1, <1>2 DEF IInv, StateOK, r
<1>8. players' \in [Servers -> Seq(Persons)]
  BY <1>1, <1>2, <1>6 DEF IInv, StateOK, r
<1>9. \A h \in Servers : /\ Range(players'[h]) \subseteq Home(h)
                         /\ IsInjective(players'[h])
                         /\ ~connected'[h] => players'[h] = <<>>
  BY <1>1, <1>4, <1>5, <1>6, <1>7 DEF IInv, StateOK, q
<1>10. access' \in [Persons -> Nat] /\ \A h \in Persons : access'[h] \in Levels[h] \cup {0}
  <2>1. a \in Nat
    BY Zenon, GameServersAssumption
  <2> QED  BY <1>3, <2>1 DEF IInv, StateOK
<1>11. StateOK'
  BY <1>4, <1>8, <1>9, <1>10 DEF IInv, StateOK, Home
<1>12. Proper(last)' /\ last'.told = {}
  BY <1>1, NothingDone
<1>13. \A h \in Servers : \A x \in Range(players[h]) : ~(warns'[x] < warns[x])
  <2> SUFFICES ASSUME NEW h \in Servers, NEW x \in Range(players[h]) PROVE ~(warns'[x] < warns[x])
    OBVIOUS
  <2>1. x \in Persons /\ warns'[x] = warns[x] /\ warns[x] \in 0 .. MaxWarns
    BY <1>4, ListedFacts DEF IInv, StateOK
  <2> QED  BY <2>1, Limits
<1> QED  BY <1>11, <1>12, <1>13 DEF IInv, Counts
LEMMA GoneFacts ==
  ASSUME StateOK, NEW ps, Gone(ps)
  PROVE  /\ access' \in [Persons -> Nat] /\ \A p \in Persons : access'[p] \in Levels[p] \cup {0}
         /\ warns' \in [Persons -> 0 .. MaxWarns]
         /\ \A p \in Persons \ ps : ~(warns'[p] < warns[p])
<1>1. 0 \in 0 .. MaxWarns /\ \A n \in 0 .. MaxWarns : ~(n < n)
  BY Limits
<1> QED  BY <1>1 DEF Gone, StateOK

LEMMA LeaveObeys ==
  ASSUME IInv, NEW p \in Persons, Leave(p)
  PROVE  IInv' /\ Counts
<1> DEFINE s == Who[p].server
           q == players[s]
           r == RemoveFirst(players[s], p)
<1>1. s \in Servers /\ p \in Range(q) /\ last' = Nothing /\ Gone({p}) /\ StateOK
  BY GameServersAssumption DEF Leave, IInv
<1>2. players' = [players EXCEPT ![s] = r] /\ UNCHANGED <<connected, phasing>>
  BY DEF Leave
<1>3. q \in Seq(Persons) /\ IsInjective(q) /\ Range(q) \subseteq Home(s) /\ connected[s] = TRUE
  BY <1>1 DEF StateOK, Range
<1>4. r \in Seq(Persons) /\ IsInjective(r) /\ Range(r) = Range(q) \ {p}
  BY <1>1, <1>3, RemoveFacts
<1> HIDE DEF r, q
<1>5. players'[s] = r /\ \A h \in Servers : h # s => players'[h] = players[h]
  BY <1>1, <1>2 DEF StateOK
<1>6. players' \in [Servers -> Seq(Persons)]
  BY <1>1, <1>2, <1>4 DEF StateOK
<1>7. \A h \in Servers : /\ Range(players'[h]) \subseteq Home(h)
                         /\ IsInjective(players'[h])
                         /\ ~connected'[h] => players'[h] = <<>>
  BY <1>1, <1>2, <1>3, <1>4, <1>5 DEF StateOK
<1>8. StateOK'
  BY <1>1, <1>2, <1>6, <1>7, GoneFacts DEF StateOK, Home
<1>9. \A h \in Servers : \A x \in Range(players[h]) \cap Range(players'[h]) : ~(warns'[x] < warns[x])
  <2> SUFFICES ASSUME NEW h \in Servers, NEW x \in Range(players[h]) \cap Range(players'[h])
               PROVE  ~(warns'[x] < warns[x])
    OBVIOUS
  <2>1. x \in Persons /\ Who[x].server = h
    BY <1>1, ListedFacts
  <2>2. x # p
    BY <1>4, <1>5, <2>1
  <2> QED  BY <1>1, <2>1, <2>2, GoneFacts
<1> QED  BY <1>1, <1>8, <1>9, NothingDone DEF IInv, Counts

\* Whoever is on the servers that are cut off goes, and nobody else.
LEMMA CutOff ==
  ASSUME StateOK, NEW cut \in SUBSET Servers, Gone({p \in Persons : Who[p].server \in cut}),
         players' = [s \in Servers |-> IF s \in cut THEN <<>> ELSE players[s]],
         connected' \in [Servers -> BOOLEAN], \A s \in Servers \ cut : connected'[s] = connected[s],
         phasing' = phasing
  PROVE  /\ StateOK'
         /\ \A h \in Servers : \A x \in Range(players[h]) \cap Range(players'[h]) : ~(warns'[x] < warns[x])
<1>1. <<>> \in Seq(Persons) /\ Range(<<>>) = {} /\ IsInjective(<<>>)
  BY DEF Range, IsInjective
<1>2. players' \in [Servers -> Seq(Persons)]
  BY <1>1 DEF StateOK
<1>3. \A h \in Servers : /\ Range(players'[h]) \subseteq Home(h)
                         /\ IsInjective(players'[h])
                         /\ ~connected'[h] => players'[h] = <<>>
  BY <1>1 DEF StateOK
<1>4. StateOK'
  BY <1>2, <1>3, GoneFacts DEF StateOK, Home
<1>5. \A h \in Servers : \A x \in Range(players[h]) \cap Range(players'[h]) : ~(warns'[x] < warns[x])
  <2> SUFFICES ASSUME NEW h \in Servers, NEW x \in Range(players[h]) \cap Range(players'[h])
               PROVE  ~(warns'[x] < warns[x])
    OBVIOUS
  <2>1. x \in Persons /\ Who[x].server = h
    BY ListedFacts
  <2>2. h \notin cut
    BY <1>1
  <2> QED  BY <2>1, <2>2, GoneFacts
<1> QED  BY <1>4, <1>5

LEMMA DisconnectObeys ==
  ASSUME IInv, NEW s \in Servers, Disconnect(s)
  PROVE  IInv' /\ Counts
<1>1. StateOK /\ last' = Nothing /\ phasing' = phasing
  BY DEF IInv, Disconnect
<1>2. players' = [h \in Servers |-> IF h \in {s} THEN <<>> ELSE players[h]]
  BY <1>1 DEF StateOK, Disconnect
<1>3. connected' \in [Servers -> BOOLEAN] /\ \A h \in Servers \ {s} : connected'[h] = connected[h]
  BY <1>1 DEF StateOK, Disconnect
<1>4. Gone({p \in Persons : Who[p].server \in {s}})
  <2>1. Home(s) = {p \in Persons : Who[p].server \in {s}}
    BY DEF Home
  <2> QED  BY <2>1 DEF Disconnect
<1>5. /\ StateOK'
      /\ \A h \in Servers : \A x \in Range(players[h]) \cap Range(players'[h]) : ~(warns'[x] < warns[x])
  BY <1>1, <1>2, <1>3, <1>4, CutOff
<1> QED  BY <1>1, <1>5, NothingDone DEF IInv, Counts

LEMMA ConnectObeys ==
  ASSUME IInv, NEW s \in Servers, Connect(s)
  PROVE  IInv' /\ Counts
<1>1. StateOK /\ last' = Nothing /\ UNCHANGED <<players, access, warns, phasing>>
  BY DEF IInv, Connect
<1>2. StateOK'
  <2>1. connected' \in [Servers -> BOOLEAN] /\ \A h \in Servers : connected[h] => connected'[h]
    BY <1>1 DEF StateOK, Connect
  <2> QED  BY <1>1, <2>1 DEF StateOK
<1>3. \A h \in Servers : \A x \in Range(players[h]) : ~(warns'[x] < warns[x])
  <2> SUFFICES ASSUME NEW h \in Servers, NEW x \in Range(players[h]) PROVE ~(warns'[x] < warns[x])
    OBVIOUS
  <2>1. warns[x] \in 0 .. MaxWarns
    BY <1>1, ListedFacts DEF StateOK
  <2> QED  BY <1>1, <2>1, Limits
<1> QED  BY <1>1, <1>2, <1>3, NothingDone DEF IInv, Counts

LEMMA DieObeys ==
  ASSUME IInv, NEW p \in Persons, Die(p)
  PROVE  IInv' /\ Counts
<1> DEFINE s == Who[p].server
           sent == IF Who[p].bot /\ phasing[s] THEN Kick(s, p) ELSE {}
<1>1. StateOK /\ s \in Servers /\ p \in Range(players[s]) /\ Unchanged
  BY GameServersAssumption DEF IInv, Die, Unchanged
<1>2. PICK r : r = last'
  OBVIOUS
<1>3. r = Report("game", 0, s, "die", NoOne, sent, {})
  BY <1>2, Zenon DEF Die, NoOne
<1>4. \A o \in sent : o = <<s, "kick", p, 0>> /\ Who[p].bot /\ phasing[s]
  BY DEF Kick, To, Send
<1> HIDE DEF sent
<1>5. r.by = "game" /\ r.at = s /\ r.cmd = "die" /\ r.sent = sent /\ r.told = {}
  BY <1>3, ReportFacts
<1>6. "kick" \in Verbs /\ "die" \notin OneTarget
  BY DEF Verbs, OneTarget
<1>7. \A o \in sent : o[1] = s /\ Permitted("die", r.text, o)
  BY <1>1, <1>4, <1>6 DEF Permitted
<1>8. "game" \notin Persons /\ s \notin Channels
  BY <1>1, CommandsAssumption
<1>9. \A o \in sent : Permitted("die", r.text, o)'
  BY <1>1, <1>7 DEF Permitted, Unchanged
<1>10. Proper(last)'
  BY <1>2, <1>5, <1>7, <1>8, <1>9 DEF Proper
<1>11. \A a \in last'.told : a[1] # "warned"
  BY <1>2, <1>5
<1> QED  BY <1>1, <1>10, <1>11, StateStays, NoneCounted DEF IInv

LEMMA RCONConsoleObeys ==
  ASSUME IInv, RCONConsoleCommand
  PROVE  IInv' /\ Counts
<1> DEFINE sent == UNION {To(s, "raw", NoOne) : s \in Servers}
<1>1. StateOK /\ Unchanged
  BY DEF IInv, RCONConsoleCommand, Unchanged
<1>2. PICK r : r = last'
  OBVIOUS
<1>3. r = Report("console", 0, NoOne, "rcon", NoOne, sent, {})
  BY <1>2, Zenon DEF RCONConsoleCommand, NoOne
<1>4. "rcon" \notin OneTarget \cup {"die"}
  BY DEF OneTarget
<1>5. \A o \in sent : o[3] \notin Persons /\ Permitted("rcon", NoOne, o)
  BY <1>1, <1>4, OrderToNobody
<1> HIDE DEF sent
<1>6. r.by = "console" /\ r.cmd = "rcon" /\ r.text = NoOne /\ r.sent = sent /\ r.told = {}
  BY <1>3, ReportFacts
<1>7. \A o \in sent : Permitted("rcon", NoOne, o)'
  BY <1>1, <1>5 DEF Permitted, Unchanged
<1>8. Proper(last)'
  BY <1>2, <1>5, <1>6, <1>7 DEF Proper
<1>9. \A a \in last'.told : a[1] # "warned"
  BY <1>2, <1>6
<1> QED  BY <1>1, <1>8, <1>9, StateStays, NoneCounted DEF IInv
----------------------------------------------------------------------------
(***************************************************************************)
(* What commands in channels have in common                                *)
(***************************************************************************)

\* Answers that no property is about.
Harmless == {"not attached", "not found", "nobody", "named", "no staff", "staff", "steam", "done",
             "unsupported", "counted", "building", "undefined", "mutators", "rotation", "map",
             "gameinfo", "rules", "empty", "no matches", "entry", "not in rotation",
             "transmission error", "connected", "not connected", "pardoned", "help", "alert",
             "higher level", "denied"}

LEMMA PlainAnswers ==
  /\ \A told : (\A a \in told : a[1] \in Harmless) => Plain(told)
  /\ \A what \in Harmless : \A a \in Say1(what) : a[1] \in Harmless
  /\ \A what \in Harmless : \A ps : \A a \in About(what, ps) : a[1] \in Harmless
  /\ \A c : \A a \in Unattached(c) : a[1] \in Harmless
  /\ \A c, t : \A a \in Missing(c, t) : a[1] \in Harmless
  /\ \A c, t : \A what \in Harmless : \A a \in AboutFound(c, t, what) : a[1] \in Harmless
<1>1. Harmless \cap {"address", "warned"} = {} /\ {"not attached", "not found"} \subseteq Harmless
  BY DEF Harmless
<1>2. \A told : (\A a \in told : a[1] \in Harmless) => Plain(told)
  BY <1>1 DEF Plain
<1>3. \A what \in Harmless : \A x : <<what, x>>[1] \in Harmless
  OBVIOUS
<1>4. \A what \in Harmless : \A a \in Say1(what) : a[1] \in Harmless
  BY <1>3 DEF Say1
<1>5. \A what \in Harmless : \A ps : \A a \in About(what, ps) : a[1] \in Harmless
  BY <1>3 DEF About
<1>6. \A c : \A a \in Unattached(c) : a[1] \in Harmless
  BY <1>1, <1>4 DEF Unattached
<1>7. \A c, t : \A a \in Missing(c, t) : a[1] \in Harmless
  BY <1>1, <1>4 DEF Missing
<1>8. \A c, t : \A what \in Harmless : \A a \in AboutFound(c, t, what) : a[1] \in Harmless
  BY <1>5 DEF AboutFound
<1> QED  BY <1>2, <1>4, <1>5, <1>6, <1>7, <1>8

\* A command that orders nothing.
LEMMA ShowsObeys ==
  ASSUME StateOK, NEW u \in Users, NEW c \in Channels, NEW cmd, cmd # "die",
         NEW default, NEW text, NEW told,
         IRC(u, c, cmd, default, text, {}, told), Unchanged,
         \A a \in told : a[1] \in Harmless
  PROVE  IInv' /\ Counts
<1>1. Plain(told)
  BY PlainAnswers
<1> QED  BY <1>1, IRCObeys DEF Plain

\* A command that says something, or orders something about nobody, on every
\* server that is attached.
LEMMA EachObeys ==
  ASSUME StateOK, NEW u \in Users, NEW c \in Channels, NEW cmd, cmd \notin OneTarget \cup {"die"},
         NEW default, NEW text, NEW sent, NEW told,
         IRC(u, c, cmd, default, text, sent, told), Unchanged,
         \A o \in sent : \E s \in At(c) :
           \/ o \in Say(s)
           \/ \E verb \in {"say", "amsg", "raw", "killbots", "addbots", "addredbots", "addbluebots"} :
                o \in To(s, verb, NoOne),
         \A a \in told : a[1] \in Harmless
  PROVE  IInv' /\ Counts
<1>1. Plain(told)
  BY PlainAnswers
<1>2. \A o \in sent : o[1] \in At(c) /\ Permitted(cmd, text, o)
  BY OrderToNobody, OrderToSay DEF At
<1> QED  BY <1>1, <1>2, IRCObeys DEF Plain

\* What may be ordered about who is found on a server, and is neither timed nor
\* a map.
OnWhoIsFound(cmd, s, t, o) ==
  /\ o[1] = s /\ o[3] = PlayerByPartName(s, t) /\ o[2] \in Verbs \ {"changemap"}
  /\ s \in Competitive => /\ o[2] \notin {"kill", "disarm", "disarmc4", "disarmb", "givecredits"}
                          /\ cmd # "refund"

LEMMA FoundObeys ==
  ASSUME StateOK, NEW u \in Users, NEW c \in Channels, NEW cmd, cmd \notin {"die", "tban", "tchatban"},
         NEW default, NEW t, NEW sent, NEW told,
         IRC(u, c, cmd, default, t, sent, told), Unchanged,
         \A o \in sent : \E s \in Found(c, t) : OnWhoIsFound(cmd, s, t, o),
         \A a \in told : a[1] \in Harmless
  PROVE  IInv' /\ Counts
<1>1. Plain(told)
  BY PlainAnswers
<1>2. ASSUME NEW o \in sent
      PROVE  o[1] \in At(c) /\ Permitted(cmd, t, o)
  <2>1. PICK s \in Found(c, t) : OnWhoIsFound(cmd, s, t, o)
    OBVIOUS
  <2>2. s \in At(c) /\ s \in Servers /\ PlayerByPartName(s, t) # NoOne
    BY DEF Found, At
  <2> QED  BY <2>1, <2>2, OrderToFound DEF OnWhoIsFound
<1> QED  BY <1>1, <1>2, IRCObeys DEF Plain

\* what a server that plays competitively is not told
Unfair == {"kill", "disarm", "disarmc4", "disarmb", "givecredits", "changemap"}

\* Orders of each kind about who is found.
LEMMA KindsOfOrders ==
  ASSUME NEW cmd, NEW s, NEW t, NEW p, p = PlayerByPartName(s, t), NEW o
  PROVE  /\ \A verb \in Verbs \ {"changemap", "kill", "disarm", "disarmc4", "disarmb", "givecredits"} :
              cmd # "refund" /\ o \in To(s, verb, p) => OnWhoIsFound(cmd, s, t, o)
         /\ \A verb \in Verbs \ {"changemap"} : o \in Fair(s, verb, p) => OnWhoIsFound(cmd, s, t, o)
         /\ cmd # "refund" /\ o \in Kick(s, p) => OnWhoIsFound(cmd, s, t, o)
         /\ \A n : cmd # "refund" /\ o \in Ban(s, p, n) => OnWhoIsFound(cmd, s, t, o)
<1>1. {"kick", "ban"} \subseteq Verbs \ {"changemap", "kill", "disarm", "disarmc4", "disarmb", "givecredits"}
  BY DEF Verbs
<1>2. ASSUME NEW verb, NEW much, o \in Send(s, verb, p, much)
      PROVE  o[1] = s /\ o[2] = verb /\ o[3] = p
  <2>1. o = <<s, verb, p, much>>
    BY <1>2 DEF Send
  <2> QED  BY <2>1
<1>3. ASSUME NEW verb \in Verbs \ {"changemap"}, o \in Fair(s, verb, p)
      PROVE  OnWhoIsFound(cmd, s, t, o)
  <2>1. s \notin Competitive /\ o \in Send(s, verb, p, 0)
    BY <1>3 DEF Fair, To
  <2> QED  BY <1>2, <2>1 DEF OnWhoIsFound
<1>4. ASSUME NEW verb \in Verbs \ {"changemap", "kill", "disarm", "disarmc4", "disarmb", "givecredits"},
             NEW much, cmd # "refund", o \in Send(s, verb, p, much)
      PROVE  OnWhoIsFound(cmd, s, t, o)
  BY <1>2, <1>4 DEF OnWhoIsFound
<1>5. o \in Kick(s, p) => o \in Send(s, "kick", p, 0)
  BY DEF Kick, To
<1>6. \A n : o \in Ban(s, p, n) => o \in Send(s, "ban", p, n)
  BY DEF Ban
<1>7. \A verb : o \in To(s, verb, p) => o \in Send(s, verb, p, 0)
  BY DEF To
<1> QED  BY <1>1, <1>3, <1>4, <1>5, <1>6, <1>7
----------------------------------------------------------------------------
(***************************************************************************)
(* Commands in channels that only show something                           *)
(***************************************************************************)

LEMMA PlayersObeys ==
  ASSUME StateOK, NEW u \in Users, NEW c \in Channels, PlayersIRCCommand(u, c)
  PROVE  IInv' /\ Counts
<1> DEFINE Of(s) == IF Humans(s) = {} THEN Say1("nobody") ELSE About("named", Range(players[s]))
           told == Unattached(c) \cup Listed(c, Of)
<1>1. IRC(u, c, "players", 0, NoOne, {}, told) /\ Unchanged
  BY Zenon DEF PlayersIRCCommand, NoOne
<1>2. {"nobody", "named"} \subseteq Harmless
  BY DEF Harmless
<1>3. \A a \in Listed(c, Of) : \E s \in At(c) : a \in Say1("nobody") \cup About("named", Range(players[s]))
  BY DEF Listed
<1>4. \A a \in told : a[1] \in Harmless
  BY <1>2, <1>3, PlainAnswers
<1> HIDE DEF told
<1> QED  BY <1>1, <1>4, ShowsObeys

\* Addresses are shown for the servers whose channel for the staff this is.
LEMMA PlayerTableObeys ==
  ASSUME StateOK, NEW u \in Users, NEW c \in Channels, PlayerTableIRCCommand(u, c)
  PROVE  IInv' /\ Counts
<1> DEFINE Of(s) == IF Humans(s) = {} THEN Say1("nobody")
                    ELSE About("named", Humans(s)) \cup IF IsAdmin(s, c) THEN About("address", Humans(s)) ELSE {}
           told == Unattached(c) \cup Listed(c, Of)
<1>1. IRC(u, c, "pt", 0, NoOne, {}, told) /\ Unchanged
  BY Zenon DEF PlayerTableIRCCommand, NoOne
<1>2. {"nobody", "named"} \subseteq Harmless
  BY DEF Harmless
<1>3. \A a \in Listed(c, Of) : \E s \in At(c) :
        \/ a \in Say1("nobody") \cup About("named", Humans(s))
        \/ IsAdmin(s, c) /\ a \in About("address", Humans(s))
  BY DEF Listed
<1>4. \A a \in told : a[1] \in Harmless \/ (a[1] = "address" /\ \E s \in Servers : IsAdmin(s, c))
  <2>1. \A ps : \A a \in About("address", ps) : a[1] = "address"
    BY DEF About
  <2> QED  BY <1>2, <1>3, <2>1, PlainAnswers DEF At
<1>5. "address" \notin Harmless /\ "warned" \notin Harmless /\ "address" # "warned"
  BY DEF Harmless
<1> HIDE DEF told
<1> QED  BY <1>1, <1>4, <1>5, IRCObeys

LEMMA PlayerInfoObeys ==
  ASSUME StateOK, NEW u \in Users, NEW c \in Channels, NEW t, PlayerInfoIRCCommand(u, c, t)
  PROVE  IInv' /\ Counts
<1> DEFINE ps == Listed(c, LAMBDA s : IF t = "" THEN Range(players[s]) ELSE Matches(s, t))
           told == IF ps = {} THEN Say1("not found")
                   ELSE About("named", ps) \cup IF UserAccess[u] > 1 THEN About("address", ps) ELSE {}
<1>1. IRC(u, c, "playerinfo", 0, t, {}, told) /\ Unchanged
  BY Zenon DEF PlayerInfoIRCCommand
<1> HIDE DEF ps
<1>2. {"not found", "named"} \subseteq Harmless
  BY DEF Harmless
<1>3. \A a \in told : a[1] \in Harmless \/ (a[1] = "address" /\ UserAccess[u] > 1)
  <2>1. \A a \in About("address", ps) : a[1] = "address"
    BY DEF About
  <2> QED  BY <1>2, <2>1, PlainAnswers
<1>4. "address" \notin Harmless /\ "warned" \notin Harmless /\ "address" # "warned"
  BY DEF Harmless
<1> HIDE DEF told
<1> QED  BY <1>1, <1>3, <1>4, IRCObeys

LEMMA BuildingInfoObeys ==
  ASSUME StateOK, NEW u \in Users, NEW c \in Channels, BuildingInfoIRCCommand(u, c)
  PROVE  IInv' /\ Counts
<1> DEFINE Group(s, g) == SelectSeq(OneStrip(Buildings[s]), LAMBDA b : b.group = g)
           Of(s) == UNION {Shown(Group(s, g)) : g \in {b.group : b \in Range(Buildings[s])}}
           told == Unattached(c) \cup Listed(c, Of)
<1>1. IRC(u, c, "buildinginfo", 0, NoOne, {}, told) /\ Unchanged
  BY Zenon DEF BuildingInfoIRCCommand, NoOne
<1>2. {"building", "undefined"} \subseteq Harmless
  BY DEF Harmless
<1> HIDE DEF Group
<1>3. \A bs : \A a \in Shown(bs) : a[1] \in Harmless
  BY <1>2, PlainAnswers DEF Shown
<1>4. \A a \in Listed(c, Of) : \E bs : a \in Shown(bs)
  <2>1. \A s : \A a \in Of(s) : \E bs : a \in Shown(bs)
    OBVIOUS
  <2> HIDE DEF Of
  <2>2. \A a \in Listed(c, Of) : \E s \in At(c) : a \in Of(s)
    BY DEF Listed
  <2> QED  BY <2>1, <2>2
<1>5. \A a \in told : a[1] \in Harmless
  BY <1>3, <1>4, PlainAnswers
<1> HIDE DEF told
<1> QED  BY <1>1, <1>5, ShowsObeys

LEMMA AnswerOfEachObeys ==
  ASSUME StateOK, NEW u \in Users, NEW c \in Channels,
         \/ MutatorsIRCCommand(u, c) \/ RotationIRCCommand(u, c) \/ MapIRCCommand(u, c)
         \/ GameInfoIRCCommand(u, c) \/ RulesIRCCommand(u, c)
  PROVE  IInv' /\ Counts
<1>1. PICK cmd \in {"mutators", "rotation", "map", "gameinfo", "rules"} : AnswerOfEach(u, c, cmd)
  BY DEF MutatorsIRCCommand, RotationIRCCommand, MapIRCCommand, GameInfoIRCCommand, RulesIRCCommand
<1> DEFINE told == Unattached(c) \cup About(cmd, At(c))
<1>2. IRC(u, c, cmd, 0, NoOne, {}, told) /\ Unchanged
  BY <1>1, Zenon DEF AnswerOfEach, NoOne
<1>3. cmd \in Harmless /\ cmd # "die"
  BY DEF Harmless
<1>4. \A a \in told : a[1] \in Harmless
  BY <1>3, PlainAnswers
<1> HIDE DEF told
<1> QED  BY <1>2, <1>3, <1>4, ShowsObeys

LEMMA SteamObeys ==
  ASSUME StateOK, NEW u \in Users, NEW c \in Channels, NEW t, SteamIRCCommand(u, c, t)
  PROVE  IInv' /\ Counts
<1> DEFINE ps == Listed(c, LAMBDA s : Matches(s, t))
           told == IF t = "" THEN About("steam", At(c)) ELSE IF ps = {} THEN Say1("not found") ELSE About("named", ps)
<1>1. IRC(u, c, "steam", 1, t, {}, told) /\ Unchanged
  BY Zenon DEF SteamIRCCommand
<1> HIDE DEF ps
<1>2. {"steam", "not found", "named"} \subseteq Harmless
  BY DEF Harmless
<1>3. told \in {About("steam", At(c)), Say1("not found"), About("named", ps)}
  BY Zenon
<1> HIDE DEF told
<1>4. \A a \in told : a[1] \in Harmless
  BY <1>2, <1>3, PlainAnswers
<1> QED  BY <1>1, <1>4, ShowsObeys

LEMMA KillDeathRatioObeys ==
  ASSUME StateOK, NEW u \in Users, NEW c \in Channels, NEW t, KillDeathRatioIRCCommand(u, c, t)
  PROVE  IInv' /\ Counts
<1> DEFINE ps == Listed(c, LAMBDA s : Matches(s, t))
           told == IF ps = {} THEN Say1("not found") ELSE About("named", ps)
<1>1. IRC(u, c, "kdr", 0, t, {}, told) /\ Unchanged
  BY Zenon DEF KillDeathRatioIRCCommand
<1> HIDE DEF ps
<1>2. {"not found", "named"} \subseteq Harmless
  BY DEF Harmless
<1>3. \A a \in told : a[1] \in Harmless
  BY <1>2, PlainAnswers
<1> HIDE DEF told
<1> QED  BY <1>1, <1>3, ShowsObeys

LEMMA ModsObeys ==
  ASSUME StateOK, NEW u \in Users, NEW c \in Channels, ModsIRCCommand(u, c)
  PROVE  IInv' /\ Counts
<1> DEFINE Of(s) == IF Staff(s) = {} THEN Say1("no staff") ELSE About("staff", Staff(s))
           told == Unattached(c) \cup Listed(c, Of)
<1>1. IRC(u, c, "mods", 0, NoOne, {}, told) /\ Unchanged
  BY Zenon DEF ModsIRCCommand, NoOne
<1>2. {"no staff", "staff"} \subseteq Harmless
  BY DEF Harmless
<1>3. \A a \in Listed(c, Of) : \E s \in At(c) : a \in Say1("no staff") \cup About("staff", Staff(s))
  BY DEF Listed
<1>4. \A a \in told : a[1] \in Harmless
  BY <1>2, <1>3, PlainAnswers
<1> HIDE DEF told
<1> QED  BY <1>1, <1>4, ShowsObeys

LEMMA SearchObeys ==
  ASSUME StateOK, NEW u \in Users, NEW c \in Channels, NEW field, NEW value,
         BanSearchIRCCommand(u, c, field, value) \/ ExemptionSearchIRCCommand(u, c, field, value)
  PROVE  IInv' /\ Counts
<1>1. PICK cmd \in {"bansearch", "exemptionsearch"}, entries \in {Bans, Exemptions} :
        SearchIRC(u, c, cmd, entries, field, value)
  BY DEF BanSearchIRCCommand, ExemptionSearchIRCCommand
<1> DEFINE found == {<<"entry", ToString(i)>> : i \in Search(entries, field, value)}
           told == IF entries = <<>> THEN Say1("empty")
                   ELSE IF Search(entries, field, value) = {} THEN Say1("no matches") ELSE found
<1>2. IRC(u, c, cmd, 2, field, {}, told) /\ Unchanged
  BY <1>1, Zenon DEF SearchIRC
<1>3. {"empty", "no matches", "entry"} \subseteq Harmless
  BY DEF Harmless
<1>4. told \in {Say1("empty"), Say1("no matches"), found}
  BY Zenon
<1>5. \A a \in found : a[1] = "entry"
  OBVIOUS
<1> HIDE DEF told, found
<1>6. \A a \in told : a[1] \in Harmless
  BY <1>3, <1>4, <1>5, PlainAnswers
<1> QED  BY <1>2, <1>6, ShowsObeys
----------------------------------------------------------------------------
(***************************************************************************)
(* Commands in channels that are about servers                             *)
(***************************************************************************)

LEMMA SaysObeys ==
  ASSUME StateOK, NEW u \in Users, NEW c \in Channels,
         \/ MsgIRCCommand(u, c) \/ ShowModsIRCCommand(u, c) \/ ShowRulesIRCCommand(u, c)
         \/ HostMsgIRCCommand(u, c)
  PROVE  IInv' /\ Counts
<1> DEFINE sent == ToEach(c, Say)
<1>1. PICK cmd \in {"msg", "showmods", "showrules", "hmsg"}, default \in {0, 4},
           told \in {Unattached(c), LastUnsent(c, Say)} : IRC(u, c, cmd, default, NoOne, sent, told) /\ Unchanged
  BY Zenon DEF MsgIRCCommand, ShowModsIRCCommand, ShowRulesIRCCommand, HostMsgIRCCommand, NoOne
<1>2. cmd \notin OneTarget \cup {"die"} /\ {"not attached"} \subseteq Harmless
  BY DEF OneTarget, Harmless
<1>3. \A o \in sent : \E s \in At(c) : o \in Say(s)
  BY DEF ToEach
<1>4. \A a \in LastUnsent(c, Say) : a[1] \in Harmless
  BY <1>2, PlainAnswers DEF LastUnsent
<1>5. \A a \in told : a[1] \in Harmless
  BY <1>4, PlainAnswers
<1> HIDE DEF sent
<1> QED  BY <1>1, <1>2, <1>3, <1>5, EachObeys

LEMMA AdminMsgObeys ==
  ASSUME StateOK, NEW u \in Users, NEW c \in Channels, AdminMsgIRCCommand(u, c)
  PROVE  IInv' /\ Counts
<1> DEFINE Tell(s) == To(s, "amsg", NoOne)
           sent == ToEach(c, Tell)
           told == LastUnsent(c, Tell)
<1>1. IRC(u, c, "amsg", 4, NoOne, sent, told) /\ Unchanged
  BY Zenon DEF AdminMsgIRCCommand, NoOne
<1>2. "amsg" \notin OneTarget \cup {"die"} /\ {"not attached"} \subseteq Harmless
  BY DEF OneTarget, Harmless
<1>3. \A o \in sent : \E s \in At(c) : o \in To(s, "amsg", NoOne)
  BY DEF ToEach
<1>4. \A a \in told : a[1] \in Harmless
  BY <1>2, PlainAnswers DEF LastUnsent
<1> HIDE DEF sent, told
<1> QED  BY <1>1, <1>2, <1>3, <1>4, EachObeys

BotsSent(c, verb) == ToEach(c, LAMBDA s : To(s, verb, NoOne) \cup Say(s))

LEMMA BotsSentObeys ==
  ASSUME StateOK, NEW u \in Users, NEW c \in Channels,
         NEW cmd \in {"killbots", "addbots"}, NEW text,
         NEW verb \in {"killbots", "addbots", "addredbots", "addbluebots"},
         IRC(u, c, cmd, 2, text, BotsSent(c, verb), Unattached(c)), Unchanged
  PROVE  IInv' /\ Counts
<1>1. cmd \notin OneTarget \cup {"die"}
  BY DEF OneTarget
<1>2. \A o \in BotsSent(c, verb) : \E s \in At(c) : o \in Say(s) \/ o \in To(s, verb, NoOne)
  BY DEF BotsSent, ToEach
<1>3. \A a \in Unattached(c) : a[1] \in Harmless
  BY PlainAnswers
<1> QED  BY <1>1, <1>2, <1>3, EachObeys

LEMMA BotsObey ==
  ASSUME StateOK, NEW u \in Users, NEW c \in Channels,
         \/ KillBotsIRCCommand(u, c)
         \/ \E team \in {"", "gdi", "nod"} : AddBotsIRCCommand(u, c, team)
  PROVE  IInv' /\ Counts
<1>1. CASE KillBotsIRCCommand(u, c)
  <2>1. IRC(u, c, "killbots", 2, NoOne, BotsSent(c, "killbots"), Unattached(c)) /\ Unchanged
    BY <1>1, Zenon DEF KillBotsIRCCommand, BotsSent, NoOne
  <2> QED  BY <2>1, BotsSentObeys
<1>2. CASE \E team \in {"", "gdi", "nod"} : AddBotsIRCCommand(u, c, team)
  <2>1. PICK team \in {"", "gdi", "nod"} : AddBotsIRCCommand(u, c, team)
    BY <1>2
  <2>2. IRC(u, c, "addbots", 2, team, BotsSent(c, AddBotsVerb(team)), Unattached(c)) /\ Unchanged
    BY <2>1, Zenon DEF AddBotsIRCCommand, BotsSent
  <2>3. AddBotsVerb(team) \in {"killbots", "addbots", "addredbots", "addbluebots"}
    BY DEF AddBotsVerb
  <2> QED  BY <2>2, <2>3, BotsSentObeys
<1> QED  BY <1>1, <1>2

LEMMA RCONObeys ==
  ASSUME StateOK, NEW u \in Users, NEW c \in Channels, RCONIRCCommand(u, c)
  PROVE  IInv' /\ Counts
<1> DEFINE sent == ToEach(c, LAMBDA s : To(s, "raw", NoOne))
           told == IF sent = {} THEN Say1("not attached") ELSE Say1("counted")
<1>1. IRC(u, c, "rcon", 5, NoOne, sent, told) /\ Unchanged
  BY Zenon DEF RCONIRCCommand, NoOne
<1>2. "rcon" \notin OneTarget \cup {"die"} /\ {"not attached", "counted"} \subseteq Harmless
  BY DEF OneTarget, Harmless
<1>3. \A o \in sent : \E s \in At(c) : o \in To(s, "raw", NoOne)
  BY DEF ToEach
<1> HIDE DEF sent
<1>4. \A a \in told : a[1] \in Harmless
  BY <1>2, PlainAnswers
<1> HIDE DEF told
<1> QED  BY <1>1, <1>2, <1>3, <1>4, EachObeys

\* An order to cancel votes names a team, which is no player.
LEMMA OrderToCancel ==
  ASSUME StateOK, NEW s \in Servers, NEW text, NEW team \in {"all", "public", "gdi", "nod", "blackhand"},
         NEW o \in CancelVote(s, team)
  PROVE  o[1] = s /\ o[3] \notin Persons /\ Permitted("cancelvote", text, o)
<1>1. PICK t \in {"public", "gdi", "nod"} : o \in To(s, "cancelvote", t)
  BY DEF CancelVote
<1>2. o = <<s, "cancelvote", t, 0>>
  BY <1>1 DEF To, Send
<1>3. t \notin Persons
  BY CommandsAssumption
<1>4. "cancelvote" \in Verbs /\ "cancelvote" \notin OneTarget
  BY DEF Verbs, OneTarget
<1> QED  BY <1>2, <1>3, <1>4 DEF Permitted

LEMMA CancelVoteObeys ==
  ASSUME StateOK, NEW u \in Users, NEW c \in Channels,
         NEW team \in {"all", "public", "gdi", "nod", "blackhand"}, CancelVoteIRCCommand(u, c, team)
  PROVE  IInv' /\ Counts
<1> DEFINE sent == ToEach(c, LAMBDA s : CancelVote(s, team))
<1>1. IRC(u, c, "cancelvote", 2, team, sent, Unattached(c)) /\ Unchanged
  BY Zenon DEF CancelVoteIRCCommand
<1>2. \A o \in sent : \E s \in At(c) : o \in CancelVote(s, team)
  BY DEF ToEach
<1> HIDE DEF sent
<1>3. ASSUME NEW o \in sent
      PROVE  o[1] \in At(c) /\ Permitted("cancelvote", team, o)
  <2>1. PICK s \in At(c) : o \in CancelVote(s, team)
    BY <1>2
  <2>2. s \in Servers
    BY DEF At
  <2> QED  BY <2>1, <2>2, OrderToCancel
<1>4. Plain(Unattached(c)) /\ "cancelvote" # "die"
  BY PlainAnswers
<1> QED  BY <1>1, <1>3, <1>4, IRCObeys DEF Plain

\* A map that is found is one of the rotation.
LEMMA MapFacts ==
  ASSUME NEW s \in Servers, NEW t, MapNamed(s, t) # NoOne
  PROVE  MapNamed(s, t) \in Range(Rotation[s])
<1> DEFINE I == {i \in 1 .. Len(Rotation[s]) : Rotation[s][i] \in PartOf[t]}
<1>1. Rotation[s] \in Seq(Range(Rotation[s]))
  BY Zenon, GameServersAssumption
<1>2. I # {} => Min(I) \in I
  <2>1. I \in SUBSET Nat
    BY <1>1
  <2> QED  BY <2>1, FirstPosition
<1>3. MapNamed(s, t) = IF I # {} THEN IF Min(I) = 0 THEN NoOne ELSE Rotation[s][Min(I)] ELSE NoOne
  BY DEF MapNamed, SelectInSeq
<1>4. \A i \in I : Rotation[s][i] \in Range(Rotation[s])
  BY <1>1
<1> HIDE DEF I
<1> QED  BY <1>2, <1>3, <1>4

LEMMA SetMapObeys ==
  ASSUME StateOK, NEW u \in Users, NEW c \in Channels, NEW t, SetMapIRCCommand(u, c, t)
  PROVE  IInv' /\ Counts
<1> DEFINE sent == ToEach(c, LAMBDA s : IF MapNamed(s, t) = NoOne THEN {} ELSE To(s, "changemap", MapNamed(s, t)))
           shown == Listed(c, LAMBDA s : IF MapNamed(s, t) = NoOne THEN Say1("not in rotation")
                                         ELSE IF connected[s] THEN {} ELSE Say1("transmission error"))
           end == IF At(c) = {} \/ MapNamed(Attached(c)[Len(Attached(c))], t) = NoOne
                    THEN Say1("not attached") ELSE {}
<1>1. IRC(u, c, "setmap", 4, t, sent, shown \cup end) /\ Unchanged
  BY Zenon DEF SetMapIRCCommand
<1>2. "setmap" \notin OneTarget \cup {"die"} /\ "changemap" \in Verbs
      /\ {"not attached", "not in rotation", "transmission error"} \subseteq Harmless
  BY DEF OneTarget, Harmless, Verbs
<1>3. \A o \in sent : \E s \in At(c) : MapNamed(s, t) # NoOne /\ o \in To(s, "changemap", MapNamed(s, t))
  BY DEF ToEach
<1>4. ASSUME NEW o \in sent
      PROVE  o[1] \in At(c) /\ Permitted("setmap", t, o)
  <2> HIDE DEF sent
  <2>1. PICK s \in At(c) : MapNamed(s, t) # NoOne /\ o \in To(s, "changemap", MapNamed(s, t))
    BY <1>3
  <2>2. o = <<s, "changemap", MapNamed(s, t), 0>>
    BY <2>1 DEF To, Send
  <2>3. s \in Servers /\ MapNamed(s, t) \in Range(Rotation[s])
    BY <2>1, MapFacts DEF At
  <2>4. MapNamed(s, t) \notin Persons
    BY <2>3, CommandsAssumption
  <2> QED  BY <1>2, <2>1, <2>2, <2>3, <2>4 DEF Permitted
<1>5. \A a \in end : a[1] \in Harmless
  BY <1>2, PlainAnswers
<1>6. \A a \in shown : a[1] \in Harmless
  <2>1. \A a \in shown : a \in Say1("not in rotation") \cup Say1("transmission error")
    BY DEF Listed
  <2> QED  BY <1>2, <2>1, PlainAnswers
<1> HIDE DEF sent, shown, end
<1>7. Plain(shown \cup end)
  BY <1>5, <1>6, PlainAnswers
<1> QED  BY <1>1, <1>2, <1>4, <1>7, IRCObeys DEF Plain
\* the same order about whoever is found
VerbSent(c, t, verb) == ToFound(c, t, LAMBDA s, p : To(s, verb, p))

LEMMA VerbSentFacts ==
  ASSUME NEW cmd, cmd # "refund", NEW c, NEW t, NEW verb \in Verbs \ Unfair
  PROVE  \A o \in VerbSent(c, t, verb) : \E s \in Found(c, t) : OnWhoIsFound(cmd, s, t, o)
<1>1. \A o \in VerbSent(c, t, verb) : \E s \in Found(c, t) : o \in To(s, verb, PlayerByPartName(s, t))
  BY DEF VerbSent, ToFound
<1>2. verb \in Verbs \ {"changemap", "kill", "disarm", "disarmc4", "disarmb", "givecredits"}
  BY DEF Unfair
<1> QED  BY <1>1, <1>2, KindsOfOrders

\* Who may give a command gets it carried out.
LEMMA AllowedFacts ==
  ASSUME NEW u \in Users, NEW c, NEW cmd, NEW default, NEW text, NEW sent, NEW told,
         Allowed(u, c, cmd, default), IRC(u, c, cmd, default, text, sent, told)
  PROVE  last' = Report(u, UserAccess[u], c, cmd, text, sent, told)
<1> DEFINE needed == AccessLevel(cmd, default, c)
<1>1. needed \in 0 .. UserAccess[u] /\ UserAccess[u] \in Nat
  BY IRCCommandsAssumption DEF Allowed
<1> HIDE DEF needed
<1>2. ~(needed < 0) /\ ~(UserAccess[u] < needed)
  BY <1>1
<1> QED  BY <1>2, Zenon DEF IRC, needed

LEMMA ReconnectObeys ==
  ASSUME StateOK, NEW u \in Users, NEW c \in Channels, ReconnectIRCCommand(u, c)
  PROVE  IInv' /\ Counts
<1>1. PICK up \in SUBSET At(c) :
        /\ connected' = [s \in Servers |-> IF s \in At(c) THEN s \in up ELSE connected[s]]
        /\ IRC(u, c, "reconnect", 3, NoOne, {}, Unattached(c) \cup About("connected", up)
                 \cup About("not connected", At(c) \ up))
  BY Zenon DEF ReconnectIRCCommand, NoOne
<1> DEFINE told == Unattached(c) \cup About("connected", up) \cup About("not connected", At(c) \ up)
<1>2. {"connected", "not connected"} \subseteq Harmless
  BY DEF Harmless
<1>3. Plain(told)
  BY <1>2, PlainAnswers
<1> HIDE DEF told
<1>4. last' = Report(u, UserAccess[u], c, "reconnect", NoOne, {}, told)
  <2>1. Allowed(u, c, "reconnect", 3)
    BY Zenon DEF ReconnectIRCCommand
  <2>2. IRC(u, c, "reconnect", 3, NoOne, {}, told)
    BY <1>1, Zenon DEF told
  <2> QED  BY <2>1, <2>2, AllowedFacts
<1>5. PICK r : r = last'
  OBVIOUS
<1>6. r.sent = {} /\ r.told = told
  BY <1>4, <1>5, ReportFacts
<1>7. Proper(last)'
  BY <1>3, <1>5, <1>6 DEF Proper, Plain
<1>8. At(c) \in SUBSET Servers
  BY DEF At
<1>9. players' = [s \in Servers |-> IF s \in At(c) THEN <<>> ELSE players[s]]
      /\ Gone({p \in Persons : Who[p].server \in At(c)}) /\ phasing' = phasing
  BY Zenon DEF ReconnectIRCCommand
<1>10. connected' \in [Servers -> BOOLEAN] /\ \A s \in Servers \ At(c) : connected'[s] = connected[s]
  <2>1. \A s \in Servers : (IF s \in At(c) THEN s \in up ELSE connected[s]) \in BOOLEAN
    <3> TAKE s \in Servers
    <3>1. (s \in up) \in BOOLEAN
      BY ONLY SMT
    <3>2. connected[s] \in BOOLEAN
      BY DEF StateOK
    <3>3. CASE s \in At(c)
      BY <3>1, <3>3, Zenon
    <3>4. CASE s \notin At(c)
      BY <3>2, <3>4, Zenon
    <3> QED  BY <3>3, <3>4, Zenon
  <2>2. connected' \in [Servers -> BOOLEAN]
    BY <1>1, <2>1, Zenon
  <2>3. \A s \in Servers \ At(c) : connected'[s] = connected[s]
    BY <1>1, Zenon
  <2> QED  BY <2>2, <2>3
<1>11. /\ StateOK'
       /\ \A h \in Servers : \A x \in Range(players[h]) \cap Range(players'[h]) : ~(warns'[x] < warns[x])
  BY <1>8, <1>9, <1>10, CutOff
<1>12. \A a \in last'.told : a[1] # "warned"
  BY <1>3, <1>5, <1>6 DEF Plain
<1> QED  BY <1>7, <1>11, <1>12 DEF IInv, Counts

LEMMA PhaseBotsObeys ==
  ASSUME StateOK, NEW u \in Users, NEW c \in Channels, NEW asked \in {"", "on", "off"},
         PhaseBotsIRCCommand(u, c, asked)
  PROVE  IInv' /\ Counts
<1> DEFINE sent == ToEach(c, Say)
           told == Unattached(c)
<1>1. /\ IRC(u, c, "phasebots", 2, asked, sent, told)
      /\ UNCHANGED <<players, connected, access, warns>>
      /\ phasing' = [s \in Servers |-> IF s \in At(c) THEN Phased(s, asked) ELSE phasing[s]]
  BY Zenon DEF PhaseBotsIRCCommand
<1>2. phasing' \in [Servers -> BOOLEAN]
  <2>1. \A s \in Servers : Phased(s, asked) \in BOOLEAN
    BY DEF Phased, StateOK
  <2> QED  BY <1>1, <2>1 DEF StateOK
<1>3. StateOK'
  BY <1>1, <1>2 DEF StateOK
<1>4. "phasebots" \notin OneTarget \cup {"die"}
  BY DEF OneTarget
<1>5. \A o \in sent : \E s \in At(c) : o \in Say(s)
  BY DEF ToEach
<1>6. Plain(told)
  BY PlainAnswers
<1> HIDE DEF sent, told
<1>7. \A o \in sent : o[1] \in At(c) /\ Permitted("phasebots", asked, o)
  BY <1>4, <1>5, OrderToSay DEF At
<1>8. Proper(last)'
  BY <1>1, <1>4, <1>6, <1>7, IRCProper DEF Plain
<1>9. \A a \in last'.told : a[1] # "warned"
  BY <1>1, <1>6, AnswersOrRefuses DEF Plain
<1>10. \A h \in Servers : \A x \in Range(players[h]) : ~(warns'[x] < warns[x])
  BY <1>1, WarningsStand
<1> QED  BY <1>1, <1>3, <1>8, <1>9, <1>10 DEF IInv, Counts

----------------------------------------------------------------------------
(***************************************************************************)
(* Commands in channels about who is found                                 *)
(***************************************************************************)

LEMMA MessagesObey ==
  ASSUME StateOK, NEW u \in Users, NEW c \in Channels, NEW t,
         PMsgIRCCommand(u, c, t) \/ PAdminMsgIRCCommand(u, c, t)
  PROVE  IInv' /\ Counts
<1>1. PICK cmd \in {"pmsg", "pamsg"}, default \in {1, 4}, verb \in {"privatesay", "pamsg"} :
        IRC(u, c, cmd, default, t, VerbSent(c, t, verb), Missing(c, t)) /\ Unchanged
  <2>1. CASE PMsgIRCCommand(u, c, t)
    BY <2>1, Zenon DEF PMsgIRCCommand, VerbSent
  <2>2. CASE PAdminMsgIRCCommand(u, c, t)
    BY <2>2, Zenon DEF PAdminMsgIRCCommand, VerbSent
  <2> QED  BY <2>1, <2>2
<1>2. verb \in Verbs \ Unfair /\ cmd \notin {"die", "tban", "tchatban", "refund"}
  BY DEF Verbs, Unfair
<1>3. \A a \in Missing(c, t) : a[1] \in Harmless
  BY PlainAnswers
<1> QED  BY <1>1, <1>2, <1>3, VerbSentFacts, FoundObeys

LEMMA OnFoundObeys ==
  ASSUME StateOK, NEW u \in Users, NEW c \in Channels, NEW t,
         MuteIRCCommand(u, c, t) \/ UnMuteIRCCommand(u, c, t) \/ MineBanIRCCommand(u, c, t)
  PROVE  IInv' /\ Counts
<1>1. PICK cmd \in {"mute", "unmute", "mineban"}, verb \in {"textmute", "textunmute", "mineban"} :
        OnFound(u, c, cmd, 2, t, verb)
  BY Zenon DEF MuteIRCCommand, UnMuteIRCCommand, MineBanIRCCommand
<1> DEFINE told == Unattached(c) \cup Missing(c, t) \cup AboutFound(c, t, "done")
<1>2. IRC(u, c, cmd, 2, t, VerbSent(c, t, verb), told) /\ Unchanged
  BY <1>1, Zenon DEF OnFound, VerbSent
<1>3. verb \in Verbs \ Unfair /\ cmd \notin {"die", "tban", "tchatban", "refund"}
  BY DEF Verbs, Unfair
<1>4. "done" \in Harmless
  BY DEF Harmless
<1>5. \A a \in told : a[1] \in Harmless
  BY <1>4, PlainAnswers
<1> HIDE DEF told
<1> QED  BY <1>2, <1>3, <1>5, VerbSentFacts, FoundObeys
\* the order that competitive servers are not given, about whoever is found
FairSent(c, t, verb) == ToFound(c, t, LAMBDA s, p : Fair(s, verb, p))

LEMMA FairSentFacts ==
  ASSUME NEW cmd, NEW c, NEW t, NEW verb \in Verbs \ {"changemap"}
  PROVE  \A o \in FairSent(c, t, verb) : \E s \in Found(c, t) : OnWhoIsFound(cmd, s, t, o)
<1>1. \A o \in FairSent(c, t, verb) : \E s \in Found(c, t) : o \in Fair(s, verb, PlayerByPartName(s, t))
  BY DEF FairSent, ToFound
<1> QED  BY <1>1, KindsOfOrders

LEMMA KillObeys ==
  ASSUME StateOK, NEW u \in Users, NEW c \in Channels, NEW t, KillIRCCommand(u, c, t)
  PROVE  IInv' /\ Counts
<1> DEFINE told == Unattached(c) \cup Missing(c, t)
<1>1. IRC(u, c, "kill", 2, t, FairSent(c, t, "kill"), told) /\ Unchanged
  BY Zenon DEF KillIRCCommand, FairSent
<1>2. "kill" \in Verbs \ {"changemap"}
  BY DEF Verbs
<1>3. \A a \in told : a[1] \in Harmless
  BY PlainAnswers
<1> HIDE DEF told
<1> QED  BY <1>1, <1>2, <1>3, FairSentFacts, FoundObeys

LEMMA DisarmObeys ==
  ASSUME StateOK, NEW u \in Users, NEW c \in Channels, NEW t,
         DisarmIRCCommand(u, c, t) \/ DisarmC4IRCCommand(u, c, t) \/ DisarmBeaconIRCCommand(u, c, t)
  PROVE  IInv' /\ Counts
<1>1. PICK cmd \in {"disarm", "disarmc4", "disarmb"} : OnFoundIfFair(u, c, cmd, t)
  BY Zenon DEF DisarmIRCCommand, DisarmC4IRCCommand, DisarmBeaconIRCCommand
<1> DEFINE sent == FairSent(c, t, cmd)
           each == {<<IF \E o \in sent : o[1] = s THEN "done" ELSE "unsupported", PlayerByPartName(s, t)>> :
                      s \in Found(c, t)}
           told == Unattached(c) \cup Missing(c, t) \cup each
<1>2. IRC(u, c, cmd, 2, t, sent, told) /\ Unchanged
  BY <1>1, Zenon DEF OnFoundIfFair, FairSent
<1>3. cmd \in Verbs \ {"changemap"} /\ cmd \notin {"die", "tban", "tchatban"}
  BY DEF Verbs
<1> HIDE DEF sent
<1>4. {"done", "unsupported"} \subseteq Harmless
  BY DEF Harmless
<1>5. \A a \in each : a[1] \in {"done", "unsupported"}
  OBVIOUS
<1> HIDE DEF each
<1>6. \A a \in told : a[1] \in Harmless
  BY <1>4, <1>5, PlainAnswers
<1> HIDE DEF told
<1>7. \A o \in sent : \E s \in Found(c, t) : OnWhoIsFound(cmd, s, t, o)
  BY <1>3, FairSentFacts DEF sent
<1> QED  BY <1>2, <1>3, <1>6, <1>7, FoundObeys

\* kick, ban, nmode and smode
LEMMA CountedObeys ==
  ASSUME StateOK, NEW u \in Users, NEW c \in Channels, NEW t,
         \/ KickIRCCommand(u, c, t) \/ KickBanIRCCommand(u, c, t)
         \/ NModeIRCCommand(u, c, t) \/ SModeIRCCommand(u, c, t)
  PROVE  IInv' /\ Counts
<1> DEFINE Fit(cmd, sent) == \A o \in sent : \E s \in Found(c, t) : OnWhoIsFound(cmd, s, t, o)
<1>1. ASSUME NEW cmd \in {"kick", "ban", "nmode", "smode"}, NEW default, NEW sent,
             OnFoundCounted(u, c, cmd, default, t, sent), Fit(cmd, sent)
      PROVE  IInv' /\ Counts
  <2> DEFINE told == Unattached(c) \cup AboutFound(c, t, "counted")
  <2>1. IRC(u, c, cmd, default, t, sent, told) /\ Unchanged
    BY <1>1, Zenon DEF OnFoundCounted
  <2>2. "counted" \in Harmless
    BY DEF Harmless
  <2>3. \A a \in told : a[1] \in Harmless
    BY <2>2, PlainAnswers
  <2> HIDE DEF told
  <2>4. cmd \notin {"die", "tban", "tchatban"}
    BY <1>1
  <2> QED  BY <1>1, <2>1, <2>3, <2>4, FoundObeys
<1>2. CASE KickIRCCommand(u, c, t)
  <2> DEFINE sent == ToFound(c, t, Kick)
  <2>1. \A o \in sent : \E s \in Found(c, t) : o \in Kick(s, PlayerByPartName(s, t))
    BY DEF ToFound
  <2>2. OnFoundCounted(u, c, "kick", 2, t, sent)
    BY <1>2, Zenon DEF KickIRCCommand
  <2> HIDE DEF sent
  <2>3. Fit("kick", sent)
    BY <2>1, KindsOfOrders
  <2> HIDE DEF Fit
  <2> QED  BY <1>1, <2>2, <2>3
<1>3. CASE KickBanIRCCommand(u, c, t)
  <2> DEFINE sent == ToFound(c, t, LAMBDA s, p : Ban(s, p, 0))
  <2>1. \A o \in sent : \E s \in Found(c, t) : o \in Ban(s, PlayerByPartName(s, t), 0)
    BY DEF ToFound
  <2>2. OnFoundCounted(u, c, "ban", 4, t, sent)
    BY <1>3, Zenon DEF KickBanIRCCommand
  <2> HIDE DEF sent
  <2>3. Fit("ban", sent)
    BY <2>1, KindsOfOrders
  <2> HIDE DEF Fit
  <2> QED  BY <1>1, <2>2, <2>3
<1>4. CASE NModeIRCCommand(u, c, t)
  <2>1. OnFoundCounted(u, c, "nmode", 2, t, VerbSent(c, t, "nmode"))
    BY <1>4, Zenon DEF NModeIRCCommand, VerbSent
  <2>2. "nmode" \in Verbs \ Unfair
    BY DEF Verbs, Unfair
  <2>3. Fit("nmode", VerbSent(c, t, "nmode"))
    BY <2>2, VerbSentFacts
  <2> HIDE DEF Fit
  <2> QED  BY <1>1, <2>1, <2>3
<1>5. CASE SModeIRCCommand(u, c, t)
  <2>1. OnFoundCounted(u, c, "smode", 2, t, VerbSent(c, t, "smode"))
    BY <1>5, Zenon DEF SModeIRCCommand, VerbSent
  <2>2. "smode" \in Verbs \ Unfair
    BY DEF Verbs, Unfair
  <2>3. Fit("smode", VerbSent(c, t, "smode"))
    BY <2>2, VerbSentFacts
  <2> HIDE DEF Fit
  <2> QED  BY <1>1, <2>1, <2>3
<1> QED  BY <1>2, <1>3, <1>4, <1>5

\* A refund is said to who is given one, where one can be given.
LEMMA RefundObeys ==
  ASSUME StateOK, NEW u \in Users, NEW c \in Channels, NEW t, RefundIRCCommand(u, c, t)
  PROVE  IInv' /\ Counts
<1> DEFINE given == FairSent(c, t, "givecredits")
           said == UNION {To(o[1], "privatesay", o[3]) : o \in given}
           sent == given \cup said
           each == {<<IF \E o \in given : o[1] = s THEN "done" ELSE "unsupported", PlayerByPartName(s, t)>> :
                      s \in Found(c, t)}
           told == IF Found(c, t) = {} THEN Say1("not found") ELSE each
<1>1. IRC(u, c, "refund", 3, t, sent, told) /\ Unchanged
  BY Zenon DEF RefundIRCCommand, FairSent
<1>2. ASSUME NEW o \in given
      PROVE  /\ \E s \in Found(c, t) : OnWhoIsFound("refund", s, t, o)
             /\ o[1] \notin Competitive
  <2>1. PICK s \in Found(c, t) : o \in Fair(s, "givecredits", PlayerByPartName(s, t))
    BY DEF FairSent, ToFound
  <2>2. s \notin Competitive /\ o = <<s, "givecredits", PlayerByPartName(s, t), 0>>
    BY <2>1 DEF Fair, To, Send
  <2>3. "givecredits" \in Verbs \ {"changemap"}
    BY DEF Verbs
  <2> QED  BY <2>1, <2>2, <2>3, KindsOfOrders
<1> HIDE DEF given
<1>3. ASSUME NEW x \in said
      PROVE  \E s \in Found(c, t) : OnWhoIsFound("refund", s, t, x)
  <2>1. PICK o \in given : x \in To(o[1], "privatesay", o[3])
    OBVIOUS
  <2>2. x = <<o[1], "privatesay", o[3], 0>>
    BY <2>1 DEF To, Send
  <2>3. "privatesay" \in Verbs
    BY DEF Verbs
  <2>4. PICK s \in Found(c, t) : OnWhoIsFound("refund", s, t, o)
    BY <1>2
  <2> QED  BY <1>2, <2>2, <2>3, <2>4 DEF OnWhoIsFound
<1>4. {"done", "unsupported", "not found"} \subseteq Harmless
  BY DEF Harmless
<1>5. \A a \in each : a[1] \in {"done", "unsupported"}
  OBVIOUS
<1> HIDE DEF each, said
<1>6. \A a \in told : a[1] \in Harmless
  BY <1>4, <1>5, PlainAnswers
<1>7. \A o \in sent : \E s \in Found(c, t) : OnWhoIsFound("refund", s, t, o)
  BY <1>2, <1>3
<1> HIDE DEF told, sent
<1> QED  BY <1>1, <1>6, <1>7, FoundObeys
\* team and team2 are about all whose names match, so nobody hit instead
LEMMA TeamObeys ==
  ASSUME StateOK, NEW u \in Users, NEW c \in Channels, NEW t,
         TeamChangeIRCCommand(u, c, t) \/ TeamChange2IRCCommand(u, c, t)
  PROVE  IInv' /\ Counts
<1>1. PICK cmd \in {"team", "team2"} : OnMatches(u, c, cmd, t)
  BY Zenon DEF TeamChangeIRCCommand, TeamChange2IRCCommand
<1> DEFINE sent == ToEach(c, LAMBDA s : UNION {To(s, cmd, p) : p \in Matches(s, t)})
           told == IF Listed(c, LAMBDA s : Matches(s, t)) = {} THEN Say1("not found") ELSE {}
<1>2. IRC(u, c, cmd, 3, t, sent, told) /\ Unchanged
  BY <1>1, Zenon DEF OnMatches
<1>3. \A o \in sent : \E s \in At(c) : \E p \in Matches(s, t) : o \in To(s, cmd, p)
  BY DEF ToEach
<1> HIDE DEF sent
<1>4. cmd \in Verbs \ Unfair /\ cmd \notin OneTarget \cup {"die", "refund", "tban", "tchatban"}
  BY DEF Verbs, Unfair, OneTarget
<1>5. ASSUME NEW o \in sent
      PROVE  o[1] \in At(c) /\ Permitted(cmd, t, o)
  <2>0. PICK s \in At(c) : \E p \in Matches(s, t) : o \in To(s, cmd, p)
    BY <1>3
  <2>1. PICK p \in Matches(s, t) : o \in To(s, cmd, p)
    BY <2>0
  <2>2. o = <<s, cmd, p, 0>>
    BY <2>1 DEF To, Send
  <2>3. s \in Servers /\ p \in Range(players[s])
    BY DEF At, Matches
  <2> QED  BY <1>4, <2>2, <2>3 DEF Permitted, Unfair
<1>6. "not found" \in Harmless
  BY DEF Harmless
<1>7. \A a \in Say1("not found") : a[1] \in Harmless
  BY <1>6, PlainAnswers
<1>8. told \in {Say1("not found"), {}}
  BY Zenon
<1> HIDE DEF told
<1>9. Plain(told)
  BY <1>7, <1>8, PlainAnswers
<1> QED  BY <1>2, <1>4, <1>5, <1>9, IRCObeys DEF Plain

\* The first server attached on which somebody is found, if there is one.
LEMMA FirstFoundFacts ==
  ASSUME NEW c, NEW t, FirstFound(c, t) # <<>>
  PROVE  FirstFound(c, t)[1] \in Found(c, t)
<1> DEFINE I == {i \in 1 .. Len(ServerList) : ServerList[i] \in Found(c, t)}
<1>1. ServerList \in Seq(Servers)
  BY Zenon, GameServersAssumption
<1>2. I # {} => Min(I) \in I
  <2>1. I \in SUBSET Nat
    BY <1>1
  <2> QED  BY <2>1, FirstPosition
<1>3. FirstFound(c, t) = IF I # {} THEN IF Min(I) = 0 THEN <<>> ELSE <<ServerList[Min(I)]>> ELSE <<>>
  BY DEF FirstFound, SelectInSeq
<1>4. \A i \in I : ServerList[i] \in Found(c, t)
  OBVIOUS
<1> HIDE DEF I
<1> QED  BY <1>2, <1>3, <1>4

\* A length of time is never longer than the longest, nor nothing.
Timed(timed, t) == IF ~timed THEN DefaultTBan ELSE IF Span[t] < MaxTBan THEN Span[t] ELSE MaxTBan

LEMMA TimedFacts ==
  ASSUME NEW t \in Texts, NEW timed \in BOOLEAN, timed => Span[t] > 0
  PROVE  Timed(timed, t) \in 1 .. MaxTBan
<1>1. DefaultTBan \in 1 .. MaxTBan /\ MaxTBan \in Nat /\ Span[t] \in Nat
  BY Limits
<1>2. MaxTBan \in 1 .. MaxTBan
  BY <1>1
<1>3. CASE timed
  BY <1>1, <1>2, <1>3 DEF Timed
<1>4. CASE ~timed
  BY <1>1, <1>4 DEF Timed
<1> QED  BY <1>3, <1>4

LEMMA TempBanObeys ==
  ASSUME StateOK, NEW u \in Users, NEW c \in Channels, NEW t1 \in Texts, NEW t2,
         TempBanIRCCommand(u, c, t1, t2) \/ TempChatBanIRCCommand(u, c, t1, t2)
  PROVE  IInv' /\ Counts
<1> DEFINE timed == FirstFound(c, t1) = <<>> /\ t2 # "" /\ Span[t1] > 0
           t == IF timed THEN t2 ELSE t1
           much == Timed(timed, t1)
           at == FirstFound(c, t)
           told == IF At(c) = {} THEN Unattached(c) ELSE IF at = <<>> THEN Say1("not found") ELSE Say1("done")
           banned == IF at = <<>> THEN {} ELSE Ban(at[1], PlayerByPartName(at[1], t), much)
           muted == IF at = <<>> THEN {} ELSE {<<at[1], "chatban", PlayerByPartName(at[1], t), much>>}
<1>1. PICK cmd \in {"tban", "tchatban"}, sent \in {banned, muted} :
        IRC(u, c, cmd, 3, t, sent, told) /\ Unchanged
  <2>1. CASE TempBanIRCCommand(u, c, t1, t2)
    <3>1. IRC(u, c, "tban", 3, t, banned, told) /\ Unchanged
      BY <2>1, Zenon DEF TempBanIRCCommand, TimedOnFirst, Timed
    <3> HIDE DEF t, banned, muted, told
    <3> QED  BY <3>1, Zenon
  <2>2. CASE TempChatBanIRCCommand(u, c, t1, t2)
    <3>1. IRC(u, c, "tchatban", 3, t, muted, told) /\ Unchanged
      BY <2>2, Zenon DEF TempChatBanIRCCommand, TimedOnFirst, Timed
    <3> HIDE DEF t, banned, muted, told
    <3> QED  BY <3>1, Zenon
  <2> QED  BY <2>1, <2>2
<1>2. much \in 1 .. MaxTBan
  <2>1. (timed = TRUE \/ timed = FALSE) /\ (timed => Span[t1] > 0)
    BY Zenon
  <2> HIDE DEF timed
  <2> QED  BY <2>1, TimedFacts
<1> HIDE DEF t, much
<1>3. ASSUME NEW o \in sent
      PROVE  /\ at # <<>>
             /\ o[1] = at[1] /\ o[2] \in {"ban", "chatban"} /\ o[3] = PlayerByPartName(at[1], t) /\ o[4] = much
  <2>1. at # <<>>
    OBVIOUS
  <2>2. o \in {<<at[1], "ban", PlayerByPartName(at[1], t), much>>, <<at[1], "chatban", PlayerByPartName(at[1], t), much>>}
    BY <2>1 DEF Ban, Send
  <2> HIDE DEF at
  <2> QED  BY <2>1, <2>2
<1>4. {"ban", "chatban"} \subseteq Verbs /\ cmd \notin {"die", "refund"}
  BY DEF Verbs
<1> HIDE DEF banned, muted
<1>5. ASSUME NEW o \in sent
      PROVE  o[1] \in At(c) /\ Permitted(cmd, t, o)
  <2>1. at # <<>> /\ at[1] \in Found(c, t)
    BY <1>3, FirstFoundFacts
  <2>2. at[1] \in At(c) /\ at[1] \in Servers /\ PlayerByPartName(at[1], t) # NoOne
    BY <2>1 DEF Found, At
  <2> HIDE DEF at
  <2> QED  BY <1>2, <1>3, <1>4, <2>2, OrderToFound
<1>6. {"not found", "done"} \subseteq Harmless
  BY DEF Harmless
<1>7. told \in {Unattached(c), Say1("not found"), Say1("done")}
  BY Zenon
<1> HIDE DEF told
<1>8. Plain(told)
  BY <1>6, <1>7, PlainAnswers
<1> QED  BY <1>1, <1>4, <1>5, <1>8, IRCObeys DEF Plain
----------------------------------------------------------------------------
(***************************************************************************)
(* Warnings                                                                *)
(***************************************************************************)

\* What a warning comes to is ordered about who is warned; whoever has all
\* warnings and is not exempt is thrown out: he is listed, so the server is
\* connected.
LEMMA WarnedFacts ==
  ASSUME StateOK, NEW s \in Servers, NEW t, NEW p, p = PlayerByPartName(s, t), p # NoOne
  PROVE  /\ \A o \in Warned(s, p) : OnWhoIsFound("warn", s, t, o)
         /\ warns[p] = MaxWarns /\ p \notin KickExempt \cup BanExempt
              => \E o \in Warned(s, p) : o[2] \in {"kick", "ban"} /\ o[3] = p
         /\ WarnsAfter(p) \in 0 .. MaxWarns /\ ~(WarnsAfter(p) < warns[p])
<1>1. p \in Range(players[s]) /\ p \in Persons
  BY LookUpFacts
<1>2. warns[p] \in 0 .. MaxWarns /\ MaxWarns \in Nat
  BY <1>1, Limits DEF StateOK
<1>3. connected[s]
  <2>1. players[s] # <<>>
    BY <1>1 DEF Range
  <2> QED  BY <2>1 DEF StateOK
<1>4. "warn" \in Verbs \ {"changemap", "kill", "disarm", "disarmc4", "disarmb", "givecredits"}
  BY DEF Verbs
<1>5. \A o \in Warned(s, p) : o \in To(s, "warn", p) \/ o \in Kick(s, p) \/ \E n : o \in Ban(s, p, n)
  BY DEF Warned
<1>6. \A o \in Warned(s, p) : OnWhoIsFound("warn", s, t, o)
  BY <1>4, <1>5, KindsOfOrders
<1>7. ASSUME warns[p] = MaxWarns, p \notin KickExempt \cup BanExempt
      PROVE  \E o \in Warned(s, p) : o[2] \in {"kick", "ban"} /\ o[3] = p
  <2>1. ~(warns[p] + 1 <= MaxWarns)
    BY <1>2, <1>7
  <2>2. Warned(s, p) = IF WarnAction = -1 THEN {<<s, "kick", p, 0>>} ELSE {<<s, "ban", p, WarnAction>>}
    BY <1>3, <1>7, <2>1 DEF Warned, Kick, Ban, To, Send
  <2>3. CASE WarnAction = -1
    <3> DEFINE o == <<s, "kick", p, 0>>
    <3>1. o \in Warned(s, p) /\ o[2] = "kick" /\ o[3] = p
      BY <2>2, <2>3
    <3> HIDE DEF o
    <3> QED  BY <3>1
  <2>4. CASE WarnAction # -1
    <3> DEFINE o == <<s, "ban", p, WarnAction>>
    <3>1. o \in Warned(s, p) /\ o[2] = "ban" /\ o[3] = p
      BY <2>2, <2>4
    <3> HIDE DEF o
    <3> QED  BY <3>1
  <2> QED  BY <2>3, <2>4
<1>8. WarnsAfter(p) \in 0 .. MaxWarns /\ ~(WarnsAfter(p) < warns[p])
  BY <1>2 DEF WarnsAfter
<1> QED  BY <1>6, <1>7, <1>8

LEMMA WarnObeys ==
  ASSUME StateOK, NEW u \in Users, NEW c \in Channels, NEW t, WarnIRCCommand(u, c, t)
  PROVE  IInv' /\ Counts
<1> DEFINE sent == ToFound(c, t, Warned)
           told == Unattached(c) \cup AboutFound(c, t, "warned")
<1>1. /\ IRC(u, c, "warn", 2, t, sent, told) /\ Allowed(u, c, "warn", 2)
      /\ UNCHANGED <<players, connected, access, phasing>>
      /\ warns' = [p \in Persons |->
           IF \E s \in Found(c, t) : PlayerByPartName(s, t) = p THEN WarnsAfter(p) ELSE warns[p]]
  BY Zenon DEF WarnIRCCommand
<1>2. \A s \in Found(c, t) : s \in At(c) /\ s \in Servers /\ PlayerByPartName(s, t) # NoOne
  BY DEF Found, At
<1>3. warns' \in [Persons -> 0 .. MaxWarns] /\ \A p \in Persons : ~(warns'[p] < warns[p])
  <2>1. ASSUME NEW p \in Persons
        PROVE  warns'[p] \in 0 .. MaxWarns /\ ~(warns'[p] < warns[p])
    <3>1. warns[p] \in 0 .. MaxWarns /\ ~(warns[p] < warns[p])
      BY Limits DEF StateOK
    <3>2. CASE \E s \in Found(c, t) : PlayerByPartName(s, t) = p
      <4>1. PICK s \in Found(c, t) : PlayerByPartName(s, t) = p
        BY <3>2
      <4>2. WarnsAfter(p) \in 0 .. MaxWarns /\ ~(WarnsAfter(p) < warns[p])
        BY <1>2, <4>1, WarnedFacts
      <4> QED  BY <1>1, <3>2, <4>2
    <3>3. CASE ~\E s \in Found(c, t) : PlayerByPartName(s, t) = p
      BY <1>1, <3>1, <3>3
    <3> QED  BY <3>2, <3>3
  <2>2. \E f : warns' = [p \in Persons |-> f[p]]
    <3>1. warns' = [p \in Persons |-> warns'[p]]
      BY <1>1
    <3> QED  BY <3>1
  <2> QED  BY <2>1, <2>2
<1>4. StateOK'
  BY <1>1, <1>3 DEF StateOK
<1>5. \A o \in sent : \E s \in Found(c, t) : o \in Warned(s, PlayerByPartName(s, t))
  BY DEF ToFound
<1>6. \A s \in Found(c, t) : \A o \in Warned(s, PlayerByPartName(s, t)) : o \in sent
  BY DEF ToFound
<1>7. \A a \in told : a[1] \in Harmless \/ \E s \in Found(c, t) : a = <<"warned", PlayerByPartName(s, t)>>
  <2>1. \A a \in AboutFound(c, t, "warned") : \E s \in Found(c, t) : a = <<"warned", PlayerByPartName(s, t)>>
    BY DEF AboutFound, About
  <2> QED  BY <2>1, PlainAnswers
<1>8. "warned" \notin Harmless /\ "address" \notin Harmless /\ "warned" # "address"
  BY DEF Harmless
<1> HIDE DEF sent, told
<1>9. ASSUME NEW o \in sent
      PROVE  o[1] \in At(c) /\ Permitted("warn", t, o)
  <2>1. PICK s \in Found(c, t) : o \in Warned(s, PlayerByPartName(s, t))
    BY <1>5
  <2>2. OnWhoIsFound("warn", s, t, o)
    BY <1>2, <2>1, WarnedFacts
  <2> QED  BY <1>2, <2>2, OrderToFound DEF OnWhoIsFound
<1>10. \A a \in told : a[1] # "address"
  BY <1>7, <1>8
<1>11. Proper(last)'
  BY <1>1, <1>9, <1>10, IRCProper
<1>12. last'.told = told /\ last'.sent = sent
  BY <1>1, AllowedFacts, ReportFacts
<1>13. ASSUME NEW a \in told, a[1] = "warned", warns[a[2]] = MaxWarns, a[2] \notin KickExempt \cup BanExempt
       PROVE  \E o \in sent : o[2] \in {"kick", "ban"} /\ o[3] = a[2]
  <2>1. PICK s \in Found(c, t) : a = <<"warned", PlayerByPartName(s, t)>>
    BY <1>7, <1>8, <1>13
  <2>2. a[2] = PlayerByPartName(s, t)
    BY <2>1
  <2>3. \E o \in Warned(s, PlayerByPartName(s, t)) : o[2] \in {"kick", "ban"} /\ o[3] = a[2]
    BY <1>2, <1>13, <2>2, WarnedFacts
  <2> QED  BY <1>6, <2>3
<1>14. \A h \in Servers : \A x \in Range(players[h]) : ~(warns'[x] < warns[x])
  BY <1>3, ListedFacts
<1> QED  BY <1>4, <1>11, <1>12, <1>13, <1>14 DEF IInv, Counts

LEMMA PardonObeys ==
  ASSUME StateOK, NEW u \in Users, NEW c \in Channels, NEW t, PardonIRCCommand(u, c, t)
  PROVE  IInv' /\ Counts
<1> DEFINE sent == VerbSent(c, t, "privatesay")
           told == Unattached(c) \cup AboutFound(c, t, "pardoned")
<1>1. /\ IRC(u, c, "pardon", 2, t, sent, told) /\ Allowed(u, c, "pardon", 2)
      /\ UNCHANGED <<players, connected, access, phasing>>
      /\ warns' = [p \in Persons |->
           IF \E s \in Found(c, t) : PlayerByPartName(s, t) = p THEN 0 ELSE warns[p]]
  BY Zenon DEF PardonIRCCommand, VerbSent
<1>2. warns' \in [Persons -> 0 .. MaxWarns]
  <2>1. 0 \in 0 .. MaxWarns
    BY Limits
  <2> QED  BY <1>1, <2>1 DEF StateOK
<1>3. StateOK'
  BY <1>1, <1>2 DEF StateOK
<1>4. "privatesay" \in Verbs \ Unfair /\ "pardoned" \in Harmless
  BY DEF Verbs, Unfair, Harmless
<1>5. \A o \in sent : \E s \in Found(c, t) : OnWhoIsFound("pardon", s, t, o)
  BY <1>4, VerbSentFacts
<1> HIDE DEF sent
<1>6. ASSUME NEW o \in sent
      PROVE  o[1] \in At(c) /\ Permitted("pardon", t, o)
  <2>1. PICK s \in Found(c, t) : OnWhoIsFound("pardon", s, t, o)
    BY <1>5
  <2>2. s \in At(c) /\ s \in Servers /\ PlayerByPartName(s, t) # NoOne
    BY DEF Found, At
  <2> QED  BY <2>1, <2>2, OrderToFound DEF OnWhoIsFound
<1>7. Plain(told)
  BY <1>4, PlainAnswers
<1> HIDE DEF told
<1>8. Proper(last)'
  BY <1>1, <1>6, <1>7, IRCProper DEF Plain
<1>9. last'.told = told /\ last'.cmd = "pardon"
  BY <1>1, AllowedFacts, ReportFacts
<1> QED  BY <1>3, <1>7, <1>8, <1>9 DEF IInv, Counts, Plain

----------------------------------------------------------------------------
(***************************************************************************)
(* Commands in the game                                                    *)
(***************************************************************************)

LEMMA SpeakerFacts ==
  ASSUME NEW j \in Persons
  PROVE  At0(j) \in Servers /\ At0(j) \notin Channels
<1> QED  BY CommandsAssumption, GameServersAssumption DEF At0

\* A command in the game that orders nothing about anybody.
LEMMA QuietObeys ==
  ASSUME StateOK, NEW j \in Persons, NEW cmd, cmd \notin OneTarget \cup {"die"}, NEW text, NEW sent, NEW told,
         Game(j, cmd, text, sent, told), Same,
         \A o \in sent : \E verb \in {"say", "amsg", "raw", "killbots", "addbots", "addredbots", "addbluebots"} :
           o \in To(At0(j), verb, NoOne),
         \A a \in told : a[1] \in Harmless
  PROVE  IInv' /\ Counts
<1>1. Plain(told) /\ Unchanged
  BY PlainAnswers DEF Same, Unchanged
<1>2. \A o \in sent : o[1] = At0(j) /\ o[3] \notin Persons /\ Permitted(cmd, text, o)
  BY SpeakerFacts, OrderToNobody
<1> QED  BY <1>1, <1>2, GameObeys

LEMMA HelpObeys ==
  ASSUME StateOK, NEW j \in Persons,
         HelpGameCommand(j) \/ \E cmd \in DOMAIN DefaultLevel : HelpAbout(j, cmd)
  PROVE  IInv' /\ Counts
<1>1. {"help", "not found", "denied"} \subseteq Harmless
  BY DEF Harmless
<1>2. "help" \notin OneTarget \cup {"die"}
  BY DEF OneTarget
<1>3. CASE HelpGameCommand(j)
  <2> DEFINE known == {d \in Added(At0(j)) : Level(At0(j), d) <= access[j]}
             told == {<<"help", cmd>> : cmd \in known}
  <2>1. Game(j, "help", NoOne, {}, told) /\ Same
    BY <1>3, Zenon DEF HelpGameCommand, NoOne
  <2> HIDE DEF known
  <2>2. ASSUME NEW a \in told
        PROVE  a[1] \in Harmless
    <3>1. PICK cmd \in known : a = <<"help", cmd>>
      OBVIOUS
    <3>2. a[1] = "help"
      BY <3>1
    <3> QED  BY <1>1, <3>2
  <2> HIDE DEF told
  <2> QED  BY <1>2, <2>1, <2>2, QuietObeys
<1>4. CASE \E cmd \in DOMAIN DefaultLevel : HelpAbout(j, cmd)
  <2>1. PICK cmd : HelpAbout(j, cmd)
    BY <1>4
  <2> DEFINE answer == IF cmd \notin Added(At0(j)) THEN <<"not found", NoOne>>
                       ELSE IF access[j] >= Level(At0(j), cmd) THEN <<"help", cmd>> ELSE <<"denied", j>>
  <2>2. Game(j, "help", cmd, {}, {answer}) /\ Same
    BY <2>1, Zenon DEF HelpAbout
  <2>3. answer \in {<<"not found", NoOne>>, <<"help", cmd>>, <<"denied", j>>}
    BY Zenon
  <2> HIDE DEF answer
  <2>4. answer[1] \in {"help", "not found", "denied"}
    <3>1. CASE answer = <<"not found", NoOne>>
      BY <3>1
    <3>2. CASE answer = <<"help", cmd>>
      BY <3>2
    <3>3. CASE answer = <<"denied", j>>
      BY <3>3
    <3> QED  BY <2>3, <3>1, <3>2, <3>3
  <2>5. \A a \in {answer} : a[1] \in Harmless
    BY <1>1, <2>4
  <2> QED  BY <1>2, <2>2, <2>5, QuietObeys
<1> QED  BY <1>3, <1>4
LEMMA StaffCommandsObey ==
  ASSUME StateOK, NEW j \in Persons, ModsGameCommand(j) \/ RulesGameCommand(j)
  PROVE  IInv' /\ Counts
<1>1. PICK cmd \in {"staff", "rules"}, told \in {{<<"staff", p>> : p \in Staff(At0(j))}, {}} :
        Game(j, cmd, NoOne, Say(At0(j)), told) /\ Same
  BY Zenon DEF ModsGameCommand, RulesGameCommand, NoOne
<1>2. cmd \notin OneTarget \cup {"die"} /\ "staff" \in Harmless
  BY DEF OneTarget, Harmless
<1>3. Plain(told)
  <2>1. \A a \in told : a[1] = "staff"
    BY <1>1
  <2> QED  BY <1>2, <2>1, PlainAnswers
<1>4. \A o \in Say(At0(j)) : o[1] = At0(j) /\ Permitted(cmd, NoOne, o)
  BY <1>2, SpeakerFacts, OrderToSay
<1>5. Unchanged
  BY <1>1 DEF Same, Unchanged
<1> QED  BY <1>1, <1>2, <1>3, <1>4, <1>5, GameObeys

LEMMA ModRequestObeys ==
  ASSUME StateOK, NEW j \in Persons, ModRequestGameCommand(j)
  PROVE  IInv' /\ Counts
<1> DEFINE cs == {c \in Channels : IsAdmin(At0(j), c)}
           prefixed == UNION {Prefixed[c] : c \in cs}
           told == {<<"alert", c>> : c \in cs} \cup {<<"alert", u>> : u \in prefixed}
<1>1. Game(j, "modrequest", NoOne, {}, told) /\ Same
  BY Zenon DEF ModRequestGameCommand, NoOne
<1> HIDE DEF cs, prefixed
<1>2. \A a \in told : a[1] = "alert"
  OBVIOUS
<1> HIDE DEF told
<1>3. "alert" \in Harmless /\ "modrequest" \notin OneTarget \cup {"die"}
  BY DEF Harmless, OneTarget
<1>4. \A a \in told : a[1] \in Harmless
  BY <1>2, <1>3
<1> QED  BY <1>1, <1>3, <1>4, QuietObeys

LEMMA OrdersToNobodyObey ==
  ASSUME StateOK, NEW j \in Persons, NEW team,
         AdminMessageGameCommand(j) \/ KillBotsGameCommand(j) \/ AddBotsGameCommand(j, team)
  PROVE  IInv' /\ Counts
<1>1. ASSUME NEW cmd \in {"amsg", "killbots", "addbots"}, NEW text,
             NEW verb \in {"amsg", "killbots", "addbots", "addredbots", "addbluebots"},
             Game(j, cmd, text, To(At0(j), verb, NoOne), {}) /\ Same
      PROVE  IInv' /\ Counts
  <2> DEFINE sent == To(At0(j), verb, NoOne)
  <2>1. \A o \in sent : \E v \in {"say", "amsg", "raw", "killbots", "addbots", "addredbots", "addbluebots"} :
          o \in To(At0(j), v, NoOne)
    OBVIOUS
  <2>2. \A a \in {} : a[1] \in Harmless
    OBVIOUS
  <2>3. Game(j, cmd, text, sent, {}) /\ Same
    BY <1>1
  <2> HIDE DEF sent
  <2>4. cmd \notin OneTarget \cup {"die"}
    BY DEF OneTarget
  <2> QED  BY <2>1, <2>2, <2>3, <2>4, QuietObeys
<1>2. CASE AdminMessageGameCommand(j)
  <2>1. Game(j, "amsg", NoOne, To(At0(j), "amsg", NoOne), {}) /\ Same
    BY <1>2, Zenon DEF AdminMessageGameCommand, NoOne
  <2> QED  BY <1>1, <2>1
<1>3. CASE KillBotsGameCommand(j)
  <2>1. Game(j, "killbots", NoOne, To(At0(j), "killbots", NoOne), {}) /\ Same
    BY <1>3, Zenon DEF KillBotsGameCommand, NoOne
  <2> QED  BY <1>1, <2>1
<1>4. CASE AddBotsGameCommand(j, team)
  <2>1. Game(j, "addbots", team, To(At0(j), AddBotsVerb(team), NoOne), {}) /\ Same
    BY <1>4, Zenon DEF AddBotsGameCommand
  <2>2. AddBotsVerb(team) \in {"addbots", "addredbots", "addbluebots"}
    BY DEF AddBotsVerb
  <2> QED  BY <1>1, <2>1, <2>2
<1> QED  BY <1>2, <1>3, <1>4

LEMMA CancelVoteInGameObeys ==
  ASSUME StateOK, NEW j \in Persons, NEW team \in {"all", "public", "gdi", "nod", "blackhand"},
         CancelVoteGameCommand(j, team)
  PROVE  IInv' /\ Counts
<1>1. Game(j, "cancelvote", team, CancelVote(At0(j), team), {}) /\ Unchanged
  BY Zenon DEF CancelVoteGameCommand, Same, Unchanged
<1>2. \A o \in CancelVote(At0(j), team) :
        o[1] = At0(j) /\ o[3] \notin Persons /\ Permitted("cancelvote", team, o)
  BY SpeakerFacts, OrderToCancel
<1>3. Plain({})
  BY DEF Plain
<1> QED  BY <1>1, <1>2, <1>3, GameObeys

----------------------------------------------------------------------------
(***************************************************************************)
(* Commands in the game about one player                                   *)
(***************************************************************************)

\* Orders about who is found on the speaker's own server, for whom it is
\* enough to be found: the command is one of those that look at no access.
LEMMA AnybodyObeys ==
  ASSUME StateOK, NEW j \in Persons, NEW t,
         PAdminMessageGameCommand(j, t) \/ NModeGameCommand(j, t) \/ SModeGameCommand(j, t)
  PROVE  IInv' /\ Counts
<1> DEFINE p == Target(j, t)
           Sent1(verb) == IF p = NoOne THEN {} ELSE To(At0(j), verb, p)
<1>1. PICK cmd \in {"pamsg", "nmode", "smode"} : Game(j, cmd, t, Sent1(cmd), {}) /\ Same
  BY Zenon DEF PAdminMessageGameCommand, NModeGameCommand, SModeGameCommand, OnAnybody
<1>2. cmd \in Verbs \ {"changemap", "kill", "disarm", "disarmc4", "disarmb", "givecredits"}
  BY DEF Verbs
<1>3. p = PlayerByPartName(At0(j), t)
  BY DEF Target
<1> DEFINE sent == Sent1(cmd)
<1>4. \A o \in sent : p # NoOne /\ o \in To(At0(j), cmd, p)
  OBVIOUS
<1> HIDE DEF p, sent
<1>5. \A o \in sent : OnWhoIsFound(cmd, At0(j), t, o)
  BY <1>2, <1>3, <1>4, KindsOfOrders
<1>6. \A o \in sent : o[1] = At0(j) /\ Permitted(cmd, t, o)
  BY <1>3, <1>4, <1>5, SpeakerFacts, OrderToFound DEF OnWhoIsFound
<1>7. Plain({})
  BY DEF Plain
<1>8. Game(j, cmd, t, sent, {}) /\ Unchanged
  BY <1>1 DEF sent, Same, Unchanged
<1> QED  BY <1>6, <1>7, <1>8, GameObeys

\* What is ordered about somebody found who has less access, and the answer.
Lowered(j, p, alsoSelf, orders) ==
  IF p = NoOne \/ (p = j /\ ~alsoSelf) \/ access[p] >= access[j] THEN {} ELSE orders
Outcome(j, p) ==
  IF p = NoOne THEN "not found" ELSE IF access[p] >= access[j] THEN "higher level" ELSE "done"

LEMMA LowerObeys ==
  ASSUME StateOK, NEW j \in Persons, NEW t, NEW p, p = Target(j, t), NEW cmd, cmd # "die",
         NEW alsoSelf, NEW orders,
         Game(j, cmd, t, Lowered(j, p, alsoSelf, orders), {<<Outcome(j, p), p>>}), Same,
         \A o \in orders : OnWhoIsFound(cmd, At0(j), t, o),
         \A o \in orders : cmd \in {"tban", "tchatban"} /\ o[2] \in {"ban", "chatban"} => o[4] \in 1 .. MaxTBan
  PROVE  IInv' /\ Counts
<1> DEFINE sent == Lowered(j, p, alsoSelf, orders)
           told == {<<Outcome(j, p), p>>}
<1>1. \A o \in sent : o \in orders /\ p # NoOne /\ ~(access[p] >= access[j])
  BY DEF Lowered
<1>2. Game(j, cmd, t, sent, told) /\ Unchanged
  BY DEF Same, Unchanged
<1>3. {"not found", "higher level", "done"} \subseteq Harmless
  BY DEF Harmless
<1>4. \A a \in told : a[1] \in {"not found", "higher level", "done"}
  <2>1. \A a \in told : a[1] = Outcome(j, p)
    OBVIOUS
  <2>2. Outcome(j, p) \in {"not found", "higher level", "done"}
    BY Zenon DEF Outcome
  <2> QED  BY <2>1, <2>2
<1>5. Plain(told)
  BY <1>3, <1>4, PlainAnswers
<1> HIDE DEF sent, told
<1>6. ASSUME NEW o \in sent
      PROVE  o[1] = At0(j) /\ Permitted(cmd, t, o) /\ (o[3] \in Persons => access[o[3]] < access[j])
  <2>1. o \in orders /\ p # NoOne /\ ~(access[p] >= access[j]) /\ p = PlayerByPartName(At0(j), t)
    BY <1>1 DEF Target
  <2>2. o[1] = At0(j) /\ o[3] = p
    BY <2>1 DEF OnWhoIsFound
  <2>3. Permitted(cmd, t, o)
    BY <2>1, SpeakerFacts, OrderToFound DEF OnWhoIsFound
  <2>4. p \in Persons
    BY <2>1, SpeakerFacts, LookUpFacts
  <2>5. access[p] \in Nat /\ access[j] \in Nat
    BY <2>4 DEF StateOK
  <2>6. access[p] < access[j]
    BY <2>1, <2>5
  <2> QED  BY <2>2, <2>3, <2>6
<1> QED  BY <1>2, <1>5, <1>6, GameObeys
\* The access of who is found is looked at, and whether a competitive server
\* takes the order.
LEMMA FairInGameObeys ==
  ASSUME StateOK, NEW j \in Persons, NEW t,
         \/ KillGameCommand(j, t) \/ DisarmGameCommand(j, t)
         \/ DisarmC4GameCommand(j, t) \/ DisarmBeaconGameCommand(j, t)
  PROVE  IInv' /\ Counts
<1> DEFINE p == Target(j, t)
           Orders(cmd) == Fair(At0(j), cmd, p)
<1>1. PICK cmd \in {"kill", "disarm", "disarmc4", "disarmb"} :
        Game(j, cmd, t, Lowered(j, p, TRUE, Orders(cmd)), {<<Outcome(j, p), p>>}) /\ Same
  BY Zenon DEF KillGameCommand, DisarmGameCommand, DisarmC4GameCommand, DisarmBeaconGameCommand,
               OnLower, Lowered, Outcome
<1>2. p = PlayerByPartName(At0(j), t) /\ p = Target(j, t)
  BY DEF Target
<1>3. cmd \in Verbs \ {"changemap"} /\ cmd \notin {"die", "tban", "tchatban"}
  BY DEF Verbs
<1> DEFINE orders == Orders(cmd)
<1> HIDE DEF p
<1>4. \A o \in orders : OnWhoIsFound(cmd, At0(j), t, o)
  BY <1>2, <1>3, KindsOfOrders
<1> HIDE DEF orders
<1>5. Game(j, cmd, t, Lowered(j, p, TRUE, orders), {<<Outcome(j, p), p>>}) /\ Same
  BY <1>1 DEF orders
<1> QED  BY <1>2, <1>3, <1>4, <1>5, LowerObeys

LEMMA PlainInGameObeys ==
  ASSUME StateOK, NEW j \in Persons, NEW t,
         \/ MineBanGameCommand(j, t) \/ MuteGameCommand(j, t)
         \/ KickGameCommand(j, t) \/ KickBanGameCommand(j, t)
  PROVE  IInv' /\ Counts
<1> DEFINE p == Target(j, t)
<1>1. p = PlayerByPartName(At0(j), t) /\ p = Target(j, t)
  BY DEF Target
<1>2. {"mineban", "textmute", "privatesay"} \subseteq
        Verbs \ {"changemap", "kill", "disarm", "disarmc4", "disarmb", "givecredits"}
  BY DEF Verbs
<1>3. ASSUME NEW cmd \in {"mineban", "mute", "kick", "ban"}, NEW alsoSelf, NEW orders,
             Game(j, cmd, t, Lowered(j, p, alsoSelf, orders), {<<Outcome(j, p), p>>}) /\ Same,
             \A o \in orders : OnWhoIsFound(cmd, At0(j), t, o)
      PROVE  IInv' /\ Counts
  <2> HIDE DEF p
  <2>1. cmd \notin {"die", "tban", "tchatban"}
    OBVIOUS
  <2> QED  BY <1>1, <1>3, <2>1, LowerObeys
<1>4. CASE MineBanGameCommand(j, t)
  <2> DEFINE orders == To(At0(j), "mineban", p)
  <2>1. Game(j, "mineban", t, Lowered(j, p, TRUE, orders), {<<Outcome(j, p), p>>}) /\ Same
    BY <1>4, Zenon DEF MineBanGameCommand, OnLower, Lowered, Outcome
  <2> HIDE DEF p
  <2>2. \A o \in orders : OnWhoIsFound("mineban", At0(j), t, o)
    BY <1>1, <1>2, KindsOfOrders
  <2> QED  BY <1>3, <2>1, <2>2
<1>5. CASE MuteGameCommand(j, t)
  <2> DEFINE orders == To(At0(j), "textmute", p) \cup To(At0(j), "privatesay", p)
  <2>1. Game(j, "mute", t, Lowered(j, p, FALSE, orders), {<<Outcome(j, p), p>>}) /\ Same
    BY <1>5, Zenon DEF MuteGameCommand, OnLower, Lowered, Outcome
  <2> HIDE DEF p
  <2>2. \A o \in orders : OnWhoIsFound("mute", At0(j), t, o)
    BY <1>1, <1>2, KindsOfOrders
  <2> QED  BY <1>3, <2>1, <2>2
<1>6. CASE KickGameCommand(j, t)
  <2> DEFINE orders == Kick(At0(j), p)
  <2>1. Game(j, "kick", t, Lowered(j, p, FALSE, orders), {<<Outcome(j, p), p>>}) /\ Same
    BY <1>6, Zenon DEF KickGameCommand, OnLower, Lowered, Outcome
  <2> HIDE DEF p
  <2>2. \A o \in orders : OnWhoIsFound("kick", At0(j), t, o)
    BY <1>1, KindsOfOrders
  <2> QED  BY <1>3, <2>1, <2>2
<1>7. CASE KickBanGameCommand(j, t)
  <2> DEFINE orders == Ban(At0(j), p, 0)
  <2>1. Game(j, "ban", t, Lowered(j, p, FALSE, orders), {<<Outcome(j, p), p>>}) /\ Same
    BY <1>7, Zenon DEF KickBanGameCommand, OnLower, Lowered, Outcome
  <2> HIDE DEF p
  <2>2. \A o \in orders : OnWhoIsFound("ban", At0(j), t, o)
    BY <1>1, KindsOfOrders
  <2> QED  BY <1>3, <2>1, <2>2
<1> QED  BY <1>4, <1>5, <1>6, <1>7

\* Whatever is typed for the duration, the ban ends.
LEMMA TimedInGameObeys ==
  ASSUME StateOK, NEW j \in Persons, NEW t1 \in Texts, NEW t2,
         TempBanGameCommand(j, t1, t2) \/ TempChatBanGameCommand(j, t1, t2)
  PROVE  IInv' /\ Counts
<1> DEFINE timed == Target(j, t1) = NoOne /\ t2 # "" /\ Span[t1] > 0
           t == IF timed THEN t2 ELSE t1
           much == Timed(timed, t1)
           p == Target(j, t)
           banned == Ban(At0(j), p, much)
           muted == To(At0(j), "textmute", p) \cup {<<At0(j), "chatban", p, much>>}
<1>1. PICK cmd \in {"tban", "tchatban"}, orders \in {banned, muted} :
        Game(j, cmd, t, Lowered(j, p, FALSE, orders), {<<Outcome(j, p), p>>}) /\ Same
  <2>1. CASE TempBanGameCommand(j, t1, t2)
    <3>1. Game(j, "tban", t, Lowered(j, p, FALSE, banned), {<<Outcome(j, p), p>>}) /\ Same
      BY <2>1, Zenon DEF TempBanGameCommand, TimedOnLower, OnLower, Lowered, Outcome, Timed
    <3> HIDE DEF banned, muted, p, t
    <3> QED  BY <3>1
  <2>2. CASE TempChatBanGameCommand(j, t1, t2)
    <3>1. Game(j, "tchatban", t, Lowered(j, p, FALSE, muted), {<<Outcome(j, p), p>>}) /\ Same
      BY <2>2, Zenon DEF TempChatBanGameCommand, TimedOnLower, OnLower, Lowered, Outcome, Timed
    <3> HIDE DEF banned, muted, p, t
    <3> QED  BY <3>1
  <2> QED  BY <2>1, <2>2
<1>2. timed \in BOOLEAN /\ (timed => Span[t1] > 0)
  BY Zenon
<1>3. p = PlayerByPartName(At0(j), t) /\ p = Target(j, t)
  BY Zenon DEF Target
<1> HIDE DEF timed, t, p
<1>4. much \in 1 .. MaxTBan
  BY <1>2, TimedFacts
<1> HIDE DEF much
<1>5. {"textmute", "chatban", "ban"} \subseteq
        Verbs \ {"changemap", "kill", "disarm", "disarmc4", "disarmb", "givecredits"}
  BY DEF Verbs
<1>6. \A o \in banned : o = <<At0(j), "ban", p, much>>
  BY DEF Ban, Send
<1>7. \A o \in muted : o = <<At0(j), "textmute", p, 0>> \/ o = <<At0(j), "chatban", p, much>>
  BY DEF To, Send
<1>8. \A o \in banned \cup muted : /\ o[1] = At0(j) /\ o[3] = p /\ o[2] \in {"textmute", "chatban", "ban"}
                                   /\ o[2] \in {"chatban", "ban"} => o[4] = much
  BY <1>6, <1>7
<1> HIDE DEF banned, muted
<1>9. \A o \in orders : OnWhoIsFound(cmd, At0(j), t, o)
  BY <1>3, <1>5, <1>8 DEF OnWhoIsFound
<1>10. \A o \in orders : cmd \in {"tban", "tchatban"} /\ o[2] \in {"ban", "chatban"} => o[4] \in 1 .. MaxTBan
  BY <1>4, <1>8
<1> QED  BY <1>1, <1>3, <1>9, <1>10, LowerObeys
----------------------------------------------------------------------------
(***************************************************************************)
(* Commands in the game that change more than the report                   *)
(***************************************************************************)

\* Who may give a command gets it carried out.
LEMMA MayFacts ==
  ASSUME NEW j, NEW cmd, NEW text, NEW sent, NEW told, May(j, cmd), Game(j, cmd, text, sent, told)
  PROVE  last' = Report(j, access[j], At0(j), cmd, text, sent, told)
<1> QED  BY Zenon DEF May, Game

\* The warnings of somebody who was found change, and nothing else.
LEMMA OneCountChanges ==
  ASSUME StateOK, NEW p \in Persons, NEW n \in 0 .. MaxWarns, warns' = [warns EXCEPT ![p] = n],
         UNCHANGED <<players, connected, access, phasing>>
  PROVE  /\ StateOK' /\ warns'[p] = n
         /\ \A h \in Servers : \A x \in Range(players[h]) : x # p => ~(warns'[x] < warns[x])
<1>1. warns' \in [Persons -> 0 .. MaxWarns] /\ warns'[p] = n /\ \A x \in Persons : x # p => warns'[x] = warns[x]
  BY DEF StateOK
<1>2. StateOK'
  BY <1>1 DEF StateOK
<1>3. ASSUME NEW h \in Servers, NEW x \in Range(players[h]), x # p
      PROVE  ~(warns'[x] < warns[x])
  <2>1. x \in Persons /\ warns[x] \in 0 .. MaxWarns
    BY ListedFacts DEF StateOK
  <2> QED  BY <1>1, <1>3, <2>1, Limits
<1> QED  BY <1>1, <1>2, <1>3

LEMMA WarnInGameObeys ==
  ASSUME StateOK, NEW j \in Persons, NEW t, WarnGameCommand(j, t)
  PROVE  IInv' /\ Counts
<1> DEFINE p == Target(j, t)
           sent == Warned(At0(j), p)
           told == {<<"warned", p>>}
<1>1. /\ May(j, "warn") /\ p # NoOne /\ Game(j, "warn", t, sent, told)
      /\ warns' = [warns EXCEPT ![p] = WarnsAfter(p)]
      /\ UNCHANGED <<players, connected, access, phasing>>
  BY Zenon DEF WarnGameCommand
<1>2. p = PlayerByPartName(At0(j), t)
  BY DEF Target
<1>3. \A a \in told : a[1] = "warned" /\ a[2] = p
  OBVIOUS
<1> HIDE DEF p
<1>4. p \in Persons
  BY <1>1, <1>2, SpeakerFacts, LookUpFacts
<1>5. /\ \A o \in sent : OnWhoIsFound("warn", At0(j), t, o)
      /\ warns[p] = MaxWarns /\ p \notin KickExempt \cup BanExempt
           => \E o \in sent : o[2] \in {"kick", "ban"} /\ o[3] = p
      /\ WarnsAfter(p) \in 0 .. MaxWarns /\ ~(WarnsAfter(p) < warns[p])
  BY <1>1, <1>2, SpeakerFacts, WarnedFacts
<1> HIDE DEF sent, told
<1>6. \A o \in sent : o[1] = At0(j) /\ Permitted("warn", t, o)
  BY <1>1, <1>2, <1>5, SpeakerFacts, OrderToFound DEF OnWhoIsFound
<1>7. Proper(last)'
  <2>1. \A a \in told : a[1] # "address"
    BY <1>3
  <2> QED  BY <1>1, <1>6, <2>1, GameProper
<1>8. /\ StateOK' /\ warns'[p] = WarnsAfter(p)
      /\ \A h \in Servers : \A x \in Range(players[h]) : x # p => ~(warns'[x] < warns[x])
  BY <1>1, <1>4, <1>5, OneCountChanges
<1>9. last'.sent = sent /\ last'.told = told
  BY <1>1, MayFacts, ReportFacts
<1> QED  BY <1>3, <1>5, <1>7, <1>8, <1>9 DEF IInv, Counts

LEMMA PardonInGameObeys ==
  ASSUME StateOK, NEW j \in Persons, NEW t, PardonGameCommand(j, t)
  PROVE  IInv' /\ Counts
<1> DEFINE name == IF t = "" THEN Who[j].name ELSE t
           p == Target(j, name)
           sent == To(At0(j), "privatesay", p)
           told == {<<"pardoned", p>>}
<1>1. /\ May(j, "pardon") /\ p # NoOne /\ Game(j, "pardon", t, sent, told)
      /\ warns' = [warns EXCEPT ![p] = 0]
      /\ UNCHANGED <<players, connected, access, phasing>>
  BY Zenon DEF PardonGameCommand
<1> HIDE DEF name
<1>2. p = PlayerByPartName(At0(j), name)
  BY DEF Target
<1>3. \A a \in told : a[1] = "pardoned"
  OBVIOUS
<1>4. \A o \in sent : o = <<At0(j), "privatesay", p, 0>>
  BY DEF To, Send
<1> HIDE DEF p, sent, told
<1>5. p \in Persons /\ p \in Range(players[At0(j)])
  BY <1>1, <1>2, SpeakerFacts, LookUpFacts
<1>6. "pardoned" \in Harmless /\ "privatesay" \in Verbs /\ "pardon" \notin OneTarget
  BY DEF Harmless, Verbs, OneTarget
<1>7. \A o \in sent : o[1] = At0(j) /\ Permitted("pardon", t, o)
  BY <1>4, <1>5, <1>6, SpeakerFacts DEF Permitted
<1>8. Plain(told)
  BY <1>3, <1>6, PlainAnswers
<1>9. Proper(last)'
  BY <1>1, <1>7, <1>8, GameProper DEF Plain
<1>10. StateOK'
  <2>1. 0 \in 0 .. MaxWarns
    BY Limits
  <2> QED  BY <1>1, <1>5, <2>1, OneCountChanges
<1>11. last'.cmd = "pardon" /\ last'.told = told
  BY <1>1, MayFacts, ReportFacts
<1> QED  BY <1>8, <1>9, <1>10, <1>11 DEF IInv, Counts, Plain

LEMMA PhaseBotsInGameObeys ==
  ASSUME StateOK, NEW j \in Persons, NEW asked, PhaseBotsGameCommand(j, asked)
  PROVE  IInv' /\ Counts
<1>1. /\ May(j, "phasebots") /\ Game(j, "phasebots", asked, {}, {})
      /\ phasing' = [phasing EXCEPT ![At0(j)] = Phased(At0(j), asked)]
      /\ UNCHANGED <<players, connected, access, warns>>
  BY Zenon DEF PhaseBotsGameCommand
<1>2. phasing' \in [Servers -> BOOLEAN]
  <2>1. (~phasing[At0(j)]) \in BOOLEAN
    <3>1. phasing[At0(j)] \in BOOLEAN
      BY SpeakerFacts DEF StateOK
    <3>2. \A b \in BOOLEAN : (~b) \in BOOLEAN
      BY ONLY SMT
    <3> QED  BY <3>1, <3>2
  <2>2. Phased(At0(j), asked) \in BOOLEAN
    BY <2>1, Zenon DEF Phased
  <2> QED  BY <1>1, <2>2 DEF StateOK
<1>3. StateOK'
  BY <1>1, <1>2 DEF StateOK
<1>4. Proper(last)'
  <2> DEFINE none == {}
  <2>1. /\ Game(j, "phasebots", asked, none, none)
        /\ \A o \in none : /\ o[1] = At0(j) /\ Permitted("phasebots", asked, o)
                           /\ o[3] \in Persons => access[o[3]] < access[j]
        /\ \A a \in none : a[1] # "address"
    BY <1>1
  <2> HIDE DEF none
  <2> QED  BY <1>1, <2>1, GameProper
<1>5. last'.told = {}
  BY <1>1, MayFacts, ReportFacts
<1> QED  BY <1>1, <1>3, <1>4, <1>5, WarningsStand DEF IInv, Counts
----------------------------------------------------------------------------
(***************************************************************************)
(* Every step                                                              *)
(***************************************************************************)

LEMMA GameNextObeys ==
  ASSUME IInv, GameNext
  PROVE  IInv' /\ Counts
<1>1. CASE \E p \in Persons : Join(p) \/ Leave(p) \/ Die(p)
  BY <1>1, JoinObeys, LeaveObeys, DieObeys
<1>2. CASE \E s \in Servers : Disconnect(s) \/ Connect(s)
  BY <1>2, DisconnectObeys, ConnectObeys
<1>3. CASE RCONConsoleCommand
  BY <1>3, RCONConsoleObeys
<1> QED  BY <1>1, <1>2, <1>3 DEF GameNext

\* The commands in a channel, sorted as the lemmas are.
ChannelCommand(u, c) ==
  \/ MsgIRCCommand(u, c) \/ HostMsgIRCCommand(u, c) \/ AdminMsgIRCCommand(u, c)
  \/ PlayersIRCCommand(u, c) \/ PlayerTableIRCCommand(u, c) \/ BuildingInfoIRCCommand(u, c)
  \/ MutatorsIRCCommand(u, c) \/ RotationIRCCommand(u, c) \/ MapIRCCommand(u, c)
  \/ GameInfoIRCCommand(u, c) \/ RulesIRCCommand(u, c) \/ ShowModsIRCCommand(u, c)
  \/ ModsIRCCommand(u, c) \/ ShowRulesIRCCommand(u, c) \/ ReconnectIRCCommand(u, c)
  \/ KillBotsIRCCommand(u, c) \/ RCONIRCCommand(u, c)

CommandOnText(u, c, t) ==
  \/ PMsgIRCCommand(u, c, t) \/ PAdminMsgIRCCommand(u, c, t) \/ KillDeathRatioIRCCommand(u, c, t)
  \/ MuteIRCCommand(u, c, t) \/ UnMuteIRCCommand(u, c, t) \/ MineBanIRCCommand(u, c, t)
  \/ KillIRCCommand(u, c, t) \/ DisarmIRCCommand(u, c, t) \/ DisarmC4IRCCommand(u, c, t)
  \/ DisarmBeaconIRCCommand(u, c, t) \/ KickIRCCommand(u, c, t) \/ KickBanIRCCommand(u, c, t)
  \/ NModeIRCCommand(u, c, t) \/ SModeIRCCommand(u, c, t) \/ RefundIRCCommand(u, c, t)
  \/ TeamChangeIRCCommand(u, c, t) \/ TeamChange2IRCCommand(u, c, t) \/ SetMapIRCCommand(u, c, t)
  \/ WarnIRCCommand(u, c, t) \/ PardonIRCCommand(u, c, t)
  \/ \E t2 \in Rest : TempBanIRCCommand(u, c, t, t2) \/ TempChatBanIRCCommand(u, c, t, t2)
Searches(u, c) ==
  \/ \E e \in Range(Bans) : \E f \in DOMAIN e \cup {"all", "any"} :
       BanSearchIRCCommand(u, c, f, IF f \in DOMAIN e THEN e[f] ELSE "")
  \/ \E e \in Range(Exemptions) : \E f \in DOMAIN e \cup {"all", "any"} :
       ExemptionSearchIRCCommand(u, c, f, IF f \in DOMAIN e THEN e[f] ELSE "")

LEMMA ChannelCommandObeys ==
  ASSUME IInv, NEW u \in Users, NEW c \in Channels, ChannelCommand(u, c)
  PROVE  IInv' /\ Counts
<1> USE DEF IInv
<1>1. CASE \/ MsgIRCCommand(u, c) \/ ShowModsIRCCommand(u, c) \/ ShowRulesIRCCommand(u, c)
           \/ HostMsgIRCCommand(u, c)
  BY <1>1, SaysObeys
<1>2. CASE AdminMsgIRCCommand(u, c)
  BY <1>2, AdminMsgObeys
<1>3. CASE PlayersIRCCommand(u, c)
  BY <1>3, PlayersObeys
<1>4. CASE PlayerTableIRCCommand(u, c)
  BY <1>4, PlayerTableObeys
<1>5. CASE BuildingInfoIRCCommand(u, c)
  BY <1>5, BuildingInfoObeys
<1>6. CASE \/ MutatorsIRCCommand(u, c) \/ RotationIRCCommand(u, c) \/ MapIRCCommand(u, c)
           \/ GameInfoIRCCommand(u, c) \/ RulesIRCCommand(u, c)
  BY <1>6, AnswerOfEachObeys
<1>7. CASE ModsIRCCommand(u, c)
  BY <1>7, ModsObeys
<1>8. CASE ReconnectIRCCommand(u, c)
  BY <1>8, ReconnectObeys
<1>9. CASE KillBotsIRCCommand(u, c)
  BY <1>9, BotsObey
<1>10. CASE RCONIRCCommand(u, c)
  BY <1>10, RCONObeys
<1> QED  BY <1>1, <1>2, <1>3, <1>4, <1>5, <1>6, <1>7, <1>8, <1>9, <1>10 DEF ChannelCommand

LEMMA CommandOnTextObeys ==
  ASSUME IInv, NEW u \in Users, NEW c \in Channels, NEW t \in Texts, CommandOnText(u, c, t)
  PROVE  IInv' /\ Counts
<1>0. StateOK
  BY DEF IInv
<1>1. CASE PMsgIRCCommand(u, c, t) \/ PAdminMsgIRCCommand(u, c, t)
  BY <1>0, <1>1, MessagesObey
<1>2. CASE KillDeathRatioIRCCommand(u, c, t)
  BY <1>0, <1>2, KillDeathRatioObeys
<1>3. CASE MuteIRCCommand(u, c, t) \/ UnMuteIRCCommand(u, c, t) \/ MineBanIRCCommand(u, c, t)
  BY <1>0, <1>3, OnFoundObeys
<1>4. CASE KillIRCCommand(u, c, t)
  BY <1>0, <1>4, KillObeys
<1>5. CASE DisarmIRCCommand(u, c, t) \/ DisarmC4IRCCommand(u, c, t) \/ DisarmBeaconIRCCommand(u, c, t)
  BY <1>0, <1>5, DisarmObeys
<1>6. CASE \/ KickIRCCommand(u, c, t) \/ KickBanIRCCommand(u, c, t)
           \/ NModeIRCCommand(u, c, t) \/ SModeIRCCommand(u, c, t)
  BY <1>0, <1>6, CountedObeys
<1>7. CASE RefundIRCCommand(u, c, t)
  BY <1>0, <1>7, RefundObeys
<1>8. CASE TeamChangeIRCCommand(u, c, t) \/ TeamChange2IRCCommand(u, c, t)
  BY <1>0, <1>8, TeamObeys
<1>9. CASE SetMapIRCCommand(u, c, t)
  BY <1>0, <1>9, SetMapObeys
<1>10. CASE WarnIRCCommand(u, c, t)
  BY <1>0, <1>10, WarnObeys
<1>11. CASE PardonIRCCommand(u, c, t)
  BY <1>0, <1>11, PardonObeys
<1>12. CASE \E t2 \in Rest : TempBanIRCCommand(u, c, t, t2) \/ TempChatBanIRCCommand(u, c, t, t2)
  BY <1>0, <1>12, TempBanObeys
<1> QED  BY <1>1, <1>2, <1>3, <1>4, <1>5, <1>6, <1>7, <1>8, <1>9, <1>10, <1>11, <1>12, Zenon DEF CommandOnText

LEMMA IRCNextObeys ==
  ASSUME IInv, IRCNext
  PROVE  IInv' /\ Counts
<1>0. StateOK
  BY DEF IInv
<1>given. PICK u \in Users, c \in Channels :
    \/ MsgIRCCommand(u, c) \/ HostMsgIRCCommand(u, c) \/ AdminMsgIRCCommand(u, c)
    \/ PlayersIRCCommand(u, c) \/ PlayerTableIRCCommand(u, c) \/ BuildingInfoIRCCommand(u, c)
    \/ MutatorsIRCCommand(u, c) \/ RotationIRCCommand(u, c) \/ MapIRCCommand(u, c)
    \/ GameInfoIRCCommand(u, c) \/ RulesIRCCommand(u, c) \/ ShowModsIRCCommand(u, c)
    \/ ModsIRCCommand(u, c) \/ ShowRulesIRCCommand(u, c) \/ ReconnectIRCCommand(u, c)
    \/ KillBotsIRCCommand(u, c) \/ RCONIRCCommand(u, c)
    \/ \E t \in Texts \cup {""} : PlayerInfoIRCCommand(u, c, t) \/ SteamIRCCommand(u, c, t)
    \/ \E t \in Texts : CommandOnText(u, c, t)
    \/ \E team \in {"", "gdi", "nod"} : AddBotsIRCCommand(u, c, team)
    \/ \E asked \in {"", "on", "off"} : PhaseBotsIRCCommand(u, c, asked)
    \/ \E team \in {"all", "public", "gdi", "nod", "blackhand"} : CancelVoteIRCCommand(u, c, team)
    \/ \E e \in Range(Bans) : \E f \in DOMAIN e \cup {"all", "any"} :
         BanSearchIRCCommand(u, c, f, IF f \in DOMAIN e THEN e[f] ELSE "")
    \/ \E e \in Range(Exemptions) : \E f \in DOMAIN e \cup {"all", "any"} :
         ExemptionSearchIRCCommand(u, c, f, IF f \in DOMAIN e THEN e[f] ELSE "")
  BY Zenon DEF IRCNext, CommandOnText
<1>1.   \/ ChannelCommand(u, c)
        \/ \E t \in Texts \cup {""} : PlayerInfoIRCCommand(u, c, t) \/ SteamIRCCommand(u, c, t)
        \/ \E t \in Texts : CommandOnText(u, c, t)
        \/ \E team \in {"", "gdi", "nod"} : AddBotsIRCCommand(u, c, team)
        \/ \E asked \in {"", "on", "off"} : PhaseBotsIRCCommand(u, c, asked)
        \/ \E team \in {"all", "public", "gdi", "nod", "blackhand"} : CancelVoteIRCCommand(u, c, team)
        \/ Searches(u, c)
  BY <1>given, Zenon DEF ChannelCommand, Searches
<1>2. CASE ChannelCommand(u, c)
  BY <1>2, ChannelCommandObeys
<1>3. CASE \E t \in Texts \cup {""} : PlayerInfoIRCCommand(u, c, t) \/ SteamIRCCommand(u, c, t)
  BY <1>0, <1>3, PlayerInfoObeys, SteamObeys, Zenon
<1>4. CASE \E t \in Texts : CommandOnText(u, c, t)
  BY <1>4, CommandOnTextObeys
<1>5. CASE \E team \in {"", "gdi", "nod"} : AddBotsIRCCommand(u, c, team)
  BY <1>0, <1>5, BotsObey, Zenon
<1>6. CASE \E asked \in {"", "on", "off"} : PhaseBotsIRCCommand(u, c, asked)
  BY <1>0, <1>6, PhaseBotsObeys, Zenon
<1>7. CASE \E team \in {"all", "public", "gdi", "nod", "blackhand"} : CancelVoteIRCCommand(u, c, team)
  BY <1>0, <1>7, CancelVoteObeys
<1>8. CASE Searches(u, c)
  <2>1. PICK field, value : BanSearchIRCCommand(u, c, field, value) \/ ExemptionSearchIRCCommand(u, c, field, value)
    BY <1>8, Zenon DEF Searches
  <2> QED  BY <1>0, <2>1, SearchObeys
<1> QED  BY <1>1, <1>2, <1>3, <1>4, <1>5, <1>6, <1>7, <1>8, Zenon

LEMMA GameCommandNextObeys ==
  ASSUME IInv, GameCommandNext
  PROVE  IInv' /\ Counts
<1>0. StateOK
  BY DEF IInv
<1>1. PICK j \in Persons :
        \/ HelpGameCommand(j) \/ \E cmd \in DOMAIN DefaultLevel : HelpAbout(j, cmd)
        \/ ModsGameCommand(j) \/ RulesGameCommand(j)
        \/ ModRequestGameCommand(j)
        \/ \E team : AdminMessageGameCommand(j) \/ KillBotsGameCommand(j) \/ AddBotsGameCommand(j, team)
        \/ \E team \in {"all", "public", "gdi", "nod", "blackhand"} : CancelVoteGameCommand(j, team)
        \/ \E asked : PhaseBotsGameCommand(j, asked)
        \/ \E t : PardonGameCommand(j, t)
        \/ \E t : PAdminMessageGameCommand(j, t) \/ NModeGameCommand(j, t) \/ SModeGameCommand(j, t)
        \/ \E t : \/ KillGameCommand(j, t) \/ DisarmGameCommand(j, t)
                  \/ DisarmC4GameCommand(j, t) \/ DisarmBeaconGameCommand(j, t)
        \/ \E t : \/ MineBanGameCommand(j, t) \/ MuteGameCommand(j, t)
                  \/ KickGameCommand(j, t) \/ KickBanGameCommand(j, t)
        \/ \E t : WarnGameCommand(j, t)
        \/ \E t \in Texts : \E t2 : TempBanGameCommand(j, t, t2) \/ TempChatBanGameCommand(j, t, t2)
  BY Zenon DEF GameCommandNext
<1>2. CASE HelpGameCommand(j) \/ \E cmd \in DOMAIN DefaultLevel : HelpAbout(j, cmd)
  BY <1>0, <1>2, HelpObeys
<1>3. CASE ModsGameCommand(j) \/ RulesGameCommand(j)
  BY <1>0, <1>3, StaffCommandsObey
<1>4. CASE ModRequestGameCommand(j)
  BY <1>0, <1>4, ModRequestObeys
<1>5. CASE \E team : AdminMessageGameCommand(j) \/ KillBotsGameCommand(j) \/ AddBotsGameCommand(j, team)
  BY <1>0, <1>5, OrdersToNobodyObey
<1>6. CASE \E team \in {"all", "public", "gdi", "nod", "blackhand"} : CancelVoteGameCommand(j, team)
  BY <1>0, <1>6, CancelVoteInGameObeys
<1>7. CASE \E asked : PhaseBotsGameCommand(j, asked)
  BY <1>0, <1>7, PhaseBotsInGameObeys
<1>8. CASE \E t : PardonGameCommand(j, t)
  BY <1>0, <1>8, PardonInGameObeys
<1>9. CASE \E t : PAdminMessageGameCommand(j, t) \/ NModeGameCommand(j, t) \/ SModeGameCommand(j, t)
  BY <1>0, <1>9, AnybodyObeys
<1>10. CASE \E t : \/ KillGameCommand(j, t) \/ DisarmGameCommand(j, t)
                   \/ DisarmC4GameCommand(j, t) \/ DisarmBeaconGameCommand(j, t)
  BY <1>0, <1>10, FairInGameObeys
<1>11. CASE \E t : \/ MineBanGameCommand(j, t) \/ MuteGameCommand(j, t)
                   \/ KickGameCommand(j, t) \/ KickBanGameCommand(j, t)
  BY <1>0, <1>11, PlainInGameObeys
<1>12. CASE \E t : WarnGameCommand(j, t)
  BY <1>0, <1>12, WarnInGameObeys
<1>13. CASE \E t \in Texts : \E t2 : TempBanGameCommand(j, t, t2) \/ TempChatBanGameCommand(j, t, t2)
  BY <1>0, <1>13, TimedInGameObeys
<1> QED  BY <1>1, <1>2, <1>3, <1>4, <1>5, <1>6, <1>7, <1>8, <1>9, <1>10, <1>11, <1>12, <1>13, Zenon

LEMMA NextObeys ==
  ASSUME IInv, Next
  PROVE  IInv' /\ Counts
<1> QED  BY GameNextObeys, IRCNextObeys, GameCommandNextObeys, SentObeys, Zenon DEF Next

\* A stutter leaves everybody their warnings, and the report as it was.
LEMMA StutterObeys ==
  ASSUME IInv, UNCHANGED vars
  PROVE  IInv'
<1>1. Unchanged /\ last' = last
  BY DEF vars, Unchanged
<1>2. StateOK'
  BY <1>1, StateStays DEF IInv
<1>3. Proper(last)'
  BY <1>1 DEF IInv, Proper, Permitted, Unchanged, At, IsAdmin, IsPublic
<1> QED  BY <1>2, <1>3 DEF IInv

----------------------------------------------------------------------------
(***************************************************************************)
(* What is promised                                                        *)
(***************************************************************************)

\* In every state who is listed on a server plays there, is listed once and
\* has an access he may have; and every order and answer of the last handler is
\* one the command, as it was typed, may lead to.
THEOREM ReportsAreProper == Spec => []IInv
<1>1. IInv /\ [Next]_vars => IInv'
  BY NextObeys, StutterObeys
<1> QED  BY <1>1, InitIInv, PTL DEF Spec

\* Orders go where the channel is attached, or to the server of who gave the
\* command, and are about players listed there (RenX_Commands.cpp,
\* RenX_Warn.cpp: every loop over the attached servers).
THEOREM OrdersNeverStray == Spec => []OrdersStayHome
<1> QED  BY ReportsAreProper, IInvIsEnough, PTL

\* A full name means that player, whoever was listed first
\* (Server::getPlayerByPartName).
THEOREM FullNamesAreExact == Spec => []NamedExactly
<1> QED  BY ReportsAreProper, IInvIsEnough, PTL

\* In the game nobody is hurt by who has no more access, or no access to the
\* command.
THEOREM NobodyIsHurtFromBelow == Spec => []NobodyActsUpward
<1> QED  BY ReportsAreProper, IInvIsEnough, PTL

\* Whatever is typed: nothing unfair where they play competitively, no address
\* outside the channels for the staff, no map that is not in the rotation, no
\* ban by tban or tchatban beyond the longest.
THEOREM OrdersAreAllowed == Spec => []OrdersAllowed
<1> QED  BY ReportsAreProper, IInvIsEnough, PTL

\* Warnings are carried out at the limit every time, because whoever is found is
\* listed, and nobody is listed who could not be sent an order; and only a
\* pardon takes them away from somebody who stays.
THEOREM WarningsAddUp == Spec => WarningsCount
<1> DEFINE Final == \A a \in last'.told :
                      a[1] = "warned" /\ warns[a[2]] = MaxWarns /\ a[2] \notin KickExempt \cup BanExempt
                        => \E o \in last'.sent : o[2] \in {"kick", "ban"} /\ o[3] = a[2]
           Stay == \A s \in Servers : \A p \in Range(players[s]) \cap Range(players'[s]) :
                     warns'[p] < warns[p] => last'.cmd = "pardon"
<1>1. IInv /\ [Next]_vars => [Final]_vars /\ [Stay]_vars
  BY NextObeys DEF Counts
<1>2. (LimitIsFinal <=> [][Final]_vars) /\ (WarningsStay <=> [][Stay]_vars)
  BY Zenon DEF LimitIsFinal, WarningsStay
<1> HIDE DEF Final, Stay
<1>3. Spec => [][Final]_vars /\ [][Stay]_vars
  BY <1>1, ReportsAreProper, PTL DEF Spec
<1> QED  BY <1>2, <1>3 DEF WarningsCount
=============================================================================
