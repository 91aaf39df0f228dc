----------------------------- MODULE GameProofs -----------------------------
(***************************************************************************)
(* The bot knows the game.  What it knows is behind: there are lines it    *)
(* has not read, and replies that have not been written.  So the invariant *)
(* (Knows) has minds: what the bot knows now, after one more line, after   *)
(* two, and so on.  Each is what the line makes of the one before; in the  *)
(* last one the players are the game's, and so are their counters,         *)
(* characters and results, as far as the bot can have seen them.  The game *)
(* adds a line at the end of the minds, the bot takes one from the front.  *)
(* What web clients are shown follows with one more (ShowsWell): the own   *)
(* server is listed once its ping is answered, which is after its list of  *)
(* players is.                                                             *)
(***************************************************************************)
EXTENDS Game, SequenceTheorems, FiniteSetTheorems, WellFoundedInduction, TLAPS

\* A nonempty set of numbers has a least.
LEMMA Least ==
  ASSUME NEW T \in SUBSET Nat, T # {}
  PROVE  \E n \in T : \A m \in T : n <= m
<1> DEFINE R == OpToRel(<, Nat)
<1>1. IsWellFoundedOn(R, Nat)
  BY NatLessThanWellFounded
<1>2. \A x, y \in Nat : x < y => <<x, y>> \in R
  BY DEF OpToRel
<1> HIDE DEF R
<1>3. PICK n \in T : \A m \in T : ~(<<m, n>> \in R)
  BY <1>1, WFMin
<1>4. \A m \in T : ~(m < n)
  BY <1>2, <1>3
<1> QED  BY <1>4

\* Induction, said of a set of numbers.
LEMMA Induction ==
  ASSUME NEW T \in SUBSET Nat, 0 \in T, \A n \in T : n + 1 \in T
  PROVE  T = Nat
<1> SUFFICES ASSUME Nat \ T # {} PROVE FALSE
  OBVIOUS
<1>1. PICK n \in Nat \ T : \A m \in Nat \ T : n <= m
  BY Least
<1>2. n # 0 /\ n - 1 \in Nat
  BY <1>1
<1>3. n - 1 \in T
  BY <1>1, <1>2
<1>4. (n - 1) + 1 = n
  BY <1>1
<1> QED  BY <1>1, <1>3, <1>4

----------------------------------------------------------------------------
(***************************************************************************)
(* Queues                                                                  *)
(***************************************************************************)
Queue(q) == \E S : q \in Seq(S)

LEMMA QueueShape ==
  ASSUME NEW q, Queue(q)
  PROVE  /\ Len(q) \in Nat /\ DOMAIN q = 1 .. Len(q) /\ (q = <<>> <=> Len(q) = 0)
         /\ \A x : x \in Range(q) <=> \E i \in 1 .. Len(q) : q[i] = x
<1>1. PICK S : q \in Seq(S)
  BY DEF Queue
<1>2. Len(q) \in Nat /\ DOMAIN q = 1 .. Len(q) /\ (q = <<>> <=> Len(q) = 0)
  BY <1>1
<1> QED  BY <1>2 DEF Range

LEMMA Appended ==
  ASSUME NEW q, Queue(q), NEW l, NEW r, r = Append(q, l)
  PROVE  /\ Queue(r) /\ Len(r) = Len(q) + 1 /\ r[Len(q) + 1] = l
         /\ \A i \in 1 .. Len(q) : r[i] = q[i]
         /\ \A x : x \in Range(r) <=> x \in Range(q) \/ x = l
<1>1. PICK S : q \in Seq(S)
  BY DEF Queue
<1>2. r \in Seq(S \cup {l})
  <2>1. q \in Seq(S \cup {l})
    BY <1>1
  <2>2. l \in S \cup {l}
    OBVIOUS
  <2> HIDE DEF Queue
  <2>3. PICK U : U = S \cup {l}
    OBVIOUS
  <2> QED  BY <2>1, <2>2, <2>3
<1>3. Queue(r)
  BY <1>2 DEF Queue
<1>4. Len(r) = Len(q) + 1 /\ r[Len(q) + 1] = l /\ (\A i \in 1 .. Len(q) : r[i] = q[i]) /\ Len(q) \in Nat
  BY <1>1
<1>5. ASSUME NEW x
      PROVE  x \in Range(r) <=> x \in Range(q) \/ x = l
  <2>1. x \in Range(r) <=> \E i \in 1 .. Len(r) : r[i] = x
    BY <1>3, QueueShape
  <2>2. x \in Range(q) <=> \E i \in 1 .. Len(q) : q[i] = x
    BY QueueShape
  <2>3. \A i : i \in 1 .. Len(r) <=> i \in 1 .. Len(q) \/ i = Len(q) + 1
    BY <1>4
  <2> QED  BY <1>4, <2>1, <2>2, <2>3
<1> QED  BY <1>3, <1>4, <1>5

LEMMA Tailed ==
  ASSUME NEW q, Queue(q), q # <<>>, NEW r, r = Tail(q)
  PROVE  /\ Queue(r) /\ Len(q) = Len(r) + 1 /\ Head(q) = q[1]
         /\ \A i \in 1 .. Len(r) : r[i] = q[i + 1]
         /\ \A x : x \in Range(q) <=> x = Head(q) \/ x \in Range(r)
<1>1. PICK S : q \in Seq(S)
  BY DEF Queue
<1>2. r \in Seq(S) /\ Len(q) = Len(r) + 1 /\ Head(q) = q[1] /\ Len(r) \in Nat
  BY <1>1
<1>3. Queue(r)
  BY <1>2 DEF Queue
<1>4. \A i \in 1 .. Len(r) : r[i] = q[i + 1]
  BY <1>1
<1>5. ASSUME NEW x
      PROVE  x \in Range(q) <=> x = Head(q) \/ x \in Range(r)
  <2>1. x \in Range(q) <=> \E i \in 1 .. Len(q) : q[i] = x
    BY QueueShape
  <2>2. x \in Range(r) <=> \E i \in 1 .. Len(r) : r[i] = x
    BY <1>3, QueueShape
  <2>3. \A i \in 1 .. Len(q) : i = 1 \/ (i - 1 \in 1 .. Len(r) /\ (i - 1) + 1 = i)
    BY <1>2
  <2>4. \A i \in 1 .. Len(r) : i + 1 \in 1 .. Len(q)
    BY <1>2
  <2>5. 1 \in 1 .. Len(q)
    BY <1>2
  <2>6. x \in Range(q) => x = Head(q) \/ x \in Range(r)
    <3> SUFFICES ASSUME NEW i \in 1 .. Len(q), q[i] = x, i # 1
                 PROVE  x \in Range(r)
      BY <1>2, <2>1
    <3>1. PICK j \in 1 .. Len(r) : j + 1 = i
      BY <2>3
    <3> QED  BY <1>4, <2>2, <3>1
  <2>7. x = Head(q) \/ x \in Range(r) => x \in Range(q)
    BY <1>2, <1>4, <2>1, <2>2, <2>4, <2>5
  <2> QED  BY <2>6, <2>7
<1> QED  BY <1>2, <1>3, <1>4, <1>5

LEMMA EmptyQueue == Queue(<<>>) /\ Len(<<>>) = 0 /\ (\A x : x \notin Range(<<>>))
<1>1. <<>> \in Seq({})
  OBVIOUS
<1>2. Queue(<<>>)
  BY <1>1 DEF Queue
<1> QED  BY <1>2, QueueShape

----------------------------------------------------------------------------
(***************************************************************************)
(* What the bot makes of the lines, one after the other: the players, what *)
(* state the match is in, whether the map is changed seamlessly, whether   *)
(* it has been told the state and is fully connected, and who is believed  *)
(* to be there by those who read the public channels.                      *)
(***************************************************************************)
ContextOf(b) == [pending    |-> b.state \in {"pending", "travelling"},
                 leftBehind |-> b.state = "travelling" /\ ~b.seamless,
                 listed     |-> DOMAIN b.players]

Hearing(b, l) ==
  LET told == Tells(l, ContextOf(b))
  IN  CASE [on |-> "public", says |-> "JoinPublic"] \in told -> b.hall \cup {l.by.who}
        [] [on |-> "public", says |-> "Part"] \in told       -> b.hall \ {l.by.who}
        [] l.kind = "changing" /\ ~l.seamless                -> {}
        [] OTHER                                             -> b.hall

StateAfter(b, l) ==
  CASE l.kind = "changing" -> "travelling"
    [] l.kind = "loaded"   -> "pending"
    [] l.kind = "start"    -> "playing"
    [] l.kind = "matchend" -> "over"
    [] l.kind = "info"     -> l.state
    [] OTHER               -> b.state

Reading(b, l) ==
  [players  |-> After(b.players, l),
   state    |-> StateAfter(b, l),
   seamless |-> IF l.kind = "changing" THEN l.seamless ELSE b.seamless,
   informed |-> IF l.kind = "info" THEN TRUE ELSE b.informed,
   full     |-> IF l.kind = "pong" THEN TRUE ELSE b.full,
   hall     |-> Hearing(b, l)]

Course(m, b, q) ==
  /\ m[0] = b
  /\ \A i \in 1 .. Len(q) : m[i] = Reading(m[i - 1], q[i])

\* The first n + 1 of two courses are the same, or one is a step behind the other.
Same(k, m, n) == \A i \in 0 .. n : k[i] = m[i]
Behind(k, m, n) == \A i \in 0 .. n : k[i] = m[i + 1]

\* n is m, and what f becomes of it with one line more.
Grown(n, m, b, q, r, f) == Course(n, b, r) /\ n[Len(r)] = f /\ Same(n, m, Len(q))

LEMMA CourseExtended ==
  ASSUME NEW m, NEW b, NEW q, Queue(q), Course(m, b, q), NEW l, NEW r, r = Append(q, l),
         NEW e, e = m[Len(q)], NEW f, f = Reading(e, l)
  PROVE  \E n : Grown(n, m, b, q, r, f)
<1> DEFINE n == [i \in 0 .. Len(r) |-> IF i \in 0 .. Len(q) THEN m[i] ELSE Reading(m[Len(q)], l)]
<1>1. Len(q) \in Nat /\ Len(r) = Len(q) + 1 /\ r[Len(q) + 1] = l /\ \A i \in 1 .. Len(q) : r[i] = q[i]
  BY Appended, QueueShape
<1>2. \A i \in 0 .. Len(q) : n[i] = m[i]
  BY <1>1
<1>3. n[Len(r)] = Reading(m[Len(q)], l)
  <2>1. Len(r) \in 0 .. Len(r) /\ Len(r) \notin 0 .. Len(q)
    BY <1>1
  <2> QED  BY <2>1
<1> HIDE DEF n
<1>4. n[0] = b
  <2>1. 0 \in 0 .. Len(q)
    BY <1>1
  <2> QED  BY <1>2, <2>1 DEF Course
<1>5. ASSUME NEW i \in 1 .. Len(r)
      PROVE  n[i] = Reading(n[i - 1], r[i])
  <2>1. CASE i \in 1 .. Len(q)
    <3>1. i \in 0 .. Len(q) /\ i - 1 \in 0 .. Len(q)
      BY <1>1, <2>1
    <3>2. m[i] = Reading(m[i - 1], q[i])
      BY <2>1 DEF Course
    <3> QED  BY <1>1, <1>2, <2>1, <3>1, <3>2
  <2>2. CASE i = Len(q) + 1
    <3>1. i = Len(r) /\ i - 1 = Len(q) /\ Len(q) \in 0 .. Len(q)
      BY <1>1, <2>2
    <3> QED  BY <1>1, <1>2, <1>3, <2>2, <3>1
  <2> QED  BY <1>1, <2>1, <2>2
<1>6. Course(n, b, r)
  BY <1>4, <1>5 DEF Course
<1>7. Same(n, m, Len(q))
  BY <1>2 DEF Same
<1> QED  BY <1>3, <1>6, <1>7 DEF Grown

LEMMA CourseShortened ==
  ASSUME NEW m, NEW b, NEW q, Queue(q), q # <<>>, Course(m, b, q), NEW r, r = Tail(q),
         NEW c, c = Reading(b, Head(q))
  PROVE  \E n : Course(n, c, r) /\ Behind(n, m, Len(r))
<1> DEFINE n == [i \in 0 .. Len(r) |-> m[i + 1]]
<1>1. Len(r) \in Nat /\ Len(q) = Len(r) + 1 /\ Head(q) = q[1] /\ \A i \in 1 .. Len(r) : r[i] = q[i + 1]
  BY Tailed, QueueShape
<1>2. \A i \in 0 .. Len(r) : n[i] = m[i + 1]
  OBVIOUS
<1> HIDE DEF n
<1>3. n[0] = Reading(b, Head(q))
  <2>1. 1 \in 1 .. Len(q) /\ 0 \in 0 .. Len(r) /\ 1 - 1 = 0 /\ 0 + 1 = 1
    BY <1>1
  <2>2. m[1] = Reading(m[1 - 1], q[1])
    BY <2>1 DEF Course
  <2> QED  BY <1>1, <1>2, <2>1, <2>2 DEF Course
<1>4. ASSUME NEW i \in 1 .. Len(r)
      PROVE  n[i] = Reading(n[i - 1], r[i])
  <2>1. i + 1 \in 1 .. Len(q) /\ (i + 1) - 1 = i /\ i \in 0 .. Len(r) /\ i - 1 \in 0 .. Len(r) /\ (i - 1) + 1 = i
    BY <1>1
  <2>2. m[i + 1] = Reading(m[(i + 1) - 1], q[i + 1])
    BY <2>1 DEF Course
  <2> QED  BY <1>1, <1>2, <2>1, <2>2
<1>5. Course(n, Reading(b, Head(q)), r)
  BY <1>3, <1>4 DEF Course
<1> QED  BY <1>2, <1>5 DEF Behind

----------------------------------------------------------------------------
(***************************************************************************)
(* Lists of players.  T has the teams of those who are in the game; View   *)
(* is what is listed of one of them, or what it would begin with.          *)
(***************************************************************************)
Roles == Characters \cup {Empty}
Counters == [Statistics -> Nat]
PlayerInfos == [team : Teams, character : Roles, stats : Counters, wins : Nat, loses : Nat, known : BOOLEAN]

Listing(ps) == DOMAIN ps \subseteq Clients /\ ps \in [DOMAIN ps -> PlayerInfos]

Sides(T) == DOMAIN T \subseteq Clients /\ T \in [DOMAIN T -> Teams]
Lists(ps, T) == Listing(ps) /\ DOMAIN ps \subseteq DOMAIN T /\ \A p \in DOMAIN ps : ps[p].team = T[p]

View(ps, p, T) == IF p \in DOMAIN ps THEN ps[p] ELSE PlayerInfo(T[p])

Credit(stats, S) == [s \in Statistics |-> stats[s] + IF s \in S THEN 1 ELSE 0]

\* A token of somebody in the game, and one of nobody or of the game's AI.
Names(token, T) == token.who \in DOMAIN T /\ token.team = T[token.who]

LEMMA CreditType ==
  ASSUME NEW stats \in Counters, NEW S
  PROVE  Credit(stats, S) \in Counters
BY DEF Credit, Counters

LEMMA FreshType ==
  ASSUME NEW team \in Teams
  PROVE  PlayerInfo(team) \in PlayerInfos
<1>1. Zero \in Counters
  BY DEF Zero, Counters
<1>2. Empty \in Roles
  BY DEF Roles
<1>3. PlayerInfo(team) = [team |-> team, character |-> Empty, stats |-> Zero, wins |-> 0, loses |-> 0, known |-> FALSE]
  BY Zenon DEF PlayerInfo
<1> QED  BY <1>1, <1>2, <1>3 DEF PlayerInfos

LEMMA ViewType ==
  ASSUME NEW ps, NEW T, Sides(T), Lists(ps, T), NEW p \in DOMAIN T
  PROVE  View(ps, p, T) \in PlayerInfos /\ View(ps, p, T).team = T[p]
<1>1. CASE p \in DOMAIN ps
  BY <1>1 DEF View, Lists, Listing
<1>2. CASE p \notin DOMAIN ps
  <2>1. T[p] \in Teams
    BY DEF Sides
  <2>2. View(ps, p, T) = PlayerInfo(T[p])
    BY <1>2 DEF View
  <2>3. PlayerInfo(T[p]).team = T[p]
    BY DEF PlayerInfo
  <2> QED  BY <2>1, <2>2, <2>3, FreshType
<1> QED  BY <1>1, <1>2

LEMMA SomebodyPlays ==
  ASSUME NEW T, Sides(T), NEW token, Names(token, T)
  PROVE  IsPlayer(token) /\ token.who \in Clients
<1>1. token.who \in Clients
  BY DEF Names, Sides
<1>2. token.who # "ai" /\ token.who # Empty
  BY <1>1, GameAssumption
<1> QED  BY <1>1, <1>2 DEF IsPlayer

LEMMA NobodyPlays == ~IsPlayer(Nobody) /\ ~IsPlayer(AI) /\ Nobody.who = Empty /\ AI.who = "ai"
<1>1. Nobody.who = Empty /\ AI.who = "ai"
  BY DEF Nobody, AI, Token
<1> QED  BY <1>1 DEF IsPlayer

\* To name somebody changes nothing of anybody.
LEMMA Met ==
  ASSUME NEW ps, NEW T, Sides(T), Lists(ps, T), NEW token, Names(token, T), NEW r, r = Meet(ps, token)
  PROVE  /\ Lists(r, T) /\ DOMAIN r = DOMAIN ps \cup {token.who}
         /\ \A p \in DOMAIN T : View(r, p, T) = View(ps, p, T)
<1>1. IsPlayer(token) /\ token.who \in DOMAIN T /\ token.team = T[token.who]
  BY SomebodyPlays DEF Names
<1>2. r = [p \in DOMAIN ps \cup {token.who} |->
            IF p # token.who THEN ps[p]
            ELSE IF p \in DOMAIN ps THEN [ps[p] EXCEPT !.team = token.team] ELSE PlayerInfo(token.team)]
  BY <1>1 DEF Meet
<1>3. DOMAIN r = DOMAIN ps \cup {token.who}
  BY <1>2
<1>4. ASSUME NEW p \in DOMAIN r
      PROVE  r[p] = View(ps, p, T)
  <2>1. CASE p # token.who
    <3>1. p \in DOMAIN ps /\ r[p] = ps[p]
      BY <1>2, <1>3, <2>1
    <3> QED  BY <3>1 DEF View
  <2>2. CASE p = token.who /\ p \in DOMAIN ps
    <3>1. r[p] = [ps[p] EXCEPT !.team = T[p]]
      BY <1>1, <1>2, <2>2
    <3>2. ps[p] \in PlayerInfos /\ ps[p].team = T[p]
      BY <2>2 DEF Lists, Listing
    <3>3. [ps[p] EXCEPT !.team = T[p]] = ps[p]
      BY <3>2 DEF PlayerInfos
    <3> QED  BY <2>2, <3>1, <3>3 DEF View
  <2>3. CASE p = token.who /\ p \notin DOMAIN ps
    <3>1. r[p] = PlayerInfo(T[p])
      BY <1>1, <1>2, <2>3
    <3> QED  BY <2>3, <3>1 DEF View
  <2> QED  BY <2>1, <2>2, <2>3
<1>5. \A p \in DOMAIN T : View(r, p, T) = View(ps, p, T)
  <2> TAKE p \in DOMAIN T
  <2>1. CASE p \in DOMAIN r
    BY <1>4, <2>1 DEF View
  <2>2. CASE p \notin DOMAIN r
    <3>1. p \notin DOMAIN ps
      BY <1>3, <2>2
    <3> QED  BY <2>2, <3>1 DEF View
  <2> QED  BY <2>1, <2>2
<1>6. DOMAIN r \subseteq DOMAIN T /\ DOMAIN r \subseteq Clients
  BY <1>1, <1>3 DEF Lists, Sides
<1>7. \A p \in DOMAIN r : r[p] \in PlayerInfos /\ r[p].team = T[p]
  BY <1>4, <1>6, ViewType
<1>8. r = [p \in DOMAIN r |-> r[p]]
  BY <1>2
<1>9. Lists(r, T)
  BY <1>6, <1>7, <1>8 DEF Lists, Listing
<1> QED  BY <1>3, <1>5, <1>9

LEMMA MetNobody ==
  ASSUME NEW ps, NEW token, token \in {Nobody, AI}
  PROVE  Meet(ps, token) = ps
<1>1. ~IsPlayer(token)
  BY NobodyPlays
<1> QED  BY <1>1 DEF Meet

LEMMA CountedNobody ==
  ASSUME NEW ps, NEW token, token \in {Nobody, AI}, NEW S
  PROVE  Count(ps, token, S) = ps
<1>1. ~IsPlayer(token) /\ Meet(ps, token) = ps
  BY NobodyPlays, MetNobody
<1> QED  BY <1>1 DEF Count

\* A view with other counters, or another character.
Recounted(v, stats) == [team |-> v.team, character |-> v.character, stats |-> stats,
                        wins |-> v.wins, loses |-> v.loses, known |-> v.known]
Recast(v, role) == [team |-> v.team, character |-> role, stats |-> v.stats,
                    wins |-> v.wins, loses |-> v.loses, known |-> v.known]

Put(ps, c, b) == [ps EXCEPT ![c] = b]

\* One listed player is changed, in what its team has nothing to do with.
LEMMA Changed ==
  ASSUME NEW ps, NEW T, Sides(T), Lists(ps, T), NEW c \in DOMAIN ps, NEW b \in PlayerInfos, b.team = T[c],
         NEW r, r = Put(ps, c, b)
  PROVE  /\ Lists(r, T) /\ DOMAIN r = DOMAIN ps
         /\ View(r, c, T) = b
         /\ \A p \in DOMAIN T : p # c => View(r, p, T) = View(ps, p, T)
<1>1. DOMAIN r = DOMAIN ps
  BY DEF Put
<1>2. r[c] = b /\ \A p \in DOMAIN ps : p # c => r[p] = ps[p]
  BY DEF Put
<1>3. \A p \in DOMAIN r : r[p] \in PlayerInfos /\ r[p].team = T[p]
  BY <1>1, <1>2 DEF Lists, Listing
<1>4. r = [p \in DOMAIN r |-> r[p]]
  BY DEF Put
<1>5. Lists(r, T)
  BY <1>1, <1>3, <1>4 DEF Lists, Listing
<1>6. View(r, c, T) = b
  BY <1>1, <1>2 DEF View
<1>7. \A p \in DOMAIN T : p # c => View(r, p, T) = View(ps, p, T)
  BY <1>1, <1>2 DEF View
<1> QED  BY <1>1, <1>5, <1>6, <1>7

\* Nobody but c is listed otherwise than before.
OnlyOf(ps, r, T, c) ==
  /\ Lists(r, T) /\ DOMAIN ps \subseteq DOMAIN r
  /\ \A p \in DOMAIN T : p # c => View(r, p, T) = View(ps, p, T)

LEMMA CountedFor ==
  ASSUME NEW ps, NEW T, Sides(T), Lists(ps, T), NEW token, Names(token, T), NEW S,
         NEW r, r = Count(ps, token, S)
  PROVE  /\ OnlyOf(ps, r, T, token.who)
         /\ View(r, token.who, T) = Recounted(View(ps, token.who, T), Credit(View(ps, token.who, T).stats, S))
<1> DEFINE c == token.who
<1>0. PICK m : m = Meet(ps, token)
  OBVIOUS
<1>1. /\ Lists(m, T) /\ DOMAIN m = DOMAIN ps \cup {c}
      /\ \A p \in DOMAIN T : View(m, p, T) = View(ps, p, T)
  BY <1>0, Met
<1>2. IsPlayer(token) /\ c \in DOMAIN T
  BY SomebodyPlays DEF Names
<1>3. r = [m EXCEPT ![c].stats = [s \in Statistics |-> @[s] + IF s \in S THEN 1 ELSE 0]]
  BY <1>0, <1>2 DEF Count
<1>4. c \in DOMAIN m /\ m[c] = View(m, c, T) /\ m[c] \in PlayerInfos /\ m[c].team = T[c]
  <2>1. c \in DOMAIN m
    BY <1>1
  <2> QED  BY <1>1, <2>1 DEF View, Lists, Listing
<1>5. PICK b : b = Recounted(m[c], Credit(m[c].stats, S))
  OBVIOUS
<1>6. m[c].stats \in Counters
  BY <1>4 DEF PlayerInfos
<1>7. b \in PlayerInfos /\ b.team = T[c]
  BY <1>4, <1>5, <1>6, CreditType DEF PlayerInfos, Recounted
<1>8. [m[c] EXCEPT !.stats = [s \in Statistics |-> @[s] + IF s \in S THEN 1 ELSE 0]] = b
  BY <1>4, <1>5 DEF PlayerInfos, Recounted, Credit
<1>9. r = Put(m, c, b)
  BY <1>3, <1>8 DEF Put
<1> HIDE DEF c
<1>10. /\ Lists(r, T) /\ DOMAIN r = DOMAIN m /\ View(r, c, T) = b
       /\ \A p \in DOMAIN T : p # c => View(r, p, T) = View(m, p, T)
  BY <1>1, <1>4, <1>7, <1>9, Changed
<1>11. View(r, c, T) = Recounted(View(ps, c, T), Credit(View(ps, c, T).stats, S))
  BY <1>1, <1>2, <1>4, <1>5, <1>10
<1>12. OnlyOf(ps, r, T, c)
  <2>1. \A p \in DOMAIN T : p # c => View(r, p, T) = View(ps, p, T)
    BY <1>1, <1>10
  <2>2. DOMAIN ps \subseteq DOMAIN r
    BY <1>1, <1>10
  <2> QED  BY <1>10, <2>1, <2>2 DEF OnlyOf
<1>13. c \in DOMAIN r
  BY <1>1, <1>10
<1> QED  BY <1>11, <1>12, <1>13 DEF c

LEMMA PlayedAs ==
  ASSUME NEW ps, NEW T, Sides(T), Lists(ps, T), NEW token, Names(token, T), NEW role \in Roles,
         NEW r, r = As(ps, token, role)
  PROVE  /\ OnlyOf(ps, r, T, token.who) /\ token.who \in DOMAIN r
         /\ View(r, token.who, T) = Recast(View(ps, token.who, T), role)
<1> DEFINE c == token.who
<1>0. PICK m : m = Meet(ps, token)
  OBVIOUS
<1>1. /\ Lists(m, T) /\ DOMAIN m = DOMAIN ps \cup {c}
      /\ \A p \in DOMAIN T : View(m, p, T) = View(ps, p, T)
  BY <1>0, Met
<1>2. c \in DOMAIN T
  BY DEF Names
<1>3. r = [m EXCEPT ![c].character = role]
  BY <1>0 DEF As
<1>4. c \in DOMAIN m /\ m[c] = View(m, c, T) /\ m[c] \in PlayerInfos /\ m[c].team = T[c]
  <2>1. c \in DOMAIN m
    BY <1>1
  <2> QED  BY <1>1, <2>1 DEF View, Lists, Listing
<1>5. PICK b : b = Recast(m[c], role)
  OBVIOUS
<1>7. b \in PlayerInfos /\ b.team = T[c]
  BY <1>4, <1>5 DEF PlayerInfos, Recast
<1>8. [m[c] EXCEPT !.character = role] = b
  BY <1>4, <1>5 DEF PlayerInfos, Recast
<1>9. r = Put(m, c, b)
  BY <1>3, <1>8 DEF Put
<1> HIDE DEF c
<1>10. /\ Lists(r, T) /\ DOMAIN r = DOMAIN m /\ View(r, c, T) = b
       /\ \A p \in DOMAIN T : p # c => View(r, p, T) = View(m, p, T)
  BY <1>1, <1>4, <1>7, <1>9, Changed
<1>11. View(r, c, T) = Recast(View(ps, c, T), role)
  BY <1>1, <1>2, <1>4, <1>5, <1>10
<1>12. OnlyOf(ps, r, T, c)
  <2>1. \A p \in DOMAIN T : p # c => View(r, p, T) = View(ps, p, T)
    BY <1>1, <1>10
  <2>2. DOMAIN ps \subseteq DOMAIN r
    BY <1>1, <1>10
  <2> QED  BY <1>10, <2>1, <2>2 DEF OnlyOf
<1>13. c \in DOMAIN r
  BY <1>1, <1>10
<1> QED  BY <1>11, <1>12, <1>13 DEF c

\* Somebody in the game, the game's AI, or nobody.
Party(token, T) == token \in {Nobody, AI} \/ Names(token, T)

LEMMA PartyIsNotClient ==
  ASSUME NEW token \in {Nobody, AI}
  PROVE  token.who \notin Clients
<1>1. "ai" \notin Clients /\ Empty \notin Clients
  BY GameAssumption
<1> QED  BY <1>1, NobodyPlays

LEMMA CountedParty ==
  ASSUME NEW ps, NEW T, Sides(T), Lists(ps, T), NEW token, Party(token, T), NEW S,
         NEW r, r = Count(ps, token, S)
  PROVE  /\ OnlyOf(ps, r, T, token.who)
         /\ token.who \in DOMAIN T =>
              View(r, token.who, T) = Recounted(View(ps, token.who, T), Credit(View(ps, token.who, T).stats, S))
<1>1. CASE token \in {Nobody, AI}
  <2>1. r = ps
    BY <1>1, CountedNobody
  <2>2. token.who \notin DOMAIN T
    BY <1>1, PartyIsNotClient DEF Sides
  <2>3. OnlyOf(ps, ps, T, token.who)
    BY DEF OnlyOf
  <2> QED  BY <2>1, <2>2, <2>3
<1>2. CASE Names(token, T)
  BY <1>2, CountedFor
<1> QED  BY <1>1, <1>2 DEF Party

LEMMA MetParty ==
  ASSUME NEW ps, NEW T, Sides(T), Lists(ps, T), NEW token, Party(token, T), NEW r, r = Meet(ps, token)
  PROVE  /\ Lists(r, T) /\ DOMAIN ps \subseteq DOMAIN r
         /\ \A p \in DOMAIN T : View(r, p, T) = View(ps, p, T)
<1>1. CASE token \in {Nobody, AI}
  BY <1>1, MetNobody
<1>2. CASE Names(token, T)
  <2>1. /\ Lists(r, T) /\ DOMAIN r = DOMAIN ps \cup {token.who}
        /\ \A p \in DOMAIN T : View(r, p, T) = View(ps, p, T)
    BY <1>2, Met
  <2> QED  BY <2>1
<1> QED  BY <1>1, <1>2 DEF Party

----------------------------------------------------------------------------
(***************************************************************************)
(* What players do, and what is listed of it                               *)
(***************************************************************************)
Gain(l, p, s) == IF Counts(l, p, s) THEN 1 ELSE 0
RoleAfter(l, p, role) == IF l.kind = "plays" /\ l.by.who = p THEN l.as
                         ELSE IF l.kind = "death" /\ l.on.who = p THEN Empty ELSE role

\* From v to w by a line about p
Follows(v, w, l, p) ==
  /\ w.team = v.team /\ w.wins = v.wins /\ w.loses = v.loses /\ w.known = v.known
  /\ w.character = RoleAfter(l, p, v.character)
  /\ \A s \in Statistics : w.stats[s] = v.stats[s] + Gain(l, p, s)

Recorded(ps, qs, l, T) ==
  /\ Lists(qs, T) /\ DOMAIN ps \subseteq DOMAIN qs
  /\ \A p \in DOMAIN T : Follows(View(ps, p, T), View(qs, p, T), l, p)

Victims == {"kill", "headshot", "die", "suicide"}
PlainKinds == {"exploded", "neutralized", "purchase", "spawn", "crate", "donated", "overmine", "chat", "player",
               "votecalled"}
DeedLine(l, T) ==
  /\ Party(l.by, T) /\ Party(l.on, T)
  /\ \/ l.kind = "death" /\ l.what \in Victims /\ Names(l.on, T) /\ (~Killing(l) => l.by = Nobody)
     \/ l.kind = "plays" /\ Names(l.by, T) /\ l.as \in Characters
     \/ l.kind = "deployed"
     \/ l.kind = "disarmed"
     \/ l.kind = "captured" /\ l.what = "building"
     \/ l.kind = "stolen" /\ l.what = "vehicle"
     \/ l.kind = "destroyed" /\ l.what \in {"vehicle", "building", "defence"}
     \/ l.kind \in PlainKinds

\* What a deed counts for, to the one who does it and to the one it is done to.
Earns(l, p, A, B) ==
  /\ A \cap B = {}
  /\ \A s : Counts(l, p, s) <=> (l.by.who = p /\ s \in A) \/ (l.on.who = p /\ s \in B)

Credited(v, u, p, who, S) == /\ p # who => u = v
                             /\ p = who => u = Recounted(v, Credit(v.stats, S))
Gained(v, w, l, p) ==
  /\ w.team = v.team /\ w.wins = v.wins /\ w.loses = v.loses /\ w.known = v.known
  /\ w.character = v.character
  /\ \A s \in Statistics : w.stats[s] = v.stats[s] + Gain(l, p, s)

LEMMA CreditedBoth ==
  ASSUME NEW l, NEW A, NEW B, NEW p, NEW v, v.stats \in Counters,
         Earns(l, p, A, B),
         NEW u, Credited(v, u, p, l.on.who, B), NEW w, Credited(u, w, p, l.by.who, A)
  PROVE  Gained(v, w, l, p)
<1>0. /\ (p # l.on.who => u = v) /\ (p = l.on.who => u = Recounted(v, Credit(v.stats, B)))
      /\ (p # l.by.who => w = u) /\ (p = l.by.who => w = Recounted(u, Credit(u.stats, A)))
  BY DEF Credited
<1>1. u.team = v.team /\ u.wins = v.wins /\ u.loses = v.loses /\ u.known = v.known /\ u.character = v.character
  BY <1>0 DEF Recounted
<1>2. w.team = v.team /\ w.wins = v.wins /\ w.loses = v.loses /\ w.known = v.known /\ w.character = v.character
  BY <1>0, <1>1 DEF Recounted
<1>3. ASSUME NEW s \in Statistics
      PROVE  w.stats[s] = v.stats[s] + Gain(l, p, s)
  <2>1. v.stats[s] \in Nat
    BY DEF Counters
  <2>2. u.stats[s] = v.stats[s] + IF p = l.on.who /\ s \in B THEN 1 ELSE 0
    BY <1>0, <2>1 DEF Recounted, Credit
  <2>3. w.stats[s] = u.stats[s] + IF p = l.by.who /\ s \in A THEN 1 ELSE 0
    <3>1. u.stats[s] \in Nat
      BY <2>1, <2>2
    <3> QED  BY <1>0, <3>1 DEF Recounted, Credit
  <2>4. s \notin A \/ s \notin B
    BY DEF Earns
  <2>5. Counts(l, p, s) <=> (l.by.who = p /\ s \in A) \/ (l.on.who = p /\ s \in B)
    BY DEF Earns
  <2> QED  BY <2>1, <2>2, <2>3, <2>4, <2>5 DEF Gain
<1> QED  BY <1>2, <1>3 DEF Gained

Tallied(ps, qs, l, T) ==
  /\ Lists(qs, T) /\ DOMAIN ps \subseteq DOMAIN qs
  /\ \A p \in DOMAIN T : Gained(View(ps, p, T), View(qs, p, T), l, p)

\* One token after the other is credited.
LEMMA BothTallied ==
  ASSUME NEW ps, NEW T, Sides(T), Lists(ps, T), NEW l, Party(l.by, T), Party(l.on, T), NEW A, NEW B,
         \A p \in DOMAIN T : Earns(l, p, A, B),
         NEW qs, qs = Count(ps, l.on, B), NEW rs, rs = Count(qs, l.by, A)
  PROVE  Tallied(ps, rs, l, T)
<1>1. /\ OnlyOf(ps, qs, T, l.on.who)
      /\ l.on.who \in DOMAIN T =>
           View(qs, l.on.who, T) = Recounted(View(ps, l.on.who, T), Credit(View(ps, l.on.who, T).stats, B))
  <2>1. PICK token : token = l.on
    OBVIOUS
  <2> QED  BY <2>1, CountedParty
<1>2. /\ OnlyOf(qs, rs, T, l.by.who)
      /\ l.by.who \in DOMAIN T =>
           View(rs, l.by.who, T) = Recounted(View(qs, l.by.who, T), Credit(View(qs, l.by.who, T).stats, A))
  <2>1. PICK token : token = l.by
    OBVIOUS
  <2>2. Lists(qs, T)
    BY <1>1 DEF OnlyOf
  <2> QED  BY <2>1, <2>2, CountedParty
<1>3. ASSUME NEW p \in DOMAIN T
      PROVE  Gained(View(ps, p, T), View(rs, p, T), l, p)
  <2>1. View(ps, p, T) \in PlayerInfos
    BY ViewType
  <2>2. PICK v : v = View(ps, p, T)
    OBVIOUS
  <2>3. PICK u : u = View(qs, p, T)
    OBVIOUS
  <2>4. PICK w : w = View(rs, p, T)
    OBVIOUS
  <2>5. v.stats \in Counters
    BY <2>1, <2>2 DEF PlayerInfos
  <2>6. Credited(v, u, p, l.on.who, B)
    BY <1>1, <2>2, <2>3 DEF Credited, OnlyOf
  <2>7. Credited(u, w, p, l.by.who, A)
    BY <1>2, <2>3, <2>4 DEF Credited, OnlyOf
  <2>8. Earns(l, p, A, B)
    OBVIOUS
  <2>9. Gained(v, w, l, p)
    BY <2>5, <2>6, <2>7, <2>8, CreditedBoth
  <2> QED  BY <2>2, <2>4, <2>9
<1> QED  BY <1>1, <1>2, <1>3 DEF Tallied, OnlyOf

LEMMA CountsByKind ==
  ASSUME NEW l, NEW p, NEW s
  PROVE  /\ l.kind = "deployed" =>
              (Counts(l, p, s) <=> l.by.who = p /\ ((l.what = "beacon" /\ s = "beaconPlacements")
                                                    \/ (l.what = "proxy" /\ s = "proxy_placements")))
         /\ l.kind = "disarmed" =>
              (Counts(l, p, s) <=> l.by.who = p /\ ((l.what = "beacon" /\ s = "beaconDisarms")
                                                    \/ (l.what = "proxy" /\ s = "proxy_disarms")))
         /\ l.kind = "captured" => (Counts(l, p, s) <=> l.by.who = p /\ l.what = "building" /\ s = "captures")
         /\ l.kind = "stolen" /\ l.what = "vehicle" =>
              (Counts(l, p, s) <=> (l.by.who = p /\ s = "steals") \/ (l.on.who = p /\ s = "stolen"))
         /\ l.kind = "destroyed" =>
              (Counts(l, p, s) <=> l.by.who = p /\ ((l.what = "vehicle" /\ s = "vehicleKills")
                                                    \/ (l.what = "building" /\ s = "buildingKills")
                                                    \/ (l.what = "defence" /\ s = "defenceKills")))
         /\ l.kind = "death" /\ l.what \in Victims =>
              (Counts(l, p, s) <=> \/ l.by.who = p /\ ((Killing(l) /\ s = "kills")
                                                       \/ (l.what = "headshot" /\ s = "headshots"))
                                   \/ l.on.who = p /\ (s = "deaths" \/ (l.what = "suicide" /\ s = "suicides")))
         /\ l.kind \in PlainKinds \cup {"plays"} => ~Counts(l, p, s)
<1>1. <<l.kind, l.what, s>> \in Merits <=>
        \/ l.kind = "death" /\ l.what = "kill" /\ s = "kills"
        \/ l.kind = "death" /\ l.what = "headshot" /\ s = "kills"
        \/ l.kind = "death" /\ l.what = "headshot" /\ s = "headshots"
        \/ l.kind = "destroyed" /\ l.what = "vehicle" /\ s = "vehicleKills"
        \/ l.kind = "destroyed" /\ l.what = "building" /\ s = "buildingKills"
        \/ l.kind = "destroyed" /\ l.what = "defence" /\ s = "defenceKills"
        \/ l.kind = "deployed" /\ l.what = "beacon" /\ s = "beaconPlacements"
        \/ l.kind = "deployed" /\ l.what = "proxy" /\ s = "proxy_placements"
        \/ l.kind = "disarmed" /\ l.what = "beacon" /\ s = "beaconDisarms"
        \/ l.kind = "disarmed" /\ l.what = "proxy" /\ s = "proxy_disarms"
        \/ l.kind = "captured" /\ l.what = "building" /\ s = "captures"
        \/ l.kind = "stolen" /\ l.what = "vehicle" /\ s = "steals"
  BY DEF Merits
<1>2. <<l.kind, l.what, s>> \in Losses <=>
        \/ l.kind = "death" /\ l.what \in Victims /\ s = "deaths"
        \/ l.kind = "death" /\ l.what = "suicide" /\ s = "suicides"
        \/ l.kind = "stolen" /\ l.what = "vehicle" /\ s = "stolen"
  BY DEF Losses, Victims
<1>3. Counts(l, p, s) <=> \/ l.by.who = p /\ <<l.kind, l.what, s>> \in Merits
                          \/ l.on.who = p /\ <<l.kind, l.what, s>> \in Losses
  BY DEF Counts
<1>4. Killing(l) <=> l.what = "kill" \/ l.what = "headshot"
  BY DEF Killing
<1>5. l.kind = "deployed" =>
              (Counts(l, p, s) <=> l.by.who = p /\ ((l.what = "beacon" /\ s = "beaconPlacements")
                                                    \/ (l.what = "proxy" /\ s = "proxy_placements")))
  BY <1>1, <1>2, <1>3
<1>6. l.kind = "disarmed" =>
              (Counts(l, p, s) <=> l.by.who = p /\ ((l.what = "beacon" /\ s = "beaconDisarms")
                                                    \/ (l.what = "proxy" /\ s = "proxy_disarms")))
  BY <1>1, <1>2, <1>3
<1>7. l.kind = "captured" => (Counts(l, p, s) <=> l.by.who = p /\ l.what = "building" /\ s = "captures")
  BY <1>1, <1>2, <1>3
<1>8. l.kind = "stolen" /\ l.what = "vehicle" =>
              (Counts(l, p, s) <=> (l.by.who = p /\ s = "steals") \/ (l.on.who = p /\ s = "stolen"))
  BY <1>1, <1>2, <1>3
<1>9. l.kind = "destroyed" =>
              (Counts(l, p, s) <=> l.by.who = p /\ ((l.what = "vehicle" /\ s = "vehicleKills")
                                                    \/ (l.what = "building" /\ s = "buildingKills")
                                                    \/ (l.what = "defence" /\ s = "defenceKills")))
  BY <1>1, <1>2, <1>3
<1>10. l.kind = "death" /\ l.what \in Victims =>
              (Counts(l, p, s) <=> \/ l.by.who = p /\ ((Killing(l) /\ s = "kills")
                                                       \/ (l.what = "headshot" /\ s = "headshots"))
                                   \/ l.on.who = p /\ (s = "deaths" \/ (l.what = "suicide" /\ s = "suicides")))
  <2> SUFFICES ASSUME l.kind = "death", l.what \in Victims
               PROVE  Counts(l, p, s) <=> \/ l.by.who = p /\ ((Killing(l) /\ s = "kills")
                                                              \/ (l.what = "headshot" /\ s = "headshots"))
                                          \/ l.on.who = p /\ (s = "deaths" \/ (l.what = "suicide" /\ s = "suicides"))
    OBVIOUS
  <2>1. <<l.kind, l.what, s>> \in Merits <=> ((Killing(l) /\ s = "kills")) \/ (l.what = "headshot" /\ s = "headshots")
    BY <1>1, <1>4
  <2>2. <<l.kind, l.what, s>> \in Losses <=> s = "deaths" \/ (l.what = "suicide" /\ s = "suicides")
    BY <1>2
  <2> QED  BY <1>3, <2>1, <2>2
<1>11. l.kind \in PlainKinds \cup {"plays"} => ~Counts(l, p, s)
  BY <1>1, <1>2, <1>3 DEF PlainKinds
<1> QED  BY <1>5, <1>6, <1>7, <1>8, <1>9, <1>10, <1>11

\* What a deed counts for, to one of the two only.
EarnsAlone(l, p, who, S) == \A s : Counts(l, p, s) <=> who = p /\ s \in S

LEMMA OneTallied ==
  ASSUME NEW ps, NEW T, Sides(T), Lists(ps, T), NEW l, NEW token, Party(token, T), NEW S,
         \A p \in DOMAIN T : EarnsAlone(l, p, token.who, S),
         NEW qs, qs = Count(ps, token, S)
  PROVE  Tallied(ps, qs, l, T)
<1>1. /\ OnlyOf(ps, qs, T, token.who)
      /\ token.who \in DOMAIN T =>
           View(qs, token.who, T) = Recounted(View(ps, token.who, T), Credit(View(ps, token.who, T).stats, S))
  BY CountedParty
<1>2. ASSUME NEW p \in DOMAIN T
      PROVE  Gained(View(ps, p, T), View(qs, p, T), l, p)
  <2>1. View(ps, p, T) \in PlayerInfos
    BY ViewType
  <2>2. PICK v : v = View(ps, p, T)
    OBVIOUS
  <2>3. PICK u : u = View(qs, p, T)
    OBVIOUS
  <2>4. v.stats \in Counters
    BY <2>1, <2>2 DEF PlayerInfos
  <2>5. \A s : Counts(l, p, s) <=> token.who = p /\ s \in S
    BY DEF EarnsAlone
  <2>6. (p # token.who => u = v) /\ (p = token.who => u = Recounted(v, Credit(v.stats, S)))
    BY <1>1, <2>2, <2>3 DEF OnlyOf
  <2>7. u.team = v.team /\ u.wins = v.wins /\ u.loses = v.loses /\ u.known = v.known /\ u.character = v.character
    BY <2>6 DEF Recounted
  <2>8. \A s \in Statistics : u.stats[s] = v.stats[s] + Gain(l, p, s)
    <3> TAKE s \in Statistics
    <3>1. v.stats[s] \in Nat
      BY <2>4 DEF Counters
    <3>2. u.stats[s] = v.stats[s] + IF p = token.who /\ s \in S THEN 1 ELSE 0
      BY <2>6, <3>1 DEF Recounted, Credit
    <3> QED  BY <2>5, <3>1, <3>2 DEF Gain
  <2> QED  BY <2>2, <2>3, <2>7, <2>8 DEF Gained
<1> QED  BY <1>1, <1>2 DEF Tallied, OnlyOf

\* To name somebody afterwards changes nothing.
LEMMA TalliedThenMet ==
  ASSUME NEW ps, NEW T, Sides(T), NEW l, NEW qs, Tallied(ps, qs, l, T), NEW token, Party(token, T),
         NEW rs, rs = Meet(qs, token)
  PROVE  Tallied(ps, rs, l, T)
<1>1. Lists(qs, T) /\ DOMAIN ps \subseteq DOMAIN qs
  BY DEF Tallied
<1>2. /\ Lists(rs, T) /\ DOMAIN qs \subseteq DOMAIN rs
      /\ \A p \in DOMAIN T : View(rs, p, T) = View(qs, p, T)
  BY <1>1, MetParty
<1>3. \A p \in DOMAIN T : Gained(View(ps, p, T), View(rs, p, T), l, p)
  BY <1>2 DEF Tallied
<1> QED  BY <1>1, <1>2, <1>3 DEF Tallied

LEMMA TalliedIsRecorded ==
  ASSUME NEW ps, NEW T, NEW l, l.kind \notin {"plays", "death"}, NEW qs, Tallied(ps, qs, l, T)
  PROVE  Recorded(ps, qs, l, T)
<1>1. \A p \in DOMAIN T : Follows(View(ps, p, T), View(qs, p, T), l, p)
  <2> TAKE p \in DOMAIN T
  <2>1. PICK v : v = View(ps, p, T)
    OBVIOUS
  <2>2. PICK w : w = View(qs, p, T)
    OBVIOUS
  <2>3. Gained(v, w, l, p)
    BY <2>1, <2>2 DEF Tallied
  <2>4. RoleAfter(l, p, v.character) = v.character
    BY DEF RoleAfter
  <2>5. Follows(v, w, l, p)
    BY <2>3, <2>4 DEF Gained, Follows
  <2> QED  BY <2>1, <2>2, <2>5
<1> QED  BY <1>1 DEF Recorded, Tallied

\* One player is counted, and plays as something else from then on.
LEMMA TalliedThenRecast ==
  ASSUME NEW ps, NEW T, Sides(T), NEW l, NEW qs, Tallied(ps, qs, l, T), NEW token, Names(token, T),
         NEW role \in Roles, NEW rs, rs = As(qs, token, role),
         (l.kind = "plays" /\ l.by = token /\ l.as = role) \/ (l.kind = "death" /\ l.on = token /\ role = Empty)
  PROVE  Recorded(ps, rs, l, T)
<1>1. Lists(qs, T) /\ DOMAIN ps \subseteq DOMAIN qs
  BY DEF Tallied
<1>2. OnlyOf(qs, rs, T, token.who) /\ View(rs, token.who, T) = Recast(View(qs, token.who, T), role)
  BY <1>1, PlayedAs
<1>3. \A p \in DOMAIN T : Follows(View(ps, p, T), View(rs, p, T), l, p)
  <2> TAKE p \in DOMAIN T
  <2>1. PICK v : v = View(ps, p, T)
    OBVIOUS
  <2>2. PICK u : u = View(qs, p, T)
    OBVIOUS
  <2>3. PICK w : w = View(rs, p, T)
    OBVIOUS
  <2>4. Gained(v, u, l, p)
    BY <2>1, <2>2 DEF Tallied
  <2>5. (p # token.who => w = u) /\ (p = token.who => w = Recast(u, role))
    BY <1>2, <2>2, <2>3 DEF OnlyOf
  <2>6. RoleAfter(l, p, v.character) = IF p = token.who THEN role ELSE v.character
    BY DEF RoleAfter
  <2> SUFFICES Follows(v, w, l, p)
    BY <2>1, <2>3
  <2>7. CASE p = token.who
    BY <2>4, <2>5, <2>6, <2>7 DEF Gained, Follows, Recast
  <2>8. CASE p # token.who
    BY <2>4, <2>5, <2>6, <2>8 DEF Gained, Follows
  <2> QED  BY <2>7, <2>8
<1>4. DOMAIN ps \subseteq DOMAIN rs
  BY <1>1, <1>2 DEF OnlyOf
<1> QED  BY <1>2, <1>3, <1>4 DEF Recorded, OnlyOf

\* Nothing is counted of a line that only names players.
LEMMA NothingTallied ==
  ASSUME NEW ps, NEW T, Lists(ps, T), NEW l, \A p, s : ~Counts(l, p, s), Sides(T)
  PROVE  Tallied(ps, ps, l, T)
<1>1. \A p \in DOMAIN T : Gained(View(ps, p, T), View(ps, p, T), l, p)
  <2> TAKE p \in DOMAIN T
  <2>1. PICK v : v = View(ps, p, T)
    OBVIOUS
  <2>2. v \in PlayerInfos
    BY <2>1, ViewType
  <2>3. \A s \in Statistics : v.stats[s] = v.stats[s] + Gain(l, p, s)
    <3> TAKE s \in Statistics
    <3>1. v.stats[s] \in Nat
      BY <2>2 DEF PlayerInfos, Counters
    <3> QED  BY <3>1 DEF Gain
  <2>4. Gained(v, v, l, p)
    BY <2>3 DEF Gained
  <2> QED  BY <2>1, <2>4
<1> QED  BY <1>1 DEF Tallied

LEMMA DeathRecorded ==
  ASSUME NEW ps, NEW T, Sides(T), Lists(ps, T), NEW l, DeedLine(l, T), l.kind = "death"
  PROVE  Recorded(ps, Death(ps, l), l, T)
<1>1. l.what \in Victims /\ Names(l.on, T) /\ (~Killing(l) => l.by = Nobody) /\ Party(l.by, T) /\ Party(l.on, T)
  BY DEF DeedLine, PlainKinds
<1>2. PICK B : B = {"deaths"} \cup IF l.what = "suicide" THEN {"suicides"} ELSE {}
  OBVIOUS
<1>3. PICK A : A = {"kills"} \cup IF l.what = "headshot" THEN {"headshots"} ELSE {}
  OBVIOUS
<1>4. PICK fallen : fallen = Count(ps, l.on, B)
  OBVIOUS
<1>5. PICK shot : shot = Count(fallen, l.by, A)
  OBVIOUS
<1>6. Death(ps, l) = As(IF Killing(l) THEN shot ELSE fallen, l.on, Empty)
  BY <1>2, <1>3, <1>4, <1>5 DEF Death
<1>7. Killing(l) <=> l.what = "kill" \/ l.what = "headshot"
  BY DEF Killing
<1>8. \A s : /\ s \in B <=> s = "deaths" \/ (l.what = "suicide" /\ s = "suicides")
             /\ s \in A <=> s = "kills" \/ (l.what = "headshot" /\ s = "headshots")
  BY <1>2, <1>3
<1>9. \A p, s : Counts(l, p, s) <=> \/ l.by.who = p /\ ((Killing(l) /\ s = "kills")
                                                        \/ (l.what = "headshot" /\ s = "headshots"))
                                    \/ l.on.who = p /\ (s = "deaths" \/ (l.what = "suicide" /\ s = "suicides"))
  BY <1>1, CountsByKind
<1>10. PICK qs : qs = IF Killing(l) THEN shot ELSE fallen
  OBVIOUS
<1>11. Tallied(ps, qs, l, T)
  <2>1. CASE Killing(l)
    <3>1. ASSUME NEW p
          PROVE  Earns(l, p, A, B)
      <4>1. A \cap B = {}
        <5>1. \A s : ~(s \in A /\ s \in B)
          BY <1>8
        <5> QED  BY <5>1
      <4>2. \A s : Counts(l, p, s) <=> (l.by.who = p /\ s \in A) \/ (l.on.who = p /\ s \in B)
        BY <1>8, <1>9, <2>1
      <4> QED  BY <4>1, <4>2 DEF Earns
    <3>2. \A p \in DOMAIN T : Earns(l, p, A, B)
      BY <3>1
    <3>3. Tallied(ps, shot, l, T)
      BY <1>1, <1>4, <1>5, <3>2, BothTallied
    <3> QED  BY <1>10, <2>1, <3>3
  <2>2. CASE ~Killing(l)
    <3>1. \A p \in DOMAIN T : EarnsAlone(l, p, l.on.who, B)
      BY <1>7, <1>8, <1>9, <2>2 DEF EarnsAlone
    <3>2. PICK token : token = l.on
      OBVIOUS
    <3>3. Tallied(ps, fallen, l, T)
      BY <1>1, <1>4, <3>1, <3>2, OneTallied
    <3> QED  BY <1>10, <2>2, <3>3
  <2> QED  BY <2>1, <2>2
<1>12. PICK rs : rs = As(qs, l.on, Empty)
  OBVIOUS
<1>13. PICK token : token = l.on
  OBVIOUS
<1>14. PICK role \in Roles : role = Empty
  BY DEF Roles
<1>15. Recorded(ps, rs, l, T)
  BY <1>1, <1>11, <1>12, <1>13, <1>14, TalliedThenRecast
<1> QED  BY <1>6, <1>10, <1>12, <1>15

\* Deeds that count for the one who acts.
LEMMA ActsTallied ==
  ASSUME NEW ps, NEW T, Sides(T), Lists(ps, T), NEW l, Party(l.by, T), NEW A,
         \A p, s : Counts(l, p, s) <=> l.by.who = p /\ s \in A,
         NEW qs, qs = Count(ps, l.by, A)
  PROVE  Tallied(ps, qs, l, T)
<1>1. PICK token : token = l.by
  OBVIOUS
<1>2. \A p \in DOMAIN T : EarnsAlone(l, p, token.who, A)
  BY <1>1 DEF EarnsAlone
<1> QED  BY <1>1, <1>2, OneTallied

LEMMA DeployedRecorded ==
  ASSUME NEW ps, NEW T, Sides(T), Lists(ps, T), NEW l, DeedLine(l, T), l.kind = "deployed"
  PROVE  Recorded(ps, Deployed(ps, l), l, T)
<1>1. Party(l.by, T)
  BY DEF DeedLine
<1>2. PICK A : A = CASE l.what = "beacon" -> {"beaconPlacements"}
                     [] l.what = "proxy"  -> {"proxy_placements"}
                     [] OTHER             -> {}
  OBVIOUS
<1>3. PICK qs : qs = Count(ps, l.by, A)
  OBVIOUS
<1>4. Deployed(ps, l) = qs
  BY <1>2, <1>3 DEF Deployed
<1>5. \A s : s \in A <=> (l.what = "beacon" /\ s = "beaconPlacements") \/ (l.what = "proxy" /\ s = "proxy_placements")
  BY <1>2
<1>6. \A p, s : Counts(l, p, s) <=> l.by.who = p /\ s \in A
  BY <1>5, CountsByKind
<1> HIDE DEF Party
<1>7. Tallied(ps, qs, l, T)
  BY <1>1, <1>3, <1>6, ActsTallied
<1> QED  BY <1>4, <1>7, TalliedIsRecorded

LEMMA DisarmedRecorded ==
  ASSUME NEW ps, NEW T, Sides(T), Lists(ps, T), NEW l, DeedLine(l, T), l.kind = "disarmed"
  PROVE  Recorded(ps, Disarmed(ps, l), l, T)
<1>1. Party(l.by, T) /\ Party(l.on, T)
  BY DEF DeedLine
<1>2. PICK A : A = CASE l.what = "beacon" -> {"beaconDisarms"}
                     [] l.what = "proxy"  -> {"proxy_disarms"}
                     [] OTHER             -> {}
  OBVIOUS
<1>3. PICK qs : qs = Count(ps, l.by, A)
  OBVIOUS
<1>4. PICK rs : rs = Meet(qs, l.on)
  OBVIOUS
<1>5. Disarmed(ps, l) = rs
  BY <1>2, <1>3, <1>4 DEF Disarmed
<1>6. \A s : s \in A <=> (l.what = "beacon" /\ s = "beaconDisarms") \/ (l.what = "proxy" /\ s = "proxy_disarms")
  BY <1>2
<1>7. \A p, s : Counts(l, p, s) <=> l.by.who = p /\ s \in A
  BY <1>6, CountsByKind
<1>8. Tallied(ps, qs, l, T)
  BY <1>1, <1>3, <1>7, ActsTallied
<1>9. PICK token : token = l.on
  OBVIOUS
<1>10. Tallied(ps, rs, l, T)
  BY <1>1, <1>4, <1>8, <1>9, TalliedThenMet
<1> QED  BY <1>5, <1>10, TalliedIsRecorded

LEMMA CapturedRecorded ==
  ASSUME NEW ps, NEW T, Sides(T), Lists(ps, T), NEW l, DeedLine(l, T), l.kind = "captured"
  PROVE  Recorded(ps, Captured(ps, l), l, T)
<1>1. Party(l.by, T) /\ l.what = "building"
  BY DEF DeedLine, PlainKinds
<1>2. PICK A : A = {"captures"}
  OBVIOUS
<1>3. PICK qs : qs = Count(ps, l.by, A)
  OBVIOUS
<1>4. Captured(ps, l) = qs
  BY <1>2, <1>3 DEF Captured
<1>5. \A p, s : Counts(l, p, s) <=> l.by.who = p /\ s \in A
  BY <1>1, <1>2, CountsByKind
<1>6. Tallied(ps, qs, l, T)
  BY <1>1, <1>3, <1>5, ActsTallied
<1> QED  BY <1>4, <1>6, TalliedIsRecorded

LEMMA StolenRecorded ==
  ASSUME NEW ps, NEW T, Sides(T), Lists(ps, T), NEW l, DeedLine(l, T), l.kind = "stolen"
  PROVE  Recorded(ps, Stolen(ps, l), l, T)
<1>1. Party(l.by, T) /\ Party(l.on, T) /\ l.what = "vehicle"
  BY DEF DeedLine, PlainKinds
<1>2. PICK A : A = {"steals"}
  OBVIOUS
<1>3. PICK B : B = {"stolen"}
  OBVIOUS
<1>4. PICK qs : qs = Count(ps, l.on, B)
  OBVIOUS
<1>5. PICK rs : rs = Count(qs, l.by, A)
  OBVIOUS
<1>6. Stolen(ps, l) = rs
  BY <1>2, <1>3, <1>4, <1>5 DEF Stolen
<1>7. ASSUME NEW p
      PROVE  Earns(l, p, A, B)
  <2>1. A \cap B = {}
    BY <1>2, <1>3
  <2>2. \A s : Counts(l, p, s) <=> (l.by.who = p /\ s \in A) \/ (l.on.who = p /\ s \in B)
    BY <1>1, <1>2, <1>3, CountsByKind
  <2> QED  BY <2>1, <2>2 DEF Earns
<1>8. Tallied(ps, rs, l, T)
  <2>1. \A p \in DOMAIN T : Earns(l, p, A, B)
    BY <1>7
  <2> QED  BY <1>1, <1>4, <1>5, <2>1, BothTallied
<1> QED  BY <1>6, <1>8, TalliedIsRecorded

LEMMA DestroyedRecorded ==
  ASSUME NEW ps, NEW T, Sides(T), Lists(ps, T), NEW l, DeedLine(l, T), l.kind = "destroyed"
  PROVE  Recorded(ps, Destroyed(ps, l), l, T)
<1>1. Party(l.by, T) /\ l.what \in {"vehicle", "building", "defence"}
  BY DEF DeedLine, PlainKinds
<1>2. PICK A : A = CASE l.what = "vehicle"  -> {"vehicleKills"}
                     [] l.what = "building" -> {"buildingKills"}
                     [] OTHER               -> {"defenceKills"}
  OBVIOUS
<1>3. PICK qs : qs = Count(ps, l.by, A)
  OBVIOUS
<1>4. Destroyed(ps, l) = qs
  BY <1>2, <1>3 DEF Destroyed
<1>5. \A s : s \in A <=> \/ (l.what = "vehicle" /\ s = "vehicleKills")
                         \/ (l.what = "building" /\ s = "buildingKills")
                         \/ (l.what = "defence" /\ s = "defenceKills")
  BY <1>1, <1>2
<1>6. \A p, s : Counts(l, p, s) <=> l.by.who = p /\ s \in A
  BY <1>5, CountsByKind
<1>7. Tallied(ps, qs, l, T)
  BY <1>1, <1>3, <1>6, ActsTallied
<1> QED  BY <1>4, <1>7, TalliedIsRecorded

LEMMA PlaysRecorded ==
  ASSUME NEW ps, NEW T, Sides(T), Lists(ps, T), NEW l, DeedLine(l, T), l.kind = "plays"
  PROVE  Recorded(ps, Plays(ps, l), l, T)
<1>1. Names(l.by, T) /\ l.as \in Characters
  BY DEF DeedLine, PlainKinds
<1>2. \A p, s : ~Counts(l, p, s)
  BY CountsByKind
<1>3. Tallied(ps, ps, l, T)
  BY <1>2, NothingTallied
<1>4. PICK rs : rs = As(ps, l.by, l.as)
  OBVIOUS
<1>5. Plays(ps, l) = rs
  BY <1>4 DEF Plays
<1>6. PICK token : token = l.by
  OBVIOUS
<1>7. PICK role \in Roles : role = l.as
  BY <1>1 DEF Roles
<1>8. Recorded(ps, rs, l, T)
  BY <1>1, <1>3, <1>4, <1>6, <1>7, TalliedThenRecast
<1> QED  BY <1>5, <1>8

LEMMA NamedRecorded ==
  ASSUME NEW ps, NEW T, Sides(T), Lists(ps, T), NEW l, DeedLine(l, T), l.kind \in PlainKinds
  PROVE  Recorded(ps, Named(ps, l), l, T)
<1>1. Party(l.by, T) /\ Party(l.on, T)
  BY DEF DeedLine
<1>2. \A p, s : ~Counts(l, p, s)
  BY CountsByKind
<1>3. Tallied(ps, ps, l, T)
  BY <1>2, NothingTallied
<1>4. PICK qs : qs = Meet(ps, l.by)
  OBVIOUS
<1>5. PICK rs : rs = Meet(qs, l.on)
  OBVIOUS
<1>6. Named(ps, l) = rs
  BY <1>4, <1>5 DEF Named
<1>7. PICK actor : actor = l.by
  OBVIOUS
<1>8. PICK other : other = l.on
  OBVIOUS
<1>9. Tallied(ps, qs, l, T)
  BY <1>1, <1>3, <1>4, <1>7, TalliedThenMet
<1>10. Tallied(ps, rs, l, T)
  BY <1>1, <1>5, <1>8, <1>9, TalliedThenMet
<1>11. l.kind \notin {"plays", "death"}
  BY DEF PlainKinds
<1> QED  BY <1>6, <1>10, <1>11, TalliedIsRecorded

\* Whatever players do, the list follows.
LEMMA DeedRecorded ==
  ASSUME NEW ps, NEW T, Sides(T), Lists(ps, T), NEW l, DeedLine(l, T)
  PROVE  Recorded(ps, After(ps, l), l, T)
<1>1. l.kind = "death" => After(ps, l) = Death(ps, l)
  BY DEF After
<1>2. l.kind = "plays" => After(ps, l) = Plays(ps, l)
  BY DEF After
<1>3. l.kind = "deployed" => After(ps, l) = Deployed(ps, l)
  BY DEF After
<1>4. l.kind = "disarmed" => After(ps, l) = Disarmed(ps, l)
  BY DEF After
<1>5. l.kind = "captured" => After(ps, l) = Captured(ps, l)
  BY DEF After
<1>6. l.kind = "stolen" => After(ps, l) = Stolen(ps, l)
  BY DEF After
<1>7. l.kind = "destroyed" => After(ps, l) = Destroyed(ps, l)
  BY DEF After
<1>8. l.kind \in PlainKinds => After(ps, l) = Named(ps, l)
  BY DEF After, PlainKinds
<1>9. l.kind \in PlainKinds \cup {"death", "plays", "deployed", "disarmed", "captured", "stolen", "destroyed"}
  BY DEF DeedLine
<1> QED  BY <1>1, <1>2, <1>3, <1>4, <1>5, <1>6, <1>7, <1>8, <1>9, DeathRecorded, PlaysRecorded,
            DeployedRecorded, DisarmedRecorded, CapturedRecorded, StolenRecorded, DestroyedRecorded, NamedRecorded

----------------------------------------------------------------------------
(***************************************************************************)
(* What the bot knows of the players when it has read everything           *)
(***************************************************************************)
Gamers == [team : Teams, character : Characters \cup {"none", "dead"}, stats : Counters,
           won : Nat, lost : Nat, seen : BOOLEAN, whole : BOOLEAN]
Crowd(gp) == DOMAIN gp \subseteq Clients /\ gp \in [DOMAIN gp -> Gamers]
SidesOf(gp) == [p \in DOMAIN gp |-> gp[p].team]

Shows(role, character) ==
  /\ character \in Characters => role = character
  /\ character = "dead" => role = Empty

\* What is listed, b, of a player, g, if a list has been answered or not.
Fits(b, g, answered) ==
  /\ g.seen => b.stats = g.stats
  /\ answered => b.stats.kills = g.stats.kills /\ b.stats.deaths = g.stats.deaths
  /\ \A s \in Statistics : b.stats[s] <= g.stats[s]
  /\ answered \/ g.seen => Shows(b.character, g.character)
  /\ g.whole => b.known /\ b.wins = g.won /\ b.loses = g.lost
  /\ b.wins <= g.won /\ b.loses <= g.lost

Mirrors(ps, gp, answered) ==
  /\ Lists(ps, SidesOf(gp))
  /\ \A p \in DOMAIN gp : Fits(View(ps, p, SidesOf(gp)), gp[p], answered)
  /\ \A p \in DOMAIN gp : p \notin DOMAIN ps => ~answered /\ ~gp[p].whole

LEMMA CrowdSides ==
  ASSUME NEW gp, Crowd(gp)
  PROVE  /\ Sides(SidesOf(gp)) /\ DOMAIN SidesOf(gp) = DOMAIN gp
         /\ \A p \in DOMAIN gp : SidesOf(gp)[p] = gp[p].team
BY DEF Crowd, SidesOf, Sides, Gamers

\* What a deed makes of the players of the game.
DoneBy(g, h, l, p) ==
  /\ h.team = g.team /\ h.won = g.won /\ h.lost = g.lost /\ h.seen = g.seen /\ h.whole = g.whole
  /\ \A s \in Statistics : h.stats[s] = g.stats[s] + Gain(l, p, s)
  /\ h.character = IF l.kind = "plays" /\ l.by.who = p THEN l.as
                   ELSE IF l.kind = "death" /\ l.on.who = p THEN "dead" ELSE g.character

LEMMA DeedFits ==
  ASSUME NEW b \in PlayerInfos, NEW g \in Gamers, NEW answered \in BOOLEAN, Fits(b, g, answered), NEW l, NEW p,
         NEW c \in PlayerInfos, Follows(b, c, l, p), NEW h \in Gamers, DoneBy(g, h, l, p),
         l.kind = "plays" => l.as \in Characters
  PROVE  Fits(c, h, answered)
<1>1. h.won = g.won /\ h.lost = g.lost /\ h.seen = g.seen /\ h.whole = g.whole
      /\ c.wins = b.wins /\ c.loses = b.loses /\ c.known = b.known
  BY DEF Follows, DoneBy
<1>2. \A s \in Statistics : /\ b.stats[s] \in Nat /\ g.stats[s] \in Nat /\ Gain(l, p, s) \in Nat
                            /\ c.stats[s] = b.stats[s] + Gain(l, p, s)
                            /\ h.stats[s] = g.stats[s] + Gain(l, p, s)
  BY DEF Follows, DoneBy, PlayerInfos, Gamers, Counters, Gain
<1>3. c.stats \in Counters /\ h.stats \in Counters
  BY DEF PlayerInfos, Gamers
<1>4. g.seen => c.stats = h.stats
  <2> SUFFICES ASSUME g.seen PROVE c.stats = h.stats
    OBVIOUS
  <2>1. \A s \in Statistics : c.stats[s] = h.stats[s]
    BY <1>2 DEF Fits
  <2> QED  BY <1>3, <2>1 DEF Counters
<1>5. answered => c.stats["kills"] = h.stats["kills"] /\ c.stats["deaths"] = h.stats["deaths"]
  <2>1. "kills" \in Statistics /\ "deaths" \in Statistics
    BY DEF Statistics
  <2> QED  BY <1>2, <2>1 DEF Fits
<1>6. \A s \in Statistics : c.stats[s] <= h.stats[s]
  <2> TAKE s \in Statistics
  <2>1. b.stats[s] <= g.stats[s]
    BY DEF Fits
  <2> QED  BY <1>2, <2>1
<1>7. answered \/ g.seen => Shows(c.character, h.character)
  <2> SUFFICES ASSUME Shows(b.character, g.character) PROVE Shows(c.character, h.character)
    BY DEF Fits
  <2>1. Characters \cap {Empty, "none", "dead"} = {}
    BY GameAssumption
  <2>2. c.character = RoleAfter(l, p, b.character)
    BY DEF Follows
  <2>3. h.character = IF l.kind = "plays" /\ l.by.who = p THEN l.as
                      ELSE IF l.kind = "death" /\ l.on.who = p THEN "dead" ELSE g.character
    BY DEF DoneBy
  <2>4. CASE l.kind = "plays" /\ l.by.who = p
    BY <2>1, <2>2, <2>3, <2>4 DEF RoleAfter, Shows
  <2>5. CASE l.kind = "death" /\ l.on.who = p
    BY <2>1, <2>2, <2>3, <2>5 DEF RoleAfter, Shows
  <2>6. CASE ~(l.kind = "plays" /\ l.by.who = p) /\ ~(l.kind = "death" /\ l.on.who = p)
    BY <2>2, <2>3, <2>6 DEF RoleAfter, Shows
  <2> QED  BY <2>4, <2>5, <2>6
<1> QED  BY <1>1, <1>4, <1>5, <1>6, <1>7 DEF Fits

LEMMA ViewOf ==
  ASSUME NEW ps, NEW gp, Crowd(gp), Lists(ps, SidesOf(gp)), NEW p \in DOMAIN gp
  PROVE  /\ View(ps, p, SidesOf(gp)) \in PlayerInfos
         /\ View(ps, p, SidesOf(gp)).team = gp[p].team
         /\ p \in DOMAIN ps => View(ps, p, SidesOf(gp)) = ps[p]
         /\ p \notin DOMAIN ps => View(ps, p, SidesOf(gp)) = PlayerInfo(gp[p].team)
<1>1. Sides(SidesOf(gp)) /\ DOMAIN SidesOf(gp) = DOMAIN gp /\ SidesOf(gp)[p] = gp[p].team
  BY CrowdSides
<1>2. View(ps, p, SidesOf(gp)) \in PlayerInfos /\ View(ps, p, SidesOf(gp)).team = SidesOf(gp)[p]
  BY <1>1, ViewType
<1> QED  BY <1>1, <1>2 DEF View

\* To show what is listed, player by player.
LEMMA MirrorsBy ==
  ASSUME NEW ps, NEW gp, Crowd(gp), DOMAIN ps \subseteq DOMAIN gp, ps = [p \in DOMAIN ps |-> ps[p]],
         \A p \in DOMAIN ps : ps[p] \in PlayerInfos /\ ps[p].team = gp[p].team, NEW answered,
         \A p \in DOMAIN ps : Fits(ps[p], gp[p], answered),
         \A p \in DOMAIN gp \ DOMAIN ps : Fits(PlayerInfo(gp[p].team), gp[p], answered) /\ ~answered /\ ~gp[p].whole
  PROVE  Mirrors(ps, gp, answered)
<1>1. /\ Sides(SidesOf(gp)) /\ DOMAIN SidesOf(gp) = DOMAIN gp
      /\ \A p \in DOMAIN gp : SidesOf(gp)[p] = gp[p].team
  BY CrowdSides
<1>2. DOMAIN ps \subseteq Clients
  BY DEF Crowd
<1>3. Listing(ps)
  BY <1>2 DEF Listing
<1>4. Lists(ps, SidesOf(gp))
  BY <1>1, <1>3 DEF Lists
<1>5. \A p \in DOMAIN gp : Fits(View(ps, p, SidesOf(gp)), gp[p], answered)
  <2> TAKE p \in DOMAIN gp
  <2>1. CASE p \in DOMAIN ps
    <3>1. View(ps, p, SidesOf(gp)) = ps[p]
      BY <1>4, <2>1, ViewOf
    <3> QED  BY <2>1, <3>1
  <2>2. CASE p \notin DOMAIN ps
    <3>1. View(ps, p, SidesOf(gp)) = PlayerInfo(gp[p].team)
      BY <1>4, <2>2, ViewOf
    <3> QED  BY <2>2, <3>1
  <2> QED  BY <2>1, <2>2
<1> QED  BY <1>4, <1>5 DEF Mirrors

LEMMA MirrorsOf ==
  ASSUME NEW ps, NEW gp, Crowd(gp), NEW answered, Mirrors(ps, gp, answered)
  PROVE  /\ DOMAIN ps \subseteq DOMAIN gp /\ ps = [p \in DOMAIN ps |-> ps[p]]
         /\ \A p \in DOMAIN ps : /\ ps[p] \in PlayerInfos /\ ps[p].team = gp[p].team
                                 /\ Fits(ps[p], gp[p], answered)
         /\ \A p \in DOMAIN gp : p \notin DOMAIN ps =>
              Fits(PlayerInfo(gp[p].team), gp[p], answered) /\ ~answered /\ ~gp[p].whole
<1>1. /\ Sides(SidesOf(gp)) /\ DOMAIN SidesOf(gp) = DOMAIN gp
      /\ \A p \in DOMAIN gp : SidesOf(gp)[p] = gp[p].team
  BY CrowdSides
<1>2. Lists(ps, SidesOf(gp))
  BY DEF Mirrors
<1>3. DOMAIN ps \subseteq DOMAIN gp /\ ps = [p \in DOMAIN ps |-> ps[p]]
      /\ \A p \in DOMAIN ps : ps[p] \in PlayerInfos /\ ps[p].team = gp[p].team
  BY <1>1, <1>2 DEF Lists, Listing
<1>4. ASSUME NEW p \in DOMAIN ps
      PROVE  Fits(ps[p], gp[p], answered)
  <2>1. View(ps, p, SidesOf(gp)) = ps[p]
    BY DEF View
  <2> QED  BY <1>3, <2>1 DEF Mirrors
<1>5. ASSUME NEW p \in DOMAIN gp, p \notin DOMAIN ps
      PROVE  Fits(PlayerInfo(gp[p].team), gp[p], answered) /\ ~answered /\ ~gp[p].whole
  <2>1. View(ps, p, SidesOf(gp)) = PlayerInfo(gp[p].team)
    BY <1>2, <1>5, ViewOf
  <2> QED  BY <1>5, <2>1 DEF Mirrors
<1> QED  BY <1>3, <1>4, <1>5

\* Players do something.
LEMMA DeedMirrored ==
  ASSUME NEW ps, NEW gp, Crowd(gp), NEW answered \in BOOLEAN, Mirrors(ps, gp, answered),
         NEW l, DeedLine(l, SidesOf(gp)), NEW hp, Crowd(hp), DOMAIN hp = DOMAIN gp,
         \A p \in DOMAIN gp : DoneBy(gp[p], hp[p], l, p),
         NEW qs, qs = After(ps, l)
  PROVE  Mirrors(qs, hp, answered)
<1> DEFINE T == SidesOf(gp)
<1>1. Sides(T) /\ DOMAIN T = DOMAIN gp /\ \A p \in DOMAIN gp : T[p] = gp[p].team
  BY CrowdSides
<1>2. SidesOf(hp) = T
  BY DEF SidesOf, DoneBy
<1>3. Lists(ps, T)
  BY DEF Mirrors
<1> HIDE DEF T
<1>4. Recorded(ps, qs, l, T)
  BY <1>1, <1>3, DeedRecorded DEF T
<1>5. Lists(qs, T) /\ DOMAIN ps \subseteq DOMAIN qs
  BY <1>4 DEF Recorded
<1>6. ASSUME NEW p \in DOMAIN hp
      PROVE  Fits(View(qs, p, T), hp[p], answered)
  <2>1. PICK b : b = View(ps, p, T)
    OBVIOUS
  <2>2. PICK c : c = View(qs, p, T)
    OBVIOUS
  <2>3. PICK g : g = gp[p]
    OBVIOUS
  <2>4. PICK h : h = hp[p]
    OBVIOUS
  <2>5. b \in PlayerInfos /\ c \in PlayerInfos
    BY <1>1, <1>3, <1>5, <2>1, <2>2, ViewType
  <2>6. g \in Gamers /\ h \in Gamers
    BY <2>3, <2>4 DEF Crowd
  <2>7. Follows(b, c, l, p)
    BY <1>1, <1>4, <2>1, <2>2 DEF Recorded
  <2>8. Fits(b, g, answered)
    BY <2>1, <2>3 DEF Mirrors, T
  <2>9. DoneBy(g, h, l, p)
    BY <2>3, <2>4
  <2>10. l.kind = "plays" => l.as \in Characters
    BY DEF DeedLine, PlainKinds
  <2>11. Fits(c, h, answered)
    BY <2>5, <2>6, <2>7, <2>8, <2>9, <2>10, DeedFits
  <2> QED  BY <2>2, <2>4, <2>11
<1>7. \A p \in DOMAIN hp : p \notin DOMAIN qs => ~answered /\ ~hp[p].whole
  BY <1>5 DEF Mirrors, DoneBy
<1> QED  BY <1>2, <1>5, <1>6, <1>7 DEF Mirrors

\* Somebody joins.
LEMMA EnterMirrored ==
  ASSUME NEW ps, NEW gp, Crowd(gp), NEW answered \in BOOLEAN, Mirrors(ps, gp, answered),
         NEW c \in Clients, c \notin DOMAIN gp, NEW team \in Teams,
         NEW l, l.by = Token(c, team), l.kind = "enter",
         NEW hp, Crowd(hp), DOMAIN hp = DOMAIN gp \cup {c}, \A p \in DOMAIN gp : hp[p] = gp[p],
         hp[c].team = team, hp[c].character = "none", hp[c].stats = Zero, hp[c].won = 0, hp[c].lost = 0,
         NEW qs, qs = After(ps, l)
  PROVE  Mirrors(qs, hp, answered) /\ c \in DOMAIN qs
<1>1. /\ DOMAIN ps \subseteq DOMAIN gp /\ ps = [p \in DOMAIN ps |-> ps[p]]
      /\ \A p \in DOMAIN ps : ps[p] \in PlayerInfos /\ ps[p].team = gp[p].team /\ Fits(ps[p], gp[p], answered)
      /\ \A p \in DOMAIN gp : p \notin DOMAIN ps =>
           Fits(PlayerInfo(gp[p].team), gp[p], answered) /\ ~answered /\ ~gp[p].whole
  BY MirrorsOf
<1>2. l.by.who = c /\ l.by.team = team
  BY DEF Token
<1>3. IsPlayer(l.by)
  <2>1. "ai" \notin Clients /\ Empty \notin Clients
    BY GameAssumption
  <2> QED  BY <1>2, <2>1 DEF IsPlayer
<1>4. c \notin DOMAIN ps
  BY <1>1
<1>5. PICK fresh : fresh = PlayerInfo(team)
  OBVIOUS
<1>6. PICK met : met = Meet(ps, l.by)
  OBVIOUS
<1>7. met = [p \in DOMAIN ps \cup {c} |-> IF p # c THEN ps[p] ELSE fresh]
  BY <1>2, <1>3, <1>4, <1>5, <1>6 DEF Meet
<1>8. qs = [met EXCEPT ![c].known = TRUE]
  BY <1>2, <1>6 DEF After, Enter
<1>9. DOMAIN qs = DOMAIN ps \cup {c} /\ qs[c] = [fresh EXCEPT !.known = TRUE] /\ \A p \in DOMAIN ps : qs[p] = ps[p]
  BY <1>4, <1>7, <1>8
<1>10. qs = [p \in DOMAIN qs |-> qs[p]]
  BY <1>8, <1>7
<1>11. fresh \in PlayerInfos
  BY <1>5, FreshType
<1>12. fresh = [team |-> team, character |-> Empty, stats |-> Zero, wins |-> 0, loses |-> 0, known |-> FALSE]
  BY <1>5, Zenon DEF PlayerInfo
<1>13. qs[c] \in PlayerInfos /\ qs[c].team = team
  BY <1>9, <1>11, <1>12 DEF PlayerInfos
<1>14. Fits(qs[c], hp[c], answered)
  <2>1. qs[c].stats = Zero /\ qs[c].wins = 0 /\ qs[c].loses = 0 /\ qs[c].known /\ qs[c].character = Empty
    BY <1>9, <1>12
  <2>2. \A s \in Statistics : Zero[s] = 0
    BY DEF Zero
  <2>3. "none" \notin Characters
    BY GameAssumption
  <2>4. Shows(qs[c].character, hp[c].character)
    BY <2>3 DEF Shows
  <2> QED  BY <2>1, <2>2, <2>4 DEF Fits
<1>15. \A p \in DOMAIN qs : qs[p] \in PlayerInfos /\ qs[p].team = hp[p].team /\ Fits(qs[p], hp[p], answered)
  BY <1>1, <1>9, <1>13, <1>14
<1>16. \A p \in DOMAIN hp \ DOMAIN qs : Fits(PlayerInfo(hp[p].team), hp[p], answered) /\ ~answered /\ ~hp[p].whole
  BY <1>1, <1>9
<1>17. DOMAIN qs \subseteq DOMAIN hp
  BY <1>1, <1>9
<1> QED  BY <1>9, <1>10, <1>15, <1>16, <1>17, MirrorsBy

\* Somebody leaves.
Without(gp, hp, c) == DOMAIN hp = DOMAIN gp \ {c} /\ \A p \in DOMAIN hp : hp[p] = gp[p]

LEMMA ExitMirrored ==
  ASSUME NEW ps, NEW gp, Crowd(gp), NEW answered \in BOOLEAN, Mirrors(ps, gp, answered),
         NEW c, NEW l, l.by.who = c, l.kind = "exit",
         NEW hp, Crowd(hp), Without(gp, hp, c),
         NEW qs, qs = After(ps, l)
  PROVE  Mirrors(qs, hp, answered) /\ DOMAIN qs = DOMAIN ps \ {c}
<1>1. /\ DOMAIN ps \subseteq DOMAIN gp /\ ps = [p \in DOMAIN ps |-> ps[p]]
      /\ \A p \in DOMAIN ps : ps[p] \in PlayerInfos /\ ps[p].team = gp[p].team /\ Fits(ps[p], gp[p], answered)
      /\ \A p \in DOMAIN gp : p \notin DOMAIN ps =>
           Fits(PlayerInfo(gp[p].team), gp[p], answered) /\ ~answered /\ ~gp[p].whole
  BY MirrorsOf
<1>2. qs = [p \in DOMAIN ps \ {c} |-> ps[p]]
  BY DEF After, Exit
<1>3. DOMAIN qs = DOMAIN ps \ {c} /\ \A p \in DOMAIN qs : qs[p] = ps[p]
  BY <1>2
<1>4. qs = [p \in DOMAIN qs |-> qs[p]]
  BY <1>2
<1>5. \A p \in DOMAIN qs : qs[p] \in PlayerInfos /\ qs[p].team = hp[p].team /\ Fits(qs[p], hp[p], answered)
  BY <1>1, <1>3 DEF Without
<1>6. \A p \in DOMAIN hp \ DOMAIN qs : Fits(PlayerInfo(hp[p].team), hp[p], answered) /\ ~answered /\ ~hp[p].whole
  BY <1>1, <1>3 DEF Without
<1>7. DOMAIN qs \subseteq DOMAIN hp
  BY <1>1, <1>3 DEF Without
<1> QED  BY <1>3, <1>4, <1>5, <1>6, <1>7, MirrorsBy

\* Somebody changes the side, and is dead.
Turned(g, team) == [g EXCEPT !.team = team, !.character = "dead"]

LEMMA TeamJoinMirrored ==
  ASSUME NEW ps, NEW gp, Crowd(gp), NEW answered \in BOOLEAN, Mirrors(ps, gp, answered),
         NEW c \in DOMAIN gp, NEW team \in Teams,
         NEW l, l.by = Token(c, team), l.kind = "teamjoin",
         NEW hp, Crowd(hp), DOMAIN hp = DOMAIN gp, \A p \in DOMAIN gp : p # c => hp[p] = gp[p],
         hp[c] = Turned(gp[c], team),
         NEW qs, qs = After(ps, l)
  PROVE  Mirrors(qs, hp, answered) /\ DOMAIN qs = DOMAIN ps \cup {c}
<1>1. /\ DOMAIN ps \subseteq DOMAIN gp /\ ps = [p \in DOMAIN ps |-> ps[p]]
      /\ \A p \in DOMAIN ps : ps[p] \in PlayerInfos /\ ps[p].team = gp[p].team /\ Fits(ps[p], gp[p], answered)
      /\ \A p \in DOMAIN gp : p \notin DOMAIN ps =>
           Fits(PlayerInfo(gp[p].team), gp[p], answered) /\ ~answered /\ ~gp[p].whole
  BY MirrorsOf
<1>2. l.by.who = c /\ l.by.team = team
  BY DEF Token
<1>3. IsPlayer(l.by) /\ c \in Clients
  <2>1. "ai" \notin Clients /\ Empty \notin Clients
    BY GameAssumption
  <2> QED  BY <1>2, <2>1 DEF IsPlayer, Crowd
<1>4. PICK old : old = IF c \in DOMAIN ps THEN ps[c] ELSE PlayerInfo(gp[c].team)
  OBVIOUS
<1>5. gp[c] \in Gamers
  BY DEF Crowd
<1>6. old \in PlayerInfos /\ Fits(old, gp[c], answered)
  <2>1. gp[c].team \in Teams
    BY <1>5 DEF Gamers
  <2> QED  BY <1>1, <1>4, <2>1, FreshType
<1>7. PICK new : new = [team |-> team, character |-> Empty, stats |-> old.stats, wins |-> old.wins,
                        loses |-> old.loses, known |-> old.known]
  OBVIOUS
<1>8. PICK met : met = Meet(ps, l.by)
  OBVIOUS
<1>9. met = [p \in DOMAIN ps \cup {c} |-> IF p # c THEN ps[p]
                                         ELSE IF p \in DOMAIN ps THEN [ps[p] EXCEPT !.team = team]
                                              ELSE PlayerInfo(team)]
  BY <1>2, <1>3, <1>8 DEF Meet
<1>10. qs = [met EXCEPT ![c].character = Empty]
  BY <1>2, <1>8 DEF After, TeamJoin, As
<1>11. DOMAIN met = DOMAIN ps \cup {c} /\ \A p \in DOMAIN ps : p # c => met[p] = ps[p]
  BY <1>9
<1>12. [met[c] EXCEPT !.character = Empty] = new
  <2>1. CASE c \in DOMAIN ps
    <3>1. met[c] = [ps[c] EXCEPT !.team = team]
      BY <1>9, <2>1
    <3>2. old = ps[c]
      BY <1>4, <2>1
    <3>3. met[c] = [old EXCEPT !.team = team] /\ old \in PlayerInfos
      BY <1>6, <3>1, <3>2
    <3>4. PICK mid : mid = [team |-> team, character |-> old.character, stats |-> old.stats, wins |-> old.wins,
                            loses |-> old.loses, known |-> old.known]
      OBVIOUS
    <3>5. [old EXCEPT !.team = team] = mid
      BY <3>3, <3>4 DEF PlayerInfos
    <3>6. [mid EXCEPT !.character = Empty] = new
      BY <1>7, <3>4
    <3> QED  BY <3>3, <3>5, <3>6
  <2>2. CASE c \notin DOMAIN ps
    <3>1. met[c] = PlayerInfo(team)
      BY <1>9, <2>2
    <3>2. old = PlayerInfo(gp[c].team)
      BY <1>4, <2>2
    <3>3. \A t : PlayerInfo(t) = [team |-> t, character |-> Empty, stats |-> Zero, wins |-> 0, loses |-> 0,
                                  known |-> FALSE]
      BY Zenon DEF PlayerInfo
    <3>4. old.stats = Zero /\ old.wins = 0 /\ old.loses = 0 /\ old.known = FALSE
      BY <3>2, <3>3
    <3>5. met[c] = new
      BY <1>7, <3>1, <3>3, <3>4
    <3>6. new.character = Empty
      BY <1>7
    <3>7. [new EXCEPT !.character = Empty] = new
      BY <1>7
    <3> QED  BY <3>5, <3>7
  <2> QED  BY <2>1, <2>2
<1>13. DOMAIN qs = DOMAIN ps \cup {c} /\ qs[c] = new /\ \A p \in DOMAIN ps : p # c => qs[p] = ps[p]
  BY <1>10, <1>11, <1>12
<1>14. qs = [p \in DOMAIN qs |-> qs[p]]
  BY <1>9, <1>10
<1>15. new \in PlayerInfos /\ new.team = team
  <2>1. Empty \in Roles
    BY DEF Roles
  <2> QED  BY <1>6, <1>7, <2>1 DEF PlayerInfos
<1>16. hp[c].team = team /\ hp[c].character = "dead" /\ hp[c].stats = gp[c].stats /\ hp[c].won = gp[c].won
       /\ hp[c].lost = gp[c].lost /\ hp[c].seen = gp[c].seen /\ hp[c].whole = gp[c].whole
  BY <1>5 DEF Gamers, Turned
<1>17. Fits(new, hp[c], answered)
  <2>1. new.stats = old.stats /\ new.wins = old.wins /\ new.loses = old.loses /\ new.known = old.known
        /\ new.character = Empty
    BY <1>7
  <2>2. "dead" \notin Characters
    BY GameAssumption
  <2>3. Shows(new.character, hp[c].character)
    BY <1>16, <2>1, <2>2 DEF Shows
  <2> QED  BY <1>6, <1>16, <2>1, <2>3 DEF Fits
<1>18. \A p \in DOMAIN qs : qs[p] \in PlayerInfos /\ qs[p].team = hp[p].team /\ Fits(qs[p], hp[p], answered)
  BY <1>1, <1>13, <1>15, <1>16, <1>17
<1>19. \A p \in DOMAIN hp \ DOMAIN qs : Fits(PlayerInfo(hp[p].team), hp[p], answered) /\ ~answered /\ ~hp[p].whole
  BY <1>1, <1>13
<1>20. DOMAIN qs \subseteq DOMAIN hp
  BY <1>1, <1>13
<1> QED  BY <1>13, <1>14, <1>18, <1>19, <1>20, MirrorsBy

\* The match is over.
Scored(g, h, winner) ==
  /\ h.team = g.team /\ h.character = g.character /\ h.stats = g.stats /\ h.seen = g.seen /\ h.whole = g.whole
  /\ h.won = g.won + IF g.team = winner THEN 1 ELSE 0
  /\ h.lost = g.lost + IF winner # Empty /\ g.team # winner THEN 1 ELSE 0

LEMMA MatchEndMirrored ==
  ASSUME NEW ps, NEW gp, Crowd(gp), NEW answered \in BOOLEAN, Mirrors(ps, gp, answered),
         NEW l, l.kind = "matchend", l.winner \in Teams \cup {Empty},
         NEW hp, Crowd(hp), DOMAIN hp = DOMAIN gp, \A p \in DOMAIN gp : Scored(gp[p], hp[p], l.winner),
         NEW qs, qs = After(ps, l)
  PROVE  Mirrors(qs, hp, answered) /\ DOMAIN qs = DOMAIN ps
<1>1. /\ DOMAIN ps \subseteq DOMAIN gp /\ ps = [p \in DOMAIN ps |-> ps[p]]
      /\ \A p \in DOMAIN ps : ps[p] \in PlayerInfos /\ ps[p].team = gp[p].team /\ Fits(ps[p], gp[p], answered)
      /\ \A p \in DOMAIN gp : p \notin DOMAIN ps =>
           Fits(PlayerInfo(gp[p].team), gp[p], answered) /\ ~answered /\ ~gp[p].whole
  BY MirrorsOf
<1>2. qs = OnPreGameOver(ps, l)
  BY DEF After
<1>3. DOMAIN qs = DOMAIN ps /\ qs = [p \in DOMAIN qs |-> qs[p]]
  BY <1>1, <1>2 DEF OnPreGameOver
<1>4. Empty \notin Teams
  BY GameAssumption DEF Teams, Empty
<1>5. ASSUME NEW p \in DOMAIN ps
      PROVE  /\ qs[p] \in PlayerInfos /\ qs[p].team = ps[p].team /\ qs[p].character = ps[p].character
             /\ qs[p].stats = ps[p].stats /\ qs[p].known = ps[p].known
             /\ qs[p].wins = ps[p].wins + IF ps[p].team = l.winner THEN 1 ELSE 0
             /\ qs[p].loses = ps[p].loses + IF l.winner # Empty /\ ps[p].team # l.winner THEN 1 ELSE 0
  <2>1. PICK b : b = ps[p]
    OBVIOUS
  <2>2. b \in PlayerInfos
    BY <1>1, <2>1
  <2>3. b.wins \in Nat /\ b.loses \in Nat /\ b.team \in Teams
    BY <2>2 DEF PlayerInfos
  <2>4. CASE l.winner = Empty
    <3>1. qs[p] = b
      BY <1>2, <2>1, <2>4 DEF OnPreGameOver
    <3>2. b.team # l.winner
      BY <1>4, <2>3, <2>4
    <3> QED  BY <2>1, <2>2, <2>3, <2>4, <3>1, <3>2
  <2>5. CASE l.winner # Empty /\ b.team = l.winner
    <3>1. qs[p] = [b EXCEPT !.wins = @ + 1]
      BY <1>2, <2>1, <2>5 DEF OnPreGameOver
    <3>2. b.wins + 1 \in Nat
      BY <2>3
    <3>3. qs[p] \in PlayerInfos
      BY <2>2, <3>1, <3>2 DEF PlayerInfos
    <3>4. qs[p].team = b.team /\ qs[p].character = b.character /\ qs[p].stats = b.stats /\ qs[p].known = b.known
          /\ qs[p].wins = b.wins + 1 /\ qs[p].loses = b.loses
      BY <2>2, <3>1 DEF PlayerInfos
    <3> QED  BY <2>1, <2>3, <2>5, <3>3, <3>4
  <2>6. CASE l.winner # Empty /\ b.team # l.winner
    <3>1. qs[p] = [b EXCEPT !.loses = @ + 1]
      BY <1>2, <2>1, <2>6 DEF OnPreGameOver
    <3>2. b.loses + 1 \in Nat
      BY <2>3
    <3>3. qs[p] \in PlayerInfos
      BY <2>2, <3>1, <3>2 DEF PlayerInfos
    <3>4. qs[p].team = b.team /\ qs[p].character = b.character /\ qs[p].stats = b.stats /\ qs[p].known = b.known
          /\ qs[p].wins = b.wins /\ qs[p].loses = b.loses + 1
      BY <2>2, <3>1 DEF PlayerInfos
    <3> QED  BY <2>1, <2>3, <2>6, <3>3, <3>4
  <2> QED  BY <2>4, <2>5, <2>6
<1>6. ASSUME NEW p \in DOMAIN gp
      PROVE  gp[p].won \in Nat /\ gp[p].lost \in Nat /\ Scored(gp[p], hp[p], l.winner)
  BY DEF Crowd, Gamers
<1>7. \A p \in DOMAIN qs : qs[p] \in PlayerInfos /\ qs[p].team = hp[p].team /\ Fits(qs[p], hp[p], answered)
  <2> TAKE p \in DOMAIN qs
  <2>1. p \in DOMAIN ps /\ p \in DOMAIN gp
    BY <1>1, <1>3
  <2>2. PICK b : b = ps[p]
    OBVIOUS
  <2>3. PICK c : c = qs[p]
    OBVIOUS
  <2>4. PICK g : g = gp[p]
    OBVIOUS
  <2>5. PICK h : h = hp[p]
    OBVIOUS
  <2>6. /\ c \in PlayerInfos /\ c.team = b.team /\ c.character = b.character
        /\ c.stats = b.stats /\ c.known = b.known
        /\ c.wins = b.wins + IF b.team = l.winner THEN 1 ELSE 0
        /\ c.loses = b.loses + IF l.winner # Empty /\ b.team # l.winner THEN 1 ELSE 0
    BY <1>5, <2>1, <2>2, <2>3
  <2>7. g.won \in Nat /\ g.lost \in Nat /\ Scored(g, h, l.winner)
    BY <1>6, <2>1, <2>4, <2>5
  <2>8. Fits(b, g, answered) /\ b.team = g.team /\ b \in PlayerInfos
    BY <1>1, <2>1, <2>2, <2>4
  <2>9. b.wins \in Nat /\ b.loses \in Nat
    BY <2>8 DEF PlayerInfos
  <2>10. Fits(c, h, answered)
    BY <2>6, <2>7, <2>8, <2>9 DEF Fits, Scored
  <2> QED  BY <2>3, <2>5, <2>6, <2>7, <2>8, <2>10 DEF Scored
<1>8. \A p \in DOMAIN hp \ DOMAIN qs : Fits(PlayerInfo(hp[p].team), hp[p], answered) /\ ~answered /\ ~hp[p].whole
  <2> TAKE p \in DOMAIN hp \ DOMAIN qs
  <2>1. p \in DOMAIN gp /\ p \notin DOMAIN ps
    BY <1>3
  <2>2. PICK b : b = PlayerInfo(gp[p].team)
    OBVIOUS
  <2>4. PICK g : g = gp[p]
    OBVIOUS
  <2>5. PICK h : h = hp[p]
    OBVIOUS
  <2>6. g.won \in Nat /\ g.lost \in Nat /\ Scored(g, h, l.winner)
    BY <1>6, <2>1, <2>4, <2>5
  <2>7. Fits(b, g, answered) /\ ~answered /\ ~g.whole
    BY <1>1, <2>1, <2>2, <2>4
  <2>8. b.wins = 0 /\ b.loses = 0
    BY <2>2 DEF PlayerInfo
  <2>9. Fits(b, h, answered)
    BY <2>6, <2>7, <2>8 DEF Fits, Scored
  <2>10. h.team = g.team /\ ~h.whole
    BY <2>6, <2>7 DEF Scored
  <2> QED  BY <2>2, <2>4, <2>5, <2>7, <2>9, <2>10
<1> QED  BY <1>1, <1>3, <1>7, <1>8, MirrorsBy

LEMMA NoPlayersListed == DOMAIN NoPlayers = {} /\ NoPlayers = [p \in DOMAIN NoPlayers |-> NoPlayers[p]]
BY DEF NoPlayers

\* The map is changed.
Moved(gp, hp, seamless) ==
  /\ DOMAIN hp = IF seamless THEN DOMAIN gp ELSE {}
  /\ \A p \in DOMAIN hp :
       /\ hp[p].team = gp[p].team /\ hp[p].stats = Zero /\ hp[p].character = "none"
       /\ hp[p].won = gp[p].won /\ hp[p].lost = gp[p].lost /\ hp[p].whole = gp[p].whole

LEMMA ChangingMirrored ==
  ASSUME NEW ps, NEW gp, Crowd(gp), NEW answered \in BOOLEAN, Mirrors(ps, gp, answered),
         NEW l, l.kind = "changing", l.seamless \in BOOLEAN,
         NEW hp, Crowd(hp), Moved(gp, hp, l.seamless),
         NEW qs, qs = After(ps, l)
  PROVE  Mirrors(qs, hp, answered) /\ DOMAIN qs = IF l.seamless THEN DOMAIN ps ELSE {}
<1>1. /\ DOMAIN ps \subseteq DOMAIN gp /\ ps = [p \in DOMAIN ps |-> ps[p]]
      /\ \A p \in DOMAIN ps : ps[p] \in PlayerInfos /\ ps[p].team = gp[p].team /\ Fits(ps[p], gp[p], answered)
      /\ \A p \in DOMAIN gp : p \notin DOMAIN ps =>
           Fits(PlayerInfo(gp[p].team), gp[p], answered) /\ ~answered /\ ~gp[p].whole
  BY MirrorsOf
<1>2. qs = OnMapChange(ps, l)
  BY DEF After
<1>5. /\ l.seamless => DOMAIN hp = DOMAIN gp
      /\ ~l.seamless => DOMAIN hp = {}
      /\ l.seamless => \A p \in DOMAIN gp :
           /\ hp[p].team = gp[p].team /\ hp[p].stats = Zero /\ hp[p].character = "none"
           /\ hp[p].won = gp[p].won /\ hp[p].lost = gp[p].lost /\ hp[p].whole = gp[p].whole
  BY DEF Moved
<1>3. CASE ~l.seamless
  <2>1. qs = NoPlayers
    BY <1>2, <1>3 DEF OnMapChange
  <2>2. DOMAIN qs = {} /\ qs = [p \in DOMAIN qs |-> qs[p]] /\ DOMAIN hp = {}
    BY <1>3, <1>5, <2>1, NoPlayersListed
  <2> QED  BY <1>3, <2>2, MirrorsBy
<1>4. CASE l.seamless
  <2>1. DOMAIN qs = DOMAIN ps /\ qs = [p \in DOMAIN qs |-> qs[p]] /\ DOMAIN hp = DOMAIN gp
    BY <1>2, <1>4, <1>5 DEF OnMapChange
  <2>2. \A s \in Statistics : Zero[s] = 0
    BY DEF Zero
  <2>3. Zero \in Counters /\ "kills" \in Statistics /\ "deaths" \in Statistics
    BY DEF Zero, Counters, Statistics
  <2>4. \A r : Shows(r, "none")
    <3>1. "none" \notin Characters
      BY GameAssumption
    <3> QED  BY <3>1 DEF Shows
  <2>5. \A p \in DOMAIN qs : qs[p] \in PlayerInfos /\ qs[p].team = hp[p].team /\ Fits(qs[p], hp[p], answered)
    <3> TAKE p \in DOMAIN qs
    <3>1. p \in DOMAIN ps /\ p \in DOMAIN gp
      BY <1>1, <2>1
    <3>2. PICK b : b = ps[p]
      OBVIOUS
    <3>3. PICK c : c = qs[p]
      OBVIOUS
    <3>4. PICK g : g = gp[p]
      OBVIOUS
    <3>5. PICK h : h = hp[p]
      OBVIOUS
    <3>6. b \in PlayerInfos /\ b.team = g.team /\ Fits(b, g, answered)
      BY <1>1, <3>1, <3>2, <3>4
    <3>7. c = [b EXCEPT !.stats = Zero]
      BY <1>2, <1>4, <3>1, <3>2, <3>3 DEF OnMapChange
    <3>8. c \in PlayerInfos /\ c.stats = Zero /\ c.team = b.team /\ c.wins = b.wins /\ c.loses = b.loses
          /\ c.known = b.known
      BY <2>3, <3>6, <3>7 DEF PlayerInfos
    <3>9. h.team = g.team /\ h.stats = Zero /\ h.character = "none" /\ h.won = g.won /\ h.lost = g.lost
          /\ h.whole = g.whole
      BY <1>4, <1>5, <3>1, <3>4, <3>5
    <3>10. \A s \in Statistics : c.stats[s] <= h.stats[s]
      BY <2>2, <3>8, <3>9
    <3>11. Fits(c, h, answered)
      BY <2>4, <3>6, <3>8, <3>9, <3>10 DEF Fits
    <3> QED  BY <3>3, <3>5, <3>6, <3>8, <3>9, <3>11
  <2>6. \A p \in DOMAIN hp \ DOMAIN qs :
          Fits(PlayerInfo(hp[p].team), hp[p], answered) /\ ~answered /\ ~hp[p].whole
    <3> TAKE p \in DOMAIN hp \ DOMAIN qs
    <3>1. p \notin DOMAIN ps /\ p \in DOMAIN gp
      BY <1>1, <2>1
    <3>2. PICK b : b = PlayerInfo(gp[p].team)
      OBVIOUS
    <3>4. PICK g : g = gp[p]
      OBVIOUS
    <3>5. PICK h : h = hp[p]
      OBVIOUS
    <3>6. Fits(b, g, answered) /\ ~answered /\ ~g.whole
      BY <1>1, <3>1, <3>2, <3>4
    <3>9. h.team = g.team /\ h.stats = Zero /\ h.character = "none" /\ h.won = g.won /\ h.lost = g.lost
          /\ h.whole = g.whole
      BY <1>4, <1>5, <3>1, <3>4, <3>5
    <3>10. b.stats = Zero
      BY <3>2 DEF PlayerInfo
    <3>11. \A s \in Statistics : b.stats[s] <= h.stats[s]
      BY <2>2, <3>9, <3>10
    <3>12. Fits(b, h, answered)
      BY <2>4, <3>6, <3>9, <3>10, <3>11 DEF Fits
    <3> QED  BY <3>2, <3>4, <3>5, <3>6, <3>9, <3>12
  <2> QED  BY <1>1, <1>4, <2>1, <2>5, <2>6, MirrorsBy
<1> QED  BY <1>3, <1>4

\* The list is answered.
Relisted(b, g) ==
  [team |-> g.team, character |-> IF g.character \in Characters THEN g.character ELSE Empty,
   stats |-> [b.stats EXCEPT !["kills"] = g.stats["kills"], !["deaths"] = g.stats["deaths"]],
   wins |-> b.wins, loses |-> b.loses, known |-> TRUE]

LEMMA RelistedFits ==
  ASSUME NEW b \in PlayerInfos, NEW g \in Gamers, NEW answered, Fits(b, g, answered),
         NEW c, c = Relisted(b, g), NEW now
  PROVE  c \in PlayerInfos /\ c.team = g.team /\ Fits(c, g, now)
<1>1. b.stats \in Counters /\ g.stats \in Counters
  BY DEF PlayerInfos, Gamers
<1>2. c.team = g.team /\ c.wins = b.wins /\ c.loses = b.loses /\ c.known = TRUE
      /\ c.character = IF g.character \in Characters THEN g.character ELSE Empty
  BY DEF Relisted
<1>3. PICK counted : counted = c.stats
  OBVIOUS
<1>4. /\ DOMAIN counted = Statistics
      /\ \A s \in Statistics : counted[s] = IF s \in {"kills", "deaths"} THEN g.stats[s] ELSE b.stats[s]
      /\ counted = [s \in Statistics |-> counted[s]]
  <2>1. counted = [b.stats EXCEPT !["kills"] = g.stats["kills"], !["deaths"] = g.stats["deaths"]]
    BY <1>3 DEF Relisted
  <2>2. "kills" \in Statistics /\ "deaths" \in Statistics
    BY DEF Statistics
  <2> QED  BY <1>1, <2>1, <2>2 DEF Counters
<1>5. counted \in Counters
  BY <1>1, <1>4 DEF Counters
<1>6. c \in PlayerInfos
  <2>1. c.team \in Teams /\ c.wins \in Nat /\ c.loses \in Nat
    BY <1>2 DEF Gamers, PlayerInfos
  <2>2. c.character \in Roles
    BY <1>2 DEF Roles
  <2>3. c = [team |-> c.team, character |-> c.character, stats |-> c.stats, wins |-> c.wins, loses |-> c.loses,
             known |-> c.known]
    BY DEF Relisted
  <2> QED  BY <1>2, <1>3, <1>5, <2>1, <2>2, <2>3 DEF PlayerInfos
<1>7. g.seen => counted = g.stats
  <2> SUFFICES ASSUME g.seen PROVE counted = g.stats
    OBVIOUS
  <2>1. b.stats = g.stats
    BY DEF Fits
  <2>2. \A s \in Statistics : counted[s] = g.stats[s]
    BY <1>4, <2>1
  <2> QED  BY <1>1, <1>5, <2>2 DEF Counters
<1>8. counted["kills"] = g.stats["kills"] /\ counted["deaths"] = g.stats["deaths"]
  <2>1. "kills" \in Statistics /\ "deaths" \in Statistics
    BY DEF Statistics
  <2> QED  BY <1>4, <2>1
<1>9. \A s \in Statistics : counted[s] <= g.stats[s]
  <2> TAKE s \in Statistics
  <2>1. b.stats[s] <= g.stats[s] /\ g.stats[s] \in Nat
    BY <1>1 DEF Fits, Counters
  <2> QED  BY <1>4, <2>1
<1>10. Shows(c.character, g.character)
  <2>1. "dead" \notin Characters
    BY GameAssumption
  <2> QED  BY <1>2, <2>1 DEF Shows
<1>11. Fits(c, g, now)
  BY <1>2, <1>3, <1>7, <1>8, <1>9, <1>10 DEF Fits
<1> QED  BY <1>2, <1>6, <1>11

LEMMA ListMirrored ==
  ASSUME NEW ps, NEW gp, Crowd(gp), NEW answered \in BOOLEAN, Mirrors(ps, gp, answered),
         NEW l, l.kind = "list", l.rows = [p \in DOMAIN gp |-> Row(gp[p])],
         NEW qs, qs = After(ps, l), NEW now
  PROVE  Mirrors(qs, gp, now) /\ DOMAIN qs = DOMAIN gp
<1>1. /\ DOMAIN ps \subseteq DOMAIN gp /\ ps = [p \in DOMAIN ps |-> ps[p]]
      /\ \A p \in DOMAIN ps : ps[p] \in PlayerInfos /\ ps[p].team = gp[p].team /\ Fits(ps[p], gp[p], answered)
      /\ \A p \in DOMAIN gp : p \notin DOMAIN ps =>
           Fits(PlayerInfo(gp[p].team), gp[p], answered) /\ ~answered /\ ~gp[p].whole
  BY MirrorsOf
<1>2. qs = Rows(ps, l)
  BY DEF After
<1>3. DOMAIN l.rows = DOMAIN gp
  OBVIOUS
<1>4. DOMAIN qs = DOMAIN gp /\ qs = [p \in DOMAIN qs |-> qs[p]]
  BY <1>1, <1>2, <1>3 DEF Rows
<1>5. \A p \in DOMAIN qs : qs[p] \in PlayerInfos /\ qs[p].team = gp[p].team /\ Fits(qs[p], gp[p], now)
  <2> TAKE p \in DOMAIN qs
  <2>1. PICK g : g = gp[p]
    OBVIOUS
  <2>2. PICK b : b = IF p \in DOMAIN ps THEN ps[p] ELSE PlayerInfo(g.team)
    OBVIOUS
  <2>3. PICK c : c = qs[p]
    OBVIOUS
  <2>4. PICK row : row = Row(g)
    OBVIOUS
  <2>5. g \in Gamers /\ l.rows[p] = row
    BY <1>3, <1>4, <2>1, <2>4 DEF Crowd
  <2>6. row.team = g.team /\ row.kills = g.stats.kills /\ row.deaths = g.stats.deaths
        /\ row.character = IF g.character \in Characters THEN g.character ELSE Empty
    BY <2>4 DEF Row
  <2>7. b \in PlayerInfos /\ Fits(b, g, answered)
    <3>1. g.team \in Teams
      BY <2>5 DEF Gamers
    <3> QED  BY <1>1, <1>4, <2>1, <2>2, <3>1, FreshType
  <2>8. c = [b EXCEPT !.team = row.team, !.character = row.character, !.known = TRUE,
                      !.stats.kills = row.kills, !.stats.deaths = row.deaths]
    <3>1. p \in DOMAIN l.rows
      BY <1>3, <1>4
    <3>2. (IF p \in DOMAIN ps THEN ps[p] ELSE PlayerInfo(row.team)) = b
      BY <2>2, <2>6
    <3>3. PICK rows : rows = l.rows
      OBVIOUS
    <3>4. qs = [q \in DOMAIN ps \cup DOMAIN rows |->
                  IF q \notin DOMAIN rows THEN ps[q]
                  ELSE [(IF q \in DOMAIN ps THEN ps[q] ELSE PlayerInfo(rows[q].team)) EXCEPT
                          !.team = rows[q].team, !.character = rows[q].character, !.known = TRUE,
                          !.stats.kills = rows[q].kills, !.stats.deaths = rows[q].deaths]]
      BY <1>2, <3>3, ZenonT(40) DEF Rows
    <3>5. p \in DOMAIN rows /\ rows[p] = row
      BY <2>5, <3>1, <3>3
    <3>6. c = [(IF p \in DOMAIN ps THEN ps[p] ELSE PlayerInfo(row.team)) EXCEPT
                          !.team = row.team, !.character = row.character, !.known = TRUE,
                          !.stats.kills = row.kills, !.stats.deaths = row.deaths]
      BY <2>3, <3>4, <3>5, SMTT(30), ZenonT(30)
    <3> QED  BY <3>2, <3>6
  <2>9. c = Relisted(b, g)
    BY <2>6, <2>7, <2>8 DEF Relisted, PlayerInfos
  <2>10. c \in PlayerInfos /\ c.team = g.team /\ Fits(c, g, now)
    BY <2>5, <2>7, <2>9, RelistedFits
  <2> QED  BY <2>1, <2>3, <2>10
<1>6. DOMAIN qs \subseteq DOMAIN gp /\ \A p : ~(p \in DOMAIN gp \ DOMAIN qs)
  BY <1>4
<1>7. Mirrors(qs, gp, now)
  BY <1>4, <1>5, <1>6, MirrorsBy
<1> QED  BY <1>4, <1>7

\* The bot has just connected.
LEMMA NobodyMirrored ==
  ASSUME NEW gp, Crowd(gp), \A p \in DOMAIN gp : ~gp[p].seen /\ ~gp[p].whole
  PROVE  Mirrors(NoPlayers, gp, FALSE)
<1>1. DOMAIN NoPlayers = {} /\ NoPlayers = [p \in DOMAIN NoPlayers |-> NoPlayers[p]]
  BY NoPlayersListed
<1>2. \A p \in DOMAIN gp \ DOMAIN NoPlayers : Fits(PlayerInfo(gp[p].team), gp[p], FALSE) /\ ~gp[p].whole
  <2> TAKE p \in DOMAIN gp \ DOMAIN NoPlayers
  <2>1. PICK g : g = gp[p]
    OBVIOUS
  <2>2. PICK b : b = PlayerInfo(g.team)
    OBVIOUS
  <2>3. g \in Gamers /\ ~g.seen /\ ~g.whole
    BY <2>1 DEF Crowd
  <2>4. b.stats = Zero /\ b.wins = 0 /\ b.loses = 0
    BY <2>2 DEF PlayerInfo
  <2>5. \A s \in Statistics : b.stats[s] <= g.stats[s]
    <3>1. \A s \in Statistics : Zero[s] = 0 /\ g.stats[s] \in Nat
      BY <2>3 DEF Zero, Gamers, Counters
    <3> QED  BY <2>4, <3>1
  <2>6. g.won \in Nat /\ g.lost \in Nat
    BY <2>3 DEF Gamers
  <2>7. Fits(b, g, FALSE)
    BY <2>3, <2>4, <2>5, <2>6 DEF Fits
  <2> QED  BY <2>1, <2>2, <2>3, <2>7
<1> QED  BY <1>1, <1>2, MirrorsBy

----------------------------------------------------------------------------
(***************************************************************************)
(* What is said on the channels                                            *)
(***************************************************************************)

\* Neither who comes nor who goes, and on the public channels nothing private.
Decent(told) ==
  \A m \in told : /\ m.says \notin {"JoinPublic", "Part"}
                  /\ Public \subseteq DefaultPublic /\ m.on = "public" => m.says \notin PrivateFormats

LEMMA Logged ==
  ASSUME NEW setting, NEW format, NEW m \in LogAs(setting, format)
  PROVE  m.says = format /\ (m.on = "public" => setting \in Public)
<1>1. PICK channels : channels = IF setting \in Public THEN {"public", "admin"} ELSE {"admin"}
  OBVIOUS
<1>2. LogAs(setting, format) = {[on |-> c, says |-> format] : c \in IF format \in Blank THEN {} ELSE channels}
  BY <1>1 DEF LogAs, To
<1>3. PICK c \in channels : m = [on |-> c, says |-> format]
  <2>1. CASE format \in Blank
    BY <1>2, <2>1
  <2>2. CASE format \notin Blank
    BY <1>2, <2>2
  <2> QED  BY <2>1, <2>2
<1>4. m.on = c /\ m.says = format
  BY <1>3
<1> QED  BY <1>1, <1>3, <1>4

LEMMA LogDecent ==
  ASSUME NEW setting, NEW format, format \notin {"JoinPublic", "Part"},
         setting \notin DefaultPublic \/ format \notin PrivateFormats
  PROVE  Decent(LogAs(setting, format))
<1> SUFFICES ASSUME NEW m \in LogAs(setting, format)
             PROVE  /\ m.says \notin {"JoinPublic", "Part"}
                    /\ Public \subseteq DefaultPublic /\ m.on = "public" => m.says \notin PrivateFormats
  BY DEF Decent
<1>1. m.says = format /\ (m.on = "public" => setting \in Public)
  BY Logged
<1> HIDE DEF PrivateFormats, DefaultPublic
<1> QED  BY <1>1

LEMMA NothingDecent == Decent({})
BY DEF Decent

LEMMA BothDecent ==
  ASSUME NEW A, NEW B, Decent(A), Decent(B)
  PROVE  Decent(A \cup B)
BY DEF Decent

\* Settings that are private by default, and formats that are not.
Quietly(setting) == setting \notin DefaultPublic
Openly(format) == format \notin PrivateFormats /\ format \notin {"JoinPublic", "Part"}

LEMMA LogQuietly ==
  ASSUME NEW setting, Quietly(setting), NEW format, format \notin {"JoinPublic", "Part"}
  PROVE  Decent(LogAs(setting, format))
BY LogDecent DEF Quietly

LEMMA LogOpenly ==
  ASSUME NEW setting, NEW format, Openly(format)
  PROVE  Decent(LogAs(setting, format))
BY LogDecent DEF Openly

LEMMA ObjectsDecent ==
  ASSUME NEW l, l.kind \in {"deployed", "disarmed", "exploded", "captured", "neutralized", "stolen", "destroyed"}
  PROVE  Decent(Objects(l))
<1>1. Decent(Log("Deploy")) /\ Decent(Log("Disarm")) /\ Decent(LogAs("Disarm", "DisarmNoOwner"))
      /\ Decent(Log("Capture")) /\ Decent(Log("Neutralize")) /\ Decent(Log("Steal"))
      /\ Decent(LogAs("Steal", "StealNoOwner"))
  BY LogOpenly DEF Openly, PrivateFormats, Log
<1>2. Decent(Log("MineDeploy")) /\ Decent(Log("MineDisarm")) /\ Decent(LogAs("MineDisarm", "MineDisarmNoOwner"))
      /\ Decent(Log("Explode")) /\ Decent(LogAs("Explode", "ExplodeNoOwner"))
  BY LogQuietly DEF Quietly, DefaultPublic, Log
<1>3. \A f \in {"DestroyBuilding", "DestroyDefence", "DestroyVehicle", "DestroyBuilding2", "DestroyDefence2",
                "DestroyVehicle2"} : Decent(LogAs("Destroy", f))
  BY LogOpenly DEF Openly, PrivateFormats
<1>4. \A w : Decent(RenX_OnDestroy(w)) /\ Decent(RenX_OnDestroyByObject(w))
  <2> TAKE w
  <2>1. PICK f : f = CASE w = "building" -> "DestroyBuilding"
                       [] w = "defence"  -> "DestroyDefence"
                       [] OTHER          -> "DestroyVehicle"
    OBVIOUS
  <2>2. PICK g : g = CASE w = "building" -> "DestroyBuilding2"
                       [] w = "defence"  -> "DestroyDefence2"
                       [] OTHER          -> "DestroyVehicle2"
    OBVIOUS
  <2>3. f \in {"DestroyBuilding", "DestroyDefence", "DestroyVehicle"}
        /\ g \in {"DestroyBuilding2", "DestroyDefence2", "DestroyVehicle2"}
    BY <2>1, <2>2
  <2>4. RenX_OnDestroy(w) = LogAs("Destroy", f) /\ RenX_OnDestroyByObject(w) = LogAs("Destroy", g)
    BY <2>1, <2>2 DEF RenX_OnDestroy, RenX_OnDestroyByObject
  <2> QED  BY <1>3, <2>3, <2>4
<1>5. \A w : Decent(RenX_OnDeploy(w)) /\ Decent(RenX_OnDisarm(w)) /\ Decent(RenX_OnDisarmNoOwner(w))
  BY <1>1, <1>2 DEF RenX_OnDeploy, RenX_OnDisarm, RenX_OnDisarmNoOwner
<1>6. Decent(RenX_OnExplode) /\ Decent(RenX_OnExplodeNoOwner) /\ Decent(RenX_OnCapture) /\ Decent(RenX_OnNeutralize)
      /\ Decent(RenX_OnSteal) /\ Decent(RenX_OnStealNoOwner)
  BY <1>1, <1>2 DEF RenX_OnExplode, RenX_OnExplodeNoOwner, RenX_OnCapture, RenX_OnNeutralize, RenX_OnSteal,
                    RenX_OnStealNoOwner
<1> QED  BY <1>4, <1>5, <1>6 DEF Objects

LEMMA PlayDecent ==
  ASSUME NEW l
  PROVE  /\ Decent(Deaths(l)) /\ Decent(Spawned(l)) /\ Decent(Crates(l))
         /\ l.what \in {"item", "weapon", "refill", "vehicle"} => Decent(Bought(l))
         /\ Decent(RenX_OnCharacterPurchase) /\ Decent(RenX_OnSpawn) /\ Decent(RenX_OnCharacterCrate)
         /\ Decent(RenX_OnSpyCrate) /\ Decent(RenX_OnDonate) /\ Decent(RenX_OnOverMine)
<1>1. \A f \in {"Suicide", "Kill", "Die", "VehicleSpawn", "Spawn", "BotJoin", "DeathCrate", "NukeCrate",
                "AbductionCrate", "Donate"} : Decent(Log(f))
  BY LogOpenly DEF Openly, PrivateFormats, Log
<1>2. Decent(LogAs("Kill", "Kill2"))
  BY LogOpenly DEF Openly, PrivateFormats
<1>3. \A f \in {"ItemPurchase", "WeaponPurchase", "RefillPurchase", "VehiclePurchase", "CharacterPurchase",
                "VehicleCrate", "MoneyCrate", "RefillCrate", "TimeBombCrate", "SpeedCrate", "UnspecifiedCrate",
                "OtherCrate", "CharacterCrate", "SpyCrate", "OverMine"} : Decent(Log(f))
  BY LogQuietly DEF Quietly, DefaultPublic, Log
<1>4. Decent(Deaths(l))
  BY <1>1, <1>2 DEF Deaths, RenX_OnDie, RenX_OnSuicide, RenX_OnKill, RenX_OnKillByObject
<1>5. Decent(Spawned(l))
  BY <1>1 DEF Spawned, RenX_OnVehicleSpawn, RenX_OnBotJoin
<1>6. Decent(Crates(l))
  BY <1>1, <1>3 DEF Crates, RenX_OnVehicleCrate, RenX_OnDeathCrate, RenX_OnMoneyCrate, RenX_OnRefillCrate,
     RenX_OnTimeBombCrate, RenX_OnSpeedCrate, RenX_OnNukeCrate, RenX_OnAbductionCrate, RenX_OnUnspecifiedCrate,
     RenX_OnOtherCrate
<1>7. l.what \in {"item", "weapon", "refill", "vehicle"} => Decent(Bought(l))
  BY <1>3 DEF Bought, RenX_OnItemPurchase, RenX_OnWeaponPurchase, RenX_OnRefillPurchase, RenX_OnVehiclePurchase
<1>8. Decent(RenX_OnCharacterPurchase) /\ Decent(RenX_OnSpawn) /\ Decent(RenX_OnCharacterCrate)
      /\ Decent(RenX_OnSpyCrate) /\ Decent(RenX_OnDonate) /\ Decent(RenX_OnOverMine)
  BY <1>1, <1>3 DEF RenX_OnCharacterPurchase, RenX_OnSpawn, RenX_OnCharacterCrate, RenX_OnSpyCrate, RenX_OnDonate,
     RenX_OnOverMine
<1> QED  BY <1>4, <1>5, <1>6, <1>7, <1>8

LEMMA TalkDecent ==
  ASSUME NEW l, NEW s
  PROVE  Decent(Chat(l)) /\ Decent(Acts(l, s)) /\ Decent(Reports(l)) /\ Decent(Votes(l))
<1>1. \A f \in {"Chat", "HostChat", "Kick", "NameChange", "AdminLogin", "AdminGrant", "AdminLogout", "DemoRecord",
                "DemoRecordStop", "Game", "Version", "Authorized"} : Decent(Log(f))
  BY LogOpenly DEF Openly, PrivateFormats, Log
<1>2. \A f \in {"TeamChat", "RadioChat", "HostPage", "OtherChat", "PlayerIdentify", "SpeedHack", "Player",
                "Subscribe", "RCON", "Admin", "Vote", "Map", "Demo", "Log", "Command", "Error", "Other"} : Decent(Log(f))
  BY LogQuietly DEF Quietly, DefaultPublic, Log
<1>3. Decent(LogAs("AdminMessage", "AdminMsg")) /\ Decent(LogAs("AdminMessage", "WarnMsg"))
      /\ Decent(LogAs("DemoRecord", "RconDemoRecord"))
  BY LogOpenly DEF Openly, PrivateFormats
<1>4. Decent(LogAs("AdminPage", "PAdminMsg")) /\ Decent(LogAs("AdminPage", "PWarnMsg"))
      /\ Decent(LogAs("Execute", "PlayerExecute")) /\ Decent(LogAs("Execute", "Execute"))
      /\ Decent(LogAs("Execute", "DevBotExecute")) /\ Decent(LogAs("PlayerCommand", "PlayerCommandSuccess"))
      /\ Decent(LogAs("PlayerCommand", "PlayerCommandFail"))
  BY LogQuietly DEF Quietly, DefaultPublic
<1>5. \A f \in {"VoteAddBots", "VoteChangeMap", "VoteKick", "VoteMineBan", "VoteRemoveBots", "VoteRestartMap",
                "VoteSurrender", "VoteSurvey", "VoteOther"} : Decent(LogAs("VoteCall", f))
  BY LogOpenly DEF Openly, PrivateFormats
<1>6. Decent(Chat(l))
  BY <1>1, <1>2, <1>3, <1>4 DEF Chat, RenX_OnChat, RenX_OnTeamChat, RenX_OnRadioChat, RenX_OnAdminMessage,
     RenX_OnWarnMessage, RenX_OnAdminPMessage, RenX_OnWarnPMessage, RenX_OnHostChat, RenX_OnHostPage,
     RenX_OnHostAdminMessage, RenX_OnHostWarnMessage, RenX_OnHostAdminPMessage, RenX_OnHostWarnPMessage,
     RenX_OnOtherChat
<1>7. Decent(RenX_OnPlayerIdentify(s.pending))
  BY <1>2, NothingDecent DEF RenX_OnPlayerIdentify
<1>8. Decent(RenX_OnPlayerCommand(TRUE)) /\ Decent(RenX_OnPlayerCommand(FALSE))
  BY <1>4 DEF RenX_OnPlayerCommand
<1>9. Decent(Acts(l, s))
  BY <1>1, <1>2, <1>4, <1>7, <1>8 DEF Acts, RenX_OnKick, RenX_OnNameChange, RenX_OnSpeedHack, RenX_OnPlayerExecute,
     RenX_OnAdminLogin, RenX_OnAdminGrant, RenX_OnAdminLogout, RenX_OnDemoRecord, RenX_OnPlayer
<1>10. Decent(RenX_OnExecute("another")) /\ Decent(RenX_OnExecute("DevBot")) /\ Decent(RenX_OnExecute("own"))
  BY <1>4, NothingDecent DEF RenX_OnExecute
<1>11. Decent(Reports(l))
  BY <1>1, <1>2, <1>3, <1>10 DEF Reports, RenX_OnVersion, RenX_OnAuthorized, RenX_OnSubscribe, RenX_OnRCON,
     RenX_OnAdmin, RenX_OnVote, RenX_OnMap, RenX_OnDemo, RenX_OnDemoRecordByRcon, RenX_OnDemoRecordStop, RenX_OnGame,
     RenX_OnLog, RenX_OnCommand, RenX_OnError, RenX_OnOther
<1>12. Decent(Votes(l))
  BY <1>5 DEF Votes, RenX_OnVoteAddBots, RenX_OnVoteChangeMap, RenX_OnVoteKick, RenX_OnVoteMineBan,
     RenX_OnVoteRemoveBots, RenX_OnVoteRestartMap, RenX_OnVoteSurrender, RenX_OnVoteSurvey, RenX_OnVoteOther
<1> QED  BY <1>6, <1>9, <1>11, <1>12

\* The lines a game may write.
Kinds == {"deployed", "disarmed", "exploded", "captured", "neutralized", "stolen", "destroyed", "death", "plays",
          "purchase", "spawn", "crate", "donated", "overmine", "chat", "player", "report", "enter", "teamjoin",
          "exit", "list", "voteover", "votecancelled", "votecalled", "matchend", "changing", "loaded", "start",
          "info", "pong"}
Sensible(l) == l.kind \in Kinds /\ (l.kind = "purchase" => l.what \in {"item", "weapon", "refill", "vehicle"})

LEMMA MatchDecent ==
  ASSUME NEW l
  PROVE  /\ Decent(RenX_OnGameOver(l.winner)) /\ Decent(RenX_OnMapChange) /\ Decent(RenX_OnMapLoad)
         /\ Decent(RenX_OnMapStart) /\ Decent(RenX_OnTeamChange) /\ Decent(RenX_OnVoteOver(l.success))
         /\ Decent(RenX_OnVoteCancel)
<1>1. \A f \in {"MapChange", "MapLoad", "MapStart", "TeamChange", "VoteCancel"} : Decent(Log(f))
  BY LogOpenly DEF Openly, PrivateFormats, Log
<1>2. /\ Decent(LogAs("GameOver", "GameOverTieNoWin")) /\ Decent(LogAs("GameOver", "GameOver"))
      /\ Decent(LogAs("GameOver", "GameOverScore")) /\ Decent(LogAs("VoteOver", "VoteOverSuccess"))
      /\ Decent(LogAs("VoteOver", "VoteOverFail"))
  BY LogOpenly DEF Openly, PrivateFormats
<1>3. Decent(RenX_OnGameOver(l.winner))
  <2>1. PICK A : A = LogAs("GameOver", IF l.winner = Empty THEN "GameOverTieNoWin" ELSE "GameOver")
    OBVIOUS
  <2>2. Decent(A)
    BY <1>2, <2>1
  <2> QED  BY <1>2, <2>1, <2>2, BothDecent DEF RenX_OnGameOver
<1> QED  BY <1>1, <1>2, <1>3 DEF RenX_OnMapChange, RenX_OnMapLoad, RenX_OnMapStart, RenX_OnTeamChange, RenX_OnVoteOver,
            RenX_OnVoteCancel

LEMMA TellsDecent ==
  ASSUME NEW l, Sensible(l), NEW s, l.kind \notin {"enter", "exit"}
  PROVE  Decent(Tells(l, s))
<1> HIDE DEF Decent
<1>1. CASE l.kind \in {"deployed", "disarmed", "exploded", "captured", "neutralized", "stolen", "destroyed"}
  <2>1. Tells(l, s) = Objects(l)
    BY <1>1 DEF Tells
  <2> QED  BY <1>1, <2>1, ObjectsDecent
<1>2. CASE l.kind \in {"list", "info", "pong"}
  <2>1. Tells(l, s) = {}
    BY <1>2 DEF Tells
  <2> QED  BY <2>1, NothingDecent
<1>3. CASE l.kind \in {"chat", "player", "report", "votecalled"}
  BY <1>3, TalkDecent DEF Tells
<1>4. CASE l.kind \in {"matchend", "changing", "loaded", "start", "teamjoin", "voteover", "votecancelled"}
  BY <1>4, MatchDecent DEF Tells
<1>5. CASE l.kind \in {"death", "purchase", "spawn", "crate", "plays", "donated", "overmine"}
  <2>1. l.kind = "purchase" => l.what \in {"item", "weapon", "refill", "vehicle"}
    BY DEF Sensible
  <2> QED  BY <1>5, <2>1, PlayDecent DEF Tells
<1> QED  BY <1>1, <1>2, <1>3, <1>4, <1>5 DEF Sensible, Kinds

\* Joins and parts are announced on the public channels.
Announced == {"Join", "Part"} \subseteq Public /\ "JoinPublic" \notin Blank /\ "Part" \notin Blank
Coming == [on |-> "public", says |-> "JoinPublic"]
Going  == [on |-> "public", says |-> "Part"]

LEMMA PublicOrNot == ~("public" = "admin") /\ Coming.on = "public" /\ Coming.says = "JoinPublic"
                     /\ Going.on = "public" /\ Going.says = "Part" /\ Coming # Going
<1>1. Coming.on = "public" /\ Coming.says = "JoinPublic" /\ Going.on = "public" /\ Going.says = "Part"
  BY DEF Coming, Going
<1>2. Coming.says # Going.says
  BY <1>1
<1> QED  BY <1>1, <1>2

LEMMA SaidTo ==
  ASSUME NEW channels, NEW format, NEW m
  PROVE  m \in To(channels, format) <=> format \notin Blank /\ \E c \in channels : m = [on |-> c, says |-> format]
BY DEF To

LEMMA JoinTold ==
  ASSUME NEW l, l.kind = "enter", NEW s
  PROVE  /\ \A m \in Tells(l, s) : m.says # "Part" /\ (m.on = "public" => m.says = "JoinPublic")
         /\ Announced => Coming \in Tells(l, s)
<1>1. PICK loud : loud = IF "Join" \in Public THEN To({"public"}, "JoinPublic") ELSE {}
  OBVIOUS
<1>2. PICK low : low = IF s.pending THEN {}
                       ELSE To({"admin"}, IF l.steam THEN "JoinAdmin" ELSE "JoinNoSteamAdmin")
  OBVIOUS
<1>3. Tells(l, s) = loud \cup low
  BY <1>1, <1>2 DEF Tells, RenX_OnJoin
<1>4. \A m \in loud : m.says # "Part" /\ (m.on = "public" => m.says = "JoinPublic")
  BY <1>1, SaidTo
<1>5. \A m \in low : m.says # "Part" /\ m.on # "public"
  <2> SUFFICES ASSUME NEW m \in low PROVE m.says # "Part" /\ m.on # "public"
    OBVIOUS
  <2>1. PICK f \in {"JoinAdmin", "JoinNoSteamAdmin"} : m \in To({"admin"}, f)
    BY <1>2
  <2>2. m = [on |-> "admin", says |-> f]
    BY <2>1, SaidTo
  <2> QED  BY <2>2
<1>6. Announced => Coming \in loud
  BY <1>1, SaidTo DEF Announced, Coming
<1> QED  BY <1>3, <1>4, <1>5, <1>6

LEMMA PartTold ==
  ASSUME NEW l, l.kind = "exit", NEW s
  PROVE  /\ \A m \in Tells(l, s) : m.says = "Part" /\ l.by.who \in s.listed
         /\ Announced /\ l.by.who \in s.listed /\ ~s.leftBehind => Going \in Tells(l, s)
<1>1. Tells(l, s) = IF l.by.who \in s.listed /\ ~s.leftBehind THEN LogAs("Part", "Part") ELSE {}
  BY DEF Tells, RenX_OnPart, Log
<1>2. \A m \in Tells(l, s) : m.says = "Part" /\ l.by.who \in s.listed
  BY <1>1, Logged
<1>3. ASSUME Announced PROVE Going \in LogAs("Part", "Part")
  <2>1. LogAs("Part", "Part") = To({"public", "admin"}, "Part")
    BY <1>3 DEF LogAs, Announced
  <2> QED  BY <1>3, <2>1, SaidTo DEF Announced, Going
<1> QED  BY <1>1, <1>2, <1>3

\* Whom the public channels believe to be there after a line.
LEMMA HeardOf ==
  ASSUME NEW b, NEW l, Sensible(l)
  PROVE  /\ l.kind \notin {"enter", "exit", "changing"} => Hearing(b, l) = b.hall
         /\ l.kind = "changing" => Hearing(b, l) = IF l.seamless THEN b.hall ELSE {}
         /\ l.kind = "enter" => /\ Hearing(b, l) \in {b.hall, b.hall \cup {l.by.who}}
                                /\ Announced => Hearing(b, l) = b.hall \cup {l.by.who}
         /\ l.kind = "exit" =>
              /\ Hearing(b, l) \in {b.hall, b.hall \ {l.by.who}}
              /\ Announced /\ l.by.who \in DOMAIN b.players /\ ~(b.state = "travelling" /\ ~b.seamless) =>
                   Hearing(b, l) = b.hall \ {l.by.who}
<1>1. PICK s : s = ContextOf(b)
  OBVIOUS
<1>2. s.listed = DOMAIN b.players /\ s.leftBehind = (b.state = "travelling" /\ ~b.seamless)
  BY <1>1 DEF ContextOf
<1>3. PICK told : told = Tells(l, s)
  OBVIOUS
<1>4. Hearing(b, l) = CASE Coming \in told                      -> b.hall \cup {l.by.who}
                        [] Going \in told                       -> b.hall \ {l.by.who}
                        [] l.kind = "changing" /\ ~l.seamless   -> {}
                        [] OTHER                                -> b.hall
  BY <1>1, <1>3, Zenon DEF Hearing, Coming, Going
<1>5. CASE l.kind \notin {"enter", "exit"}
  <2>1. Decent(told)
    BY <1>3, <1>5, TellsDecent
  <2>2. Coming \notin told /\ Going \notin told
    BY <2>1, PublicOrNot DEF Decent
  <2> QED  BY <1>4, <1>5, <2>2
<1>6. CASE l.kind = "enter"
  <2>1. /\ \A m \in told : m.says # "Part" /\ (m.on = "public" => m.says = "JoinPublic")
        /\ Announced => Coming \in told
    BY <1>3, <1>6, JoinTold
  <2>2. Going \notin told
    BY <2>1, PublicOrNot
  <2> QED  BY <1>4, <1>6, <2>1, <2>2
<1>7. CASE l.kind = "exit"
  <2>1. /\ \A m \in told : m.says = "Part" /\ l.by.who \in s.listed
        /\ Announced /\ l.by.who \in s.listed /\ ~s.leftBehind => Going \in told
    BY <1>3, <1>7, PartTold
  <2>2. Coming \notin told
    <3>1. Coming.says # "Part"
      BY PublicOrNot
    <3> QED  BY <2>1, <3>1
  <2> QED  BY <1>2, <1>4, <1>7, <2>1, <2>2
<1> QED  BY <1>5, <1>6, <1>7

----------------------------------------------------------------------------
(***************************************************************************)
(* A line that is written, and what the bot makes of it when it has read   *)
(* all lines before it: e is what it knows then, f what it knows with the  *)
(* line, g and h are the game before and after.                            *)
(***************************************************************************)
Phases == {"pending", "playing", "over", "travelling"}
VoteInfos == [by : Clients \cup {Empty}, heard : BOOLEAN, raced : BOOLEAN]

Playing(g) == /\ Crowd(g.players) /\ g.phase \in Phases /\ g.match \in Nat

Kept(b) == /\ Listing(b.players) /\ b.state \in Phases /\ b.hall \subseteq Clients
           /\ b.seamless \in BOOLEAN /\ b.informed \in BOOLEAN /\ b.full \in BOOLEAN

LineType(l) == /\ Sensible(l)
               /\ l.kind = "changing" => l.seamless \in BOOLEAN /\ l.ended \in BOOLEAN /\ l.match \in Nat
               /\ l.kind = "info" => l.state \in Phases
               /\ l.kind = "enter" => l.by.who \in Clients

\* What may be relied on when the line is read.
Due(b, l, c) ==
  /\ LineType(l) /\ Kept(c)
  /\ b.informed => /\ l.kind = "changing" /\ l.ended => b.state = "over"
                   /\ l.kind = "loaded" => b.state = "travelling"
                   /\ l.kind = "start" => b.state = "pending"
                   /\ l.kind = "info" => l.state = b.state
  /\ b.state = "travelling" => /\ l.kind \notin {"start", "matchend"}
                               /\ l.kind = "info" => l.state = "travelling"
  /\ l.kind # "enter" => \A p \in b.hall : p \in DOMAIN c.players => p \in DOMAIN b.players
  /\ l.kind \notin {"exit", "changing"} => DOMAIN b.players \subseteq DOMAIN c.players

\* What is known in the end.
End(e, g, answered) ==
  /\ Mirrors(e.players, g.players, answered)
  /\ e.informed => e.state = g.phase
  /\ e.state = "travelling" => g.phase = "travelling"
  /\ g.phase = "travelling" /\ ~e.seamless => DOMAIN g.players = {}
  /\ \A p \in e.hall : p \in DOMAIN g.players => p \in DOMAIN e.players
  /\ Announced => /\ \A p \in DOMAIN g.players : g.players[p].whole => p \in e.hall
                  /\ e.hall \subseteq DOMAIN g.players

Marking == {"changing", "loaded", "start", "matchend", "info"}
Phased(g, h, l) ==
  /\ l.kind \notin Marking => h.phase = g.phase
  /\ l.kind = "changing" => /\ g.phase \in {"playing", "over"} /\ h.phase = "travelling"
                            /\ l.ended = (g.phase = "over")
  /\ l.kind = "loaded" => g.phase = "travelling" /\ h.phase = "pending"
  /\ l.kind = "start" => g.phase = "pending" /\ h.phase = "playing"
  /\ l.kind = "matchend" => g.phase = "playing" /\ h.phase = "over"
  /\ l.kind = "info" => h.phase = g.phase /\ l.state = g.phase

Peopled(g, h, l) ==
  LET now == DOMAIN g.players  then == DOMAIN h.players
  IN  /\ l.kind \notin {"enter", "exit", "changing"} => then = now
      /\ l.kind = "enter" => g.phase # "travelling" /\ l.by.who \notin now /\ then = now \cup {l.by.who}
      /\ l.kind = "exit" => l.by.who \in now /\ then = now \ {l.by.who}
      /\ l.kind = "changing" => then = IF l.seamless THEN now ELSE {}
      /\ \A p \in now : p \in then /\ h.players[p].whole => g.players[p].whole

Remembered(e, f, l) ==
  LET now == DOMAIN e.players  then == DOMAIN f.players
  IN  /\ l.kind \notin {"exit", "changing"} => now \subseteq then
      /\ l.kind = "enter" => l.by.who \in then
      /\ l.kind = "exit" => then = now \ {l.by.who}
      /\ l.kind = "changing" => then = IF l.seamless THEN now ELSE {}

LEMMA ReadingOf ==
  ASSUME NEW b, NEW l, NEW c, c = Reading(b, l)
  PROVE  /\ c.players = After(b.players, l) /\ c.state = StateAfter(b, l) /\ c.hall = Hearing(b, l)
         /\ c.seamless = IF l.kind = "changing" THEN l.seamless ELSE b.seamless
         /\ c.informed = IF l.kind = "info" THEN TRUE ELSE b.informed
         /\ c.full = IF l.kind = "pong" THEN TRUE ELSE b.full
BY DEF Reading

LEMMA StateOf ==
  ASSUME NEW b, NEW l
  PROVE  /\ l.kind \notin Marking => StateAfter(b, l) = b.state
         /\ l.kind = "changing" => StateAfter(b, l) = "travelling"
         /\ l.kind = "loaded" => StateAfter(b, l) = "pending"
         /\ l.kind = "start" => StateAfter(b, l) = "playing"
         /\ l.kind = "matchend" => StateAfter(b, l) = "over"
         /\ l.kind = "info" => StateAfter(b, l) = l.state
BY DEF StateAfter, Marking

LEMMA LineDue ==
  ASSUME NEW e, Kept(e), NEW g, Playing(g), NEW answered, End(e, g, answered),
         NEW l, LineType(l), NEW h, Playing(h), Phased(g, h, l), Peopled(g, h, l),
         NEW f, f = Reading(e, l), Remembered(e, f, l), NEW now, Mirrors(f.players, h.players, now)
  PROVE  Due(e, l, f) /\ End(f, h, now)
<1> DEFINE who == l.by.who
<1>0. Sensible(l) /\ l.kind \in Kinds
  BY DEF LineType, Sensible
<1>1. /\ f.state = StateAfter(e, l) /\ f.hall = Hearing(e, l)
      /\ f.seamless = IF l.kind = "changing" THEN l.seamless ELSE e.seamless
      /\ f.informed = IF l.kind = "info" THEN TRUE ELSE e.informed
      /\ f.full = IF l.kind = "pong" THEN TRUE ELSE e.full
  BY ReadingOf, SMTT(30), ZenonT(30)
<1>2. /\ l.kind \notin Marking => f.state = e.state
      /\ l.kind = "changing" => f.state = "travelling"
      /\ l.kind = "loaded" => f.state = "pending"
      /\ l.kind = "start" => f.state = "playing"
      /\ l.kind = "matchend" => f.state = "over"
      /\ l.kind = "info" => f.state = l.state
  BY <1>1, StateOf
<1>3. /\ e.informed => e.state = g.phase
      /\ e.state = "travelling" => g.phase = "travelling"
      /\ g.phase = "travelling" /\ ~e.seamless => DOMAIN g.players = {}
      /\ \A p \in e.hall : p \in DOMAIN g.players => p \in DOMAIN e.players
  BY DEF End
<1>4. g.phase \in Phases /\ h.phase \in Phases /\ e.state \in Phases
  BY DEF Playing, Kept
<1>5. DOMAIN f.players \subseteq DOMAIN h.players /\ Listing(f.players)
  <2>1. Lists(f.players, SidesOf(h.players)) /\ Crowd(h.players)
    BY DEF Mirrors, Playing
  <2> QED  BY <2>1, CrowdSides DEF Lists
<1>6. f.informed => f.state = h.phase
  BY <1>1, <1>2, <1>3 DEF Phased, Marking
<1>7. f.state = "travelling" => h.phase = "travelling"
  BY <1>1, <1>2, <1>3 DEF Phased, Marking
<1>8. h.phase = "travelling" /\ ~f.seamless => DOMAIN h.players = {}
  <2> SUFFICES ASSUME h.phase = "travelling", ~f.seamless PROVE DOMAIN h.players = {}
    OBVIOUS
  <2>1. CASE l.kind = "changing"
    BY <1>1, <2>1 DEF Peopled
  <2>2. CASE l.kind # "changing"
    <3>1. g.phase = "travelling" /\ ~e.seamless
      BY <1>1, <2>2 DEF Phased, Marking
    <3>2. DOMAIN g.players = {}
      BY <1>3, <3>1
    <3> QED  BY <2>2, <3>1, <3>2 DEF Peopled
  <2> QED  BY <2>1, <2>2
<1>9. /\ l.kind \notin {"enter", "exit", "changing"} => f.hall = e.hall
      /\ l.kind = "changing" => f.hall = IF l.seamless THEN e.hall ELSE {}
      /\ l.kind = "enter" => /\ f.hall \in {e.hall, e.hall \cup {who}}
                             /\ Announced => f.hall = e.hall \cup {who}
      /\ l.kind = "exit" =>
           /\ f.hall \in {e.hall, e.hall \ {who}}
           /\ Announced /\ who \in DOMAIN e.players /\ ~(e.state = "travelling" /\ ~e.seamless) =>
                f.hall = e.hall \ {who}
  BY <1>0, <1>1, HeardOf
<1>10. \A p \in f.hall : p \in DOMAIN h.players => p \in DOMAIN f.players
  <2> SUFFICES ASSUME NEW p \in f.hall, p \in DOMAIN h.players PROVE p \in DOMAIN f.players
    OBVIOUS
  <2>1. CASE l.kind = "enter"
    BY <1>3, <1>9, <2>1 DEF Peopled, Remembered
  <2>2. CASE l.kind = "exit"
    BY <1>3, <1>9, <2>2 DEF Peopled, Remembered
  <2>3. CASE l.kind = "changing"
    BY <1>3, <1>9, <2>3 DEF Peopled, Remembered
  <2>4. CASE l.kind \notin {"enter", "exit", "changing"}
    BY <1>3, <1>9, <2>4 DEF Peopled, Remembered
  <2> QED  BY <2>1, <2>2, <2>3, <2>4
<1>11. ASSUME Announced
       PROVE  /\ \A p \in DOMAIN h.players : h.players[p].whole => p \in f.hall
              /\ f.hall \subseteq DOMAIN h.players
  <2>1. /\ \A p \in DOMAIN g.players : g.players[p].whole => p \in e.hall
        /\ e.hall \subseteq DOMAIN g.players
    BY <1>11 DEF End
  <2>2. CASE l.kind = "enter"
    BY <1>9, <1>11, <2>1, <2>2 DEF Peopled
  <2>3. CASE l.kind = "exit"
    <3>1. who \in DOMAIN g.players /\ DOMAIN h.players = DOMAIN g.players \ {who}
      BY <2>3 DEF Peopled
    <3>2. ~(e.state = "travelling" /\ ~e.seamless)
      BY <1>3, <3>1
    <3>3. f.hall = e.hall \ {who}
      BY <1>3, <1>9, <1>11, <2>3, <3>1, <3>2
    <3> QED  BY <2>1, <2>3, <3>1, <3>3 DEF Peopled
  <2>4. CASE l.kind = "changing"
    BY <1>9, <2>1, <2>4 DEF Peopled
  <2>5. CASE l.kind \notin {"enter", "exit", "changing"}
    BY <1>9, <2>1, <2>5 DEF Peopled
  <2> QED  BY <2>2, <2>3, <2>4, <2>5
<1>12. End(f, h, now)
  BY <1>6, <1>7, <1>8, <1>10, <1>11 DEF End
<1>13. Kept(f)
  <2>1. f.state \in Phases
    <3>1. l.kind = "info" => l.state \in Phases
      BY DEF LineType
    <3> QED  BY <1>2, <1>4, <3>1 DEF Phases, Marking
  <2>2. f.seamless \in BOOLEAN /\ f.informed \in BOOLEAN /\ f.full \in BOOLEAN
    BY <1>1 DEF Kept, LineType
  <2>3. f.hall \subseteq Clients
    <3>1. e.hall \subseteq Clients /\ (l.kind = "enter" => who \in Clients)
      BY DEF Kept, LineType
    <3> QED  BY <1>9, <3>1
  <2> QED  BY <1>5, <2>1, <2>2, <2>3 DEF Kept
<1>14. e.informed => /\ l.kind = "changing" /\ l.ended => e.state = "over"
                     /\ l.kind = "loaded" => e.state = "travelling"
                     /\ l.kind = "start" => e.state = "pending"
                     /\ l.kind = "info" => l.state = e.state
  BY <1>3 DEF Phased
<1>15. e.state = "travelling" => /\ l.kind \notin {"start", "matchend"}
                                 /\ l.kind = "info" => l.state = "travelling"
  BY <1>3 DEF Phased
<1>16. l.kind # "enter" => \A p \in e.hall : p \in DOMAIN f.players => p \in DOMAIN e.players
  <2> SUFFICES ASSUME l.kind # "enter", NEW p \in e.hall, p \in DOMAIN f.players PROVE p \in DOMAIN e.players
    OBVIOUS
  <2>1. p \in DOMAIN g.players
    BY <1>5 DEF Peopled
  <2> QED  BY <1>3, <2>1
<1>17. l.kind \notin {"exit", "changing"} => DOMAIN e.players \subseteq DOMAIN f.players
  BY DEF Remembered
<1> QED  BY <1>12, <1>13, <1>14, <1>15, <1>16, <1>17 DEF Due

LEMMA MirrorsUnanswered ==
  ASSUME NEW ps, NEW gp, Mirrors(ps, gp, TRUE), NEW now \in BOOLEAN
  PROVE  Mirrors(ps, gp, now)
BY DEF Mirrors, Fits

\* What is neither of players nor about them.
Markers == {"loaded", "start", "info", "pong", "report", "voteover", "votecancelled"}
LEMMA MarkerDue ==
  ASSUME NEW e, Kept(e), NEW g, Playing(g), NEW answered \in BOOLEAN, End(e, g, answered),
         NEW l, LineType(l), l.kind \in Markers, NEW h, Playing(h), Phased(g, h, l), h.players = g.players,
         NEW f, f = Reading(e, l)
  PROVE  Due(e, l, f) /\ End(f, h, answered)
<1>1. After(e.players, l) = e.players
  BY DEF After, Markers
<1>2. f.players = e.players
  BY <1>1, ReadingOf
<1>3. Mirrors(f.players, h.players, answered)
  BY <1>2 DEF End
<1>4. l.kind \notin {"enter", "exit", "changing"}
  BY DEF Markers
<1>5. Peopled(g, h, l)
  BY <1>4 DEF Peopled
<1>6. Remembered(e, f, l)
  BY <1>2, <1>4 DEF Remembered
<1> QED  BY <1>3, <1>5, <1>6, LineDue

LEMMA DeedDue ==
  ASSUME NEW e, Kept(e), NEW g, Playing(g), NEW answered \in BOOLEAN, End(e, g, answered),
         NEW l, LineType(l), DeedLine(l, SidesOf(g.players)),
         NEW h, Playing(h), h.phase = g.phase, DOMAIN h.players = DOMAIN g.players,
         \A p \in DOMAIN g.players : DoneBy(g.players[p], h.players[p], l, p),
         NEW f, f = Reading(e, l)
  PROVE  Due(e, l, f) /\ End(f, h, answered)
<1>1. PICK ps : ps = e.players
  OBVIOUS
<1>2. PICK qs : qs = After(ps, l)
  OBVIOUS
<1>3. f.players = qs
  BY <1>1, <1>2 DEF Reading
<1>4. PICK gp : gp = g.players
  OBVIOUS
<1>5. PICK hp : hp = h.players
  OBVIOUS
<1>6. Crowd(gp) /\ Crowd(hp) /\ Mirrors(ps, gp, answered)
  BY <1>1, <1>4, <1>5 DEF Playing, End
<1>7. DeedLine(l, SidesOf(gp)) /\ DOMAIN hp = DOMAIN gp /\ \A p \in DOMAIN gp : DoneBy(gp[p], hp[p], l, p)
  BY <1>4, <1>5
<1>8. Mirrors(qs, hp, answered)
  BY <1>2, <1>6, <1>7, DeedMirrored
<1>9. DOMAIN ps \subseteq DOMAIN qs
  <2>1. Lists(ps, SidesOf(gp)) /\ Sides(SidesOf(gp))
    BY <1>6, CrowdSides DEF Mirrors
  <2>2. Recorded(ps, qs, l, SidesOf(gp))
    BY <1>2, <1>7, <2>1, DeedRecorded
  <2> QED  BY <2>2 DEF Recorded
<1>10. l.kind \notin {"enter", "exit", "changing"} /\ l.kind \notin Marking
  BY DEF DeedLine, PlainKinds, Marking
<1>11. Peopled(g, h, l)
  BY <1>10 DEF Peopled, DoneBy
<1>12. Phased(g, h, l)
  BY <1>10 DEF Phased, Marking
<1>13. Remembered(e, f, l)
  BY <1>1, <1>3, <1>9, <1>10 DEF Remembered
<1> QED  BY <1>3, <1>5, <1>8, <1>11, <1>12, <1>13, LineDue

\* Nothing is done by a line that only says something.
LEMMA NothingDone ==
  ASSUME NEW g \in Gamers, NEW l, l.kind \in PlainKinds, NEW p
  PROVE  DoneBy(g, g, l, p)
<1>1. \A s : Gain(l, p, s) = 0
  BY CountsByKind DEF Gain
<1>2. \A s \in Statistics : g.stats[s] \in Nat
  BY DEF Gamers, Counters
<1>3. l.kind # "plays" /\ l.kind # "death"
  BY DEF PlainKinds
<1> QED  BY <1>1, <1>2, <1>3 DEF DoneBy

LEMMA EnterDue ==
  ASSUME NEW e, Kept(e), NEW g, Playing(g), NEW answered \in BOOLEAN, End(e, g, answered),
         NEW c \in Clients, c \notin DOMAIN g.players, NEW team \in Teams, g.phase # "travelling",
         NEW l, l.by = Token(c, team), l.kind = "enter",
         NEW h, Playing(h), h.phase = g.phase, DOMAIN h.players = DOMAIN g.players \cup {c},
         \A p \in DOMAIN g.players : h.players[p] = g.players[p],
         h.players[c].team = team, h.players[c].character = "none", h.players[c].stats = Zero,
         h.players[c].won = 0, h.players[c].lost = 0,
         NEW f, f = Reading(e, l)
  PROVE  Due(e, l, f) /\ End(f, h, answered)
<1>0. l.by.who = c
  BY DEF Token
<1>1. PICK ps : ps = e.players
  OBVIOUS
<1>2. PICK qs : qs = After(ps, l)
  OBVIOUS
<1>3. f.players = qs
  BY <1>1, <1>2 DEF Reading
<1>4. PICK gp : gp = g.players
  OBVIOUS
<1>5. PICK hp : hp = h.players
  OBVIOUS
<1>6. Crowd(gp) /\ Crowd(hp) /\ Mirrors(ps, gp, answered)
  BY <1>1, <1>4, <1>5 DEF Playing, End
<1>7. /\ DOMAIN hp = DOMAIN gp \cup {c} /\ c \notin DOMAIN gp /\ \A p \in DOMAIN gp : hp[p] = gp[p]
      /\ hp[c].team = team /\ hp[c].character = "none" /\ hp[c].stats = Zero /\ hp[c].won = 0 /\ hp[c].lost = 0
  BY <1>4, <1>5
<1>8. Mirrors(qs, hp, answered) /\ c \in DOMAIN qs
  BY <1>2, <1>6, <1>7, EnterMirrored
<1>9. DOMAIN ps \subseteq DOMAIN qs
  <2>1. DOMAIN Meet(ps, l.by) = DOMAIN ps \cup {l.by.who}
    <3>1. "ai" \notin Clients /\ Empty \notin Clients
      BY GameAssumption
    <3>2. IsPlayer(l.by)
      BY <1>0, <3>1 DEF IsPlayer
    <3> QED  BY <3>2 DEF Meet
  <2>2. qs = [Meet(ps, l.by) EXCEPT ![l.by.who].known = TRUE]
    BY <1>2 DEF After, Enter
  <2> QED  BY <2>1, <2>2
<1>10. LineType(l)
  BY <1>0 DEF LineType, Sensible, Kinds
<1>11. Peopled(g, h, l)
  BY <1>0 DEF Peopled
<1>12. Phased(g, h, l)
  BY DEF Phased, Marking
<1>13. Remembered(e, f, l)
  BY <1>0, <1>1, <1>3, <1>8, <1>9 DEF Remembered
<1> QED  BY <1>3, <1>5, <1>8, <1>10, <1>11, <1>12, <1>13, LineDue

LEMMA ExitDue ==
  ASSUME NEW e, Kept(e), NEW g, Playing(g), NEW answered \in BOOLEAN, End(e, g, answered),
         NEW c \in DOMAIN g.players, NEW l, l.by.who = c, l.kind = "exit",
         NEW h, Playing(h), h.phase = g.phase, DOMAIN h.players = DOMAIN g.players \ {c},
         \A p \in DOMAIN h.players : h.players[p] = g.players[p],
         NEW f, f = Reading(e, l)
  PROVE  Due(e, l, f) /\ End(f, h, answered)
<1>1. PICK ps : ps = e.players
  OBVIOUS
<1>2. PICK qs : qs = After(ps, l)
  OBVIOUS
<1>3. f.players = qs
  BY <1>1, <1>2 DEF Reading
<1>4. PICK gp : gp = g.players
  OBVIOUS
<1>5. PICK hp : hp = h.players
  OBVIOUS
<1>6. Crowd(gp) /\ Crowd(hp) /\ Mirrors(ps, gp, answered)
  BY <1>1, <1>4, <1>5 DEF Playing, End
<1>7. Without(gp, hp, c)
  BY <1>4, <1>5 DEF Without
<1>8. Mirrors(qs, hp, answered) /\ DOMAIN qs = DOMAIN ps \ {c}
  BY <1>2, <1>6, <1>7, ExitMirrored
<1>10. LineType(l)
  BY DEF LineType, Sensible, Kinds
<1>11. Peopled(g, h, l)
  BY DEF Peopled
<1>12. Phased(g, h, l)
  BY DEF Phased, Marking
<1>13. Remembered(e, f, l)
  BY <1>1, <1>3, <1>8 DEF Remembered
<1> QED  BY <1>3, <1>5, <1>8, <1>10, <1>11, <1>12, <1>13, LineDue

LEMMA TeamJoinDue ==
  ASSUME NEW e, Kept(e), NEW g, Playing(g), NEW answered \in BOOLEAN, End(e, g, answered),
         NEW c \in DOMAIN g.players, NEW team \in Teams,
         NEW l, l.by = Token(c, team), l.kind = "teamjoin",
         NEW h, Playing(h), h.phase = g.phase, DOMAIN h.players = DOMAIN g.players,
         \A p \in DOMAIN g.players : p # c => h.players[p] = g.players[p],
         h.players[c] = Turned(g.players[c], team),
         NEW f, f = Reading(e, l)
  PROVE  Due(e, l, f) /\ End(f, h, answered)
<1>1. PICK ps : ps = e.players
  OBVIOUS
<1>2. PICK qs : qs = After(ps, l)
  OBVIOUS
<1>3. f.players = qs
  BY <1>1, <1>2 DEF Reading
<1>4. PICK gp : gp = g.players
  OBVIOUS
<1>5. PICK hp : hp = h.players
  OBVIOUS
<1>6. Crowd(gp) /\ Crowd(hp) /\ Mirrors(ps, gp, answered)
  BY <1>1, <1>4, <1>5 DEF Playing, End
<1>7. /\ DOMAIN hp = DOMAIN gp /\ c \in DOMAIN gp /\ \A p \in DOMAIN gp : p # c => hp[p] = gp[p]
      /\ hp[c] = Turned(gp[c], team)
  BY <1>4, <1>5
<1>8. Mirrors(qs, hp, answered) /\ DOMAIN qs = DOMAIN ps \cup {c}
  BY <1>2, <1>6, <1>7, TeamJoinMirrored
<1>10. LineType(l)
  BY DEF LineType, Sensible, Kinds
<1>11. Peopled(g, h, l)
  <2>1. gp[c] \in Gamers
    BY <1>6, <1>7 DEF Crowd
  <2>2. hp[c].whole = gp[c].whole
    BY <1>7, <2>1 DEF Gamers, Turned
  <2>3. \A p \in DOMAIN gp : hp[p].whole => gp[p].whole
    BY <1>7, <2>2
  <2> QED  BY <1>4, <1>5, <2>3 DEF Peopled
<1>12. Phased(g, h, l)
  BY DEF Phased, Marking
<1>13. Remembered(e, f, l)
  BY <1>1, <1>3, <1>8 DEF Remembered
<1> QED  BY <1>3, <1>5, <1>8, <1>10, <1>11, <1>12, <1>13, LineDue

LEMMA MatchEndDue ==
  ASSUME NEW e, Kept(e), NEW g, Playing(g), NEW answered \in BOOLEAN, End(e, g, answered),
         g.phase = "playing", NEW l, l.winner \in Teams \cup {Empty}, l.kind = "matchend",
         NEW h, Playing(h), h.phase = "over", DOMAIN h.players = DOMAIN g.players,
         \A p \in DOMAIN g.players : Scored(g.players[p], h.players[p], l.winner),
         NEW f, f = Reading(e, l)
  PROVE  Due(e, l, f) /\ End(f, h, answered)
<1>1. PICK ps : ps = e.players
  OBVIOUS
<1>2. PICK qs : qs = After(ps, l)
  OBVIOUS
<1>3. f.players = qs
  BY <1>1, <1>2 DEF Reading
<1>4. PICK gp : gp = g.players
  OBVIOUS
<1>5. PICK hp : hp = h.players
  OBVIOUS
<1>6. Crowd(gp) /\ Crowd(hp) /\ Mirrors(ps, gp, answered)
  BY <1>1, <1>4, <1>5 DEF Playing, End
<1>7. DOMAIN hp = DOMAIN gp /\ \A p \in DOMAIN gp : Scored(gp[p], hp[p], l.winner)
  BY <1>4, <1>5
<1>8. Mirrors(qs, hp, answered) /\ DOMAIN qs = DOMAIN ps
  BY <1>2, <1>6, <1>7, MatchEndMirrored
<1>10. LineType(l)
  BY DEF LineType, Sensible, Kinds
<1>11. Peopled(g, h, l)
  BY DEF Peopled, Scored
<1>12. Phased(g, h, l)
  BY DEF Phased, Marking
<1>13. Remembered(e, f, l)
  BY <1>1, <1>3, <1>8 DEF Remembered
<1> QED  BY <1>3, <1>5, <1>8, <1>10, <1>11, <1>12, <1>13, LineDue

LEMMA ChangingDue ==
  ASSUME NEW e, Kept(e), NEW g, Playing(g), NEW answered \in BOOLEAN, End(e, g, answered),
         g.phase \in {"playing", "over"}, NEW l, l.kind = "changing", l.seamless \in BOOLEAN, l.match \in Nat,
         l.ended = (g.phase = "over"),
         NEW h, Playing(h), h.phase = "travelling",
         DOMAIN h.players = IF l.seamless THEN DOMAIN g.players ELSE {},
         \A p \in DOMAIN h.players :
           /\ h.players[p].team = g.players[p].team /\ h.players[p].stats = Zero /\ h.players[p].character = "none"
           /\ h.players[p].won = g.players[p].won /\ h.players[p].lost = g.players[p].lost
           /\ h.players[p].whole = g.players[p].whole,
         NEW f, f = Reading(e, l)
  PROVE  Due(e, l, f) /\ End(f, h, answered)
<1>1. PICK ps : ps = e.players
  OBVIOUS
<1>2. PICK qs : qs = After(ps, l)
  OBVIOUS
<1>3. f.players = qs
  BY <1>1, <1>2 DEF Reading
<1>4. PICK gp : gp = g.players
  OBVIOUS
<1>5. PICK hp : hp = h.players
  OBVIOUS
<1>6. Crowd(gp) /\ Crowd(hp) /\ Mirrors(ps, gp, answered)
  BY <1>1, <1>4, <1>5 DEF Playing, End
<1>7. Moved(gp, hp, l.seamless)
  BY <1>4, <1>5 DEF Moved
<1>8. Mirrors(qs, hp, answered) /\ DOMAIN qs = IF l.seamless THEN DOMAIN ps ELSE {}
  BY <1>2, <1>6, <1>7, ChangingMirrored
<1>10. LineType(l)
  BY DEF LineType, Sensible, Kinds
<1>11. Peopled(g, h, l)
  BY DEF Peopled
<1>12. Phased(g, h, l)
  BY DEF Phased, Marking
<1>13. Remembered(e, f, l)
  BY <1>1, <1>3, <1>8 DEF Remembered
<1> QED  BY <1>3, <1>5, <1>8, <1>10, <1>11, <1>12, <1>13, LineDue

LEMMA ListDue ==
  ASSUME NEW e, Kept(e), NEW g, Playing(g), NEW answered \in BOOLEAN, End(e, g, answered),
         NEW l, l.kind = "list", l.rows = [p \in DOMAIN g.players |-> Row(g.players[p])],
         NEW f, f = Reading(e, l), NEW now
  PROVE  Due(e, l, f) /\ End(f, g, now)
<1>1. PICK ps : ps = e.players
  OBVIOUS
<1>2. PICK qs : qs = After(ps, l)
  OBVIOUS
<1>3. f.players = qs
  BY <1>1, <1>2 DEF Reading
<1>4. PICK gp : gp = g.players
  OBVIOUS
<1>6. Crowd(gp) /\ Mirrors(ps, gp, answered) /\ l.rows = [p \in DOMAIN gp |-> Row(gp[p])]
  BY <1>1, <1>4 DEF Playing, End
<1>8. Mirrors(qs, gp, now) /\ DOMAIN qs = DOMAIN gp
  BY <1>2, <1>6, ListMirrored
<1>9. DOMAIN ps \subseteq DOMAIN gp
  BY <1>6, MirrorsOf
<1>10. LineType(l)
  BY DEF LineType, Sensible, Kinds
<1>11. Peopled(g, g, l)
  BY DEF Peopled
<1>12. Phased(g, g, l)
  BY DEF Phased, Marking
<1>13. Remembered(e, f, l)
  BY <1>1, <1>3, <1>8, <1>9 DEF Remembered
<1> QED  BY <1>3, <1>4, <1>8, <1>10, <1>11, <1>12, <1>13, LineDue

----------------------------------------------------------------------------
(***************************************************************************)
(* Folds                                                                   *)
(***************************************************************************)
\* The two folds: over the lines of a log, and over the servers that may be shown.
Step(op, base, x) == IF op = "log" THEN After(base, x) ELSE Web!AddIfShown(base, x)

\* The function by which FoldLeft is defined: on the sets of positions of q.
IsFold(op, g, base, q, n) ==
  g = [s \in SUBSET (1 .. n) |-> IF s = {} THEN base ELSE Step(op, g[s \ {Max(s)}], q[Max(s)])]

\* The greatest number of a set that ends with it.
LEMMA MaxFacts ==
  ASSUME NEW n \in Nat, NEW s \in SUBSET (1 .. n + 1), n + 1 \in s
  PROVE  Max(s) = n + 1 /\ s \ {Max(s)} \in SUBSET (1 .. n)
<1>1. \A y \in s : n + 1 >= y
  OBVIOUS
<1>2. Max(s) \in s /\ \A y \in s : Max(s) >= y
  BY <1>1 DEF Max
<1>3. Max(s) = n + 1
  <2>1. Max(s) \in 1 .. n + 1 /\ Max(s) >= n + 1
    BY <1>2
  <2> QED  BY <2>1
<1>4. \A y \in s \ {n + 1} : y \in 1 .. n
  OBVIOUS
<1> QED  BY <1>3, <1>4

\* There is such a function.
LEMMA FoldExists ==
  ASSUME NEW op, NEW base, NEW q, NEW m \in Nat
  PROVE  \E g : IsFold(op, g, base, q, m)
<1> DEFINE T == {n \in Nat : \E g : IsFold(op, g, base, q, n)}
<1>1. 0 \in T
  <2> DEFINE g == [s \in SUBSET (1 .. 0) |-> base]
  <2>1. \A s \in SUBSET (1 .. 0) : s = {}
    OBVIOUS
  <2>2. g = [s \in SUBSET (1 .. 0) |-> IF s = {} THEN base ELSE Step(op, g[s \ {Max(s)}], q[Max(s)])]
    BY <2>1
  <2>3. IsFold(op, g, base, q, 0)
    BY <2>2 DEF IsFold
  <2> QED  BY <2>3
<1>2. ASSUME NEW n \in T
      PROVE  n + 1 \in T
  <2>1. PICK f : IsFold(op, f, base, q, n)
    OBVIOUS
  <2> DEFINE g == [s \in SUBSET (1 .. n + 1) |->
                     IF n + 1 \in s THEN Step(op, f[s \ {n + 1}], q[n + 1]) ELSE f[s]]
  <2>2. ASSUME NEW s \in SUBSET (1 .. n + 1)
        PROVE  g[s] = IF s = {} THEN base ELSE Step(op, g[s \ {Max(s)}], q[Max(s)])
    <3>1. CASE n + 1 \in s
      <4>1. Max(s) = n + 1 /\ s \ {Max(s)} \in SUBSET (1 .. n)
        BY <3>1, MaxFacts
      <4>2. s \ {n + 1} \in SUBSET (1 .. n + 1) /\ n + 1 \notin s \ {n + 1}
        OBVIOUS
      <4>3. g[s \ {n + 1}] = f[s \ {n + 1}]
        BY <4>2
      <4> QED  BY <3>1, <4>1, <4>3
    <3>2. CASE n + 1 \notin s
      <4>1. s \in SUBSET (1 .. n)
        <5>1. \A y \in s : y \in 1 .. n
          BY <3>2
        <5> QED  BY <5>1
      <4>2. f[s] = IF s = {} THEN base ELSE Step(op, f[s \ {Max(s)}], q[Max(s)])
        BY <2>1, <4>1 DEF IsFold
      <4>3. n + 1 \notin s \ {Max(s)} /\ s \ {Max(s)} \in SUBSET (1 .. n + 1)
        BY <3>2
      <4>4. g[s \ {Max(s)}] = f[s \ {Max(s)}]
        BY <4>3
      <4> QED  BY <3>2, <4>2, <4>4
    <3> QED  BY <3>1, <3>2
  <2>3. g = [s \in SUBSET (1 .. n + 1) |-> g[s]]
    OBVIOUS
  <2> HIDE DEF g
  <2>4. IsFold(op, g, base, q, n + 1)
    BY <2>2, <2>3, Zenon DEF IsFold
  <2> QED  BY <2>4
<1>3. T = Nat
  <2> HIDE DEF T
  <2>1. T \in SUBSET Nat
    BY DEF T
  <2> QED  BY <1>1, <1>2, <2>1, Induction
<1> QED  BY <1>3

FoldOf(op, base, q) == (CHOOSE g : IsFold(op, g, base, q, Len(q)))[1 .. Len(q)]

\* What the folds compute, one element after the other.
Stages(op, d, base, q) ==
  /\ d[0] = base
  /\ \A k \in 1 .. Len(q) : d[k] = Step(op, d[k - 1], q[k])

LEMMA FoldStages ==
  ASSUME NEW op, NEW base, NEW q, DOMAIN q = 1 .. Len(q), Len(q) \in Nat,
         NEW r, r = FoldOf(op, base, q)
  PROVE  \E d : Stages(op, d, base, q) /\ d[Len(q)] = r
<1> DEFINE g == CHOOSE f : IsFold(op, f, base, q, Len(q))
           d == [k \in 0 .. Len(q) |-> g[1 .. k]]
<1>1. IsFold(op, g, base, q, Len(q))
  BY FoldExists
<1>2. \A s \in SUBSET (1 .. Len(q)) : g[s] = IF s = {} THEN base ELSE Step(op, g[s \ {Max(s)}], q[Max(s)])
  <2> HIDE DEF g
  <2> QED  BY <1>1, Zenon DEF IsFold
<1>3. r = g[1 .. Len(q)]
  BY DEF FoldOf
<1> HIDE DEF g
<1>4. d[0] = base
  <2>1. 1 .. 0 = {} /\ 0 \in 0 .. Len(q)
    OBVIOUS
  <2> QED  BY <1>2, <2>1
<1>5. ASSUME NEW k \in 1 .. Len(q)
      PROVE  d[k] = Step(op, d[k - 1], q[k])
  <2> DEFINE s == 1 .. k
  <2>0. PICK n \in Nat : k = n + 1 /\ n = k - 1
    <3>1. k - 1 \in Nat /\ k = (k - 1) + 1
      OBVIOUS
    <3> QED  BY <3>1
  <2>1. s \in SUBSET (1 .. Len(q)) /\ s # {} /\ k \in s /\ s \in SUBSET (1 .. n + 1)
    <3>1. \A y \in s : y \in 1 .. Len(q) /\ y \in 1 .. n + 1
      BY <2>0
    <3>2. k \in s
      OBVIOUS
    <3> QED  BY <3>1, <3>2
  <2>2. Max(s) = k
    <3> HIDE DEF s
    <3> QED  BY <2>0, <2>1, MaxFacts
  <2>3. s \ {k} = 1 .. n
    <3>1. \A y \in s : y # k => y \in 1 .. n
      BY <2>0
    <3>2. \A y \in 1 .. n : y \in s /\ y # k
      BY <2>0
    <3> QED  BY <3>1, <3>2
  <2>4. d[k] = g[s] /\ d[k - 1] = g[1 .. n]
    <3>1. k \in 0 .. Len(q) /\ n \in 0 .. Len(q)
      BY <2>0
    <3> QED  BY <2>0, <3>1
  <2> HIDE DEF s, d
  <2>5. g[s] = Step(op, g[s \ {k}], q[k])
    BY <1>2, <2>1, <2>2
  <2> QED  BY <2>3, <2>4, <2>5
<1>6. d[Len(q)] = r
  <2>1. Len(q) \in 0 .. Len(q)
    OBVIOUS
  <2> QED  BY <1>3, <2>1
<1> HIDE DEF d
<1>7. Stages(op, d, base, q)
  BY <1>4, <1>5, Zenon DEF Stages
<1> QED  BY <1>6, <1>7

LEMMA LogStages ==
  ASSUME NEW base, NEW q, DOMAIN q = 1 .. Len(q), Len(q) \in Nat, NEW r, r = FoldLeft(After, base, q)
  PROVE  \E d : Stages("log", d, base, q) /\ d[Len(q)] = r
<1>1. FoldLeft(After, base, q) = FoldOf("log", base, q)
  BY DEF FoldLeft, MapThenFoldSet, FoldOf, IsFold, Step
<1> QED  BY <1>1, FoldStages

LEMMA ShownStages ==
  ASSUME NEW q, DOMAIN q = 1 .. Len(q), Len(q) \in Nat, NEW r, r = Web!Shown(q)
  PROVE  \E d : Stages("web", d, <<>>, q) /\ d[Len(q)] = r
<1> PICK base : base = <<>>
  OBVIOUS
<1>1. Web!Shown(q) = FoldOf("web", base, q)
  BY DEF Web!Shown, Web!FoldLeft, Web!MapThenFoldSet, Web!Max, Max, FoldOf, IsFold, Step
<1> QED  BY <1>1, FoldStages

----------------------------------------------------------------------------
(***************************************************************************)
(* From what the bot knows, b, the lines q lead to e.                      *)
(***************************************************************************)
Trail(m, b, q) ==
  /\ Course(m, b, q) /\ Kept(b)
  /\ \A i \in 1 .. Len(q) : Due(m[i - 1], q[i], m[i])
Ends(b, q, e) == \E m : Trail(m, b, q) /\ m[Len(q)] = e

LEMMA ReadPlayers ==
  ASSUME NEW b, NEW l, NEW c, c = Reading(b, l)
  PROVE  c.players = After(b.players, l)
BY DEF Reading

LEMMA EndsHere ==
  ASSUME NEW b, Kept(b)
  PROVE  Ends(b, <<>>, b)
<1> DEFINE m == [i \in {0} |-> b]
<1>0. Len(<<>>) = 0
  BY EmptyQueue
<1>1. m[0] = b
  OBVIOUS
<1>2. \A i : ~(i \in 1 .. 0)
  OBVIOUS
<1> HIDE DEF m
<1>3. Trail(m, b, <<>>)
  BY <1>0, <1>1, <1>2 DEF Trail, Course
<1> QED  BY <1>0, <1>1, <1>3 DEF Ends

LEMMA TrailExtended ==
  ASSUME NEW m, NEW b, NEW q, Queue(q), Trail(m, b, q), NEW e, e = m[Len(q)], NEW l, NEW f, f = Reading(e, l),
         Due(e, l, f), NEW r, r = Append(q, l)
  PROVE  \E n : Trail(n, b, r) /\ Grown(n, m, b, q, r, f)
<1>1. Course(m, b, q)
  BY DEF Trail
<1>2a. PICK n : Grown(n, m, b, q, r, f)
  BY <1>1, CourseExtended
<1>2. Course(n, b, r) /\ n[Len(r)] = f /\ Same(n, m, Len(q))
  BY <1>2a DEF Grown
<1>3. Len(q) \in Nat /\ Len(r) = Len(q) + 1 /\ r[Len(q) + 1] = l /\ \A i \in 1 .. Len(q) : r[i] = q[i]
  BY Appended, QueueShape
<1>4. ASSUME NEW i \in 1 .. Len(r)
      PROVE  Due(n[i - 1], r[i], n[i])
  <2>1. CASE i \in 1 .. Len(q)
    <3>1. i \in 0 .. Len(q) /\ i - 1 \in 0 .. Len(q)
      BY <1>3, <2>1
    <3>2. Due(m[i - 1], q[i], m[i])
      BY <2>1 DEF Trail
    <3> QED  BY <1>2, <1>3, <2>1, <3>1, <3>2 DEF Same
  <2>2. CASE i = Len(q) + 1
    <3>1. i = Len(r) /\ i - 1 = Len(q) /\ Len(q) \in 0 .. Len(q)
      BY <1>3, <2>2
    <3>2. n[i] = f /\ n[i - 1] = e /\ r[i] = l
      BY <1>2, <1>3, <2>2, <3>1 DEF Same
    <3> QED  BY <3>2
  <2> QED  BY <1>3, <2>1, <2>2
<1>5. Trail(n, b, r)
  BY <1>2, <1>4 DEF Trail
<1> QED  BY <1>2a, <1>5

\* n is m without the first step, and leads as far.
Shrunk(n, m, c, q, r) == Trail(n, c, r) /\ n[Len(r)] = m[Len(q)] /\ Behind(n, m, Len(r))

LEMMA TrailShortened ==
  ASSUME NEW m, NEW b, NEW q, Queue(q), q # <<>>, Trail(m, b, q), NEW r, r = Tail(q), NEW c, c = Reading(b, Head(q))
  PROVE  /\ m[0] = b /\ m[1] = c /\ Due(b, Head(q), c)
         /\ \E n : Shrunk(n, m, c, q, r)
<1>1. Course(m, b, q)
  BY DEF Trail
<1>2. PICK n : Course(n, c, r) /\ Behind(n, m, Len(r))
  BY <1>1, CourseShortened
<1>3. Len(r) \in Nat /\ Len(q) = Len(r) + 1 /\ Head(q) = q[1] /\ \A i \in 1 .. Len(r) : r[i] = q[i + 1]
  BY Tailed, QueueShape
<1>4. 1 \in 1 .. Len(q) /\ 1 - 1 = 0 /\ 0 + 1 = 1 /\ 0 \in 0 .. Len(r) /\ Len(r) \in 0 .. Len(r)
  BY <1>3
<1>5. m[0] = b /\ m[1] = c
  <2>1. m[1] = Reading(m[1 - 1], q[1])
    BY <1>1, <1>4 DEF Course
  <2> QED  BY <1>1, <1>3, <1>4, <2>1 DEF Course
<1>6. Due(b, Head(q), c)
  <2>1. Due(m[1 - 1], q[1], m[1])
    BY <1>4 DEF Trail
  <2> QED  BY <1>3, <1>4, <1>5, <2>1
<1>7. ASSUME NEW i \in 1 .. Len(r)
      PROVE  Due(n[i - 1], r[i], n[i])
  <2>1. i + 1 \in 1 .. Len(q) /\ (i + 1) - 1 = i /\ i \in 0 .. Len(r) /\ i - 1 \in 0 .. Len(r) /\ (i - 1) + 1 = i
    BY <1>3
  <2>2. Due(m[(i + 1) - 1], q[i + 1], m[i + 1])
    BY <2>1 DEF Trail
  <2>3. Due(m[i], q[i + 1], m[i + 1])
    BY <2>1, <2>2
  <2>4. n[i] = m[i + 1] /\ n[i - 1] = m[i] /\ r[i] = q[i + 1]
    BY <1>2, <1>3, <2>1 DEF Behind
  <2> QED  BY <2>3, <2>4
<1>8. Kept(c)
  BY <1>6 DEF Due
<1>9. Trail(n, c, r)
  BY <1>2, <1>7, <1>8 DEF Trail
<1>10. n[Len(r)] = m[Len(q)]
  BY <1>2, <1>3, <1>4 DEF Behind
<1>11. Shrunk(n, m, c, q, r)
  BY <1>2, <1>9, <1>10 DEF Shrunk
<1> QED  BY <1>5, <1>6, <1>11

LEMMA EndsExtended ==
  ASSUME NEW b, NEW q, Queue(q), NEW e, Ends(b, q, e), NEW l, NEW f, f = Reading(e, l), Due(e, l, f),
         NEW r, r = Append(q, l)
  PROVE  Ends(b, r, f)
<1>1. PICK m : Trail(m, b, q) /\ m[Len(q)] = e
  BY DEF Ends
<1>3. PICK n : Trail(n, b, r) /\ Grown(n, m, b, q, r, f)
  BY <1>1, TrailExtended
<1> QED  BY <1>3 DEF Ends, Grown

LEMMA EndsShortened ==
  ASSUME NEW b, NEW q, Queue(q), q # <<>>, NEW e, Ends(b, q, e), NEW r, r = Tail(q), NEW c, c = Reading(b, Head(q))
  PROVE  Due(b, Head(q), c) /\ Ends(c, r, e)
<1>1. PICK m : Trail(m, b, q) /\ m[Len(q)] = e
  BY DEF Ends
<1>2a. Trail(m, b, q)
  BY <1>1
<1>2. Due(b, Head(q), c) /\ \E n : Shrunk(n, m, c, q, r)
  BY <1>2a, TrailShortened
<1> QED  BY <1>1, <1>2 DEF Ends, Shrunk

\* There is one end only.
LEMMA EndsOnce ==
  ASSUME NEW b, NEW q, Queue(q), NEW e, Ends(b, q, e)
  PROVE  FoldLeft(After, b.players, q) = e.players
<1>1. PICK m : Trail(m, b, q) /\ m[Len(q)] = e
  BY DEF Ends
<1>2. DOMAIN q = 1 .. Len(q) /\ Len(q) \in Nat
  BY QueueShape
<1>3. PICK base : base = b.players
  OBVIOUS
<1>4. PICK r : r = FoldLeft(After, base, q)
  OBVIOUS
<1>5. PICK d : Stages("log", d, base, q) /\ d[Len(q)] = r
  BY <1>2, <1>4, LogStages
<1> DEFINE T == {k \in Nat : k <= Len(q) => d[k] = m[k].players}
<1>6. 0 \in T
  BY <1>1, <1>3, <1>5 DEF Stages, Trail, Course
<1>7. ASSUME NEW k \in T
      PROVE  k + 1 \in T
  <2> SUFFICES ASSUME k + 1 <= Len(q) PROVE d[k + 1] = m[k + 1].players
    OBVIOUS
  <2>1. k + 1 \in 1 .. Len(q) /\ (k + 1) - 1 = k /\ k <= Len(q)
    BY <1>2
  <2>2. d[k + 1] = After(d[k], q[k + 1])
    BY <1>5, <2>1 DEF Stages, Step
  <2>3. m[k + 1] = Reading(m[k], q[k + 1])
    BY <1>1, <2>1 DEF Trail, Course
  <2>4. m[k + 1].players = After(m[k].players, q[k + 1])
    BY <2>3, ReadPlayers
  <2>5. d[k] = m[k].players
    BY <2>1
  <2> QED  BY <2>2, <2>4, <2>5
<1>8. T = Nat
  <2>1. T \in SUBSET Nat
    OBVIOUS
  <2> HIDE DEF T
  <2> QED  BY <1>6, <1>7, <2>1, Induction
<1>9. d[Len(q)] = m[Len(q)].players
  BY <1>2, <1>8
<1> QED  BY <1>1, <1>3, <1>4, <1>5, <1>9

----------------------------------------------------------------------------
(***************************************************************************)
(* What connects the game and the bot while there is a connection.         *)
(***************************************************************************)
Answers(sent) == <<"list", Empty>> \notin Range(sent)
Calls(l, t, p) == l.kind = "votecalled" /\ l.team = t /\ l.by.who = p

\* The vote v of t falls: the command is sent, or the bot will send it when it
\* reads who called the vote, and knows the player then.
Noticed(m, q, t, p) == \E i \in 1 .. Len(q) : Calls(q[i], t, p) /\ m[i].players[p].known
Falls(m, q, sent, v, t) ==
  v.heard /\ v.by \in VoteBanned => <<"cancel", t>> \in Range(sent) \/ Noticed(m, q, t, v.by)

AllFall(m, q, sent, votes) == \A t \in VoteTeams : Falls(m, q, sent, votes[t], t)

Story(m, b, q, sent, g) ==
  /\ Trail(m, b, q) /\ AllFall(m, q, sent, g.votes)
  /\ End(m[Len(q)], g, Answers(sent))

Informs(b, q, sent, g) == \E m : Story(m, b, q, sent, g)

IsGame(g, most) ==
  /\ g = [match |-> g.match, phase |-> g.phase, deeds |-> g.deeds, players |-> g.players, votes |-> g.votes]
  /\ g.match \in 0 .. MaxMatches /\ g.deeds \in 0 .. most /\ g.phase \in Phases
  /\ Crowd(g.players) /\ g.votes \in [VoteTeams -> VoteInfos]

\* The line l tells of the step of the game from g to h.
Leads(g, h, l, then, now) ==
  \A e : Kept(e) /\ End(e, g, then) => Due(e, l, Reading(e, l)) /\ End(Reading(e, l), h, now)

\* Votes end, and a command is forgotten only with the vote it is about.
VotesKept(v, w) == \A t \in VoteTeams : w[t] = v[t] \/ w[t] = NoVote
Drops(sent, rest, w) ==
  /\ \A c \in Range(rest) : c \in Range(sent)
  /\ \A t \in VoteTeams : <<"cancel", t>> \in Range(sent) /\ <<"cancel", t>> \notin Range(rest) => w[t] = NoVote

LEMMA GamePlays ==
  ASSUME NEW g, NEW most, IsGame(g, most)
  PROVE  Playing(g) /\ Crowd(g.players)
<1>1. \A n \in 0 .. MaxMatches : n \in Nat
  OBVIOUS
<1> QED  BY <1>1 DEF IsGame, Playing

LEMMA NoVoteType == NoVote \in VoteInfos /\ NoVote.by = Empty /\ ~NoVote.heard
<1>1. NoVote = [by |-> Empty, heard |-> FALSE, raced |-> FALSE]
  BY Zenon DEF NoVote
<1>2. Empty \in Clients \cup {Empty}
  OBVIOUS
<1> QED  BY <1>1, <1>2 DEF VoteInfos

LEMMA TrailKept ==
  ASSUME NEW m, NEW b, NEW q, Queue(q), Trail(m, b, q)
  PROVE  Kept(m[Len(q)]) /\ Kept(b) /\ m[0] = b
<1>1. Len(q) \in Nat /\ m[0] = b /\ Kept(b)
  BY QueueShape DEF Trail, Course
<1>2. CASE Len(q) = 0
  BY <1>1, <1>2
<1>3. CASE Len(q) # 0
  <2>1. Len(q) \in 1 .. Len(q)
    BY <1>1, <1>3
  <2>2. Due(m[Len(q) - 1], q[Len(q)], m[Len(q)])
    BY <2>1 DEF Trail
  <2> QED  BY <1>1, <2>2 DEF Due
<1> QED  BY <1>1, <1>2, <1>3

LEMMA InformsKept ==
  ASSUME NEW b, NEW q, Queue(q), NEW sent, NEW g, Informs(b, q, sent, g)
  PROVE  Kept(b) /\ \E e : Ends(b, q, e) /\ Kept(e) /\ End(e, g, Answers(sent))
<1>1. PICK m : Story(m, b, q, sent, g)
  BY DEF Informs
<1>2. Trail(m, b, q) /\ End(m[Len(q)], g, Answers(sent))
  BY <1>1 DEF Story
<1>3. Ends(b, q, m[Len(q)])
  BY <1>2 DEF Ends
<1> QED  BY <1>2, <1>3, TrailKept

\* A vote that will fall still does.
LEMMA StillFall ==
  ASSUME NEW m, NEW n, NEW q, NEW r, NEW sent, NEW rest, NEW v, NEW w, AllFall(m, q, sent, v),
         VotesKept(v, w), Drops(sent, rest, w),
         \A t \in VoteTeams : Noticed(m, q, t, v[t].by) => Noticed(n, r, t, v[t].by)
  PROVE  AllFall(n, r, rest, w)
<1> SUFFICES ASSUME NEW t \in VoteTeams PROVE Falls(n, r, rest, w[t], t)
  BY DEF AllFall
<1>1. CASE w[t] = NoVote
  BY <1>1, NoVoteType DEF Falls
<1>2. CASE w[t] # NoVote
  <2>1. w[t] = v[t]
    BY <1>2 DEF VotesKept
  <2>2. Falls(m, q, sent, v[t], t)
    BY DEF AllFall
  <2>3. <<"cancel", t>> \in Range(sent) => <<"cancel", t>> \in Range(rest)
    BY <1>2 DEF Drops
  <2> QED  BY <2>1, <2>2, <2>3 DEF Falls
<1> QED  BY <1>1, <1>2

LEMMA NoticedStill ==
  ASSUME NEW m, NEW n, NEW q, Queue(q), NEW l, NEW r, r = Append(q, l), Same(n, m, Len(q)), NEW t, NEW p,
         Noticed(m, q, t, p)
  PROVE  Noticed(n, r, t, p)
<1>1. PICK i \in 1 .. Len(q) : Calls(q[i], t, p) /\ m[i].players[p].known
  BY DEF Noticed
<1>2. Len(q) \in Nat /\ Len(r) = Len(q) + 1 /\ \A j \in 1 .. Len(q) : r[j] = q[j]
  BY Appended, QueueShape
<1>3. i \in 1 .. Len(r) /\ i \in 0 .. Len(q)
  BY <1>2
<1>4. r[i] = q[i] /\ n[i] = m[i]
  BY <1>2, <1>3 DEF Same
<1> QED  BY <1>1, <1>3, <1>4 DEF Noticed

\* The game writes a line.
LEMMA InformsMore ==
  ASSUME NEW b, NEW q, Queue(q), NEW sent, NEW g, Informs(b, q, sent, g), NEW l, NEW h, NEW rest,
         Leads(g, h, l, Answers(sent), Answers(rest)), Drops(sent, rest, h.votes), VotesKept(g.votes, h.votes),
         NEW r, r = Append(q, l)
  PROVE  Informs(b, r, rest, h)
<1>1. PICK m : Story(m, b, q, sent, g)
  BY DEF Informs
<1>2. PICK e : e = m[Len(q)]
  OBVIOUS
<1>3. PICK f : f = Reading(e, l)
  OBVIOUS
<1>4. Trail(m, b, q) /\ End(e, g, Answers(sent)) /\ AllFall(m, q, sent, g.votes)
  BY <1>1, <1>2 DEF Story
<1>5. Kept(e)
  BY <1>2, <1>4, TrailKept
<1>6. Due(e, l, f) /\ End(f, h, Answers(rest))
  BY <1>3, <1>4, <1>5 DEF Leads
<1>7. PICK n : Trail(n, b, r) /\ Grown(n, m, b, q, r, f)
  BY <1>2, <1>3, <1>4, <1>6, TrailExtended
<1>8. n[Len(r)] = f /\ Same(n, m, Len(q))
  BY <1>7 DEF Grown
<1>9. \A t \in VoteTeams : Noticed(m, q, t, g.votes[t].by) => Noticed(n, r, t, g.votes[t].by)
  BY <1>8, NoticedStill, SMTT(30), ZenonT(30)
<1>10. AllFall(n, r, rest, h.votes)
  BY <1>4, <1>9, StillFall
<1>11. Story(n, b, r, rest, h)
  BY <1>6, <1>7, <1>8, <1>10 DEF Story
<1> QED  BY <1>11 DEF Informs

\* A command is dropped, or sent, and the game is not told of anything, nor tells.
LEMMA InformsStill ==
  ASSUME NEW b, NEW q, NEW sent, NEW g, Informs(b, q, sent, g), NEW rest, Answers(rest) = Answers(sent),
         Drops(sent, rest, g.votes)
  PROVE  Informs(b, q, rest, g)
<1>1. PICK m : Story(m, b, q, sent, g)
  BY DEF Informs
<1>2. VotesKept(g.votes, g.votes)
  BY DEF VotesKept
<1>3. AllFall(m, q, rest, g.votes)
  BY <1>1, <1>2, StillFall DEF Story
<1>4. Story(m, b, q, rest, g)
  BY <1>1, <1>3 DEF Story
<1> QED  BY <1>4 DEF Informs

\* A player calls a vote, which will fall if the player is banned and known.
LEMMA InformsVote ==
  ASSUME NEW b, NEW q, Queue(q), NEW sent, NEW g, Informs(b, q, sent, g), NEW l, NEW h,
         Leads(g, h, l, Answers(sent), Answers(sent)), NEW t \in VoteTeams, NEW p \in DOMAIN h.players,
         Calls(l, t, p), h.votes[t].by = p, h.votes[t].heard => h.players[p].whole,
         \A u \in VoteTeams : u # t => h.votes[u] = g.votes[u], Crowd(h.players),
         NEW r, r = Append(q, l)
  PROVE  Informs(b, r, sent, h)
<1>1. PICK m : Story(m, b, q, sent, g)
  BY DEF Informs
<1>2. PICK e : e = m[Len(q)]
  OBVIOUS
<1>3. PICK f : f = Reading(e, l)
  OBVIOUS
<1>4. Trail(m, b, q) /\ End(e, g, Answers(sent)) /\ AllFall(m, q, sent, g.votes)
  BY <1>1, <1>2 DEF Story
<1>5. Kept(e)
  BY <1>2, <1>4, TrailKept
<1>6. Due(e, l, f) /\ End(f, h, Answers(sent))
  BY <1>3, <1>4, <1>5 DEF Leads
<1>7. PICK n : Trail(n, b, r) /\ Grown(n, m, b, q, r, f)
  BY <1>2, <1>3, <1>4, <1>6, TrailExtended
<1>8. n[Len(r)] = f /\ Same(n, m, Len(q))
  BY <1>7 DEF Grown
<1>9. ASSUME NEW u \in VoteTeams, u # t
      PROVE  Falls(n, r, sent, h.votes[u], u)
  <2>1. Falls(m, q, sent, g.votes[u], u)
    BY <1>4 DEF AllFall
  <2>2. Noticed(m, q, u, g.votes[u].by) => Noticed(n, r, u, g.votes[u].by)
    BY <1>8, NoticedStill
  <2> QED  BY <1>9, <2>1, <2>2 DEF Falls
<1>10. ASSUME h.votes[t].heard
       PROVE  Noticed(n, r, t, p)
  <2>1. PICK qs : qs = f.players
    OBVIOUS
  <2>2. PICK hp : hp = h.players
    OBVIOUS
  <2>3. Mirrors(qs, hp, Answers(sent)) /\ p \in DOMAIN hp /\ hp[p].whole
    BY <1>6, <1>10, <2>1, <2>2 DEF End
  <2>4. p \in DOMAIN qs /\ Fits(View(qs, p, SidesOf(hp)), hp[p], Answers(sent))
    BY <2>3 DEF Mirrors
  <2>5. View(qs, p, SidesOf(hp)) = qs[p]
    BY <2>4 DEF View
  <2>6. f.players[p].known
    BY <2>1, <2>3, <2>4, <2>5 DEF Fits
  <2>7. Len(r) = Len(q) + 1 /\ r[Len(q) + 1] = l /\ Len(q) \in Nat
    BY Appended, QueueShape
  <2>8. Len(r) \in 1 .. Len(r) /\ r[Len(r)] = l
    BY <2>7
  <2> QED  BY <1>8, <2>6, <2>8 DEF Noticed
<1>11. Falls(n, r, sent, h.votes[t], t)
  BY <1>10 DEF Falls
<1>12. AllFall(n, r, sent, h.votes)
  BY <1>9, <1>11 DEF AllFall
<1>13. Story(n, b, r, sent, h)
  BY <1>6, <1>7, <1>8, <1>12 DEF Story
<1> QED  BY <1>13 DEF Informs

\* The bot reads a line.
LEMMA InformsLess ==
  ASSUME NEW b, NEW q, Queue(q), q # <<>>, NEW sent, NEW g, Informs(b, q, sent, g), NEW l, l = Head(q),
         NEW c, c = Reading(b, l), NEW rest, Answers(rest) = Answers(sent),
         \A x \in Range(sent) : x \in Range(rest),
         \A t \in VoteTeams, p \in VoteBanned : Calls(l, t, p) /\ c.players[p].known => <<"cancel", t>> \in Range(rest),
         NEW r, r = Tail(q)
  PROVE  Due(b, l, c) /\ Informs(c, r, rest, g)
<1>1. PICK m : Story(m, b, q, sent, g)
  BY DEF Informs
<1>2. Trail(m, b, q) /\ End(m[Len(q)], g, Answers(sent)) /\ AllFall(m, q, sent, g.votes)
  BY <1>1 DEF Story
<1>3a. Trail(m, b, q) /\ c = Reading(b, Head(q))
  BY <1>2
<1>3b. /\ m[0] = b /\ m[1] = c /\ Due(b, Head(q), c)
       /\ \E n : Shrunk(n, m, c, q, r)
  BY <1>3a, TrailShortened
<1>3. /\ m[0] = b /\ m[1] = c /\ Due(b, l, c)
      /\ \E n : Shrunk(n, m, c, q, r)
  BY <1>3b
<1>4. PICK n : Trail(n, c, r) /\ n[Len(r)] = m[Len(q)] /\ Behind(n, m, Len(r))
  BY <1>3 DEF Shrunk
<1>5. Len(r) \in Nat /\ Len(q) = Len(r) + 1 /\ Head(q) = q[1] /\ \A i \in 1 .. Len(r) : r[i] = q[i + 1]
  BY Tailed, QueueShape
<1>6. ASSUME NEW t \in VoteTeams
      PROVE  Falls(n, r, rest, g.votes[t], t)
  <2>1. PICK p : p = g.votes[t].by
    OBVIOUS
  <2> SUFFICES ASSUME g.votes[t].heard, p \in VoteBanned, <<"cancel", t>> \notin Range(rest)
               PROVE  Noticed(n, r, t, p)
    BY <2>1 DEF Falls
  <2>2. Noticed(m, q, t, p)
    BY <1>2, <2>1 DEF AllFall, Falls
  <2>3. PICK i \in 1 .. Len(q) : Calls(q[i], t, p) /\ m[i].players[p].known
    BY <2>2 DEF Noticed
  <2>4. i # 1
    BY <1>3, <1>5, <2>3
  <2>5. i - 1 \in 1 .. Len(r) /\ (i - 1) + 1 = i /\ i - 1 \in 0 .. Len(r)
    BY <1>5, <2>4
  <2>6. r[i - 1] = q[i] /\ n[i - 1] = m[i]
    <3>1. PICK j \in 1 .. Len(r) : j = i - 1 /\ j + 1 = i /\ j \in 0 .. Len(r)
      BY <2>5
    <3> QED  BY <1>4, <1>5, <3>1 DEF Behind
  <2> QED  BY <2>3, <2>5, <2>6 DEF Noticed
<1>7. AllFall(n, r, rest, g.votes)
  BY <1>6 DEF AllFall
<1>8. Story(n, c, r, rest, g)
  BY <1>2, <1>4, <1>7 DEF Story
<1> QED  BY <1>3, <1>8 DEF Informs

----------------------------------------------------------------------------
(***************************************************************************)
(* The invariant                                                           *)
(***************************************************************************)
Mind(s, h) == [players |-> s.players, state |-> s.state, seamless |-> s.seamless, informed |-> s.informed,
               full |-> s.full, hall |-> h]

IsServer(s) ==
  /\ s = [up |-> s.up, informed |-> s.informed, full |-> s.full, state |-> s.state, seamless |-> s.seamless,
          match |-> s.match, players |-> s.players]
  /\ s.up \in BOOLEAN /\ s.informed \in BOOLEAN /\ s.full \in BOOLEAN /\ s.seamless \in BOOLEAN
  /\ s.state \in Phases /\ s.match \in Nat /\ Listing(s.players)

Timers == [on : BOOLEAN, sure : BOOLEAN, state : Phases, match : Nat]
IsBot(b) ==
  /\ b = [server |-> b.server, timer |-> b.timer, other |-> b.other]
  /\ IsServer(b.server) /\ b.timer \in Timers /\ b.other \in BOOLEAN

Sites == {"own", "other"}
Details == [stale : BOOLEAN, players : SUBSET Clients]
IsPages(pg) == /\ pg = [list |-> pg.list, metadata |-> pg.metadata, details |-> pg.details]
               /\ pg.details \in [Sites -> Details]

Orders == {<<"info", Empty>>, <<"list", Empty>>, <<"ping", Empty>>, <<"endmap", Empty>>}
          \cup {<<"cancel", t>> : t \in VoteTeams}

Typed ==
  /\ topic \in Topics /\ connects \in 0 .. MaxConnects[topic] /\ hall \subseteq Clients
  /\ IsGame(game, MaxDeeds[topic]) /\ IsBot(bot) /\ IsPages(pages)
  /\ Queue(rx) /\ Queue(tx) /\ Len(rx) <= MaxLines /\ Len(tx) <= MaxSent
  /\ \A c \in Range(tx) : c \in Orders
  /\ \A l \in Range(rx) : l.kind = "votecalled" => l.team \in VoteTeams

\* Nobody whom the bot might have seen, no vote that it might have heard of.
Unseen(g) == /\ \A p \in DOMAIN g.players : ~g.players[p].seen /\ ~g.players[p].whole
             /\ \A t \in VoteTeams : ~g.votes[t].heard

Connected ==
  /\ server.up => Informs(Mind(server, hall), rx, tx, game)
  /\ ~server.up => server = Disconnected /\ rx = <<>> /\ tx = <<>> /\ hall = {} /\ Unseen(game)

\* What is scheduled, and sure, is for the match the bot knows of.
Sure(timer, s) ==
  timer.sure => s.informed /\ (timer.state = "playing" => timer.match = s.match /\ s.state = "playing")
Timed == Sure(bot.timer, bot.server)

\* A vote of the team is about to be cancelled.
Awaits(q, sent, t) == \/ <<"cancel", t>> \in Range(sent)
                      \/ \E l \in Range(q) : l.kind = "votecalled" /\ l.team = t /\ l.by.who \in VoteBanned
Spared(q, sent, votes) ==
  \A t \in VoteTeams : votes[t] # NoVote /\ votes[t].by \notin VoteBanned /\ ~votes[t].raced => ~Awaits(q, sent, t)
Innocent == Spared(rx, tx, game.votes)

Knows == Typed /\ Connected /\ Timed /\ Innocent

\* The game goes from g to h without a vote being called.
Goes(g, h, most, up) ==
  /\ IsGame(h, most) /\ VotesKept(g.votes, h.votes)
  /\ ~up /\ Unseen(g) => Unseen(h)

LEMMA SparedStill ==
  ASSUME NEW q, NEW r, NEW sent, NEW rest, NEW v, NEW w, Spared(q, sent, v), VotesKept(v, w),
         \A c \in Range(rest) : c \in Range(sent),
         \A l \in Range(r) : l \in Range(q) \/ l.kind # "votecalled"
  PROVE  Spared(r, rest, w)
BY DEF Spared, VotesKept, Awaits

LEMMA GameWrites ==
  ASSUME Knows, NEW l, Writes(l), l.kind # "votecalled", Goes(game, game', MaxDeeds[topic], server.up),
         Leads(game, game', l, Answers(tx), Answers(tx')),
         Queue(tx'), Len(tx') <= Len(tx), Drops(tx, tx', game'.votes)
  PROVE  Knows'
<1>1. PICK h : h = game'
  OBVIOUS
<1>2. PICK rest : rest = tx'
  OBVIOUS
<1>3. PICK r : r = rx'
  OBVIOUS
<1>4. /\ topic' = topic /\ bot' = bot /\ hall' = hall /\ pages' = pages /\ connects' = connects
      /\ r = IF server.up THEN Append(rx, l) ELSE rx
      /\ Len(rx) < MaxLines
  BY <1>3 DEF Writes
<1>5. /\ topic \in Topics /\ connects \in 0 .. MaxConnects[topic] /\ hall \subseteq Clients
      /\ IsBot(bot) /\ IsPages(pages) /\ Queue(rx) /\ Queue(tx) /\ Len(rx) <= MaxLines /\ Len(tx) <= MaxSent
      /\ \A c \in Range(tx) : c \in Orders
      /\ \A x \in Range(rx) : x.kind = "votecalled" => x.team \in VoteTeams
  BY DEF Knows, Typed
<1>6. MaxLines \in Nat /\ MaxSent \in Nat /\ Len(tx) \in Nat /\ Len(rest) \in Nat /\ Len(rx) \in Nat
  BY <1>2, <1>5, QueueShape, GameAssumption
<1>7. Queue(r) /\ Len(r) <= MaxLines /\ \A x \in Range(r) : x \in Range(rx) \/ x.kind # "votecalled"
  <2>1. CASE server.up
    <3>1. r = Append(rx, l)
      BY <1>4, <2>1
    <3>2. Queue(r) /\ Len(r) = Len(rx) + 1 /\ \A x : x \in Range(r) <=> x \in Range(rx) \/ x = l
      BY <1>5, <3>1, Appended
    <3> QED  BY <1>4, <1>6, <3>2
  <2>2. CASE ~server.up
    BY <1>4, <1>5, <2>2
  <2> QED  BY <2>1, <2>2
<1>8. IsGame(h, MaxDeeds[topic]) /\ VotesKept(game.votes, h.votes) /\ (~server.up /\ Unseen(game) => Unseen(h))
  BY <1>1 DEF Goes
<1>9. Queue(rest) /\ Len(rest) <= MaxSent /\ Drops(tx, rest, h.votes) /\ \A c \in Range(rest) : c \in Range(tx)
  BY <1>1, <1>2, <1>5, <1>6 DEF Drops
<1>10. Typed'
  <2>1. \A x \in Range(r) : x.kind = "votecalled" => x.team \in VoteTeams
    BY <1>5, <1>7
  <2>2. \A c \in Range(rest) : c \in Orders
    BY <1>5, <1>9
  <2> QED  BY <1>1, <1>2, <1>3, <1>4, <1>5, <1>7, <1>8, <1>9, <2>1, <2>2 DEF Typed
<1>11. Connected'
  <2>1. ASSUME server.up PROVE Informs(Mind(server, hall), r, rest, h)
    <3>1. Informs(Mind(server, hall), rx, tx, game)
      BY <2>1 DEF Knows, Connected
    <3>2. Leads(game, h, l, Answers(tx), Answers(rest)) /\ r = Append(rx, l)
      BY <1>1, <1>2, <1>4, <2>1
    <3>3. PICK b : b = Mind(server, hall)
      OBVIOUS
    <3> QED  BY <1>5, <1>8, <1>9, <3>1, <3>2, <3>3, InformsMore
  <2>2. ASSUME ~server.up PROVE server = Disconnected /\ r = <<>> /\ rest = <<>> /\ hall = {} /\ Unseen(h)
    <3>1. server = Disconnected /\ rx = <<>> /\ tx = <<>> /\ hall = {} /\ Unseen(game)
      BY <2>2 DEF Knows, Connected
    <3>2. Len(tx) = 0
      BY <3>1, EmptyQueue
    <3>3. rest = <<>>
      BY <1>2, <1>6, <1>9, <3>2, QueueShape
    <3> QED  BY <1>4, <1>8, <2>2, <3>1, <3>3
  <2>3. server' = server
    BY <1>4 DEF server
  <2> QED  BY <1>1, <1>2, <1>3, <1>4, <2>1, <2>2, <2>3 DEF Connected
<1>12. Timed'
  BY <1>4 DEF Knows, Timed
<1>13. Innocent'
  <2>1. Spared(rx, tx, game.votes)
    BY DEF Knows, Innocent
  <2>2. Spared(r, rest, h.votes)
    BY <1>7, <1>8, <1>9, <2>1, SparedStill
  <2> QED  BY <1>1, <1>2, <1>3, <2>2 DEF Innocent
<1> QED  BY <1>10, <1>11, <1>12, <1>13 DEF Knows

\* Nothing is written, and a command is read that has nothing to do with what is there.
LEMMA GameIgnores ==
  ASSUME Knows, UNCHANGED <<topic, game, rx, bot, hall, pages, connects>>,
         Queue(tx'), Len(tx') <= Len(tx), Answers(tx') = Answers(tx), Drops(tx, tx', game.votes)
  PROVE  Knows'
<1>2. PICK rest : rest = tx'
  OBVIOUS
<1>4. /\ topic' = topic /\ bot' = bot /\ hall' = hall /\ pages' = pages /\ connects' = connects
      /\ rx' = rx /\ game' = game /\ server' = server
  BY DEF server
<1>5. Typed /\ Queue(tx) /\ Len(tx) <= MaxSent /\ \A c \in Range(tx) : c \in Orders
  BY DEF Knows, Typed
<1>6. MaxSent \in Nat /\ Len(tx) \in Nat /\ Len(rest) \in Nat
  BY <1>2, <1>5, QueueShape, GameAssumption
<1>9. Queue(rest) /\ Len(rest) <= MaxSent /\ Drops(tx, rest, game.votes) /\ \A c \in Range(rest) : c \in Range(tx)
  BY <1>2, <1>5, <1>6 DEF Drops
<1>10. Typed'
  <2>2. \A c \in Range(rest) : c \in Orders
    BY <1>5, <1>9
  <2> QED  BY <1>2, <1>4, <1>5, <1>9, <2>2 DEF Typed
<1>11. Connected'
  <2>1. ASSUME server.up PROVE Informs(Mind(server, hall), rx, rest, game)
    <3>1. Informs(Mind(server, hall), rx, tx, game)
      BY <2>1 DEF Knows, Connected
    <3>3. PICK b : b = Mind(server, hall)
      OBVIOUS
    <3>4. Answers(rest) = Answers(tx)
      BY <1>2
    <3> QED  BY <1>9, <3>1, <3>3, <3>4, InformsStill
  <2>2. ASSUME ~server.up PROVE server = Disconnected /\ rx = <<>> /\ rest = <<>> /\ hall = {} /\ Unseen(game)
    <3>1. server = Disconnected /\ rx = <<>> /\ tx = <<>> /\ hall = {} /\ Unseen(game)
      BY <2>2 DEF Knows, Connected
    <3>2. Len(tx) = 0
      BY <3>1, EmptyQueue
    <3>3. rest = <<>>
      BY <1>2, <1>6, <1>9, <3>2, QueueShape
    <3> QED  BY <3>1, <3>3
  <2> QED  BY <1>2, <1>4, <2>1, <2>2 DEF Connected
<1>12. Timed'
  BY <1>4 DEF Knows, Timed
<1>13. Innocent'
  <2>1. Spared(rx, tx, game.votes) /\ VotesKept(game.votes, game.votes)
    BY DEF Knows, Innocent, VotesKept
  <2>2. Spared(rx, rest, game.votes)
    BY <1>9, <2>1, SparedStill
  <2> QED  BY <1>2, <1>4, <2>2 DEF Innocent
<1> QED  BY <1>10, <1>11, <1>12, <1>13 DEF Knows

----------------------------------------------------------------------------
(***************************************************************************)
(* Steps of the game                                                       *)
(***************************************************************************)
LEMMA GameSays ==
  ASSUME Knows, NEW l, Writes(l), UNCHANGED tx, l.kind # "votecalled", Goes(game, game', MaxDeeds[topic], server.up),
         \A answered \in BOOLEAN : Leads(game, game', l, answered, answered)
  PROVE  Knows'
<1>1. Queue(tx) /\ Len(tx) \in Nat
  BY QueueShape DEF Knows, Typed
<1>2. Answers(tx) \in BOOLEAN
  BY DEF Answers
<1>3. tx' = tx
  OBVIOUS
<1>4. Drops(tx, tx', game'.votes)
  BY <1>3 DEF Drops
<1>5. Queue(tx') /\ Len(tx') <= Len(tx)
  BY <1>1, <1>3
<1>6. Leads(game, game', l, Answers(tx), Answers(tx'))
  BY <1>2, <1>3
<1> QED  BY <1>4, <1>5, <1>6, GameWrites

\* The fields of the game, before and after.
LEMMA GameNow ==
  ASSUME Knows
  PROVE  /\ IsGame(game, MaxDeeds[topic]) /\ Playing(game) /\ Crowd(game.players) /\ MaxDeeds[topic] \in Nat
         /\ game = [match |-> game.match, phase |-> game.phase, deeds |-> game.deeds, players |-> game.players,
                    votes |-> game.votes]
         /\ game.votes \in [VoteTeams -> VoteInfos] /\ server.up \in BOOLEAN
<1>1. IsGame(game, MaxDeeds[topic]) /\ topic \in Topics /\ IsBot(bot)
  BY DEF Knows, Typed
<1>2. MaxDeeds[topic] \in Nat
  BY <1>1, GameAssumption
<1>3. server.up \in BOOLEAN
  BY <1>1 DEF IsBot, IsServer, server
<1> QED  BY <1>1, <1>2, <1>3, GamePlays DEF IsGame

\* Other players, and what else may have changed, and the same votes.
LEMMA GoesWith ==
  ASSUME NEW g, NEW most \in Nat, IsGame(g, most), NEW gp, Crowd(gp), NEW phase \in Phases, NEW deeds \in 0 .. most, NEW up,
         NEW h, h = [match |-> g.match, phase |-> phase, deeds |-> deeds, players |-> gp, votes |-> g.votes],
         ~up /\ (\A p \in DOMAIN g.players : ~g.players[p].seen /\ ~g.players[p].whole) =>
           \A p \in DOMAIN gp : ~gp[p].seen /\ ~gp[p].whole
  PROVE  Goes(g, h, most, up) /\ Playing(h)
<1>1. IsGame(h, most)
  BY DEF IsGame
<1>2. VotesKept(g.votes, h.votes)
  BY DEF VotesKept
<1>3. ~up /\ Unseen(g) => Unseen(h)
  BY DEF Unseen
<1> QED  BY <1>1, <1>2, <1>3, GamePlays DEF Goes

LEMMA JoinKnows ==
  ASSUME Knows, NEW c \in Clients, NEW team \in Teams, NEW steam, Join(c, team, steam)
  PROVE  Knows'
<1>1. PICK g : g = game
  OBVIOUS
<1>2. PICK h : h = game'
  OBVIOUS
<1>3. PICK gp : gp = g.players
  OBVIOUS
<1>4. PICK up : up = server.up
  OBVIOUS
<1>5. PICK most : most = MaxDeeds[topic]
  OBVIOUS
<1>6. /\ IsGame(g, most) /\ Playing(g) /\ Crowd(gp) /\ most \in Nat /\ up \in BOOLEAN
      /\ g = [match |-> g.match, phase |-> g.phase, deeds |-> g.deeds, players |-> gp, votes |-> g.votes]
  BY <1>1, <1>3, <1>4, <1>5, GameNow
<1> DEFINE new == [team |-> team, character |-> "none", stats |-> Zero, won |-> 0, lost |-> 0, seen |-> up,
                   whole |-> up]
           hp == [p \in DOMAIN gp \cup {c} |-> IF p # c THEN gp[p] ELSE new]
           l == [kind |-> "enter", by |-> Token(c, team), on |-> Nobody, steam |-> steam]
<1>7. h = [match |-> g.match, phase |-> g.phase, deeds |-> g.deeds, players |-> hp, votes |-> g.votes]
  BY <1>1, <1>2, <1>3, <1>4, <1>6 DEF Join, Present
<1>8. c \notin DOMAIN gp /\ g.phase # "travelling" /\ Writes(l) /\ tx' = tx
  BY <1>1, <1>3 DEF Join, Present
<1>9. new \in Gamers
  <2>1. Zero \in Counters
    BY DEF Zero, Counters
  <2> QED  BY <1>6, <2>1 DEF Gamers
<1>10. new.team = team /\ new.character = "none" /\ new.stats = Zero /\ new.won = 0 /\ new.lost = 0
       /\ new.seen = up /\ new.whole = up
  OBVIOUS
<1> HIDE DEF new
<1>11. DOMAIN hp = DOMAIN gp \cup {c} /\ hp[c] = new /\ \A p \in DOMAIN gp : hp[p] = gp[p]
  BY <1>8
<1>12. Crowd(hp)
  <2>1. \A p \in DOMAIN hp : hp[p] \in Gamers
    BY <1>6, <1>9, <1>11 DEF Crowd
  <2>2. hp = [p \in DOMAIN hp |-> hp[p]]
    OBVIOUS
  <2>3. DOMAIN hp \subseteq Clients
    BY <1>6, <1>11 DEF Crowd
  <2> HIDE DEF hp
  <2> QED  BY <2>1, <2>2, <2>3 DEF Crowd
<1> HIDE DEF hp
<1>13. Goes(g, h, most, up) /\ Playing(h)
  <2>1. g.phase \in Phases /\ g.deeds \in 0 .. most
    BY <1>6 DEF IsGame
  <2>2. ~up /\ (\A p \in DOMAIN g.players : ~g.players[p].seen /\ ~g.players[p].whole) =>
          \A p \in DOMAIN hp : ~hp[p].seen /\ ~hp[p].whole
    BY <1>3, <1>10, <1>11
  <2> QED  BY <1>6, <1>7, <1>12, <2>1, <2>2, GoesWith
<1>14. \A answered \in BOOLEAN : Leads(g, h, l, answered, answered)
  <2> TAKE answered \in BOOLEAN
  <2> SUFFICES ASSUME NEW e, Kept(e), End(e, g, answered)
               PROVE  Due(e, l, Reading(e, l)) /\ End(Reading(e, l), h, answered)
    BY DEF Leads
  <2>1. l.by = Token(c, team) /\ l.kind = "enter"
    OBVIOUS
  <2>2. PICK line : line = l
    OBVIOUS
  <2>3. PICK f : f = Reading(e, line)
    OBVIOUS
  <2>4. h.phase = g.phase /\ h.players = hp
    BY <1>7
  <2>5. Due(e, line, f) /\ End(f, h, answered)
    BY <1>3, <1>6, <1>8, <1>10, <1>11, <1>13, <2>1, <2>2, <2>3, <2>4, EnterDue
  <2> QED  BY <2>2, <2>3, <2>5
<1>15. l.kind # "votecalled"
  OBVIOUS
<1> HIDE DEF l
<1> QED  BY <1>1, <1>2, <1>4, <1>5, <1>8, <1>13, <1>14, <1>15, GameSays

LEMMA LeaveKnows ==
  ASSUME Knows, NEW c, Leave(c)
  PROVE  Knows'
<1>1. PICK g : g = game
  OBVIOUS
<1>2. PICK h : h = game'
  OBVIOUS
<1>3. PICK gp : gp = g.players
  OBVIOUS
<1>4. PICK up : up = server.up
  OBVIOUS
<1>5. PICK most : most = MaxDeeds[topic]
  OBVIOUS
<1>6. /\ IsGame(g, most) /\ Playing(g) /\ Crowd(gp) /\ most \in Nat /\ up \in BOOLEAN
      /\ g = [match |-> g.match, phase |-> g.phase, deeds |-> g.deeds, players |-> gp, votes |-> g.votes]
  BY <1>1, <1>3, <1>4, <1>5, GameNow
<1> DEFINE hp == [p \in DOMAIN gp \ {c} |-> gp[p]]
           l == [kind |-> "exit", by |-> Tok(c), on |-> Nobody]
<1>7. h = [match |-> g.match, phase |-> g.phase, deeds |-> g.deeds, players |-> hp, votes |-> g.votes]
  BY <1>1, <1>2, <1>3, <1>6 DEF Leave, Present
<1>8. c \in DOMAIN gp /\ Writes(l) /\ tx' = tx
  BY <1>1, <1>3 DEF Leave, Present
<1>11. DOMAIN hp = DOMAIN gp \ {c} /\ \A p \in DOMAIN hp : hp[p] = gp[p]
  OBVIOUS
<1>12. Crowd(hp)
  BY <1>6 DEF Crowd
<1> HIDE DEF hp
<1>13. Goes(g, h, most, up) /\ Playing(h)
  <2>1. g.phase \in Phases /\ g.deeds \in 0 .. most
    BY <1>6 DEF IsGame
  <2>2. ~up /\ (\A p \in DOMAIN g.players : ~g.players[p].seen /\ ~g.players[p].whole) =>
          \A p \in DOMAIN hp : ~hp[p].seen /\ ~hp[p].whole
    BY <1>3, <1>11
  <2> QED  BY <1>6, <1>7, <1>12, <2>1, <2>2, GoesWith
<1>14. \A answered \in BOOLEAN : Leads(g, h, l, answered, answered)
  <2> TAKE answered \in BOOLEAN
  <2> SUFFICES ASSUME NEW e, Kept(e), End(e, g, answered)
               PROVE  Due(e, l, Reading(e, l)) /\ End(Reading(e, l), h, answered)
    BY DEF Leads
  <2>1. l.by.who = c /\ l.kind = "exit"
    BY DEF Tok, Token
  <2>2. PICK line : line = l
    OBVIOUS
  <2>3. PICK f : f = Reading(e, line)
    OBVIOUS
  <2>4. h.phase = g.phase /\ h.players = hp
    BY <1>7
  <2>5. Due(e, line, f) /\ End(f, h, answered)
    BY <1>3, <1>6, <1>8, <1>11, <1>13, <2>1, <2>2, <2>3, <2>4, ExitDue
  <2> QED  BY <2>2, <2>3, <2>5
<1>15. l.kind # "votecalled"
  OBVIOUS
<1> HIDE DEF l
<1> QED  BY <1>1, <1>2, <1>4, <1>5, <1>8, <1>13, <1>14, <1>15, GameSays

LEMMA ChangeTeamKnows ==
  ASSUME Knows, NEW c, ChangeTeam(c)
  PROVE  Knows'
<1>1. PICK g : g = game
  OBVIOUS
<1>2. PICK h : h = game'
  OBVIOUS
<1>3. PICK gp : gp = g.players
  OBVIOUS
<1>4. PICK up : up = server.up
  OBVIOUS
<1>5. PICK most : most = MaxDeeds[topic]
  OBVIOUS
<1>6. /\ IsGame(g, most) /\ Playing(g) /\ Crowd(gp) /\ most \in Nat /\ up \in BOOLEAN
      /\ g = [match |-> g.match, phase |-> g.phase, deeds |-> g.deeds, players |-> gp, votes |-> g.votes]
  BY <1>1, <1>3, <1>4, <1>5, GameNow
<1>7a. PICK team : team = CHOOSE t \in Teams : t # gp[c].team
  OBVIOUS
<1>7b. team \in Teams
  <2>1. \E t \in Teams : t # gp[c].team
    BY DEF Teams
  <2> QED  BY <1>7a, <2>1
<1> DEFINE hp == [p \in DOMAIN gp |-> IF p # c THEN gp[p] ELSE Turned(gp[c], team)]
           l == [kind |-> "teamjoin", by |-> Token(c, team), on |-> Nobody]
<1>7. h = [match |-> g.match, phase |-> g.phase, deeds |-> g.deeds + 1, players |-> hp, votes |-> g.votes]
  <2>1. c \in DOMAIN gp /\ gp = [p \in DOMAIN gp |-> gp[p]]
    BY <1>1, <1>3, <1>6 DEF ChangeTeam, Present, Crowd
  <2>2. h = [g EXCEPT !.deeds = @ + 1, !.players[c].team = team, !.players[c].character = "dead"]
    BY <1>1, <1>2, <1>3, <1>7a DEF ChangeTeam
  <2>3. gp[c] \in Gamers
    BY <1>6, <2>1 DEF Crowd
  <2>4. h = [g EXCEPT !.deeds = @ + 1, !.players = [[gp EXCEPT ![c].team = team] EXCEPT ![c].character = "dead"]]
    BY <1>3, <1>6, <2>2
  <2>5. [[gp EXCEPT ![c].team = team] EXCEPT ![c].character = "dead"] = hp
    <3>1. PICK a : a = [gp[c] EXCEPT !.team = team]
      OBVIOUS
    <3>2. [gp EXCEPT ![c].team = team] = [p \in DOMAIN gp |-> IF p # c THEN gp[p] ELSE a]
      BY <2>1, <3>1
    <3>3. [a EXCEPT !.character = "dead"] = Turned(gp[c], team)
      BY <2>3, <3>1 DEF Turned, Gamers
    <3>4. PICK mid : mid = [p \in DOMAIN gp |-> IF p # c THEN gp[p] ELSE a]
      OBVIOUS
    <3>5. [mid EXCEPT ![c].character = "dead"] = hp
      BY <2>1, <3>3, <3>4
    <3> QED  BY <3>2, <3>4, <3>5
  <2> HIDE DEF hp
  <2> QED  BY <1>6, <2>4, <2>5
<1>8. c \in DOMAIN gp /\ Writes(l) /\ tx' = tx /\ g.deeds < most
  BY <1>1, <1>3, <1>5, <1>7a DEF ChangeTeam, Present
<1>11. DOMAIN hp = DOMAIN gp /\ hp[c] = Turned(gp[c], team) /\ \A p \in DOMAIN gp : p # c => hp[p] = gp[p]
  BY <1>8
<1>12a. gp[c] \in Gamers
  BY <1>6, <1>8 DEF Crowd
<1>12b. Turned(gp[c], team) \in Gamers /\ Turned(gp[c], team).seen = gp[c].seen
        /\ Turned(gp[c], team).whole = gp[c].whole
  BY <1>7b, <1>12a DEF Turned, Gamers
<1>12. Crowd(hp)
  <2>1. \A p \in DOMAIN hp : hp[p] \in Gamers
    BY <1>6, <1>12b, <1>11 DEF Crowd
  <2>2. hp = [p \in DOMAIN hp |-> hp[p]]
    OBVIOUS
  <2>3. DOMAIN hp \subseteq Clients
    BY <1>6, <1>11 DEF Crowd
  <2> HIDE DEF hp
  <2> QED  BY <2>1, <2>2, <2>3 DEF Crowd
<1> HIDE DEF hp
<1>13. Goes(g, h, most, up) /\ Playing(h)
  <2>1. g.phase \in Phases /\ g.deeds + 1 \in 0 .. most
    BY <1>6, <1>8 DEF IsGame
  <2>2. ~up /\ (\A p \in DOMAIN g.players : ~g.players[p].seen /\ ~g.players[p].whole) =>
          \A p \in DOMAIN hp : ~hp[p].seen /\ ~hp[p].whole
    BY <1>3, <1>8, <1>11, <1>12b
  <2> QED  BY <1>6, <1>7, <1>12, <2>1, <2>2, GoesWith
<1>14. \A answered \in BOOLEAN : Leads(g, h, l, answered, answered)
  <2> TAKE answered \in BOOLEAN
  <2> SUFFICES ASSUME NEW e, Kept(e), End(e, g, answered)
               PROVE  Due(e, l, Reading(e, l)) /\ End(Reading(e, l), h, answered)
    BY DEF Leads
  <2>1. l.by = Token(c, team) /\ l.kind = "teamjoin"
    OBVIOUS
  <2>2. PICK line : line = l
    OBVIOUS
  <2>3. PICK f : f = Reading(e, line)
    OBVIOUS
  <2>4. h.phase = g.phase /\ h.players = hp
    BY <1>7
  <2>5. Due(e, line, f) /\ End(f, h, answered)
    BY <1>3, <1>6, <1>7b, <1>8, <1>11, <1>13, <2>1, <2>2, <2>3, <2>4, TeamJoinDue
  <2> QED  BY <2>2, <2>3, <2>5
<1>15. l.kind # "votecalled"
  OBVIOUS
<1> HIDE DEF l
<1> QED  BY <1>1, <1>2, <1>4, <1>5, <1>8, <1>13, <1>14, <1>15, GameSays

\* What players of the sides T may do, and what may be said of them.
Fair(l, T) == DeedLine(l, T) /\ LineType(l) /\ l.kind # "votecalled"

LEMMA LineFields ==
  ASSUME NEW kind, NEW by, NEW on, NEW what, NEW l, l = Line(kind, by, on, what)
  PROVE  l.kind = kind /\ l.by = by /\ l.on = on /\ l.what = what
BY DEF Line

LEMMA DeathFair ==
  ASSUME NEW T, NEW by, Party(by, T), NEW on, Names(on, T), NEW how \in Victims,
         how \notin {"kill", "headshot"} => by = Nobody, NEW l, l = Line("death", by, on, how)
  PROVE  Fair(l, T)
<1>1. l.kind = "death" /\ l.by = by /\ l.on = on /\ l.what = how
  BY LineFields
<1>2. Party(l.on, T)
  BY <1>1 DEF Party
<1>3. DeedLine(l, T)
  BY <1>1, <1>2 DEF DeedLine, Killing
<1> QED  BY <1>1, <1>3 DEF Fair, LineType, Sensible, Kinds

LEMMA PlaysFair ==
  ASSUME NEW T, NEW by, Names(by, T), NEW how, NEW c \in Characters, NEW l, l = LineAs(by, how, c)
  PROVE  Fair(l, T)
<1>1. l.kind = "plays" /\ l.by = by /\ l.on = Nobody /\ l.as = c
  BY DEF LineAs
<1>2. Party(l.on, T) /\ Party(l.by, T)
  BY <1>1 DEF Party
<1>3. DeedLine(l, T)
  BY <1>1, <1>2 DEF DeedLine
<1> QED  BY <1>1, <1>3 DEF Fair, LineType, Sensible, Kinds

LEMMA ObjectFair ==
  ASSUME NEW T, NEW by, Party(by, T), NEW on, Party(on, T), NEW kind, NEW what,
         \/ kind \in {"deployed", "disarmed"}
         \/ kind = "captured" /\ what = "building"
         \/ kind = "stolen" /\ what = "vehicle"
         \/ kind = "destroyed" /\ what \in {"vehicle", "building", "defence"},
         NEW l, l = Line(kind, by, on, what)
  PROVE  Fair(l, T)
<1>1. l.kind = kind /\ l.by = by /\ l.on = on /\ l.what = what
  BY LineFields
<1>3. DeedLine(l, T)
  BY <1>1 DEF DeedLine
<1> QED  BY <1>1, <1>3 DEF Fair, LineType, Sensible, Kinds

LEMMA PlainFair ==
  ASSUME NEW T, NEW by, Party(by, T), NEW on, Party(on, T), NEW kind \in PlainKinds, kind # "votecalled",
         NEW what, kind = "purchase" => what \in {"item", "weapon", "refill", "vehicle"},
         NEW l, l = Line(kind, by, on, what)
  PROVE  Fair(l, T)
<1>1. l.kind = kind /\ l.by = by /\ l.on = on /\ l.what = what
  BY LineFields
<1>3. DeedLine(l, T)
  BY <1>1 DEF DeedLine
<1> QED  BY <1>1, <1>3 DEF Fair, LineType, Sensible, Kinds, PlainKinds

LEMMA Parties ==
  ASSUME NEW T, T = SidesOf(game.players)
  PROVE  /\ Party(AI, T) /\ Party(Nobody, T)
         /\ \A p \in Present : Names(Tok(p), T) /\ Party(Tok(p), T)
         /\ \A t \in Toks : Names(t, T) /\ Party(t, T)
<1>1. \A p \in Present : Names(Tok(p), T)
  BY DEF Present, Tok, Token, Names, SidesOf
<1>2. \A t \in Toks : Names(t, T)
  BY <1>1 DEF Toks
<1> QED  BY <1>1, <1>2 DEF Party

LEMMA DeathsFair ==
  ASSUME NEW T, T = SidesOf(game.players), topic = "deaths", NEW l \in Deeds
  PROVE  Fair(l, T)
<1>1. /\ Party(AI, T) /\ Party(Nobody, T)
      /\ \A p \in Present : Names(Tok(p), T) /\ Party(Tok(p), T)
      /\ \A t \in Toks : Names(t, T) /\ Party(t, T)
  BY Parties
<1>2. l \in {Line("death", by, Tok(v), how) : by \in {AI} \cup Toks, v \in Living, how \in {"kill", "headshot"}}
         \cup {Line("death", Nobody, Tok(v), how) : v \in Living, how \in {"die", "suicide"}}
         \cup {LineAs(Tok(p), "spawn", c) : p \in Present \ Living, c \in Characters}
  BY DEF Deeds
<1>3. \A v \in Living : v \in Present
  BY DEF Living
<1>4. CASE l \in {Line("death", by, Tok(v), how) : by \in {AI} \cup Toks, v \in Living, how \in {"kill", "headshot"}}
  <2>1. PICK by \in {AI} \cup Toks, v \in Living, how \in {"kill", "headshot"} : l = Line("death", by, Tok(v), how)
    BY <1>4
  <2>2. Party(by, T) /\ Names(Tok(v), T) /\ how \in Victims
    BY <1>1, <1>3 DEF Victims
  <2> QED  BY <2>1, <2>2, DeathFair
<1>5. CASE l \in {Line("death", Nobody, Tok(v), how) : v \in Living, how \in {"die", "suicide"}}
  <2>1. PICK v \in Living, how \in {"die", "suicide"} : l = Line("death", Nobody, Tok(v), how)
    BY <1>5
  <2>2. Names(Tok(v), T) /\ how \in Victims
    BY <1>1, <1>3 DEF Victims
  <2> QED  BY <1>1, <2>1, <2>2, DeathFair
<1>6. CASE l \in {LineAs(Tok(p), "spawn", c) : p \in Present \ Living, c \in Characters}
  <2>1. PICK p \in Present \ Living, c \in Characters : l = LineAs(Tok(p), "spawn", c)
    BY <1>6
  <2> QED  BY <1>1, <2>1, PlaysFair
<1> QED  BY <1>2, <1>4, <1>5, <1>6

LEMMA ShopFair ==
  ASSUME NEW T, T = SidesOf(game.players), topic = "shop", NEW l \in Deeds
  PROVE  Fair(l, T)
<1>1. /\ Party(AI, T) /\ Party(Nobody, T)
      /\ \A p \in Present : Names(Tok(p), T) /\ Party(Tok(p), T)
      /\ \A t \in Toks : Names(t, T) /\ Party(t, T)
  BY Parties
<1> DEFINE Wares == {"item", "weapon", "refill", "vehicle"}
           Crated == {"vehicle", "tsvehicle", "death", "money", "refill", "timebomb", "speed", "nuke",
                      "abduction", "unspecified", "other"}
<1>2. \/ l \in {LineAs(Tok(p), how, c) : p \in Present, c \in Characters, how \in {"spawn", "purchase", "crate", "spy"}}
      \/ l \in {Line("purchase", t, Nobody, w) : t \in Toks, w \in Wares}
      \/ l = Line("spawn", Nobody, Nobody, "vehicle")
      \/ l \in {Line("spawn", t, Nobody, "bot") : t \in Toks}
      \/ l \in {Line("crate", t, Nobody, w) : t \in Toks, w \in Crated}
      \/ l \in {Line("donated", t, u, Empty) : t \in Toks, u \in Toks}
      \/ l \in {Line("overmine", t, Nobody, Empty) : t \in Toks}
  BY DEF Deeds
<1>3. CASE l \in {LineAs(Tok(p), how, c) : p \in Present, c \in Characters, how \in {"spawn", "purchase", "crate", "spy"}}
  <2>1. PICK p \in Present, c \in Characters, how \in {"spawn", "purchase", "crate", "spy"} : l = LineAs(Tok(p), how, c)
    BY <1>3
  <2> QED  BY <1>1, <2>1, PlaysFair
<1>4. CASE l \in {Line("purchase", t, Nobody, w) : t \in Toks, w \in Wares}
  <2>1. PICK t \in Toks, w \in Wares : l = Line("purchase", t, Nobody, w)
    BY <1>4
  <2>2. "purchase" \in PlainKinds
    BY DEF PlainKinds
  <2> QED  BY <1>1, <2>1, <2>2, PlainFair
<1>5. CASE l = Line("spawn", Nobody, Nobody, "vehicle")
  <2>2. "spawn" \in PlainKinds
    BY DEF PlainKinds
  <2> QED  BY <1>1, <1>5, <2>2, PlainFair
<1>6. CASE l \in {Line("spawn", t, Nobody, "bot") : t \in Toks}
  <2>1. PICK t \in Toks : l = Line("spawn", t, Nobody, "bot")
    BY <1>6
  <2>2. "spawn" \in PlainKinds
    BY DEF PlainKinds
  <2> QED  BY <1>1, <2>1, <2>2, PlainFair
<1>7. CASE l \in {Line("crate", t, Nobody, w) : t \in Toks, w \in Crated}
  <2>1. PICK t \in Toks, w \in Crated : l = Line("crate", t, Nobody, w)
    BY <1>7
  <2>2. "crate" \in PlainKinds
    BY DEF PlainKinds
  <2> QED  BY <1>1, <2>1, <2>2, PlainFair
<1>8. CASE l \in {Line("donated", t, u, Empty) : t \in Toks, u \in Toks}
  <2>1. PICK t \in Toks, u \in Toks : l = Line("donated", t, u, Empty)
    BY <1>8
  <2>2. "donated" \in PlainKinds
    BY DEF PlainKinds
  <2> QED  BY <1>1, <2>1, <2>2, PlainFair
<1>9. CASE l \in {Line("overmine", t, Nobody, Empty) : t \in Toks}
  <2>1. PICK t \in Toks : l = Line("overmine", t, Nobody, Empty)
    BY <1>9
  <2>2. "overmine" \in PlainKinds
    BY DEF PlainKinds
  <2> QED  BY <1>1, <2>1, <2>2, PlainFair
<1> QED  BY <1>2, <1>3, <1>4, <1>5, <1>6, <1>7, <1>8, <1>9

LEMMA ObjectsFair ==
  ASSUME NEW T, T = SidesOf(game.players), topic = "objects", NEW l \in Deeds
  PROVE  Fair(l, T)
<1>1. /\ Party(AI, T) /\ Party(Nobody, T)
      /\ \A p \in Present : Names(Tok(p), T) /\ Party(Tok(p), T)
      /\ \A t \in Toks : Names(t, T) /\ Party(t, T)
  BY Parties
<1> DEFINE Two == {pq \in Present \X Present : pq[1] # pq[2]}
           Both == {<<"stolen", "vehicle">>, <<"disarmed", "beacon">>}
<1>2. \/ l \in {Line("destroyed", t, Nobody, w) : t \in Toks \cup {AI}, w \in {"vehicle", "building", "defence"}}
      \/ l \in {Line("deployed", t, Nobody, w) : t \in Toks, w \in {"beacon", "proxy", "mine"}}
      \/ l \in {Line("disarmed", t, Nobody, w) : t \in Toks, w \in {"beacon", "proxy"}}
      \/ l \in {Line("exploded", t, Nobody, Empty) : t \in Toks \cup {AI, Nobody}}
      \/ l \in {Line(k, t, Nobody, "building") : k \in {"captured", "neutralized"}, t \in Toks}
      \/ l \in {Line("stolen", t, Nobody, "vehicle") : t \in Toks}
      \/ l \in {Line(k[1], Tok(pq[1]), Tok(pq[2]), k[2]) : k \in Both, pq \in Two}
  BY DEF Deeds
<1>3. CASE l \in {Line("destroyed", t, Nobody, w) : t \in Toks \cup {AI}, w \in {"vehicle", "building", "defence"}}
  <2>1. PICK t \in Toks \cup {AI}, w \in {"vehicle", "building", "defence"} : l = Line("destroyed", t, Nobody, w)
    BY <1>3
  <2>2. Party(t, T)
    BY <1>1
  <2> QED  BY <1>1, <2>1, <2>2, ObjectFair
<1>4. CASE l \in {Line("deployed", t, Nobody, w) : t \in Toks, w \in {"beacon", "proxy", "mine"}}
  <2>1. PICK t \in Toks, w \in {"beacon", "proxy", "mine"} : l = Line("deployed", t, Nobody, w)
    BY <1>4
  <2> QED  BY <1>1, <2>1, ObjectFair
<1>5. CASE l \in {Line("disarmed", t, Nobody, w) : t \in Toks, w \in {"beacon", "proxy"}}
  <2>1. PICK t \in Toks, w \in {"beacon", "proxy"} : l = Line("disarmed", t, Nobody, w)
    BY <1>5
  <2> QED  BY <1>1, <2>1, ObjectFair
<1>6. CASE l \in {Line("exploded", t, Nobody, Empty) : t \in Toks \cup {AI, Nobody}}
  <2>1. PICK t \in Toks \cup {AI, Nobody} : l = Line("exploded", t, Nobody, Empty)
    BY <1>6
  <2>2. Party(t, T) /\ "exploded" \in PlainKinds
    BY <1>1 DEF PlainKinds
  <2> QED  BY <1>1, <2>1, <2>2, PlainFair
<1>7. CASE l \in {Line(k, t, Nobody, "building") : k \in {"captured", "neutralized"}, t \in Toks}
  <2>1. PICK k \in {"captured", "neutralized"}, t \in Toks : l = Line(k, t, Nobody, "building")
    BY <1>7
  <2>2. CASE k = "captured"
    BY <1>1, <2>1, <2>2, ObjectFair
  <2>3. CASE k = "neutralized"
    <3>1. k \in PlainKinds
      BY <2>3 DEF PlainKinds
    <3> QED  BY <1>1, <2>1, <2>3, <3>1, PlainFair
  <2> QED  BY <2>2, <2>3
<1>8. CASE l \in {Line("stolen", t, Nobody, "vehicle") : t \in Toks}
  <2>1. PICK t \in Toks : l = Line("stolen", t, Nobody, "vehicle")
    BY <1>8
  <2> QED  BY <1>1, <2>1, ObjectFair
<1>9. CASE l \in {Line(k[1], Tok(pq[1]), Tok(pq[2]), k[2]) : k \in Both, pq \in Two}
  <2>1. PICK k \in Both, pq \in Two : l = Line(k[1], Tok(pq[1]), Tok(pq[2]), k[2])
    BY <1>9
  <2>2. PICK p \in Present, q \in Present : pq[1] = p /\ pq[2] = q
    <3>1. pq[1] \in Present /\ pq[2] \in Present
      OBVIOUS
    <3> QED  BY <3>1
  <2>3. PICK kind, what : k[1] = kind /\ k[2] = what
    OBVIOUS
  <2>4. \/ kind = "stolen" /\ what = "vehicle"
        \/ kind = "disarmed" /\ what = "beacon"
    BY <2>3
  <2>5. PICK by, on : by = Tok(p) /\ on = Tok(q)
    OBVIOUS
  <2>6. l = Line(kind, by, on, what) /\ Party(by, T) /\ Party(on, T)
    BY <1>1, <2>1, <2>2, <2>3, <2>5
  <2> QED  BY <2>4, <2>6, ObjectFair
<1> QED  BY <1>2, <1>3, <1>4, <1>5, <1>6, <1>7, <1>8, <1>9

LEMMA DeedsFair ==
  ASSUME NEW T, T = SidesOf(game.players), NEW l \in Deeds
  PROVE  Fair(l, T)
<1>1. CASE topic \notin {"deaths", "shop", "objects"}
  <2>1. Deeds = {}
    BY <1>1 DEF Deeds
  <2> QED  BY <2>1
<1> QED  BY <1>1, DeathsFair, ShopFair, ObjectsFair

LEMMA DeedKnows ==
  ASSUME Knows, NEW l \in Deeds, Deed(l)
  PROVE  Knows'
<1>1. PICK g : g = game
  OBVIOUS
<1>2. PICK h : h = game'
  OBVIOUS
<1>3. PICK gp : gp = g.players
  OBVIOUS
<1>4. PICK up : up = server.up
  OBVIOUS
<1>5. PICK most : most = MaxDeeds[topic]
  OBVIOUS
<1>6. /\ IsGame(g, most) /\ Playing(g) /\ Crowd(gp) /\ most \in Nat /\ up \in BOOLEAN
      /\ g = [match |-> g.match, phase |-> g.phase, deeds |-> g.deeds, players |-> gp, votes |-> g.votes]
  BY <1>1, <1>3, <1>4, <1>5, GameNow
<1> DEFINE done(p) == [gp[p] EXCEPT !.stats = [s \in Statistics |-> @[s] + IF Counts(l, p, s) THEN 1 ELSE 0],
                         !.character = IF l.kind = "plays" /\ l.by.who = p THEN l.as
                                       ELSE IF l.kind = "death" /\ l.on.who = p THEN "dead" ELSE @]
           hp == [p \in DOMAIN gp |-> done(p)]
<1>7. h = [match |-> g.match, phase |-> g.phase, deeds |-> g.deeds + 1, players |-> hp, votes |-> g.votes]
  BY <1>1, <1>2, <1>3, <1>6 DEF Deed, Present
<1>8. Writes(l) /\ tx' = tx /\ g.deeds < most
  BY <1>1, <1>5 DEF Deed
<1>9. Fair(l, SidesOf(gp))
  <2>1. PICK T : T = SidesOf(game.players)
    OBVIOUS
  <2> QED  BY <1>1, <1>3, <2>1, DeedsFair
<1>10. ASSUME NEW p \in DOMAIN gp
       PROVE  done(p) \in Gamers /\ DoneBy(gp[p], done(p), l, p)
  <2>1. PICK b : b = gp[p]
    OBVIOUS
  <2>2. b \in Gamers
    BY <1>6, <2>1 DEF Crowd
  <2>3. PICK stats : stats = [s \in Statistics |-> b.stats[s] + Gain(l, p, s)]
    OBVIOUS
  <2>4. PICK role : role = IF l.kind = "plays" /\ l.by.who = p THEN l.as
                           ELSE IF l.kind = "death" /\ l.on.who = p THEN "dead" ELSE b.character
    OBVIOUS
  <2>5. done(p) = [team |-> b.team, character |-> role, stats |-> stats, won |-> b.won, lost |-> b.lost,
                   seen |-> b.seen, whole |-> b.whole]
    <3>1. b = [team |-> b.team, character |-> b.character, stats |-> b.stats, won |-> b.won, lost |-> b.lost,
               seen |-> b.seen, whole |-> b.whole]
      BY <2>2 DEF Gamers
    <3>2. stats = [s \in Statistics |-> b.stats[s] + IF Counts(l, p, s) THEN 1 ELSE 0]
      BY <2>3 DEF Gain
    <3>3. done(p) = [b EXCEPT !.stats = [s \in Statistics |-> @[s] + IF Counts(l, p, s) THEN 1 ELSE 0],
                       !.character = IF l.kind = "plays" /\ l.by.who = p THEN l.as
                                     ELSE IF l.kind = "death" /\ l.on.who = p THEN "dead" ELSE @]
      BY <2>1
    <3> HIDE DEF done
    <3>4. PICK mid : mid = [b EXCEPT !.stats = [s \in Statistics |-> @[s] + IF Counts(l, p, s) THEN 1 ELSE 0]]
      OBVIOUS
    <3>5. mid = [team |-> b.team, character |-> b.character, stats |-> stats, won |-> b.won, lost |-> b.lost,
                 seen |-> b.seen, whole |-> b.whole]
      BY <3>1, <3>2, <3>4
    <3>6. done(p) = [mid EXCEPT !.character = IF l.kind = "plays" /\ l.by.who = p THEN l.as
                                     ELSE IF l.kind = "death" /\ l.on.who = p THEN "dead" ELSE @]
      BY <3>3, <3>4
    <3> QED  BY <2>4, <3>5, <3>6
  <2>6. stats \in Counters
    <3>1. \A s \in Statistics : b.stats[s] \in Nat /\ Gain(l, p, s) \in Nat
      BY <2>2 DEF Gamers, Counters, Gain
    <3> QED  BY <2>3, <3>1 DEF Counters
  <2>7. role \in Characters \cup {"none", "dead"}
    <3>1. l.kind = "plays" => l.as \in Characters
      BY <1>9 DEF Fair, DeedLine, PlainKinds
    <3>2. b.character \in Characters \cup {"none", "dead"}
      BY <2>2 DEF Gamers
    <3> QED  BY <2>4, <3>1, <3>2
  <2> HIDE DEF done
  <2>8. done(p) \in Gamers
    BY <2>2, <2>5, <2>6, <2>7 DEF Gamers
  <2>9. \A s \in Statistics : stats[s] = b.stats[s] + Gain(l, p, s)
    BY <2>3
  <2>10. DoneBy(b, done(p), l, p)
    BY <2>4, <2>5, <2>9 DEF DoneBy
  <2> QED  BY <2>1, <2>8, <2>10
<1> HIDE DEF done
<1>11. DOMAIN hp = DOMAIN gp /\ \A p \in DOMAIN gp : hp[p] \in Gamers /\ DoneBy(gp[p], hp[p], l, p)
  BY <1>10
<1>12. Crowd(hp)
  <2>1. hp = [p \in DOMAIN hp |-> hp[p]]
    OBVIOUS
  <2>2. DOMAIN hp \subseteq Clients
    BY <1>6, <1>11 DEF Crowd
  <2> HIDE DEF hp
  <2> QED  BY <1>11, <2>1, <2>2 DEF Crowd
<1> HIDE DEF hp
<1>13. Goes(g, h, most, up) /\ Playing(h)
  <2>1. g.phase \in Phases /\ g.deeds + 1 \in 0 .. most
    BY <1>6, <1>8 DEF IsGame
  <2>2. ~up /\ (\A p \in DOMAIN g.players : ~g.players[p].seen /\ ~g.players[p].whole) =>
          \A p \in DOMAIN hp : ~hp[p].seen /\ ~hp[p].whole
    BY <1>3, <1>11 DEF DoneBy
  <2> QED  BY <1>6, <1>7, <1>12, <2>1, <2>2, GoesWith
<1>14. \A answered \in BOOLEAN : Leads(g, h, l, answered, answered)
  <2> TAKE answered \in BOOLEAN
  <2> SUFFICES ASSUME NEW e, Kept(e), End(e, g, answered)
               PROVE  Due(e, l, Reading(e, l)) /\ End(Reading(e, l), h, answered)
    BY DEF Leads
  <2>1. LineType(l) /\ DeedLine(l, SidesOf(g.players))
    BY <1>3, <1>9 DEF Fair
  <2>3. PICK f : f = Reading(e, l)
    OBVIOUS
  <2>4. h.phase = g.phase /\ h.players = hp
    BY <1>7
  <2>5. \A p \in DOMAIN g.players : DoneBy(g.players[p], h.players[p], l, p)
    BY <1>3, <1>11, <2>4
  <2>6. DOMAIN h.players = DOMAIN g.players
    BY <1>3, <1>11, <2>4
  <2>7. Due(e, l, f) /\ End(f, h, answered)
    BY <1>6, <1>13, <2>1, <2>3, <2>4, <2>5, <2>6, DeedDue
  <2> QED  BY <2>3, <2>7
<1>15. l.kind # "votecalled"
  BY <1>9 DEF Fair
<1> QED  BY <1>1, <1>2, <1>4, <1>5, <1>8, <1>13, <1>14, <1>15, GameSays

\* Nothing happens to anybody by a line that only says something.
LEMMA GoesNowhere ==
  ASSUME NEW g, NEW most, NEW up, IsGame(g, most)
  PROVE  Goes(g, g, most, up) /\ Playing(g)
<1>1. VotesKept(g.votes, g.votes)
  BY DEF VotesKept
<1> QED  BY <1>1, GamePlays DEF Goes

LEMMA TalkLine ==
  ASSUME NEW T, NEW kind \in {"chat", "player", "report"}, NEW by, Party(by, T), NEW what,
         NEW l, l = Line(kind, by, Nobody, what)
  PROVE  /\ LineType(l) /\ l.kind # "votecalled" /\ (DeedLine(l, T) \/ l.kind = "report")
         /\ l.kind \in PlainKinds \cup {"report"}
<1>3. l.kind = kind
  BY LineFields
<1>4. CASE kind \in {"chat", "player"}
  <2>1. kind \in PlainKinds /\ kind # "votecalled" /\ kind # "purchase"
    BY <1>4 DEF PlainKinds
  <2>2. Party(Nobody, T)
    BY DEF Party
  <2>3. Fair(l, T)
    BY <2>1, <2>2, PlainFair
  <2> QED  BY <1>3, <2>1, <2>3 DEF Fair
<1>5. CASE kind = "report"
  BY <1>3, <1>5 DEF LineType, Sensible, Kinds
<1> QED  BY <1>4, <1>5

LEMMA TalkFair ==
  ASSUME NEW T, T = SidesOf(game.players), NEW l \in Talk
  PROVE  /\ LineType(l) /\ l.kind # "votecalled" /\ (DeedLine(l, T) \/ l.kind = "report")
         /\ l.kind \in PlainKinds \cup {"report"}
<1>1. Party(Nobody, T) /\ \A t \in Toks : Party(t, T)
  BY Parties
<1>2. \/ \E t \in Toks : \E w : l = Line("chat", t, Nobody, w)
      \/ \E w : l = Line("chat", Nobody, Nobody, w)
      \/ \E t \in Toks : \E w : l = Line("player", t, Nobody, w)
      \/ \E w : l = Line("report", Nobody, Nobody, w)
  <2>1. ASSUME NEW W, l \in {Line("chat", t, Nobody, w) : t \in Toks, w \in W}
        PROVE  \E t \in Toks : \E w : l = Line("chat", t, Nobody, w)
    BY <2>1
  <2>2. ASSUME NEW W, l \in {Line("chat", Nobody, Nobody, w) : w \in W}
        PROVE  \E w : l = Line("chat", Nobody, Nobody, w)
    BY <2>2
  <2>3. ASSUME NEW W, l \in {Line("player", t, Nobody, w) : t \in Toks, w \in W}
        PROVE  \E t \in Toks : \E w : l = Line("player", t, Nobody, w)
    BY <2>3
  <2>4. ASSUME NEW W, l \in {Line("report", Nobody, Nobody, w) : w \in W}
        PROVE  \E w : l = Line("report", Nobody, Nobody, w)
    BY <2>4
  <2>5. \/ l \in {Line("chat", t, Nobody, w) : t \in Toks,
                  w \in {"Say", "TeamSay", "Radio", "AdminMsg", "AdminWarn", "PAdminMsg", "PAdminWarn"}}
        \/ l \in {Line("chat", Nobody, Nobody, w) :
                  w \in {"HostSay", "HostPMsg", "HostAdminMsg", "HostAdminWarn", "HostPAdminMsg", "HostPAdminWarn",
                         "other"}}
        \/ l \in {Line("player", t, Nobody, w) : t \in Toks,
                  w \in {"HWID", "Kick", "NameChange", "SpeedHack", "Command", "NoCommand", "Rcon", "Login",
                         "Granted", "Logout", "Record", "other"}}
        \/ l \in {Line("report", Nobody, Nobody, w) :
                  w \in {"executedByAnother", "executedByDevBot", "executedByBot", "Subscribed", "RCON", "ADMIN",
                         "VOTE", "MAP", "DEMO", "Recorded", "RecordStop", "GAME", "log", "c", "e", "other"}}
    BY SMTT(60) DEF Talk
  <2> QED  BY <2>1, <2>2, <2>3, <2>4, <2>5
<1>3. CASE \E t \in Toks : \E w : l = Line("chat", t, Nobody, w)
  <2>1. PICK t \in Toks : \E w : l = Line("chat", t, Nobody, w)
    BY <1>3
  <2>2. PICK w : l = Line("chat", t, Nobody, w)
    BY <2>1
  <2> QED  BY <1>1, <2>2, TalkLine
<1>4. CASE \E w : l = Line("chat", Nobody, Nobody, w)
  <2>2. PICK w : l = Line("chat", Nobody, Nobody, w)
    BY <1>4
  <2> QED  BY <1>1, <2>2, TalkLine
<1>5. CASE \E t \in Toks : \E w : l = Line("player", t, Nobody, w)
  <2>1. PICK t \in Toks : \E w : l = Line("player", t, Nobody, w)
    BY <1>5
  <2>2. PICK w : l = Line("player", t, Nobody, w)
    BY <2>1
  <2> QED  BY <1>1, <2>2, TalkLine
<1>6. CASE \E w : l = Line("report", Nobody, Nobody, w)
  <2>2. PICK w : l = Line("report", Nobody, Nobody, w)
    BY <1>6
  <2> QED  BY <1>1, <2>2, TalkLine
<1> QED  BY <1>2, <1>3, <1>4, <1>5, <1>6

LEMMA SaysKnows ==
  ASSUME Knows, NEW l \in Talk, Says(l)
  PROVE  Knows'
<1>1. PICK g : g = game
  OBVIOUS
<1>2. game' = g /\ Writes(l) /\ tx' = tx
  BY <1>1 DEF Says
<1>4. PICK up : up = server.up
  OBVIOUS
<1>5. PICK most : most = MaxDeeds[topic]
  OBVIOUS
<1>6. IsGame(g, most) /\ Playing(g) /\ Crowd(g.players)
  BY <1>1, <1>5, GameNow
<1>7. Goes(g, g, most, up)
  BY <1>6, GoesNowhere
<1>8. /\ LineType(l) /\ l.kind # "votecalled" /\ (DeedLine(l, SidesOf(g.players)) \/ l.kind = "report")
      /\ l.kind \in PlainKinds \cup {"report"}
  BY <1>1, TalkFair
<1>9. \A answered \in BOOLEAN : Leads(g, g, l, answered, answered)
  <2> TAKE answered \in BOOLEAN
  <2> SUFFICES ASSUME NEW e, Kept(e), End(e, g, answered)
               PROVE  Due(e, l, Reading(e, l)) /\ End(Reading(e, l), g, answered)
    BY DEF Leads
  <2>3. PICK f : f = Reading(e, l)
    OBVIOUS
  <2>4. CASE l.kind = "report"
    <3>1. l.kind \in Markers /\ Phased(g, g, l)
      BY <2>4 DEF Markers, Phased, Marking
    <3> QED  BY <1>6, <1>8, <2>3, <3>1, MarkerDue
  <2>5. CASE l.kind # "report"
    <3>1. DeedLine(l, SidesOf(g.players)) /\ l.kind \in PlainKinds
      BY <1>8, <2>5
    <3>2. \A p \in DOMAIN g.players : DoneBy(g.players[p], g.players[p], l, p)
      BY <1>6, <3>1, NothingDone DEF Crowd
    <3> QED  BY <1>6, <1>8, <2>3, <3>1, <3>2, DeedDue
  <2> QED  BY <2>4, <2>5
<1> QED  BY <1>1, <1>2, <1>4, <1>5, <1>7, <1>8, <1>9, GameSays

LEMMA MarkerLeads ==
  ASSUME NEW g, Playing(g), NEW h, Playing(h), h.players = g.players, NEW l, LineType(l), l.kind \in Markers,
         Phased(g, h, l), NEW answered \in BOOLEAN
  PROVE  Leads(g, h, l, answered, answered)
<1> SUFFICES ASSUME NEW e, Kept(e), End(e, g, answered)
             PROVE  Due(e, l, Reading(e, l)) /\ End(Reading(e, l), h, answered)
  BY DEF Leads
<1>1. PICK f : f = Reading(e, l)
  OBVIOUS
<1> QED  BY <1>1, MarkerDue

\* The match goes from one phase to the next, or a vote ends.
LEMMA PhaseKnows ==
  ASSUME Knows, NEW phase \in Phases, NEW l, LineType(l), l.kind \in Markers, Writes(l), UNCHANGED tx,
         game' = [game EXCEPT !.phase = phase], Phased(game, game', l)
  PROVE  Knows'
<1>1. PICK g : g = game
  OBVIOUS
<1>2. PICK h : h = game'
  OBVIOUS
<1>3. PICK gp : gp = g.players
  OBVIOUS
<1>4. PICK up : up = server.up
  OBVIOUS
<1>5. PICK most : most = MaxDeeds[topic]
  OBVIOUS
<1>6. /\ IsGame(g, most) /\ Playing(g) /\ Crowd(gp) /\ most \in Nat /\ up \in BOOLEAN
      /\ g = [match |-> g.match, phase |-> g.phase, deeds |-> g.deeds, players |-> gp, votes |-> g.votes]
  BY <1>1, <1>3, <1>4, <1>5, GameNow
<1>7. h = [match |-> g.match, phase |-> phase, deeds |-> g.deeds, players |-> gp, votes |-> g.votes]
  BY <1>1, <1>2, <1>6
<1>8. g.deeds \in 0 .. most
  BY <1>6 DEF IsGame
<1>9. ~up /\ (\A p \in DOMAIN g.players : ~g.players[p].seen /\ ~g.players[p].whole) =>
          \A p \in DOMAIN gp : ~gp[p].seen /\ ~gp[p].whole
  BY <1>3
<1>10. Goes(g, h, most, up) /\ Playing(h)
  BY <1>6, <1>7, <1>8, <1>9, GoesWith
<1>11. h.players = g.players /\ Phased(g, h, l)
  BY <1>1, <1>2, <1>3, <1>7
<1>12. \A answered \in BOOLEAN : Leads(g, h, l, answered, answered)
  BY <1>6, <1>10, <1>11, MarkerLeads
<1>13. l.kind # "votecalled"
  BY DEF Markers
<1> QED  BY <1>1, <1>2, <1>4, <1>5, <1>10, <1>12, <1>13, GameSays

LEMMA LoadsKnows ==
  ASSUME Knows, Loads
  PROVE  Knows'
<1> DEFINE l == [kind |-> "loaded"]
<1>1. LineType(l) /\ l.kind \in Markers
  BY DEF LineType, Sensible, Kinds, Markers
<1>2. "pending" \in Phases /\ Writes(l) /\ tx' = tx /\ game' = [game EXCEPT !.phase = "pending"]
  BY DEF Loads, Phases
<1>3. game.phase = "travelling" /\ game'.phase = "pending"
  <2>1. game = [match |-> game.match, phase |-> game.phase, deeds |-> game.deeds, players |-> game.players,
                votes |-> game.votes]
    BY GameNow
  <2> QED  BY <1>2, <2>1 DEF Loads
<1>4. Phased(game, game', l)
  BY <1>3 DEF Phased, Marking
<1> HIDE DEF l
<1> QED  BY <1>1, <1>2, <1>4, PhaseKnows

LEMMA StartsKnows ==
  ASSUME Knows, Starts
  PROVE  Knows'
<1> DEFINE l == [kind |-> "start"]
<1>1. LineType(l) /\ l.kind \in Markers
  BY DEF LineType, Sensible, Kinds, Markers
<1>2. "playing" \in Phases /\ Writes(l) /\ tx' = tx /\ game' = [game EXCEPT !.phase = "playing"]
  BY DEF Starts, Phases
<1>3. game.phase = "pending" /\ game'.phase = "playing"
  <2>1. game = [match |-> game.match, phase |-> game.phase, deeds |-> game.deeds, players |-> game.players,
                votes |-> game.votes]
    BY GameNow
  <2> QED  BY <1>2, <2>1 DEF Starts
<1>4. Phased(game, game', l)
  BY <1>3 DEF Phased, Marking
<1> HIDE DEF l
<1> QED  BY <1>1, <1>2, <1>4, PhaseKnows

----------------------------------------------------------------------------
\* What the game does with the votes.
LEMMA GoesVotes ==
  ASSUME NEW g, NEW most, IsGame(g, most), NEW t \in VoteTeams, NEW up,
         NEW h, h = [g EXCEPT !.votes[t] = NoVote]
  PROVE  /\ Goes(g, h, most, up) /\ Playing(g) /\ Playing(h) /\ h.players = g.players /\ h.phase = g.phase
         /\ h.votes[t] = NoVote /\ \A u \in VoteTeams : u # t => h.votes[u] = g.votes[u]
<1>1. /\ g = [match |-> g.match, phase |-> g.phase, deeds |-> g.deeds, players |-> g.players, votes |-> g.votes]
      /\ g.votes \in [VoteTeams -> VoteInfos] /\ Playing(g)
  BY GamePlays DEF IsGame
<1>2. PICK w : w = [g.votes EXCEPT ![t] = NoVote]
  OBVIOUS
<1>3. h = [match |-> g.match, phase |-> g.phase, deeds |-> g.deeds, players |-> g.players, votes |-> w]
  BY <1>1, <1>2
<1>4. w \in [VoteTeams -> VoteInfos] /\ w[t] = NoVote /\ \A u \in VoteTeams : u # t => w[u] = g.votes[u]
  BY <1>1, <1>2, NoVoteType
<1>5. IsGame(h, most)
  BY <1>3, <1>4 DEF IsGame
<1>6. VotesKept(g.votes, h.votes)
  BY <1>3, <1>4 DEF VotesKept
<1>7. ~up /\ Unseen(g) => Unseen(h)
  <2>1. \A u \in VoteTeams : h.votes[u] = g.votes[u] \/ h.votes[u] = NoVote
    BY <1>6 DEF VotesKept
  <2> QED  BY <1>3, <2>1, NoVoteType DEF Unseen
<1> QED  BY <1>1, <1>3, <1>4, <1>5, <1>6, <1>7, GamePlays DEF Goes

LEMMA VoteEndsKnows ==
  ASSUME Knows, NEW t \in VoteTeams, NEW success, VoteEnds(t, success)
  PROVE  Knows'
<1>1. PICK g : g = game
  OBVIOUS
<1>2. PICK h : h = game'
  OBVIOUS
<1>4. PICK up : up = server.up
  OBVIOUS
<1>5. PICK most : most = MaxDeeds[topic]
  OBVIOUS
<1> DEFINE l == [kind |-> "voteover", success |-> success]
<1>6. IsGame(g, most)
  BY <1>1, <1>5, GameNow
<1>7. h = [g EXCEPT !.votes[t] = NoVote] /\ Writes(l) /\ tx' = tx
  BY <1>1, <1>2 DEF VoteEnds
<1>8. Goes(g, h, most, up) /\ Playing(g) /\ Playing(h) /\ h.players = g.players /\ h.phase = g.phase
  BY <1>6, <1>7, GoesVotes
<1>9. LineType(l) /\ l.kind \in Markers /\ Phased(g, h, l) /\ l.kind # "votecalled"
  BY <1>8 DEF LineType, Sensible, Kinds, Markers, Phased, Marking
<1> HIDE DEF l
<1>10. \A answered \in BOOLEAN : Leads(g, h, l, answered, answered)
  BY <1>8, <1>9, MarkerLeads
<1> QED  BY <1>1, <1>2, <1>4, <1>5, <1>7, <1>8, <1>9, <1>10, GameSays

----------------------------------------------------------------------------
\* The game reads a command.
LEMMA OrderShape ==
  ASSUME NEW c \in Orders
  PROVE  /\ c[1] = "info" => c = <<"info", Empty>>
         /\ c[1] = "list" => c = <<"list", Empty>>
         /\ c[1] = "ping" => c = <<"ping", Empty>>
         /\ c[1] = "endmap" => c = <<"endmap", Empty>>
         /\ c[1] = "cancel" => c[2] \in VoteTeams /\ c = <<"cancel", c[2]>>
BY DEF Orders

LEMMA Read ==
  ASSUME Knows, NEW command, Reads(command)
  PROVE  /\ Queue(tx) /\ tx # <<>> /\ Head(tx) \in Orders /\ Head(tx)[1] = command /\ Head(tx) \in Range(tx)
         /\ Queue(tx') /\ Len(tx') <= Len(tx) /\ \A c \in Range(tx') : c \in Range(tx)
         /\ \A c \in Range(tx) : c = Head(tx) \/ c \in Range(tx')
<1>1. PICK rest : rest = tx'
  OBVIOUS
<1>2. Queue(tx) /\ (\A c \in Range(tx) : c \in Orders) /\ tx # <<>> /\ rest = Tail(tx) /\ Head(tx)[1] = command
  BY <1>1 DEF Knows, Typed, Reads
<1>3. Queue(rest) /\ Len(tx) = Len(rest) + 1 /\ \A x : x \in Range(tx) <=> x = Head(tx) \/ x \in Range(rest)
  BY <1>2, Tailed
<1>4. Len(rest) \in Nat
  BY <1>3, QueueShape
<1> QED  BY <1>1, <1>2, <1>3, <1>4

LEMMA OtherRead ==
  ASSUME Knows, NEW command \in {"info", "ping", "endmap"}, Reads(command), NEW w
  PROVE  Queue(tx') /\ Len(tx') <= Len(tx) /\ Answers(tx') = Answers(tx) /\ Drops(tx, tx', w)
<1>1. Head(tx) # <<"list", Empty>> /\ \A t \in VoteTeams : Head(tx) # <<"cancel", t>>
  <2>1. Head(tx)[1] = command
    BY Read
  <2> QED  BY <2>1
<1>2. PICK rest : rest = tx'
  OBVIOUS
<1>3. /\ Queue(rest) /\ Len(rest) <= Len(tx) /\ \A c \in Range(rest) : c \in Range(tx)
      /\ \A c \in Range(tx) : c = Head(tx) \/ c \in Range(rest)
  BY <1>2, Read
<1>4. Answers(rest) = Answers(tx)
  BY <1>1, <1>3 DEF Answers
<1>5. Drops(tx, rest, w)
  BY <1>1, <1>3 DEF Drops
<1> QED  BY <1>2, <1>3, <1>4, <1>5

\* The game answers, and nothing else happens.
LEMMA AnswerKnows ==
  ASSUME Knows, NEW command \in {"info", "ping"}, Reads(command), NEW l, LineType(l), l.kind \in Markers,
         Phased(game, game, l), Writes(l), UNCHANGED game
  PROVE  Knows'
<1>1. PICK g : g = game
  OBVIOUS
<1>2. game' = g
  BY <1>1
<1>4. PICK up : up = server.up
  OBVIOUS
<1>5. PICK most : most = MaxDeeds[topic]
  OBVIOUS
<1>6. IsGame(g, most) /\ Playing(g)
  BY <1>1, <1>5, GameNow
<1>7. Goes(g, g, most, up)
  BY <1>6, GoesNowhere
<1>8. Phased(g, g, l) /\ l.kind # "votecalled"
  BY <1>1 DEF Markers
<1>9. PICK now : now = Answers(tx)
  OBVIOUS
<1>10. now \in BOOLEAN
  BY <1>9 DEF Answers
<1>11. Leads(g, g, l, now, now)
  BY <1>6, <1>8, <1>10, MarkerLeads
<1>12. Queue(tx') /\ Len(tx') <= Len(tx) /\ Answers(tx') = now /\ Drops(tx, tx', g.votes)
  BY <1>9, OtherRead
<1>13. Leads(game, game', l, Answers(tx), Answers(tx')) /\ Drops(tx, tx', game'.votes)
  BY <1>1, <1>2, <1>9, <1>11, <1>12
<1>14. Goes(game, game', MaxDeeds[topic], server.up)
  BY <1>1, <1>2, <1>4, <1>5, <1>7
<1> QED  BY <1>8, <1>12, <1>13, <1>14, GameWrites

LEMMA AnswerInfoKnows ==
  ASSUME Knows, AnswerInfo
  PROVE  Knows'
<1> DEFINE l == [kind |-> "info", state |-> game.phase]
<1>1. game.phase \in Phases
  BY GameNow DEF Playing
<1>2. LineType(l) /\ l.kind \in Markers /\ Phased(game, game, l)
  BY <1>1 DEF LineType, Sensible, Kinds, Markers, Phased, Marking
<1>3. Reads("info") /\ Writes(l) /\ game' = game
  BY DEF AnswerInfo
<1> HIDE DEF l
<1> QED  BY <1>2, <1>3, AnswerKnows

LEMMA AnswerPingKnows ==
  ASSUME Knows, AnswerPing
  PROVE  Knows'
<1> DEFINE l == [kind |-> "pong"]
<1>2. LineType(l) /\ l.kind \in Markers /\ Phased(game, game, l)
  BY DEF LineType, Sensible, Kinds, Markers, Phased, Marking
<1>3. Reads("ping") /\ Writes(l) /\ game' = game
  BY DEF AnswerPing
<1> HIDE DEF l
<1> QED  BY <1>2, <1>3, AnswerKnows

LEMMA AnswerListKnows ==
  ASSUME Knows, AnswerList
  PROVE  Knows'
<1>1. PICK g : g = game
  OBVIOUS
<1> DEFINE l == [kind |-> "list", rows |-> [p \in DOMAIN g.players |-> Row(g.players[p])]]
<1>2. game' = g /\ Reads("list") /\ Writes(l)
  BY <1>1 DEF AnswerList, Present
<1>4. PICK up : up = server.up
  OBVIOUS
<1>5. PICK most : most = MaxDeeds[topic]
  OBVIOUS
<1>6. IsGame(g, most) /\ Playing(g)
  BY <1>1, <1>5, GameNow
<1>7. Goes(g, g, most, up)
  BY <1>6, GoesNowhere
<1>8. l.kind = "list" /\ l.rows = [p \in DOMAIN g.players |-> Row(g.players[p])] /\ l.kind # "votecalled"
  OBVIOUS
<1> HIDE DEF l
<1>9. \A answered \in BOOLEAN : \A now : Leads(g, g, l, answered, now)
  <2> TAKE answered \in BOOLEAN
  <2> TAKE now
  <2> SUFFICES ASSUME NEW e, Kept(e), End(e, g, answered)
               PROVE  Due(e, l, Reading(e, l)) /\ End(Reading(e, l), g, now)
    BY DEF Leads
  <2>1. PICK f : f = Reading(e, l)
    OBVIOUS
  <2> QED  BY <1>6, <1>8, <2>1, ListDue
<1>10. PICK rest : rest = tx'
  OBVIOUS
<1>11. /\ Queue(rest) /\ Len(rest) <= Len(tx) /\ (\A c \in Range(rest) : c \in Range(tx))
       /\ (\A c \in Range(tx) : c = Head(tx) \/ c \in Range(rest)) /\ Head(tx)[1] = "list"
  BY <1>2, <1>10, Read
<1>12. Drops(tx, rest, g.votes)
  <2>1. \A t \in VoteTeams : Head(tx) # <<"cancel", t>>
    BY <1>11
  <2> QED  BY <1>11, <2>1 DEF Drops
<1>13. Leads(g, g, l, Answers(tx), Answers(rest))
  BY <1>9 DEF Answers
<1>14. Leads(game, game', l, Answers(tx), Answers(tx')) /\ Drops(tx, tx', game'.votes)
  BY <1>1, <1>2, <1>10, <1>12, <1>13
<1>15. Goes(game, game', MaxDeeds[topic], server.up)
  BY <1>1, <1>2, <1>4, <1>5, <1>7
<1> QED  BY <1>2, <1>8, <1>10, <1>11, <1>14, <1>15, GameWrites

LEMMA ScoredType ==
  ASSUME NEW g \in Gamers, NEW winner \in Teams \cup {Empty},
         NEW h, h = IF winner = Empty THEN g ELSE IF g.team = winner THEN [g EXCEPT !.won = @ + 1]
                    ELSE [g EXCEPT !.lost = @ + 1]
  PROVE  h \in Gamers /\ Scored(g, h, winner)
<1>1. g.team \in Teams /\ Empty \notin Teams
  BY DEF Gamers, Teams, Empty
<1>2. g.won \in Nat /\ g.lost \in Nat
  BY DEF Gamers
<1>3. CASE winner = Empty
  <2>1. h = g /\ g.team # winner
    BY <1>1, <1>3
  <2> QED  BY <1>2, <1>3, <2>1 DEF Scored
<1>4. CASE winner # Empty /\ g.team = winner
  <2>1. h = [g EXCEPT !.won = @ + 1]
    BY <1>4
  <2>2. h \in Gamers /\ h.team = g.team /\ h.character = g.character /\ h.stats = g.stats /\ h.seen = g.seen
        /\ h.whole = g.whole /\ h.won = g.won + 1 /\ h.lost = g.lost
    BY <1>2, <2>1 DEF Gamers
  <2> QED  BY <1>2, <1>4, <2>2 DEF Scored
<1>5. CASE winner # Empty /\ g.team # winner
  <2>1. h = [g EXCEPT !.lost = @ + 1]
    BY <1>5
  <2>2. h \in Gamers /\ h.team = g.team /\ h.character = g.character /\ h.stats = g.stats /\ h.seen = g.seen
        /\ h.whole = g.whole /\ h.won = g.won /\ h.lost = g.lost + 1
    BY <1>2, <2>1 DEF Gamers
  <2> QED  BY <1>2, <1>5, <2>2 DEF Scored
<1> QED  BY <1>3, <1>4, <1>5

LEMMA EndedKnows ==
  ASSUME Knows, NEW winner \in Teams \cup {Empty}, game.phase = "playing", game' = EndedBy(winner),
         NEW l, l = [kind |-> "matchend", winner |-> winner], Writes(l),
         Queue(tx'), Len(tx') <= Len(tx), Answers(tx') = Answers(tx), Drops(tx, tx', game'.votes)
  PROVE  Knows'
<1>1. PICK g : g = game
  OBVIOUS
<1>2. PICK h : h = game'
  OBVIOUS
<1>3. PICK gp : gp = g.players
  OBVIOUS
<1>4. PICK up : up = server.up
  OBVIOUS
<1>5. PICK most : most = MaxDeeds[topic]
  OBVIOUS
<1>6. /\ IsGame(g, most) /\ Playing(g) /\ Crowd(gp) /\ most \in Nat /\ up \in BOOLEAN
      /\ g = [match |-> g.match, phase |-> g.phase, deeds |-> g.deeds, players |-> gp, votes |-> g.votes]
  BY <1>1, <1>3, <1>4, <1>5, GameNow
<1> DEFINE won(p) == IF winner = Empty THEN gp[p]
                     ELSE IF gp[p].team = winner THEN [gp[p] EXCEPT !.won = @ + 1]
                     ELSE [gp[p] EXCEPT !.lost = @ + 1]
           hp == [p \in DOMAIN gp |-> won(p)]
<1>7. h = [match |-> g.match, phase |-> "over", deeds |-> g.deeds, players |-> hp, votes |-> g.votes]
  <2>1. h = [g EXCEPT !.phase = "over", !.players = hp]
    BY <1>1, <1>2, <1>3 DEF EndedBy, Present
  <2> HIDE DEF hp
  <2> QED  BY <1>6, <2>1
<1>8. \A p \in DOMAIN gp : won(p) \in Gamers /\ Scored(gp[p], won(p), winner)
  <2> TAKE p \in DOMAIN gp
  <2>1. PICK b : b = gp[p]
    OBVIOUS
  <2>2. PICK c : c = won(p)
    OBVIOUS
  <2>3. b \in Gamers
    BY <1>6, <2>1 DEF Crowd
  <2>4. c = IF winner = Empty THEN b ELSE IF b.team = winner THEN [b EXCEPT !.won = @ + 1]
            ELSE [b EXCEPT !.lost = @ + 1]
    BY <2>1, <2>2
  <2> QED  BY <2>1, <2>2, <2>3, <2>4, ScoredType
<1> HIDE DEF won
<1>11. DOMAIN hp = DOMAIN gp /\ \A p \in DOMAIN gp : hp[p] \in Gamers /\ Scored(gp[p], hp[p], winner)
  BY <1>8
<1>12. Crowd(hp)
  <2>1. hp = [p \in DOMAIN hp |-> hp[p]]
    OBVIOUS
  <2>2. DOMAIN hp \subseteq Clients
    BY <1>6, <1>11 DEF Crowd
  <2> HIDE DEF hp
  <2> QED  BY <1>11, <2>1, <2>2 DEF Crowd
<1> HIDE DEF hp
<1>13. Goes(g, h, most, up) /\ Playing(h)
  <2>1. "over" \in Phases /\ g.deeds \in 0 .. most
    BY <1>6 DEF IsGame, Phases
  <2>2. ~up /\ (\A p \in DOMAIN g.players : ~g.players[p].seen /\ ~g.players[p].whole) =>
          \A p \in DOMAIN hp : ~hp[p].seen /\ ~hp[p].whole
    BY <1>3, <1>11 DEF Scored
  <2> QED  BY <1>6, <1>7, <1>12, <2>1, <2>2, GoesWith
<1>14. PICK now : now = Answers(tx)
  OBVIOUS
<1>15. Leads(g, h, l, now, now)
  <2> SUFFICES ASSUME NEW e, Kept(e), End(e, g, now)
               PROVE  Due(e, l, Reading(e, l)) /\ End(Reading(e, l), h, now)
    BY DEF Leads
  <2>1. now \in BOOLEAN
    BY <1>14 DEF Answers
  <2>2. l.kind = "matchend" /\ l.winner = winner
    OBVIOUS
  <2>3. PICK f : f = Reading(e, l)
    OBVIOUS
  <2>4. h.phase = "over" /\ h.players = hp /\ g.phase = "playing" /\ g.players = gp
    BY <1>1, <1>3, <1>7
  <2>5. l.winner \in Teams \cup {Empty}
    BY <2>2
  <2>6. DOMAIN h.players = DOMAIN g.players /\ \A p \in DOMAIN g.players : Scored(g.players[p], h.players[p], l.winner)
    BY <1>11, <2>2, <2>4
  <2>7. Due(e, l, f) /\ End(f, h, now)
    BY <1>6, <1>13, <2>1, <2>2, <2>3, <2>4, <2>5, <2>6, MatchEndDue
  <2> QED  BY <2>3, <2>7
<1>16. l.kind # "votecalled"
  OBVIOUS
<1> QED  BY <1>1, <1>2, <1>4, <1>5, <1>13, <1>14, <1>15, <1>16, GameWrites

LEMMA EndMatchKnows ==
  ASSUME Knows, NEW winner \in Teams \cup {Empty}, EndMatch(winner)
  PROVE  Knows'
<1>1. tx' = tx
  BY DEF EndMatch
<1>2. Queue(tx) /\ Len(tx) \in Nat
  BY QueueShape DEF Knows, Typed
<1>3. Queue(tx') /\ Len(tx') <= Len(tx) /\ Answers(tx') = Answers(tx) /\ Drops(tx, tx', game'.votes)
  BY <1>1, <1>2 DEF Drops
<1>4. PICK l : l = [kind |-> "matchend", winner |-> winner]
  OBVIOUS
<1>5. game.phase = "playing" /\ game' = EndedBy(winner) /\ Writes(l)
  BY <1>4 DEF EndMatch
<1> QED  BY <1>3, <1>4, <1>5, EndedKnows

LEMMA EndMapKnows ==
  ASSUME Knows, NEW winner \in Teams \cup {Empty}, EndMap(winner)
  PROVE  Knows'
<1>1. Reads("endmap")
  BY DEF EndMap
<1>2. \A w : Queue(tx') /\ Len(tx') <= Len(tx) /\ Answers(tx') = Answers(tx) /\ Drops(tx, tx', w)
  BY <1>1, OtherRead
<1>3. CASE game.phase = "playing"
  <2>4. PICK l : l = [kind |-> "matchend", winner |-> winner]
    OBVIOUS
  <2>5. game' = EndedBy(winner) /\ Writes(l)
    BY <1>3, <2>4 DEF EndMap
  <2> QED  BY <1>2, <1>3, <2>4, <2>5, EndedKnows
<1>4. CASE game.phase # "playing"
  <2>1. UNCHANGED <<topic, game, rx, bot, hall, pages, connects>>
    BY <1>4 DEF EndMap
  <2> QED  BY <1>2, <2>1, GameIgnores
<1> QED  BY <1>3, <1>4

----------------------------------------------------------------------------
\* The game travels.
LEMMA TravelKnows ==
  ASSUME Knows, NEW seamless \in BOOLEAN, Travel(seamless)
  PROVE  Knows'
<1>1. PICK g : g = game
  OBVIOUS
<1>2. PICK h : h = game'
  OBVIOUS
<1>3. PICK gp : gp = g.players
  OBVIOUS
<1>4. PICK up : up = server.up
  OBVIOUS
<1>5. PICK most : most = MaxDeeds[topic]
  OBVIOUS
<1>6. /\ IsGame(g, most) /\ Playing(g) /\ Crowd(gp) /\ most \in Nat /\ up \in BOOLEAN
      /\ g = [match |-> g.match, phase |-> g.phase, deeds |-> g.deeds, players |-> gp, votes |-> g.votes]
  BY <1>1, <1>3, <1>4, <1>5, GameNow
<1> DEFINE moved(p) == [gp[p] EXCEPT !.stats = Zero, !.character = "none", !.seen = up]
           stay == [p \in DOMAIN gp |-> moved(p)]
           none == [t \in VoteTeams |-> NoVote]
           l == [kind |-> "changing", seamless |-> seamless, match |-> g.match + 1, ended |-> g.phase = "over"]
<1>7a. PICK hp : hp = IF ~seamless THEN NoPlayers ELSE stay
  OBVIOUS
<1>7. /\ h = [match |-> g.match + 1, phase |-> "travelling", deeds |-> 0, players |-> hp, votes |-> none]
      /\ g.phase \in {"playing", "over"} /\ g.match < MaxMatches /\ Writes(l) /\ tx' = tx
  <2>1. h = [match |-> g.match + 1, phase |-> "travelling", deeds |-> 0, votes |-> none,
             players |-> IF ~seamless THEN NoPlayers ELSE stay]
    BY <1>1, <1>2, <1>3, <1>4 DEF Travel, Present
  <2>2. g.phase \in {"playing", "over"} /\ g.match < MaxMatches /\ Writes(l) /\ tx' = tx
    BY <1>1 DEF Travel
  <2> HIDE DEF stay, none, l
  <2> QED  BY <1>7a, <2>1, <2>2
<1>8. ASSUME NEW p \in DOMAIN gp
      PROVE  /\ moved(p) \in Gamers /\ moved(p).team = gp[p].team /\ moved(p).stats = Zero
             /\ moved(p).character = "none" /\ moved(p).won = gp[p].won /\ moved(p).lost = gp[p].lost
             /\ moved(p).whole = gp[p].whole /\ moved(p).seen = up
  <2>1. gp[p] \in Gamers /\ Zero \in Counters
    BY <1>6 DEF Crowd, Zero, Counters
  <2> QED  BY <1>6, <2>1 DEF Gamers
<1> HIDE DEF moved
<1>9. /\ DOMAIN hp = IF seamless THEN DOMAIN gp ELSE {}
      /\ \A p \in DOMAIN hp : p \in DOMAIN gp /\ hp[p] = moved(p)
      /\ hp = [p \in DOMAIN hp |-> hp[p]]
  BY <1>7a DEF NoPlayers
<1> HIDE DEF stay
<1>12. Crowd(hp)
  <2>1. DOMAIN hp \subseteq Clients
    BY <1>6, <1>9 DEF Crowd
  <2>2. \A p \in DOMAIN hp : hp[p] \in Gamers
    BY <1>8, <1>9
  <2> QED  BY <1>9, <2>1, <2>2 DEF Crowd
<1>13. IsGame(h, most) /\ VotesKept(g.votes, h.votes)
  <2>1. none \in [VoteTeams -> VoteInfos]
    BY NoVoteType
  <2>2. g.match + 1 \in 0 .. MaxMatches
    BY <1>6, <1>7, GameAssumption DEF IsGame
  <2>3. 0 \in 0 .. most /\ "travelling" \in Phases
    BY <1>6 DEF Phases
  <2>4. VotesKept(g.votes, none)
    BY DEF VotesKept
  <2> HIDE DEF none
  <2> QED  BY <1>7, <1>12, <2>1, <2>2, <2>3, <2>4 DEF IsGame
<1>14. ~up /\ Unseen(g) => Unseen(h)
  <2> SUFFICES ASSUME ~up, Unseen(g) PROVE Unseen(h)
    OBVIOUS
  <2>1. \A p \in DOMAIN hp : ~hp[p].seen /\ ~hp[p].whole
    BY <1>3, <1>8, <1>9 DEF Unseen
  <2>2. \A t \in VoteTeams : ~none[t].heard
    BY NoVoteType
  <2> HIDE DEF none
  <2> QED  BY <1>7, <2>1, <2>2 DEF Unseen
<1>15. Goes(g, h, most, up) /\ Playing(h)
  BY <1>13, <1>14, GamePlays DEF Goes
<1>16. /\ h.phase = "travelling" /\ h.players = hp /\ l.kind = "changing" /\ l.seamless = seamless
       /\ l.match = g.match + 1 /\ l.match \in Nat /\ l.ended = (g.phase = "over") /\ l.kind # "votecalled"
  BY <1>6, <1>7 DEF Playing
<1> HIDE DEF l, none
<1>17. \A answered \in BOOLEAN : Leads(g, h, l, answered, answered)
  <2> TAKE answered \in BOOLEAN
  <2> SUFFICES ASSUME NEW e, Kept(e), End(e, g, answered)
               PROVE  Due(e, l, Reading(e, l)) /\ End(Reading(e, l), h, answered)
    BY DEF Leads
  <2>1. PICK f : f = Reading(e, l)
    OBVIOUS
  <2>2. DOMAIN h.players = IF l.seamless THEN DOMAIN g.players ELSE {}
    BY <1>3, <1>9, <1>16
  <2>3. \A p \in DOMAIN h.players :
           /\ h.players[p].team = g.players[p].team /\ h.players[p].stats = Zero /\ h.players[p].character = "none"
           /\ h.players[p].won = g.players[p].won /\ h.players[p].lost = g.players[p].lost
           /\ h.players[p].whole = g.players[p].whole
    BY <1>3, <1>8, <1>9, <1>16
  <2>4. l.seamless \in BOOLEAN
    BY <1>16
  <2>5. Due(e, l, f) /\ End(f, h, answered)
    BY <1>6, <1>7, <1>15, <1>16, <2>1, <2>2, <2>3, <2>4, ChangingDue
  <2> QED  BY <2>1, <2>5
<1> QED  BY <1>1, <1>2, <1>4, <1>5, <1>7, <1>15, <1>16, <1>17, GameSays

----------------------------------------------------------------------------
\* The game cancels a vote.
LEMMA CancelVoteKnows ==
  ASSUME Knows, CancelVote
  PROVE  Knows'
<1>1. PICK g : g = game
  OBVIOUS
<1>2. PICK h : h = game'
  OBVIOUS
<1>3. PICK t : t = Head(tx)[2]
  OBVIOUS
<1>4. PICK up : up = server.up
  OBVIOUS
<1>5. PICK most : most = MaxDeeds[topic]
  OBVIOUS
<1>6. Reads("cancel") /\ IsGame(g, most)
  BY <1>1, <1>5, GameNow DEF CancelVote
<1>7. PICK rest : rest = tx'
  OBVIOUS
<1>8. /\ Queue(rest) /\ Len(rest) <= Len(tx) /\ (\A c \in Range(rest) : c \in Range(tx))
      /\ (\A c \in Range(tx) : c = Head(tx) \/ c \in Range(rest)) /\ Head(tx)[1] = "cancel" /\ Head(tx) \in Orders
  BY <1>6, <1>7, Read
<1>9. t \in VoteTeams /\ Head(tx) = <<"cancel", t>>
  BY <1>3, <1>8, OrderShape
<1>10. Answers(rest) = Answers(tx)
  <2>1. Head(tx) # <<"list", Empty>>
    BY <1>8
  <2> QED  BY <1>8, <2>1 DEF Answers
<1>11. \A w : w[t] = NoVote => Drops(tx, rest, w)
  <2> SUFFICES ASSUME NEW w, w[t] = NoVote, NEW u \in VoteTeams, <<"cancel", u>> \in Range(tx),
                      <<"cancel", u>> \notin Range(rest)
               PROVE  w[u] = NoVote
    BY <1>8 DEF Drops
  <2>1. <<"cancel", u>> = <<"cancel", t>>
    BY <1>8, <1>9
  <2> QED  BY <2>1
<1>12. CASE g.votes[t] = NoVote
  <2>1. UNCHANGED <<topic, game, rx, bot, hall, pages, connects>>
    BY <1>1, <1>3, <1>12 DEF CancelVote
  <2> QED  BY <1>1, <1>7, <1>8, <1>10, <1>11, <1>12, <2>1, GameIgnores
<1>13. CASE g.votes[t] # NoVote
  <2> DEFINE l == [kind |-> "votecancelled"]
  <2>1. h = [g EXCEPT !.votes[t] = NoVote] /\ Writes(l)
    BY <1>1, <1>2, <1>3, <1>13 DEF CancelVote
  <2> HIDE DEF l
  <2>2a. Goes(g, h, most, up) /\ Playing(g) /\ Playing(h) /\ h.players = g.players /\ h.phase = g.phase
    BY <1>6, <1>9, <2>1, GoesVotes
  <2>2b. h.votes[t] = NoVote
    BY <1>6, <1>9, <2>1 DEF IsGame
  <2>2. /\ Goes(g, h, most, up) /\ Playing(g) /\ Playing(h) /\ h.players = g.players /\ h.phase = g.phase
        /\ h.votes[t] = NoVote
    BY <2>2a, <2>2b
  <2> USE DEF l
  <2>3. LineType(l) /\ l.kind \in Markers /\ Phased(g, h, l) /\ l.kind # "votecalled"
    BY <2>2 DEF LineType, Sensible, Kinds, Markers, Phased, Marking
  <2> HIDE DEF l
  <2>4. PICK now : now = Answers(tx)
    OBVIOUS
  <2>5. now \in BOOLEAN
    BY <2>4 DEF Answers
  <2>6. Leads(g, h, l, now, now)
    BY <2>2, <2>3, <2>5, MarkerLeads
  <2>7. Drops(tx, rest, h.votes)
    BY <1>11, <2>2
  <2> QED  BY <1>1, <1>2, <1>4, <1>5, <1>7, <1>8, <1>10, <2>1, <2>2, <2>3, <2>4, <2>6, <2>7, GameWrites
<1> QED  BY <1>12, <1>13

\* A command is on its way, or a line whose reader will send one.
LEMMA OutstandingOrNot ==
  ASSUME Knows, NEW t
  PROVE  Outstanding(t) <=> Awaits(rx, tx, t)
<1>1. Queue(rx)
  BY DEF Knows, Typed
<1>2. DOMAIN rx = 1 .. Len(rx) /\ \A x : x \in Range(rx) <=> \E i \in 1 .. Len(rx) : rx[i] = x
  BY <1>1, QueueShape
<1>3. ASSUME NEW i \in DOMAIN rx, rx[i].kind = "votecalled" /\ rx[i].team = t /\ rx[i].by.who \in VoteBanned
      PROVE  Awaits(rx, tx, t)
  <2>1. rx[i] \in Range(rx)
    BY <1>2
  <2> QED  BY <1>3, <2>1 DEF Awaits
<1>4. ASSUME NEW l \in Range(rx), l.kind = "votecalled" /\ l.team = t /\ l.by.who \in VoteBanned
      PROVE  Outstanding(t)
  <2>1. PICK i \in 1 .. Len(rx) : rx[i] = l
    BY <1>2
  <2> QED  BY <1>2, <1>4, <2>1 DEF Outstanding
<1> QED  BY <1>3, <1>4 DEF Outstanding, Awaits

\* A vote more, and what is called.
LEMMA SparedMore ==
  ASSUME NEW q, Queue(q), NEW sent, NEW v, Spared(q, sent, v), NEW t \in VoteTeams, NEW w,
         \A u \in VoteTeams : u # t => w[u] = v[u], NEW l, l.team = t, v[t] = NoVote,
         w[t].by = l.by.who, w[t].raced <=> Awaits(q, sent, t),
         NEW r, r = Append(q, l)
  PROVE  Spared(r, sent, w)
<1>0. Queue(q) /\ r = Append(q, l)
  OBVIOUS
<1>1. \A x : x \in Range(r) <=> x \in Range(q) \/ x = l
  BY ONLY <1>0, Appended
<1> SUFFICES ASSUME NEW u \in VoteTeams, w[u] # NoVote, w[u].by \notin VoteBanned, ~w[u].raced
             PROVE  ~Awaits(r, sent, u)
  BY DEF Spared
<1>2. ~Awaits(q, sent, u)
  <2>1. CASE u = t
    BY <2>1
  <2>2. CASE u # t
    BY <2>2 DEF Spared
  <2> QED  BY <2>1, <2>2
<1>3. ~(l.team = u /\ l.by.who \in VoteBanned)
  OBVIOUS
<1> QED  BY <1>1, <1>2, <1>3 DEF Awaits

LEMMA CallVoteKnows ==
  ASSUME Knows, NEW t \in VoteTeams, NEW c, NEW what, CallVote(t, c, what)
  PROVE  Knows'
<1>1. PICK g : g = game
  OBVIOUS
<1>2. PICK h : h = game'
  OBVIOUS
<1>3. PICK gp : gp = g.players
  OBVIOUS
<1>4. PICK up : up = server.up
  OBVIOUS
<1>5. PICK most : most = MaxDeeds[topic]
  OBVIOUS
<1>6. /\ IsGame(g, most) /\ Playing(g) /\ Crowd(gp) /\ most \in Nat /\ up \in BOOLEAN
      /\ g = [match |-> g.match, phase |-> g.phase, deeds |-> g.deeds, players |-> gp, votes |-> g.votes]
      /\ g.votes \in [VoteTeams -> VoteInfos]
  BY <1>1, <1>3, <1>4, <1>5, GameNow
<1>7. PICK l : l = [kind |-> "votecalled", by |-> Tok(c), on |-> Nobody, what |-> what, team |-> t]
  OBVIOUS
<1>8. PICK vote : vote = [by |-> c, heard |-> up /\ gp[c].whole, raced |-> Outstanding(t)]
  OBVIOUS
<1>9. PICK w : w = [g.votes EXCEPT ![t] = vote]
  OBVIOUS
<1>10. /\ h = [g EXCEPT !.deeds = @ + 1, !.votes[t] = vote]
       /\ g.deeds < most /\ c \in DOMAIN gp /\ g.votes[t] = NoVote /\ Writes(l) /\ tx' = tx
  BY <1>1, <1>2, <1>3, <1>4, <1>5, <1>7, <1>8 DEF CallVote, Present
<1>11. h = [match |-> g.match, phase |-> g.phase, deeds |-> g.deeds + 1, players |-> gp, votes |-> w]
  <2>1. h = [[g EXCEPT !.deeds = @ + 1] EXCEPT !.votes = [@ EXCEPT ![t] = vote]]
    BY <1>10
  <2>2. PICK mid : mid = [g EXCEPT !.deeds = @ + 1]
    OBVIOUS
  <2>3. mid = [match |-> g.match, phase |-> g.phase, deeds |-> g.deeds + 1, players |-> gp, votes |-> g.votes]
    BY <1>6, <2>2
  <2>4. h = [mid EXCEPT !.votes = [@ EXCEPT ![t] = vote]]
    BY <2>1, <2>2
  <2>5. h = [mid EXCEPT !.votes = w]
    BY <1>9, <2>3, <2>4
  <2> QED  BY <2>3, <2>5
<1>12. /\ vote.by = c /\ vote.heard = (up /\ gp[c].whole) /\ vote.raced = Outstanding(t)
       /\ vote \in VoteInfos
  <2>1. Outstanding(t) \in BOOLEAN
    BY DEF Outstanding
  <2>2. gp[c].whole \in BOOLEAN /\ c \in Clients \cup {Empty}
    BY <1>6, <1>10 DEF Crowd, Gamers
  <2>3. (up /\ gp[c].whole) \in BOOLEAN
    OBVIOUS
  <2> QED  BY <1>8, <2>1, <2>2, <2>3 DEF VoteInfos
<1>13. w \in [VoteTeams -> VoteInfos] /\ w[t] = vote /\ \A u \in VoteTeams : u # t => w[u] = g.votes[u]
  BY <1>6, <1>9, <1>12
<1>14. IsGame(h, most) /\ Playing(h) /\ h.players = gp /\ h.votes = w /\ h.phase = g.phase
  <2>1. g.deeds + 1 \in 0 .. most
    BY <1>6, <1>10 DEF IsGame
  <2>2. IsGame(h, most)
    BY <1>6, <1>11, <1>13, <2>1 DEF IsGame
  <2> QED  BY <1>11, <2>2, GamePlays
<1>15. /\ l.kind = "votecalled" /\ l.by = Tok(c) /\ l.on = Nobody /\ l.team = t /\ l.by.who = c
  BY <1>7 DEF Tok, Token
<1>16. PICK T : T = SidesOf(game.players)
  OBVIOUS
<1>17. LineType(l) /\ DeedLine(l, T) /\ l.kind \in PlainKinds
  <2>1. Party(l.by, T) /\ Party(l.on, T)
    BY <1>1, <1>3, <1>10, <1>15, <1>16, Parties DEF Present
  <2> QED  BY <1>15, <2>1 DEF LineType, Sensible, Kinds, DeedLine, PlainKinds
<1>18. PICK now : now = Answers(tx)
  OBVIOUS
<1>19. Leads(g, h, l, now, now)
  <2> SUFFICES ASSUME NEW e, Kept(e), End(e, g, now)
               PROVE  Due(e, l, Reading(e, l)) /\ End(Reading(e, l), h, now)
    BY DEF Leads
  <2>1. PICK f : f = Reading(e, l)
    OBVIOUS
  <2>2. now \in BOOLEAN
    BY <1>18 DEF Answers
  <2>3. \A p \in DOMAIN g.players : DoneBy(g.players[p], h.players[p], l, p)
    BY <1>3, <1>6, <1>14, <1>17, NothingDone DEF Crowd
  <2>4. DeedLine(l, SidesOf(g.players)) /\ DOMAIN h.players = DOMAIN g.players
    BY <1>1, <1>3, <1>14, <1>16, <1>17
  <2> QED  BY <1>6, <1>14, <1>17, <2>1, <2>2, <2>3, <2>4, DeedDue
<1>20. PICK r : r = rx'
  OBVIOUS
<1>21. /\ topic' = topic /\ bot' = bot /\ hall' = hall /\ pages' = pages /\ connects' = connects
       /\ r = IF up THEN Append(rx, l) ELSE rx
       /\ Len(rx) < MaxLines /\ server' = server
  BY <1>4, <1>10, <1>20 DEF Writes, server
<1>22. /\ topic \in Topics /\ connects \in 0 .. MaxConnects[topic] /\ hall \subseteq Clients
       /\ IsBot(bot) /\ IsPages(pages) /\ Queue(rx) /\ Queue(tx) /\ Len(rx) <= MaxLines /\ Len(tx) <= MaxSent
       /\ (\A x \in Range(tx) : x \in Orders)
       /\ \A x \in Range(rx) : x.kind = "votecalled" => x.team \in VoteTeams
  BY DEF Knows, Typed
<1>23. Queue(r) /\ Len(r) <= MaxLines /\ \A x \in Range(r) : x \in Range(rx) \/ x = l
  <2>1. CASE up
    <3>1. r = Append(rx, l)
      BY <1>21, <2>1
    <3>2. Queue(r) /\ Len(r) = Len(rx) + 1 /\ \A x : x \in Range(r) <=> x \in Range(rx) \/ x = l
      BY <1>22, <3>1, Appended
    <3>3. Len(rx) \in Nat /\ MaxLines \in Nat
      BY <1>22, QueueShape, GameAssumption
    <3> QED  BY <1>21, <3>2, <3>3
  <2>2. CASE ~up
    BY <1>21, <1>22, <2>2
  <2> QED  BY <2>1, <2>2
<1>24. Typed'
  <2>1. \A x \in Range(r) : x.kind = "votecalled" => x.team \in VoteTeams
    BY <1>15, <1>22, <1>23
  <2> QED  BY <1>2, <1>5, <1>10, <1>14, <1>20, <1>21, <1>22, <1>23, <2>1 DEF Typed
<1>25. Connected'
  <2>1. ASSUME up PROVE Informs(Mind(server, hall), r, tx, h)
    <3>1. PICK b : b = Mind(server, hall)
      OBVIOUS
    <3>2. Informs(b, rx, tx, g)
      BY <1>1, <1>4, <2>1, <3>1 DEF Knows, Connected
    <3>3. Leads(g, h, l, Answers(tx), Answers(tx)) /\ r = Append(rx, l)
      BY <1>18, <1>19, <1>21, <2>1
    <3>4. Calls(l, t, c) /\ h.votes[t].by = c /\ (h.votes[t].heard => h.players[c].whole) /\ c \in DOMAIN h.players
      BY <1>10, <1>12, <1>13, <1>14, <1>15 DEF Calls
    <3>5. (\A u \in VoteTeams : u # t => h.votes[u] = g.votes[u]) /\ Crowd(h.players)
      BY <1>6, <1>13, <1>14
    <3>6. Informs(b, r, tx, h)
      BY <1>22, <3>2, <3>3, <3>4, <3>5, InformsVote
    <3> QED  BY <3>1, <3>6
  <2>2. ASSUME ~up PROVE server = Disconnected /\ r = <<>> /\ tx = <<>> /\ hall = {} /\ Unseen(h)
    <3>1. server = Disconnected /\ rx = <<>> /\ tx = <<>> /\ hall = {} /\ Unseen(g)
      BY <1>1, <1>4, <2>2 DEF Knows, Connected
    <3>2. \A u \in VoteTeams : ~w[u].heard
      BY <1>12, <1>13, <2>2, <3>1 DEF Unseen
    <3>3. Unseen(h)
      BY <1>3, <1>14, <3>1, <3>2 DEF Unseen
    <3> QED  BY <1>21, <2>2, <3>1, <3>3
  <2> QED  BY <1>2, <1>4, <1>10, <1>20, <1>21, <2>1, <2>2 DEF Connected
<1>26. Timed'
  BY <1>21 DEF Knows, Timed
<1>27. Innocent'
  <2>1. Spared(rx, tx, g.votes)
    BY <1>1 DEF Knows, Innocent
  <2>2. w[t].by = l.by.who /\ (w[t].raced <=> Awaits(rx, tx, t))
    <3>1. Outstanding(t) <=> Awaits(rx, tx, t)
      BY OutstandingOrNot
    <3> QED  BY <1>12, <1>13, <1>15, <3>1
  <2>3. CASE up
    <3>1. r = Append(rx, l)
      BY <1>21, <2>3
    <3>2. Spared(r, tx, w)
      BY <1>10, <1>13, <1>15, <1>22, <2>1, <2>2, <3>1, SparedMore
    <3> QED  BY <1>2, <1>10, <1>14, <1>20, <3>2 DEF Innocent
  <2>4. CASE ~up
    <3>1. r = rx
      BY <1>21, <2>4
    <3>2. Spared(r, tx, w)
      <4> SUFFICES ASSUME NEW u \in VoteTeams, w[u] # NoVote, w[u].by \notin VoteBanned, ~w[u].raced
                   PROVE  ~Awaits(rx, tx, u)
        BY <3>1 DEF Spared
      <4>1. CASE u = t
        BY <2>2, <4>1
      <4>2. CASE u # t
        BY <1>13, <2>1, <4>2 DEF Spared
      <4> QED  BY <4>1, <4>2
    <3> QED  BY <1>2, <1>10, <1>14, <1>20, <3>2 DEF Innocent
  <2> QED  BY <2>3, <2>4
<1> QED  BY <1>24, <1>25, <1>26, <1>27 DEF Knows

----------------------------------------------------------------------------
LEMMA GameKnows ==
  ASSUME Knows, GameStep
  PROVE  Knows'
<1>1. ASSUME NEW c \in Clients, NEW team \in Teams, Join(c, team, topic # "talk")
      PROVE  Knows'
  BY <1>1, JoinKnows
<1>2. ASSUME NEW c \in Clients, Leave(c)
      PROVE  Knows'
  BY <1>2, LeaveKnows
<1>3. ASSUME NEW c \in Clients, ChangeTeam(c)
      PROVE  Knows'
  BY <1>3, ChangeTeamKnows
<1>4. ASSUME NEW c \in Clients, NEW t \in VoteTeams, NEW what, CallVote(t, c, what)
      PROVE  Knows'
  BY <1>4, CallVoteKnows
<1>5. ASSUME NEW l \in Deeds, Deed(l)
      PROVE  Knows'
  BY <1>5, DeedKnows
<1>6. ASSUME NEW l \in Talk, Says(l)
      PROVE  Knows'
  BY <1>6, SaysKnows
<1>7. ASSUME NEW winner \in Teams \cup {Empty}, EndMatch(winner) \/ EndMap(winner)
      PROVE  Knows'
  BY <1>7, EndMatchKnows, EndMapKnows
<1>8. ASSUME NEW seamless \in BOOLEAN, Travel(seamless)
      PROVE  Knows'
  BY <1>8, TravelKnows
<1>9. CASE Loads \/ Starts
  BY <1>9, LoadsKnows, StartsKnows
<1>10. ASSUME NEW t \in VoteTeams, VoteEnds(t, t = "Nod")
       PROVE  Knows'
  BY <1>10, VoteEndsKnows
<1>11. CASE AnswerInfo \/ AnswerList \/ AnswerPing \/ CancelVote
  BY <1>11, AnswerInfoKnows, AnswerListKnows, AnswerPingKnows, CancelVoteKnows
<1> QED  BY <1>1, <1>2, <1>3, <1>4, <1>5, <1>6, <1>7, <1>8, <1>9, <1>10, <1>11 DEF GameStep

----------------------------------------------------------------------------
(***************************************************************************)
(* The pages                                                               *)
(***************************************************************************)
\* What is listed of the servers.
Entries(servers) == [i \in DOMAIN Web!Shown(servers) |-> Web!server_as_json(Web!Shown(servers)[i])]

LEMMA PagesUpdated ==
  ASSUME NEW pg, IsPages(pg), NEW servers, NEW qg, qg = Web!updateServerList(pg, servers)
  PROVE  IsPages(qg) /\ qg.details = pg.details /\ qg.list = Entries(servers)
<1>1. PICK mid : mid = [pg EXCEPT !.list = Entries(servers)]
  OBVIOUS
<1>2. qg = Web!updateMetadata(mid, servers)
  BY <1>1 DEF Web!updateServerList, Entries
<1>3. PICK totals : totals = Web!Totals(servers)
  OBVIOUS
<1>4. qg = [mid EXCEPT !.metadata = totals]
  BY <1>2, <1>3 DEF Web!updateMetadata
<1>5. pg = [list |-> pg.list, metadata |-> pg.metadata, details |-> pg.details] /\ pg.details \in [Sites -> Details]
  BY DEF IsPages
<1>6. mid = [list |-> Entries(servers), metadata |-> pg.metadata, details |-> pg.details]
  BY <1>1, <1>5
<1>7. qg = [list |-> Entries(servers), metadata |-> totals, details |-> pg.details]
  BY <1>4, <1>6
<1> QED  BY <1>5, <1>7 DEF IsPages

LEMMA PagesAdded ==
  ASSUME NEW pg, IsPages(pg), NEW servers, NEW s, NEW qg, qg = Web!addServerToServerList(pg, servers, s)
  PROVE  IsPages(qg) /\ qg.details = pg.details /\ qg.list = Append(pg.list, Web!server_as_json(s))
<1>1. PICK list : list = Append(pg.list, Web!server_as_json(s))
  OBVIOUS
<1>2. PICK mid : mid = [pg EXCEPT !.list = list]
  OBVIOUS
<1>5. pg = [list |-> pg.list, metadata |-> pg.metadata, details |-> pg.details] /\ pg.details \in [Sites -> Details]
  BY DEF IsPages
<1>6. mid = [list |-> list, metadata |-> pg.metadata, details |-> pg.details]
  BY <1>2, <1>5
<1>7. mid = [pg EXCEPT !.list = Append(@, Web!server_as_json(s))]
  BY <1>1, <1>2, <1>5
<1>8. qg = Web!updateMetadata(mid, servers)
  BY <1>7 DEF Web!addServerToServerList
<1>3. PICK totals : totals = Web!Totals(servers)
  OBVIOUS
<1>4. qg = [mid EXCEPT !.metadata = totals]
  BY <1>3, <1>8 DEF Web!updateMetadata
<1>9. qg = [list |-> list, metadata |-> totals, details |-> pg.details]
  BY <1>4, <1>6
<1> QED  BY <1>1, <1>5, <1>9 DEF IsPages

\* The details of a server are others, or none.
Detailed(pg, name, d) == [list |-> pg.list, metadata |-> pg.metadata, details |-> [pg.details EXCEPT ![name] = d]]

LEMMA PagesDetailed ==
  ASSUME NEW pg, IsPages(pg), NEW name \in Sites, NEW d \in Details, NEW qg, qg = Detailed(pg, name, d)
  PROVE  /\ IsPages(qg) /\ qg.list = pg.list /\ qg.details[name] = d
         /\ \A other \in Sites : other # name => qg.details[other] = pg.details[other]
BY DEF IsPages, Detailed

LEMMA PagesStale ==
  ASSUME NEW pg, IsPages(pg), NEW s, s.name \in Sites, NEW qg, qg = Web!markDetailsStale(pg, s)
  PROVE  /\ IsPages(qg) /\ qg.list = pg.list /\ qg.details[s.name].stale
         /\ \A other \in Sites : other # s.name => qg.details[other] = pg.details[other]
<1>1. PICK name : name = s.name
  OBVIOUS
<1>2. PICK d : d = Web!Stale
  OBVIOUS
<1>3. d \in Details /\ d.stale
  BY <1>2 DEF Web!Stale, Details
<1>4. pg = [list |-> pg.list, metadata |-> pg.metadata, details |-> pg.details]
  BY DEF IsPages
<1>5. qg = [pg EXCEPT !.details[name] = d]
  BY <1>1, <1>2 DEF Web!markDetailsStale
<1>6. qg = Detailed(pg, name, d)
  BY <1>4, <1>5 DEF Detailed
<1> QED  BY <1>1, <1>3, <1>6, PagesDetailed

LEMMA PagesTouched ==
  ASSUME NEW pg, IsPages(pg), NEW s, s.name \in Sites, s.active \subseteq Clients,
         NEW qg, qg = Web!touchDetails(pg, s)
  PROVE  /\ IsPages(qg) /\ qg.list = pg.list
         /\ qg.details[s.name] = IF pg.details[s.name].stale THEN [stale |-> FALSE, players |-> s.active]
                                 ELSE pg.details[s.name]
         /\ \A other \in Sites : other # s.name => qg.details[other] = pg.details[other]
<1>1. PICK name : name = s.name
  OBVIOUS
<1>2. PICK d : d = [stale |-> FALSE, players |-> s.active]
  OBVIOUS
<1>3. d \in Details
  BY <1>2 DEF Details
<1>4. pg = [list |-> pg.list, metadata |-> pg.metadata, details |-> pg.details]
  BY DEF IsPages
<1>5. CASE pg.details[name].stale
  <2>1. qg = [pg EXCEPT !.details[name] = d]
    BY <1>1, <1>2, <1>5 DEF Web!touchDetails, Web!server_as_server_details_json
  <2>2. qg = Detailed(pg, name, d)
    BY <1>4, <2>1 DEF Detailed
  <2>3. /\ IsPages(qg) /\ qg.list = pg.list /\ qg.details[name] = d
        /\ \A other \in Sites : other # name => qg.details[other] = pg.details[other]
    BY <1>1, <1>3, <2>2, PagesDetailed
  <2> QED  BY <1>1, <1>2, <1>5, <2>3
<1>6. CASE ~pg.details[name].stale
  <2>1. qg = pg
    BY <1>1, <1>6 DEF Web!touchDetails
  <2> QED  BY <1>1, <1>6, <2>1
<1> QED  BY <1>5, <1>6

\* The list is made anew, and the details of a server are forgotten.
LEMMA PagesRemade ==
  ASSUME NEW pg, IsPages(pg), NEW servers, NEW s, s.name \in Sites,
         NEW qg, \/ qg = Web!updateServerList(Web!markDetailsStale(pg, s), servers)
                 \/ qg = Web!markDetailsStale(Web!updateServerList(pg, servers), s)
  PROVE  /\ IsPages(qg) /\ qg.list = Entries(servers) /\ qg.details[s.name].stale
         /\ \A other \in Sites : other # s.name => qg.details[other] = pg.details[other]
<1>1. CASE qg = Web!updateServerList(Web!markDetailsStale(pg, s), servers)
  <2>1. PICK mid : mid = Web!markDetailsStale(pg, s)
    OBVIOUS
  <2>2. /\ IsPages(mid) /\ mid.details[s.name].stale
        /\ \A other \in Sites : other # s.name => mid.details[other] = pg.details[other]
    BY <2>1, PagesStale
  <2>3. qg = Web!updateServerList(mid, servers)
    BY <1>1, <2>1
  <2>4. IsPages(qg) /\ qg.details = mid.details /\ qg.list = Entries(servers)
    BY <2>2, <2>3, PagesUpdated
  <2> QED  BY <2>2, <2>4
<1>2. CASE qg = Web!markDetailsStale(Web!updateServerList(pg, servers), s)
  <2>1. PICK mid : mid = Web!updateServerList(pg, servers)
    OBVIOUS
  <2>2. IsPages(mid) /\ mid.details = pg.details /\ mid.list = Entries(servers)
    BY <2>1, PagesUpdated
  <2>3. qg = Web!markDetailsStale(mid, s)
    BY <1>2, <2>1
  <2>4. /\ IsPages(qg) /\ qg.list = mid.list /\ qg.details[s.name].stale
        /\ \A other \in Sites : other # s.name => qg.details[other] = mid.details[other]
    BY <2>2, <2>3, PagesStale
  <2> QED  BY <2>2, <2>4
<1> QED  BY <1>1, <1>2

LEMMA Names2 == "own" \in Sites /\ "other" \in Sites /\ "own" # "other"
BY DEF Sites

\* The list is made anew of servers, and the details of the own one are forgotten.
Remade(pg, qg, servers) ==
  qg.list = Entries(servers) /\ qg.details["own"].stale /\ qg.details["other"] = pg.details["other"]

LEMMA OwnRemade ==
  ASSUME NEW pg, IsPages(pg), NEW servers, NEW s, s.name = "own",
         NEW qg, \/ qg = Web!updateServerList(Web!markDetailsStale(pg, s), servers)
                 \/ qg = Web!markDetailsStale(Web!updateServerList(pg, servers), s)
  PROVE  IsPages(qg) /\ Remade(pg, qg, servers)
<1>1. s.name \in Sites /\ "other" \in Sites /\ "other" # s.name
  BY Names2
<1>2. /\ IsPages(qg) /\ qg.list = Entries(servers) /\ qg.details[s.name].stale
      /\ \A other \in Sites : other # s.name => qg.details[other] = pg.details[other]
  BY <1>1, PagesRemade
<1> QED  BY <1>1, <1>2 DEF Remade

\* What the pages become by a line.
LEMMA BrowsedPages ==
  ASSUME IsPages(pages), NEW l, l = Head(rx), NEW qg, qg = Browsed
  PROVE  /\ IsPages(qg)
         /\ l.kind = "pong" => /\ qg.details = pages.details
                               /\ qg.list = Append(pages.list, Web!server_as_json(Own(Full)))
         /\ l.kind = "enter" => Remade(pages, qg, Servers(Heard))
         /\ l.kind = "exit" => \/ qg = pages /\ (l.by.who \notin DOMAIN server.players \/ server.state = "travelling")
                               \/ Remade(pages, qg, Servers(server))
         /\ l.kind = "loaded" => Remade(pages, qg, Servers(server))
         /\ l.kind \notin {"pong", "enter", "exit", "loaded"} => qg = pages
<1>1. \A s : Own(s).name = "own"
  BY DEF Own
<1>2. CASE l.kind = "pong"
  <2>1. qg = Web!addServerToServerList(pages, Servers(Full), Own(Full))
    BY <1>2 DEF Browsed, Web!RenX_OnServerFullyConnected
  <2>2. PICK s : s = Own(Full)
    OBVIOUS
  <2>3. PICK servers : servers = Servers(Full)
    OBVIOUS
  <2>4. IsPages(qg) /\ qg.details = pages.details /\ qg.list = Append(pages.list, Web!server_as_json(s))
    BY <2>1, <2>2, <2>3, PagesAdded
  <2> QED  BY <1>2, <2>2, <2>4
<1>3. CASE l.kind = "enter"
  <2>1. qg = Web!updateServerList(Web!markDetailsStale(pages, Own(Heard)), Servers(Heard))
    BY <1>3 DEF Browsed, Web!RenX_OnJoin
  <2>2. PICK s : s = Own(Heard)
    OBVIOUS
  <2>3. PICK servers : servers = Servers(Heard)
    OBVIOUS
  <2>4. s.name = "own" /\ qg = Web!updateServerList(Web!markDetailsStale(pages, s), servers)
    BY <1>1, <2>1, <2>2, <2>3
  <2>5. IsPages(qg) /\ Remade(pages, qg, servers)
    BY <2>4, OwnRemade
  <2> QED  BY <1>3, <2>3, <2>5
<1>4. CASE l.kind = "exit" /\ l.by.who \in Context.listed
  <2>1. qg = Web!RenX_OnPart(pages, Servers(server), Own(server), Context.leftBehind)
    BY <1>4 DEF Browsed
  <2>2. CASE Context.leftBehind
    <3>1. qg = pages /\ server.state = "travelling"
      BY <2>1, <2>2 DEF Web!RenX_OnPart, Context
    <3> QED  BY <1>4, <3>1
  <2>3. CASE ~Context.leftBehind
    <3>1. qg = Web!updateServerList(Web!markDetailsStale(pages, Own(server)), Servers(server))
      BY <2>1, <2>3 DEF Web!RenX_OnPart
    <3>2. PICK s : s = Own(server)
      OBVIOUS
    <3>3. PICK servers : servers = Servers(server)
      OBVIOUS
    <3>4. s.name = "own" /\ qg = Web!updateServerList(Web!markDetailsStale(pages, s), servers)
      BY <1>1, <3>1, <3>2, <3>3
    <3>5. IsPages(qg) /\ Remade(pages, qg, servers)
      BY <3>4, OwnRemade
    <3> QED  BY <1>4, <3>3, <3>5
  <2> QED  BY <2>2, <2>3
<1>5. CASE l.kind = "loaded"
  <2>1. qg = Web!updateServerList(Web!markDetailsStale(pages, Own(server)), Servers(server))
    BY <1>5 DEF Browsed, Web!RenX_OnMapLoad
  <2>2. PICK s : s = Own(server)
    OBVIOUS
  <2>3. PICK servers : servers = Servers(server)
    OBVIOUS
  <2>4. s.name = "own" /\ qg = Web!updateServerList(Web!markDetailsStale(pages, s), servers)
    BY <1>1, <2>1, <2>2, <2>3
  <2>5. IsPages(qg) /\ Remade(pages, qg, servers)
    BY <2>4, OwnRemade
  <2> QED  BY <1>5, <2>3, <2>5
<1>6. CASE l.kind \notin {"pong", "enter", "loaded"} /\ ~(l.kind = "exit" /\ l.by.who \in Context.listed)
  <2>1. qg = pages
    BY <1>6 DEF Browsed
  <2>2. l.kind = "exit" => l.by.who \notin DOMAIN server.players
    BY <1>6 DEF Context
  <2> QED  BY <1>6, <2>1, <2>2
<1> QED  BY <1>2, <1>3, <1>4, <1>5, <1>6

----------------------------------------------------------------------------
(***************************************************************************)
(* Steps of the bot                                                        *)
(***************************************************************************)
\* The server has read what c knows, in a match.
Becomes(s, c, match) ==
  s = [up |-> TRUE, informed |-> c.informed, full |-> c.full, state |-> c.state, seamless |-> c.seamless,
       match |-> match, players |-> c.players]

LEMMA BecomesServer ==
  ASSUME NEW c, Kept(c), NEW match \in Nat, NEW s, Becomes(s, c, match),
         c = [players |-> c.players, state |-> c.state, seamless |-> c.seamless, informed |-> c.informed,
              full |-> c.full, hall |-> c.hall]
  PROVE  IsServer(s) /\ Mind(s, c.hall) = c
<1>1. /\ s.up = TRUE /\ s.informed = c.informed /\ s.full = c.full /\ s.state = c.state /\ s.seamless = c.seamless
      /\ s.match = match /\ s.players = c.players
  BY DEF Becomes
<1>2. s = [up |-> s.up, informed |-> s.informed, full |-> s.full, state |-> s.state, seamless |-> s.seamless,
           match |-> s.match, players |-> s.players]
  BY <1>1 DEF Becomes
<1>3. IsServer(s)
  BY <1>1, <1>2 DEF IsServer, Kept
<1>4. Mind(s, c.hall) = c
  BY <1>1 DEF Mind
<1> QED  BY <1>3, <1>4

LEMMA Attends ==
  ASSUME NEW b, b = Mind(server, hall)
  PROVE  Attended = Hearing(b, Head(rx))
<1>1. b.state = server.state /\ b.seamless = server.seamless /\ b.players = server.players /\ b.hall = hall
  BY DEF Mind
<1>2. Context = ContextOf(b)
  BY <1>1 DEF Context, ContextOf
<1>3. PICK told : told = Tells(Head(rx), ContextOf(b))
  OBVIOUS
<1>4. Told = told
  BY <1>2, <1>3 DEF Told
<1> QED  BY <1>1, <1>3, <1>4 DEF Attended, Hearing

\* What is known when a line is read.
Reads1(b, l, c) ==
  /\ server.up /\ Informs(b, rx, tx, game) /\ Kept(b) /\ Due(b, l, c) /\ Queue(rx) /\ rx # <<>>
  /\ b = Mind(server, hall) /\ l = Head(rx) /\ c = Reading(b, l) /\ l \in Range(rx)

LEMMA Hears ==
  ASSUME Knows, NEW kinds, Processes(kinds)
  PROVE  \E b, l, c : Reads1(b, l, c) /\ l.kind \in kinds
<1>1. PICK b : b = Mind(server, hall)
  OBVIOUS
<1>2. PICK l : l = Head(rx)
  OBVIOUS
<1>3. PICK c : c = Reading(b, l)
  OBVIOUS
<1>4. server.up /\ rx # <<>> /\ l.kind \in kinds
  BY <1>2 DEF Processes
<1>5. Informs(b, rx, tx, game) /\ Queue(rx)
  BY <1>1, <1>4 DEF Knows, Connected, Typed
<1>6. PICK m : Trail(m, b, rx)
  BY <1>5 DEF Informs, Story
<1>7. Due(b, l, c)
  <2>1. c = Reading(b, Head(rx))
    BY <1>2, <1>3
  <2>2. PICK r : r = Tail(rx)
    OBVIOUS
  <2>3. m[0] = b /\ m[1] = c /\ Due(b, Head(rx), c)
    BY <1>4, <1>5, <1>6, <2>1, <2>2, TrailShortened
  <2> QED  BY <1>2, <2>3
<1>8. Kept(b)
  BY <1>6 DEF Trail
<1>9. l \in Range(rx)
  <2>1. PICK r : r = Tail(rx)
    OBVIOUS
  <2> QED  BY <1>2, <1>4, <1>5, <2>1, Tailed
<1>10. Reads1(b, l, c)
  BY <1>1, <1>2, <1>3, <1>4, <1>5, <1>7, <1>8, <1>9 DEF Reads1
<1> QED  BY <1>4, <1>10

LEMMA ServerNow ==
  ASSUME Knows
  PROVE  /\ server = [up |-> server.up, informed |-> server.informed, full |-> server.full, state |-> server.state,
                      seamless |-> server.seamless, match |-> server.match, players |-> server.players]
         /\ bot = [server |-> server, timer |-> bot.timer, other |-> bot.other]
         /\ bot.timer \in Timers /\ bot.other \in BOOLEAN /\ server.match \in Nat /\ IsServer(server)
         /\ Sure(bot.timer, server) /\ bot.timer = [on |-> bot.timer.on, sure |-> bot.timer.sure,
                                                    state |-> bot.timer.state, match |-> bot.timer.match]
<1>1. IsBot(bot) /\ Sure(bot.timer, server)
  BY DEF Knows, Typed, Timed, server
<1> QED  BY <1>1 DEF IsBot, IsServer, server, Timers

\* A line has been read, the timer is t, and the command of the reader, if any, is sent.
\* The bot reads the line l: from what b knows to what c knows.
ReadsInto(b, l, c) ==
  /\ Reads1(b, l, c) /\ rx' = Tail(rx) /\ hall' = c.hall /\ pages' = Browsed /\ topic' = topic
  /\ bot'.other = bot.other /\ \E match : Becomes(bot'.server, c, match)
BotRead == \E b, l, c : ReadsInto(b, l, c)

LEMMA BotReads ==
  ASSUME Knows, NEW kinds, Processes(kinds), NEW b, NEW l, NEW c, Reads1(b, l, c), NEW match \in Nat,
         NEW s, Becomes(s, c, match), NEW t \in Timers, Sure(t, s),
         bot' = [server |-> s, timer |-> t, other |-> bot.other],
         NEW rest, rest = tx', Queue(rest), Len(rest) <= MaxSent, Answers(rest) = Answers(tx),
         \A x \in Range(tx) : x \in Range(rest), \A x \in Range(rest) : x \in Orders,
         \A u \in VoteTeams, p \in VoteBanned : Calls(l, u, p) /\ c.players[p].known => <<"cancel", u>> \in Range(rest),
         \A u \in VoteTeams : <<"cancel", u>> \in Range(rest) => Awaits(rx, tx, u)
  PROVE  Knows' /\ BotRead
<1>1. /\ Informs(b, rx, tx, game) /\ Kept(b) /\ Kept(c) /\ Queue(rx) /\ rx # <<>> /\ b = Mind(server, hall)
      /\ l = Head(rx) /\ c = Reading(b, l) /\ l \in Range(rx) /\ server.up
  BY DEF Reads1, Due
<1>2. PICK r : r = rx'
  OBVIOUS
<1>3. /\ r = Tail(rx) /\ hall' = Attended /\ pages' = Browsed
      /\ topic' = topic /\ game' = game /\ connects' = connects
  BY <1>2 DEF Processes
<1>4. /\ Queue(r) /\ Len(rx) = Len(r) + 1 /\ \A x : x \in Range(rx) <=> x = l \/ x \in Range(r)
  BY <1>1, <1>3, Tailed
<1>5. /\ topic \in Topics /\ connects \in 0 .. MaxConnects[topic] /\ IsGame(game, MaxDeeds[topic])
      /\ IsBot(bot) /\ IsPages(pages) /\ Len(rx) <= MaxLines
      /\ \A x \in Range(rx) : x.kind = "votecalled" => x.team \in VoteTeams
  BY DEF Knows, Typed
<1>6. hall' = c.hall /\ c.hall \subseteq Clients
  <2>1. Attended = Hearing(b, l)
    BY <1>1, Attends
  <2>2. c.hall = Hearing(b, l)
    BY <1>1, ReadingOf
  <2> QED  BY <1>1, <1>3, <2>1, <2>2 DEF Kept
<1>7. IsServer(s) /\ Mind(s, c.hall) = c
  <2>1. c = [players |-> c.players, state |-> c.state, seamless |-> c.seamless, informed |-> c.informed,
             full |-> c.full, hall |-> c.hall]
    BY <1>1 DEF Reading
  <2> QED  BY <1>1, <2>1, BecomesServer
<1>8. PICK after : after = bot'
  OBVIOUS
<1>9. after = [server |-> s, timer |-> t, other |-> bot.other] /\ server' = s
  BY <1>8 DEF server
<1>10. IsBot(after)
  <2>1. after.server = s /\ after.timer = t /\ after.other = bot.other
    BY <1>9
  <2> QED  BY <1>5, <1>7, <1>9, <2>1 DEF IsBot
<1>11. PICK qg : qg = Browsed
  OBVIOUS
<1>12. IsPages(qg) /\ pages' = qg
  BY <1>1, <1>3, <1>5, <1>11, BrowsedPages
<1>13. Len(r) <= MaxLines
  <2>1. Len(r) \in Nat /\ MaxLines \in Nat
    BY <1>4, QueueShape, GameAssumption
  <2> QED  BY <1>4, <1>5, <2>1
<1>14. Typed'
  <2>1. \A x \in Range(r) : x.kind = "votecalled" => x.team \in VoteTeams
    BY <1>4, <1>5
  <2> QED  BY <1>2, <1>3, <1>4, <1>5, <1>6, <1>8, <1>10, <1>12, <1>13, <2>1 DEF Typed
<1>15. Connected'
  <2>1. Informs(c, r, rest, game)
    BY <1>1, <1>3, InformsLess
  <2>2. s.up
    BY DEF Becomes
  <2> QED  BY <1>2, <1>3, <1>6, <1>7, <1>9, <2>1, <2>2 DEF Connected
<1>16. Timed'
  <2>1. after.timer = t /\ after.server = s
    BY <1>9
  <2> QED  BY <1>8, <2>1 DEF Timed
<1>17. Innocent'
  <2>1. Spared(rx, tx, game.votes)
    BY DEF Knows, Innocent
  <2>2. \A u \in VoteTeams : Awaits(r, rest, u) => Awaits(rx, tx, u)
    BY <1>4 DEF Awaits
  <2>3. Spared(r, rest, game.votes)
    BY <2>1, <2>2 DEF Spared
  <2> QED  BY <1>2, <1>3, <2>3 DEF Innocent
<1>18. BotRead
  <2>1. after.server = s /\ after.other = bot.other
    BY <1>9
  <2>2. ReadsInto(b, l, c)
    BY <1>2, <1>3, <1>6, <1>8, <2>1 DEF ReadsInto
  <2> QED  BY <2>2 DEF BotRead
<1> QED  BY <1>14, <1>15, <1>16, <1>17, <1>18 DEF Knows

\* The same when nothing is sent.
LEMMA BotHears ==
  ASSUME Knows, NEW kinds, Processes(kinds), NEW b, NEW l, NEW c, Reads1(b, l, c), NEW match \in Nat,
         NEW s, Becomes(s, c, match), NEW t \in Timers, Sure(t, s),
         bot' = [server |-> s, timer |-> t, other |-> bot.other],
         UNCHANGED tx, l.kind # "votecalled"
  PROVE  Knows' /\ BotRead
<1>1. tx' = tx /\ Queue(tx) /\ Len(tx) <= MaxSent /\ \A x \in Range(tx) : x \in Orders
  BY DEF Knows, Typed
<1>2. \A u \in VoteTeams, p \in VoteBanned : Calls(l, u, p) /\ c.players[p].known => <<"cancel", u>> \in Range(tx)
  BY DEF Calls
<1>3. \A u \in VoteTeams : <<"cancel", u>> \in Range(tx) => Awaits(rx, tx, u)
  BY DEF Awaits
<1>4. PICK rest : rest = tx'
  OBVIOUS
<1>5. rest = tx
  BY <1>1, <1>4
<1> QED  BY <1>1, <1>2, <1>3, <1>4, <1>5, BotReads

LEMMA ReadFields ==
  ASSUME NEW b, NEW l, NEW c, Reads1(b, l, c)
  PROVE  /\ l = Head(rx) /\ server.up /\ c.players = After(server.players, l)
         /\ l.kind \notin Marking => c.state = server.state
         /\ l.kind = "changing" => c.state = "travelling"
         /\ l.kind = "loaded" => c.state = "pending"
         /\ l.kind = "start" => c.state = "playing"
         /\ l.kind = "matchend" => c.state = "over"
         /\ l.kind = "info" => c.state = l.state
         /\ l.kind = "changing" => c.seamless = l.seamless
         /\ l.kind # "changing" => c.seamless = server.seamless
         /\ l.kind = "info" => c.informed = TRUE
         /\ l.kind # "info" => c.informed = server.informed
         /\ l.kind = "pong" => c.full = TRUE
         /\ l.kind # "pong" => c.full = server.full
         /\ Heard.players = c.players
<1>1. b = Mind(server, hall) /\ l = Head(rx) /\ c = Reading(b, l) /\ server.up
  BY DEF Reads1
<1>2. /\ b.players = server.players /\ b.state = server.state /\ b.seamless = server.seamless
      /\ b.informed = server.informed /\ b.full = server.full
  BY <1>1 DEF Mind
<1>3. c.players = After(b.players, l) /\ c.state = StateAfter(b, l)
      /\ c.seamless = (IF l.kind = "changing" THEN l.seamless ELSE b.seamless)
      /\ c.informed = (IF l.kind = "info" THEN TRUE ELSE b.informed)
      /\ c.full = (IF l.kind = "pong" THEN TRUE ELSE b.full)
  BY <1>1 DEF Reading
<1>4. Heard.players = After(server.players, l)
  <2>1. PICK ps : ps = After(server.players, l)
    OBVIOUS
  <2> QED  BY <1>1, <2>1 DEF Heard
<1>5. l = Head(rx) /\ server.up
  BY ONLY <1>1
<1>6. c.players = After(server.players, l) /\ Heard.players = c.players
  BY ONLY <1>2, <1>3, <1>4
<1>7. /\ l.kind \notin Marking => c.state = server.state
      /\ l.kind = "changing" => c.state = "travelling"
      /\ l.kind = "loaded" => c.state = "pending"
      /\ l.kind = "start" => c.state = "playing"
      /\ l.kind = "matchend" => c.state = "over"
      /\ l.kind = "info" => c.state = l.state
  BY ONLY <1>2, <1>3, StateOf
<1>8. /\ l.kind = "changing" => c.seamless = l.seamless
      /\ l.kind # "changing" => c.seamless = server.seamless
  BY ONLY <1>2, <1>3
<1>9. /\ l.kind = "info" => c.informed = TRUE
      /\ l.kind # "info" => c.informed = server.informed
  BY ONLY <1>2, <1>3, ZenonT(20)
<1>10. /\ l.kind = "pong" => c.full = TRUE
       /\ l.kind # "pong" => c.full = server.full
  BY ONLY <1>2, <1>3, ZenonT(20)
<1> QED  BY ONLY <1>5, <1>6, <1>7, <1>8, <1>9, <1>10

LEMMA NothingTold ==
  ASSUME NEW ps, NEW l, l.kind \in {"loaded", "start", "info", "pong"}
  PROVE  After(ps, l) = ps
BY DEF After

LEMMA ReadNothing ==
  ASSUME NEW b, NEW l, NEW c, Reads1(b, l, c), l.kind \in {"loaded", "start", "info", "pong"}
  PROVE  c.players = server.players
<1>1. PICK ps : ps = server.players
  OBVIOUS
<1>2. c.players = After(server.players, l)
  BY ReadFields
<1>3. After(ps, l) = ps
  BY NothingTold
<1> QED  BY <1>1, <1>2, <1>3

LEMMA DueNow ==
  ASSUME NEW b, NEW l, NEW c, Reads1(b, l, c)
  PROVE  /\ server.informed => /\ l.kind = "changing" /\ l.ended => server.state = "over"
                               /\ l.kind = "loaded" => server.state = "travelling"
                               /\ l.kind = "start" => server.state = "pending"
                               /\ l.kind = "info" => l.state = server.state
         /\ LineType(l) /\ Kept(c)
BY DEF Reads1, Due, Mind

LEMMA HeardServer ==
  ASSUME Knows, NEW b, NEW l, NEW c, Reads1(b, l, c)
  PROVE  Heard = [up |-> TRUE, informed |-> server.informed, full |-> server.full, state |-> server.state,
                  seamless |-> server.seamless, match |-> server.match, players |-> c.players]
<1>1. PICK ps : ps = After(server.players, Head(rx))
  OBVIOUS
<1>2. Heard = [server EXCEPT !.players = ps]
  BY <1>1 DEF Heard
<1>3. ps = c.players /\ server.up
  BY <1>1, ReadFields
<1>4. server = [up |-> server.up, informed |-> server.informed, full |-> server.full, state |-> server.state,
                seamless |-> server.seamless, match |-> server.match, players |-> server.players]
      /\ server.up \in BOOLEAN
  BY ServerNow DEF IsServer
<1> QED  BY <1>2, <1>3, <1>4

EventKinds ==
  {"deployed", "disarmed", "exploded", "captured", "neutralized", "stolen", "destroyed", "death",
   "plays", "purchase", "spawn", "crate", "donated", "overmine", "chat", "player", "report",
   "enter", "teamjoin", "exit", "list", "voteover", "votecancelled"}

LEMMA ProcessEventKnows ==
  ASSUME Knows, ProcessEvent
  PROVE  Knows' /\ BotRead
<1>1. Processes(EventKinds) /\ bot' = [bot EXCEPT !.server = Heard] /\ tx' = tx
  BY DEF ProcessEvent, EventKinds
<1>2. PICK b, l, c : Reads1(b, l, c) /\ l.kind \in EventKinds
  BY <1>1, Hears
<1>3. l.kind \notin Marking /\ l.kind # "pong" /\ l.kind # "votecalled"
  BY <1>2 DEF EventKinds, Marking
<1>4. PICK s : s = Heard
  OBVIOUS
<1>5. Becomes(s, c, server.match)
  <2>1. c.state = server.state /\ c.seamless = server.seamless /\ c.informed = server.informed /\ c.full = server.full
    BY <1>2, <1>3, ReadFields, SMTT(30), ZenonT(30) DEF Marking
  <2> QED  BY <1>2, <1>4, <2>1, HeardServer DEF Becomes
<1>6. PICK t : t = bot.timer
  OBVIOUS
<1>7. t \in Timers /\ Sure(t, server) /\ server.match \in Nat
  BY <1>6, ServerNow
<1>8. Sure(t, s)
  <2>1. s.informed = server.informed /\ s.state = server.state /\ s.match = server.match
    BY <1>2, <1>4, HeardServer
  <2> QED  BY <1>7, <2>1 DEF Sure
<1>9. bot' = [server |-> s, timer |-> t, other |-> bot.other]
  BY <1>1, <1>4, <1>6, ServerNow
<1> QED  BY <1>1, <1>2, <1>3, <1>5, <1>7, <1>8, <1>9, BotHears

LEMMA MatchEndHeard ==
  ASSUME Knows, MatchEnd
  PROVE  Knows' /\ BotRead
<1>1. Processes({"matchend"}) /\ bot' = [bot EXCEPT !.server = [Heard EXCEPT !.state = "over"], !.timer = NoTimer]
      /\ tx' = tx
  BY DEF MatchEnd
<1>2. PICK b, l, c : Reads1(b, l, c) /\ l.kind = "matchend"
  BY <1>1, Hears
<1>4. PICK s : s = [Heard EXCEPT !.state = "over"]
  OBVIOUS
<1>5. Becomes(s, c, server.match)
  <2>1. c.state = "over" /\ c.seamless = server.seamless /\ c.informed = server.informed /\ c.full = server.full
    <3>1. c.state = "over"
      BY <1>2, ReadFields
    <3>2. c.seamless = server.seamless
      BY <1>2, ReadFields
    <3>3. c.informed = server.informed
      BY <1>2, ReadFields
    <3>4. c.full = server.full
      BY <1>2, ReadFields
    <3> QED  BY <3>1, <3>2, <3>3, <3>4
  <2>2. PICK hs : hs = Heard
    OBVIOUS
  <2>3. hs = [up |-> TRUE, informed |-> server.informed, full |-> server.full, state |-> server.state,
              seamless |-> server.seamless, match |-> server.match, players |-> c.players]
    BY <1>2, <2>2, HeardServer
  <2>4. s = [hs EXCEPT !.state = "over"]
    BY <1>4, <2>2
  <2> QED  BY <2>1, <2>3, <2>4 DEF Becomes
<1>6. PICK t : t = NoTimer
  OBVIOUS
<1>7. t \in Timers /\ server.match \in Nat
  BY <1>6, ServerNow DEF Timers, NoTimer, Phases
<1>8. Sure(t, s)
  BY <1>6 DEF Sure, NoTimer
<1>9. bot' = [server |-> s, timer |-> t, other |-> bot.other]
  BY <1>1, <1>4, <1>6, ServerNow
<1>10. l.kind # "votecalled"
  BY <1>2
<1> QED  BY <1>1, <1>2, <1>5, <1>7, <1>8, <1>9, <1>10, BotHears

LEMMA MapChangingHeard ==
  ASSUME Knows, MapChanging
  PROVE  Knows' /\ BotRead
<1>1. Processes({"changing"}) /\ tx' = tx
  BY DEF MapChanging
<1>2. PICK b, l, c : Reads1(b, l, c) /\ l.kind = "changing"
  BY <1>1, Hears
<1>3. l = Head(rx) /\ l.seamless \in BOOLEAN /\ l.ended \in BOOLEAN /\ l.match \in Nat
  BY <1>2, ReadFields, DueNow DEF LineType
<1>4. PICK s : s = [Heard EXCEPT !.state = "travelling", !.seamless = l.seamless, !.match = l.match]
  OBVIOUS
<1>5. Becomes(s, c, l.match) /\ s.match = l.match /\ s.state = "travelling" /\ s.informed = server.informed
  <2>1. c.state = "travelling" /\ c.seamless = l.seamless /\ c.informed = server.informed /\ c.full = server.full
    <3>1. c.state = "travelling"
      BY <1>2, ReadFields
    <3>2. c.seamless = l.seamless
      BY <1>2, ReadFields
    <3>3. c.informed = server.informed
      BY <1>2, ReadFields, SMTT(30), ZenonT(30)
    <3>4. c.full = server.full
      BY <1>2, ReadFields
    <3> QED  BY <3>1, <3>2, <3>3, <3>4
  <2>2. PICK hs : hs = Heard
    OBVIOUS
  <2>3. hs = [up |-> TRUE, informed |-> server.informed, full |-> server.full, state |-> server.state,
              seamless |-> server.seamless, match |-> server.match, players |-> c.players]
    BY <1>2, <2>2, HeardServer
  <2>4. s = [hs EXCEPT !.state = "travelling", !.seamless = l.seamless, !.match = l.match]
    BY <1>4, <2>2
  <2>5. s = [up |-> TRUE, informed |-> server.informed, full |-> server.full, state |-> "travelling",
             seamless |-> l.seamless, match |-> l.match, players |-> c.players]
    BY <2>3, <2>4
  <2> QED  BY <2>1, <2>5 DEF Becomes
<1>6. PICK t : t = [on |-> bot.timer.on, sure |-> bot.timer.sure /\ l.ended, state |-> bot.timer.state,
                    match |-> bot.timer.match]
  OBVIOUS
<1>7. t \in Timers
  BY <1>3, <1>6, ServerNow DEF Timers
<1>8. Sure(t, s)
  <2> SUFFICES ASSUME t.sure PROVE s.informed /\ t.state # "playing"
    BY <1>5 DEF Sure
  <2>1. bot.timer.sure /\ l.ended /\ t.state = bot.timer.state
    BY <1>6
  <2>2. server.informed /\ (bot.timer.state = "playing" => server.state = "playing")
    BY <2>1, ServerNow DEF Sure
  <2>3. server.state = "over"
    BY <1>2, <2>1, <2>2, DueNow
  <2> QED  BY <1>5, <2>1, <2>2, <2>3
<1>9. bot' = [server |-> s, timer |-> t, other |-> bot.other]
  <2>1. bot' = [bot EXCEPT !.server = s, !.timer.sure = bot.timer.sure /\ l.ended]
    BY <1>3, <1>4 DEF MapChanging
  <2>2. PICK mid : mid = [server |-> s, timer |-> bot.timer, other |-> bot.other]
    OBVIOUS
  <2>3. mid = [bot EXCEPT !.server = s]
    BY <2>2, ServerNow
  <2>4. PICK sure : sure = (bot.timer.sure /\ l.ended)
    OBVIOUS
  <2>5. bot' = [mid EXCEPT !.timer.sure = sure]
    BY <2>1, <2>3, <2>4
  <2>6. [bot.timer EXCEPT !.sure = sure] = t
    BY <1>6, <2>4, ServerNow
  <2>7. bot' = [mid EXCEPT !.timer = [@ EXCEPT !.sure = sure]]
    BY <2>5
  <2> QED  BY <2>2, <2>6, <2>7
<1>10. l.kind # "votecalled"
  BY <1>2
<1> QED  BY <1>1, <1>2, <1>3, <1>5, <1>7, <1>8, <1>9, <1>10, BotHears

LEMMA MapLoadedHeard ==
  ASSUME Knows, MapLoaded
  PROVE  Knows' /\ BotRead
<1>1. Processes({"loaded"}) /\ tx' = tx
  BY DEF MapLoaded
<1>2. PICK b, l, c : Reads1(b, l, c) /\ l.kind = "loaded"
  BY <1>1, Hears
<1>4. PICK s : s = [server EXCEPT !.state = "pending"]
  OBVIOUS
<1>5. Becomes(s, c, server.match) /\ s.match = server.match /\ s.informed = server.informed
  <2>1. c.state = "pending" /\ c.seamless = server.seamless /\ c.informed = server.informed /\ c.full = server.full
        /\ c.players = server.players /\ server.up
    <3>1. c.state = "pending"
      BY <1>2, ReadFields
    <3>2. c.seamless = server.seamless
      BY <1>2, ReadFields
    <3>3. c.informed = server.informed
      BY <1>2, ReadFields
    <3>4. c.full = server.full
      BY <1>2, ReadFields
    <3>5. server.up
      BY <1>2, ReadFields
    <3>6. c.players = server.players
      BY <1>2, ReadNothing
    <3> QED  BY <3>1, <3>2, <3>3, <3>4, <3>5, <3>6
  <2>2. server.up \in BOOLEAN
    BY ServerNow DEF IsServer
  <2> QED  BY <1>4, <2>1, <2>2, ServerNow DEF Becomes
<1>6. PICK t : t = bot.timer
  OBVIOUS
<1>7. t \in Timers /\ Sure(t, server) /\ server.match \in Nat
  BY <1>6, ServerNow
<1>8. Sure(t, s)
  BY <1>2, <1>5, <1>7, DueNow DEF Sure
<1>9. bot' = [server |-> s, timer |-> t, other |-> bot.other]
  <2>1. bot' = [bot EXCEPT !.server.state = "pending"]
    BY DEF MapLoaded
  <2> QED  BY <1>4, <1>6, <2>1, ServerNow
<1>10. l.kind # "votecalled"
  BY <1>2
<1> QED  BY <1>1, <1>2, <1>5, <1>7, <1>8, <1>9, <1>10, BotHears

LEMMA MapStartHeard ==
  ASSUME Knows, MapStart
  PROVE  Knows' /\ BotRead
<1>1. Processes({"start"}) /\ tx' = tx
  BY DEF MapStart
<1>2. PICK b, l, c : Reads1(b, l, c) /\ l.kind = "start"
  BY <1>1, Hears
<1>4. PICK s : s = [server EXCEPT !.state = "playing"]
  OBVIOUS
<1>5. Becomes(s, c, server.match) /\ s.match = server.match /\ s.informed = server.informed
  <2>1. c.state = "playing" /\ c.seamless = server.seamless /\ c.informed = server.informed /\ c.full = server.full
        /\ c.players = server.players /\ server.up
    <3>1. c.state = "playing"
      BY <1>2, ReadFields
    <3>2. c.seamless = server.seamless
      BY <1>2, ReadFields
    <3>3. c.informed = server.informed
      BY <1>2, ReadFields
    <3>4. c.full = server.full
      BY <1>2, ReadFields
    <3>5. server.up
      BY <1>2, ReadFields
    <3>6. c.players = server.players
      BY <1>2, ReadNothing
    <3> QED  BY <3>1, <3>2, <3>3, <3>4, <3>5, <3>6
  <2>2. server.up \in BOOLEAN
    BY ServerNow DEF IsServer
  <2> QED  BY <1>4, <2>1, <2>2, ServerNow DEF Becomes
<1>6. PICK t : t = bot.timer
  OBVIOUS
<1>7. t \in Timers /\ Sure(t, server) /\ server.match \in Nat
  BY <1>6, ServerNow
<1>8. Sure(t, s)
  BY <1>2, <1>5, <1>7, DueNow DEF Sure
<1>9. bot' = [server |-> s, timer |-> t, other |-> bot.other]
  <2>1. bot' = [bot EXCEPT !.server.state = "playing"]
    BY DEF MapStart
  <2> QED  BY <1>4, <1>6, <2>1, ServerNow
<1>10. l.kind # "votecalled"
  BY <1>2
<1> QED  BY <1>1, <1>2, <1>5, <1>7, <1>8, <1>9, <1>10, BotHears

LEMMA GameInfoHeard ==
  ASSUME Knows, GameInfo
  PROVE  Knows' /\ BotRead
<1>1. Processes({"info"}) /\ tx' = tx
  BY DEF GameInfo
<1>2. PICK b, l, c : Reads1(b, l, c) /\ l.kind = "info"
  BY <1>1, Hears
<1>3. l = Head(rx)
  BY <1>2, ReadFields
<1>4. PICK s : s = [server EXCEPT !.state = l.state, !.informed = TRUE]
  OBVIOUS
<1>5. Becomes(s, c, server.match) /\ s.match = server.match /\ s.informed = TRUE /\ s.state = l.state
  <2>1. c.state = l.state /\ c.seamless = server.seamless /\ c.informed = TRUE /\ c.full = server.full
        /\ c.players = server.players /\ server.up
    <3>1. c.state = l.state
      BY <1>2, ReadFields, SMTT(30), ZenonT(30)
    <3>2. c.seamless = server.seamless
      BY <1>2, ReadFields
    <3>3. c.informed = TRUE
      BY <1>2, ReadFields
    <3>4. c.full = server.full
      BY <1>2, ReadFields
    <3>5. server.up
      BY <1>2, ReadFields
    <3>6. c.players = server.players
      BY <1>2, ReadNothing
    <3> QED  BY <3>1, <3>2, <3>3, <3>4, <3>5, <3>6
  <2>2. server.up \in BOOLEAN
    BY ServerNow DEF IsServer
  <2> QED  BY <1>4, <2>1, <2>2, ServerNow DEF Becomes
<1>6. PICK t : t = bot.timer
  OBVIOUS
<1>7. t \in Timers /\ Sure(t, server) /\ server.match \in Nat
  BY <1>6, ServerNow
<1>8. Sure(t, s)
  BY <1>2, <1>5, <1>7, DueNow DEF Sure
<1>9. bot' = [server |-> s, timer |-> t, other |-> bot.other]
  <2>1. bot' = [bot EXCEPT !.server.state = l.state, !.server.informed = TRUE]
    BY <1>3 DEF GameInfo
  <2>2. PICK mid : mid = [server EXCEPT !.state = l.state]
    OBVIOUS
  <2>3. PICK half : half = [bot EXCEPT !.server.state = l.state]
    OBVIOUS
  <2>4. bot' = [half EXCEPT !.server.informed = TRUE]
    BY <2>1, <2>3
  <2>5. half = [server |-> mid, timer |-> bot.timer, other |-> bot.other]
    BY <2>2, <2>3, ServerNow
  <2>6. s = [mid EXCEPT !.informed = TRUE]
    BY <1>4, <2>2
  <2> QED  BY <1>6, <2>4, <2>5, <2>6
<1>10. l.kind # "votecalled"
  BY <1>2
<1> QED  BY <1>1, <1>2, <1>5, <1>7, <1>8, <1>9, <1>10, BotHears

LEMMA FullyConnectedHeard ==
  ASSUME Knows, FullyConnected
  PROVE  Knows' /\ BotRead
<1>1. Processes({"pong"}) /\ tx' = tx
  BY DEF FullyConnected
<1>2. PICK b, l, c : Reads1(b, l, c) /\ l.kind = "pong"
  BY <1>1, Hears
<1>4. PICK s : s = Full
  OBVIOUS
<1>5. Becomes(s, c, server.match) /\ s.match = server.match /\ s.informed = server.informed /\ s.state = server.state
  <2>1. c.state = server.state /\ c.seamless = server.seamless /\ c.informed = server.informed /\ c.full = TRUE
        /\ c.players = server.players /\ server.up
    <3>1. c.state = server.state
      BY <1>2, ReadFields DEF Marking
    <3>2. c.seamless = server.seamless
      BY <1>2, ReadFields DEF Marking
    <3>3. c.informed = server.informed
      BY <1>2, ReadFields, SMTT(30), ZenonT(30) DEF Marking
    <3>4. c.full = TRUE
      BY <1>2, ReadFields DEF Marking
    <3>5. server.up
      BY <1>2, ReadFields DEF Marking
    <3>6. c.players = server.players
      BY <1>2, ReadNothing
    <3> QED  BY <3>1, <3>2, <3>3, <3>4, <3>5, <3>6
  <2>2. server.up \in BOOLEAN
    BY ServerNow DEF IsServer
  <2> QED  BY <1>4, <2>1, <2>2, ServerNow DEF Becomes, Full
<1>6. PICK t : t = bot.timer
  OBVIOUS
<1>7. t \in Timers /\ Sure(t, server) /\ server.match \in Nat
  BY <1>6, ServerNow
<1>8. Sure(t, s)
  BY <1>5, <1>7 DEF Sure
<1>9. bot' = [server |-> s, timer |-> t, other |-> bot.other]
  <2>1. bot' = [bot EXCEPT !.server = Full]
    BY DEF FullyConnected
  <2> QED  BY <1>4, <1>6, <2>1, ServerNow
<1>10. l.kind # "votecalled"
  BY <1>2
<1> QED  BY <1>1, <1>2, <1>5, <1>7, <1>8, <1>9, <1>10, BotHears

LEMMA VoteCalledHeard ==
  ASSUME Knows, VoteCalled
  PROVE  Knows' /\ BotRead
<1>1. Processes({"votecalled"}) /\ Len(tx) < MaxSent /\ bot' = [bot EXCEPT !.server = Heard]
  BY DEF VoteCalled
<1>2. PICK b, l, c : Reads1(b, l, c) /\ l.kind = "votecalled"
  BY <1>1, Hears
<1>3. l.kind \notin Marking /\ l.kind # "pong" /\ l.kind # "changing" /\ l.kind # "info"
  BY <1>2 DEF Marking
<1>4. PICK s : s = Heard
  OBVIOUS
<1>5a. s = [up |-> TRUE, informed |-> server.informed, full |-> server.full, state |-> server.state,
            seamless |-> server.seamless, match |-> server.match, players |-> c.players]
  BY <1>2, <1>4, HeardServer
<1>5. Becomes(s, c, server.match)
  <2>1. c.state = server.state
    BY <1>2, <1>3, ReadFields
  <2>2. c.seamless = server.seamless
    BY <1>2, <1>3, ReadFields
  <2>3. c.informed = server.informed
    BY <1>2, <1>3, ReadFields
  <2>4. c.full = server.full
    BY <1>2, <1>3, ReadFields
  <2> QED  BY <1>5a, <2>1, <2>2, <2>3, <2>4 DEF Becomes
<1>6. PICK t : t = bot.timer
  OBVIOUS
<1>7. t \in Timers /\ Sure(t, server) /\ server.match \in Nat
  BY <1>6, ServerNow
<1>8. Sure(t, s)
  BY <1>5a, <1>7 DEF Sure
<1>9. bot' = [server |-> s, timer |-> t, other |-> bot.other]
  BY <1>1, <1>4, <1>6, ServerNow
<1>10. PICK rest : rest = tx'
  OBVIOUS
<1>11. l = Head(rx) /\ l \in Range(rx)
  BY <1>2 DEF Reads1
<1>12. PICK falls : falls = (l.by.who \in VoteBanned /\ c.players[l.by.who].known)
  OBVIOUS
<1>13. rest = IF falls THEN Append(tx, <<"cancel", l.team>>) ELSE tx
  <2>1. bot'.server.players = c.players
    BY <1>5a, <1>9
  <2> QED  BY <1>10, <1>11, <1>12, <2>1 DEF VoteCalled
<1>14. Queue(tx) /\ Len(tx) <= MaxSent /\ (\A x \in Range(tx) : x \in Orders) /\ l.team \in VoteTeams
  BY <1>2, <1>11 DEF Knows, Typed
<1>15. \A u \in VoteTeams : <<"cancel", u>> \in Range(tx) => Awaits(rx, tx, u)
  BY DEF Awaits
<1>16. CASE falls
  <2>1. PICK x : x = <<"cancel", l.team>>
    OBVIOUS
  <2>2. rest = Append(tx, x)
    BY <1>13, <1>16, <2>1
  <2>3. Queue(rest) /\ Len(rest) = Len(tx) + 1 /\ \A y : y \in Range(rest) <=> y \in Range(tx) \/ y = x
    BY <1>14, <2>2, Appended
  <2>4. Len(rest) <= MaxSent
    BY <1>1, <1>14, <2>3, QueueShape, GameAssumption
  <2>5. Answers(rest) = Answers(tx)
    <3>1. x # <<"list", Empty>>
      BY <2>1
    <3> QED  BY <2>3, <3>1 DEF Answers
  <2>6. \A y \in Range(rest) : y \in Orders
    <3>1. x \in Orders
      BY <1>14, <2>1 DEF Orders
    <3> QED  BY <1>14, <2>3, <3>1
  <2>7. \A u \in VoteTeams, p \in VoteBanned : Calls(l, u, p) /\ c.players[p].known => <<"cancel", u>> \in Range(rest)
    BY <2>1, <2>3 DEF Calls
  <2>8. \A u \in VoteTeams : <<"cancel", u>> \in Range(rest) => Awaits(rx, tx, u)
    <3> SUFFICES ASSUME NEW u \in VoteTeams, <<"cancel", u>> = x PROVE Awaits(rx, tx, u)
      BY <1>15, <2>3
    <3>1. u = l.team
      BY <2>1
    <3>2. l.by.who \in VoteBanned
      BY <1>12, <1>16
    <3> QED  BY <1>2, <1>11, <3>1, <3>2 DEF Awaits
  <2>9. \A y \in Range(tx) : y \in Range(rest)
    BY <2>3
  <2> QED  BY <1>1, <1>2, <1>5, <1>7, <1>8, <1>9, <1>10, <2>3, <2>4, <2>5, <2>6, <2>7, <2>8, <2>9, BotReads
<1>17. CASE ~falls
  <2>1. rest = tx
    BY <1>13, <1>17
  <2>2. \A u \in VoteTeams, p \in VoteBanned : Calls(l, u, p) /\ c.players[p].known => <<"cancel", u>> \in Range(tx)
    BY <1>12, <1>17 DEF Calls
  <2> QED  BY <1>1, <1>2, <1>5, <1>7, <1>8, <1>9, <1>10, <1>14, <1>15, <2>1, <2>2, BotReads
<1> QED  BY <1>16, <1>17

----------------------------------------------------------------------------
\* A command is sent.
LEMMA InformsSent ==
  ASSUME NEW b, NEW q, NEW sent, NEW g, Informs(b, q, sent, g), NEW rest, Answers(rest) = Answers(sent),
         \A x \in Range(sent) : x \in Range(rest)
  PROVE  Informs(b, q, rest, g)
<1>1. PICK m : Story(m, b, q, sent, g)
  BY DEF Informs
<1>2. AllFall(m, q, rest, g.votes)
  BY <1>1 DEF Story, AllFall, Falls
<1>3. Story(m, b, q, rest, g)
  BY <1>1, <1>2 DEF Story
<1> QED  BY <1>3 DEF Informs

\* What does not touch what the bot knows.
LEMMA BotElse ==
  ASSUME Knows, UNCHANGED <<topic, game, rx, hall, connects>>, NEW t \in Timers, Sure(t, server), NEW other \in BOOLEAN,
         bot' = [server |-> server, timer |-> t, other |-> other], IsPages(pages'),
         \/ tx' = tx
         \/ server.up /\ Len(tx) < MaxSent /\ tx' = Append(tx, <<"endmap", Empty>>)
  PROVE  Knows'
<1>1. PICK rest : rest = tx'
  OBVIOUS
<1>2. /\ topic \in Topics /\ connects \in 0 .. MaxConnects[topic] /\ IsGame(game, MaxDeeds[topic]) /\ Queue(rx)
      /\ IsBot(bot) /\ IsPages(pages) /\ Len(rx) <= MaxLines /\ hall \subseteq Clients /\ Queue(tx) /\ Len(tx) <= MaxSent
      /\ (\A x \in Range(rx) : x.kind = "votecalled" => x.team \in VoteTeams)
      /\ \A x \in Range(tx) : x \in Orders
  BY DEF Knows, Typed
<1>3. /\ Queue(rest) /\ Len(rest) <= MaxSent /\ Answers(rest) = Answers(tx) /\ (\A x \in Range(tx) : x \in Range(rest))
      /\ (\A x \in Range(rest) : x \in Orders)
      /\ \A u \in VoteTeams : <<"cancel", u>> \in Range(rest) => <<"cancel", u>> \in Range(tx)
  <2>1. CASE rest = tx
    BY <1>2, <2>1
  <2>2. CASE Len(tx) < MaxSent /\ rest = Append(tx, <<"endmap", Empty>>)
    <3>1. PICK x : x = <<"endmap", Empty>>
      OBVIOUS
    <3>2. rest = Append(tx, x)
      BY <2>2, <3>1
    <3>3. Queue(rest) /\ Len(rest) = Len(tx) + 1 /\ \A y : y \in Range(rest) <=> y \in Range(tx) \/ y = x
      BY <1>2, <3>2, Appended, SMTT(30), ZenonT(30)
    <3>4. x # <<"list", Empty>> /\ x \in Orders /\ \A u \in VoteTeams : <<"cancel", u>> # x
      BY <3>1 DEF Orders
    <3>5. Len(rest) <= MaxSent
      BY <1>2, <2>2, <3>3, QueueShape, GameAssumption
    <3>6. Answers(rest) = Answers(tx)
      BY <3>3, <3>4 DEF Answers
    <3> QED  BY <1>2, <3>3, <3>4, <3>5, <3>6
  <2> QED  BY <1>1, <2>1, <2>2
<1>4. PICK after : after = bot'
  OBVIOUS
<1>5. after = [server |-> server, timer |-> t, other |-> other] /\ server' = server
  BY <1>4 DEF server
<1>6. IsBot(after) /\ after.timer = t /\ after.server = server
  BY <1>2, <1>5 DEF IsBot, server
<1>7. Typed'
  BY <1>1, <1>2, <1>3, <1>4, <1>6 DEF Typed
<1>8. Connected'
  <2>1. ASSUME server.up PROVE Informs(Mind(server, hall), rx, rest, game)
    <3>1. PICK b : b = Mind(server, hall)
      OBVIOUS
    <3>2. Informs(b, rx, tx, game)
      BY <2>1, <3>1 DEF Knows, Connected
    <3>3. Informs(b, rx, rest, game)
      BY <1>3, <3>2, InformsSent
    <3> QED  BY <3>1, <3>3
  <2>2. ASSUME ~server.up PROVE server = Disconnected /\ rx = <<>> /\ rest = <<>> /\ hall = {} /\ Unseen(game)
    BY <1>1, <2>2 DEF Knows, Connected
  <2> QED  BY <1>1, <1>5, <2>1, <2>2 DEF Connected
<1>9. Timed'
  BY <1>4, <1>6 DEF Timed
<1>10. Innocent'
  <2>1. Spared(rx, tx, game.votes)
    BY DEF Knows, Innocent
  <2>2. Spared(rx, rest, game.votes)
    BY <1>3, <2>1 DEF Spared, Awaits
  <2> QED  BY <1>1, <2>2 DEF Innocent
<1> QED  BY <1>7, <1>8, <1>9, <1>10 DEF Knows

LEMMA UserKnows ==
  ASSUME Knows, GameOverNow \/ GameOverIn \/ GameOverStop \/ GameOverTime
  PROVE  Knows'
<1>1. UNCHANGED <<topic, game, rx, hall, connects>> /\ pages' = pages
  BY DEF GameOverNow, GameOverIn, GameOverStop, GameOverTime, Ask
<1>2. IsPages(pages')
  BY <1>1 DEF Knows, Typed
<1>3. NoTimer \in Timers /\ Sure(NoTimer, server)
  BY DEF NoTimer, Timers, Phases, Sure
<1>4. /\ bot = [server |-> server, timer |-> bot.timer, other |-> bot.other] /\ bot.other \in BOOLEAN
      /\ bot.timer \in Timers /\ Sure(bot.timer, server)
  BY ServerNow
<1>5. CASE GameOverNow
  <2>1. bot' = [server |-> server, timer |-> bot.timer, other |-> bot.other]
    BY <1>4, <1>5 DEF GameOverNow
  <2>2. server.up /\ Len(tx) < MaxSent /\ tx' = Append(tx, <<"endmap", Empty>>)
    BY <1>5 DEF GameOverNow, Send
  <2> QED  BY <1>1, <1>2, <1>4, <2>1, <2>2, BotElse
<1>6. CASE GameOverIn
  <2>1. PICK t : t = [on |-> TRUE, sure |-> server.informed, state |-> server.state, match |-> server.match]
    OBVIOUS
  <2>2. t \in Timers /\ Sure(t, server)
    <3>1. t.sure = server.informed /\ t.state = server.state /\ t.match = server.match
      BY <2>1
    <3>2. server.informed \in BOOLEAN /\ server.state \in Phases /\ server.match \in Nat
      BY ServerNow DEF IsServer
    <3> QED  BY <2>1, <3>1, <3>2 DEF Timers, Sure
  <2>4. bot' = [bot EXCEPT !.timer = t] /\ tx' = tx
    BY <1>6, <2>1 DEF GameOverIn
  <2>3. bot' = [server |-> server, timer |-> t, other |-> bot.other] /\ tx' = tx
    BY <1>4, <2>4
  <2> QED  BY <1>1, <1>2, <1>4, <2>2, <2>3, BotElse
<1>7. CASE GameOverStop
  <2>1. bot' = [server |-> server, timer |-> NoTimer, other |-> bot.other] /\ tx' = tx
    BY <1>4, <1>7 DEF GameOverStop
  <2> QED  BY <1>1, <1>2, <1>3, <1>4, <2>1, BotElse
<1>8. CASE GameOverTime
  <2>1. bot' = [server |-> server, timer |-> NoTimer, other |-> bot.other]
    BY <1>4, <1>8 DEF GameOverTime
  <2>2. server.up /\ Len(tx) < MaxSent /\ tx' = Append(tx, <<"endmap", Empty>>)
    BY <1>8 DEF GameOverTime, Send
  <2> QED  BY <1>1, <1>2, <1>3, <1>4, <2>1, <2>2, BotElse
<1> QED  BY <1>5, <1>6, <1>7, <1>8

LEMMA BrowseKnows ==
  ASSUME Knows, Browse
  PROVE  Knows'
<1>1. UNCHANGED <<topic, game, rx, hall, connects>> /\ tx' = tx /\ bot' = bot
  BY DEF Browse
<1>4. /\ bot = [server |-> server, timer |-> bot.timer, other |-> bot.other] /\ bot.other \in BOOLEAN
      /\ bot.timer \in Timers /\ Sure(bot.timer, server) /\ IsServer(server)
  BY ServerNow
<1>2. IsPages(pages')
  <2>1. PICK s : s = Own(server)
    OBVIOUS
  <2>2. s.name \in Sites /\ s.active \subseteq Clients
    BY <1>4, <2>1, Names2 DEF Own, IsServer, Listing
  <2>3. PICK qg : qg = pages'
    OBVIOUS
  <2>4. qg = Web!touchDetails(pages, s) /\ IsPages(pages)
    BY <2>1, <2>3 DEF Browse, Web!handle_server_page, Knows, Typed
  <2>5. IsPages(qg)
    BY <2>2, <2>4, PagesTouched
  <2> QED  BY <2>3, <2>5
<1>3. bot' = [server |-> server, timer |-> bot.timer, other |-> bot.other]
  BY <1>1, <1>4
<1> QED  BY <1>1, <1>2, <1>3, <1>4, BotElse

LEMMA OtherServerKnows ==
  ASSUME Knows, OtherServer
  PROVE  Knows'
<1>1. UNCHANGED <<topic, game, rx, hall, connects>> /\ tx' = tx
  BY DEF OtherServer
<1>4. /\ bot = [server |-> server, timer |-> bot.timer, other |-> bot.other] /\ bot.other \in BOOLEAN
      /\ bot.timer \in Timers /\ Sure(bot.timer, server)
  BY ServerNow
<1>5. PICK other : other = ~bot.other
  OBVIOUS
<1>3. bot' = [server |-> server, timer |-> bot.timer, other |-> other] /\ other \in BOOLEAN
  BY <1>4, <1>5 DEF OtherServer
<1>2. IsPages(pages')
  <2>1. PICK s : s = Other(other)
    OBVIOUS
  <2>2. PICK all : all = <<Own(server), s>>
    OBVIOUS
  <2>3. s.name \in Sites /\ all[2] = s
    BY <2>1, <2>2, Names2 DEF Other
  <2>4. PICK qg : qg = pages'
    OBVIOUS
  <2>5. bot'.other = other
    BY <1>3
  <2>6. qg = IF bot.other THEN Web!RenX_OnServerDisconnect(pages, all, s)
             ELSE Web!RenX_OnServerFullyConnected(pages, all, s)
    BY <2>1, <2>2, <2>3, <2>4, <2>5 DEF OtherServer
  <2>7. IsPages(pages)
    BY DEF Knows, Typed
  <2>8. CASE bot.other
    <3>1. qg = Web!markDetailsStale(Web!updateServerList(pages, all), s)
      BY <2>6, <2>8 DEF Web!RenX_OnServerDisconnect
    <3>2. IsPages(qg)
      BY <2>3, <2>7, <3>1, PagesRemade
    <3> QED  BY <2>4, <3>2
  <2>9. CASE ~bot.other
    <3>1. qg = Web!addServerToServerList(pages, all, s)
      BY <2>6, <2>9 DEF Web!RenX_OnServerFullyConnected
    <3>2. IsPages(qg)
      BY <2>7, <3>1, PagesAdded
    <3> QED  BY <2>4, <3>2
  <2> QED  BY <2>8, <2>9
<1> QED  BY <1>1, <1>2, <1>3, <1>4, BotElse

\* The bot has just connected, and has read nothing.
LEMMA InformsNothing ==
  ASSUME NEW g, Crowd(g.players), Unseen(g), NEW sent, <<"list", Empty>> \in Range(sent),
         NEW b, b = [players |-> NoPlayers, state |-> "playing", seamless |-> TRUE, informed |-> FALSE, full |-> FALSE,
                     hall |-> {}]
  PROVE  Informs(b, <<>>, sent, g)
<1>1. /\ b.players = NoPlayers /\ b.state = "playing" /\ b.seamless = TRUE /\ b.informed = FALSE /\ b.full = FALSE
      /\ b.hall = {}
  OBVIOUS
<1>2. PICK gp : gp = g.players
  OBVIOUS
<1>3. Mirrors(NoPlayers, gp, FALSE)
  BY <1>2, NobodyMirrored DEF Unseen
<1>4. Kept(b)
  <2>1. Listing(NoPlayers)
    BY <1>3 DEF Mirrors, Lists
  <2> QED  BY <1>1, <2>1 DEF Kept, Phases
<1>5. End(b, g, FALSE)
  BY <1>1, <1>2, <1>3 DEF End, Unseen
<1>6. Answers(sent) = FALSE
  BY DEF Answers
<1>7. PICK m : Trail(m, b, <<>>) /\ m[Len(<<>>)] = b
  BY <1>4, EndsHere DEF Ends
<1>8. AllFall(m, <<>>, sent, g.votes)
  BY DEF AllFall, Falls, Unseen
<1>9. Story(m, b, <<>>, sent, g)
  BY <1>5, <1>6, <1>7, <1>8 DEF Story
<1> QED  BY <1>9 DEF Informs

\* It has been sent a report.
LEMMA InformsReport ==
  ASSUME NEW b, NEW q, Queue(q), NEW sent, NEW g, Playing(g), Informs(b, q, sent, g),
         NEW l, l.kind = "report", NEW r, r = Append(q, l)
  PROVE  Informs(b, r, sent, g)
<1>1. Queue(q) /\ r = Append(q, l)
  OBVIOUS
<1>2. LineType(l) /\ l.kind \in Markers /\ Phased(g, g, l)
  BY DEF LineType, Sensible, Kinds, Markers, Phased, Marking
<1>3. PICK now : now = Answers(sent)
  OBVIOUS
<1>4. now \in BOOLEAN
  BY <1>3 DEF Answers
<1>5. Leads(g, g, l, now, now)
  BY <1>2, <1>4, MarkerLeads
<1>6. Leads(g, g, l, Answers(sent), Answers(sent))
  BY <1>3, <1>5
<1>7. Drops(sent, sent, g.votes) /\ VotesKept(g.votes, g.votes)
  BY DEF Drops, VotesKept
<1>8. Informs(b, r, sent, g)
  BY <1>6, <1>7, InformsMore
<1> QED  BY <1>8

Greeting(web) == IF web THEN <<<<"info", Empty>>, <<"list", Empty>>, <<"ping", Empty>>>>
                 ELSE <<<<"info", Empty>>, <<"list", Empty>>>>

LEMMA Greetings ==
  ASSUME NEW web, NEW sent, sent = Greeting(web)
  PROVE  /\ Queue(sent) /\ Len(sent) <= 3 /\ <<"list", Empty>> \in Range(sent)
         /\ \A c \in Range(sent) : c \in Orders /\ \A t \in VoteTeams : c # <<"cancel", t>>
<1>1. PICK a : a = <<"info", Empty>>
  OBVIOUS
<1>2. PICK b : b = <<"list", Empty>>
  OBVIOUS
<1>3. PICK c : c = <<"ping", Empty>>
  OBVIOUS
<1>4. \A x \in {a, b, c} : x \in Orders /\ \A t \in VoteTeams : x # <<"cancel", t>>
  BY <1>1, <1>2, <1>3 DEF Orders
<1>5. PICK two : two = <<a, b>>
  OBVIOUS
<1>6. PICK three : three = <<a, b, c>>
  OBVIOUS
<1>7. two \in Seq({a, b, c}) /\ Len(two) = 2 /\ two[1] = a /\ two[2] = b
  BY <1>5
<1>8. three \in Seq({a, b, c}) /\ Len(three) = 3 /\ three[1] = a /\ three[2] = b /\ three[3] = c
  BY <1>6
<1>9. sent = two \/ sent = three
  BY <1>1, <1>2, <1>3, <1>5, <1>6 DEF Greeting
<1>10. Queue(two) /\ Len(two) = 2 /\ b \in Range(two) /\ \A x \in Range(two) : x \in {a, b, c}
  <2>1. Queue(two)
    BY <1>7 DEF Queue
  <2>2. \A x : x \in Range(two) <=> \E i \in 1 .. Len(two) : two[i] = x
    BY <2>1, QueueShape
  <2>3. \A i \in 1 .. 2 : i = 1 \/ i = 2
    OBVIOUS
  <2> QED  BY <1>7, <2>1, <2>2, <2>3
<1>11. Queue(three) /\ Len(three) = 3 /\ b \in Range(three) /\ \A x \in Range(three) : x \in {a, b, c}
  <2>1. Queue(three)
    BY <1>8 DEF Queue
  <2>2. \A x : x \in Range(three) <=> \E i \in 1 .. Len(three) : three[i] = x
    BY <2>1, QueueShape
  <2>3. \A i \in 1 .. 3 : i = 1 \/ i = 2 \/ i = 3
    OBVIOUS
  <2> QED  BY <1>8, <2>1, <2>2, <2>3
<1>12. Queue(sent) /\ Len(sent) <= 3 /\ b \in Range(sent) /\ \A x \in Range(sent) : x \in {a, b, c}
  <2>1. CASE sent = two
    BY ONLY <1>10, <2>1, 2 <= 3
  <2>2. CASE sent = three
    BY ONLY <1>11, <2>2, 3 <= 3
  <2> QED  BY <1>9, <2>1, <2>2
<1> QED  BY <1>2, <1>4, <1>12

\* The server as it connects.
LEMMA ConnectServer ==
  ASSUME Knows, Connect, NEW g, g = game,
         NEW s, s = [up |-> TRUE, informed |-> FALSE, full |-> FALSE, state |-> "playing", seamless |-> TRUE,
                     match |-> g.match, players |-> NoPlayers],
         NEW after, after = bot'
  PROVE  after = [server |-> s, timer |-> bot.timer, other |-> bot.other]
<1>1. PICK d : d = Disconnected
  OBVIOUS
<1>2. d = [up |-> FALSE, informed |-> FALSE, full |-> FALSE, state |-> "playing", seamless |-> TRUE, match |-> 0,
           players |-> NoPlayers]
  BY <1>1 DEF Disconnected
<1>3. PICK n : n = g.match
  OBVIOUS
<1>4. PICK yes : yes = TRUE
  OBVIOUS
<1>5. s = [up |-> yes, informed |-> d.informed, full |-> d.full, state |-> d.state, seamless |-> d.seamless,
           match |-> n, players |-> d.players]
  BY <1>2, <1>3, <1>4
<1>6. d = [up |-> d.up, informed |-> d.informed, full |-> d.full, state |-> d.state, seamless |-> d.seamless,
           match |-> d.match, players |-> d.players]
  BY ONLY <1>2
<1>7. PICK mid : mid = [up |-> yes, informed |-> d.informed, full |-> d.full, state |-> d.state, seamless |-> d.seamless,
           match |-> d.match, players |-> d.players]
  OBVIOUS
<1>8. [d EXCEPT !.up = yes] = mid
  BY ONLY <1>7, <1>6
<1>9. [mid EXCEPT !.match = n] = s
  BY ONLY <1>7, <1>5
<1>10. [d EXCEPT !.up = yes, !.match = n] = s
  BY <1>8, <1>9
<1>11. [Disconnected EXCEPT !.up = TRUE, !.match = g.match] = s
  BY <1>1, <1>3, <1>10, <1>4
<1>12. bot' = [bot EXCEPT !.server = s]
  BY <1>11 DEF Connect
<1> QED  BY <1>12, ServerNow

LEMMA ConnectKnows ==
  ASSUME Knows, Connect
  PROVE  Knows'
<1>1. PICK g : g = game
  OBVIOUS
<1>2. ~server.up /\ server = Disconnected /\ Unseen(g)
  BY <1>1 DEF Connect, Knows, Connected
<1>3. /\ topic' = topic /\ game' = g /\ hall' = {} /\ pages' = pages /\ connects' = connects + 1
      /\ connects < MaxConnects[topic]
  BY <1>1, <1>2 DEF Connect, Knows, Connected
<1>4. /\ topic \in Topics /\ connects \in 0 .. MaxConnects[topic] /\ IsGame(g, MaxDeeds[topic]) /\ IsPages(pages)
      /\ IsBot(bot) /\ bot.timer \in Timers /\ bot.other \in BOOLEAN
  BY <1>1, ServerNow DEF Knows, Typed
<1>5. Playing(g) /\ Crowd(g.players) /\ g.match \in Nat
  BY <1>4, GamePlays DEF Playing
<1>6. PICK s : s = [up |-> TRUE, informed |-> FALSE, full |-> FALSE, state |-> "playing", seamless |-> TRUE,
                    match |-> g.match, players |-> NoPlayers]
  OBVIOUS
<1>7. PICK after : after = bot'
  OBVIOUS
<1>8. after = [server |-> s, timer |-> bot.timer, other |-> bot.other]
  BY <1>1, <1>6, <1>7, ConnectServer
<1>9. after.server = s /\ after.timer = bot.timer /\ after.other = bot.other /\ server' = s
  BY <1>7, <1>8 DEF server
<1>10. IsServer(s)
  <2>1. Listing(NoPlayers)
    BY NoPlayersListed DEF Listing
  <2>2. /\ s.up = TRUE /\ s.informed = FALSE /\ s.full = FALSE /\ s.state = "playing" /\ s.seamless = TRUE
        /\ s.match = g.match /\ s.players = NoPlayers
    BY <1>6
  <2> QED  BY <1>5, <1>6, <2>1, <2>2 DEF IsServer, Phases
<1>11. IsBot(after)
  BY <1>4, <1>8, <1>9, <1>10 DEF IsBot
<1>12. PICK sent : sent = tx'
  OBVIOUS
<1>13. sent = Greeting(topic = "web")
  BY <1>12 DEF Connect, Greeting
<1>14. /\ Queue(sent) /\ Len(sent) <= 3 /\ <<"list", Empty>> \in Range(sent)
       /\ \A c \in Range(sent) : c \in Orders /\ \A t \in VoteTeams : c # <<"cancel", t>>
  BY <1>13, Greetings
<1>15. PICK b : b = Mind(s, {})
  OBVIOUS
<1>16. Informs(b, <<>>, sent, g)
  <2>1. b = [players |-> NoPlayers, state |-> "playing", seamless |-> TRUE, informed |-> FALSE, full |-> FALSE,
             hall |-> {}]
    BY <1>6, <1>15 DEF Mind
  <2> QED  BY <1>2, <1>5, <1>14, <2>1, InformsNothing
<1>17. PICK v : v = Line("report", Nobody, Nobody, "v")
  OBVIOUS
<1>18. PICK a : a = Line("report", Nobody, Nobody, "a")
  OBVIOUS
<1>19. PICK one : one = <<v>>
  OBVIOUS
<1>20. PICK r : r = rx'
  OBVIOUS
<1>21. one = Append(<<>>, v) /\ r = Append(one, a)
  <2>1. r = <<v, a>>
    BY <1>17, <1>18, <1>20 DEF Connect
  <2> QED  BY <1>19, <2>1
<1>19a. v.kind = "report" /\ a.kind = "report"
  BY <1>17, <1>18 DEF Line
<1>21a. PICK zero : zero = <<>>
  OBVIOUS
<1>21b. Queue(zero) /\ Len(zero) = 0 /\ (\A x : x \notin Range(zero)) /\ Informs(b, zero, sent, g) /\ one = Append(zero, v)
  BY <1>16, <1>21, <1>21a, EmptyQueue
<1>22a. Queue(zero) /\ one = Append(zero, v)
  BY <1>21b
<1>22. Queue(one) /\ Len(one) = Len(zero) + 1 /\ \A x \in Range(one) : x \in Range(zero) \/ x = v
  BY ONLY <1>22a, Appended
<1>23a. Queue(one) /\ r = Append(one, a)
  BY <1>21, <1>22
<1>23b. Queue(r) /\ Len(r) = Len(one) + 1 /\ \A x \in Range(r) : x \in Range(one) \/ x = a
  BY ONLY <1>23a, Appended
<1>23c. Playing(g) /\ Queue(zero) /\ Informs(b, zero, sent, g) /\ v.kind = "report" /\ one = Append(zero, v)
  BY <1>5, <1>19a, <1>21b
<1>23d. Informs(b, one, sent, g)
  BY ONLY <1>23c, InformsReport
<1>23e. Playing(g) /\ Queue(one) /\ Informs(b, one, sent, g) /\ a.kind = "report" /\ r = Append(one, a)
  BY <1>5, <1>19a, <1>23a, <1>23d
<1>23f. Informs(b, r, sent, g)
  BY ONLY <1>23e, InformsReport
<1>23. Informs(b, r, sent, g) /\ Queue(r) /\ Len(r) = Len(one) + 1 /\ \A x \in Range(r) : x \in Range(one) \/ x = a
  BY <1>23b, <1>23f
<1>24. Len(r) = 2 /\ \A x \in Range(r) : x.kind # "votecalled"
  <2>1. v.kind = "report" /\ a.kind = "report"
    BY <1>19a
  <2>2. \A x \in Range(one) : x = v
    BY <1>21b, <1>22
  <2>3. \A x \in Range(r) : x = v \/ x = a
    BY <1>23, <2>2
  <2>4. \A x \in Range(r) : x.kind = "report"
    BY <2>1, <2>3
  <2>5. Len(r) = 2
    BY <1>21b, <1>22, <1>23
  <2> QED  BY <2>4, <2>5
<1>25. Typed'
  <2>1. MaxLines >= 2 /\ MaxLines \in Nat /\ MaxSent >= 3 /\ MaxSent \in Nat /\ MaxConnects[topic] \in Nat
    BY <1>4, GameAssumption
  <2>2. Len(r) <= MaxLines /\ connects + 1 \in 0 .. MaxConnects[topic]
    BY <1>3, <1>4, <1>24, <2>1
  <2>3. Len(sent) <= MaxSent
    BY <1>14, <2>1, QueueShape
  <2>4. \A x \in Range(r) : x.kind = "votecalled" => x.team \in VoteTeams
    BY <1>24
  <2>5. {} \subseteq Clients
    OBVIOUS
  <2> QED  BY <1>3, <1>4, <1>7, <1>11, <1>12, <1>14, <1>20, <1>23, <2>2, <2>3, <2>4, <2>5 DEF Typed
<1>26. Connected'
  <2>1. s.up = TRUE
    BY <1>6
  <2> QED  BY <1>3, <1>9, <1>12, <1>15, <1>20, <1>23, <2>1 DEF Connected
<1>27. Timed'
  <2>1. Sure(bot.timer, Disconnected)
    BY <1>2, ServerNow
  <2>2. ~Disconnected.informed
    BY DEF Disconnected
  <2>3. Sure(bot.timer, s)
    BY <2>1, <2>2 DEF Sure
  <2> QED  BY <1>7, <1>9, <2>3 DEF Timed
<1>28. Innocent'
  <2>1. \A t \in VoteTeams : ~Awaits(r, sent, t)
    BY <1>14, <1>24 DEF Awaits
  <2>2. Spared(r, sent, g.votes)
    BY <2>1 DEF Spared
  <2> QED  BY <1>3, <1>12, <1>20, <2>2 DEF Innocent
<1> QED  BY <1>25, <1>26, <1>27, <1>28 DEF Knows

----------------------------------------------------------------------------
LEMMA LostKnows ==
  ASSUME Knows, Lost
  PROVE  Knows'
<1>1. PICK g : g = game
  OBVIOUS
<1>2. PICK h : h = game'
  OBVIOUS
<1>3. PICK gp : gp = g.players
  OBVIOUS
<1>5. PICK most : most = MaxDeeds[topic]
  OBVIOUS
<1>6. /\ IsGame(g, most) /\ Crowd(gp)
      /\ g = [match |-> g.match, phase |-> g.phase, deeds |-> g.deeds, players |-> gp, votes |-> g.votes]
      /\ g.votes \in [VoteTeams -> VoteInfos]
  BY <1>1, <1>3, <1>5, GameNow
<1> DEFINE missed(p) == [gp[p] EXCEPT !.seen = FALSE, !.whole = FALSE]
           hp == [p \in DOMAIN gp |-> missed(p)]
           unheard(t) == [g.votes[t] EXCEPT !.heard = FALSE]
           w == [t \in VoteTeams |-> unheard(t)]
<1>7. h = [match |-> g.match, phase |-> g.phase, deeds |-> g.deeds, players |-> hp, votes |-> w]
  <2>1. h = [g EXCEPT !.players = hp, !.votes = w]
    BY <1>1, <1>2, <1>3 DEF Lost, Present
  <2> HIDE DEF hp, w
  <2> QED  BY <1>6, <2>1
<1>8. \A p \in DOMAIN gp : missed(p) \in Gamers /\ ~missed(p).seen /\ ~missed(p).whole
  <2> TAKE p \in DOMAIN gp
  <2>1. gp[p] \in Gamers
    BY <1>6 DEF Crowd
  <2> QED  BY <2>1 DEF Gamers
<1>9. \A t \in VoteTeams : unheard(t) \in VoteInfos /\ ~unheard(t).heard
  <2> TAKE t \in VoteTeams
  <2>1. g.votes[t] \in VoteInfos
    BY <1>6
  <2> QED  BY <2>1 DEF VoteInfos
<1> HIDE DEF missed, unheard
<1>10. /\ DOMAIN hp = DOMAIN gp /\ (\A p \in DOMAIN hp : hp[p] \in Gamers /\ ~hp[p].seen /\ ~hp[p].whole)
       /\ hp = [p \in DOMAIN hp |-> hp[p]]
  BY <1>8
<1>11. w \in [VoteTeams -> VoteInfos] /\ \A t \in VoteTeams : ~w[t].heard
  BY <1>9
<1> HIDE DEF hp, w
<1>12. Crowd(hp)
  BY <1>6, <1>10 DEF Crowd
<1>13. IsGame(h, most) /\ Unseen(h)
  BY <1>6, <1>7, <1>10, <1>11, <1>12 DEF IsGame, Unseen
<1>14. PICK t : t = [on |-> bot.timer.on, sure |-> FALSE, state |-> bot.timer.state, match |-> bot.timer.match]
  OBVIOUS
<1>15. t \in Timers /\ ~t.sure
  BY <1>14, ServerNow DEF Timers
<1>16. PICK after : after = bot'
  OBVIOUS
<1>17. after = [server |-> Disconnected, timer |-> t, other |-> bot.other]
  <2>1. bot' = [bot EXCEPT !.server = Disconnected, !.timer.sure = FALSE]
    BY DEF Lost
  <2>2. PICK mid : mid = [server |-> Disconnected, timer |-> bot.timer, other |-> bot.other]
    OBVIOUS
  <2>3. mid = [bot EXCEPT !.server = Disconnected]
    BY <2>2, ServerNow
  <2>4. bot' = [mid EXCEPT !.timer.sure = FALSE]
    BY <2>1, <2>3
  <2>7. PICK u : u = bot.timer
    OBVIOUS
  <2>8. u = [on |-> u.on, sure |-> u.sure, state |-> u.state, match |-> u.match]
    BY <2>7, ServerNow
  <2>9. PICK no : no = FALSE
    OBVIOUS
  <2>10. t = [on |-> u.on, sure |-> no, state |-> u.state, match |-> u.match]
    BY <1>14, <2>7, <2>9
  <2>11. [u EXCEPT !.sure = no] = t
    BY <2>8, <2>10
  <2>5. [bot.timer EXCEPT !.sure = FALSE] = t
    BY <2>7, <2>9, <2>11
  <2>6. bot' = [mid EXCEPT !.timer = [@ EXCEPT !.sure = FALSE]]
    BY <2>4
  <2> QED  BY <1>16, <2>2, <2>5, <2>6
<1>18. after.server = Disconnected /\ after.timer = t /\ server' = Disconnected
  BY <1>16, <1>17 DEF server
<1>19. IsServer(Disconnected) /\ ~Disconnected.up
  <2>1. Listing(NoPlayers)
    BY NoPlayersListed DEF Listing
  <2> QED  BY <2>1 DEF IsServer, Disconnected, Phases
<1>20. IsBot(after)
  <2>1. after.other = bot.other /\ bot.other \in BOOLEAN
    BY <1>17, ServerNow
  <2> QED  BY <1>15, <1>17, <1>18, <1>19, <2>1 DEF IsBot
<1>21. PICK qg : qg = pages'
  OBVIOUS
<1>22. IsPages(qg)
  <2>1. PICK closed : closed = [server EXCEPT !.up = FALSE]
    OBVIOUS
  <2>2. PICK s : s = Own(closed)
    OBVIOUS
  <2>3. PICK servers : servers = Servers(closed)
    OBVIOUS
  <2>4. qg = Web!markDetailsStale(Web!updateServerList(pages, servers), s)
    BY <1>21, <2>1, <2>2, <2>3 DEF Lost, Web!RenX_OnServerDisconnect
  <2>5. s.name = "own" /\ IsPages(pages)
    BY <2>2 DEF Own, Knows, Typed
  <2> QED  BY <2>4, <2>5, OwnRemade
<1>23. tx' = <<>> /\ rx' = <<>> /\ hall' = {} /\ topic' = topic /\ connects' = connects
  BY DEF Lost
<1>24. Typed'
  <2>1. Queue(<<>>) /\ Len(<<>>) = 0 /\ \A x : x \notin Range(<<>>)
    BY EmptyQueue
  <2>2. MaxLines >= 0 /\ MaxSent >= 0
    BY GameAssumption
  <2>3. topic \in Topics /\ connects \in 0 .. MaxConnects[topic] /\ {} \subseteq Clients
    BY DEF Knows, Typed
  <2> QED  BY <1>2, <1>5, <1>13, <1>16, <1>20, <1>21, <1>22, <1>23, <2>1, <2>2, <2>3 DEF Typed
<1>25. Connected'
  BY <1>2, <1>13, <1>18, <1>19, <1>23 DEF Connected
<1>26. Timed'
  BY <1>15, <1>16, <1>18 DEF Timed, Sure
<1>27. Innocent'
  <2>1. Spared(<<>>, <<>>, h.votes)
    BY EmptyQueue DEF Spared, Awaits
  <2> QED  BY <1>2, <1>23, <2>1 DEF Innocent
<1> QED  BY <1>24, <1>25, <1>26, <1>27 DEF Knows

----------------------------------------------------------------------------
LEMMA BotKnows ==
  ASSUME Knows, BotStep
  PROVE  Knows'
<1>1. CASE Connect \/ Lost
  BY <1>1, ConnectKnows, LostKnows
<1>2. CASE ProcessEvent \/ MatchEnd \/ MapChanging \/ MapLoaded \/ MapStart \/ GameInfo \/ VoteCalled \/ FullyConnected
  BY <1>2, ProcessEventKnows, MatchEndHeard, MapChangingHeard, MapLoadedHeard, MapStartHeard, GameInfoHeard,
     VoteCalledHeard, FullyConnectedHeard
<1>3. CASE Browse \/ OtherServer
  BY <1>3, BrowseKnows, OtherServerKnows
<1>4. CASE GameOverNow \/ GameOverIn \/ GameOverStop \/ GameOverTime
  BY <1>4, UserKnows
<1> QED  BY <1>1, <1>2, <1>3, <1>4 DEF BotStep

LEMMA InitKnows ==
  ASSUME Init
  PROVE  Knows
<1>1. PICK g : g = game
  OBVIOUS
<1>2. g = [match |-> 0, phase |-> "pending", deeds |-> 0, players |-> NoPlayers, votes |-> [t \in VoteTeams |-> NoVote]]
  BY <1>1 DEF Init
<1>3. topic \in Topics /\ tx = <<>> /\ rx = <<>> /\ hall = {} /\ connects = 0
      /\ bot = [server |-> Disconnected, timer |-> NoTimer, other |-> FALSE]
  BY DEF Init
<1>4. MaxConnects[topic] \in Nat /\ MaxDeeds[topic] \in Nat /\ MaxLines \in Nat /\ MaxSent \in Nat /\ MaxMatches \in Nat
  BY <1>3, GameAssumption
<1>5. DOMAIN NoPlayers = {} /\ NoPlayers = [p \in DOMAIN NoPlayers |-> NoPlayers[p]] /\ Listing(NoPlayers)
  BY NoPlayersListed DEF Listing
<1>6. Crowd(NoPlayers)
  BY <1>5 DEF Crowd
<1>7. PICK none : none = [t \in VoteTeams |-> NoVote]
  OBVIOUS
<1>8. none \in [VoteTeams -> VoteInfos] /\ \A t \in VoteTeams : none[t] = NoVote /\ ~none[t].heard
  BY <1>7, NoVoteType
<1>9. g.match = 0 /\ g.phase = "pending" /\ g.deeds = 0 /\ g.players = NoPlayers /\ g.votes = none
  BY <1>2, <1>7
<1>10. IsGame(g, MaxDeeds[topic])
  <2>1. 0 \in 0 .. MaxMatches /\ 0 \in 0 .. MaxDeeds[topic] /\ "pending" \in Phases
    BY <1>4 DEF Phases
  <2>2. g = [match |-> g.match, phase |-> g.phase, deeds |-> g.deeds, players |-> g.players, votes |-> g.votes]
    BY <1>2, <1>7, <1>9
  <2> QED  BY <1>6, <1>8, <1>9, <2>1, <2>2 DEF IsGame
<1>11. Unseen(g)
  BY <1>5, <1>8, <1>9 DEF Unseen
<1>12. IsServer(Disconnected) /\ ~Disconnected.up
  BY <1>5 DEF IsServer, Disconnected, Phases
<1>13. NoTimer \in Timers /\ ~NoTimer.sure
  BY DEF NoTimer, Timers, Phases
<1>14. bot.server = Disconnected /\ bot.timer = NoTimer /\ bot.other = FALSE /\ server = Disconnected
  BY <1>3 DEF server
<1>15. IsBot(bot)
  BY <1>3, <1>12, <1>13, <1>14 DEF IsBot
<1>16. IsPages(pages)
  <2>1. PICK servers : servers = Servers(Disconnected)
    OBVIOUS
  <2>2. PICK details : details = [name \in {servers[i].name : i \in DOMAIN servers} |-> Web!Stale]
    OBVIOUS
  <2>3. {servers[i].name : i \in DOMAIN servers} = Sites
    <3>1. PICK a : a = Own(Disconnected)
      OBVIOUS
    <3>2. PICK b : b = Other(FALSE)
      OBVIOUS
    <3>3. servers = <<a, b>> /\ a.name = "own" /\ b.name = "other"
      BY <1>14, <2>1, <3>1, <3>2 DEF Servers, Own, Other
    <3>4. DOMAIN servers = {1, 2} /\ servers[1] = a /\ servers[2] = b
      BY <3>3
    <3> QED  BY <3>3, <3>4 DEF Sites
  <2>4. Web!Stale \in Details
    BY DEF Web!Stale, Details
  <2>5. details \in [Sites -> Details]
    BY <2>2, <2>3, <2>4
  <2>6. PICK pg : pg = [list |-> <<>>, metadata |-> [servers |-> 0, players |-> 0], details |-> details]
    OBVIOUS
  <2>7. IsPages(pg)
    BY <2>5, <2>6 DEF IsPages
  <2>8. pages = Web!updateServerList(pg, servers)
    BY <2>1, <2>2, <2>6 DEF Init, Web!InitialPages
  <2> QED  BY <2>7, <2>8, PagesUpdated
<1>17. Queue(<<>>) /\ Len(<<>>) = 0 /\ \A x : x \notin Range(<<>>)
  BY EmptyQueue
<1>18. Typed
  BY <1>1, <1>3, <1>4, <1>10, <1>15, <1>16, <1>17 DEF Typed
<1>19. Connected
  BY <1>1, <1>3, <1>11, <1>12, <1>14 DEF Connected
<1>20. Timed
  BY <1>13, <1>14 DEF Timed, Sure
<1>21. Innocent
  BY <1>3, <1>17 DEF Innocent, Spared, Awaits
<1> QED  BY <1>18, <1>19, <1>20, <1>21 DEF Knows

LEMMA NextKnows ==
  ASSUME Knows, [Next]_vars
  PROVE  Knows'
<1>1. CASE GameStep
  BY <1>1, GameKnows
<1>2. CASE BotStep
  BY <1>2, BotKnows
<1>3. CASE UNCHANGED vars
  <2>1. /\ topic' = topic /\ game' = game /\ tx' = tx /\ rx' = rx /\ bot' = bot /\ hall' = hall /\ pages' = pages
        /\ connects' = connects /\ server' = server
    BY <1>3 DEF vars, server
  <2> QED  BY <2>1 DEF Knows, Typed, Connected, Timed, Innocent
<1> QED  BY <1>1, <1>2, <1>3 DEF Next

\* The invariant that the theorems rest on.
THEOREM SpecKnows == Spec => []Knows
BY InitKnows, NextKnows, PTL DEF Spec

----------------------------------------------------------------------------
(***************************************************************************)
(* What follows                                                            *)
(***************************************************************************)
LEMMA KnowsTypes ==
  ASSUME Knows
  PROVE  TypeOK
<1>1. /\ topic \in Topics /\ connects \in 0 .. MaxConnects[topic] /\ hall \subseteq Clients
      /\ IsGame(game, MaxDeeds[topic]) /\ Crowd(game.players) /\ Queue(tx)
      /\ Len(rx) <= MaxLines /\ Len(tx) <= MaxSent /\ \A c \in Range(tx) : c \in Orders
  BY GameNow DEF Knows, Typed
<1>2. /\ IsServer(server) /\ bot.timer \in Timers /\ bot.other \in BOOLEAN
  BY ServerNow
<1>3. \A i \in DOMAIN tx : tx[i] \in {"info", "list", "ping", "endmap", "cancel"} \X (VoteTeams \cup {Empty})
  <2> SUFFICES ASSUME NEW i \in DOMAIN tx
               PROVE  tx[i] \in {"info", "list", "ping", "endmap", "cancel"} \X (VoteTeams \cup {Empty})
    OBVIOUS
  <2>1. tx[i] \in Orders
    BY <1>1, QueueShape
  <2> QED  BY <2>1 DEF Orders
<1>4. /\ game.match \in 0 .. MaxMatches /\ game.deeds \in 0 .. MaxDeeds[topic]
      /\ game.phase \in {"pending", "playing", "over", "travelling"} /\ Present \subseteq Clients
  BY <1>1 DEF IsGame, Crowd, Present, Phases
<1>5. /\ {server.up, server.informed, server.full, server.seamless, bot.other, bot.timer.on, bot.timer.sure} \subseteq BOOLEAN
      /\ {server.state, bot.timer.state} \subseteq {"pending", "playing", "over", "travelling"}
  BY <1>2 DEF IsServer, Timers, Phases
<1>6. /\ DOMAIN server.players \subseteq Clients
      /\ \A p \in DOMAIN server.players : server.players[p].team \in Teams
  <2>1. Listing(server.players)
    BY <1>2 DEF IsServer
  <2> QED  BY <2>1 DEF Listing, PlayerInfos
<1>7. \A name \in {"own", "other"} : pages.details[name].players \subseteq Clients
  <2>1. pages.details \in [Sites -> Details]
    BY DEF Knows, Typed, IsPages
  <2> QED  BY <2>1 DEF Sites, Details
<1> QED  BY <1>1, <1>3, <1>4, <1>5, <1>6, <1>7 DEF TypeOK

\* Everything has its type.
THEOREM SpecTypeOK == Spec => []TypeOK
BY SpecKnows, KnowsTypes, PTL

----------------------------------------------------------------------------
\* What the bot will have made of the players when it has read everything
\* mirrors those of the game.
LEMMA EventuallyMirrors ==
  ASSUME Knows, server.up
  PROVE  Mirrors(Eventually, game.players, Answered)
<1>1. PICK b : b = Mind(server, hall)
  OBVIOUS
<1>2. Informs(b, rx, tx, game) /\ Queue(rx)
  BY <1>1 DEF Knows, Connected, Typed
<1>3. PICK m : Story(m, b, rx, tx, game)
  BY <1>2 DEF Informs
<1>4. PICK e : e = m[Len(rx)]
  OBVIOUS
<1>5. Ends(b, rx, e) /\ End(e, game, Answers(tx))
  BY <1>3, <1>4 DEF Story, Ends
<1>6. FoldLeft(After, b.players, rx) = e.players
  BY <1>2, <1>5, EndsOnce
<1>7. b.players = server.players
  BY <1>1 DEF Mind
<1>8. Eventually = e.players
  BY <1>6, <1>7 DEF Eventually
<1>9. Mirrors(e.players, game.players, Answers(tx))
  BY <1>5 DEF End
<1> QED  BY <1>8, <1>9 DEF Answered, Answers

LEMMA EventuallyFits ==
  ASSUME Knows, server.up, NEW p \in Present \cap DOMAIN Eventually
  PROVE  Fits(Eventually[p], game.players[p], Answered)
<1>1. PICK ps : ps = Eventually
  OBVIOUS
<1>2. PICK gp : gp = game.players
  OBVIOUS
<1>3. Mirrors(ps, gp, Answered) /\ p \in DOMAIN gp /\ p \in DOMAIN ps
  BY <1>1, <1>2, EventuallyMirrors DEF Present
<1>4. Fits(View(ps, p, SidesOf(gp)), gp[p], Answered)
  BY <1>3 DEF Mirrors
<1>5. View(ps, p, SidesOf(gp)) = ps[p]
  BY <1>3 DEF View
<1> QED  BY <1>1, <1>2, <1>4, <1>5

LEMMA KnowsCounters ==
  ASSUME Knows
  PROVE  CountersOfTheMatch
<1> SUFFICES ASSUME server.up, NEW p \in Present \cap DOMAIN Eventually
             PROVE  LET mine == game.players[p].stats
                        known == Eventually[p].stats
                    IN  /\ game.players[p].seen => known = mine
                        /\ Answered => known.kills = mine.kills /\ known.deaths = mine.deaths
                        /\ \A s \in Statistics : known[s] <= mine[s]
  BY DEF CountersOfTheMatch
<1>1. PICK heard : heard = Eventually
  OBVIOUS
<1>2. Fits(heard[p], game.players[p], Answered)
  BY <1>1, EventuallyFits
<1> QED  BY <1>1, <1>2 DEF Fits

LEMMA KnowsLife ==
  ASSUME Knows
  PROVE  AliveKnown
<1> SUFFICES ASSUME server.up, NEW p \in Present \cap DOMAIN Eventually, Answered \/ game.players[p].seen
             PROVE  CASE game.players[p].character \in Characters -> Eventually[p].character = game.players[p].character
                      [] game.players[p].character = "dead"       -> Eventually[p].character = Empty
                      [] OTHER                                    -> TRUE
  BY DEF AliveKnown
<1>1. PICK heard : heard = Eventually
  OBVIOUS
<1>2. Fits(heard[p], game.players[p], Answered)
  BY <1>1, EventuallyFits
<1>3. Shows(heard[p].character, game.players[p].character)
  BY <1>2 DEF Fits
<1>4. "dead" \notin Characters
  BY GameAssumption
<1> QED  BY <1>1, <1>3, <1>4 DEF Shows

LEMMA KnowsResults ==
  ASSUME Knows
  PROVE  ResultsAreReal
<1> SUFFICES ASSUME server.up, NEW p \in Present \cap DOMAIN Eventually
             PROVE  LET g == game.players[p] b == Eventually[p]
                    IN  /\ g.whole => b.wins = g.won /\ b.loses = g.lost
                        /\ b.wins <= g.won /\ b.loses <= g.lost
  BY DEF ResultsAreReal
<1>1. PICK heard : heard = Eventually
  OBVIOUS
<1>2. Fits(heard[p], game.players[p], Answered)
  BY <1>1, EventuallyFits
<1> QED  BY <1>1, <1>2 DEF Fits

\* The counters of a player are those of the match, of nobody else and nothing else.
THEOREM SpecCounters == Spec => []CountersOfTheMatch
BY SpecKnows, KnowsCounters, PTL

\* The bot knows what the living play as, and who is dead.
THEOREM SpecAlive == Spec => []AliveKnown
BY SpecKnows, KnowsLife, PTL

\* Matches are won and lost by those who were there, once each.
THEOREM SpecResults == Spec => []ResultsAreReal
BY SpecKnows, KnowsResults, PTL

----------------------------------------------------------------------------
LEMMA KnowsTimer ==
  ASSUME Knows
  PROVE  DelayedForThisMatch
<1>1. Sure(bot.timer, server)
  BY ServerNow
<1> QED  BY <1>1 DEF Sure, DelayedForThisMatch

\* A gameover that was scheduled in a match is not left for the next one.
THEOREM SpecDelayed == Spec => []DelayedForThisMatch
BY SpecKnows, KnowsTimer, PTL

----------------------------------------------------------------------------
LEMMA KnowsBanned ==
  ASSUME Knows
  PROVE  BannedVotesFall
<1> SUFFICES ASSUME NEW t \in VoteTeams, game.votes[t].heard, game.votes[t].by \in VoteBanned
             PROVE  \/ <<"cancel", t>> \in Range(tx)
                    \/ \E i \in DOMAIN rx : rx[i].kind = "votecalled" /\ rx[i].team = t
                                            /\ rx[i].by.who = game.votes[t].by
  BY DEF BannedVotesFall
<1>1. PICK p : p = game.votes[t].by
  OBVIOUS
<1>2. server.up
  BY DEF Knows, Connected, Unseen
<1>3. PICK b : b = Mind(server, hall)
  OBVIOUS
<1>4. Informs(b, rx, tx, game) /\ DOMAIN rx = 1 .. Len(rx)
  BY <1>2, <1>3, QueueShape DEF Knows, Connected, Typed
<1>5. PICK m : AllFall(m, rx, tx, game.votes)
  BY <1>4 DEF Informs, Story
<1>6. <<"cancel", t>> \in Range(tx) \/ Noticed(m, rx, t, p)
  BY <1>1, <1>5 DEF AllFall, Falls
<1> QED  BY <1>1, <1>4, <1>6 DEF Noticed, Calls

\* A vote of a player who is banned from voting, and whom the bot saw join,
\* is about to be cancelled.
THEOREM SpecBanned == Spec => []BannedVotesFall
BY SpecKnows, KnowsBanned, PTL

----------------------------------------------------------------------------
LEMMA InnocentStep ==
  ASSUME Knows, NEW t \in VoteTeams, game.votes[t] # NoVote, game'.votes[t] = NoVote, CancelVote
  PROVE  game.votes[t].by \in VoteBanned \/ game.votes[t].raced
<1>1. PICK c : c = Head(tx)
  OBVIOUS
<1>2. tx # <<>> /\ c[1] = "cancel" /\ Queue(tx)
  BY <1>1 DEF CancelVote, Reads, Knows, Typed
<1>3. c \in Range(tx) /\ c \in Orders
  <2>1. PICK r : r = Tail(tx)
    OBVIOUS
  <2>2. c \in Range(tx)
    BY <1>1, <1>2, <2>1, Tailed
  <2> QED  BY <2>2 DEF Knows, Typed
<1>4. PICK u \in VoteTeams : c = <<"cancel", u>>
  BY <1>2, <1>3 DEF Orders
<1>5. u = t
  <2> SUFFICES ASSUME u # t PROVE FALSE
    OBVIOUS
  <2>1. c[2] = u
    BY <1>4
  <2>2. game' = game \/ game' = [game EXCEPT !.votes[u] = NoVote]
    BY <1>1, <2>1 DEF CancelVote
  <2>3. /\ game = [match |-> game.match, phase |-> game.phase, deeds |-> game.deeds, players |-> game.players,
                   votes |-> game.votes]
        /\ game.votes \in [VoteTeams -> VoteInfos]
    BY GameNow
  <2>4. PICK g : g = game
    OBVIOUS
  <2>5. PICK w : w = g.votes
    OBVIOUS
  <2>6. [g EXCEPT !.votes[u] = NoVote].votes = [w EXCEPT ![u] = NoVote]
    BY <2>3, <2>4, <2>5
  <2>7. [w EXCEPT ![u] = NoVote][t] = w[t]
    BY <2>3, <2>4, <2>5
  <2> QED  BY <2>2, <2>4, <2>5, <2>6, <2>7
<1>6. Awaits(rx, tx, t)
  BY <1>3, <1>4, <1>5 DEF Awaits
<1> QED  BY <1>6 DEF Knows, Innocent, Spared

\* No other vote is cancelled, unless it began while one of its team was about to be.
THEOREM SpecInnocent == Spec => InnocentVotesStand
<1>1. ASSUME Knows, [Next]_vars
      PROVE  [\A t \in VoteTeams :
                LET v == game.votes[t]
                IN  v # NoVote /\ game'.votes[t] = NoVote /\ CancelVote => v.by \in VoteBanned \/ v.raced]_vars
  BY <1>1, InnocentStep
<1> QED  BY <1>1, SpecKnows, PTL DEF Spec, InnocentVotesStand

----------------------------------------------------------------------------
LEMMA KnowsPrivate ==
  ASSUME Knows, Public \subseteq DefaultPublic
  PROVE  KeptPrivate
<1> HIDE DEF PrivateFormats
<1>1. CASE rx = <<>>
  <2>1. Decent(RenX_OnPlayerRDNS)
    BY LogQuietly DEF Quietly, DefaultPublic, RenX_OnPlayerRDNS, Log
  <2> QED  BY <1>1, <2>1 DEF KeptPrivate, Decent
<1>2. CASE rx # <<>>
  <2>1. PICK l : l = Head(rx)
    OBVIOUS
  <2>2. server.up /\ Queue(rx)
    BY <1>2 DEF Knows, Connected, Typed
  <2>3. PICK b : b = Mind(server, hall)
    OBVIOUS
  <2>4. PICK m : Trail(m, b, rx)
    BY <2>2, <2>3 DEF Knows, Connected, Informs, Story
  <2>5. LineType(l)
    <3>1. PICK r : r = Tail(rx)
      OBVIOUS
    <3>2. PICK c : c = Reading(b, l)
      OBVIOUS
    <3>3. c = Reading(b, Head(rx))
      BY <2>1, <3>2
    <3>4. Due(b, Head(rx), c)
      BY <1>2, <2>2, <2>4, <3>1, <3>3, TrailShortened
    <3> QED  BY <2>1, <3>4 DEF Due
  <2>6. PICK s : s = Context
    OBVIOUS
  <2>7. Told = Tells(l, s)
    BY <2>1, <2>6 DEF Told
  <2>8. \A m1 \in Tells(l, s) : m1.on = "public" => m1.says \notin PrivateFormats
    <3>1. CASE l.kind = "enter"
      <4>1. \A m1 \in Tells(l, s) : m1.on = "public" => m1.says = "JoinPublic"
        BY <3>1, JoinTold
      <4>2. "JoinPublic" \notin PrivateFormats
        BY DEF PrivateFormats
      <4> QED  BY <4>1, <4>2
    <3>2. CASE l.kind = "exit"
      <4>1. \A m1 \in Tells(l, s) : m1.says = "Part"
        BY <3>2, PartTold
      <4>2. "Part" \notin PrivateFormats
        BY DEF PrivateFormats
      <4> QED  BY <4>1, <4>2
    <3>3. CASE l.kind \notin {"enter", "exit"}
      <4>1. Sensible(l)
        BY <2>5 DEF LineType
      <4>2. Decent(Tells(l, s))
        BY <3>3, <4>1, TellsDecent
      <4> QED  BY <4>2 DEF Decent
    <3> QED  BY <3>1, <3>2, <3>3
  <2> QED  BY <1>2, <2>7, <2>8 DEF KeptPrivate
<1> QED  BY <1>1, <1>2

LEMMA KnowsHall ==
  ASSUME Knows, Announced
  PROVE  HallIsKnown
<1> SUFFICES ASSUME server.up, rx = <<>>
             PROVE  {p \in Present : game.players[p].whole} \subseteq hall /\ hall \subseteq Present
  BY DEF HallIsKnown
<1>1. PICK b : b = Mind(server, hall)
  OBVIOUS
<1>2. PICK m : Story(m, b, rx, tx, game)
  BY <1>1 DEF Knows, Connected, Informs
<1>3. Len(rx) = 0
  BY QueueShape DEF Knows, Typed
<1>4. m[0] = b
  BY <1>2 DEF Story, Trail, Course
<1>5. End(b, game, Answers(tx))
  BY <1>2, <1>3, <1>4 DEF Story
<1>6. b.hall = hall
  BY <1>1 DEF Mind
<1> QED  BY <1>5, <1>6 DEF End, Present

\* What is private by default stays so, whatever line it is in, if nothing
\* else is configured to be public; and if joins and parts are announced, who
\* reads the public channels knows who is in the game.
THEOREM SpecChannels ==
  ASSUME Public \subseteq DefaultPublic, Announced
  PROVE  Spec => []ChannelsSound
<1>1. Knows => ChannelsSound
  BY KnowsTypes, KnowsPrivate, KnowsHall DEF ChannelsSound
<1> QED  BY <1>1, SpecKnows, PTL

----------------------------------------------------------------------------
(***************************************************************************)
(* What web clients are shown                                              *)
(***************************************************************************)
Listable(s) == s.connected /\ s.full

\* The list has these servers, each once.
ListsOf(list, own, other) ==
  /\ Queue(list) /\ Len(list) = (IF own THEN 1 ELSE 0) + (IF other THEN 1 ELSE 0)
  /\ \A e \in Range(list) : (e.name = "own" /\ own) \/ (e.name = "other" /\ other)
  /\ own => \E e \in Range(list) : e.name = "own"
  /\ other => \E e \in Range(list) : e.name = "other"

LEMMA ShownTwo ==
  ASSUME NEW a, NEW b, NEW q, q = <<a, b>>, NEW r, r = Web!Shown(q)
  PROVE  /\ Queue(r) /\ Len(r) = (IF Listable(a) THEN 1 ELSE 0) + (IF Listable(b) THEN 1 ELSE 0)
         /\ \A x : x \in Range(r) <=> (x = a /\ Listable(a)) \/ (x = b /\ Listable(b))
<1>1. DOMAIN q = 1 .. Len(q) /\ Len(q) = 2 /\ q[1] = a /\ q[2] = b
  OBVIOUS
<1>2. PICK d : Stages("web", d, <<>>, q) /\ d[Len(q)] = r
  BY <1>1, ShownStages, SMTT(30), ZenonT(30)
<1>3. d[0] = <<>> /\ d[1] = Web!AddIfShown(d[0], a) /\ d[2] = Web!AddIfShown(d[1], b) /\ d[2] = r
  BY <1>1, <1>2 DEF Stages, Step
<1>4. PICK zero : zero = d[0]
  OBVIOUS
<1>5. PICK one : one = d[1]
  OBVIOUS
<1>6. Queue(zero) /\ Len(zero) = 0 /\ \A x : x \notin Range(zero)
  BY <1>3, <1>4, EmptyQueue
<1>7. one = IF Listable(a) THEN Append(zero, a) ELSE zero
  BY <1>3, <1>4, <1>5 DEF Web!AddIfShown, Listable
<1>8. r = IF Listable(b) THEN Append(one, b) ELSE one
  BY <1>3, <1>5 DEF Web!AddIfShown, Listable
<1>9. Queue(one) /\ Len(one) = (IF Listable(a) THEN 1 ELSE 0) /\ \A x : x \in Range(one) <=> x = a /\ Listable(a)
  <2>1. CASE Listable(a)
    <3>1. Queue(zero) /\ one = Append(zero, a)
      BY <1>6, <1>7, <2>1
    <3>2. Queue(one) /\ Len(one) = Len(zero) + 1 /\ \A x : x \in Range(one) <=> x \in Range(zero) \/ x = a
      BY ONLY <3>1, Appended
    <3> QED  BY <1>6, <2>1, <3>2
  <2>2. CASE ~Listable(a)
    BY <1>6, <1>7, <2>2
  <2> QED  BY <2>1, <2>2
<1>10. CASE Listable(b)
  <2>1. Queue(one) /\ r = Append(one, b)
    BY <1>8, <1>9, <1>10
  <2>2. Queue(r) /\ Len(r) = Len(one) + 1 /\ \A x : x \in Range(r) <=> x \in Range(one) \/ x = b
    BY ONLY <2>1, Appended
  <2> QED  BY <1>9, <1>10, <2>2
<1>11. CASE ~Listable(b)
  <2>1. r = one
    BY <1>8, <1>11
  <2>2. Len(r) = (IF Listable(a) THEN 1 ELSE 0) + (IF Listable(b) THEN 1 ELSE 0)
    BY ONLY <1>9, <1>11, <2>1
  <2>3. Queue(r) /\ \A x : x \in Range(r) <=> x = a /\ Listable(a)
    BY ONLY <1>9, <2>1
  <2> QED  BY ONLY <1>11, <2>2, <2>3
<1> QED  BY <1>10, <1>11

\* What an entry of the list says of a server.
Entry(s) == Web!server_as_json(s)
Listed(n) == Web!getListedPlayerCount(n)
Tally(s) == Listed(Cardinality(s.active))

LEMMA SameSize ==
  ASSUME NEW S
  PROVE  Web!Cardinality(S) = Cardinality(S)
BY DEF Web!Cardinality, Cardinality

LEMMA EntryFields ==
  ASSUME NEW s
  PROVE  Entry(s).name = s.name /\ Entry(s).players = Tally(s)
BY SameSize DEF Entry, Tally, Listed, Web!server_as_json

\* The list that is made of the own server, and of the other one.
LEMMA EntriesOf ==
  ASSUME NEW a, a.name = "own", NEW b, b.name = "other", NEW servers, servers = <<a, b>>,
         NEW list, list = Entries(servers)
  PROVE  /\ ListsOf(list, Listable(a), Listable(b))
         /\ \A e \in Range(list) : e.name = "own" => e.players = Tally(a)
<1>1. PICK r : r = Web!Shown(servers)
  OBVIOUS
<1>2. /\ Queue(r) /\ Len(r) = (IF Listable(a) THEN 1 ELSE 0) + (IF Listable(b) THEN 1 ELSE 0)
      /\ \A x : x \in Range(r) <=> (x = a /\ Listable(a)) \/ (x = b /\ Listable(b))
  BY <1>1, ShownTwo
<1>3. Len(r) \in Nat /\ DOMAIN r = 1 .. Len(r) /\ \A x : x \in Range(r) <=> \E i \in 1 .. Len(r) : r[i] = x
  BY <1>2, QueueShape
<1>4. list = [i \in 1 .. Len(r) |-> Entry(r[i])]
  BY <1>1, <1>3 DEF Entries, Entry
<1>5. Queue(list) /\ Len(list) = Len(r)
  <2>1. PICK S : S = {Entry(r[i]) : i \in 1 .. Len(r)}
    OBVIOUS
  <2>2. list \in Seq(S)
    BY <1>3, <1>4, <2>1
  <2>3. Len(list) = Len(r)
    BY <1>3, <1>4, <2>2
  <2> QED  BY <2>2, <2>3 DEF Queue
<1>6. \A e : e \in Range(list) <=> \E x \in Range(r) : e = Entry(x)
  <2>1. \A e : e \in Range(list) <=> \E i \in 1 .. Len(r) : list[i] = e
    BY <1>5, QueueShape
  <2>2. \A i \in 1 .. Len(r) : list[i] = Entry(r[i])
    BY ONLY <1>4
  <2>3. \A e : e \in Range(list) <=> \E i \in 1 .. Len(r) : e = Entry(r[i])
    BY ONLY <1>5, <2>1, <2>2
  <2> QED  BY ONLY <1>3, <2>3
<1>7. \A e \in Range(list) : (e = Entry(a) /\ Listable(a)) \/ (e = Entry(b) /\ Listable(b))
  BY <1>2, <1>6
<1>8. (Listable(a) => Entry(a) \in Range(list)) /\ (Listable(b) => Entry(b) \in Range(list))
  BY <1>2, <1>6
<1>9. Entry(a).name = "own" /\ Entry(a).players = Tally(a) /\ Entry(b).name = "other"
  BY EntryFields
<1>10. \A e \in Range(list) : e.name = "own" => e.players = Tally(a)
  BY <1>7, <1>9
<1>11. ListsOf(list, Listable(a), Listable(b))
  BY <1>2, <1>5, <1>7, <1>8, <1>9 DEF ListsOf
<1> QED  BY <1>10, <1>11

\* An entry of a server that was not listed.
Enlists(n, own, other, o, x) ==
  \/ n.name = "own" /\ ~own /\ o /\ (x <=> other)
  \/ n.name = "other" /\ ~other /\ (o <=> own) /\ x

\* One more server is listed.
LEMMA ListsMore ==
  ASSUME NEW list, NEW own, NEW other, ListsOf(list, own, other), NEW n, NEW longer,
         longer = Append(list, n), NEW o, NEW x, Enlists(n, own, other, o, x)
  PROVE  ListsOf(longer, o, x) /\ \A e \in Range(longer) : e \in Range(list) \/ e = n
<1>1. Queue(list) /\ longer = Append(list, n)
  BY DEF ListsOf
<1>2. Queue(longer) /\ Len(longer) = Len(list) + 1 /\ \A e : e \in Range(longer) <=> e \in Range(list) \/ e = n
  BY ONLY <1>1, Appended
<1>3. /\ (n.name = "own" /\ ~own /\ o /\ (x <=> other)) \/ (n.name = "other" /\ ~other /\ (o <=> own) /\ x)
      /\ Queue(list) /\ Len(list) = (IF own THEN 1 ELSE 0) + (IF other THEN 1 ELSE 0)
  BY DEF Enlists, ListsOf
<1>4. Len(longer) = (IF o THEN 1 ELSE 0) + (IF x THEN 1 ELSE 0)
  BY <1>2, <1>3
<1>5. \A e \in Range(longer) : (e.name = "own" /\ o) \/ (e.name = "other" /\ x)
  BY <1>2, <1>3 DEF ListsOf
<1>6. (o => \E e \in Range(longer) : e.name = "own") /\ (x => \E e \in Range(longer) : e.name = "other")
  BY <1>2, <1>3 DEF ListsOf
<1> QED  BY <1>2, <1>4, <1>5, <1>6 DEF ListsOf

----------------------------------------------------------------------------
(***************************************************************************)
(* The own server is listed with the answer to its ping, which is the last *)
(* one it waits for: everybody is known by then.                           *)
(***************************************************************************)
Ping == <<"ping", Empty>>
Greets == {<<>>, <<Ping>>, <<<<"list", Empty>>, Ping>>, <<<<"info", Empty>>, <<"list", Empty>>, Ping>>}

\* The lines of a game of which only the pages matter.
WebKinds == {"enter", "exit", "changing", "loaded", "start", "matchend", "info", "list", "pong", "report", "voteover",
             "votecancelled"}

AnswersInTurn(q, sent, full) ==
  /\ sent \in Greets /\ \A l \in Range(q) : l.kind \in WebKinds
  /\ full => sent = <<>> /\ \A l \in Range(q) : l.kind \notin {"list", "pong"}
  /\ \A l \in Range(q) : l.kind = "pong" => sent = <<>>
  /\ \A i, j \in 1 .. Len(q) : q[j].kind = "pong" /\ q[i].kind \in {"list", "pong"} => i <= j

NeverPinged(q, sent, full) ==
  ~full /\ Ping \notin Range(sent) /\ \A l \in Range(q) : l.kind # "pong"

Orderly(t, q, sent, full) ==
  /\ t = "web" => AnswersInTurn(q, sent, full)
  /\ t # "web" => NeverPinged(q, sent, full)

\* A line is written, and nothing answered.
LEMMA OrderlyMore ==
  ASSUME NEW t, NEW q, Queue(q), NEW sent, NEW full, Orderly(t, q, sent, full), NEW l,
         l.kind \notin {"list", "pong"}, t = "web" => l.kind \in WebKinds, NEW r, r = Append(q, l)
  PROVE  Orderly(t, r, sent, full)
<1>1. Queue(q) /\ r = Append(q, l)
  OBVIOUS
<1>2. /\ Queue(r) /\ Len(r) = Len(q) + 1 /\ r[Len(q) + 1] = l
      /\ \A i \in 1 .. Len(q) : r[i] = q[i]
      /\ \A x : x \in Range(r) <=> x \in Range(q) \/ x = l
  <2>1. Queue(r) /\ Len(r) = Len(q) + 1 /\ r[Len(q) + 1] = l
    BY ONLY <1>1, Appended
  <2>2. \A i \in 1 .. Len(q) : r[i] = q[i]
    BY ONLY <1>1, Appended
  <2>3. \A x : x \in Range(r) <=> x \in Range(q) \/ x = l
    BY ONLY <1>1, Appended
  <2> QED  BY <2>1, <2>2, <2>3
<1>3. Len(q) \in Nat
  BY QueueShape
<1>4. CASE t = "web"
  <2>1. AnswersInTurn(q, sent, full)
    BY <1>4 DEF Orderly
  <2>2. \A i, j \in 1 .. Len(r) : r[j].kind = "pong" /\ r[i].kind \in {"list", "pong"} => i <= j
    <3> SUFFICES ASSUME NEW i \in 1 .. Len(r), NEW j \in 1 .. Len(r), r[j].kind = "pong", r[i].kind \in {"list", "pong"}
                 PROVE  i <= j
      OBVIOUS
    <3>1. i # Len(q) + 1 /\ j # Len(q) + 1
      BY <1>2
    <3>2. i \in 1 .. Len(q) /\ j \in 1 .. Len(q)
      BY <1>2, <1>3, <3>1
    <3>3. q[i] = r[i] /\ q[j] = r[j]
      BY <1>2, <3>2
    <3> QED  BY <2>1, <3>2, <3>3 DEF AnswersInTurn
  <2>3. AnswersInTurn(r, sent, full)
    BY <1>2, <1>4, <2>1, <2>2 DEF AnswersInTurn
  <2> QED  BY <1>4, <2>3 DEF Orderly
<1>5. CASE t # "web"
  BY <1>2, <1>5 DEF Orderly, NeverPinged
<1> QED  BY <1>4, <1>5

LEMMA GreetsLess ==
  ASSUME NEW sent \in Greets, sent # <<>>, NEW rest, rest = Tail(sent), NEW c, c = Head(sent)
  PROVE  rest \in Greets /\ (c[1] = "ping" => rest = <<>>) /\ c[1] \in {"info", "list", "ping"}
<1>1. PICK i : i = <<"info", Empty>>
  OBVIOUS
<1>2. PICK l : l = <<"list", Empty>>
  OBVIOUS
<1>3. PICK p : p = Ping
  OBVIOUS
<1>4. i[1] = "info" /\ l[1] = "list" /\ p[1] = "ping"
  BY <1>1, <1>2, <1>3 DEF Ping
<1>5. Greets = {<<>>, <<p>>, <<l, p>>, <<i, l, p>>}
  BY <1>1, <1>2, <1>3 DEF Greets
<1>6. CASE sent = <<p>>
  <2>1. c = p /\ rest = <<>>
    BY <1>6
  <2> QED  BY <1>4, <1>5, <2>1
<1>7. CASE sent = <<l, p>>
  <2>1. c = l /\ rest = <<p>>
    BY <1>7
  <2> QED  BY <1>4, <1>5, <2>1
<1>8. CASE sent = <<i, l, p>>
  <2>1. c = i /\ rest = <<l, p>>
    BY <1>8
  <2> QED  BY <1>4, <1>5, <2>1
<1> QED  BY <1>5, <1>6, <1>7, <1>8

\* A command is read.
LEMMA OrderlyRead ==
  ASSUME NEW t, NEW q, Queue(q), NEW sent, Queue(sent), \A c \in Range(sent) : c \in Orders, NEW full,
         Orderly(t, q, sent, full), sent # <<>>, NEW rest, rest = Tail(sent)
  PROVE  Orderly(t, q, rest, full)
<1>1. \A c : c \in Range(rest) => c \in Range(sent)
  BY Tailed
<1>2. CASE t = "web"
  <2>1. PICK c : c = Head(sent)
    OBVIOUS
  <2>2. AnswersInTurn(q, sent, full)
    BY <1>2 DEF Orderly
  <2>3. rest \in Greets
    BY <2>1, <2>2, GreetsLess DEF AnswersInTurn
  <2>4. AnswersInTurn(q, rest, full)
    BY <2>2, <2>3 DEF AnswersInTurn
  <2> QED  BY <1>2, <2>4 DEF Orderly
<1>3. CASE t # "web"
  BY <1>1, <1>3 DEF Orderly, NeverPinged
<1> QED  BY <1>2, <1>3

\* It is answered by the list, or if it was a ping.
LEMMA OrderlyAnswer ==
  ASSUME NEW t, NEW q, Queue(q), NEW sent, Queue(sent), \A c \in Range(sent) : c \in Orders, NEW full,
         Orderly(t, q, sent, full), sent # <<>>, NEW rest, rest = Tail(sent),
         NEW command, Head(sent)[1] = command,
         NEW l, l.kind = "list" \/ (l.kind = "pong" /\ command = "ping"), NEW r, r = Append(q, l)
  PROVE  Orderly(t, r, rest, full)
<1>1. Queue(q) /\ r = Append(q, l)
  OBVIOUS
<1>2. /\ Queue(r) /\ Len(r) = Len(q) + 1 /\ r[Len(q) + 1] = l
      /\ \A i \in 1 .. Len(q) : r[i] = q[i]
      /\ \A x : x \in Range(r) <=> x \in Range(q) \/ x = l
  <2>1. Queue(r) /\ Len(r) = Len(q) + 1 /\ r[Len(q) + 1] = l
    BY ONLY <1>1, Appended
  <2>2. \A i \in 1 .. Len(q) : r[i] = q[i]
    BY ONLY <1>1, Appended
  <2>3. \A x : x \in Range(r) <=> x \in Range(q) \/ x = l
    BY ONLY <1>1, Appended
  <2> QED  BY <2>1, <2>2, <2>3
<1>3. Len(q) \in Nat
  BY QueueShape
<1>4. PICK c : c = Head(sent)
  OBVIOUS
<1>5. Queue(sent) /\ sent # <<>> /\ rest = Tail(sent)
  OBVIOUS
<1>6. c \in Range(sent) /\ \A x : x \in Range(rest) => x \in Range(sent)
  <2>1. \A x : x \in Range(sent) <=> x = Head(sent) \/ x \in Range(rest)
    BY ONLY <1>5, Tailed
  <2> QED  BY <1>4, <2>1
<1>7. CASE t = "web"
  <2>1. AnswersInTurn(q, sent, full)
    BY <1>7 DEF Orderly
  <2>2. ~full /\ \A x \in Range(q) : x.kind # "pong"
    BY <1>5, <2>1 DEF AnswersInTurn
  <2>3. rest \in Greets /\ (c[1] = "ping" => rest = <<>>)
    BY <1>4, <1>5, <2>1, GreetsLess DEF AnswersInTurn
  <2>4. l.kind = "pong" => rest = <<>>
    BY <1>4, <2>3
  <2>5. \A i, j \in 1 .. Len(r) : r[j].kind = "pong" /\ r[i].kind \in {"list", "pong"} => i <= j
    <3> SUFFICES ASSUME NEW i \in 1 .. Len(r), NEW j \in 1 .. Len(r), r[j].kind = "pong"
                 PROVE  i <= j
      OBVIOUS
    <3>1. j \notin 1 .. Len(q)
      <4>1. j \in 1 .. Len(q) => q[j] \in Range(q) /\ r[j] = q[j]
        BY <1>2, QueueShape
      <4> QED  BY <2>2, <4>1
    <3> QED  BY <1>2, <1>3, <3>1
  <2>6. \A x \in Range(r) : x.kind \in WebKinds
    BY <1>2, <2>1 DEF AnswersInTurn, WebKinds
  <2>7. \A x \in Range(r) : x.kind = "pong" => rest = <<>>
    BY <1>2, <2>2, <2>4
  <2>8. AnswersInTurn(r, rest, full)
    BY <2>2, <2>3, <2>5, <2>6, <2>7 DEF AnswersInTurn
  <2> QED  BY <1>7, <2>8 DEF Orderly
<1>8. CASE t # "web"
  <2>1. NeverPinged(q, sent, full)
    BY <1>8 DEF Orderly
  <2>2. l.kind # "pong"
    <3> SUFFICES ASSUME c[1] = "ping" PROVE FALSE
      BY <1>4
    <3>1. c = Ping
      BY <1>6, OrderShape DEF Ping
    <3> QED  BY <1>6, <2>1, <3>1 DEF NeverPinged
  <2>3. NeverPinged(r, rest, full)
    BY <1>2, <1>6, <2>1, <2>2 DEF NeverPinged
  <2> QED  BY <1>8, <2>3 DEF Orderly
<1> QED  BY <1>7, <1>8

\* The session is, or becomes, fully connected.
Reached(now, full, l) == now <=> (full \/ l.kind = "pong")

\* A line is read.
LEMMA OrderlyLess ==
  ASSUME NEW t, NEW q, Queue(q), q # <<>>, NEW sent, NEW full, Orderly(t, q, sent, full),
         NEW l, l = Head(q), NEW r, r = Tail(q), NEW now, Reached(now, full, l)
  PROVE  /\ Orderly(t, r, sent, now) /\ (full => l.kind \notin {"list", "pong"})
         /\ (t = "web" => l.kind \in WebKinds) /\ (t # "web" => l.kind # "pong")
<1>1. Queue(q) /\ q # <<>> /\ r = Tail(q)
  OBVIOUS
<1>2. /\ Queue(r) /\ Len(q) = Len(r) + 1 /\ Head(q) = q[1]
      /\ \A i \in 1 .. Len(r) : r[i] = q[i + 1]
      /\ \A x : x \in Range(q) <=> x = Head(q) \/ x \in Range(r)
  BY ONLY <1>1, Tailed
<1>3. Len(r) \in Nat /\ l \in Range(q) /\ q[1] = l
  BY <1>2, QueueShape
<1>n. now <=> (full \/ l.kind = "pong")
  BY DEF Reached
<1>4. CASE t = "web"
  <2>1. AnswersInTurn(q, sent, full)
    BY <1>4 DEF Orderly
  <2>2. l.kind \in WebKinds /\ (full => l.kind \notin {"list", "pong"}) /\ (l.kind = "pong" => sent = <<>>)
    BY <1>3, <2>1 DEF AnswersInTurn
  <2>3. \A i, j \in 1 .. Len(r) : r[j].kind = "pong" /\ r[i].kind \in {"list", "pong"} => i <= j
    <3> SUFFICES ASSUME NEW i \in 1 .. Len(r), NEW j \in 1 .. Len(r), r[j].kind = "pong", r[i].kind \in {"list", "pong"}
                 PROVE  i <= j
      OBVIOUS
    <3>1. i + 1 \in 1 .. Len(q) /\ j + 1 \in 1 .. Len(q) /\ q[i + 1] = r[i] /\ q[j + 1] = r[j]
      BY <1>2, <1>3
    <3>2. i + 1 <= j + 1
      BY <2>1, <3>1 DEF AnswersInTurn
    <3> QED  BY <3>2
  <2>4. l.kind = "pong" => \A x \in Range(r) : x.kind \notin {"list", "pong"}
    <3> SUFFICES ASSUME l.kind = "pong", NEW x \in Range(r), x.kind \in {"list", "pong"} PROVE FALSE
      OBVIOUS
    <3>0. \A y : y \in Range(r) <=> \E i \in 1 .. Len(r) : r[i] = y
      BY ONLY <1>2, QueueShape
    <3>1. PICK i \in 1 .. Len(r) : r[i] = x
      BY <3>0
    <3>2. i + 1 \in 1 .. Len(q) /\ q[i + 1] = x /\ 1 \in 1 .. Len(q) /\ i + 1 > 1
      BY <1>2, <1>3, <3>1
    <3>3. i + 1 <= 1
      BY <1>3, <2>1, <3>2 DEF AnswersInTurn
    <3> QED  BY <3>2, <3>3
  <2>5. now => sent = <<>> /\ \A x \in Range(r) : x.kind \notin {"list", "pong"}
    BY <1>n, <1>2, <2>1, <2>2, <2>4 DEF AnswersInTurn
  <2>6. AnswersInTurn(r, sent, now)
    BY <1>2, <2>1, <2>3, <2>5 DEF AnswersInTurn
  <2> QED  BY <1>4, <2>2, <2>6 DEF Orderly
<1>5. CASE t # "web"
  <2>1. NeverPinged(q, sent, full)
    BY <1>5 DEF Orderly
  <2>2. l.kind # "pong" /\ ~full /\ ~now
    BY <1>n, <1>3, <2>1 DEF NeverPinged
  <2>3. NeverPinged(r, sent, now)
    BY <1>2, <2>1, <2>2 DEF NeverPinged
  <2> QED  BY <1>5, <2>2, <2>3 DEF Orderly
<1> QED  BY <1>4, <1>5

----------------------------------------------------------------------------
\* What the list counts of the own server, and what its details have of it.
Counted(list, s) ==
  \A e \in Range(list) : e.name = "own" /\ s.state # "travelling" =>
    \E n \in Nat : n = Cardinality(DOMAIN s.players) /\ e.players \in {Listed(n), Listed(n + 1)}
Attended1(d, s, h) ==
  ~d.stale /\ s.state # "travelling" =>
    d.players \subseteq DOMAIN s.players /\ h \cap DOMAIN s.players \subseteq d.players

Own1(s) == s.up /\ s.full

ShowsWell ==
  /\ Orderly(topic, rx, tx, bot.server.full)
  /\ ListsOf(pages.list, Own1(bot.server), bot.other)
  /\ Counted(pages.list, bot.server)
  /\ Attended1(pages.details["own"], bot.server, hall)

LEMMA GameShows ==
  ASSUME Knows, ShowsWell, topic' = topic, bot' = bot, hall' = hall, pages' = pages,
         NEW r, r = rx', NEW rest, rest = tx', Orderly(topic, r, rest, bot.server.full)
  PROVE  ShowsWell'
BY DEF ShowsWell

\* What is on its way, and what was asked.
LEMMA UnderWay ==
  ASSUME Knows, ShowsWell
  PROVE  /\ Queue(rx) /\ Queue(tx) /\ (\A c \in Range(tx) : c \in Orders)
         /\ Orderly(topic, rx, tx, bot.server.full)
BY DEF Knows, Typed, ShowsWell

LEMMA WritesShows ==
  ASSUME Knows, ShowsWell, NEW l, Writes(l), tx' = tx,
         l.kind \notin {"list", "pong"}, topic = "web" => l.kind \in WebKinds
  PROVE  ShowsWell'
<1>1. PICK r : r = rx'
  OBVIOUS
<1>2. r = Append(rx, l) \/ r = rx
  BY <1>1 DEF Writes
<1>3. topic' = topic /\ bot' = bot /\ hall' = hall /\ pages' = pages
  BY DEF Writes
<1>4. Queue(rx) /\ Orderly(topic, rx, tx, bot.server.full)
  BY UnderWay
<1>5. PICK t : t = topic
  OBVIOUS
<1>6. PICK full : full = bot.server.full
  OBVIOUS
<1>7. Orderly(t, r, tx, full)
  <2>1. CASE r = Append(rx, l)
    <3>1. Queue(rx) /\ Orderly(t, rx, tx, full) /\ l.kind \notin {"list", "pong"} /\ (t = "web" => l.kind \in WebKinds)
          /\ r = Append(rx, l)
      BY <1>4, <1>5, <1>6, <2>1
    <3> QED  BY ONLY <3>1, OrderlyMore
  <2> QED  BY <1>2, <1>4, <1>5, <1>6, <2>1
<1>8. PICK rest : rest = tx'
  OBVIOUS
<1>9. rest = tx
  BY <1>8
<1> QED  BY <1>1, <1>3, <1>5, <1>6, <1>7, <1>8, <1>9, GameShows

\* A command is read, and a line is written, or none.
LEMMA ReadsShows ==
  ASSUME Knows, ShowsWell, NEW command, Reads(command), topic' = topic, bot' = bot, hall' = hall, pages' = pages,
         \/ rx' = rx
         \/ \E l : /\ rx' = Append(rx, l) /\ (topic = "web" => l.kind \in WebKinds)
                   /\ l.kind = "pong" => command = "ping"
  PROVE  ShowsWell'
<1>1. PICK r : r = rx'
  OBVIOUS
<1>2. PICK rest : rest = tx'
  OBVIOUS
<1>3. tx # <<>> /\ Head(tx)[1] = command /\ rest = Tail(tx)
  BY <1>2 DEF Reads
<1>4. PICK t : t = topic
  OBVIOUS
<1>5. PICK full : full = bot.server.full
  OBVIOUS
<1>6. Queue(rx) /\ Queue(tx) /\ (\A c \in Range(tx) : c \in Orders) /\ Orderly(t, rx, tx, full)
  BY <1>4, <1>5, UnderWay
<1>7. Orderly(t, rx, rest, full)
  BY <1>3, <1>6, OrderlyRead
<1>8. Orderly(t, r, rest, full)
  <2>1. ASSUME NEW l, r = Append(rx, l), t = "web" => l.kind \in WebKinds, l.kind = "pong" => command = "ping"
        PROVE  Orderly(t, r, rest, full)
    <3>1. CASE l.kind \in {"list", "pong"}
      <4>1. Queue(rx) /\ Queue(tx) /\ (\A c \in Range(tx) : c \in Orders) /\ Orderly(t, rx, tx, full) /\ tx # <<>>
            /\ rest = Tail(tx) /\ Head(tx)[1] = command /\ (l.kind = "list" \/ (l.kind = "pong" /\ command = "ping"))
            /\ r = Append(rx, l)
        BY <1>3, <1>6, <2>1, <3>1
      <4> QED  BY ONLY <4>1, OrderlyAnswer
    <3>2. CASE l.kind \notin {"list", "pong"}
      <4>1. Queue(rx) /\ Orderly(t, rx, rest, full) /\ l.kind \notin {"list", "pong"}
            /\ (t = "web" => l.kind \in WebKinds) /\ r = Append(rx, l)
        BY <1>6, <1>7, <2>1, <3>2
      <4> QED  BY ONLY <4>1, OrderlyMore
    <3> QED  BY <3>1, <3>2
  <2> QED  BY <1>1, <1>4, <1>7, <2>1
<1> QED  BY <1>1, <1>2, <1>4, <1>5, <1>8, GameShows

\* The same for a line that is written for an answer.
LEMMA AnswersShows ==
  ASSUME Knows, ShowsWell, NEW command, Reads(command), NEW l, Writes(l),
         topic = "web" => l.kind \in WebKinds, l.kind = "pong" => command = "ping"
  PROVE  ShowsWell'
<1>1. topic' = topic /\ bot' = bot /\ hall' = hall /\ pages' = pages /\ (rx' = Append(rx, l) \/ rx' = rx)
  BY DEF Writes
<1> QED  BY <1>1, ReadsShows

LEMMA GameStepShows ==
  ASSUME Knows, ShowsWell, GameStep
  PROVE  ShowsWell'
<1>1. ASSUME NEW c \in Clients, NEW team \in Teams, Join(c, team, topic # "talk")
      PROVE  ShowsWell'
  <2>1. PICK l : l = [kind |-> "enter", by |-> Token(c, team), on |-> Nobody, steam |-> topic # "talk"]
    OBVIOUS
  <2>2. Writes(l) /\ tx' = tx /\ l.kind = "enter"
    BY <1>1, <2>1 DEF Join
  <2> QED  BY <2>2, WritesShows DEF WebKinds
<1>2. ASSUME NEW c \in Clients, Leave(c)
      PROVE  ShowsWell'
  <2>1. PICK l : l = [kind |-> "exit", by |-> Tok(c), on |-> Nobody]
    OBVIOUS
  <2>2. Writes(l) /\ tx' = tx /\ l.kind = "exit"
    BY <1>2, <2>1 DEF Leave
  <2> QED  BY <2>2, WritesShows DEF WebKinds
<1>3. ASSUME NEW c \in Clients, topic = "result", ChangeTeam(c)
      PROVE  ShowsWell'
  <2>1. PICK other : other = CHOOSE t \in Teams : t # game.players[c].team
    OBVIOUS
  <2>2. PICK l : l = [kind |-> "teamjoin", by |-> Token(c, other), on |-> Nobody]
    OBVIOUS
  <2>3. Writes(l) /\ tx' = tx /\ l.kind = "teamjoin"
    BY <1>3, <2>1, <2>2 DEF ChangeTeam
  <2> QED  BY <1>3, <2>3, WritesShows
<1>4. ASSUME NEW c \in Clients, NEW t \in VoteTeams, NEW what, CallVote(t, c, what)
      PROVE  ShowsWell'
  <2>1. PICK l : l = [kind |-> "votecalled", by |-> Tok(c), on |-> Nobody, what |-> what, team |-> t]
    OBVIOUS
  <2>2. Writes(l) /\ tx' = tx /\ l.kind = "votecalled" /\ topic = "vote"
    BY <1>4, <2>1 DEF CallVote
  <2> QED  BY <2>2, WritesShows
<1>5. ASSUME NEW l \in Deeds, Deed(l)
      PROVE  ShowsWell'
  <2>1. PICK T : T = SidesOf(game.players)
    OBVIOUS
  <2>2. DeedLine(l, T)
    BY <2>1, DeedsFair DEF Fair
  <2>3. l.kind \notin {"list", "pong"}
    BY <2>2 DEF DeedLine, PlainKinds
  <2>4. topic # "web"
    BY DEF Deeds
  <2>5. Writes(l) /\ tx' = tx
    BY <1>5 DEF Deed
  <2> QED  BY <2>3, <2>4, <2>5, WritesShows
<1>6. ASSUME NEW l \in Talk, Says(l)
      PROVE  ShowsWell'
  <2>1. PICK T : T = SidesOf(game.players)
    OBVIOUS
  <2>2. l.kind \in PlainKinds \cup {"report"}
    BY <2>1, TalkFair
  <2>3. topic = "talk" /\ Writes(l) /\ tx' = tx
    BY <1>6 DEF Says
  <2> QED  BY <2>2, <2>3, WritesShows DEF PlainKinds
<1>7. ASSUME NEW winner, topic # "web", EndMatch(winner) \/ EndMap(winner)
      PROVE  ShowsWell'
  <2>1. PICK l : l = [kind |-> "matchend", winner |-> winner]
    OBVIOUS
  <2>2. l.kind = "matchend"
    BY <2>1
  <2>3. CASE EndMatch(winner)
    <3>1. Writes(l) /\ tx' = tx
      BY <2>1, <2>3 DEF EndMatch
    <3> QED  BY <1>7, <2>2, <3>1, WritesShows
  <2>4. CASE EndMap(winner) /\ game.phase = "playing"
    <3>1. Reads("endmap") /\ Writes(l)
      BY <2>1, <2>4 DEF EndMap
    <3> QED  BY <1>7, <2>2, <3>1, AnswersShows
  <2>5. CASE EndMap(winner) /\ game.phase # "playing"
    <3>1. Reads("endmap") /\ topic' = topic /\ bot' = bot /\ hall' = hall /\ pages' = pages /\ rx' = rx
      BY <2>5 DEF EndMap
    <3> QED  BY <3>1, ReadsShows
  <2> QED  BY <1>7, <2>3, <2>4, <2>5
<1>8. ASSUME NEW seamless \in BOOLEAN, Travel(seamless)
      PROVE  ShowsWell'
  <2>1. PICK l : l = [kind |-> "changing", seamless |-> seamless, match |-> game.match + 1,
                      ended |-> game.phase = "over"]
    OBVIOUS
  <2>2. Writes(l) /\ tx' = tx /\ l.kind = "changing"
    BY <1>8, <2>1 DEF Travel
  <2> QED  BY <2>2, WritesShows DEF WebKinds
<1>9. CASE Loads \/ Starts
  <2>1. PICK l : l = [kind |-> IF Loads THEN "loaded" ELSE "start"]
    OBVIOUS
  <2>2. l.kind \in {"loaded", "start"}
    BY <2>1
  <2>3. CASE Loads
    <3>1. Writes(l) /\ tx' = tx
      BY <2>1, <2>3 DEF Loads
    <3> QED  BY <2>2, <3>1, WritesShows DEF WebKinds
  <2>4. CASE ~Loads
    <3>1. l = [kind |-> "start"]
      BY <2>1, <2>4
    <3>2. Writes(l) /\ tx' = tx
      BY <1>9, <2>4, <3>1 DEF Starts
    <3> QED  BY <2>2, <3>2, WritesShows DEF WebKinds
  <2> QED  BY <2>3, <2>4
<1>10. ASSUME NEW t \in VoteTeams, VoteEnds(t, t = "Nod")
       PROVE  ShowsWell'
  <2>1. PICK l : l = [kind |-> "voteover", success |-> t = "Nod"]
    OBVIOUS
  <2>2. Writes(l) /\ tx' = tx /\ l.kind = "voteover"
    BY <1>10, <2>1 DEF VoteEnds
  <2> QED  BY <2>2, WritesShows DEF WebKinds
<1>11. CASE AnswerInfo
  <2>1. PICK l : l = [kind |-> "info", state |-> game.phase]
    OBVIOUS
  <2>2. Reads("info") /\ Writes(l) /\ l.kind = "info"
    BY <1>11, <2>1 DEF AnswerInfo
  <2> QED  BY <2>2, AnswersShows DEF WebKinds
<1>12. CASE AnswerList
  <2>1. PICK l : l = [kind |-> "list", rows |-> [p \in Present |-> Row(game.players[p])]]
    OBVIOUS
  <2>2. Reads("list") /\ Writes(l) /\ l.kind = "list"
    BY <1>12, <2>1 DEF AnswerList
  <2> QED  BY <2>2, AnswersShows DEF WebKinds
<1>13. CASE AnswerPing
  <2>1. PICK l : l = [kind |-> "pong"]
    OBVIOUS
  <2>2. Reads("ping") /\ Writes(l) /\ l.kind = "pong"
    BY <1>13, <2>1 DEF AnswerPing
  <2> QED  BY <2>2, AnswersShows DEF WebKinds
<1>14. CASE CancelVote
  <2>1. PICK l : l = [kind |-> "votecancelled"]
    OBVIOUS
  <2>2. l.kind = "votecancelled" /\ Reads("cancel")
    BY <1>14, <2>1 DEF CancelVote
  <2>3. Writes(l) \/ (topic' = topic /\ bot' = bot /\ hall' = hall /\ pages' = pages /\ rx' = rx)
    BY <1>14, <2>1 DEF CancelVote
  <2> QED  BY <2>2, <2>3, AnswersShows, ReadsShows DEF WebKinds
<1> QED  BY <1>1, <1>2, <1>3, <1>4, <1>5, <1>6, <1>7, <1>8, <1>9, <1>10, <1>11, <1>12, <1>13, <1>14 DEF GameStep

----------------------------------------------------------------------------
\* What a line makes of the server, from s to u, and of the hall, from h to k.
Passes(s, u, l, h, k) ==
  /\ s.up /\ u.up /\ (u.full <=> (s.full \/ l.kind = "pong"))
  /\ l.kind # "loaded" /\ u.state # "travelling" => s.state # "travelling"
  /\ l.kind = "changing" => u.state = "travelling"
  /\ l.kind = "exit" => /\ DOMAIN u.players = DOMAIN s.players \ {l.by.who}
                        /\ k \subseteq h /\ u.state = s.state
  /\ l.kind \in WebKinds \ {"enter", "exit", "changing", "list"} => DOMAIN u.players = DOMAIN s.players
  /\ l.kind \notin {"enter", "exit", "changing"} =>
       /\ k = h /\ DOMAIN s.players \subseteq DOMAIN u.players
       /\ \A p \in h : p \in DOMAIN u.players => p \in DOMAIN s.players

LEMMA BecomesFields ==
  ASSUME NEW c, NEW match, NEW u, Becomes(u, c, match)
  PROVE  u.up = TRUE /\ u.full = c.full /\ u.state = c.state /\ u.players = c.players
BY DEF Becomes

LEMMA AfterDomain ==
  ASSUME NEW ps, NEW l, NEW qs, qs = After(ps, l)
  PROVE  /\ l.kind = "exit" => DOMAIN qs = DOMAIN ps \ {l.by.who}
         /\ l.kind \in WebKinds \ {"enter", "exit", "changing", "list"} => DOMAIN qs = DOMAIN ps
<1>1. CASE l.kind = "exit"
  <2>1. qs = Exit(ps, l)
    BY <1>1 DEF After
  <2> QED  BY <1>1, <2>1 DEF Exit
<1>2. CASE l.kind = "matchend"
  <2>1. qs = OnPreGameOver(ps, l)
    BY <1>2 DEF After
  <2>2. CASE l.winner = Empty
    BY <1>2, <2>1, <2>2 DEF OnPreGameOver
  <2>3. CASE l.winner # Empty
    <3>1. DOMAIN qs = DOMAIN ps
      BY <2>1, <2>3 DEF OnPreGameOver
    <3> QED  BY <1>2, <3>1
  <2> QED  BY <2>2, <2>3
<1>3. CASE l.kind \in WebKinds \ {"enter", "exit", "changing", "list", "matchend"}
  <2>1. qs = ps
    BY <1>3 DEF After, WebKinds
  <2> QED  BY <1>3, <2>1
<1> QED  BY <1>1, <1>2, <1>3

LEMMA PassesNow ==
  ASSUME Knows, NEW b, NEW l, NEW c, ReadsInto(b, l, c), NEW s, s = bot.server, NEW u, u = bot'.server,
         NEW h, h = hall, NEW k, k = hall'
  PROVE  Passes(s, u, l, h, k) /\ c.players = u.players
<1>1. Reads1(b, l, c) /\ k = c.hall /\ \E match : Becomes(u, c, match)
  BY DEF ReadsInto
<1>2. PICK match : Becomes(u, c, match)
  BY <1>1
<1>3. u.up = TRUE /\ u.full = c.full /\ u.state = c.state /\ u.players = c.players
  BY ONLY <1>2, BecomesFields
<1>4. s = server
  BY DEF server
<1>5. s.up /\ c.players = After(s.players, l)
  BY ONLY <1>1, <1>4, ReadFields
<1>6. l.kind = "pong" => c.full = TRUE
  BY ONLY <1>1, ReadFields
<1>7. l.kind # "pong" => c.full = s.full
  BY ONLY <1>1, <1>4, ReadFields
<1>8. /\ l.kind \notin Marking => c.state = s.state
      /\ l.kind = "changing" => c.state = "travelling"
      /\ l.kind = "info" => c.state = l.state
  BY ONLY <1>1, <1>4, ReadFields
<1>9. Due(b, l, c) /\ b = Mind(server, hall) /\ c = Reading(b, l)
  BY <1>1 DEF Reads1
<1>10. b.players = s.players /\ b.state = s.state /\ b.hall = h
  BY <1>4, <1>9 DEF Mind
<1>11. /\ s.state = "travelling" => /\ l.kind \notin {"start", "matchend"}
                                    /\ l.kind = "info" => l.state = "travelling"
       /\ l.kind # "enter" => \A p \in h : p \in DOMAIN c.players => p \in DOMAIN s.players
       /\ l.kind \notin {"exit", "changing"} => DOMAIN s.players \subseteq DOMAIN c.players
       /\ Sensible(l)
  BY <1>9, <1>10 DEF Due, LineType
<1>12. /\ l.kind \notin {"enter", "exit", "changing"} => k = h
       /\ l.kind = "exit" => k \subseteq h
  <2>1. c.hall = Hearing(b, l)
    BY <1>9, ReadingOf
  <2>2. /\ l.kind \notin {"enter", "exit", "changing"} => Hearing(b, l) = b.hall
        /\ l.kind = "exit" => Hearing(b, l) \in {b.hall, b.hall \ {l.by.who}}
    BY <1>11, HeardOf
  <2> QED  BY <1>1, <1>10, <2>1, <2>2
<1>13. /\ l.kind = "exit" => DOMAIN c.players = DOMAIN s.players \ {l.by.who}
       /\ l.kind \in WebKinds \ {"enter", "exit", "changing", "list"} => DOMAIN c.players = DOMAIN s.players
  <2>1. PICK ps : ps = s.players
    OBVIOUS
  <2>2. PICK qs : qs = c.players
    OBVIOUS
  <2>3. qs = After(ps, l)
    BY <1>5, <2>1, <2>2
  <2>4. l.kind = "exit" => DOMAIN qs = DOMAIN ps \ {l.by.who}
    BY ONLY <2>3, AfterDomain
  <2>5. l.kind \in WebKinds \ {"enter", "exit", "changing", "list"} => DOMAIN qs = DOMAIN ps
    BY ONLY <2>3, AfterDomain
  <2> QED  BY <2>1, <2>2, <2>4, <2>5
<1>14. l.kind # "loaded" /\ u.state # "travelling" => s.state # "travelling"
  BY <1>3, <1>8, <1>11 DEF Marking
<1>15. l.kind = "changing" => u.state = "travelling"
  BY <1>3, <1>8
<1>16. l.kind = "exit" => u.state = s.state
  BY <1>3, <1>8 DEF Marking
<1>17. u.full <=> (s.full \/ l.kind = "pong")
  BY <1>3, <1>6, <1>7
<1> QED  BY <1>3, <1>5, <1>11, <1>12, <1>13, <1>14, <1>15, <1>16, <1>17 DEF Passes

----------------------------------------------------------------------------
\* The parts of the invariant, after a line.
LEMMA RemadeShows ==
  ASSUME NEW s, NEW other \in BOOLEAN, NEW a, a = Own(s), NEW x, x = Other(other), NEW servers, servers = <<a, x>>,
         NEW list, list = Entries(servers)
  PROVE  /\ ListsOf(list, Own1(s), other)
         /\ \A e \in Range(list) : e.name = "own" => e.players = Listed(Cardinality(DOMAIN s.players))
<1>1. a.name = "own" /\ x.name = "other"
  BY DEF Own, Other
<1>2. a.active = DOMAIN s.players /\ (Listable(a) <=> Own1(s)) /\ (Listable(x) <=> other)
  BY DEF Own, Other, Own1, Listable
<1>3. /\ ListsOf(list, Listable(a), Listable(x))
      /\ \A e \in Range(list) : e.name = "own" => e.players = Tally(a)
  BY <1>1, EntriesOf
<1>4. Tally(a) = Listed(Cardinality(DOMAIN s.players))
  BY <1>2 DEF Tally
<1>5. ListsOf(list, Own1(s), other)
  BY <1>2, <1>3 DEF ListsOf
<1> QED  BY <1>3, <1>4, <1>5

LEMMA FinitePlayers ==
  ASSUME NEW s, DOMAIN s.players \subseteq Clients
  PROVE  IsFiniteSet(DOMAIN s.players) /\ Cardinality(DOMAIN s.players) \in Nat
<1>1. IsFiniteSet(Clients)
  BY GameAssumption
<1>2. IsFiniteSet(DOMAIN s.players)
  BY <1>1, FS_Subset
<1> QED  BY <1>2, FS_CardinalityType

LEMMA RemadeCounts ==
  ASSUME NEW list, NEW s, DOMAIN s.players \subseteq Clients, NEW u, DOMAIN u.players \subseteq Clients,
         \A e \in Range(list) : e.name = "own" => e.players = Listed(Cardinality(DOMAIN s.players)),
         \/ DOMAIN u.players = DOMAIN s.players
         \/ \E p : DOMAIN u.players = DOMAIN s.players \ {p}
  PROVE  Counted(list, u)
<1>1. PICK S : S = DOMAIN s.players
  OBVIOUS
<1>2. PICK U : U = DOMAIN u.players
  OBVIOUS
<1>3. IsFiniteSet(S) /\ Cardinality(S) \in Nat /\ Cardinality(U) \in Nat
  BY <1>1, <1>2, FinitePlayers
<1>4. Cardinality(S) = Cardinality(U) \/ Cardinality(S) = Cardinality(U) + 1
  <2>1. CASE U = S
    BY <2>1
  <2>2. CASE U # S
    <3>1. PICK p : U = S \ {p}
      BY <1>1, <1>2, <2>2
    <3>2. p \in S
      BY <2>2, <3>1
    <3>3. Cardinality(S \ {p}) = Cardinality(S) - 1
      BY <1>3, <3>2, FS_RemoveElement
    <3> QED  BY <1>3, <3>1, <3>3
  <2> QED  BY <2>1, <2>2
<1> QED  BY <1>1, <1>2, <1>3, <1>4 DEF Counted

LEMMA SameCounts ==
  ASSUME NEW list, NEW s, Counted(list, s), NEW u, DOMAIN u.players = DOMAIN s.players,
         u.state # "travelling" => s.state # "travelling"
  PROVE  Counted(list, u)
BY DEF Counted

LEMMA OrderlySent ==
  ASSUME NEW t, NEW q, Queue(q), q # <<>>, NEW sent, NEW full, Orderly(t, q, sent, full),
         NEW l, l = Head(q), NEW r, r = Tail(q), NEW now, Reached(now, full, l),
         NEW rest, l.kind # "votecalled" => rest = sent, \A x \in Range(rest) : x \in Range(sent) \/ x # Ping
  PROVE  Orderly(t, r, rest, now)
<1>1. /\ Queue(q) /\ q # <<>> /\ Orderly(t, q, sent, full) /\ l = Head(q) /\ r = Tail(q)
      /\ Reached(now, full, l)
  OBVIOUS
<1>2a. Orderly(t, r, sent, now)
  BY ONLY <1>1, OrderlyLess
<1>2b. t = "web" => l.kind \in WebKinds
  BY ONLY <1>1, OrderlyLess
<1>2. Orderly(t, r, sent, now) /\ (t = "web" => l.kind \in WebKinds)
  BY <1>2a, <1>2b
<1>3. CASE l.kind # "votecalled"
  BY <1>2, <1>3
<1>4. CASE l.kind = "votecalled"
  <2>1. t # "web"
    BY <1>2, <1>4 DEF WebKinds
  <2>2. NeverPinged(r, sent, now)
    BY <1>2, <2>1 DEF Orderly
  <2>3. NeverPinged(r, rest, now)
    BY <2>2 DEF NeverPinged
  <2> QED  BY <2>1, <2>3 DEF Orderly
<1> QED  BY <1>3, <1>4

\* A line that comes in its turn.
InTurn(t, l, s) ==
  /\ s.full \in BOOLEAN /\ (s.full => l.kind \notin {"list", "pong"} /\ t = "web")
  /\ t = "web" => l.kind \in WebKinds
  /\ t # "web" => l.kind # "pong"

\* The list is made anew for the server, and its details are forgotten.
ListsNow(qg, s, o) ==
  /\ qg.details["own"].stale /\ ListsOf(qg.list, Own1(s), o)
  /\ \A e \in Range(qg.list) : e.name = "own" => e.players = Listed(Cardinality(DOMAIN s.players))

\* What the pages become by a line that makes u of the server s.
BrowsesTo(pg, qg, s, u, l, o) ==
  /\ l.kind = "pong" => qg.details = pg.details /\ qg.list = Append(pg.list, Entry(Own(u)))
  /\ l.kind = "enter" => ListsNow(qg, u, o)
  /\ l.kind = "exit" => \/ qg = pg /\ (l.by.who \notin DOMAIN s.players \/ s.state = "travelling")
                        \/ ListsNow(qg, s, o)
  /\ l.kind = "loaded" => ListsNow(qg, s, o)
  /\ l.kind \notin {"pong", "enter", "exit", "loaded"} => qg = pg

\* What the parts of the invariant are about, after a line.
ListsWell(pg, s, h, o) ==
  ListsOf(pg.list, Own1(s), o) /\ Counted(pg.list, s) /\ Attended1(pg.details["own"], s, h)

\* The list and the details after a line.
LEMMA ReadLists ==
  ASSUME NEW t, NEW s, NEW u, NEW l, NEW h, NEW k, Passes(s, u, l, h, k), InTurn(t, l, s),
         DOMAIN s.players \subseteq Clients, DOMAIN u.players \subseteq Clients,
         NEW o \in BOOLEAN, NEW pg, NEW qg, ListsWell(pg, s, h, o), BrowsesTo(pg, qg, s, u, l, o)
  PROVE  ListsWell(qg, u, k, o)
<1>0. /\ s.full \in BOOLEAN
      /\ s.full => l.kind \notin {"list", "pong"} /\ t = "web"
      /\ t = "web" => l.kind \in WebKinds
      /\ t # "web" => l.kind # "pong"
  BY DEF InTurn
<1>a. ListsOf(pg.list, Own1(s), o) /\ Counted(pg.list, s) /\ Attended1(pg.details["own"], s, h)
  BY DEF ListsWell
<1>b. /\ l.kind = "pong" => qg.details = pg.details /\ qg.list = Append(pg.list, Entry(Own(u)))
      /\ l.kind = "enter" => ListsNow(qg, u, o)
      /\ l.kind = "exit" => \/ qg = pg /\ (l.by.who \notin DOMAIN s.players \/ s.state = "travelling")
                            \/ ListsNow(qg, s, o)
      /\ l.kind = "loaded" => ListsNow(qg, s, o)
      /\ l.kind \notin {"pong", "enter", "exit", "loaded"} => qg = pg
  BY DEF BrowsesTo
<1> SUFFICES ListsOf(qg.list, Own1(u), o) /\ Counted(qg.list, u) /\ Attended1(qg.details["own"], u, k)
  BY DEF ListsWell
<1>1. s.up /\ u.up /\ (u.full <=> (s.full \/ l.kind = "pong"))
  BY DEF Passes
<1>2. Own1(s) <=> s.full
  BY <1>0, <1>1 DEF Own1
<1>3. Own1(u) <=> (s.full \/ l.kind = "pong")
  BY <1>0, <1>1 DEF Own1
<1>4. CASE l.kind = "pong"
  <2>1. ~s.full /\ Own1(u) /\ ~Own1(s)
    BY <1>0, <1>2, <1>3, <1>4
  <2>2. DOMAIN u.players = DOMAIN s.players /\ k = h /\ (u.state # "travelling" => s.state # "travelling")
    <3>1. l.kind \in WebKinds \ {"enter", "exit", "changing", "list"}
      BY <1>4 DEF WebKinds
    <3> QED  BY <1>4, <3>1 DEF Passes
  <2>3. PICK n : n = Entry(Own(u))
    OBVIOUS
  <2>4. n.name = "own" /\ n.players = Listed(Cardinality(DOMAIN u.players))
    BY <2>3, EntryFields DEF Own, Tally
  <2>5. PICK list : list = pg.list
    OBVIOUS
  <2>6. PICK longer : longer = qg.list
    OBVIOUS
  <2>a. PICK no : ~no
    OBVIOUS
  <2>b. PICK yes : yes
    OBVIOUS
  <2>7. /\ ListsOf(list, no, o) /\ longer = Append(list, n) /\ Enlists(n, no, o, yes, o)
    BY <1>a, <1>b, <1>4, <2>1, <2>3, <2>4, <2>5, <2>6, <2>a, <2>b DEF ListsOf, Enlists
  <2>8. ListsOf(longer, yes, o)
    BY ONLY <2>7, ListsMore
  <2>9. \A e \in Range(longer) : e \in Range(list) \/ e = n
    BY ONLY <2>7, ListsMore
  <2>10. \A e \in Range(list) : e.name # "own"
    BY <2>7, <2>a DEF ListsOf
  <2>12. Cardinality(DOMAIN u.players) \in Nat
    BY FinitePlayers
  <2>13. Counted(longer, u)
    BY <2>4, <2>9, <2>10, <2>12 DEF Counted
  <2>14. Attended1(qg.details["own"], u, k)
    BY <1>a, <1>b, <1>4, <2>2 DEF Attended1
  <2>15. ListsOf(longer, Own1(u), o)
    BY <2>1, <2>8, <2>b DEF ListsOf
  <2> QED  BY <2>6, <2>13, <2>14, <2>15
<1>5. CASE l.kind = "enter"
  <2>1. /\ qg.details["own"].stale /\ ListsOf(qg.list, Own1(u), o)
        /\ \A e \in Range(qg.list) : e.name = "own" => e.players = Listed(Cardinality(DOMAIN u.players))
    BY <1>b, <1>5 DEF ListsNow
  <2>2. Counted(qg.list, u)
    BY <2>1, RemadeCounts
  <2>3. Attended1(qg.details["own"], u, k)
    BY <2>1 DEF Attended1
  <2> QED  BY <2>1, <2>2, <2>3
<1>6. CASE l.kind \in {"exit", "loaded"} /\ ListsNow(qg, s, o)
  <2>0. /\ qg.details["own"].stale /\ ListsOf(qg.list, Own1(s), o)
        /\ \A e \in Range(qg.list) : e.name = "own" => e.players = Listed(Cardinality(DOMAIN s.players))
    BY <1>6 DEF ListsNow
  <2>1. DOMAIN u.players = DOMAIN s.players \/ \E p : DOMAIN u.players = DOMAIN s.players \ {p}
    BY <1>6 DEF Passes, WebKinds
  <2>2. Counted(qg.list, u)
    BY <2>0, <2>1, RemadeCounts
  <2>3. Attended1(qg.details["own"], u, k)
    BY <2>0 DEF Attended1
  <2>4. ListsOf(qg.list, Own1(u), o)
    BY <1>2, <1>3, <1>6, <2>0 DEF ListsOf
  <2> QED  BY <2>2, <2>3, <2>4
<1>7. CASE l.kind = "exit" /\ qg = pg /\ (l.by.who \notin DOMAIN s.players \/ s.state = "travelling")
  <2>1. u.state = s.state /\ DOMAIN u.players = DOMAIN s.players \ {l.by.who} /\ k \subseteq h
    BY <1>7 DEF Passes
  <2>2. CASE s.state = "travelling"
    <3>1. Counted(pg.list, u) /\ Attended1(pg.details["own"], u, k)
      BY <2>1, <2>2 DEF Counted, Attended1
    <3>2. ListsOf(pg.list, Own1(u), o)
      BY <1>a, <1>2, <1>3, <1>7 DEF ListsOf
    <3> QED  BY <1>7, <3>1, <3>2
  <2>3. CASE l.by.who \notin DOMAIN s.players
    <3>1. DOMAIN u.players = DOMAIN s.players
      BY <2>1, <2>3
    <3>2. Counted(pg.list, u)
      BY <1>a, <2>1, <3>1, SameCounts
    <3>3. Attended1(pg.details["own"], u, k)
      BY <1>a, <2>1, <3>1 DEF Attended1
    <3>4. ListsOf(pg.list, Own1(u), o)
      BY <1>a, <1>2, <1>3, <1>7 DEF ListsOf
    <3> QED  BY <1>7, <3>2, <3>3, <3>4
  <2> QED  BY <1>7, <2>2, <2>3
<1>8. CASE l.kind \notin {"pong", "enter", "exit", "loaded"}
  <2>1. qg = pg
    BY <1>b, <1>8
  <2>2. ListsOf(pg.list, Own1(u), o)
    BY <1>a, <1>2, <1>3, <1>8 DEF ListsOf
  <2>3. u.state # "travelling" => s.state # "travelling" /\ l.kind # "changing"
    BY <1>8 DEF Passes
  <2>4. Counted(pg.list, u)
    <3>1. CASE ~s.full
      <4>1. \A e \in Range(pg.list) : e.name # "own"
        BY <1>a, <1>2, <3>1 DEF ListsOf
      <4> QED  BY <4>1 DEF Counted
    <3>2. CASE s.full /\ l.kind # "changing"
      <4>1. l.kind \in WebKinds \ {"enter", "exit", "changing", "list"}
        BY <1>0, <1>8, <3>2
      <4>2. DOMAIN u.players = DOMAIN s.players
        BY <4>1 DEF Passes
      <4> QED  BY <1>a, <2>3, <4>2, SameCounts
    <3>3. CASE l.kind = "changing"
      BY <2>3, <3>3 DEF Counted
    <3> QED  BY <3>1, <3>2, <3>3
  <2>5. Attended1(pg.details["own"], u, k)
    <3>1. CASE l.kind = "changing"
      BY <2>3, <3>1 DEF Attended1
    <3>2. CASE l.kind # "changing"
      <4>1. k = h /\ DOMAIN s.players \subseteq DOMAIN u.players
            /\ \A p \in h : p \in DOMAIN u.players => p \in DOMAIN s.players
        BY <1>8, <3>2 DEF Passes
      <4> QED  BY <1>a, <2>3, <4>1 DEF Attended1
    <3> QED  BY <3>1, <3>2
  <2> QED  BY <2>1, <2>2, <2>4, <2>5
<1> QED  BY <1>b, <1>4, <1>5, <1>6, <1>7, <1>8

LEMMA KnowsListing ==
  ASSUME Knows
  PROVE  DOMAIN bot.server.players \subseteq Clients /\ bot.server.full \in BOOLEAN /\ bot.other \in BOOLEAN
         /\ IsPages(pages) /\ server = bot.server
BY DEF Knows, Typed, IsBot, IsServer, Listing, server

LEMMA OwnSame ==
  ASSUME NEW s, NEW u, s.up = u.up, s.full = u.full, DOMAIN s.players = DOMAIN u.players
  PROVE  Own(s) = Own(u)
BY DEF Own

LEMMA RemadeLists ==
  ASSUME NEW s, NEW o \in BOOLEAN, NEW servers, servers = <<Own(s), Other(o)>>, NEW pg, NEW qg,
         Remade(pg, qg, servers)
  PROVE  ListsNow(qg, s, o)
<1>1. PICK a : a = Own(s)
  OBVIOUS
<1>2. PICK x : x = Other(o)
  OBVIOUS
<1>3. PICK list : list = Entries(servers)
  OBVIOUS
<1>4. /\ ListsOf(list, Own1(s), o)
      /\ \A e \in Range(list) : e.name = "own" => e.players = Listed(Cardinality(DOMAIN s.players))
  BY <1>1, <1>2, <1>3, RemadeShows
<1>5. qg.list = list /\ qg.details["own"].stale
  BY <1>3 DEF Remade
<1> QED  BY <1>4, <1>5 DEF ListsNow

\* The servers as they are when a line is read, and as Browsed has them.
LEMMA ServersRead ==
  ASSUME Knows, NEW b, NEW l, NEW c, ReadsInto(b, l, c), NEW s, s = bot.server, NEW u, u = bot'.server,
         u.full \in BOOLEAN, NEW o, o = bot.other
  PROVE  /\ Servers(server) = <<Own(s), Other(o)>>
         /\ l.kind = "pong" => Own(Full) = Own(u)
         /\ l.kind = "enter" => Servers(Heard) = <<Own(u), Other(o)>>
<1>1. Reads1(b, l, c) /\ \E match : Becomes(u, c, match)
  BY DEF ReadsInto
<1>2. PICK match : Becomes(u, c, match)
  BY <1>1
<1>3. u.up = TRUE /\ u.full = c.full /\ u.players = c.players
  BY ONLY <1>2, BecomesFields
<1>4. s = server /\ server.up
  BY <1>1, ReadFields DEF server
<1>5a. l.kind = "pong" => c.full = TRUE
  BY <1>1, <1>4, ReadFields
<1>5b. l.kind # "pong" => c.full = s.full
  <2>1. Reads1(b, l, c)
    BY <1>1
  <2>2. l.kind # "pong" => c.full = server.full
    BY ONLY <2>1, ReadFields
  <2> QED  BY <1>4, <2>2
<1>5. /\ l.kind = "pong" => c.full = TRUE
      /\ l.kind # "pong" => c.full = s.full
  BY <1>5a, <1>5b
<1>6. Servers(server) = <<Own(s), Other(o)>>
  BY <1>4 DEF Servers
<1>7. ASSUME l.kind = "pong"
      PROVE  Own(Full) = Own(u)
  <2>1. PICK yes : yes = TRUE
    OBVIOUS
  <2>2. PICK f : f = Full
    OBVIOUS
  <2>3. server = [up |-> server.up, informed |-> server.informed, full |-> server.full, state |-> server.state,
                  seamless |-> server.seamless, match |-> server.match, players |-> server.players]
        /\ server.up \in BOOLEAN
    BY ServerNow DEF IsServer
  <2>4. f = [server EXCEPT !.full = yes]
    BY <2>1, <2>2 DEF Full
  <2>5. f.up = server.up /\ f.full = yes /\ f.players = server.players
    BY ONLY <2>3, <2>4
  <2>6. c.players = server.players
    BY <1>1, <1>7, ReadNothing
  <2>7. f.up = u.up /\ f.full = u.full /\ DOMAIN f.players = DOMAIN u.players
    BY <1>3, <1>4, <1>5, <1>7, <2>1, <2>3, <2>5, <2>6
  <2> QED  BY <2>2, <2>7, OwnSame
<1>8. ASSUME l.kind = "enter"
      PROVE  Servers(Heard) = <<Own(u), Other(o)>>
  <2>1. PICK f : f = Heard
    OBVIOUS
  <2>2. f = [up |-> TRUE, informed |-> server.informed, full |-> server.full, state |-> server.state,
             seamless |-> server.seamless, match |-> server.match, players |-> c.players]
    BY <1>1, <2>1, HeardServer
  <2>3. f.up = TRUE /\ f.full = server.full /\ f.players = c.players
    BY ONLY <2>2
  <2>4. f.up = u.up /\ f.full = u.full /\ DOMAIN f.players = DOMAIN u.players
    BY <1>3, <1>4, <1>5, <1>8, <2>3
  <2>5. Own(f) = Own(u)
    BY <2>4, OwnSame
  <2> QED  BY <2>1, <2>5 DEF Servers
<1> QED  BY <1>6, <1>7, <1>8

LEMMA ReadBrowses ==
  ASSUME Knows, NEW b, NEW l, NEW c, ReadsInto(b, l, c), NEW s, s = bot.server, NEW u, u = bot'.server,
         u.full \in BOOLEAN, NEW o, o = bot.other, NEW pg, pg = pages, NEW qg, qg = pages'
  PROVE  BrowsesTo(pg, qg, s, u, l, o)
<1>1. Reads1(b, l, c) /\ qg = Browsed
  BY DEF ReadsInto
<1>2. l = Head(rx) /\ server = s /\ IsPages(pages) /\ o \in BOOLEAN
  BY <1>1, KnowsListing DEF Reads1
<1>3. PICK servers : servers = Servers(server)
  OBVIOUS
<1>4. PICK heard : heard = Servers(Heard)
  OBVIOUS
<1>5. /\ l.kind = "pong" => /\ qg.details = pages.details
                            /\ qg.list = Append(pages.list, Web!server_as_json(Own(Full)))
      /\ l.kind = "enter" => Remade(pages, qg, heard)
      /\ l.kind = "exit" => \/ qg = pages /\ (l.by.who \notin DOMAIN server.players \/ server.state = "travelling")
                            \/ Remade(pages, qg, servers)
      /\ l.kind = "loaded" => Remade(pages, qg, servers)
      /\ l.kind \notin {"pong", "enter", "exit", "loaded"} => qg = pages
  BY <1>1, <1>2, <1>3, <1>4, BrowsedPages
<1>6. /\ servers = <<Own(s), Other(o)>>
      /\ l.kind = "pong" => Own(Full) = Own(u)
      /\ l.kind = "enter" => heard = <<Own(u), Other(o)>>
  BY <1>3, <1>4, ServersRead
<1>7. Remade(pages, qg, servers) => ListsNow(qg, s, o)
  BY <1>2, <1>6, RemadeLists
<1>8. l.kind = "enter" => ListsNow(qg, u, o)
  <2> SUFFICES ASSUME l.kind = "enter" PROVE ListsNow(qg, u, o)
    OBVIOUS
  <2>1. heard = <<Own(u), Other(o)>> /\ Remade(pages, qg, heard)
    BY <1>5, <1>6
  <2> QED  BY <1>2, <2>1, RemadeLists
<1>9. l.kind = "pong" => qg.details = pg.details /\ qg.list = Append(pg.list, Entry(Own(u)))
  BY <1>5, <1>6 DEF Entry
<1> QED  BY <1>2, <1>5, <1>7, <1>8, <1>9 DEF BrowsesTo

\* A line is read, and no ping is sent.
LEMMA ReadShows ==
  ASSUME Knows, Knows', ShowsWell, BotRead, NEW rest, rest = tx', Head(rx).kind # "votecalled" => rest = tx,
         \A x \in Range(rest) : x \in Range(tx) \/ x # Ping
  PROVE  ShowsWell'
<1>1. PICK b, l, c : ReadsInto(b, l, c)
  BY DEF BotRead
<1>2. PICK s : s = bot.server
  OBVIOUS
<1>3. PICK u : u = bot'.server
  OBVIOUS
<1>4. PICK h : h = hall
  OBVIOUS
<1>5. PICK k : k = hall'
  OBVIOUS
<1>6. PICK o : o = bot.other
  OBVIOUS
<1>7. PICK pg : pg = pages
  OBVIOUS
<1>8. PICK qg : qg = pages'
  OBVIOUS
<1>9. PICK t : t = topic
  OBVIOUS
<1>10. PICK r : r = rx'
  OBVIOUS
<1>11. PICK full : full = s.full
  OBVIOUS
<1>12. PICK now : now = u.full
  OBVIOUS
<1>13. /\ Queue(rx) /\ rx # <<>> /\ l = Head(rx) /\ r = Tail(rx) /\ topic' = t /\ bot'.other = o
  BY <1>1, <1>6, <1>9, <1>10 DEF ReadsInto, Reads1
<1>14. DOMAIN s.players \subseteq Clients /\ full \in BOOLEAN /\ o \in BOOLEAN
  BY <1>2, <1>6, <1>11, KnowsListing
<1>15. DOMAIN u.players \subseteq Clients /\ now \in BOOLEAN
  <2>1. IsServer(u)
    BY <1>3 DEF Knows, Typed, IsBot
  <2> QED  BY <1>12, <2>1 DEF IsServer, Listing
<1>16. Passes(s, u, l, h, k)
  BY <1>1, <1>2, <1>3, <1>4, <1>5, PassesNow
<1>17. Reached(now, full, l)
  BY <1>11, <1>12, <1>16 DEF Passes, Reached
<1>18. Orderly(t, rx, tx, full)
  BY <1>2, <1>9, <1>11 DEF ShowsWell
<1>19. Queue(rx) /\ rx # <<>> /\ Orderly(t, rx, tx, full) /\ l = Head(rx) /\ r = Tail(rx) /\ Reached(now, full, l)
       /\ (l.kind # "votecalled" => rest = tx) /\ (\A x \in Range(rest) : x \in Range(tx) \/ x # Ping)
  BY <1>13, <1>17, <1>18
<1>20. Orderly(t, r, rest, now)
  BY ONLY <1>19, OrderlySent
<1>21. InTurn(t, l, s)
  <2>1. full => l.kind \notin {"list", "pong"}
    BY ONLY <1>19, OrderlyLess
  <2>2. t = "web" => l.kind \in WebKinds
    BY ONLY <1>19, OrderlyLess
  <2>3. t # "web" => l.kind # "pong"
    BY ONLY <1>19, OrderlyLess
  <2>4. full => t = "web"
    BY <1>18 DEF Orderly, NeverPinged
  <2> QED  BY <1>11, <1>14, <2>1, <2>2, <2>3, <2>4 DEF InTurn
<1>22. ListsWell(pg, s, h, o)
  BY <1>2, <1>4, <1>6, <1>7 DEF ShowsWell, ListsWell
<1>23. BrowsesTo(pg, qg, s, u, l, o)
  BY <1>1, <1>2, <1>3, <1>6, <1>7, <1>8, <1>12, <1>15, ReadBrowses
<1>24. /\ Passes(s, u, l, h, k) /\ InTurn(t, l, s) /\ DOMAIN s.players \subseteq Clients
       /\ DOMAIN u.players \subseteq Clients /\ o \in BOOLEAN /\ ListsWell(pg, s, h, o) /\ BrowsesTo(pg, qg, s, u, l, o)
  BY <1>14, <1>15, <1>16, <1>21, <1>22, <1>23
<1>25. ListsWell(qg, u, k, o)
  BY ONLY <1>24, ReadLists
<1> QED  BY <1>3, <1>5, <1>8, <1>10, <1>12, <1>13, <1>20, <1>25 DEF ShowsWell, ListsWell

LEMMA HearingShows ==
  ASSUME Knows, ShowsWell,
         ProcessEvent \/ MatchEnd \/ MapChanging \/ MapLoaded \/ MapStart \/ GameInfo \/ VoteCalled \/ FullyConnected
  PROVE  ShowsWell'
<1>1. Knows' /\ BotRead
  BY ProcessEventKnows, MatchEndHeard, MapChangingHeard, MapLoadedHeard, MapStartHeard, GameInfoHeard,
     VoteCalledHeard, FullyConnectedHeard
<1>2. PICK rest : rest = tx'
  OBVIOUS
<1>3. CASE VoteCalled
  <2>1. PICK order : order = <<"cancel", Head(rx).team>>
    OBVIOUS
  <2>2. rest = Append(tx, order) \/ rest = tx
    BY <1>2, <1>3, <2>1 DEF VoteCalled
  <2>3. order # Ping
    BY <2>1 DEF Ping
  <2>4. Queue(tx)
    BY UnderWay
  <2>5. \A x \in Range(rest) : x \in Range(tx) \/ x # Ping
    <3>1. CASE rest = Append(tx, order)
      <4>1. Queue(tx) /\ rest = Append(tx, order)
        BY <2>4, <3>1
      <4>2. \A x : x \in Range(rest) <=> x \in Range(tx) \/ x = order
        BY ONLY <4>1, Appended
      <4> QED  BY <2>3, <4>2
    <3> QED  BY <2>2, <3>1
  <2>6. Head(rx).kind = "votecalled"
    BY <1>3 DEF VoteCalled, Processes
  <2> QED  BY <1>1, <1>2, <2>5, <2>6, ReadShows
<1>4. CASE ~VoteCalled
  <2>1. rest = tx
    BY <1>2, <1>4 DEF ProcessEvent, MatchEnd, MapChanging, MapLoaded, MapStart, GameInfo, FullyConnected
  <2> QED  BY <1>1, <1>2, <2>1, ReadShows
<1> QED  BY <1>3, <1>4

\* What is said of the lists does not depend on the rest of the server.
LEMMA SameShows ==
  ASSUME Knows, ShowsWell, topic' = topic, rx' = rx, tx' = tx, hall' = hall,
         NEW s, s = bot.server, bot'.server = s, NEW o, o = bot'.other,
         NEW pg, pg = pages', ListsWell(pg, s, hall, o)
  PROVE  ShowsWell'
BY DEF ShowsWell, ListsWell

LEMMA BrowseShows ==
  ASSUME Knows, ShowsWell, Browse
  PROVE  ShowsWell'
<1>1. PICK s : s = bot.server
  OBVIOUS
<1>2. PICK o : o = bot.other
  OBVIOUS
<1>3. PICK pg : pg = pages
  OBVIOUS
<1>4. PICK qg : qg = pages'
  OBVIOUS
<1>5. ListsWell(pg, s, hall, o)
  BY <1>1, <1>2, <1>3 DEF ShowsWell, ListsWell
<1>6. PICK a : a = Own(s)
  OBVIOUS
<1>7. DOMAIN s.players \subseteq Clients /\ IsPages(pg) /\ server = s
  BY <1>1, <1>3, KnowsListing
<1>8. a.name = "own" /\ a.active = DOMAIN s.players /\ "own" \in Sites
  BY <1>6, Names2 DEF Own
<1>9. qg = Web!touchDetails(pg, a)
  BY <1>3, <1>4, <1>6, <1>7 DEF Browse, Web!handle_server_page
<1>10. /\ qg.list = pg.list
       /\ qg.details[a.name] = IF pg.details[a.name].stale THEN [stale |-> FALSE, players |-> a.active]
                               ELSE pg.details[a.name]
  BY <1>7, <1>8, <1>9, PagesTouched
<1>11. Attended1(qg.details["own"], s, hall)
  <2>1. CASE pg.details["own"].stale
    <3>1. qg.details["own"].players = DOMAIN s.players
      BY <1>8, <1>10, <2>1
    <3> QED  BY <3>1 DEF Attended1
  <2>2. CASE ~pg.details["own"].stale
    BY <1>5, <1>8, <1>10, <2>2 DEF ListsWell
  <2> QED  BY <2>1, <2>2
<1>12. ListsWell(qg, s, hall, o)
  BY <1>5, <1>10, <1>11 DEF ListsWell
<1>13. topic' = topic /\ rx' = rx /\ tx' = tx /\ hall' = hall /\ bot' = bot
  BY DEF Browse
<1>14. bot'.server = s /\ bot'.other = o
  BY <1>1, <1>2, <1>13
<1> QED  BY <1>1, <1>4, <1>12, <1>13, <1>14, SameShows

LEMMA OtherServerShows ==
  ASSUME Knows, ShowsWell, OtherServer
  PROVE  ShowsWell'
<1>1. PICK s : s = bot.server
  OBVIOUS
<1>2. PICK o : o = bot.other
  OBVIOUS
<1>3. PICK pg : pg = pages
  OBVIOUS
<1>4. PICK qg : qg = pages'
  OBVIOUS
<1>5. /\ ListsOf(pg.list, Own1(s), o) /\ Counted(pg.list, s) /\ Attended1(pg.details["own"], s, hall)
  BY <1>1, <1>2, <1>3 DEF ShowsWell
<1>6. DOMAIN s.players \subseteq Clients /\ IsPages(pg) /\ server = s /\ o \in BOOLEAN
  BY <1>1, <1>2, <1>3, KnowsListing
<1>7. PICK x : x = ~o
  OBVIOUS
<1>8. bot' = [server |-> s, timer |-> bot.timer, other |-> x] /\ x \in BOOLEAN
  <2>1. bot = [server |-> server, timer |-> bot.timer, other |-> bot.other] /\ bot.other \in BOOLEAN
    BY ServerNow
  <2> QED  BY <1>2, <1>6, <1>7, <2>1 DEF OtherServer
<1>9. bot'.server = s /\ bot'.other = x
  BY <1>8
<1>10. PICK a : a = Other(x)
  OBVIOUS
<1>11. PICK all : all = <<Own(s), a>>
  OBVIOUS
<1>12. a.name = "other" /\ "own" \in Sites /\ "other" \in Sites /\ all[2] = a
  BY <1>10, <1>11, Names2 DEF Other
<1>13. qg = IF o THEN Web!RenX_OnServerDisconnect(pg, all, a) ELSE Web!RenX_OnServerFullyConnected(pg, all, a)
  BY <1>2, <1>3, <1>4, <1>6, <1>9, <1>10, <1>11, <1>12 DEF OtherServer
<1>14. ListsOf(qg.list, Own1(s), x) /\ Counted(qg.list, s) /\ qg.details["own"] = pg.details["own"]
  <2>1. CASE o
    <3>1. qg = Web!markDetailsStale(Web!updateServerList(pg, all), a)
      BY <1>13, <2>1 DEF Web!RenX_OnServerDisconnect
    <3>2. qg.list = Entries(all) /\ \A other \in Sites : other # a.name => qg.details[other] = pg.details[other]
      BY <1>6, <1>12, <3>1, PagesRemade
    <3>3. PICK w : w = Own(s)
      OBVIOUS
    <3>4. PICK list : list = Entries(all)
      OBVIOUS
    <3>5. all = <<w, a>>
      BY <1>11, <3>3
    <3>6. /\ ListsOf(list, Own1(s), x)
          /\ \A e \in Range(list) : e.name = "own" => e.players = Listed(Cardinality(DOMAIN s.players))
      BY <1>8, <1>10, <3>3, <3>4, <3>5, RemadeShows
    <3>7. Counted(list, s)
      BY <1>6, <3>6, RemadeCounts
    <3> QED  BY <1>12, <3>2, <3>4, <3>6, <3>7
  <2>2. CASE ~o
    <3>1. qg = Web!addServerToServerList(pg, all, a)
      BY <1>13, <2>2 DEF Web!RenX_OnServerFullyConnected
    <3>2. qg.details = pg.details /\ qg.list = Append(pg.list, Web!server_as_json(a))
      BY <1>6, <3>1, PagesAdded
    <3>3. PICK n : n = Entry(a)
      OBVIOUS
    <3>4. n.name = "other"
      BY <1>12, <3>3, EntryFields
    <3>5. PICK list : list = pg.list
      OBVIOUS
    <3>6. PICK longer : longer = qg.list
      OBVIOUS
    <3>7. PICK own : own = Own1(s)
      OBVIOUS
    <3>8. ListsOf(list, own, o) /\ longer = Append(list, n) /\ Enlists(n, own, o, own, x)
      BY <1>5, <1>7, <2>2, <3>2, <3>3, <3>4, <3>5, <3>6, <3>7 DEF Enlists, Entry
    <3>9. ListsOf(longer, own, x)
      BY ONLY <3>8, ListsMore
    <3>10. \A e \in Range(longer) : e \in Range(list) \/ e = n
      BY ONLY <3>8, ListsMore
    <3>11. Counted(longer, s)
      BY <1>5, <3>4, <3>5, <3>10 DEF Counted
    <3> QED  BY <3>2, <3>6, <3>7, <3>9, <3>11
  <2> QED  BY <2>1, <2>2
<1>15. ListsWell(qg, s, hall, x)
  BY <1>5, <1>14 DEF ListsWell
<1>16. topic' = topic /\ rx' = rx /\ tx' = tx /\ hall' = hall
  BY DEF OtherServer
<1> QED  BY <1>1, <1>4, <1>9, <1>15, <1>16, SameShows

LEMMA NothingOrderly ==
  ASSUME NEW t, NEW full, ~full
  PROVE  Orderly(t, <<>>, <<>>, full)
<1>1. PICK zero : zero = <<>>
  OBVIOUS
<1>2. Len(zero) = 0 /\ \A x : x \notin Range(zero)
  BY <1>1, EmptyQueue
<1>3. AnswersInTurn(zero, zero, full)
  <2>1. zero \in Greets
    BY <1>1 DEF Greets
  <2> QED  BY <1>2, <2>1 DEF AnswersInTurn
<1>4. NeverPinged(zero, zero, full)
  BY <1>2 DEF NeverPinged
<1> QED  BY <1>1, <1>3, <1>4 DEF Orderly

LEMMA GreetingOrderly ==
  ASSUME NEW t, NEW sent, sent = Greeting(t = "web"), NEW r, Queue(r), \A x \in Range(r) : x.kind = "report",
         NEW full, ~full
  PROVE  Orderly(t, r, sent, full)
<1>1. CASE t = "web"
  <2>1. sent \in Greets
    BY <1>1 DEF Greeting, Greets, Ping
  <2>2. \A j \in 1 .. Len(r) : r[j].kind # "pong"
    BY QueueShape
  <2> QED  BY <1>1, <2>1, <2>2 DEF Orderly, AnswersInTurn, WebKinds
<1>2. CASE t # "web"
  <2>1. PICK a : a = <<"info", Empty>>
    OBVIOUS
  <2>2. PICK b : b = <<"list", Empty>>
    OBVIOUS
  <2>3. PICK two : two = <<a, b>>
    OBVIOUS
  <2>4. two \in Seq({a, b}) /\ Len(two) = 2 /\ two[1] = a /\ two[2] = b
    BY <2>3
  <2>5. Queue(two)
    BY <2>4 DEF Queue
  <2>6. \A x : x \in Range(two) <=> \E i \in 1 .. Len(two) : two[i] = x
    BY <2>5, QueueShape
  <2>7. \A i \in 1 .. 2 : i = 1 \/ i = 2
    OBVIOUS
  <2>8. \A x \in Range(two) : x = a \/ x = b
    BY <2>4, <2>6, <2>7
  <2>9. sent = two
    BY <1>2, <2>1, <2>2, <2>3 DEF Greeting
  <2>10. a # Ping /\ b # Ping
    BY <2>1, <2>2 DEF Ping
  <2>11. NeverPinged(r, sent, full)
    BY <2>8, <2>9, <2>10 DEF NeverPinged
  <2> QED  BY <1>2, <2>11 DEF Orderly
<1> QED  BY <1>1, <1>2

LEMMA ConnectShows ==
  ASSUME Knows, ShowsWell, Connect
  PROVE  ShowsWell'
<1>1. PICK g : g = game
  OBVIOUS
<1>2. PICK s : s = [up |-> TRUE, informed |-> FALSE, full |-> FALSE, state |-> "playing", seamless |-> TRUE,
                    match |-> g.match, players |-> NoPlayers]
  OBVIOUS
<1>3. PICK after : after = bot'
  OBVIOUS
<1>4. after = [server |-> s, timer |-> bot.timer, other |-> bot.other]
  BY <1>1, <1>2, <1>3, ConnectServer
<1>5. after.server = s /\ after.other = bot.other
  BY ONLY <1>4
<1>6. ~s.full
  BY ONLY <1>2
<1>7. PICK d : d = bot.server
  OBVIOUS
<1>8. ~d.up /\ hall = {}
  BY <1>7 DEF Connect, Knows, Connected, server
<1>9. topic' = topic /\ hall' = {} /\ pages' = pages
  BY <1>8 DEF Connect
<1>10. PICK sent : sent = tx'
  OBVIOUS
<1>11. PICK t : t = topic
  OBVIOUS
<1>12. sent = Greeting(t = "web")
  BY <1>10, <1>11 DEF Connect, Greeting
<1>13. PICK r : r = rx'
  OBVIOUS
<1>14. Queue(r) /\ \A x \in Range(r) : x.kind = "report"
  <2>1. PICK v : v = Line("report", Nobody, Nobody, "v")
    OBVIOUS
  <2>2. PICK a : a = Line("report", Nobody, Nobody, "a")
    OBVIOUS
  <2>3. r = <<v, a>>
    BY <1>13, <2>1, <2>2 DEF Connect
  <2>4. v.kind = "report" /\ a.kind = "report"
    BY <2>1, <2>2 DEF Line
  <2>5. r \in Seq({v, a}) /\ Len(r) = 2 /\ r[1] = v /\ r[2] = a
    BY <2>3
  <2>6. Queue(r)
    BY <2>5 DEF Queue
  <2>7. \A x : x \in Range(r) <=> \E i \in 1 .. Len(r) : r[i] = x
    BY <2>6, QueueShape
  <2>8. \A i \in 1 .. 2 : i = 1 \/ i = 2
    OBVIOUS
  <2> QED  BY <2>4, <2>5, <2>6, <2>7, <2>8
<1>15. PICK full : full = s.full
  OBVIOUS
<1>16. Orderly(t, r, sent, full)
  BY <1>6, <1>12, <1>14, <1>15, GreetingOrderly
<1>17. PICK pg : pg = pages
  OBVIOUS
<1>18. PICK o : o = bot.other
  OBVIOUS
<1>19. ListsOf(pg.list, Own1(d), o)
  BY <1>7, <1>17, <1>18 DEF ShowsWell
<1>20. ~Own1(d) /\ ~Own1(s)
  BY <1>6, <1>8 DEF Own1
<1>21. ListsOf(pg.list, Own1(s), o)
  BY <1>19, <1>20 DEF ListsOf
<1>22. \A e \in Range(pg.list) : e.name # "own"
  BY <1>19, <1>20 DEF ListsOf
<1>23. Counted(pg.list, s)
  BY <1>22 DEF Counted
<1>24. Attended1(pg.details["own"], s, {})
  <2>1. PICK q : q = pg.details["own"]
    OBVIOUS
  <2>2. Attended1(q, d, {})
    BY <1>7, <1>8, <1>17, <2>1 DEF ShowsWell
  <2>3. d = Disconnected
    BY <1>7, <1>8 DEF Knows, Connected, server
  <2>4. d.players = NoPlayers /\ d.state # "travelling" /\ s.players = NoPlayers
    BY <1>2, <2>3 DEF Disconnected
  <2>5. Attended1(q, s, {})
    BY <2>2, <2>4 DEF Attended1
  <2> QED  BY <2>1, <2>5
<1> QED  BY <1>3, <1>5, <1>9, <1>10, <1>11, <1>13, <1>15, <1>16, <1>17, <1>18, <1>21, <1>23, <1>24 DEF ShowsWell

LEMMA LostShows ==
  ASSUME Knows, ShowsWell, Lost
  PROVE  ShowsWell'
<1>1. PICK after : after = bot'
  OBVIOUS
<1>2. after.server = Disconnected /\ after.other = bot.other
  BY <1>1, ServerNow DEF Lost
<1>3. PICK no : no = FALSE
  OBVIOUS
<1>4. PICK closed : closed = [server EXCEPT !.up = no]
  OBVIOUS
<1>5. ~closed.up
  <2>1. IsServer(server)
    BY ServerNow
  <2> QED  BY <1>3, <1>4, <2>1 DEF IsServer
<1>6. PICK qg : qg = pages'
  OBVIOUS
<1>7. PICK o : o = bot.other
  OBVIOUS
<1>8. PICK servers : servers = <<Own(closed), Other(o)>>
  OBVIOUS
<1>9. PICK a : a = Own(closed)
  OBVIOUS
<1>10. qg = Web!markDetailsStale(Web!updateServerList(pages, servers), a)
  BY <1>3, <1>4, <1>6, <1>7, <1>8, <1>9 DEF Lost, Servers, Web!RenX_OnServerDisconnect
<1>11. a.name = "own" /\ IsPages(pages) /\ o \in BOOLEAN
  BY <1>7, <1>9, KnowsListing DEF Own
<1>12. Remade(pages, qg, servers)
  BY <1>10, <1>11, OwnRemade
<1>13. ListsNow(qg, closed, o)
  BY <1>8, <1>11, <1>12, RemadeLists
<1>14. qg.details["own"].stale /\ ListsOf(qg.list, Own1(closed), o)
  BY <1>13 DEF ListsNow
<1>15. ~Own1(closed) /\ ~Own1(Disconnected) /\ ~Disconnected.full
  BY <1>5 DEF Own1, Disconnected
<1>16. \A e \in Range(qg.list) : e.name # "own"
  BY <1>14, <1>15 DEF ListsOf
<1>17. ListsOf(qg.list, Own1(Disconnected), o)
  BY <1>14, <1>15 DEF ListsOf
<1>18. Counted(qg.list, Disconnected)
  BY <1>16 DEF Counted
<1>19. Attended1(qg.details["own"], Disconnected, {})
  BY <1>14 DEF Attended1
<1>20. Orderly(topic, <<>>, <<>>, Disconnected.full)
  BY <1>15, NothingOrderly
<1>21. tx' = <<>> /\ rx' = <<>> /\ hall' = {} /\ topic' = topic
  BY DEF Lost
<1> QED  BY <1>1, <1>2, <1>6, <1>7, <1>17, <1>18, <1>19, <1>20, <1>21 DEF ShowsWell

LEMMA OrderlyElse ==
  ASSUME NEW t, t # "web", NEW q, NEW sent, Queue(sent), NEW full, Orderly(t, q, sent, full), NEW c, c # Ping,
         NEW rest, rest = Append(sent, c)
  PROVE  Orderly(t, q, rest, full)
<1>1. Queue(sent) /\ rest = Append(sent, c)
  OBVIOUS
<1>2. \A x : x \in Range(rest) <=> x \in Range(sent) \/ x = c
  BY ONLY <1>1, Appended
<1> QED  BY <1>2 DEF Orderly, NeverPinged

LEMMA UserShows ==
  ASSUME Knows, ShowsWell, GameOverNow \/ GameOverIn \/ GameOverStop \/ GameOverTime
  PROVE  ShowsWell'
<1>1. topic = "end" /\ UNCHANGED <<topic, game, rx, hall, connects>> /\ pages' = pages
  BY DEF GameOverNow, GameOverIn, GameOverStop, GameOverTime, Ask
<1>2. PICK c : c = <<"endmap", Empty>>
  OBVIOUS
<1>3. PICK rest : rest = tx'
  OBVIOUS
<1>4. rest = tx \/ rest = Append(tx, c)
  BY <1>2, <1>3 DEF GameOverNow, GameOverIn, GameOverStop, GameOverTime, Send
<1>5. c # Ping
  BY <1>2 DEF Ping
<1>6. PICK t : t = topic
  OBVIOUS
<1>7. PICK full : full = bot.server.full
  OBVIOUS
<1>8. Queue(tx) /\ Orderly(t, rx, tx, full) /\ t # "web"
  BY <1>1, <1>6, <1>7, UnderWay
<1>9. Orderly(t, rx, rest, full)
  BY <1>4, <1>5, <1>8, OrderlyElse
<1>10. PICK after : after = bot'
  OBVIOUS
<1>11. after.server = bot.server /\ after.other = bot.other
  <2>1. bot = [server |-> server, timer |-> bot.timer, other |-> bot.other]
    BY ServerNow
  <2>2. after = bot \/ \E timer : after = [bot EXCEPT !.timer = timer]
    BY <1>10 DEF GameOverNow, GameOverIn, GameOverStop, GameOverTime
  <2>3. ASSUME NEW timer, after = [bot EXCEPT !.timer = timer]
        PROVE  after.server = bot.server /\ after.other = bot.other
    BY <2>1, <2>3
  <2> QED  BY <2>2, <2>3
<1> QED  BY <1>1, <1>3, <1>6, <1>7, <1>9, <1>10, <1>11 DEF ShowsWell

LEMMA NextShows ==
  ASSUME Knows, ShowsWell, [Next]_vars
  PROVE  ShowsWell'
<1>1. CASE GameStep
  BY <1>1, GameStepShows
<1>2. CASE Connect \/ Lost
  BY <1>2, ConnectShows, LostShows
<1>3. CASE ProcessEvent \/ MatchEnd \/ MapChanging \/ MapLoaded \/ MapStart \/ GameInfo \/ VoteCalled \/ FullyConnected
  BY <1>3, HearingShows
<1>4. CASE Browse \/ OtherServer
  BY <1>4, BrowseShows, OtherServerShows
<1>5. CASE GameOverNow \/ GameOverIn \/ GameOverStop \/ GameOverTime
  BY <1>5, UserShows
<1>6. CASE UNCHANGED vars
  BY <1>6 DEF vars, ShowsWell
<1> QED  BY <1>1, <1>2, <1>3, <1>4, <1>5, <1>6 DEF Next, BotStep

LEMMA InitShows ==
  ASSUME Init
  PROVE  ShowsWell
<1>1. tx = <<>> /\ rx = <<>> /\ hall = {} /\ bot = [server |-> Disconnected, timer |-> NoTimer, other |-> FALSE]
  BY DEF Init
<1>2. bot.server = Disconnected /\ bot.other = FALSE
  BY <1>1
<1>3. ~Disconnected.full /\ ~Own1(Disconnected) /\ DOMAIN Disconnected.players \subseteq Clients
  <2>1. Listing(NoPlayers)
    BY NoPlayersListed DEF Listing
  <2>2. Disconnected.players = NoPlayers
    BY DEF Disconnected
  <2> QED  BY <2>1, <2>2 DEF Own1, Disconnected, Listing
<1>4. PICK s : s = Disconnected
  OBVIOUS
<1>5. PICK o : o = FALSE
  OBVIOUS
<1>6. PICK a : a = Own(s)
  OBVIOUS
<1>7. PICK b : b = Other(o)
  OBVIOUS
<1>8. PICK servers : servers = <<a, b>>
  OBVIOUS
<1>9. PICK details : details = [name \in {servers[i].name : i \in DOMAIN servers} |-> Web!Stale]
  OBVIOUS
<1>10. {servers[i].name : i \in DOMAIN servers} = Sites
  <2>1. a.name = "own" /\ b.name = "other"
    BY <1>6, <1>7 DEF Own, Other
  <2>2. DOMAIN servers = {1, 2} /\ servers[1] = a /\ servers[2] = b
    BY <1>8
  <2> QED  BY <2>1, <2>2 DEF Sites
<1>11. Web!Stale \in Details /\ Web!Stale.stale
  BY DEF Web!Stale, Details
<1>12. details \in [Sites -> Details] /\ details["own"].stale
  BY <1>9, <1>10, <1>11, Names2
<1>13. PICK pg : pg = [list |-> <<>>, metadata |-> [servers |-> 0, players |-> 0], details |-> details]
  OBVIOUS
<1>14. IsPages(pg) /\ pg.details = details
  BY <1>12, <1>13 DEF IsPages
<1>15. PICK qg : qg = pages
  OBVIOUS
<1>16. servers = Servers(Disconnected)
  BY <1>2, <1>4, <1>5, <1>6, <1>7, <1>8 DEF Servers
<1>17. qg = Web!updateServerList(pg, servers)
  BY <1>9, <1>13, <1>15, <1>16 DEF Init, Web!InitialPages
<1>18. qg.details = details /\ qg.list = Entries(servers)
  BY <1>14, <1>17, PagesUpdated
<1>19. PICK list : list = Entries(servers)
  OBVIOUS
<1>20. o \in BOOLEAN
  BY <1>5
<1>21. ListsOf(list, Own1(s), o)
  BY <1>6, <1>7, <1>8, <1>19, <1>20, RemadeShows
<1>22. Counted(list, s)
  BY <1>3, <1>4, <1>21 DEF ListsOf, Counted
<1>23. Attended1(qg.details["own"], s, {})
  BY <1>12, <1>18 DEF Attended1
<1>24. Orderly(topic, <<>>, <<>>, Disconnected.full)
  BY <1>3, NothingOrderly
<1> QED  BY <1>1, <1>2, <1>4, <1>5, <1>15, <1>18, <1>19, <1>21, <1>22, <1>23, <1>24 DEF ShowsWell

----------------------------------------------------------------------------
LEMMA ShowsAgree ==
  ASSUME Knows, ShowsWell
  PROVE  PagesAgree
<1>1. PICK s : s = bot.server
  OBVIOUS
<1>2. PICK o : o = bot.other
  OBVIOUS
<1>3. PICK a : a = Own(s)
  OBVIOUS
<1>4. PICK b : b = Other(o)
  OBVIOUS
<1>5. PICK servers : servers = Servers(server)
  OBVIOUS
<1>6. servers = <<a, b>>
  BY <1>1, <1>2, <1>3, <1>4, <1>5, KnowsListing DEF Servers
<1>7. PICK r : r = Web!Shown(servers)
  OBVIOUS
<1>8. /\ Queue(r) /\ Len(r) = (IF Listable(a) THEN 1 ELSE 0) + (IF Listable(b) THEN 1 ELSE 0)
      /\ \A x : x \in Range(r) <=> (x = a /\ Listable(a)) \/ (x = b /\ Listable(b))
  BY <1>6, <1>7, ShownTwo
<1>9. (Listable(a) <=> Own1(s)) /\ (Listable(b) <=> o) /\ a.name = "own" /\ b.name = "other"
  BY <1>3, <1>4 DEF Listable, Own, Other, Own1
<1>10. PICK long : long = Web!handle_server_list_long_page(servers)
  OBVIOUS
<1>11. DOMAIN r = 1 .. Len(r) /\ Len(r) \in Nat /\ \A x : x \in Range(r) <=> \E i \in 1 .. Len(r) : r[i] = x
  BY <1>8, QueueShape
<1>12. long = [i \in 1 .. Len(r) |-> Web!server_as_long_json(r[i])]
  BY <1>7, <1>10, <1>11 DEF Web!handle_server_list_long_page
<1>13. \A x : Web!server_as_long_json(x).name = x.name
  BY DEF Web!server_as_long_json
<1>14. Queue(long) /\ Len(long) = Len(r)
  <2>1. PICK S : S = {Web!server_as_long_json(r[i]) : i \in 1 .. Len(r)}
    OBVIOUS
  <2>2. long \in Seq(S)
    BY <1>11, <1>12, <2>1
  <2>3. Len(long) = Len(r)
    BY <1>11, <1>12, <2>2
  <2> QED  BY <2>2, <2>3 DEF Queue
<1>15. \A n : (\E e \in Range(long) : e.name = n) <=> (\E x \in Range(r) : x.name = n)
  <2>1. \A e : e \in Range(long) <=> \E i \in 1 .. Len(r) : long[i] = e
    BY <1>14, QueueShape
  <2>2. \A i \in 1 .. Len(r) : long[i].name = r[i].name
    BY <1>12, <1>13
  <2> QED  BY <1>11, <2>1, <2>2
<1>16. PICK list : list = pages.list
  OBVIOUS
<1>17. ListsOf(list, Own1(s), o)
  BY <1>1, <1>2, <1>16 DEF ShowsWell
<1>18. \A n : (\E e \in Range(list) : e.name = n) <=> (n = "own" /\ Own1(s)) \/ (n = "other" /\ o)
  BY <1>17 DEF ListsOf
<1>19. \A n : (\E x \in Range(r) : x.name = n) <=> (n = "own" /\ Own1(s)) \/ (n = "other" /\ o)
  BY <1>8, <1>9
<1>20. \A n : (\E e \in Range(list) : e.name = n) <=> (\E e \in Range(long) : e.name = n)
  BY <1>15, <1>18, <1>19
<1>21. {e.name : e \in Range(list)} = {e.name : e \in Range(long)}
  BY <1>20
<1>22. Len(list) = Len(r)
  BY <1>8, <1>9, <1>17 DEF ListsOf
<1> QED  BY <1>5, <1>7, <1>10, <1>16, <1>21, <1>22 DEF PagesAgree

LEMMA ShowsPages ==
  ASSUME Knows, ShowsWell
  PROVE  PagesSound
<1>1. server = bot.server
  BY DEF server
<1>2. CountsWithinOne
  BY <1>1 DEF ShowsWell, Counted, CountsWithinOne, Listed
<1>3. DetailsHeard
  BY <1>1 DEF ShowsWell, Attended1, DetailsHeard
<1> QED  BY <1>2, <1>3, ShowsAgree DEF PagesSound

\* The list that web clients are shown has the servers the bot is connected
\* to, each once, and counts the players but for the one who left last; the
\* details of a server have everybody the public channels saw join, and nobody
\* who has left.
THEOREM SpecPages == Spec => []PagesSound
<1>1. Init => Knows /\ ShowsWell
  BY InitKnows, InitShows
<1>2. Knows /\ ShowsWell /\ [Next]_vars => (Knows /\ ShowsWell)'
  BY NextKnows, NextShows
<1>3. Knows /\ ShowsWell => PagesSound
  BY ShowsPages
<1> QED  BY <1>1, <1>2, <1>3, PTL DEF Spec
============================================================================
