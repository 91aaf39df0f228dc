------------------------- MODULE PlayerRosterProofs -------------------------
(***************************************************************************)
(* Proofs about PlayerRoster, for any number of clients, ids, connections  *)
(* and unread lines.  The list of the bot and the clients of the game are  *)
(* related by the lines that were not read yet: reading them one by one    *)
(* leads from the list to the clients.  The invariant says so by the sets  *)
(* of ids, and the hardware ids, the bot will have seen after each line;   *)
(* a line that is written makes that course longer at its end, and a line  *)
(* that is handled takes away its beginning.                               *)
(***************************************************************************)
EXTENDS PlayerRoster, SequenceTheorems, FiniteSetTheorems, WellFoundedInduction, TLAPS

IdsOf(list) == {list[i].id : i \in DOMAIN list}
Waiting(list) == {i \in DOMAIN list : list[i].waiting}
Alone(list) == \A i, j \in DOMAIN list : list[i].id = list[j].id => i = j

\* The count of awaited look-ups.  If every address can be read, only an
\* address that was read is looked up.
PendingOK(list, n) ==
  /\ IF "odd" \in IPs THEN n >= Cardinality(Waiting(list)) ELSE n = Cardinality(Waiting(list))
  /\ "odd" \notin IPs => \A i \in DOMAIN list : list[i].waiting => list[i].ip = "v4"

\* A list that is as it should be.
ListOK(list, n) == list \in Seq(Player) /\ Alone(list) /\ n \in Nat /\ PendingOK(list, n)

\* What a line does to the hardware ids the bot knows.
HwidEffect(ids, hw, line) ==
  CASE line.kind = "HWID" -> [hw EXCEPT ![line.id] = line.hwid]
    [] line.kind = "ChangeID" -> [hw EXCEPT ![line.to] = hw[line.id]]
    [] line.kind \in {"Enter", "Row", "Named"} ->
         [hw EXCEPT ![line.id] = IF line.id \notin ids \/ hw[line.id] = Unknown THEN line.hwid ELSE hw[line.id]]
    [] OTHER -> hw

\* The list has these ids, with these hardware ids.
Shows(list, ids, hw) == /\ IdsOf(list) = ids
                        /\ \A i \in DOMAIN list : hw[list[i].id] = list[i].hwid

Knowledge == [Ids -> HWIDs \cup {Unknown}]

\* The course of the list while the lines are read.
Course(list, lines, d, h) ==
  /\ Shows(list, d[0], h[0])
  /\ \A k \in 0 .. Len(lines) : d[k] \in SUBSET Ids /\ h[k] \in Knowledge
  /\ \A k \in 1 .. Len(lines) : /\ d[k] = Effect(d[k - 1], lines[k])
                                /\ h[k] = HwidEffect(d[k - 1], h[k - 1], lines[k])

\* Where it ends: with the clients that are present; before the list of this
\* connection was received some may be missing, and a hardware id unknown.
Arrives(ids, hw) ==
  /\ ids \subseteq DOMAIN clients
  /\ ~asked => ids = DOMAIN clients
  /\ \A id \in ids : hw[id] = clients[id].hwid \/ (asked /\ hw[id] = Unknown)

Follows == \E d, h : /\ Course(players, log, d, h)
                     /\ linked => Arrives(d[Len(log)], h[Len(log)])

\* The id a line gives somebody is new to the bot when the line is handled.
Moving == {"Seamless", "Nonseamless"}
Fresh ==
  /\ IdsOf(players) \subseteq 1 .. nextId - 1
  /\ \A k \in 1 .. Len(log) :
       /\ log[k].kind \in Moving \/ (log[k].id < nextId /\ log[k].to < nextId)
       /\ log[k].kind \in Moving => log[k].id = 1 /\ log[k].to = 1
       /\ log[k].kind = "ChangeID" =>
            /\ log[k].to \notin IdsOf(players)
            /\ \A j \in 1 .. k - 1 : log[j].id # log[k].to /\ log[j].to # log[k].to

\* Nothing is left of a connection that is closed.
Closed == ~linked => log = <<>> /\ players = <<>> /\ ~asked /\ links < MaxLinks

IInv == TypeOK /\ ListOK(players, pending) /\ Fresh /\ Closed /\ Follows

----------------------------------------------------------------------------
(***************************************************************************)
(* Induction, and folds                                                    *)
(***************************************************************************)

\* A nonempty set of numbers has a least.
LEMMA Least ==
  ASSUME NEW T \in SUBSET Nat, T # {}
  PROVE  \E n \in T : \A m \in T : n <= m
<1> DEFINE R == OpToRel(<, Nat)
<1>1. IsWellFoundedOn(R, Nat)
  BY NatLessThanWellFounded
<1>2. \A x, y \in Nat : x < y => <<x, y>> \in R
  BY DEF OpToRel
<1> HIDE DEF R
<1>3. PICK n \in T : \A m \in T : ~(<<m, n>> \in R)
  BY <1>1, WFMin
<1>4. \A m \in T : ~(m < n)
  BY <1>2, <1>3
<1> QED  BY <1>4

\* Induction, said of a set of numbers.
LEMMA Induction ==
  ASSUME NEW T \in SUBSET Nat, 0 \in T, \A n \in T : n + 1 \in T
  PROVE  T = Nat
<1> SUFFICES ASSUME Nat \ T # {} PROVE FALSE
  OBVIOUS
<1>1. PICK n \in Nat \ T : \A m \in Nat \ T : n <= m
  BY Least
<1>2. n # 0 /\ n - 1 \in Nat
  BY <1>1
<1>3. n - 1 \in T
  BY <1>1, <1>2
<1>4. (n - 1) + 1 = n
  BY <1>1
<1> QED  BY <1>1, <1>3, <1>4

\* The function by which FoldLeft is defined: on the sets of positions of q.
IsFold(g, base, q, n) ==
  g = [s \in SUBSET (1 .. n) |-> IF s = {} THEN base ELSE Effect(g[s \ {Max(s)}], q[Max(s)])]

LEMMA FoldIsChosen ==
  ASSUME NEW base, NEW q, DOMAIN q = 1 .. Len(q)
  PROVE  FoldLeft(Effect, base, q) = (CHOOSE g : IsFold(g, base, q, Len(q)))[1 .. Len(q)]
<1> QED  BY DEF FoldLeft, MapThenFoldSet, IsFold

\* The greatest number of a set that ends with it.
LEMMA MaxFacts ==
  ASSUME NEW n \in Nat, NEW s \in SUBSET (1 .. n + 1), n + 1 \in s
  PROVE  Max(s) = n + 1 /\ s \ {Max(s)} \in SUBSET (1 .. n)
<1>1. \A y \in s : n + 1 >= y
  OBVIOUS
<1>2. Max(s) \in s /\ \A y \in s : Max(s) >= y
  BY <1>1 DEF Max
<1>3. Max(s) = n + 1
  <2>1. Max(s) \in 1 .. n + 1 /\ Max(s) >= n + 1
    BY <1>2
  <2> QED  BY <2>1
<1>4. \A y \in s \ {n + 1} : y \in 1 .. n
  OBVIOUS
<1> QED  BY <1>3, <1>4

\* There is such a function.
LEMMA FoldExists ==
  ASSUME NEW base, NEW q, NEW m \in Nat
  PROVE  \E g : IsFold(g, base, q, m)
<1> DEFINE T == {n \in Nat : \E g : IsFold(g, base, q, n)}
<1>1. 0 \in T
  <2> DEFINE g == [s \in SUBSET (1 .. 0) |-> base]
  <2>1. \A s \in SUBSET (1 .. 0) : s = {}
    OBVIOUS
  <2>2. g = [s \in SUBSET (1 .. 0) |-> IF s = {} THEN base ELSE Effect(g[s \ {Max(s)}], q[Max(s)])]
    BY <2>1
  <2>3. IsFold(g, base, q, 0)
    BY <2>2 DEF IsFold
  <2> QED  BY <2>3
<1>2. ASSUME NEW n \in T
      PROVE  n + 1 \in T
  <2>1. PICK f : IsFold(f, base, q, n)
    OBVIOUS
  <2> DEFINE g == [s \in SUBSET (1 .. n + 1) |->
                     IF n + 1 \in s THEN Effect(f[s \ {n + 1}], q[n + 1]) ELSE f[s]]
  <2>2. ASSUME NEW s \in SUBSET (1 .. n + 1)
        PROVE  g[s] = IF s = {} THEN base ELSE Effect(g[s \ {Max(s)}], q[Max(s)])
    <3>1. CASE n + 1 \in s
      <4>1. Max(s) = n + 1 /\ s \ {Max(s)} \in SUBSET (1 .. n)
        BY <3>1, MaxFacts
      <4>2. s \ {n + 1} \in SUBSET (1 .. n + 1) /\ n + 1 \notin s \ {n + 1}
        OBVIOUS
      <4>3. g[s \ {n + 1}] = f[s \ {n + 1}]
        BY <4>2
      <4> QED  BY <3>1, <4>1, <4>3
    <3>2. CASE n + 1 \notin s
      <4>1. s \in SUBSET (1 .. n)
        <5>1. \A y \in s : y \in 1 .. n
          BY <3>2
        <5> QED  BY <5>1
      <4>2. f[s] = IF s = {} THEN base ELSE Effect(f[s \ {Max(s)}], q[Max(s)])
        BY <2>1, <4>1 DEF IsFold
      <4>3. n + 1 \notin s \ {Max(s)} /\ s \ {Max(s)} \in SUBSET (1 .. n + 1)
        BY <3>2
      <4>4. g[s \ {Max(s)}] = f[s \ {Max(s)}]
        BY <4>3
      <4> QED  BY <3>2, <4>2, <4>4
    <3> QED  BY <3>1, <3>2
  <2>3. g = [s \in SUBSET (1 .. n + 1) |-> g[s]]
    OBVIOUS
  <2> HIDE DEF g
  <2>4. IsFold(g, base, q, n + 1)
    BY <2>2, <2>3, Zenon DEF IsFold
  <2> QED  BY <2>4
<1>3. T = Nat
  <2> HIDE DEF T
  <2>1. T \in SUBSET Nat
    BY DEF T
  <2> QED  BY <1>1, <1>2, <2>1, Induction
<1> QED  BY <1>3

\* A fold over the lines is the last of the sets one after the other.
LEMMA FoldIsLast ==
  ASSUME NEW q, DOMAIN q = 1 .. Len(q), Len(q) \in Nat, NEW d,
         \A k \in 1 .. Len(q) : d[k] = Effect(d[k - 1], q[k])
  PROVE  FoldLeft(Effect, d[0], q) = d[Len(q)]
<1> DEFINE base == d[0]
           g == CHOOSE f : IsFold(f, base, q, Len(q))
           T == {n \in Nat : n <= Len(q) => g[1 .. n] = d[n]}
<1>1. IsFold(g, base, q, Len(q))
  BY FoldExists
<1>2. \A s \in SUBSET (1 .. Len(q)) : g[s] = IF s = {} THEN base ELSE Effect(g[s \ {Max(s)}], q[Max(s)])
  <2> HIDE DEF g, base
  <2> QED  BY <1>1, Zenon DEF IsFold
<1>3. FoldLeft(Effect, base, q) = g[1 .. Len(q)]
  BY FoldIsChosen
<1> HIDE DEF g
<1>4. 0 \in T
  <2>1. 1 .. 0 = {}
    OBVIOUS
  <2> QED  BY <1>2, <2>1
<1>5. ASSUME NEW n \in T
      PROVE  n + 1 \in T
  <2> SUFFICES ASSUME n + 1 <= Len(q) PROVE g[1 .. n + 1] = d[n + 1]
    OBVIOUS
  <2> n \in Nat
    BY DEF T
  <2> DEFINE s == 1 .. n + 1
  <2>1. s \in SUBSET (1 .. Len(q)) /\ s # {} /\ n + 1 \in s
    <3>1. \A y \in s : y \in 1 .. Len(q)
      OBVIOUS
    <3>2. n + 1 \in s
      OBVIOUS
    <3> QED  BY <3>1, <3>2
  <2>2. Max(s) = n + 1
    BY <2>1, MaxFacts
  <2>3. s \ {n + 1} = 1 .. n
    <3>1. \A y \in s : y # n + 1 => y \in 1 .. n
      OBVIOUS
    <3>2. \A y \in 1 .. n : y \in s /\ y # n + 1
      OBVIOUS
    <3> QED  BY <3>1, <3>2
  <2>4. g[1 .. n] = d[n] /\ d[n + 1] = Effect(d[n], q[n + 1])
    <3>1. n <= Len(q) /\ n + 1 \in 1 .. Len(q) /\ (n + 1) - 1 = n
      OBVIOUS
    <3> QED  BY <3>1
  <2> HIDE DEF s
  <2>5. g[s] = Effect(g[s \ {n + 1}], q[n + 1])
    BY <1>2, <2>1, <2>2
  <2> QED  BY <2>3, <2>4, <2>5 DEF s
<1>6. T = Nat
  <2> HIDE DEF T
  <2>1. T \in SUBSET Nat
    BY DEF T
  <2> QED  BY <1>4, <1>5, <2>1, Induction
<1> QED  BY <1>3, <1>6
----------------------------------------------------------------------------
(***************************************************************************)
(* Lists of players                                                        *)
(***************************************************************************)

\* The least number of a set of numbers.
LEMMA MinFacts ==
  ASSUME NEW I \in SUBSET Nat, I # {}
  PROVE  Min(I) \in I
<1>1. PICK n \in I : \A m \in I : n <= m
  BY Least
<1> QED  BY <1>1 DEF Min

\* Where an id is listed, if it is.
LEMMA IndexFacts ==
  ASSUME NEW list \in Seq(Player), NEW id, NEW i, i = IndexOf(list, id)
  PROVE  /\ i = 0 => id \notin IdsOf(list)
         /\ i # 0 => i \in DOMAIN list /\ list[i].id = id /\ id \in IdsOf(list)
<1> DEFINE I == {k \in 1 .. Len(list) : list[k].id = id}
<1>1. DOMAIN list = 1 .. Len(list) /\ Len(list) \in Nat
  OBVIOUS
<1>2. i = IF I # {} THEN Min(I) ELSE 0
  BY DEF IndexOf, SelectInSeq
<1>3. I # {} => Min(I) \in I
  <2>1. I \in SUBSET Nat
    BY <1>1
  <2> QED  BY <2>1, MinFacts
<1>4. \A k \in I : k # 0 /\ k \in DOMAIN list /\ list[k].id = id /\ list[k].id \in IdsOf(list)
  BY <1>1 DEF IdsOf
<1>5. I = {} => id \notin IdsOf(list)
  BY <1>1 DEF IdsOf
<1> HIDE DEF I
<1> QED  BY <1>2, <1>3, <1>4, <1>5

\* The places that wait are finitely many.
LEMMA WaitingFinite ==
  ASSUME NEW list \in Seq(Player)
  PROVE  /\ IsFiniteSet(Waiting(list)) /\ Cardinality(Waiting(list)) \in Nat
         /\ Waiting(list) \subseteq 1 .. Len(list)
<1>1. Len(list) \in Nat /\ DOMAIN list = 1 .. Len(list)
  OBVIOUS
<1>2. IsFiniteSet(1 .. Len(list))
  BY <1>1, FS_Interval
<1>3. Waiting(list) \in SUBSET (1 .. Len(list))
  BY <1>1 DEF Waiting
<1>4. IsFiniteSet(Waiting(list))
  BY <1>2, <1>3, FS_Subset
<1> QED  BY <1>3, <1>4, FS_CardinalityType

\* A player that was not listed is added at the end.
LEMMA AppendFacts ==
  ASSUME NEW list, NEW n, ListOK(list, n), NEW p \in Player, p.id \notin IdsOf(list),
         "odd" \notin IPs /\ p.waiting => p.ip = "v4",
         NEW m, m = IF p.waiting THEN n + 1 ELSE n
  PROVE  /\ ListOK(Append(list, p), m)
         /\ IdsOf(Append(list, p)) = IdsOf(list) \cup {p.id}
         /\ \A j \in DOMAIN Append(list, p) :
              (j \in DOMAIN list /\ Append(list, p)[j] = list[j])
              \/ (j = Len(list) + 1 /\ Append(list, p)[j] = p)
<1> DEFINE r == Append(list, p)
<1>1. list \in Seq(Player) /\ n \in Nat /\ Alone(list) /\ PendingOK(list, n)
  BY DEF ListOK
<1>2. Len(list) \in Nat /\ DOMAIN list = 1 .. Len(list)
  BY <1>1
<1>3. /\ r \in Seq(Player) /\ Len(r) = Len(list) + 1 /\ DOMAIN r = 1 .. Len(list) + 1
      /\ \A j \in 1 .. Len(list) : r[j] = list[j]
      /\ r[Len(list) + 1] = p
  BY <1>1
<1> HIDE DEF r
<1>4. \A j \in DOMAIN r : (j \in DOMAIN list /\ r[j] = list[j]) \/ (j = Len(list) + 1 /\ r[j] = p)
  BY <1>2, <1>3
<1>5. /\ DOMAIN list \subseteq DOMAIN r /\ Len(list) + 1 \in DOMAIN r
      /\ \A j \in DOMAIN list : r[j] = list[j]
      /\ Len(list) + 1 \notin DOMAIN list
  BY <1>2, <1>3
<1>6. IdsOf(r) = IdsOf(list) \cup {p.id}
  BY <1>3, <1>4, <1>5 DEF IdsOf
<1>7. Alone(r)
  <2> SUFFICES ASSUME NEW i \in DOMAIN r, NEW j \in DOMAIN r, r[i].id = r[j].id
               PROVE  i = j
    BY DEF Alone
  <2>1. \A k \in DOMAIN list : list[k].id \in IdsOf(list)
    BY DEF IdsOf
  <2> QED  BY <1>1, <1>4, <2>1 DEF Alone
<1>8. Waiting(r) = IF p.waiting THEN Waiting(list) \cup {Len(list) + 1} ELSE Waiting(list)
  BY <1>3, <1>4, <1>5 DEF Waiting
<1>9. Cardinality(Waiting(r)) = IF p.waiting THEN Cardinality(Waiting(list)) + 1 ELSE Cardinality(Waiting(list))
  <2>1. Len(list) + 1 \notin Waiting(list)
    BY <1>5 DEF Waiting
  <2> QED  BY <1>1, <1>8, <2>1, WaitingFinite, FS_AddElement
<1>10. PendingOK(r, m)
  <2>1. Cardinality(Waiting(list)) \in Nat
    BY <1>1, WaitingFinite
  <2>2. IF "odd" \in IPs THEN m >= Cardinality(Waiting(r)) ELSE m = Cardinality(Waiting(r))
    BY <1>1, <1>9, <2>1 DEF PendingOK
  <2>3. "odd" \notin IPs => \A i \in DOMAIN r : r[i].waiting => r[i].ip = "v4"
    BY <1>1, <1>4 DEF PendingOK
  <2> QED  BY <2>2, <2>3 DEF PendingOK
<1>11. m \in Nat
  BY <1>1
<1> QED  BY <1>3, <1>4, <1>6, <1>7, <1>10, <1>11 DEF ListOK, r

\* A player changes and the count of awaited look-ups goes from n to m.
Recounted(old, new, n, m) ==
  /\ m \in Nat
  /\ "odd" \notin IPs /\ new.waiting => new.ip = "v4"
  /\ old.waiting => new.waiting
  /\ new.waiting /\ ~old.waiting => m = n + 1
  /\ new.waiting = old.waiting => IF "odd" \in IPs THEN m >= n ELSE m = n

\* What is known of a listed player changes.
LEMMA ChangeFacts ==
  ASSUME NEW list, NEW n, ListOK(list, n), NEW i \in DOMAIN list, NEW p \in Player,
         p.id = list[i].id \/ p.id \notin IdsOf(list),
         NEW m, Recounted(list[i], p, n, m),
         NEW r \in Seq(Player), DOMAIN r = DOMAIN list,
         \A j \in DOMAIN list : r[j] = IF j = i THEN p ELSE list[j]
  PROVE  ListOK(r, m) /\ IdsOf(r) = (IdsOf(list) \ {list[i].id}) \cup {p.id}
<1>1. list \in Seq(Player) /\ n \in Nat /\ Alone(list) /\ PendingOK(list, n)
  BY DEF ListOK
<1>2. /\ r \in Seq(Player) /\ DOMAIN r = DOMAIN list
      /\ \A j \in DOMAIN list : r[j] = IF j = i THEN p ELSE list[j]
  OBVIOUS
<1>3. \A k \in DOMAIN list : list[k].id \in IdsOf(list) /\ (list[k].id = list[i].id => k = i)
  BY <1>1 DEF IdsOf, Alone
<1>4. IdsOf(r) = (IdsOf(list) \ {list[i].id}) \cup {p.id}
  BY <1>2, <1>3 DEF IdsOf
<1>5. Alone(r)
  <2> SUFFICES ASSUME NEW j \in DOMAIN r, NEW k \in DOMAIN r, r[j].id = r[k].id
               PROVE  j = k
    BY DEF Alone
  <2> QED  BY <1>1, <1>2, <1>3 DEF Alone
<1>6. Waiting(r) = IF p.waiting THEN Waiting(list) \cup {i} ELSE Waiting(list)
  BY <1>2 DEF Waiting, Recounted
<1>7. Cardinality(Waiting(r)) = IF p.waiting /\ ~list[i].waiting THEN Cardinality(Waiting(list)) + 1 ELSE Cardinality(Waiting(list))
  <2>1. i \in Waiting(list) <=> list[i].waiting
    BY DEF Waiting
  <2> QED  BY <1>1, <1>6, <2>1, WaitingFinite, FS_AddElement
<1>8. PendingOK(r, m)
  <2>1. Cardinality(Waiting(list)) \in Nat
    BY <1>1, WaitingFinite
  <2>2. list[i].waiting \in BOOLEAN /\ p.waiting \in BOOLEAN
    <3>1. list[i] \in Player
      BY <1>1
    <3> QED  BY <3>1 DEF Player
  <2>3. IF "odd" \in IPs THEN n >= Cardinality(Waiting(list)) ELSE n = Cardinality(Waiting(list))
    BY <1>1 DEF PendingOK
  <2>4. IF "odd" \in IPs THEN m >= Cardinality(Waiting(r)) ELSE m = Cardinality(Waiting(r))
    BY <1>1, <1>7, <2>1, <2>2, <2>3 DEF Recounted
  <2>5. "odd" \notin IPs => \A j \in DOMAIN r : r[j].waiting => r[j].ip = "v4"
    BY <1>1, <1>2 DEF PendingOK, Recounted
  <2> QED  BY <2>4, <2>5 DEF PendingOK
<1>9. m \in Nat
  BY DEF Recounted
<1> QED  BY <1>4, <1>5, <1>8, <1>9 DEF ListOK
\* The player at a place is removed, and the ones behind move up.
LEMMA RemoveFacts ==
  ASSUME NEW list, NEW n, ListOK(list, n), NEW k \in DOMAIN list,
         NEW m, m = IF list[k].waiting THEN n - 1 ELSE n
  PROVE  /\ ListOK(RemoveAt(list, k), m)
         /\ IdsOf(RemoveAt(list, k)) = IdsOf(list) \ {list[k].id}
         /\ \A j \in DOMAIN RemoveAt(list, k) : \E l \in DOMAIN list : RemoveAt(list, k)[j] = list[l]
<1> DEFINE r == RemoveAt(list, k)
           len == Len(list)
           old(j) == IF j < k THEN j ELSE j + 1
<1>1. list \in Seq(Player) /\ n \in Nat /\ Alone(list) /\ PendingOK(list, n)
  BY DEF ListOK
<1>2. len \in Nat /\ DOMAIN list = 1 .. len /\ k \in 1 .. len
  BY <1>1
<1>3. /\ r \in Seq(Player) /\ Len(r) = len - 1
      /\ \A j \in 1 .. len - 1 : r[j] = IF j < k THEN list[j] ELSE list[j + 1]
  <2> DEFINE a == SubSeq(list, 1, k - 1)
             b == SubSeq(list, k + 1, len)
  <2>1. a \in Seq(Player) /\ Len(a) = k - 1 /\ \A j \in 1 .. k - 1 : a[j] = list[j]
    BY <1>1, <1>2
  <2>2. b \in Seq(Player) /\ Len(b) = len - k /\ \A j \in 1 .. len - k : b[j] = list[k + j]
    BY <1>1, <1>2, SMTT(30), ZenonT(30)
  <2>3. r = a \o b
    BY DEF RemoveAt
  <2> HIDE DEF a, b, r, len
  <2>4. /\ r \in Seq(Player) /\ Len(r) = (k - 1) + (len - k)
        /\ \A j \in 1 .. (k - 1) + (len - k) : r[j] = IF j <= k - 1 THEN a[j] ELSE b[j - (k - 1)]
    BY <2>1, <2>2, <2>3, <1>2
  <2>5. ASSUME NEW j \in 1 .. len - 1
        PROVE  r[j] = IF j < k THEN list[j] ELSE list[j + 1]
    <3>1. j \in 1 .. (k - 1) + (len - k)
      BY <1>2
    <3>2. CASE j < k
      BY <1>2, <2>1, <2>4, <3>1, <3>2
    <3>3. CASE ~(j < k)
      <4>1. j - (k - 1) \in 1 .. len - k /\ k + (j - (k - 1)) = j + 1 /\ ~(j <= k - 1)
        BY <1>2, <3>3
      <4> QED  BY <2>2, <2>4, <3>1, <3>3, <4>1
    <3> QED  BY <3>2, <3>3
  <2> QED  BY <1>2, <2>4, <2>5
<1> HIDE DEF r, len
<1>4. DOMAIN r = 1 .. len - 1
  BY <1>3
<1>5. \A j \in DOMAIN r : old(j) \in DOMAIN list /\ old(j) # k /\ r[j] = list[old(j)]
  BY <1>2, <1>3, <1>4
<1>6. \A i, j \in DOMAIN r : old(i) = old(j) => i = j
  BY <1>2, <1>4
<1>7. \A l \in DOMAIN list : l # k => \E j \in DOMAIN r : old(j) = l
  <2> SUFFICES ASSUME NEW l \in DOMAIN list, l # k
               PROVE  \E j \in DOMAIN r : old(j) = l
    OBVIOUS
  <2>1. CASE l < k
    <3>1. l \in DOMAIN r /\ old(l) = l
      BY <1>2, <1>4, <2>1
    <3> QED  BY <3>1
  <2>2. CASE ~(l < k)
    <3>1. l - 1 \in DOMAIN r /\ old(l - 1) = l
      BY <1>2, <1>4, <2>2
    <3> QED  BY <3>1
  <2> QED  BY <2>1, <2>2
<1> HIDE DEF old
<1>8. IdsOf(r) = IdsOf(list) \ {list[k].id}
  <2>1. \A j \in DOMAIN r : r[j].id \in IdsOf(list) /\ r[j].id # list[k].id
    BY <1>1, <1>5 DEF IdsOf, Alone
  <2>2. \A l \in DOMAIN list : l # k => list[l].id \in IdsOf(r)
    BY <1>5, <1>7 DEF IdsOf
  <2> QED  BY <2>1, <2>2 DEF IdsOf
<1>9. Alone(r)
  BY <1>1, <1>5, <1>6 DEF Alone
<1>10. Cardinality(Waiting(r)) = Cardinality(Waiting(list) \ {k})
  <2> DEFINE f == [j \in Waiting(r) |-> old(j)]
  <2>1. f \in [Waiting(r) -> Waiting(list) \ {k}]
    BY <1>5 DEF Waiting
  <2>2. \A i, j \in Waiting(r) : f[i] = f[j] => i = j
    BY <1>6 DEF Waiting
  <2>3. \A l \in Waiting(list) \ {k} : \E j \in Waiting(r) : f[j] = l
    BY <1>5, <1>7 DEF Waiting
  <2> HIDE DEF f
  <2>4. f \in Bijection(Waiting(r), Waiting(list) \ {k})
    BY <2>1, <2>2, <2>3 DEF Bijection, Injection, Surjection, IsInjective
  <2>5. IsFiniteSet(Waiting(r))
    BY <1>3, WaitingFinite
  <2> QED  BY <2>4, <2>5, FS_Bijection DEF ExistsBijection
<1>11. Cardinality(Waiting(r)) = IF list[k].waiting THEN Cardinality(Waiting(list)) - 1 ELSE Cardinality(Waiting(list))
  <2>1. k \in Waiting(list) <=> list[k].waiting
    BY DEF Waiting
  <2> QED  BY <1>1, <1>10, <2>1, WaitingFinite, FS_RemoveElement
<1>12. Cardinality(Waiting(list)) \in Nat /\ Cardinality(Waiting(r)) \in Nat
  BY <1>1, <1>3, WaitingFinite
<1>13. m \in Nat /\ PendingOK(r, m)
  <2>1. IF "odd" \in IPs THEN n >= Cardinality(Waiting(list)) ELSE n = Cardinality(Waiting(list))
    BY <1>1 DEF PendingOK
  <2>2. m \in Nat /\ (IF "odd" \in IPs THEN m >= Cardinality(Waiting(r)) ELSE m = Cardinality(Waiting(r)))
    BY <1>1, <1>11, <1>12, <2>1
  <2>3. "odd" \notin IPs => \A j \in DOMAIN r : r[j].waiting => r[j].ip = "v4"
    BY <1>1, <1>5 DEF PendingOK
  <2> QED  BY <2>2, <2>3 DEF PendingOK
<1>14. \A j \in DOMAIN r : \E l \in DOMAIN list : r[j] = list[l]
  BY <1>5
<1> QED  BY <1>3, <1>8, <1>9, <1>13, <1>14 DEF ListOK, r

\* Nobody is listed in an empty list.
LEMMA EmptyFacts == ListOK(<<>>, 0) /\ IdsOf(<<>>) = {} /\ DOMAIN <<>> = {}
<1>1. DOMAIN <<>> = {} /\ <<>> \in Seq(Player)
  OBVIOUS
<1>2. IdsOf(<<>>) = {} /\ Waiting(<<>>) = {}
  BY <1>1, Zenon DEF IdsOf, Waiting
<1>3. Cardinality(Waiting(<<>>)) = 0
  BY <1>2, FS_EmptySet
<1>4. PendingOK(<<>>, 0)
  BY <1>1, <1>3 DEF PendingOK
<1> QED  BY <1>1, <1>2, <1>4 DEF ListOK, Alone
----------------------------------------------------------------------------
(***************************************************************************)
(* What handling a line does to the list                                   *)
(***************************************************************************)

\* A player that is met for the first time.
LEMMA NewPlayerFacts ==
  ASSUME NEW id \in Ids, NEW ip \in IPs \cup {Unknown}, NEW hwid \in HWIDs \cup {Unknown}
  PROVE  /\ NewPlayer(id, ip, hwid) \in Player
         /\ NewPlayer(id, ip, hwid).id = id /\ NewPlayer(id, ip, hwid).hwid = hwid
         /\ NewPlayer(id, ip, hwid).waiting => NewPlayer(id, ip, hwid).ip = "v4"
<1>1. ResolvesRDNS \in BOOLEAN
  BY RosterAssumption
<1> QED  BY <1>1 DEF NewPlayer, Player, Lookups

\* A listed player about whom more is learnt.
LEMMA CompletedFacts ==
  ASSUME NEW p \in Player, NEW ip \in IPs \cup {Unknown}, NEW hwid \in HWIDs \cup {Unknown}
  PROVE  /\ Completed(p, ip, hwid) \in Player
         /\ Completed(p, ip, hwid).id = p.id
         /\ Completed(p, ip, hwid).hwid = IF p.hwid = Unknown THEN hwid ELSE p.hwid
         /\ Completed(p, ip, hwid).waiting = (p.waiting \/ Resolves(p, ip))
         /\ Completed(p, ip, hwid).ip = IF p.ip # "v4" /\ ip # Unknown THEN ip ELSE p.ip
         /\ Resolves(p, ip) => p.ip # "v4" /\ ip \in IPs
<1>1. ResolvesRDNS \in BOOLEAN
  BY RosterAssumption
<1> DEFINE c == Completed(p, ip, hwid)
           newIp == IF p.ip # "v4" /\ ip # Unknown THEN ip ELSE p.ip
           newHwid == IF p.hwid = Unknown THEN hwid ELSE p.hwid
           newLookup == IF Resolves(p, ip) THEN "running" ELSE p.lookup
           newWaiting == p.waiting \/ Resolves(p, ip)
<1>2. c = [p EXCEPT !.ip = newIp, !.hwid = newHwid, !.lookup = newLookup, !.waiting = newWaiting]
  BY Zenon DEF Completed
<1>3. Resolves(p, ip) \in BOOLEAN /\ (Resolves(p, ip) => p.ip # "v4" /\ ip \in IPs)
  BY <1>1 DEF Resolves
<1>4. /\ newIp \in IPs \cup {Unknown} /\ newHwid \in HWIDs \cup {Unknown}
      /\ newLookup \in Lookups /\ newWaiting \in BOOLEAN
  BY <1>3 DEF Player, Lookups
<1> HIDE DEF newIp, newHwid, newLookup, newWaiting, c
<1>5. /\ c \in Player /\ c.id = p.id /\ c.ip = newIp /\ c.hwid = newHwid
      /\ c.waiting = newWaiting
  BY <1>2, <1>4 DEF Player
<1> QED  BY <1>3, <1>5 DEF c, newIp, newHwid, newWaiting

\* The hardware id of a player who is met, if none was known before.
Learnt(ids, hw, id, hwid, hw2) ==
  /\ hw2[id] = IF id \notin ids \/ hw[id] = Unknown THEN hwid ELSE hw[id]
  /\ \A other \in Ids : other # id => hw2[other] = hw[other]

\* getPlayerOrAdd.
LEMMA AddFacts ==
  ASSUME ListOK(players, pending), NEW ids, NEW hw \in Knowledge, Shows(players, ids, hw),
         NEW id \in Ids, NEW ip \in IPs \cup {Unknown}, NEW hwid \in HWIDs \cup {Unknown},
         GetPlayerOrAdd(id, ip, hwid),
         NEW hw2, Learnt(ids, hw, id, hwid, hw2)
  PROVE  ListOK(players', pending') /\ Shows(players', ids \cup {id}, hw2)
<1> DEFINE i == IndexOf(players, id)
<1>1. players \in Seq(Player) /\ pending \in Nat /\ Alone(players)
  BY DEF ListOK
<1>2. /\ i = 0 => id \notin IdsOf(players)
      /\ i # 0 => i \in DOMAIN players /\ players[i].id = id /\ id \in IdsOf(players)
  BY <1>1, IndexFacts
<1>3. ids = IdsOf(players) /\ \A j \in DOMAIN players : hw[players[j].id] = players[j].hwid /\ players[j].id \in Ids
  <2>1. \A j \in DOMAIN players : players[j] \in Player
    BY <1>1
  <2>2. \A j \in DOMAIN players : players[j].id \in Ids
    BY <2>1 DEF Player
  <2> QED  BY <2>2 DEF Shows
<1>4. /\ hw2[id] = IF id \notin ids \/ hw[id] = Unknown THEN hwid ELSE hw[id]
      /\ \A other \in Ids : other # id => hw2[other] = hw[other]
  BY DEF Learnt
<1> HIDE DEF i
<1>5. CASE i = 0
  <2> DEFINE p == NewPlayer(id, ip, hwid)
  <2>1. players' = Append(players, p) /\ pending' = IF p.waiting THEN pending + 1 ELSE pending
    BY <1>5 DEF GetPlayerOrAdd, i
  <2>2. p \in Player /\ p.id = id /\ p.hwid = hwid /\ (p.waiting => p.ip = "v4")
    BY NewPlayerFacts
  <2> HIDE DEF p
  <2>3. /\ ListOK(players', pending')
        /\ IdsOf(players') = ids \cup {id}
        /\ \A j \in DOMAIN players' : (j \in DOMAIN players /\ players'[j] = players[j])
                                       \/ (j = Len(players) + 1 /\ players'[j] = p)
    BY <1>2, <1>3, <1>5, <2>1, <2>2, AppendFacts
  <2>4. \A j \in DOMAIN players : players[j].id # id
    BY <1>2, <1>5 DEF IdsOf
  <2>5. \A j \in DOMAIN players' : hw2[players'[j].id] = players'[j].hwid
    BY <1>2, <1>3, <1>4, <1>5, <2>2, <2>3, <2>4
  <2> QED  BY <2>3, <2>5 DEF Shows
<1>6. CASE i # 0
  <2> DEFINE p == Completed(players[i], ip, hwid)
  <2>1. players' = [players EXCEPT ![i] = p] /\ pending' = IF Resolves(players[i], ip) THEN pending + 1 ELSE pending
    BY <1>6 DEF GetPlayerOrAdd, i
  <2>2. players[i] \in Player /\ i \in DOMAIN players /\ players[i].id = id /\ id \in ids
    BY <1>1, <1>2, <1>3, <1>6
  <2>3. /\ p \in Player /\ p.id = id /\ p.waiting = (players[i].waiting \/ Resolves(players[i], ip))
        /\ p.hwid = IF players[i].hwid = Unknown THEN hwid ELSE players[i].hwid
        /\ p.ip = IF players[i].ip # "v4" /\ ip # Unknown THEN ip ELSE players[i].ip
        /\ Resolves(players[i], ip) => players[i].ip # "v4" /\ ip \in IPs
    BY <2>2, CompletedFacts
  <2> HIDE DEF p
  <2>4. "odd" \notin IPs => IPs \subseteq {"v4"} /\ (players[i].waiting => players[i].ip = "v4")
    BY <2>2, RosterAssumption DEF ListOK, PendingOK
  <2>5. "odd" \notin IPs /\ p.waiting => p.ip = "v4"
    <3> SUFFICES ASSUME "odd" \notin IPs, p.waiting
                 PROVE  p.ip = "v4"
      OBVIOUS
    <3>1. CASE players[i].waiting
      BY <2>3, <2>4, <3>1
    <3>2. CASE ~players[i].waiting
      <4>1. Resolves(players[i], ip)
        BY <2>3, <3>2
      <4>2. players[i].ip # "v4" /\ ip \in IPs /\ IPs \subseteq {"v4"}
        BY <2>3, <2>4, <4>1
      <4>3. ip # Unknown
        BY <4>1 DEF Resolves
      <4> QED  BY <2>3, <4>2, <4>3
    <3> QED  BY <3>1, <3>2
  <2>6. /\ pending' \in Nat
        /\ p.waiting /\ ~players[i].waiting => pending' = pending + 1
        /\ p.waiting = players[i].waiting => IF "odd" \in IPs THEN pending' >= pending ELSE pending' = pending
    <3>1. Resolves(players[i], ip) /\ "odd" \notin IPs => ~players[i].waiting
      BY <2>3, <2>4
    <3>2. p.waiting \in BOOLEAN /\ players[i].waiting \in BOOLEAN
      BY <2>2, <2>3 DEF Player
    <3>3. Resolves(players[i], ip) => p.waiting
      BY <2>3
    <3>4. p.waiting /\ ~players[i].waiting => Resolves(players[i], ip)
      BY <2>3
    <3> QED  BY <1>1, <2>1, <3>1, <3>2, <3>3, <3>4
  <2>7. players[i].waiting => p.waiting
    BY <2>3
  <2>8. /\ ListOK(players', pending')
        /\ IdsOf(players') = (ids \ {id}) \cup {id}
    <3>1. p.id = players[i].id
      BY <2>2, <2>3
    <3>2. PICK m : m = pending'
      OBVIOUS
    <3>3. Recounted(players[i], p, pending, m)
      BY <2>5, <2>6, <2>7, <3>2, Zenon DEF Recounted
    <3>4. /\ players' \in Seq(Player) /\ DOMAIN players' = DOMAIN players
          /\ \A j \in DOMAIN players : players'[j] = IF j = i THEN p ELSE players[j]
      BY <1>1, <2>1, <2>2, <2>3
    <3>5. ListOK(players', m) /\ IdsOf(players') = (IdsOf(players) \ {players[i].id}) \cup {p.id}
      BY <2>2, <2>3, <3>1, <3>3, <3>4, ChangeFacts
    <3> QED  BY <1>3, <2>2, <3>1, <3>2, <3>5
  <2>9. \A j \in DOMAIN players' : hw2[players'[j].id] = players'[j].hwid
    <3> TAKE j \in DOMAIN players'
    <3>1. DOMAIN players' = DOMAIN players /\ players'[j] = IF j = i THEN p ELSE players[j]
      BY <1>1, <2>1
    <3>2. CASE j = i
      BY <1>3, <1>4, <2>2, <2>3, <3>1, <3>2
    <3>3. CASE j # i
      <4>1. players[j].id # id /\ players[j].id \in Ids
        BY <1>1, <1>3, <2>2, <3>1, <3>3 DEF Alone
      <4> QED  BY <1>3, <1>4, <3>1, <3>3, <4>1
    <3> QED  BY <3>2, <3>3
  <2> QED  BY <2>2, <2>8, <2>9 DEF Shows
<1> QED  BY <1>5, <1>6
\* An address that is not known is no address.
LEMMA UnknownAddress == Unknown # "v4"
  BY Zenon DEF Unknown

\* What a line does, id by id.
Turns(ids, hw, line, ids2, hw2) ==
  /\ ids2 \in SUBSET Ids /\ hw2 \in Knowledge
  /\ line.kind \in {"Enter", "Row", "Named"} =>
       ids2 = ids \cup {line.id} /\ Learnt(ids, hw, line.id, line.hwid, hw2)
  /\ line.kind = "HWID" =>
       /\ ids2 = ids \cup {line.id} /\ hw2[line.id] = line.hwid
       /\ \A other \in Ids : other # line.id => hw2[other] = hw[other]
  /\ line.kind = "Exit" => ids2 = ids \ {line.id} /\ hw2 = hw
  /\ line.kind = "ChangeID" =>
       /\ ids2 = IF line.id \in ids THEN (ids \ {line.id}) \cup {line.to} ELSE ids
       /\ hw2[line.to] = hw[line.id]
       /\ \A other \in Ids : other # line.to => hw2[other] = hw[other]
  /\ line.kind = "Seamless" => ids2 = ids /\ hw2 = hw
  /\ line.kind = "Nonseamless" => ids2 = {} /\ hw2 = hw

LEMMA EffectFacts ==
  ASSUME NEW ids \in SUBSET Ids, NEW hw \in Knowledge, NEW line \in Line
  PROVE  Turns(ids, hw, line, Effect(ids, line), HwidEffect(ids, hw, line))
<1>1. /\ line.id \in Ids /\ line.to \in Ids /\ line.hwid \in HWIDs \cup {Unknown}
      /\ line.kind \in {"Enter", "HWID", "Named", "Exit", "ChangeID", "Row", "Seamless", "Nonseamless"}
  BY DEF Line
<1>2. CASE line.kind \in {"Enter", "Row", "Named"}
  BY <1>1, <1>2 DEF Effect, HwidEffect, Knowledge, Turns, Learnt
<1>3. CASE line.kind = "HWID"
  BY <1>1, <1>3 DEF Effect, HwidEffect, Knowledge, Turns
<1>4. CASE line.kind = "Exit"
  BY <1>1, <1>4 DEF Effect, HwidEffect, Knowledge, Turns
<1>5. CASE line.kind = "ChangeID"
  BY <1>1, <1>5 DEF Effect, HwidEffect, Knowledge, Turns
<1>6. CASE line.kind = "Seamless"
  BY <1>1, <1>6 DEF Effect, HwidEffect, Knowledge, Turns
<1>7. CASE line.kind = "Nonseamless"
  BY <1>1, <1>7 DEF Effect, HwidEffect, Knowledge, Turns
<1> QED  BY <1>1, <1>2, <1>3, <1>4, <1>5, <1>6, <1>7

\* PLAYER HWID.
LEMMA HwidFacts ==
  ASSUME ListOK(players, pending), NEW ids, NEW hw \in Knowledge, Shows(players, ids, hw),
         log[1] \in Line, HandleHWID,
         NEW hw2, hw2[log[1].id] = log[1].hwid,
         \A other \in Ids : other # log[1].id => hw2[other] = hw[other]
  PROVE  ListOK(players', pending) /\ Shows(players', ids \cup {log[1].id}, hw2)
<1> PICK id : id = log[1].id
  OBVIOUS
<1> DEFINE i == IndexOf(players, id)
           p == IF i = 0 THEN NewPlayer(id, Unknown, Unknown) ELSE players[i]
           known == [p EXCEPT !.hwid = log[1].hwid]
<1>1. players \in Seq(Player) /\ pending \in Nat /\ Alone(players) /\ id \in Ids /\ log[1].hwid \in HWIDs \cup {Unknown}
  BY DEF ListOK, Line
<1>2. /\ i = 0 => id \notin IdsOf(players)
      /\ i # 0 => i \in DOMAIN players /\ players[i].id = id /\ id \in IdsOf(players)
  BY <1>1, IndexFacts
<1>3. ids = IdsOf(players) /\ \A j \in DOMAIN players : hw[players[j].id] = players[j].hwid /\ players[j].id \in Ids
  <2>1. \A j \in DOMAIN players : players[j] \in Player
    BY <1>1
  <2>2. \A j \in DOMAIN players : players[j].id \in Ids
    BY <2>1 DEF Player
  <2> QED  BY <2>2 DEF Shows
<1>4. players' = IF i = 0 THEN Append(players, known) ELSE [players EXCEPT ![i] = known]
  BY DEF HandleHWID
<1>5. p \in Player /\ p.id = id /\ (i = 0 => ~p.waiting)
  <2>1. NewPlayer(id, Unknown, Unknown) \in Player /\ NewPlayer(id, Unknown, Unknown).id = id
    <3> PICK none : none = Unknown
      OBVIOUS
    <3>1. id \in Ids /\ none \in IPs \cup {Unknown} /\ none \in HWIDs \cup {Unknown}
      BY <1>1
    <3>2. NewPlayer(id, none, none) \in Player /\ NewPlayer(id, none, none).id = id
      BY <3>1, NewPlayerFacts
    <3> QED  BY <3>2
  <2>2. ~NewPlayer(id, Unknown, Unknown).waiting
    BY UnknownAddress DEF NewPlayer
  <2>3. i # 0 => players[i] \in Player /\ players[i].id = id
    BY <1>1, <1>2
  <2> HIDE DEF i
  <2> QED  BY <2>1, <2>2, <2>3
<1> HIDE DEF p, i
<1>6. known \in Player /\ known.id = id /\ known.hwid = log[1].hwid /\ known.waiting = p.waiting /\ known.ip = p.ip
  BY <1>1, <1>5 DEF Player
<1> HIDE DEF known
<1>7. CASE i = 0
  <2>1. PICK m : m = pending
    OBVIOUS
  <2>2. players' = Append(players, known) /\ m = IF known.waiting THEN pending + 1 ELSE pending
    BY <1>4, <1>5, <1>6, <1>7, <2>1
  <2>3. "odd" \notin IPs /\ known.waiting => known.ip = "v4"
    BY <1>5, <1>6, <1>7
  <2>4. /\ ListOK(players', m)
        /\ IdsOf(players') = ids \cup {id}
        /\ \A j \in DOMAIN players' : (j \in DOMAIN players /\ players'[j] = players[j])
                                       \/ (j = Len(players) + 1 /\ players'[j] = known)
    BY <1>2, <1>3, <1>6, <1>7, <2>2, <2>3, AppendFacts
  <2>5. \A j \in DOMAIN players : players[j].id # id
    BY <1>2, <1>7 DEF IdsOf
  <2>6. \A j \in DOMAIN players' : hw2[players'[j].id] = players'[j].hwid
    BY <1>3, <1>6, <2>4, <2>5
  <2> QED  BY <2>1, <2>4, <2>6 DEF Shows
<1>8. CASE i # 0
  <2>1. i \in DOMAIN players /\ p = players[i] /\ players[i].id = id /\ id \in ids
    BY <1>2, <1>3, <1>8 DEF p
  <2>2. /\ players' \in Seq(Player) /\ DOMAIN players' = DOMAIN players
        /\ \A j \in DOMAIN players : players'[j] = IF j = i THEN known ELSE players[j]
    BY <1>1, <1>4, <1>6, <1>8, <2>1
  <2>3. Recounted(players[i], known, pending, pending)
    <3>1. "odd" \notin IPs /\ p.waiting => p.ip = "v4"
      BY <2>1 DEF ListOK, PendingOK
    <3> QED  BY <1>1, <1>6, <2>1, <3>1 DEF Recounted
  <2>4. ListOK(players', pending) /\ IdsOf(players') = (IdsOf(players) \ {players[i].id}) \cup {known.id}
    BY <1>6, <2>1, <2>2, <2>3, ChangeFacts
  <2>5. \A j \in DOMAIN players : j # i => players[j].id # id
    BY <1>1, <2>1 DEF Alone
  <2>6. \A j \in DOMAIN players' : hw2[players'[j].id] = players'[j].hwid
    BY <1>3, <1>6, <2>1, <2>2, <2>5
  <2> QED  BY <1>3, <1>6, <2>1, <2>4, <2>6 DEF Shows
<1> QED  BY <1>7, <1>8
\* PLAYER Exit.
LEMMA ExitFacts ==
  ASSUME ListOK(players, pending), NEW ids, NEW hw, Shows(players, ids, hw),
         NEW id, RemovePlayer(id)
  PROVE  ListOK(players', pending') /\ Shows(players', ids \ {id}, hw)
<1> DEFINE i == IndexOf(players, id)
<1>1. players \in Seq(Player)
  BY DEF ListOK
<1>2. /\ i = 0 => id \notin IdsOf(players)
      /\ i # 0 => i \in DOMAIN players /\ players[i].id = id /\ id \in IdsOf(players)
  BY <1>1, IndexFacts
<1>3. CASE i = 0
  <2>1. players' = players /\ pending' = pending
    BY <1>3 DEF RemovePlayer
  <2>2. ids \ {id} = ids
    BY <1>2, <1>3 DEF Shows
  <2> QED  BY <2>1, <2>2
<1>4. CASE i # 0
  <2>1. players' = RemoveAt(players, i) /\ pending' = IF players[i].waiting THEN pending - 1 ELSE pending
    BY <1>4 DEF RemovePlayer
  <2> HIDE DEF i
  <2>2. PICK k \in DOMAIN players : k = i
    BY <1>2, <1>4
  <2>3. PICK m : m = pending'
    OBVIOUS
  <2>4. m = IF players[k].waiting THEN pending - 1 ELSE pending
    BY <2>1, <2>2, <2>3
  <2>5. /\ ListOK(RemoveAt(players, k), m)
        /\ IdsOf(RemoveAt(players, k)) = IdsOf(players) \ {players[k].id}
        /\ \A j \in DOMAIN RemoveAt(players, k) : \E l \in DOMAIN players : RemoveAt(players, k)[j] = players[l]
    BY <2>4, RemoveFacts
  <2>6. players' = RemoveAt(players, k) /\ players[k].id = id
    BY <1>2, <1>4, <2>1, <2>2
  <2>7. /\ ListOK(players', pending') /\ IdsOf(players') = IdsOf(players) \ {id}
        /\ \A j \in DOMAIN players' : \E l \in DOMAIN players : players'[j] = players[l]
    BY <2>3, <2>5, <2>6
  <2> QED  BY <2>7 DEF Shows
<1> QED  BY <1>3, <1>4

\* PLAYER ChangeID, to an id nobody is listed with.
LEMMA ChangeIDFacts ==
  ASSUME ListOK(players, pending), NEW ids, NEW hw \in Knowledge, Shows(players, ids, hw),
         log[1] \in Line, HandleChangeID, log[1].to \notin IdsOf(players),
         NEW ids2, ids2 = IF log[1].id \in ids THEN (ids \ {log[1].id}) \cup {log[1].to} ELSE ids,
         NEW hw2, hw2[log[1].to] = hw[log[1].id],
         \A other \in Ids : other # log[1].to => hw2[other] = hw[other]
  PROVE  ListOK(players', pending) /\ Shows(players', ids2, hw2)
<1> DEFINE id == log[1].id
           to == log[1].to
           i == IndexOf(players, id)
<1>1. players \in Seq(Player) /\ pending \in Nat /\ Alone(players) /\ id \in Ids /\ to \in Ids
  BY DEF ListOK, Line
<1>2. /\ i = 0 => id \notin IdsOf(players)
      /\ i # 0 => i \in DOMAIN players /\ players[i].id = id /\ id \in IdsOf(players)
  BY <1>1, IndexFacts
<1>3. ids = IdsOf(players) /\ \A j \in DOMAIN players : hw[players[j].id] = players[j].hwid /\ players[j].id \in Ids
  <2>1. \A j \in DOMAIN players : players[j] \in Player
    BY <1>1
  <2>2. \A j \in DOMAIN players : players[j].id \in Ids
    BY <2>1 DEF Player
  <2> QED  BY <2>2 DEF Shows
<1>4. players' = IF i = 0 THEN players ELSE [players EXCEPT ![i].id = to]
  BY DEF HandleChangeID
<1>5. \A j \in DOMAIN players : players[j].id # to
  BY DEF IdsOf
<1> HIDE DEF i
<1>6. CASE i = 0
  <2>1. players' = players /\ ids2 = ids
    BY <1>2, <1>3, <1>4, <1>6
  <2>2. \A j \in DOMAIN players : hw2[players[j].id] = players[j].hwid
    BY <1>3, <1>5
  <2> QED  BY <1>3, <2>1, <2>2 DEF Shows
<1>7. CASE i # 0
  <2> DEFINE p == [players[i] EXCEPT !.id = to]
  <2>1. i \in DOMAIN players /\ players[i] \in Player /\ players[i].id = id /\ id \in ids
    BY <1>1, <1>2, <1>3, <1>7
  <2>2. p \in Player /\ p.id = to /\ p.hwid = players[i].hwid /\ p.waiting = players[i].waiting /\ p.ip = players[i].ip
    BY <1>1, <2>1 DEF Player
  <2>3. /\ players' \in Seq(Player) /\ DOMAIN players' = DOMAIN players
        /\ \A j \in DOMAIN players : players'[j] = IF j = i THEN p ELSE players[j]
    BY <1>1, <1>4, <1>7, <2>1, <2>2
  <2> HIDE DEF p
  <2>4. Recounted(players[i], p, pending, pending)
    <3>1. "odd" \notin IPs /\ players[i].waiting => players[i].ip = "v4"
      BY <2>1 DEF ListOK, PendingOK
    <3> QED  BY <1>1, <2>2, <3>1 DEF Recounted
  <2>5. ListOK(players', pending) /\ IdsOf(players') = (IdsOf(players) \ {players[i].id}) \cup {p.id}
    BY <2>1, <2>2, <2>3, <2>4, ChangeFacts
  <2>6. \A j \in DOMAIN players' : hw2[players'[j].id] = players'[j].hwid
    BY <1>3, <1>5, <2>1, <2>2, <2>3
  <2> QED  BY <1>3, <2>1, <2>2, <2>5, <2>6 DEF Shows
<1> QED  BY <1>6, <1>7

\* Every line does to the list what the invariant says of it.
LEMMA LineFacts ==
  ASSUME ListOK(players, pending), log \in Seq(Line), HandleLine, Fresh,
         NEW ids \in SUBSET Ids, NEW hw \in Knowledge, Shows(players, ids, hw)
  PROVE  /\ ListOK(players', pending')
         /\ Shows(players', Effect(ids, log[1]), HwidEffect(ids, hw, log[1]))
         /\ log # <<>> /\ log' = Tail(log)
         /\ UNCHANGED <<clients, nextId, asked, lists, links, linked>>
<1> PICK line : line = log[1]
  OBVIOUS
<1> PICK ids2 : ids2 = Effect(ids, line)
  OBVIOUS
<1> PICK hw2 : hw2 = HwidEffect(ids, hw, line)
  OBVIOUS
<1>1. /\ log # <<>> /\ log' = Tail(log) /\ UNCHANGED <<clients, nextId, asked, lists, links, linked>>
  BY Zenon DEF HandleLine, HandleMention, HandleHWID, HandleExit, HandleChangeID, HandleChanging, Handling, game, Gameover
<1>2. line \in Line /\ 1 \in 1 .. Len(log)
  BY <1>1
<1>3. line.id \in Ids /\ line.ip \in IPs \cup {Unknown} /\ line.hwid \in HWIDs \cup {Unknown}
  BY <1>2 DEF Line
<1> SUFFICES ListOK(players', pending') /\ Shows(players', ids2, hw2)
  BY <1>1
<1>t. Turns(ids, hw, line, ids2, hw2)
  BY <1>2, EffectFacts
<1>4. ASSUME NEW kind \in {"Enter", "Row", "Named"}, HandleMention(kind)
      PROVE  ListOK(players', pending') /\ Shows(players', ids2, hw2)
  <2>1. line.kind \in {"Enter", "Row", "Named"} /\ GetPlayerOrAdd(line.id, line.ip, line.hwid)
    BY <1>4 DEF HandleMention, Handling
  <2>2. ids2 = ids \cup {line.id} /\ Learnt(ids, hw, line.id, line.hwid, hw2)
    BY <1>2, <2>1, <1>t DEF Turns
  <2> PICK id \in Ids, ip \in IPs \cup {Unknown}, hwid \in HWIDs \cup {Unknown} :
              id = line.id /\ ip = line.ip /\ hwid = line.hwid
    BY <1>3
  <2>3. GetPlayerOrAdd(id, ip, hwid)
    BY <2>1
  <2>4. Learnt(ids, hw, id, hwid, hw2)
    BY <2>2
  <2>5. ListOK(players', pending') /\ Shows(players', ids \cup {id}, hw2)
    BY <2>3, <2>4, AddFacts
  <2> QED  BY <2>2, <2>5
<1>5. CASE HandleHWID
  <2>1. line.kind = "HWID" /\ pending' = pending
    BY <1>5, Zenon DEF HandleHWID, Handling
  <2>2. /\ ids2 = ids \cup {line.id} /\ hw2[line.id] = line.hwid
        /\ \A other \in Ids : other # line.id => hw2[other] = hw[other]
    BY <1>2, <2>1, <1>t DEF Turns
  <2>3. /\ hw2[log[1].id] = log[1].hwid
        /\ \A other \in Ids : other # log[1].id => hw2[other] = hw[other]
    BY <2>2
  <2>4. ListOK(players', pending) /\ Shows(players', ids \cup {log[1].id}, hw2)
    BY <1>2, <1>5, <2>3, HwidFacts
  <2> QED  BY <2>1, <2>2, <2>4
<1>6. CASE HandleExit
  <2>1. line.kind = "Exit" /\ RemovePlayer(line.id)
    BY <1>6, Zenon DEF HandleExit, Handling
  <2>2. ids2 = ids \ {line.id} /\ hw2 = hw
    BY <1>2, <2>1, <1>t DEF Turns
  <2> PICK id : id = line.id
    OBVIOUS
  <2>3. RemovePlayer(id)
    BY <2>1
  <2>4. ListOK(players', pending') /\ Shows(players', ids \ {id}, hw)
    BY <2>3, ExitFacts
  <2> QED  BY <2>2, <2>4
<1>7. CASE HandleChangeID
  <2>1. line.kind = "ChangeID" /\ pending' = pending
    BY <1>7, Zenon DEF HandleChangeID, Handling
  <2>2. /\ ids2 = IF line.id \in ids THEN (ids \ {line.id}) \cup {line.to} ELSE ids
        /\ hw2[line.to] = hw[line.id]
        /\ \A other \in Ids : other # line.to => hw2[other] = hw[other]
    BY <1>2, <2>1, <1>t DEF Turns
  <2>3. line.to \notin IdsOf(players)
    BY <1>2, <2>1 DEF Fresh
  <2> QED  BY <1>2, <1>7, <2>1, <2>2, <2>3, ChangeIDFacts
<1>8. CASE HandleChanging
  <2>1. CASE line.kind = "Nonseamless"
    <3>1. players' = <<>> /\ pending' = 0
      BY <1>8, <2>1 DEF HandleChanging, WipePlayers
    <3>2. ids2 = {}
      BY <1>2, <2>1, <1>t DEF Turns
    <3> QED  BY <3>1, <3>2, EmptyFacts DEF Shows
  <2>2. CASE line.kind # "Nonseamless"
    <3>1. players' = players /\ pending' = pending /\ line.kind = "Seamless"
      BY <1>8, <2>2 DEF HandleChanging, Handling
    <3>2. ids2 = ids /\ hw2 = hw
      BY <1>2, <3>1, <1>t DEF Turns
    <3> QED  BY <3>1, <3>2
  <2> QED  BY <2>1, <2>2
<1> QED
  <2>1. \/ \E kind \in {"Enter", "Row", "Named"} : HandleMention(kind)
        \/ HandleHWID \/ HandleExit \/ HandleChangeID \/ HandleChanging
    BY Zenon DEF HandleLine
  <2> QED  BY <1>4, <1>5, <1>6, <1>7, <1>8, <2>1, Zenon
----------------------------------------------------------------------------
(***************************************************************************)
(* The course of the list                                                  *)
(***************************************************************************)

\* A line that is handled was the first of the course.
LEMMA Handled ==
  ASSUME ListOK(players, pending), log \in Seq(Line), HandleLine, Fresh, Follows
  PROVE  ListOK(players', pending') /\ Follows'
<1>1. PICK d, h : Course(players, log, d, h) /\ (linked => Arrives(d[Len(log)], h[Len(log)]))
  BY DEF Follows
<1>2. /\ Shows(players, d[0], h[0])
      /\ \A k \in 0 .. Len(log) : d[k] \in SUBSET Ids /\ h[k] \in Knowledge
      /\ \A k \in 1 .. Len(log) : d[k] = Effect(d[k - 1], log[k]) /\ h[k] = HwidEffect(d[k - 1], h[k - 1], log[k])
  BY <1>1 DEF Course
<1>3. Len(log) \in Nat /\ 0 \in 0 .. Len(log) /\ d[0] \in SUBSET Ids /\ h[0] \in Knowledge
  BY <1>2
<1>4. /\ ListOK(players', pending')
      /\ Shows(players', Effect(d[0], log[1]), HwidEffect(d[0], h[0], log[1]))
      /\ log # <<>> /\ log' = Tail(log)
      /\ UNCHANGED <<clients, nextId, asked, lists, links, linked>>
  BY <1>2, <1>3, LineFacts
<1>5. /\ Len(log') = Len(log) - 1 /\ Len(log) \in Nat \ {0}
      /\ \A k \in 1 .. Len(log) - 1 : log'[k] = log[k + 1]
  BY <1>4
<1> DEFINE d2 == [k \in Nat |-> d[k + 1]]
           h2 == [k \in Nat |-> h[k + 1]]
<1> PICK n : n = Len(log')
  OBVIOUS
<1>6. n \in Nat /\ n + 1 = Len(log)
  BY <1>5
<1>7. Shows(players', d2[0], h2[0])
  <2>1. d2[0] = d[1] /\ h2[0] = h[1]
    OBVIOUS
  <2>2. 1 \in 1 .. Len(log) /\ 1 - 1 = 0
    BY <1>5
  <2>3. d[1] = Effect(d[0], log[1]) /\ h[1] = HwidEffect(d[0], h[0], log[1])
    BY <1>2, <2>2
  <2> HIDE DEF d2, h2
  <2> QED  BY <1>4, <2>1, <2>3
<1>8. \A k \in 0 .. n : d2[k] \in SUBSET Ids /\ h2[k] \in Knowledge
  BY <1>2, <1>6
<1>9. ASSUME NEW k \in 1 .. n
      PROVE  d2[k] = Effect(d2[k - 1], log'[k]) /\ h2[k] = HwidEffect(d2[k - 1], h2[k - 1], log'[k])
  <2>1. k \in Nat /\ k - 1 \in Nat /\ k + 1 \in 1 .. Len(log) /\ (k + 1) - 1 = k /\ (k - 1) + 1 = k
    BY <1>6
  <2>2. d2[k] = d[k + 1] /\ d2[k - 1] = d[k] /\ h2[k] = h[k + 1] /\ h2[k - 1] = h[k] /\ log'[k] = log[k + 1]
    BY <1>5, <2>1
  <2>3. d[k + 1] = Effect(d[k], log[k + 1]) /\ h[k + 1] = HwidEffect(d[k], h[k], log[k + 1])
    BY <1>2, <2>1
  <2> HIDE DEF d2, h2
  <2> QED  BY <2>2, <2>3
<1>10. d2[n] = d[Len(log)] /\ h2[n] = h[Len(log)]
  BY <1>6
<1> HIDE DEF d2, h2
<1>11. Course(players', log', d2, h2)
  BY <1>7, <1>8, <1>9 DEF Course
<1>12. linked' => Arrives(d2[n], h2[n])'
  BY <1>1, <1>4, <1>10 DEF Arrives
<1>13. Follows'
  <2>1. (Course(players, log, d2, h2) /\ (linked => Arrives(d2[Len(log)], h2[Len(log)])))'
    BY <1>11, <1>12 DEF Arrives, Course, Shows, IdsOf
  <2> QED  BY <2>1, Zenon DEF Follows
<1> QED  BY <1>4, <1>13
\* These lines are those with one more.
OneMore(q, line, r) == /\ r \in Seq(Line) /\ Len(r) = Len(q) + 1 /\ r[Len(q) + 1] = line
                       /\ \A k \in 1 .. Len(q) : r[k] = q[k]

\* A line that is written makes the course longer.
LEMMA CourseGrows ==
  ASSUME NEW list, NEW q \in Seq(Line), NEW line \in Line, NEW d, NEW h, Course(list, q, d, h),
         NEW r, OneMore(q, line, r)
  PROVE  \E d2, h2 : /\ Course(list, r, d2, h2)
                     /\ d[Len(q)] \in SUBSET Ids /\ h[Len(q)] \in Knowledge
                     /\ Turns(d[Len(q)], h[Len(q)], line, d2[Len(r)], h2[Len(r)])
<1> PICK n \in Nat : n = Len(q)
  OBVIOUS
<1>r. r \in Seq(Line) /\ Len(r) = n + 1 /\ r[n + 1] = line /\ \A k \in 1 .. n : r[k] = q[k]
  BY DEF OneMore
<1>1. /\ Shows(list, d[0], h[0])
      /\ \A k \in 0 .. n : d[k] \in SUBSET Ids /\ h[k] \in Knowledge
      /\ \A k \in 1 .. n : d[k] = Effect(d[k - 1], q[k]) /\ h[k] = HwidEffect(d[k - 1], h[k - 1], q[k])
  BY DEF Course
<1>2. d[n] \in SUBSET Ids /\ h[n] \in Knowledge
  BY <1>1
<1> DEFINE ids2 == Effect(d[n], line)
           hw2 == HwidEffect(d[n], h[n], line)
           d2 == [k \in Nat |-> IF k <= n THEN d[k] ELSE ids2]
           h2 == [k \in Nat |-> IF k <= n THEN h[k] ELSE hw2]
<1>3. Turns(d[n], h[n], line, ids2, hw2)
  <2> PICK a, b : a = d[n] /\ b = h[n]
    OBVIOUS
  <2>1. Turns(a, b, line, Effect(a, line), HwidEffect(a, b, line))
    BY <1>2, EffectFacts
  <2> QED  BY <2>1
<1>4. ids2 \in SUBSET Ids /\ hw2 \in Knowledge
  BY <1>3 DEF Turns
<1>5. /\ \A k \in 0 .. n : d2[k] = d[k] /\ h2[k] = h[k]
      /\ d2[n + 1] = Effect(d[n], line) /\ h2[n + 1] = HwidEffect(d[n], h[n], line)
  <2> HIDE DEF ids2, hw2
  <2>1. d2[n + 1] = ids2 /\ h2[n + 1] = hw2
    OBVIOUS
  <2>2. \A k \in 0 .. n : d2[k] = d[k] /\ h2[k] = h[k]
    OBVIOUS
  <2> QED  BY <2>1, <2>2 DEF ids2, hw2
<1> HIDE DEF d2, h2
<1>6. ASSUME NEW k \in 1 .. n + 1
      PROVE  d2[k] = Effect(d2[k - 1], r[k]) /\ h2[k] = HwidEffect(d2[k - 1], h2[k - 1], r[k])
  <2>1. CASE k \in 1 .. n
    <3>1. k - 1 \in 0 .. n /\ k \in 0 .. n
      BY <2>1
    <3>2. d2[k] = d[k] /\ h2[k] = h[k] /\ d2[k - 1] = d[k - 1] /\ h2[k - 1] = h[k - 1] /\ r[k] = q[k]
      BY <1>r, <1>5, <2>1, <3>1
    <3> QED  BY <1>1, <2>1, <3>2
  <2>2. CASE k = n + 1
    <3>1. k - 1 = n /\ n \in 0 .. n
      BY <2>2
    <3>2. d2[k - 1] = d[n] /\ h2[k - 1] = h[n] /\ r[k] = line
      BY <1>r, <1>5, <2>2, <3>1
    <3> QED  BY <1>5, <2>2, <3>2
  <2> QED  BY <2>1, <2>2
<1>7. \A k \in 0 .. n + 1 : d2[k] \in SUBSET Ids /\ h2[k] \in Knowledge
  <2> SUFFICES ASSUME NEW k \in 0 .. n + 1
               PROVE  d2[k] \in SUBSET Ids /\ h2[k] \in Knowledge
    OBVIOUS
  <2>1. CASE k \in 0 .. n
    BY <1>1, <1>5, <2>1
  <2>2. CASE k = n + 1
    BY <1>4, <1>5, <2>2
  <2> QED  BY <2>1, <2>2
<1>8. Shows(list, d2[0], h2[0])
  BY <1>1, <1>5
<1>9. Course(list, r, d2, h2)
  BY <1>r, <1>6, <1>7, <1>8 DEF Course
<1>10. Turns(d[n], h[n], line, d2[n + 1], h2[n + 1])
  BY <1>3, <1>5
<1> QED  BY <1>r, <1>2, <1>9, <1>10

\* What the clients do and a line that tells it keep the course arriving.
Keeps(line) ==
  \A ids, hw, ids2, hw2 :
    Arrives(ids, hw) /\ ids \in SUBSET Ids /\ hw \in Knowledge /\ Turns(ids, hw, line, ids2, hw2)
      => Arrives(ids2, hw2)'

LEMMA Written ==
  ASSUME log \in Seq(Line), Follows, UNCHANGED <<players, linked>>, NEW line \in Line,
         log' = IF linked THEN log \o <<line>> ELSE log, linked => Keeps(line)
  PROVE  Follows'
<1>1. PICK d, h : Course(players, log, d, h) /\ (linked => Arrives(d[Len(log)], h[Len(log)]))
  BY DEF Follows
<1>2. CASE ~linked
  <2>1. (Course(players, log, d, h) /\ (linked => Arrives(d[Len(log)], h[Len(log)])))'
    BY <1>1, <1>2 DEF Course, Shows, IdsOf
  <2> QED  BY <2>1, Zenon DEF Follows
<1>3. CASE linked
  <2> PICK r : r = log \o <<line>>
    OBVIOUS
  <2>1. OneMore(log, line, r)
    BY DEF OneMore
  <2>2. log' = r
    BY <1>3
  <2>3. PICK d2, h2 : /\ Course(players, r, d2, h2)
                      /\ d[Len(log)] \in SUBSET Ids /\ h[Len(log)] \in Knowledge
                      /\ Turns(d[Len(log)], h[Len(log)], line, d2[Len(r)], h2[Len(r)])
    BY <1>1, <2>1, CourseGrows
  <2> PICK e, f : e = d[Len(log)] /\ f = h[Len(log)]
    OBVIOUS
  <2>4. Arrives(d2[Len(r)], h2[Len(r)])'
    <3>1. Arrives(e, f) /\ e \in SUBSET Ids /\ f \in Knowledge /\ Turns(e, f, line, d2[Len(r)], h2[Len(r)])
      BY <1>1, <1>3, <2>3
    <3> QED  BY <1>3, <3>1, Zenon DEF Keeps
  <2>5. (Course(players, log, d2, h2) /\ (linked => Arrives(d2[Len(log)], h2[Len(log)])))'
    BY <2>2, <2>3, <2>4 DEF Course, Shows, IdsOf, Arrives
  <2> QED  BY <2>5, Zenon DEF Follows
<1> QED  BY <1>2, <1>3
\* Lines after lines.
Joined(a, b, s) ==
  /\ s \in Seq(Line) /\ Len(s) = Len(a) + Len(b)
  /\ \A k \in 1 .. Len(a) : s[k] = a[k]
  /\ \A k \in 1 .. Len(b) : s[Len(a) + k] = b[k]
  /\ \A k \in 1 .. Len(s) : k \in 1 .. Len(a) \/ (k - Len(a) \in 1 .. Len(b) /\ s[k] = b[k - Len(a)])

LEMMA ConcatFacts ==
  ASSUME NEW a \in Seq(Line), NEW b \in Seq(Line)
  PROVE  Joined(a, b, a \o b)
<1> PICK s : s = a \o b
  OBVIOUS
<1>1. /\ s \in Seq(Line) /\ Len(s) = Len(a) + Len(b)
      /\ \A i \in 1 .. Len(a) + Len(b) : s[i] = IF i <= Len(a) THEN a[i] ELSE b[i - Len(a)]
  BY ConcatProperties
<1> PICK m \in Nat, n \in Nat : m = Len(a) /\ n = Len(b)
  OBVIOUS
<1>2. \A k \in 1 .. n : m + k \in 1 .. m + n /\ ~(m + k <= m) /\ (m + k) - m = k
  OBVIOUS
<1>3. \A k \in 1 .. m + n : k \in 1 .. m \/ (k - m \in 1 .. n /\ ~(k <= m))
  OBVIOUS
<1>4. \A k \in 1 .. m : k \in 1 .. m + n /\ k <= m
  OBVIOUS
<1> QED  BY <1>1, <1>2, <1>3, <1>4 DEF Joined

\* A sequence that lists a finite set.
LEMMA ListingFacts ==
  ASSUME NEW S, IsFiniteSet(S), NEW q, q = SetToSeq(S)
  PROVE  /\ Len(q) \in Nat /\ q \in [1 .. Len(q) -> S]
         /\ \A x \in S : \E k \in 1 .. Len(q) : q[k] = x
<1>1. Cardinality(S) \in Nat /\ ExistsBijection(1 .. Cardinality(S), S)
  BY FS_CardinalityType
<1> PICK n \in Nat : n = Cardinality(S)
  BY <1>1
<1>2. \E f \in [1 .. n -> S] : IsInjective(f)
  <2>1. PICK f : f \in Bijection(1 .. n, S)
    BY <1>1 DEF ExistsBijection
  <2>2. f \in [1 .. n -> S] /\ \A a, b \in 1 .. n : f[a] = f[b] => a = b
    BY <2>1 DEF Bijection, Injection, IsInjective
  <2> QED  BY <2>2 DEF IsInjective
<1>3. q \in [1 .. n -> S] /\ IsInjective(q)
  BY <1>2 DEF SetToSeq
<1>4. q \in Injection(1 .. n, S)
  BY <1>3 DEF Injection, IsInjective
<1>5. IsFiniteSet(1 .. n) /\ Cardinality(1 .. n) = n
  BY FS_Interval
<1>6. q \in Surjection(1 .. n, S)
  BY <1>4, <1>5, FS_Injection
<1>7. Len(q) = n
  BY <1>3
<1> QED  BY <1>3, <1>6, <1>7 DEF Surjection

\* A row for each client: after some of them, the list names these.
RowsRead(ids, hw, rows, m) ==
  /\ ids \in SUBSET Ids /\ hw \in Knowledge /\ ids \subseteq DOMAIN clients
  /\ \A id \in ids : hw[id] = clients[id].hwid \/ hw[id] = Unknown
  /\ \A k \in 1 .. m : rows[k].id \in ids /\ hw[rows[k].id] = clients[rows[k].id].hwid

LEMMA RowFacts ==
  ASSUME NEW ids, NEW hw, NEW rows, NEW m \in Nat, RowsRead(ids, hw, rows, m),
         NEW row \in Line, row = rows[m + 1], row.kind = "Row", row.id \in DOMAIN clients,
         row.hwid = clients[row.id].hwid, DOMAIN clients \subseteq Ids,
         NEW ids2, NEW hw2, Turns(ids, hw, row, ids2, hw2)
  PROVE  RowsRead(ids2, hw2, rows, m + 1)
<1>1. /\ ids2 \in SUBSET Ids /\ hw2 \in Knowledge
      /\ ids2 = ids \cup {row.id} /\ Learnt(ids, hw, row.id, row.hwid, hw2)
  BY DEF Turns
<1>2. /\ ids \subseteq DOMAIN clients
      /\ \A id \in ids : hw[id] = clients[id].hwid \/ hw[id] = Unknown
      /\ \A k \in 1 .. m : rows[k].id \in ids /\ hw[rows[k].id] = clients[rows[k].id].hwid
  BY DEF RowsRead
<1>3. hw2[row.id] = clients[row.id].hwid /\ \A other \in ids : other # row.id => hw2[other] = hw[other]
  BY <1>1, <1>2 DEF Learnt, RowsRead
<1>4. \A id \in ids2 : hw2[id] = clients[id].hwid \/ hw2[id] = Unknown
  BY <1>1, <1>2, <1>3
<1>5. ASSUME NEW k \in 1 .. m + 1
      PROVE  rows[k].id \in ids2 /\ hw2[rows[k].id] = clients[rows[k].id].hwid
  <2>1. CASE k \in 1 .. m
    <3>1. rows[k].id \in ids /\ hw[rows[k].id] = clients[rows[k].id].hwid
      BY <1>2, <2>1
    <3> QED  BY <1>1, <1>3, <3>1
  <2>2. CASE k = m + 1
    BY <1>1, <1>3, <2>2
  <2> QED  BY <2>1, <2>2
<1> QED  BY <1>1, <1>2, <1>4, <1>5 DEF RowsRead

\* The rows as far as one of them, after other lines.
Prefixed(q, rows, m, r) ==
  /\ r \in Seq(Line) /\ Len(r) = Len(q) + m
  /\ \A k \in 1 .. Len(q) : r[k] = q[k]
  /\ \A k \in 1 .. m : r[Len(q) + k] = rows[k]

\* Whatever is listed when the rows are read, the rows add the clients that are missing.
LEMMA RowsWritten ==
  ASSUME NEW list, NEW q \in Seq(Line), NEW d, NEW h, Course(list, q, d, h), Arrives(d[Len(q)], h[Len(q)]),
         NEW rows \in Seq(Line), \A k \in 1 .. Len(rows) : /\ rows[k].kind = "Row" /\ rows[k].id \in DOMAIN clients
                                                            /\ rows[k].hwid = clients[rows[k].id].hwid,
         DOMAIN clients \subseteq Ids
  PROVE  \E r, d2, h2 : /\ Prefixed(q, rows, Len(rows), r) /\ Course(list, r, d2, h2)
                        /\ RowsRead(d2[Len(r)], h2[Len(r)], rows, Len(rows))
<1> DEFINE Reads(m) == \E r, d2, h2 : /\ Prefixed(q, rows, m, r) /\ Course(list, r, d2, h2)
                                      /\ RowsRead(d2[Len(r)], h2[Len(r)], rows, m)
           T == {m \in Nat : m <= Len(rows) => Reads(m)}
<1>1. Reads(0)
  <2>1. Prefixed(q, rows, 0, q)
    BY DEF Prefixed
  <2>2. d[Len(q)] \in SUBSET Ids /\ h[Len(q)] \in Knowledge
    BY DEF Course
  <2>3. RowsRead(d[Len(q)], h[Len(q)], rows, 0)
    BY <2>2 DEF RowsRead, Arrives
  <2> QED  BY <2>1, <2>3, Zenon
<1>2. ASSUME NEW m \in Nat, m + 1 <= Len(rows), Reads(m)
      PROVE  Reads(m + 1)
  <2>1. PICK r, d2, h2 : /\ Prefixed(q, rows, m, r) /\ Course(list, r, d2, h2)
                         /\ RowsRead(d2[Len(r)], h2[Len(r)], rows, m)
    BY <1>2, Zenon
  <2>2. PICK row \in Line : row = rows[m + 1]
    BY <1>2
  <2>3. row.kind = "Row" /\ row.id \in DOMAIN clients /\ row.hwid = clients[row.id].hwid
    BY <1>2, <2>2
  <2>4. PICK s : s = Append(r, row)
    OBVIOUS
  <2>5. OneMore(r, row, s)
    <3>1. r \in Seq(Line)
      BY <2>1 DEF Prefixed
    <3> QED  BY <2>4, <3>1 DEF OneMore
  <2>6. PICK d3, h3 : /\ Course(list, s, d3, h3)
                      /\ d2[Len(r)] \in SUBSET Ids /\ h2[Len(r)] \in Knowledge
                      /\ Turns(d2[Len(r)], h2[Len(r)], row, d3[Len(s)], h3[Len(s)])
    BY <2>1, <2>5, CourseGrows DEF Prefixed
  <2>7. RowsRead(d3[Len(s)], h3[Len(s)], rows, m + 1)
    BY <2>1, <2>2, <2>3, <2>6, RowFacts
  <2>8. Prefixed(q, rows, m + 1, s)
    <3>1. /\ s \in Seq(Line) /\ Len(s) = Len(r) + 1 /\ s[Len(r) + 1] = rows[m + 1]
          /\ \A k \in 1 .. Len(r) : s[k] = r[k]
      BY <2>2, <2>5 DEF OneMore
    <3>2. /\ Len(r) = Len(q) + m
          /\ \A k \in 1 .. Len(q) : r[k] = q[k]
          /\ \A k \in 1 .. m : r[Len(q) + k] = rows[k]
      BY <2>1 DEF Prefixed
    <3>3. Len(q) \in Nat
      OBVIOUS
    <3>4. Len(s) = Len(q) + (m + 1) /\ \A k \in 1 .. Len(q) : s[k] = q[k]
      BY <3>1, <3>2, <3>3
    <3>5. ASSUME NEW k \in 1 .. m + 1
          PROVE  s[Len(q) + k] = rows[k]
      <4>1. CASE k \in 1 .. m
        <5>1. Len(q) + k \in 1 .. Len(r)
          BY <3>2, <3>3, <4>1
        <5> QED  BY <3>1, <3>2, <4>1, <5>1
      <4>2. CASE k = m + 1
        <5>1. Len(q) + k = Len(r) + 1
          BY <3>2, <3>3, <4>2
        <5> QED  BY <3>1, <4>2, <5>1
      <4> QED  BY <4>1, <4>2
    <3> QED  BY <3>1, <3>4, <3>5 DEF Prefixed
  <2> QED  BY <2>6, <2>7, <2>8, Zenon
<1>3. T = Nat
  <2> HIDE DEF Reads
  <2>1. 0 \in T
    BY <1>1
  <2>2. ASSUME NEW m \in T
        PROVE  m + 1 \in T
    BY <1>2
  <2>3. T \in SUBSET Nat
    OBVIOUS
  <2> HIDE DEF T
  <2> QED  BY <2>1, <2>2, <2>3, Induction
<1>4. Len(rows) \in T /\ Len(rows) <= Len(rows)
  BY <1>3
<1>5. Reads(Len(rows))
  <2> HIDE DEF Reads
  <2> QED  BY <1>4
<1> QED  BY <1>5
\* The list that was asked for.
LEMMA ListsFollow ==
  ASSUME IInv, GameLists
  PROVE  Follows'
<1>1. /\ asked /\ asked' = FALSE /\ linked /\ UNCHANGED <<clients, players, linked>>
      /\ log \in Seq(Line)
  BY DEF GameLists, IInv, Closed, TypeOK, game, bot
<1>2. PICK q, rows : /\ q = SetToSeq(DOMAIN clients)
                     /\ rows = [i \in DOMAIN q |-> About("Row", q[i], clients[q[i]].ip, clients[q[i]].hwid)]
                     /\ log' = log \o rows
  BY <1>1 DEF GameLists, Write
<1>3. DOMAIN clients \subseteq Ids /\ IsFiniteSet(DOMAIN clients) /\ \A id \in DOMAIN clients : clients[id] \in Client
  <2>1. nextId \in 1 .. MaxId + 1 /\ DOMAIN clients \subseteq 1 .. nextId - 1 /\ MaxId \in Nat \ {0}
        /\ \A id \in DOMAIN clients : clients[id] \in Client
    BY RosterAssumption DEF IInv, TypeOK
  <2>2. IsFiniteSet(1 .. nextId - 1)
    BY <2>1, FS_Interval
  <2>3. IsFiniteSet(DOMAIN clients)
    BY <2>1, <2>2, FS_Subset
  <2> QED  BY <2>1, <2>3 DEF Ids
<1>4. /\ Len(q) \in Nat /\ q \in [1 .. Len(q) -> DOMAIN clients]
      /\ \A x \in DOMAIN clients : \E k \in 1 .. Len(q) : q[k] = x
  BY <1>2, <1>3, ListingFacts
<1> PICK n \in Nat : n = Len(q)
  BY <1>4
<1>5. \A k \in 1 .. n : rows[k] = About("Row", q[k], clients[q[k]].ip, clients[q[k]].hwid)
  BY <1>2, <1>4
<1>6. ASSUME NEW k \in 1 .. n
      PROVE  /\ rows[k] \in Line /\ rows[k].kind = "Row" /\ rows[k].id = q[k] /\ q[k] \in DOMAIN clients
             /\ rows[k].hwid = clients[rows[k].id].hwid
  <2>1. q[k] \in DOMAIN clients /\ q[k] \in Ids /\ clients[q[k]] \in Client
    BY <1>3, <1>4
  <2>2. clients[q[k]].ip \in IPs /\ clients[q[k]].hwid \in HWIDs \cup {Unknown}
    BY <2>1 DEF Client
  <2> PICK id \in Ids, ip \in IPs, hwid \in HWIDs \cup {Unknown} :
              id = q[k] /\ ip = clients[q[k]].ip /\ hwid = clients[q[k]].hwid
    BY <2>1, <2>2
  <2>3. rows[k] = [kind |-> "Row", id |-> id, to |-> id, ip |-> ip, hwid |-> hwid]
    BY <1>5 DEF About
  <2>4. [kind |-> "Row", id |-> id, to |-> id, ip |-> ip, hwid |-> hwid] \in Line
    BY DEF Line
  <2> QED  BY <2>1, <2>3, <2>4
<1>7. rows \in Seq(Line) /\ Len(rows) = n
  <2>1. rows \in [1 .. n -> Line]
    BY <1>2, <1>4, <1>6
  <2> QED  BY <2>1
<1>8. PICK d, h : Course(players, log, d, h) /\ Arrives(d[Len(log)], h[Len(log)])
  BY <1>1 DEF IInv, Follows
<1>9. PICK r, d2, h2 : /\ Prefixed(log, rows, Len(rows), r) /\ Course(players, r, d2, h2)
                       /\ RowsRead(d2[Len(r)], h2[Len(r)], rows, Len(rows))
  <2>1. \A k \in 1 .. Len(rows) : /\ rows[k].kind = "Row" /\ rows[k].id \in DOMAIN clients
                                   /\ rows[k].hwid = clients[rows[k].id].hwid
    BY <1>6, <1>7
  <2> QED  BY <1>1, <1>3, <1>7, <1>8, <2>1, RowsWritten
<1>10. log' = r
  <2>1. log' \in Seq(Line) /\ Len(log') = Len(log) + n
        /\ (\A k \in 1 .. Len(log) : log'[k] = log[k])
        /\ (\A k \in 1 .. n : log'[Len(log) + k] = rows[k])
    <3>1. log \in Seq(Line) /\ rows \in Seq(Line) /\ Len(rows) = n /\ log' = log \o rows
      BY <1>1, <1>2, <1>7
    <3>2. Joined(log, rows, log')
      BY <3>1, ConcatFacts
    <3> QED  BY <3>1, <3>2 DEF Joined
  <2>2. r \in Seq(Line) /\ Len(r) = Len(log) + n
        /\ (\A k \in 1 .. Len(log) : r[k] = log[k])
        /\ (\A k \in 1 .. n : r[Len(log) + k] = rows[k])
    BY <1>7, <1>9 DEF Prefixed
  <2>3. ASSUME NEW k \in 1 .. Len(log')
        PROVE  log'[k] = r[k]
    <3>1. Len(log) \in Nat
      BY <1>1
    <3>2. CASE k \in 1 .. Len(log)
      BY <2>1, <2>2, <3>2
    <3>3. CASE k \notin 1 .. Len(log)
      <4>1. k - Len(log) \in 1 .. n /\ Len(log) + (k - Len(log)) = k
        BY <2>1, <3>1, <3>3
      <4> QED  BY <2>1, <2>2, <4>1
    <3> QED  BY <3>2, <3>3
  <2> QED  BY <2>1, <2>2, <2>3, SeqEqual
<1>11. Arrives(d2[Len(r)], h2[Len(r)])'
  <2> PICK e, f : e = d2[Len(r)] /\ f = h2[Len(r)]
    OBVIOUS
  <2>1. /\ e \subseteq DOMAIN clients
        /\ \A k \in 1 .. n : rows[k].id \in e /\ f[rows[k].id] = clients[rows[k].id].hwid
    BY <1>7, <1>9 DEF RowsRead
  <2>2. ASSUME NEW x \in DOMAIN clients
        PROVE  x \in e /\ f[x] = clients[x].hwid
    <3>1. PICK k \in 1 .. n : q[k] = x
      BY <1>4
    <3> QED  BY <1>6, <2>1, <3>1
  <2> QED  BY <1>1, <2>1, <2>2 DEF Arrives
<1>12. (Course(players, log, d2, h2) /\ (linked => Arrives(d2[Len(log)], h2[Len(log)])))'
  BY <1>1, <1>9, <1>10, <1>11 DEF Course, Shows, IdsOf, Arrives
<1> QED  BY <1>12, Zenon DEF Follows
----------------------------------------------------------------------------
(***************************************************************************)
(* New ids are new                                                         *)
(***************************************************************************)

\* Lines the game may write when it has handed out the ids below n, and after
\* which it has handed out those below m.
NewLines(lines, n, m) ==
  \A k \in 1 .. Len(lines) :
    /\ lines[k].kind \in Moving \/ (lines[k].id < m /\ lines[k].to < m)
    /\ lines[k].kind \in Moving => lines[k].id = 1 /\ lines[k].to = 1
    /\ lines[k].kind = "ChangeID" => Len(lines) = 1 /\ lines[k].to = n /\ n > 1

LEMMA FreshWritten ==
  ASSUME log \in Seq(Line), Fresh, nextId \in Nat, nextId' \in Nat, nextId' >= nextId, players' = players,
         NEW lines \in Seq(Line), NewLines(lines, nextId, nextId'),
         log' = IF linked THEN log \o lines ELSE log
  PROVE  Fresh'
<1> DEFINE n == Len(log)
<1>1. /\ IdsOf(players) \subseteq 1 .. nextId - 1
      /\ \A k \in 1 .. n :
           /\ log[k].kind \in Moving \/ (log[k].id < nextId /\ log[k].to < nextId)
           /\ log[k].kind \in Moving => log[k].id = 1 /\ log[k].to = 1
           /\ log[k].kind = "ChangeID" =>
                /\ log[k].to \notin IdsOf(players)
                /\ \A j \in 1 .. k - 1 : log[j].id # log[k].to /\ log[j].to # log[k].to
  BY DEF Fresh
<1>2. n \in Nat /\ \A k \in 1 .. n : log[k].id \in Ids /\ log[k].to \in Ids
  <2>1. n \in Nat /\ \A k \in 1 .. n : log[k] \in Line
    OBVIOUS
  <2> QED  BY <2>1 DEF Line
<1>3. IdsOf(players') = IdsOf(players) /\ IdsOf(players) \subseteq 1 .. nextId' - 1
  BY <1>1
<1> DEFINE OK(r, k) ==
             /\ r[k].kind \in Moving \/ (r[k].id < nextId' /\ r[k].to < nextId')
             /\ r[k].kind \in Moving => r[k].id = 1 /\ r[k].to = 1
             /\ r[k].kind = "ChangeID" =>
                  /\ r[k].to \notin IdsOf(players')
                  /\ \A j \in 1 .. k - 1 : r[j].id # r[k].to /\ r[j].to # r[k].to
<1>4. CASE ~linked
  <2>1. log' = log
    BY <1>4
  <2>2. ASSUME NEW k \in 1 .. Len(log')
        PROVE  OK(log', k)
    <3> PICK r : r = log'
      OBVIOUS
    <3>1. r = log /\ k \in 1 .. n
      BY <2>1
    <3>2. log[k].id \in Nat /\ log[k].to \in Nat
      BY <1>2, <3>1 DEF Ids
    <3>3. log[k].kind \in Moving \/ (log[k].id < nextId' /\ log[k].to < nextId')
      BY <1>1, <3>1, <3>2
    <3>4. log[k].kind = "ChangeID" =>
            /\ log[k].to \notin IdsOf(players')
            /\ \A j \in 1 .. k - 1 : log[j].id # log[k].to /\ log[j].to # log[k].to
      BY <1>1, <1>3, <3>1
    <3>5. OK(r, k)
      BY <1>1, <3>1, <3>3, <3>4
    <3> QED  BY <3>5
  <2> QED  BY <1>3, <2>2 DEF Fresh
<1>5. CASE linked
  <2> PICK r : r = log'
    OBVIOUS
  <2>1. Joined(log, lines, r)
    BY <1>5, ConcatFacts
  <2>2. /\ \A k \in 1 .. n : r[k] = log[k]
        /\ \A k \in 1 .. Len(r) : k \in 1 .. n \/ (k - n \in 1 .. Len(lines) /\ r[k] = lines[k - n])
    BY <2>1 DEF Joined
  <2> HIDE DEF n
  <2>3. ASSUME NEW k \in 1 .. n
        PROVE  OK(r, k)
    <3>1. \A j \in 1 .. k - 1 : j \in 1 .. n
      BY <1>2
    <3>2. r[k] = log[k] /\ \A j \in 1 .. k - 1 : r[j] = log[j]
      BY <2>2, <3>1
    <3>3. /\ log[k].kind \in Moving \/ (log[k].id < nextId' /\ log[k].to < nextId')
          /\ log[k].kind \in Moving => log[k].id = 1 /\ log[k].to = 1
      BY <1>1, <1>2 DEF Ids
    <3>4. log[k].kind = "ChangeID" =>
            /\ log[k].to \notin IdsOf(players')
            /\ \A j \in 1 .. k - 1 : log[j].id # log[k].to /\ log[j].to # log[k].to
      BY <1>1, <1>3
    <3> QED  BY <3>2, <3>3, <3>4
  <2>4. ASSUME NEW k \in 1 .. Len(r), k - n \in 1 .. Len(lines), r[k] = lines[k - n]
        PROVE  OK(r, k)
    <3> PICK line : line = lines[k - n]
      OBVIOUS
    <3>1. /\ line.kind \in Moving \/ (line.id < nextId' /\ line.to < nextId')
          /\ line.kind \in Moving => line.id = 1 /\ line.to = 1
          /\ line.kind = "ChangeID" => Len(lines) = 1 /\ line.to = nextId /\ nextId > 1
      BY <2>4 DEF NewLines
    <3>2. ASSUME line.kind = "ChangeID"
          PROVE  /\ line.to \notin IdsOf(players')
                 /\ \A j \in 1 .. k - 1 : r[j].id # line.to /\ r[j].to # line.to
      <4>1. line.to = nextId /\ nextId > 1 /\ k - n = 1
        <5>1. line.to = nextId /\ nextId > 1 /\ Len(lines) = 1
          BY <3>1, <3>2
        <5>2. k - n \in 1 .. 1
          BY <2>4, <5>1
        <5> QED  BY <1>2, <5>1, <5>2
      <4>2. nextId \notin IdsOf(players')
        BY <1>1, <1>3
      <4>3. ASSUME NEW j \in 1 .. k - 1
            PROVE  r[j].id # nextId /\ r[j].to # nextId
        <5>1. j \in 1 .. n
          BY <1>2, <4>1
        <5>2. r[j] = log[j]
          BY <2>2, <5>1
        <5> QED  BY <1>1, <1>2, <4>1, <5>1, <5>2, SMTT(30), ZenonT(30) DEF Ids
      <4> QED  BY <4>1, <4>2, <4>3
    <3> QED  BY <2>4, <3>1, <3>2
  <2>5. \A k \in 1 .. Len(r) : OK(r, k)
    BY <2>2, <2>3, <2>4
  <2> QED  BY <1>3, <2>5 DEF Fresh
<1> QED  BY <1>4, <1>5

\* A line adds nobody but those it names.
LEMMA EffectBounds ==
  ASSUME NEW ids, NEW line
  PROVE  /\ Effect(ids, line) \subseteq ids \cup {line.id, line.to}
         /\ line.kind \in Moving => Effect(ids, line) \subseteq ids
  BY DEF Effect, Moving

LEMMA FreshHandled ==
  ASSUME log \in Seq(Line), Fresh, nextId \in Nat, nextId' = nextId, log # <<>>, log' = Tail(log),
         NEW hw, Shows(players', Effect(IdsOf(players), log[1]), hw)
  PROVE  Fresh'
<1> PICK n \in Nat : n = Len(log)
  OBVIOUS
<1>1. /\ IdsOf(players) \subseteq 1 .. nextId - 1
      /\ \A k \in 1 .. n :
           /\ log[k].kind \in Moving \/ (log[k].id < nextId /\ log[k].to < nextId)
           /\ log[k].kind \in Moving => log[k].id = 1 /\ log[k].to = 1
           /\ log[k].kind = "ChangeID" =>
                /\ log[k].to \notin IdsOf(players)
                /\ \A j \in 1 .. k - 1 : log[j].id # log[k].to /\ log[j].to # log[k].to
  BY DEF Fresh
<1>2. \A k \in 1 .. n : log[k].id \in Ids /\ log[k].to \in Ids
  <2>1. n \in Nat /\ \A k \in 1 .. n : log[k] \in Line
    OBVIOUS
  <2> QED  BY <2>1 DEF Line
<1> PICK r : r = log'
  OBVIOUS
<1>3. n > 0 /\ Len(r) = n - 1 /\ \A k \in 1 .. n - 1 : r[k] = log[k + 1]
  OBVIOUS
<1>4. /\ IdsOf(players') \subseteq IdsOf(players) \cup {log[1].id, log[1].to}
      /\ log[1].kind \in Moving => IdsOf(players') \subseteq IdsOf(players)
  BY EffectBounds DEF Shows
<1>5. IdsOf(players') \subseteq 1 .. nextId - 1
  <2>1. 1 \in 1 .. n
    BY <1>3
  <2>2. log[1].kind \in Moving \/ (log[1].id \in 1 .. nextId - 1 /\ log[1].to \in 1 .. nextId - 1)
    BY <1>1, <1>2, <2>1 DEF Ids
  <2> QED  BY <1>1, <1>4, <2>2
<1>6. ASSUME NEW k \in 1 .. n - 1
      PROVE  /\ r[k].kind \in Moving \/ (r[k].id < nextId /\ r[k].to < nextId)
             /\ r[k].kind \in Moving => r[k].id = 1 /\ r[k].to = 1
             /\ r[k].kind = "ChangeID" =>
                  /\ r[k].to \notin IdsOf(players')
                  /\ \A j \in 1 .. k - 1 : r[j].id # r[k].to /\ r[j].to # r[k].to
  <2> PICK m : m = k + 1
    OBVIOUS
  <2>1. m \in 1 .. n /\ m - 1 = k /\ r[k] = log[m] /\ 1 \in 1 .. m - 1
    BY <1>3
  <2>2. ASSUME log[m].kind = "ChangeID"
        PROVE  /\ log[m].to \notin IdsOf(players')
               /\ \A j \in 1 .. k - 1 : r[j].id # log[m].to /\ r[j].to # log[m].to
    <3>1. /\ log[m].to \notin IdsOf(players)
          /\ \A j \in 1 .. m - 1 : log[j].id # log[m].to /\ log[j].to # log[m].to
      BY <1>1, <2>1, <2>2
    <3>2. log[m].to \notin IdsOf(players')
      BY <1>4, <2>1, <3>1
    <3>3. ASSUME NEW j \in 1 .. k - 1
          PROVE  r[j].id # log[m].to /\ r[j].to # log[m].to
      <4>1. j + 1 \in 1 .. m - 1 /\ j \in 1 .. n - 1
        BY <2>1
      <4>2. r[j] = log[j + 1]
        BY <1>3, <4>1
      <4> QED  BY <3>1, <4>1, <4>2
    <3> QED  BY <3>2, <3>3
  <2> QED  BY <1>1, <2>1, <2>2
<1> QED  BY <1>3, <1>5, <1>6 DEF Fresh
----------------------------------------------------------------------------
(***************************************************************************)
(* The steps of the game                                                   *)
(***************************************************************************)

\* The clients that are present, and the id that comes next.
ClientsOK == /\ nextId \in 1 .. MaxId + 1
             /\ DOMAIN clients \subseteq 1 .. nextId - 1
             /\ \A id \in DOMAIN clients : clients[id] \in Client

LEMMA ClientFacts ==
  ASSUME ClientsOK
  PROVE  /\ MaxId \in Nat /\ nextId \in Nat /\ nextId >= 1 /\ nextId <= MaxId + 1
         /\ DOMAIN clients \subseteq Ids /\ IsFiniteSet(DOMAIN clients)
         /\ \A id \in DOMAIN clients : /\ id \in Nat /\ id >= 1 /\ id < nextId
                                        /\ clients[id].ip \in IPs /\ clients[id].hwid \in HWIDs \cup {Unknown}
<1>1. /\ nextId \in 1 .. MaxId + 1 /\ DOMAIN clients \subseteq 1 .. nextId - 1 /\ MaxId \in Nat \ {0}
      /\ \A id \in DOMAIN clients : clients[id] \in Client
  BY RosterAssumption DEF ClientsOK
<1>2. IsFiniteSet(1 .. nextId - 1)
  BY <1>1, FS_Interval
<1>3. IsFiniteSet(DOMAIN clients)
  BY <1>1, <1>2, FS_Subset
<1>4. \A id \in DOMAIN clients : clients[id].ip \in IPs /\ clients[id].hwid \in HWIDs \cup {Unknown}
  BY <1>1 DEF Client
<1> QED  BY <1>1, <1>3, <1>4 DEF Ids

\* The rest of the type invariant.
RestOK == /\ log \in Seq(Line) /\ asked \in BOOLEAN /\ linked \in BOOLEAN
          /\ whenEmpty \in BOOLEAN /\ endmap \in BOOLEAN
          /\ lists \in 0 .. MaxLists /\ links \in 0 .. MaxLinks /\ kicks \subseteq Ids

LEMMA InvariantParts ==
  IInv <=> ClientsOK /\ RestOK /\ ListOK(players, pending) /\ Fresh /\ Closed /\ Follows
<1>1. TypeOK /\ ListOK(players, pending) <=> ClientsOK /\ RestOK /\ ListOK(players, pending)
  BY DEF TypeOK, ClientsOK, RestOK, ListOK
<1> QED  BY <1>1, Zenon DEF IInv

LEMMA InvariantPartsNext ==
  (ClientsOK /\ RestOK /\ ListOK(players, pending) /\ Fresh /\ Closed /\ Follows)' => IInv'
<1>1. (ClientsOK /\ RestOK /\ ListOK(players, pending))' => (TypeOK /\ ListOK(players, pending))'
  BY DEF TypeOK, ClientsOK, RestOK, ListOK
<1> QED  BY <1>1, Zenon DEF IInv

\* One line of the game.
LEMMA WroteOne ==
  ASSUME IInv, NEW line \in Line, Write(<<line>>), ClientsOK', nextId' >= nextId,
         NewLines(<<line>>, nextId, nextId'), linked => Keeps(line),
         UNCHANGED <<players, pending, linked, links, asked, lists, whenEmpty>>,
         kicks' \subseteq Ids, endmap' \in BOOLEAN
  PROVE  IInv'
<1>1. ClientsOK /\ RestOK /\ ListOK(players, pending) /\ Fresh /\ Closed /\ Follows
  BY InvariantParts
<1>2. log \in Seq(Line) /\ log' = IF linked THEN log \o <<line>> ELSE log
  BY <1>1 DEF Write, RestOK
<1>3. nextId \in Nat /\ nextId' \in Nat
  <2>1. nextId \in Nat
    BY <1>1, ClientFacts
  <2>2. nextId' \in 1 .. MaxId + 1
    BY DEF ClientsOK
  <2> QED  BY <2>1, <2>2
<1>4. Follows'
  BY <1>1, <1>2, Written
<1>5. Fresh'
  <2>1. <<line>> \in Seq(Line)
    OBVIOUS
  <2>2. players' = players
    OBVIOUS
  <2> QED  BY <1>1, <1>2, <1>3, <2>1, <2>2, FreshWritten
<1>6. RestOK'
  <2>1. log' \in Seq(Line)
    BY <1>2
  <2> QED  BY <1>1, <2>1 DEF RestOK
<1>7. Closed' /\ ListOK(players, pending)'
  BY <1>1, <1>2 DEF Closed, ListOK, PendingOK, Alone, Waiting
<1> QED  BY <1>4, <1>5, <1>6, <1>7, InvariantPartsNext

\* The fields of a line.
LEMMA AboutFacts ==
  ASSUME NEW kind \in {"Enter", "HWID", "Named", "Exit", "Row"}, NEW id \in Ids,
         NEW ip \in IPs \cup {Unknown}, NEW hwid \in HWIDs \cup {Unknown},
         NEW line, line = About(kind, id, ip, hwid)
  PROVE  /\ line \in Line /\ line.kind = kind /\ line.id = id /\ line.to = id /\ line.hwid = hwid
         /\ \A n, m : id < m => NewLines(<<line>>, n, m)
<1>1. line = [kind |-> kind, id |-> id, to |-> id, ip |-> ip, hwid |-> hwid]
  BY DEF About
<1>2. line \in Line /\ line.kind = kind /\ line.id = id /\ line.to = id /\ line.hwid = hwid
  BY <1>1 DEF Line
<1>3. Len(<<line>>) = 1 /\ <<line>>[1] = line
  OBVIOUS
<1>4. kind \notin Moving /\ kind # "ChangeID"
  BY DEF Moving
<1> QED  BY <1>2, <1>3, <1>4 DEF NewLines
\* A client joins.
LEMMA JoinKeeps ==
  ASSUME IInv, NEW ip \in IPs, NEW hwid \in HWIDs \cup {Unknown}, Join(ip, hwid)
  PROVE  IInv'
<1>1. ClientsOK /\ RestOK
  BY InvariantParts
<1>2. /\ nextId <= MaxId /\ nextId' = nextId + 1
      /\ clients' = [id \in DOMAIN clients \cup {nextId} |->
                       IF id = nextId THEN [ip |-> ip, hwid |-> hwid] ELSE clients[id]]
      /\ Write(<<About("Enter", nextId, ip, hwid)>>)
      /\ UNCHANGED <<players, pending, linked, links, asked, lists, whenEmpty, kicks, endmap>>
  BY Zenon DEF Join, bot
<1>3. /\ MaxId \in Nat /\ nextId \in Nat /\ nextId >= 1
      /\ \A id \in DOMAIN clients : id \in Nat /\ id >= 1 /\ id < nextId
  BY <1>1, ClientFacts
<1>4. nextId \in Ids
  BY <1>2, <1>3 DEF Ids
<1> PICK id : id = nextId
  OBVIOUS
<1> PICK line : line = About("Enter", id, ip, hwid)
  OBVIOUS
<1>5. /\ line \in Line /\ line.kind = "Enter" /\ line.id = id /\ line.hwid = hwid
      /\ \A n, m : id < m => NewLines(<<line>>, n, m)
  BY <1>4, AboutFacts
<1>6. [ip |-> ip, hwid |-> hwid] \in Client
  BY DEF Client
<1>7. ClientsOK'
  <2>1. DOMAIN clients' = DOMAIN clients \cup {nextId}
    BY <1>2
  <2>2. \A x \in DOMAIN clients' : clients'[x] \in Client
    BY <1>1, <1>2, <1>6 DEF ClientsOK
  <2>3. DOMAIN clients' \subseteq 1 .. nextId' - 1 /\ nextId' \in 1 .. MaxId + 1
    BY <1>2, <1>3, <2>1
  <2> QED  BY <2>2, <2>3 DEF ClientsOK
<1>8. Keeps(line)
  <2> SUFFICES ASSUME NEW ids, NEW hw, NEW ids2, NEW hw2, Arrives(ids, hw), ids \in SUBSET Ids,
                      Turns(ids, hw, line, ids2, hw2)
               PROVE  Arrives(ids2, hw2)'
    BY Zenon DEF Keeps
  <2>1. ids2 = ids \cup {id} /\ Learnt(ids, hw, id, hwid, hw2)
    BY <1>5 DEF Turns
  <2>2. /\ ids \subseteq DOMAIN clients /\ (~asked => ids = DOMAIN clients)
        /\ \A x \in ids : hw[x] = clients[x].hwid \/ (asked /\ hw[x] = Unknown)
    BY DEF Arrives
  <2>3. id \notin DOMAIN clients
    BY <1>3
  <2>4. hw2[id] = hwid /\ \A x \in ids : hw2[x] = hw[x]
    BY <2>1, <2>2, <2>3 DEF Learnt
  <2>5. /\ DOMAIN clients' = DOMAIN clients \cup {id} /\ clients'[id].hwid = hwid
        /\ \A x \in DOMAIN clients : clients'[x] = clients[x]
    BY <1>2, <2>3
  <2>6. ids2 \subseteq DOMAIN clients' /\ (~asked' => ids2 = DOMAIN clients')
    BY <1>2, <2>1, <2>2, <2>5
  <2>7. \A x \in ids2 : hw2[x] = clients'[x].hwid \/ (asked' /\ hw2[x] = Unknown)
    BY <1>2, <2>1, <2>2, <2>4, <2>5
  <2> QED  BY <2>6, <2>7 DEF Arrives
<1>9. kicks' \subseteq Ids /\ endmap' \in BOOLEAN
  BY <1>1, <1>2 DEF RestOK
<1>10. NewLines(<<line>>, nextId, nextId') /\ nextId' >= nextId /\ Write(<<line>>)
  BY <1>2, <1>3, <1>5
<1> QED  BY <1>2, <1>5, <1>7, <1>8, <1>9, <1>10, WroteOne

\* The hardware id of a client becomes known.
LEMMA TellKeeps ==
  ASSUME IInv, NEW id \in DOMAIN clients, NEW hwid \in HWIDs, TellHWID(id, hwid)
  PROVE  IInv'
<1>1. ClientsOK /\ RestOK
  BY InvariantParts
<1> PICK none : none = Unknown
  OBVIOUS
<1> PICK line : line = About("HWID", id, none, hwid)
  OBVIOUS
<1>2. /\ clients' = [clients EXCEPT ![id].hwid = hwid] /\ Write(<<line>>)
      /\ UNCHANGED <<nextId, players, pending, linked, links, asked, lists, whenEmpty, kicks, endmap>>
  BY Zenon DEF TellHWID, bot
<1>3. /\ MaxId \in Nat /\ nextId \in Nat /\ DOMAIN clients \subseteq Ids /\ id < nextId
      /\ clients[id] \in Client
  BY <1>1, ClientFacts DEF ClientsOK
<1>4. /\ line \in Line /\ line.kind = "HWID" /\ line.id = id /\ line.hwid = hwid
      /\ \A n, m : id < m => NewLines(<<line>>, n, m)
  <2>1. id \in Ids /\ none \in IPs \cup {Unknown} /\ hwid \in HWIDs \cup {Unknown}
    BY <1>3
  <2> QED  BY <2>1, AboutFacts
<1>5. /\ DOMAIN clients' = DOMAIN clients /\ clients'[id].hwid = hwid /\ clients'[id] \in Client
      /\ \A x \in DOMAIN clients : x # id => clients'[x] = clients[x]
  BY <1>2, <1>3 DEF Client
<1>6. ClientsOK'
  BY <1>1, <1>2, <1>5 DEF ClientsOK
<1>7. Keeps(line)
  <2> SUFFICES ASSUME NEW ids, NEW hw, NEW ids2, NEW hw2, Arrives(ids, hw), ids \in SUBSET Ids,
                      Turns(ids, hw, line, ids2, hw2)
               PROVE  Arrives(ids2, hw2)'
    BY Zenon DEF Keeps
  <2>1. ids2 = ids \cup {id} /\ hw2[id] = hwid /\ \A other \in Ids : other # id => hw2[other] = hw[other]
    BY <1>4 DEF Turns
  <2>2. /\ ids \subseteq DOMAIN clients /\ (~asked => ids = DOMAIN clients)
        /\ \A x \in ids : hw[x] = clients[x].hwid \/ (asked /\ hw[x] = Unknown)
    BY DEF Arrives
  <2>3. ids2 \subseteq DOMAIN clients' /\ (~asked' => ids2 = DOMAIN clients')
    BY <1>2, <1>5, <2>1, <2>2
  <2>4. \A x \in ids2 : hw2[x] = clients'[x].hwid \/ (asked' /\ hw2[x] = Unknown)
    BY <1>2, <1>5, <2>1, <2>2
  <2> QED  BY <2>3, <2>4 DEF Arrives
<1>8. kicks' \subseteq Ids /\ endmap' \in BOOLEAN
  BY <1>1, <1>2 DEF RestOK
<1>9. NewLines(<<line>>, nextId, nextId') /\ nextId' >= nextId
  BY <1>2, <1>3, <1>4
<1> QED  BY <1>2, <1>4, <1>6, <1>7, <1>8, <1>9, WroteOne

\* A line names a client.
LEMMA MentionKeeps ==
  ASSUME IInv, NEW id \in DOMAIN clients, Mention(id)
  PROVE  IInv'
<1>1. ClientsOK /\ RestOK
  BY InvariantParts
<1> PICK none : none = Unknown
  OBVIOUS
<1> PICK line : line = About("Named", id, none, none)
  OBVIOUS
<1>2. /\ Write(<<line>>)
      /\ UNCHANGED <<clients, nextId, players, pending, linked, links, asked, lists, whenEmpty, kicks, endmap>>
  BY Zenon DEF Mention, bot, game
<1>3. /\ MaxId \in Nat /\ nextId \in Nat /\ DOMAIN clients \subseteq Ids /\ id < nextId
  BY <1>1, ClientFacts
<1>4. /\ line \in Line /\ line.kind = "Named" /\ line.id = id /\ line.hwid = none
      /\ \A n, m : id < m => NewLines(<<line>>, n, m)
  <2>1. id \in Ids /\ none \in IPs \cup {Unknown} /\ none \in HWIDs \cup {Unknown}
    BY <1>3
  <2> QED  BY <2>1, AboutFacts
<1>5. ClientsOK'
  BY <1>1, <1>2 DEF ClientsOK
<1>6. Keeps(line)
  <2> SUFFICES ASSUME NEW ids, NEW hw, NEW ids2, NEW hw2, Arrives(ids, hw), ids \in SUBSET Ids,
                      Turns(ids, hw, line, ids2, hw2)
               PROVE  Arrives(ids2, hw2)'
    BY Zenon DEF Keeps
  <2>1. ids2 = ids \cup {id} /\ Learnt(ids, hw, id, none, hw2)
    BY <1>4 DEF Turns
  <2>2. /\ ids \subseteq DOMAIN clients /\ (~asked => ids = DOMAIN clients)
        /\ \A x \in ids : hw[x] = clients[x].hwid \/ (asked /\ hw[x] = Unknown)
    BY DEF Arrives
  <2>3. /\ id \in ids => hw2[id] = hw[id]
        /\ id \notin ids => hw2[id] = none
        /\ \A x \in ids : x # id => hw2[x] = hw[x]
    BY <2>1 DEF Learnt
  <2>4. ids2 \subseteq DOMAIN clients' /\ (~asked' => ids2 = DOMAIN clients')
    BY <1>2, <2>1, <2>2
  <2>5. \A x \in ids2 : hw2[x] = clients'[x].hwid \/ (asked' /\ hw2[x] = Unknown)
    BY <1>2, <2>1, <2>2, <2>3
  <2> QED  BY <2>4, <2>5 DEF Arrives
<1>7. kicks' \subseteq Ids /\ endmap' \in BOOLEAN
  BY <1>1, <1>2 DEF RestOK
<1>8. NewLines(<<line>>, nextId, nextId') /\ nextId' >= nextId
  BY <1>2, <1>3, <1>4
<1> QED  BY <1>2, <1>4, <1>5, <1>6, <1>7, <1>8, WroteOne
\* A client leaves, or is kicked: in either case the line says that it left.
LeftLine(id) == About("Exit", id, Unknown, Unknown)

LEMMA LeftFacts ==
  ASSUME IInv, NEW id \in DOMAIN clients, clients' = Without(id), nextId' = nextId, asked' = asked,
         NEW line, line = LeftLine(id)
  PROVE  /\ ClientsOK' /\ line \in Line /\ NewLines(<<line>>, nextId, nextId') /\ Keeps(line)
<1>1. ClientsOK
  BY InvariantParts
<1> PICK none : none = Unknown
  OBVIOUS
<1>2. /\ MaxId \in Nat /\ nextId \in Nat /\ DOMAIN clients \subseteq Ids /\ id < nextId
  BY <1>1, ClientFacts
<1>3. line = About("Exit", id, none, none)
  BY DEF LeftLine
<1>4. /\ line \in Line /\ line.kind = "Exit" /\ line.id = id
      /\ \A n, m : id < m => NewLines(<<line>>, n, m)
  <2>1. id \in Ids /\ none \in IPs \cup {Unknown} /\ none \in HWIDs \cup {Unknown}
    BY <1>2
  <2> QED  BY <1>3, <2>1, AboutFacts
<1>5. /\ DOMAIN clients' = DOMAIN clients \ {id} /\ \A x \in DOMAIN clients' : clients'[x] = clients[x]
  BY DEF Without
<1>6. ClientsOK'
  BY <1>1, <1>5 DEF ClientsOK
<1>7. Keeps(line)
  <2> SUFFICES ASSUME NEW ids, NEW hw, NEW ids2, NEW hw2, Arrives(ids, hw), ids \in SUBSET Ids,
                      Turns(ids, hw, line, ids2, hw2)
               PROVE  Arrives(ids2, hw2)'
    BY Zenon DEF Keeps
  <2>1. ids2 = ids \ {id} /\ hw2 = hw
    BY <1>4 DEF Turns
  <2>2. /\ ids \subseteq DOMAIN clients /\ (~asked => ids = DOMAIN clients)
        /\ \A x \in ids : hw[x] = clients[x].hwid \/ (asked /\ hw[x] = Unknown)
    BY DEF Arrives
  <2>3. ids2 \subseteq DOMAIN clients' /\ (~asked' => ids2 = DOMAIN clients')
    BY <1>5, <2>1, <2>2
  <2>4. \A x \in ids2 : hw2[x] = clients'[x].hwid \/ (asked' /\ hw2[x] = Unknown)
    BY <1>5, <2>1, <2>2
  <2> QED  BY <2>3, <2>4 DEF Arrives
<1>8. NewLines(<<line>>, nextId, nextId')
  BY <1>2, <1>4
<1> QED  BY <1>4, <1>6, <1>7, <1>8

LEMMA LeaveKeeps ==
  ASSUME IInv, NEW id \in DOMAIN clients, Leave(id)
  PROVE  IInv'
<1>1. ClientsOK /\ RestOK
  BY InvariantParts
<1> PICK line : line = LeftLine(id)
  OBVIOUS
<1>2. /\ clients' = Without(id) /\ Write(<<line>>)
      /\ UNCHANGED <<nextId, players, pending, linked, links, asked, lists, whenEmpty, kicks, endmap>>
  BY Zenon DEF Leave, LeftLine, bot
<1>3. ClientsOK' /\ line \in Line /\ NewLines(<<line>>, nextId, nextId') /\ Keeps(line)
  BY <1>2, LeftFacts
<1>4. kicks' \subseteq Ids /\ endmap' \in BOOLEAN /\ nextId' >= nextId
  <2>1. nextId \in Nat
    BY <1>1, ClientFacts
  <2> QED  BY <1>1, <1>2, <2>1 DEF RestOK
<1> QED  BY <1>2, <1>3, <1>4, WroteOne

LEMMA KickKeeps ==
  ASSUME IInv, NEW id, GameKicks(id)
  PROVE  IInv'
<1>1. ClientsOK /\ RestOK /\ ListOK(players, pending) /\ Fresh /\ Closed /\ Follows
  BY InvariantParts
<1>2. UNCHANGED <<nextId, players, pending, linked, links, asked, lists, whenEmpty, endmap>> /\ kicks' \subseteq kicks
  BY DEF GameKicks, bot
<1>3. kicks' \subseteq Ids /\ endmap' \in BOOLEAN /\ nextId' >= nextId
  <2>1. nextId \in Nat
    BY <1>1, ClientFacts
  <2> QED  BY <1>1, <1>2, <2>1 DEF RestOK
<1>4. CASE id \in DOMAIN clients
  <2> PICK line : line = LeftLine(id)
    OBVIOUS
  <2>1. clients' = Without(id) /\ Write(<<line>>)
    BY <1>4, Zenon DEF GameKicks, LeftLine
  <2>2. ClientsOK' /\ line \in Line /\ NewLines(<<line>>, nextId, nextId') /\ Keeps(line)
    BY <1>2, <1>4, <2>1, LeftFacts
  <2> QED  BY <1>2, <1>3, <2>1, <2>2, WroteOne
<1>5. CASE id \notin DOMAIN clients
  <2>1. UNCHANGED <<clients, log>>
    BY <1>5 DEF GameKicks
  <2>2. (ClientsOK /\ ListOK(players, pending) /\ Fresh /\ Closed)'
    BY <1>1, <1>2, <2>1 DEF ClientsOK, ListOK, PendingOK, Alone, Waiting, Fresh, IdsOf, Closed
  <2>3. RestOK'
    BY <1>1, <1>2, <1>3, <2>1 DEF RestOK
  <2>4. Follows'
    <3>1. PICK d, h : Course(players, log, d, h) /\ (linked => Arrives(d[Len(log)], h[Len(log)]))
      BY <1>1 DEF Follows
    <3>2. (Course(players, log, d, h) /\ (linked => Arrives(d[Len(log)], h[Len(log)])))'
      BY <1>2, <2>1, <3>1 DEF Course, Shows, IdsOf, Arrives
    <3> QED  BY <3>2, Zenon DEF Follows
  <2> QED  BY <2>2, <2>3, <2>4, InvariantPartsNext
<1> QED  BY <1>4, <1>5

\* The game renumbers a client.
LEMMA ChangeKeeps ==
  ASSUME IInv, NEW id \in DOMAIN clients, ChangeId(id)
  PROVE  IInv'
<1>1. ClientsOK /\ RestOK
  BY InvariantParts
<1> PICK to : to = nextId
  OBVIOUS
<1> PICK line : line = Renumbered(id, to)
  OBVIOUS
<1>2. /\ nextId <= MaxId /\ nextId' = nextId + 1
      /\ clients' = [other \in (DOMAIN clients \ {id}) \cup {nextId} |->
                       IF other = nextId THEN clients[id] ELSE clients[other]]
      /\ Write(<<line>>)
      /\ UNCHANGED <<players, pending, linked, links, asked, lists, whenEmpty, kicks, endmap>>
  BY Zenon DEF ChangeId, bot
<1>3. /\ MaxId \in Nat /\ nextId \in Nat /\ nextId >= 1 /\ DOMAIN clients \subseteq Ids
      /\ \A x \in DOMAIN clients : x \in Nat /\ x >= 1 /\ x < nextId
  BY <1>1, ClientFacts
<1>4. to \in Ids /\ id \in Ids /\ to \notin DOMAIN clients /\ id < nextId /\ nextId > 1
  BY <1>2, <1>3 DEF Ids
<1>5. line = [kind |-> "ChangeID", id |-> id, to |-> to, ip |-> Unknown, hwid |-> Unknown]
  BY DEF Renumbered
<1>6. line \in Line /\ line.kind = "ChangeID" /\ line.id = id /\ line.to = to
  BY <1>4, <1>5 DEF Line
<1>7. /\ DOMAIN clients' = (DOMAIN clients \ {id}) \cup {to} /\ clients'[to] = clients[id]
      /\ \A x \in DOMAIN clients \ {id} : clients'[x] = clients[x]
  BY <1>2, <1>4
<1>8. ClientsOK'
  <2>1. \A x \in DOMAIN clients' : clients'[x] \in Client
    BY <1>1, <1>7 DEF ClientsOK
  <2>2. DOMAIN clients' \subseteq 1 .. nextId' - 1 /\ nextId' \in 1 .. MaxId + 1
    BY <1>2, <1>3, <1>7
  <2> QED  BY <2>1, <2>2 DEF ClientsOK
<1>9. Keeps(line)
  <2> SUFFICES ASSUME NEW ids, NEW hw, NEW ids2, NEW hw2, Arrives(ids, hw), ids \in SUBSET Ids,
                      Turns(ids, hw, line, ids2, hw2)
               PROVE  Arrives(ids2, hw2)'
    BY Zenon DEF Keeps
  <2>1. /\ ids2 = IF id \in ids THEN (ids \ {id}) \cup {to} ELSE ids
        /\ hw2[to] = hw[id] /\ \A other \in Ids : other # to => hw2[other] = hw[other]
    BY <1>6 DEF Turns
  <2>2. /\ ids \subseteq DOMAIN clients /\ (~asked => ids = DOMAIN clients)
        /\ \A x \in ids : hw[x] = clients[x].hwid \/ (asked /\ hw[x] = Unknown)
    BY DEF Arrives
  <2>3. ids2 \subseteq DOMAIN clients' /\ (~asked' => ids2 = DOMAIN clients')
    BY <1>2, <1>7, <2>1, <2>2
  <2>4. \A x \in ids2 : (x = to /\ id \in ids) \/ (x \in ids /\ x # id /\ x # to)
    BY <1>4, <2>1, <2>2
  <2>5. \A x \in ids2 : hw2[x] = clients'[x].hwid \/ (asked' /\ hw2[x] = Unknown)
    BY <1>2, <1>7, <2>1, <2>2, <2>4
  <2> QED  BY <2>3, <2>5 DEF Arrives
<1>10. kicks' \subseteq Ids /\ endmap' \in BOOLEAN
  BY <1>1, <1>2 DEF RestOK
<1>11. NewLines(<<line>>, nextId, nextId') /\ nextId' >= nextId
  <2>1. Len(<<line>>) = 1 /\ <<line>>[1] = line
    OBVIOUS
  <2>2. line.id < nextId' /\ line.to < nextId' /\ line.kind \notin Moving /\ nextId' >= nextId
    BY <1>2, <1>3, <1>4, <1>6 DEF Moving
  <2> QED  BY <1>4, <1>6, <2>1, <2>2 DEF NewLines
<1> QED  BY <1>2, <1>6, <1>8, <1>9, <1>10, <1>11, WroteOne

\* The game changes the map.
LEMMA TravelKeeps ==
  ASSUME IInv, NEW how, Travel(how), endmap' \in BOOLEAN
  PROVE  IInv'
<1>1. ClientsOK /\ RestOK
  BY InvariantParts
<1> PICK kind : kind = IF how = "seamless" THEN "Seamless" ELSE "Nonseamless"
  OBVIOUS
<1> PICK line : line = [kind |-> kind, id |-> 1, to |-> 1, ip |-> Unknown, hwid |-> Unknown]
  OBVIOUS
<1>2. /\ clients' = IF how = "seamless" THEN clients ELSE << >>
      /\ Write(<<line>>)
      /\ UNCHANGED <<nextId, players, pending, linked, links, asked, lists, whenEmpty, kicks>>
  BY Zenon DEF Travel, bot
<1>3. nextId \in Nat /\ 1 \in Ids
  <2>1. MaxId \in Nat \ {0}
    BY RosterAssumption
  <2> QED  BY <1>1, <2>1, ClientFacts DEF Ids
<1>4. line \in Line /\ line.kind = kind /\ line.id = 1 /\ line.to = 1 /\ kind \in Moving
  BY <1>3 DEF Line, Moving
<1>5. DOMAIN << >> = {}
  OBVIOUS
<1>6. ClientsOK'
  BY <1>1, <1>2, <1>5 DEF ClientsOK
<1>7. Keeps(line)
  <2> SUFFICES ASSUME NEW ids, NEW hw, NEW ids2, NEW hw2, Arrives(ids, hw), ids \in SUBSET Ids,
                      Turns(ids, hw, line, ids2, hw2)
               PROVE  Arrives(ids2, hw2)'
    BY Zenon DEF Keeps
  <2>1. hw2 = hw /\ ids2 = IF how = "seamless" THEN ids ELSE {}
    BY <1>4 DEF Turns
  <2>2. /\ ids \subseteq DOMAIN clients /\ (~asked => ids = DOMAIN clients)
        /\ \A x \in ids : hw[x] = clients[x].hwid \/ (asked /\ hw[x] = Unknown)
    BY DEF Arrives
  <2>3. ids2 \subseteq DOMAIN clients' /\ (~asked' => ids2 = DOMAIN clients')
    BY <1>2, <1>5, <2>1, <2>2
  <2>4. \A x \in ids2 : hw2[x] = clients'[x].hwid \/ (asked' /\ hw2[x] = Unknown)
    BY <1>2, <2>1, <2>2
  <2> QED  BY <2>3, <2>4 DEF Arrives
<1>8. kicks' \subseteq Ids
  BY <1>1, <1>2 DEF RestOK
<1>9. NewLines(<<line>>, nextId, nextId') /\ nextId' >= nextId
  <2>1. Len(<<line>>) = 1 /\ <<line>>[1] = line
    OBVIOUS
  <2>2. kind # "ChangeID" /\ nextId' >= nextId
    BY <1>2, <1>3, <1>4 DEF Moving
  <2> QED  BY <1>4, <2>1, <2>2 DEF NewLines
<1> QED  BY <1>2, <1>4, <1>6, <1>7, <1>8, <1>9, WroteOne
\* The game sends the list.
LEMMA ListsKeep ==
  ASSUME IInv, GameLists
  PROVE  IInv'
<1>1. ClientsOK /\ RestOK /\ ListOK(players, pending) /\ Fresh /\ Closed /\ Follows
  BY InvariantParts
<1>2. /\ asked /\ asked' = FALSE
      /\ UNCHANGED <<clients, nextId, players, pending, whenEmpty, lists, links, linked, kicks, endmap>>
  BY Zenon DEF GameLists, game, bot
<1>3. linked /\ linked' /\ log \in Seq(Line)
  BY <1>1, <1>2 DEF Closed, RestOK
<1>4. PICK q, rows : /\ q = SetToSeq(DOMAIN clients)
                     /\ rows = [i \in DOMAIN q |-> About("Row", q[i], clients[q[i]].ip, clients[q[i]].hwid)]
                     /\ log' = log \o rows
  BY <1>3 DEF GameLists, Write
<1>5. /\ DOMAIN clients \subseteq Ids /\ IsFiniteSet(DOMAIN clients) /\ nextId \in Nat
      /\ \A id \in DOMAIN clients : id < nextId /\ clients[id].ip \in IPs /\ clients[id].hwid \in HWIDs \cup {Unknown}
  BY <1>1, ClientFacts
<1>6. Len(q) \in Nat /\ q \in [1 .. Len(q) -> DOMAIN clients]
  BY <1>4, <1>5, ListingFacts
<1> PICK n \in Nat : n = Len(q)
  BY <1>6
<1>7. ASSUME NEW k \in 1 .. n
      PROVE  rows[k] \in Line /\ rows[k].kind = "Row" /\ rows[k].id < nextId /\ rows[k].to < nextId
  <2>1. q[k] \in DOMAIN clients
    BY <1>6
  <2> PICK id \in Ids, ip \in IPs, hwid \in HWIDs \cup {Unknown} :
              id = q[k] /\ ip = clients[q[k]].ip /\ hwid = clients[q[k]].hwid
    BY <1>5, <2>1
  <2>2. rows[k] = About("Row", id, ip, hwid)
    BY <1>4, <1>6
  <2>3. rows[k] = [kind |-> "Row", id |-> id, to |-> id, ip |-> ip, hwid |-> hwid]
    BY <2>2 DEF About
  <2>4. [kind |-> "Row", id |-> id, to |-> id, ip |-> ip, hwid |-> hwid] \in Line
    BY DEF Line
  <2> QED  BY <1>5, <2>1, <2>3, <2>4
<1>8. rows \in Seq(Line) /\ Len(rows) = n
  <2>1. rows \in [1 .. n -> Line]
    BY <1>4, <1>6, <1>7
  <2> QED  BY <2>1
<1>9. NewLines(rows, nextId, nextId')
  BY <1>2, <1>7, <1>8 DEF NewLines, Moving
<1>10. Fresh'
  <2>1. nextId' \in Nat /\ nextId' >= nextId /\ players' = players
    BY <1>2, <1>5
  <2>2. log' = IF linked THEN log \o rows ELSE log
    BY <1>3, <1>4
  <2> QED  BY <1>1, <1>3, <1>5, <1>8, <1>9, <2>1, <2>2, FreshWritten
<1>11. (ClientsOK /\ ListOK(players, pending) /\ Closed)'
  BY <1>1, <1>2, <1>3 DEF ClientsOK, ListOK, PendingOK, Alone, Waiting, Closed
<1>12. RestOK'
  <2>1. log' \in Seq(Line)
    BY <1>3, <1>4, <1>8
  <2> QED  BY <1>1, <1>2, <2>1 DEF RestOK
<1>13. Follows'
  BY ListsFollow
<1> QED  BY <1>10, <1>11, <1>12, <1>13, InvariantPartsNext

\* Every step of the game.
LEMMA GameKeeps ==
  ASSUME IInv, Game
  PROVE  IInv'
<1>1. \/ \E ip \in IPs, hwid \in HWIDs \cup {Unknown} : Join(ip, hwid)
      \/ \E id \in DOMAIN clients : \/ \E hwid \in HWIDs : TellHWID(id, hwid)
                                    \/ Mention(id) \/ Leave(id) \/ ChangeId(id)
      \/ \E how \in Travels : Travel(how) /\ UNCHANGED endmap
      \/ \E how \in Travels : Travel(how) /\ endmap' = FALSE
      \/ GameLists
      \/ \E id \in Ids : GameKicks(id)
  BY Zenon DEF Game, GameTravels, GameEndsMap
<1>2. endmap \in BOOLEAN
  BY InvariantParts DEF RestOK
<1>3. ASSUME NEW how \in Travels, Travel(how), endmap' = endmap \/ endmap' = FALSE
      PROVE  IInv'
  BY <1>2, <1>3, TravelKeeps
<1> QED  BY <1>1, <1>3, JoinKeeps, TellKeeps, MentionKeeps, LeaveKeeps, ChangeKeeps, ListsKeep, KickKeeps, Zenon

----------------------------------------------------------------------------
(***************************************************************************)
(* The steps of the bot                                                    *)
(***************************************************************************)

\* Who is kicked for having a double is listed.
LEMMA DuplicatesListed ==
  ASSUME NEW list \in Seq(Player), NEW p
  PROVE  Duplicates(list, p) \subseteq IdsOf(list) /\ IdsOf(list) \subseteq Ids
<1>1. DOMAIN list = 1 .. Len(list) /\ \A i \in DOMAIN list : list[i] \in Player
  OBVIOUS
<1>2. \A i \in DOMAIN list : list[i].id \in Ids
  BY <1>1 DEF Player
<1>3. Duplicates(list, p) \subseteq IdsOf(list)
  BY <1>1 DEF Duplicates, IdsOf
<1> QED  BY <1>2, <1>3 DEF IdsOf

LEMMA HandleLineKeeps ==
  ASSUME IInv, HandleLine
  PROVE  IInv'
<1>1. ClientsOK /\ RestOK /\ ListOK(players, pending) /\ Fresh /\ Closed /\ Follows
  BY InvariantParts
<1>2. log \in Seq(Line) /\ nextId \in Nat
  BY <1>1, ClientFacts DEF RestOK
<1>3. PICK d, h : Course(players, log, d, h)
  BY <1>1 DEF Follows
<1> PICK ids, hw : ids = d[0] /\ hw = h[0]
  OBVIOUS
<1>4. Shows(players, ids, hw) /\ ids \in SUBSET Ids /\ hw \in Knowledge
  <2>1. 0 \in 0 .. Len(log)
    BY <1>2
  <2> QED  BY <1>3, <2>1 DEF Course
<1>5. /\ ListOK(players', pending')
      /\ Shows(players', Effect(ids, log[1]), HwidEffect(ids, hw, log[1]))
      /\ log # <<>> /\ log' = Tail(log)
      /\ UNCHANGED <<clients, nextId, asked, lists, links, linked>>
  BY <1>1, <1>2, <1>4, LineFacts
<1>6. Follows'
  BY <1>1, <1>2, Handled
<1>7. Fresh'
  <2>1. Shows(players', Effect(IdsOf(players), log[1]), HwidEffect(ids, hw, log[1]))
    BY <1>4, <1>5 DEF Shows
  <2>2. PICK hw2 : hw2 = HwidEffect(ids, hw, log[1])
    OBVIOUS
  <2>3. Shows(players', Effect(IdsOf(players), log[1]), hw2)
    BY <2>1, <2>2
  <2> QED  BY <1>1, <1>2, <1>5, <2>3, FreshHandled
<1>8. Closed' /\ ClientsOK'
  BY <1>1, <1>5 DEF Closed, ClientsOK
<1>9. kicks' \subseteq Ids /\ whenEmpty' \in BOOLEAN /\ endmap' \in BOOLEAN
  <2>1. kicks \subseteq Ids /\ whenEmpty \in BOOLEAN /\ endmap \in BOOLEAN /\ linked \in BOOLEAN
    BY <1>1 DEF RestOK
  <2>2. \/ UNCHANGED <<kicks, whenEmpty, endmap>>
        \/ UNCHANGED kicks /\ whenEmpty' = FALSE /\ endmap' = linked
        \/ UNCHANGED <<whenEmpty, endmap>> /\ \E p : kicks' = kicks \cup Duplicates(players', p)
    <3>1. \/ \E kind \in {"Enter", "Row", "Named"} : HandleMention(kind)
          \/ HandleHWID \/ HandleExit \/ HandleChangeID \/ HandleChanging
      BY Zenon DEF HandleLine
    <3>2. ASSUME NEW kind, HandleMention(kind)
          PROVE  UNCHANGED <<kicks, whenEmpty, endmap>>
      BY <3>2 DEF HandleMention
    <3>3. ASSUME HandleHWID
          PROVE  \/ UNCHANGED <<kicks, whenEmpty, endmap>>
                 \/ UNCHANGED <<whenEmpty, endmap>> /\ \E p : kicks' = kicks \cup Duplicates(players', p)
      BY <3>3, Zenon DEF HandleHWID
    <3>4. ASSUME HandleExit
          PROVE  \/ UNCHANGED <<kicks, whenEmpty, endmap>>
                 \/ UNCHANGED kicks /\ whenEmpty' = FALSE /\ endmap' = linked
      BY <3>4, Zenon DEF HandleExit, Gameover
    <3>5. ASSUME HandleChangeID \/ HandleChanging
          PROVE  UNCHANGED <<kicks, whenEmpty, endmap>>
      BY <3>5 DEF HandleChangeID, HandleChanging
    <3> QED  BY <3>1, <3>2, <3>3, <3>4, <3>5, Zenon
  <2>3. \A p : Duplicates(players', p) \subseteq Ids
    <3>1. PICK list \in Seq(Player) : list = players'
      BY <1>5 DEF ListOK
    <3>2. \A p : Duplicates(list, p) \subseteq Ids
      BY DuplicatesListed
    <3> QED  BY <3>1, <3>2
  <2> QED  BY <2>1, <2>2, <2>3
<1>10. RestOK'
  <2>1. log' \in Seq(Line)
    BY <1>2, <1>5
  <2> QED  BY <1>1, <1>5, <1>9, <2>1 DEF RestOK
<1>11. ListOK(players, pending)'
  BY <1>5 DEF ListOK, PendingOK, Alone, Waiting
<1> QED  BY <1>6, <1>7, <1>8, <1>10, <1>11, InvariantPartsNext
\* A step of the bot that neither lists anybody nor learns a hardware id.
LEMMA Quiet ==
  ASSUME IInv, UNCHANGED <<clients, nextId, log, asked, linked>>,
         DOMAIN players' = DOMAIN players,
         \A i \in DOMAIN players : players'[i].id = players[i].id /\ players'[i].hwid = players[i].hwid
  PROVE  ClientsOK' /\ Fresh' /\ Follows'
<1>1. ClientsOK /\ Fresh /\ Follows
  BY InvariantParts
<1>2. IdsOf(players') = IdsOf(players)
  BY DEF IdsOf
<1>3. ClientsOK' /\ Fresh'
  <2>1. IdsOf(players)' = IdsOf(players)
    BY <1>2 DEF IdsOf
  <2> QED  BY <1>1, <2>1 DEF ClientsOK, Fresh
<1>4. PICK d, h : Course(players, log, d, h) /\ (linked => Arrives(d[Len(log)], h[Len(log)]))
  BY <1>1 DEF Follows
<1>5. Shows(players, d[0], h[0])'
  BY <1>2, <1>4 DEF Course, Shows
<1>6. (Course(players, log, d, h) /\ (linked => Arrives(d[Len(log)], h[Len(log)])))'
  BY <1>4, <1>5 DEF Course, Arrives
<1>7. Follows'
  BY <1>6, Zenon DEF Follows
<1> QED  BY <1>3, <1>7

\* A look-up ends.
LEMMA LookupKeeps ==
  ASSUME IInv, NEW i \in DOMAIN players, NEW outcome \in {"found", "failed"}, LookupEnds(i, outcome)
  PROVE  IInv'
<1>1. ClientsOK /\ RestOK /\ ListOK(players, pending) /\ Closed
  BY InvariantParts
<1>2. /\ players' = [players EXCEPT ![i].lookup = outcome]
      /\ UNCHANGED <<clients, nextId, pending, whenEmpty, log, asked, lists, links, linked, kicks, endmap>>
  BY Zenon DEF LookupEnds, game, wire
<1>3. players \in Seq(Player) /\ pending \in Nat
  BY <1>1 DEF ListOK
<1> DEFINE p == [players[i] EXCEPT !.lookup = outcome]
<1>4. /\ p \in Player /\ p.id = players[i].id /\ p.hwid = players[i].hwid
      /\ p.waiting = players[i].waiting /\ p.ip = players[i].ip
  <2>1. players[i] \in Player
    BY <1>3
  <2> QED  BY <2>1 DEF Player, Lookups
<1>5. /\ players' \in Seq(Player) /\ DOMAIN players' = DOMAIN players
      /\ \A j \in DOMAIN players : players'[j] = IF j = i THEN p ELSE players[j]
  BY <1>2, <1>3, <1>4
<1> HIDE DEF p
<1>6. Recounted(players[i], p, pending, pending)
  <2>1. "odd" \notin IPs /\ players[i].waiting => players[i].ip = "v4"
    BY <1>1 DEF ListOK, PendingOK
  <2> QED  BY <1>3, <1>4, <2>1 DEF Recounted
<1>7. ListOK(players', pending)
  BY <1>1, <1>4, <1>5, <1>6, ChangeFacts
<1>8. ListOK(players, pending)'
  BY <1>2, <1>7 DEF ListOK, PendingOK, Alone, Waiting
<1>9. \A j \in DOMAIN players : players'[j].id = players[j].id /\ players'[j].hwid = players[j].hwid
  BY <1>4, <1>5
<1>10. ClientsOK' /\ Fresh' /\ Follows'
  BY <1>2, <1>5, <1>9, Quiet
<1>11. RestOK' /\ Closed'
  <2>1. linked
    <3>1. DOMAIN <<>> = {}
      OBVIOUS
    <3> QED  BY <1>1, <3>1 DEF Closed
  <2> QED  BY <1>1, <1>2, <2>1 DEF RestOK, Closed
<1> QED  BY <1>8, <1>10, <1>11, InvariantPartsNext

\* Players that waited, and all of whom are counted, no longer do.
LEMMA ReleaseFacts ==
  ASSUME NEW list, NEW n, ListOK(list, n), NEW done \in SUBSET Waiting(list),
         NEW r \in Seq(Player), DOMAIN r = DOMAIN list,
         \A i \in DOMAIN list : /\ r[i].id = list[i].id /\ r[i].ip = list[i].ip
                                 /\ r[i].waiting = (list[i].waiting /\ i \notin done)
  PROVE  ListOK(r, n - Cardinality(done))
<1>1. list \in Seq(Player) /\ n \in Nat /\ Alone(list) /\ PendingOK(list, n)
  BY DEF ListOK
<1>2. Alone(r)
  BY <1>1 DEF Alone
<1>3. Waiting(r) = Waiting(list) \ done
  BY DEF Waiting
<1>4. IsFiniteSet(Waiting(list)) /\ Cardinality(Waiting(list)) \in Nat
  BY <1>1, WaitingFinite
<1>5. IsFiniteSet(done) /\ Cardinality(done) \in Nat /\ IsFiniteSet(Waiting(r)) /\ Cardinality(Waiting(r)) \in Nat
  <2>1. IsFiniteSet(done) /\ IsFiniteSet(Waiting(r))
    BY <1>3, <1>4, FS_Subset
  <2> QED  BY <2>1, FS_CardinalityType
<1>6. Cardinality(Waiting(list)) = Cardinality(Waiting(r)) + Cardinality(done)
  <2>1. Waiting(list) = Waiting(r) \cup done /\ Waiting(r) \cap done = {}
    BY <1>3
  <2>2. Cardinality(Waiting(r) \cup done) = Cardinality(Waiting(r)) + Cardinality(done) - Cardinality(Waiting(r) \cap done)
    BY <1>5, FS_Union
  <2>3. Cardinality(Waiting(r) \cap done) = 0
    BY <2>1, FS_EmptySet
  <2> QED  BY <1>5, <2>1, <2>2, <2>3
<1>7. n - Cardinality(done) \in Nat /\ PendingOK(r, n - Cardinality(done))
  <2>1. IF "odd" \in IPs THEN n >= Cardinality(Waiting(list)) ELSE n = Cardinality(Waiting(list))
    BY <1>1 DEF PendingOK
  <2>2. "odd" \notin IPs => \A i \in DOMAIN r : r[i].waiting => r[i].ip = "v4"
    BY <1>1 DEF PendingOK
  <2>3. n - Cardinality(done) \in Nat /\ (IF "odd" \in IPs THEN n - Cardinality(done) >= Cardinality(Waiting(r)) ELSE n - Cardinality(done) = Cardinality(Waiting(r)))
    BY <1>1, <1>4, <1>5, <1>6, <2>1
  <2> QED  BY <2>2, <2>3 DEF PendingOK
<1> QED  BY <1>2, <1>7 DEF ListOK

\* The look-ups that found a name are announced.
LEMMA CycleKeeps ==
  ASSUME IInv, CycleRDNS
  PROVE  IInv'
<1>1. ClientsOK /\ RestOK /\ ListOK(players, pending) /\ Closed
  BY InvariantParts
<1>2. players \in Seq(Player) /\ pending \in Nat
  BY <1>1 DEF ListOK
<1>3. PICK resolved, done :
         /\ resolved = {i \in DOMAIN players : players[i].waiting /\ players[i].lookup = "found"}
         /\ done = {i \in resolved : Cardinality({j \in resolved : j < i}) < pending}
         /\ linked
         /\ players' = [i \in DOMAIN players |-> IF i \in done THEN [players[i] EXCEPT !.waiting = FALSE]
                                                               ELSE players[i]]
         /\ pending' = pending - Cardinality(done)
         /\ kicks' = kicks \cup UNION {Duplicates(players, players[i]) :
                                         i \in {j \in done : players[j].hwid # Unknown}}
         /\ UNCHANGED <<clients, nextId, whenEmpty, log, asked, lists, links, linked, endmap>>
  BY Zenon DEF CycleRDNS, game
<1>4. done \in SUBSET Waiting(players) /\ done \subseteq DOMAIN players
  BY <1>3 DEF Waiting
<1>5. ASSUME NEW i \in DOMAIN players
      PROVE  /\ players'[i] \in Player
             /\ players'[i].id = players[i].id /\ players'[i].hwid = players[i].hwid /\ players'[i].ip = players[i].ip
             /\ players'[i].waiting = (players[i].waiting /\ i \notin done)
  <2>1. players[i] \in Player
    BY <1>2
  <2>2. players'[i] = IF i \in done THEN [players[i] EXCEPT !.waiting = FALSE] ELSE players[i]
    BY <1>3
  <2>3. CASE i \in done
    BY <2>1, <2>2, <2>3 DEF Player
  <2>4. CASE i \notin done
    BY <2>1, <2>2, <2>4 DEF Player
  <2> QED  BY <2>3, <2>4
<1>6. DOMAIN players' = DOMAIN players
  BY <1>3
<1>7. players' \in Seq(Player)
  <2>1. DOMAIN players = 1 .. Len(players) /\ Len(players) \in Nat
    BY <1>2
  <2>2. players' \in [1 .. Len(players) -> Player]
    BY <1>3, <1>5, <2>1
  <2> QED  BY <2>1, <2>2
<1>8. ListOK(players', pending - Cardinality(done))
  BY <1>1, <1>4, <1>5, <1>6, <1>7, ReleaseFacts
<1>9. ListOK(players, pending)'
  BY <1>3, <1>8 DEF ListOK, PendingOK, Alone, Waiting
<1>10. ClientsOK' /\ Fresh' /\ Follows'
  BY <1>3, <1>5, <1>6, Quiet
<1>11. kicks' \subseteq Ids
  <2>1. \A i \in DOMAIN players : Duplicates(players, players[i]) \subseteq Ids
    BY <1>2, DuplicatesListed
  <2>2. kicks \subseteq Ids
    BY <1>1 DEF RestOK
  <2> DEFINE known == {j \in done : players[j].hwid # Unknown}
             doubles == {Duplicates(players, players[i]) : i \in known}
  <2>3. kicks' = kicks \cup UNION doubles
    BY <1>3, Zenon
  <2>4. \A D \in doubles : D \subseteq Ids
    BY <1>4, <2>1
  <2> HIDE DEF doubles
  <2> QED  BY <2>2, <2>3, <2>4
<1>12. RestOK' /\ Closed'
  BY <1>1, <1>3, <1>11 DEF RestOK, Closed
<1> QED  BY <1>9, <1>10, <1>12, InvariantPartsNext
\* A list is asked for, the bot connects, the bot is disconnected, and the game
\* is to be ended when nobody is left.
LEMMA AskKeeps ==
  ASSUME IInv, AskForList
  PROVE  IInv'
<1>1. ClientsOK /\ RestOK /\ ListOK(players, pending) /\ Fresh /\ Closed /\ Follows
  BY InvariantParts
<1>2. /\ linked /\ ~asked /\ lists < MaxLists /\ asked' = TRUE /\ lists' = lists + 1
      /\ UNCHANGED <<clients, nextId, players, pending, whenEmpty, log, links, linked, kicks, endmap>>
  BY Zenon DEF AskForList, game, bot
<1>3. (ClientsOK /\ ListOK(players, pending) /\ Fresh /\ Closed)'
  BY <1>1, <1>2 DEF ClientsOK, ListOK, PendingOK, Alone, Waiting, Fresh, IdsOf, Closed
<1>4. RestOK'
  <2>1. lists' \in 0 .. MaxLists
    BY <1>1, <1>2, RosterAssumption DEF RestOK
  <2> QED  BY <1>1, <1>2, <2>1 DEF RestOK
<1>5. PICK d, h : Course(players, log, d, h) /\ (linked => Arrives(d[Len(log)], h[Len(log)]))
  BY <1>1 DEF Follows
<1>6. (Course(players, log, d, h) /\ (linked => Arrives(d[Len(log)], h[Len(log)])))'
  BY <1>2, <1>5 DEF Course, Shows, IdsOf, Arrives
<1>7. Follows'
  BY <1>6, Zenon DEF Follows
<1> QED  BY <1>3, <1>4, <1>7, InvariantPartsNext

LEMMA ConnectedKeeps ==
  ASSUME IInv, Connected
  PROVE  IInv'
<1>1. ClientsOK /\ RestOK /\ ListOK(players, pending) /\ Fresh /\ Closed /\ Follows
  BY InvariantParts
<1>2. /\ ~linked /\ linked' = TRUE /\ links' = links + 1 /\ asked' = TRUE /\ lists' = 0
      /\ UNCHANGED <<clients, nextId, players, pending, whenEmpty, log, kicks, endmap>>
  BY Zenon DEF Connected, game, bot
<1>3. log = <<>> /\ players = <<>> /\ links < MaxLinks
  BY <1>1, <1>2 DEF Closed
<1>4. (ClientsOK /\ ListOK(players, pending) /\ Fresh /\ Closed)'
  BY <1>1, <1>2 DEF ClientsOK, ListOK, PendingOK, Alone, Waiting, Fresh, IdsOf, Closed
<1>5. RestOK'
  <2>1. links' \in 0 .. MaxLinks /\ lists' \in 0 .. MaxLists
    BY <1>1, <1>2, <1>3, RosterAssumption DEF RestOK
  <2> QED  BY <1>1, <1>2, <2>1 DEF RestOK
<1>6. PICK d, h : Course(players, log, d, h)
  BY <1>1 DEF Follows
<1>7. Len(log) = 0 /\ d[0] = {}
  <2>1. IdsOf(players) = {}
    BY <1>3, EmptyFacts
  <2> QED  BY <1>3, <1>6, <2>1 DEF Course, Shows
<1>8. (Course(players, log, d, h) /\ (linked => Arrives(d[Len(log)], h[Len(log)])))'
  BY <1>2, <1>6, <1>7 DEF Course, Shows, IdsOf, Arrives
<1>9. Follows'
  BY <1>8, Zenon DEF Follows
<1> QED  BY <1>4, <1>5, <1>9, InvariantPartsNext

\* Nothing is listed, and no line is unread.
LEMMA NothingRead ==
  ASSUME players = <<>>, log = <<>>, ~linked
  PROVE  Fresh /\ Follows
<1>1. Len(log) = 0 /\ IdsOf(players) = {} /\ DOMAIN players = {}
  BY EmptyFacts
<1>2. Fresh
  BY <1>1 DEF Fresh
<1> DEFINE d == [k \in {0} |-> {}]
           h == [k \in {0} |-> [id \in Ids |-> Unknown]]
<1>3. d[0] = {} /\ h[0] \in Knowledge
  BY DEF Knowledge
<1> HIDE DEF d, h
<1>4. Course(players, log, d, h)
  BY <1>1, <1>3 DEF Course, Shows
<1> QED  BY <1>2, <1>4, Zenon DEF Follows

LEMMA NothingReadNext == (players = <<>> /\ log = <<>> /\ ~linked => Fresh /\ Follows)'
<1>1. players = <<>> /\ log = <<>> /\ ~linked => Fresh /\ Follows
  BY NothingRead
<1> QED  BY <1>1, PTL

LEMMA DisconnectedKeeps ==
  ASSUME IInv, Disconnected
  PROVE  IInv'
<1>1. ClientsOK /\ RestOK
  BY InvariantParts
<1>2. /\ linked /\ links < MaxLinks /\ linked' = FALSE /\ asked' = FALSE
      /\ log' = <<>> /\ kicks' = {} /\ endmap' = FALSE /\ players' = <<>> /\ pending' = 0
      /\ UNCHANGED <<clients, nextId, whenEmpty, lists, links>>
  BY Zenon DEF Disconnected, WipePlayers, game
<1>3. ClientsOK' /\ Closed'
  BY <1>1, <1>2 DEF ClientsOK, Closed
<1>4. RestOK'
  <2>1. <<>> \in Seq(Line)
    OBVIOUS
  <2> QED  BY <1>1, <1>2, <2>1 DEF RestOK
<1>5. (players = <<>> /\ log = <<>> /\ ~linked)'
  BY <1>2
<1>6. Fresh' /\ Follows'
  BY <1>5, NothingReadNext
<1>7. ListOK(players, pending)'
  BY <1>2, EmptyFacts DEF ListOK, PendingOK, Alone, Waiting
<1> QED  BY <1>3, <1>4, <1>6, <1>7, InvariantPartsNext

LEMMA GameoverKeeps ==
  ASSUME IInv, GameoverWhenEmpty
  PROVE  IInv'
<1>1. ClientsOK /\ RestOK /\ ListOK(players, pending) /\ Fresh /\ Closed /\ Follows
  BY InvariantParts
<1>2. UNCHANGED <<clients, nextId, players, pending, log, asked, lists, links, linked, kicks>>
  BY Zenon DEF GameoverWhenEmpty, game
<1>3. whenEmpty' \in BOOLEAN /\ endmap' \in BOOLEAN
  <2>1. (whenEmpty' = FALSE /\ endmap' = linked) \/ (whenEmpty' = TRUE /\ endmap' = endmap)
    BY Zenon DEF GameoverWhenEmpty, Gameover
  <2>2. linked \in BOOLEAN /\ endmap \in BOOLEAN
    BY <1>1 DEF RestOK
  <2> QED  BY <2>1, <2>2
<1>4. (ClientsOK /\ ListOK(players, pending) /\ Fresh /\ Closed)'
  BY <1>1, <1>2 DEF ClientsOK, ListOK, PendingOK, Alone, Waiting, Fresh, IdsOf, Closed
<1>5. RestOK'
  BY <1>1, <1>2, <1>3 DEF RestOK
<1>6. Follows'
  <2>1. PICK d, h : Course(players, log, d, h) /\ (linked => Arrives(d[Len(log)], h[Len(log)]))
    BY <1>1 DEF Follows
  <2>2. (Course(players, log, d, h) /\ (linked => Arrives(d[Len(log)], h[Len(log)])))'
    BY <1>2, <2>1 DEF Course, Shows, IdsOf, Arrives
  <2> QED  BY <2>2, Zenon DEF Follows
<1> QED  BY <1>4, <1>5, <1>6, InvariantPartsNext

----------------------------------------------------------------------------
(***************************************************************************)
(* The invariant                                                           *)
(***************************************************************************)

LEMMA InitKeeps == Init => IInv
<1> SUFFICES ASSUME Init PROVE IInv
  OBVIOUS
<1>1. /\ clients = << >> /\ nextId = 1 /\ log = <<>> /\ asked = FALSE /\ lists = 0 /\ links = 0
      /\ linked = FALSE /\ players = <<>> /\ pending = 0 /\ whenEmpty = FALSE /\ kicks = {} /\ endmap = FALSE
  BY DEF Init
<1>2. DOMAIN << >> = {} /\ <<>> \in Seq(Line)
  OBVIOUS
<1>3. ClientsOK
  <2>1. MaxId \in Nat
    BY RosterAssumption
  <2> QED  BY <1>1, <1>2, <2>1 DEF ClientsOK
<1>4. MaxLinks \in Nat \ {0} /\ MaxLists \in Nat
  BY RosterAssumption
<1>5. RestOK /\ Closed
  <2>1. log \in Seq(Line) /\ kicks \subseteq Ids
    BY <1>1, <1>2
  <2>2. lists \in 0 .. MaxLists /\ links \in 0 .. MaxLinks /\ links < MaxLinks
    BY <1>1, <1>4
  <2> QED  BY <1>1, <2>1, <2>2 DEF RestOK, Closed
<1>6. Fresh /\ Follows
  BY <1>1, NothingRead
<1>7. ListOK(players, pending)
  BY <1>1, EmptyFacts
<1> QED  BY <1>3, <1>5, <1>6, <1>7, InvariantParts

LEMMA StutterKeeps ==
  ASSUME IInv, UNCHANGED vars
  PROVE  IInv'
<1>1. ClientsOK /\ RestOK /\ ListOK(players, pending) /\ Fresh /\ Closed /\ Follows
  BY InvariantParts
<1>2. UNCHANGED <<clients, nextId, players, pending, whenEmpty, log, asked, lists, links, linked, kicks, endmap>>
  BY Zenon DEF vars, game, bot, wire
<1>3. (ClientsOK /\ RestOK /\ ListOK(players, pending) /\ Fresh /\ Closed)'
  BY <1>1, <1>2 DEF ClientsOK, RestOK, ListOK, PendingOK, Alone, Waiting, Fresh, IdsOf, Closed
<1>4. Follows'
  <2>1. PICK d, h : Course(players, log, d, h) /\ (linked => Arrives(d[Len(log)], h[Len(log)]))
    BY <1>1 DEF Follows
  <2>2. (Course(players, log, d, h) /\ (linked => Arrives(d[Len(log)], h[Len(log)])))'
    BY <1>2, <2>1 DEF Course, Shows, IdsOf, Arrives
  <2> QED  BY <2>2, Zenon DEF Follows
<1> QED  BY <1>3, <1>4, InvariantPartsNext

LEMMA NextKeeps ==
  ASSUME IInv, [Next]_vars
  PROVE  IInv'
<1>1. \/ Game \/ HandleLine \/ CycleRDNS \/ AskForList \/ Disconnected \/ Connected
      \/ GameoverWhenEmpty \/ UNCHANGED vars
      \/ \E i \in DOMAIN players, outcome \in {"found", "failed"} : LookupEnds(i, outcome)
  BY Zenon DEF Next, Bot
<1> QED  BY <1>1, GameKeeps, HandleLineKeeps, CycleKeeps, AskKeeps, DisconnectedKeeps, ConnectedKeeps,
            GameoverKeeps, StutterKeeps, LookupKeeps, Zenon

\* The invariant holds throughout.
THEOREM ListFollowsTheGame == Spec => []IInv
<1>1. IInv /\ [Next]_vars => IInv'
  BY NextKeeps
<1> QED  BY InitKeeps, <1>1, PTL DEF Spec
----------------------------------------------------------------------------
(***************************************************************************)
(* What follows from it                                                    *)
(***************************************************************************)

\* The list is a map from ids to players, its count of awaited look-ups never
\* runs out early, and is exact if every address can be read: what getPlayer,
\* removePlayer and cycle_player_rdns take for granted.
THEOREM ListIsSound == Spec => []ListSound
<1>1. IInv => ListSound
  <2> SUFFICES ASSUME IInv PROVE ListSound
    OBVIOUS
  <2>1. TypeOK /\ Alone(players) /\ PendingOK(players, pending)
    BY DEF IInv, ListOK
  <2>2. NoTwins
    BY <2>1 DEF Alone, NoTwins
  <2>3. PendingCounted
    BY <2>1, Zenon DEF PendingOK, Waiting, PendingCounted
  <2> QED  BY <2>1, <2>2, <2>3 DEF ListSound
<1> QED  BY <1>1, ListFollowsTheGame, PTL

\* Reading the lines from the ids that are listed leads to the clients.
LEMMA FoldFacts ==
  ASSUME NEW list, NEW q \in Seq(Line), NEW d, NEW h, Course(list, q, d, h)
  PROVE  FoldLeft(Effect, IdsOf(list), q) = d[Len(q)]
<1>1. DOMAIN q = 1 .. Len(q) /\ Len(q) \in Nat
  OBVIOUS
<1>2. \A k \in 1 .. Len(q) : d[k] = Effect(d[k - 1], q[k])
  BY DEF Course
<1>3. d[0] = IdsOf(list)
  BY DEF Course, Shows
<1>4. FoldLeft(Effect, d[0], q) = d[Len(q)]
  BY <1>1, <1>2, FoldIsLast
<1> QED  BY <1>3, <1>4

LEMMA ReadingFacts ==
  ASSUME IInv, linked, ~asked
  PROVE  FoldLeft(Effect, IdsOf(players), log) = DOMAIN clients
<1>1. log \in Seq(Line) /\ Follows
  BY InvariantParts DEF RestOK
<1>2. PICK d, h : Course(players, log, d, h) /\ Arrives(d[Len(log)], h[Len(log)])
  BY <1>1 DEF Follows
<1>3. FoldLeft(Effect, IdsOf(players), log) = d[Len(log)]
  BY <1>1, <1>2, FoldFacts
<1> QED  BY <1>2, <1>3 DEF Arrives

\* Once the list was received, the ids listed and the lines that were not read
\* make up the clients that are present.
THEOREM ListIsKept == Spec => []ListIsTheGames
<1>1. IInv => ListIsTheGames
  BY ReadingFacts, Zenon DEF ListIsTheGames, Listed, IdsOf
<1> QED  BY <1>1, ListFollowsTheGame, PTL

\* When every line was read, the list has the clients with their hardware ids.
LEMMA QuietFacts ==
  ASSUME IInv, linked, ~asked, log = <<>>
  PROVE  /\ IdsOf(players) = DOMAIN clients
         /\ \A i \in DOMAIN players : players[i].hwid = clients[players[i].id].hwid
<1>1. PICK d, h : Course(players, log, d, h) /\ Arrives(d[Len(log)], h[Len(log)])
  BY InvariantParts DEF Follows
<1>2. Len(log) = 0
  OBVIOUS
<1>3. /\ IdsOf(players) = d[0] /\ d[0] = DOMAIN clients
      /\ \A i \in DOMAIN players : h[0][players[i].id] = players[i].hwid
      /\ \A id \in d[0] : h[0][id] = clients[id].hwid
  BY <1>1, <1>2 DEF Course, Shows, Arrives
<1>4. \A i \in DOMAIN players : players[i].id \in IdsOf(players)
  BY DEF IdsOf
<1> QED  BY <1>3, <1>4

\* No hardware id that the game told is forgotten or given to somebody else.
THEOREM HardwareIsKept == Spec => []HardwareKnown
<1>1. IInv => HardwareKnown
  BY QuietFacts DEF HardwareKnown
<1> QED  BY <1>1, ListFollowsTheGame, PTL

\* Only these steps send endmap, and they find the list empty.
LEMMA EndsFrom ==
  ASSUME IInv, [Next]_vars, endmap', ~endmap
  PROVE  players' = <<>> /\ linked' /\ UNCHANGED <<clients, asked>>
<1>1. endmap \in BOOLEAN /\ linked \in BOOLEAN
  BY InvariantParts DEF RestOK
<1>2. \/ HandleExit \/ GameoverWhenEmpty \/ UNCHANGED endmap \/ endmap' = FALSE
  <2>1. ASSUME Game
        PROVE  UNCHANGED endmap \/ endmap' = FALSE
    <3>1. \/ \E ip \in IPs, hwid \in HWIDs \cup {Unknown} : Join(ip, hwid)
          \/ \E id \in DOMAIN clients : \/ \E hwid \in HWIDs : TellHWID(id, hwid)
                                        \/ Mention(id) \/ Leave(id) \/ ChangeId(id)
          \/ GameTravels \/ GameEndsMap \/ GameLists
          \/ \E id \in Ids : GameKicks(id)
      BY <2>1, Zenon DEF Game
    <3> QED  BY <3>1, Zenon DEF Join, TellHWID, Mention, Leave, ChangeId, GameTravels, GameEndsMap, GameLists, GameKicks
  <2>2. ASSUME HandleLine
        PROVE  HandleExit \/ UNCHANGED endmap
    <3>1. \/ \E kind \in {"Enter", "Row", "Named"} : HandleMention(kind)
          \/ HandleHWID \/ HandleExit \/ HandleChangeID \/ HandleChanging
      BY <2>2, Zenon DEF HandleLine
    <3> QED  BY <3>1, Zenon DEF HandleMention, HandleHWID, HandleChangeID, HandleChanging
  <2>3. ASSUME CycleRDNS \/ AskForList \/ Disconnected \/ Connected
        PROVE  UNCHANGED endmap \/ endmap' = FALSE
    BY <2>3, Zenon DEF CycleRDNS, AskForList, Disconnected, Connected
  <2>4. ASSUME NEW i, NEW outcome, LookupEnds(i, outcome)
        PROVE  UNCHANGED endmap
    BY <2>4, Zenon DEF LookupEnds, wire
  <2>5. ASSUME UNCHANGED vars
        PROVE  UNCHANGED endmap
    BY <2>5, Zenon DEF vars, wire
  <2> QED  BY <2>1, <2>2, <2>3, <2>4, <2>5, Zenon DEF Next, Bot
<1>3. ASSUME HandleExit
      PROVE  players' = <<>> /\ linked' /\ UNCHANGED <<clients, asked>>
  BY <1>1, <1>3, Zenon DEF HandleExit, Gameover, game
<1>4. ASSUME GameoverWhenEmpty
      PROVE  players' = <<>> /\ linked' /\ UNCHANGED <<clients, asked>>
  BY <1>1, <1>4, Zenon DEF GameoverWhenEmpty, Gameover, game
<1> QED  BY <1>1, <1>2, <1>3, <1>4

\* The game is ended for want of players only when the lines that were handled
\* left nobody: the players there are now, if any, all came with lines that
\* were not read yet.
THEOREM EndsOnlyWhenEmpty == Spec => EndsOnlyEmpty
<1>1. IInv /\ IInv' /\ [Next]_vars => [endmap' /\ ~endmap /\ ~asked => FoldLeft(Effect, {}, log') = DOMAIN clients]_vars
  <2> SUFFICES ASSUME IInv, IInv', [Next]_vars, endmap', ~endmap, ~asked
               PROVE  FoldLeft(Effect, {}, log') = DOMAIN clients
    OBVIOUS
  <2>1. players' = <<>> /\ linked' /\ UNCHANGED <<clients, asked>>
    BY EndsFrom
  <2>2. log' \in Seq(Line) /\ Follows'
    BY DEF IInv, TypeOK
  <2>3. PICK d, h : (Course(players, log, d, h) /\ (linked => Arrives(d[Len(log)], h[Len(log)])))'
    BY <2>2, Zenon DEF Follows
  <2>4. Course(players', log', d, h) /\ DOMAIN clients = d[Len(log')]
    BY <2>1, <2>3 DEF Arrives, Course, Shows, IdsOf
  <2>5. FoldLeft(Effect, IdsOf(players'), log') = d[Len(log')]
    BY <2>2, <2>4, FoldFacts
  <2>6. IdsOf(players') = {}
    BY <2>1, EmptyFacts
  <2> QED  BY <2>4, <2>5, <2>6
<1> QED  BY <1>1, ListFollowsTheGame, PTL DEF Spec, EndsOnlyEmpty
\* Those who share the hardware id of one of them.
Sharing(C, f, id) == {c \in C : f[c].hwid = f[id].hwid}

\* Who has too many doubles has two of them at least.
LEMMA DoubleFacts ==
  ASSUME NEW list \in Seq(Player), Alone(list), NEW k \in DOMAIN list, NEW p,
         list[k].id = p.id, list[k].hwid = p.hwid, NEW id \in Duplicates(list, p),
         NEW f, \A i \in DOMAIN list : f[list[i].id].hwid = list[i].hwid,
         NEW C, C = IdsOf(list), IsFiniteSet(C)
  PROVE  id \in C /\ Cardinality(Sharing(C, f, id)) > 2
<1> DEFINE same(n) == {i \in 1 .. n : list[i].hwid = p.hwid /\ list[i].id # p.id}
<1>1. DOMAIN list = 1 .. Len(list) /\ Len(list) \in Nat
  OBVIOUS
<1>2. PICK i \in same(Len(list)) : id = list[i].id /\ Cardinality(same(i)) > Tolerance
  BY DEF Duplicates
<1>3. i \in DOMAIN list /\ list[i].hwid = p.hwid /\ list[i].id # p.id /\ i \in same(i)
  BY <1>1, <1>2
<1>4. PICK j \in same(i) : j # i
  <2>1. Cardinality({i}) = 1
    BY FS_Singleton
  <2>2. same(i) # {i}
    <3> SUFFICES ASSUME same(i) = {i} PROVE FALSE
      OBVIOUS
    <3> PICK n : n = Cardinality(same(i))
      OBVIOUS
    <3>1. n > 1
      BY <1>2 DEF Tolerance
    <3> HIDE DEF same
    <3>2. n = 1
      BY <2>1
    <3> QED  BY <3>1, <3>2
  <2> HIDE DEF same
  <2> QED  BY <1>3, <2>2
<1>5. j \in DOMAIN list /\ list[j].hwid = p.hwid /\ list[j].id # p.id
  BY <1>1, <1>3, <1>4
<1>6. list[j].id # list[i].id
  BY <1>3, <1>4, <1>5 DEF Alone
<1> HIDE DEF same
<1> DEFINE x == list[i].id
           y == list[j].id
           z == list[k].id
           G == Sharing(C, f, id)
<1>7. x \in C /\ y \in C /\ z \in C /\ x # y /\ x # z /\ y # z
  BY <1>3, <1>5, <1>6 DEF IdsOf
<1>8. x \in G /\ y \in G /\ z \in G
  BY <1>2, <1>3, <1>5, <1>7 DEF Sharing
<1>9. IsFiniteSet(G)
  <2>1. G \in SUBSET C
    BY DEF Sharing
  <2> QED  BY <2>1, FS_Subset
<1> HIDE DEF x, y, z, G
<1>10. IsFiniteSet({x, y, z}) /\ Cardinality({x, y, z}) = 3
  <2>1. IsFiniteSet({x}) /\ Cardinality({x}) = 1
    BY FS_Singleton
  <2>2. IsFiniteSet({x} \cup {y}) /\ Cardinality({x} \cup {y}) = 2
    <3>1. PICK S : S = {x}
      OBVIOUS
    <3>2. y \notin S /\ IsFiniteSet(S) /\ Cardinality(S) = 1
      BY <1>7, <2>1, <3>1
    <3>3. IsFiniteSet(S \cup {y}) /\ Cardinality(S \cup {y}) = Cardinality(S) + 1
      BY <3>2, FS_AddElement
    <3>4. IsFiniteSet(S \cup {y}) /\ Cardinality(S \cup {y}) = 2
      BY <3>2, <3>3
    <3> QED  BY <3>1, <3>4, Zenon
  <2>3. PICK S : S = {x} \cup {y}
    OBVIOUS
  <2>4. z \notin S /\ IsFiniteSet(S) /\ Cardinality(S) = 2
    BY <1>7, <2>2, <2>3
  <2>5. IsFiniteSet(S \cup {z}) /\ Cardinality(S \cup {z}) = Cardinality(S) + 1
    BY <2>4, FS_AddElement
  <2>6. IsFiniteSet(S \cup {z}) /\ Cardinality(S \cup {z}) = 3
    BY <2>4, <2>5
  <2>7. S \cup {z} = {x, y, z}
    BY <2>3
  <2> QED  BY <2>6, <2>7, Zenon
<1>11. Cardinality({x, y, z}) <= Cardinality(G) /\ Cardinality(G) \in Nat
  BY <1>8, <1>9, FS_Subset, FS_CardinalityType
<1>12. Cardinality(G) > 2
  BY <1>10, <1>11
<1> QED  BY <1>2, <1>7, <1>12 DEF x, G

\* Only an identified player, or a look-up that is announced, has somebody kicked.
LEMMA KicksFrom ==
  ASSUME [Next]_vars
  PROVE  HandleHWID \/ CycleRDNS \/ kicks' \subseteq kicks
<1>1. ASSUME Game
      PROVE  kicks' \subseteq kicks
  <2>1. \/ \E ip \in IPs, hwid \in HWIDs \cup {Unknown} : Join(ip, hwid)
        \/ \E id \in DOMAIN clients : \/ \E hwid \in HWIDs : TellHWID(id, hwid)
                                      \/ Mention(id) \/ Leave(id) \/ ChangeId(id)
        \/ \E how \in Travels : Travel(how)
        \/ GameLists
        \/ \E id \in Ids : GameKicks(id)
    BY <1>1, Zenon DEF Game, GameTravels, GameEndsMap
  <2>2. ASSUME NEW id, GameKicks(id)
        PROVE  kicks' \subseteq kicks
    BY <2>2 DEF GameKicks
  <2>3. ASSUME NEW how, Travel(how)
        PROVE  kicks' = kicks
    BY <2>3, Zenon DEF Travel
  <2>4. ASSUME kicks' = kicks
        PROVE  kicks' \subseteq kicks
    BY <2>4
  <2> QED  BY <2>1, <2>2, <2>3, <2>4, Zenon DEF Join, TellHWID, Mention, Leave, ChangeId, GameLists
<1>2. ASSUME HandleLine
      PROVE  HandleHWID \/ kicks' = kicks
  <2>1. \/ \E kind \in {"Enter", "Row", "Named"} : HandleMention(kind)
        \/ HandleHWID \/ HandleExit \/ HandleChangeID \/ HandleChanging
    BY <1>2, Zenon DEF HandleLine
  <2> QED  BY <2>1, Zenon DEF HandleMention, HandleExit, HandleChangeID, HandleChanging
<1>3. ASSUME AskForList \/ Connected \/ GameoverWhenEmpty
      PROVE  kicks' = kicks
  BY <1>3, Zenon DEF AskForList, Connected, GameoverWhenEmpty
<1>4. ASSUME NEW i, NEW outcome, LookupEnds(i, outcome)
      PROVE  kicks' = kicks
  BY <1>4, Zenon DEF LookupEnds, wire
<1>5. ASSUME UNCHANGED vars
      PROVE  kicks' = kicks
  BY <1>5, Zenon DEF vars, wire
<1>6. ASSUME Disconnected
      PROVE  kicks' \subseteq kicks
  BY <1>6 DEF Disconnected
<1>7. HandleHWID \/ CycleRDNS \/ kicks' = kicks \/ kicks' \subseteq kicks
  BY <1>1, <1>2, <1>3, <1>4, <1>5, <1>6, Zenon DEF Next, Bot
<1> QED  BY <1>7

\* A player whose hardware id is read is listed with it from then on.
LEMMA IdentifiedFacts ==
  ASSUME ListOK(players, pending), log[1] \in Line, HandleHWID, NEW id, id \in kicks' \ kicks
  PROVE  \E p : /\ id \in Duplicates(players', p)
                /\ \E k \in DOMAIN players' : players'[k].id = p.id /\ players'[k].hwid = p.hwid
<1> DEFINE i == IndexOf(players, log[1].id)
           q == IF i = 0 THEN NewPlayer(log[1].id, Unknown, Unknown) ELSE players[i]
           known == [q EXCEPT !.hwid = log[1].hwid]
<1>1. /\ players' = IF i = 0 THEN Append(players, known) ELSE [players EXCEPT ![i] = known]
      /\ kicks' = IF known.waiting THEN kicks ELSE kicks \cup Duplicates(players', known)
  BY DEF HandleHWID
<1>2. players \in Seq(Player)
  BY DEF ListOK
<1>3. i # 0 => i \in DOMAIN players
  BY <1>2, IndexFacts
<1> HIDE DEF i, q
<1>4. id \in Duplicates(players', known)
  BY <1>1
<1>5. \E k \in DOMAIN players' : players'[k] = known
  <2> HIDE DEF known
  <2>1. CASE i = 0
    <3>1. players' = Append(players, known)
      BY <1>1, <2>1
    <3>2. Len(players) + 1 \in DOMAIN players' /\ players'[Len(players) + 1] = known
      BY <1>2, <3>1
    <3> QED  BY <3>2
  <2>2. CASE i # 0
    <3>1. i \in DOMAIN players' /\ players'[i] = known
      BY <1>1, <1>3, <2>2
    <3> QED  BY <3>1
  <2> QED  BY <2>1, <2>2
<1> HIDE DEF known
<1> QED  BY <1>4, <1>5

LEMMA AnnouncedFacts ==
  ASSUME CycleRDNS, NEW id, id \in kicks' \ kicks
  PROVE  \E k \in DOMAIN players : id \in Duplicates(players, players[k])
<1>1. PICK resolved, done :
         /\ resolved \subseteq DOMAIN players
         /\ done \subseteq resolved
         /\ kicks' = kicks \cup UNION {Duplicates(players, players[i]) :
                                         i \in {j \in done : players[j].hwid # Unknown}}
  <2>1. PICK resolved, done :
         /\ resolved = {i \in DOMAIN players : players[i].waiting /\ players[i].lookup = "found"}
         /\ done = {i \in resolved : Cardinality({j \in resolved : j < i}) < pending}
         /\ kicks' = kicks \cup UNION {Duplicates(players, players[i]) :
                                         i \in {j \in done : players[j].hwid # Unknown}}
    BY Zenon DEF CycleRDNS
  <2>2. resolved \subseteq DOMAIN players /\ done \subseteq resolved
    BY <2>1
  <2> QED  BY <2>1, <2>2, Zenon
<1> DEFINE known == {j \in done : players[j].hwid # Unknown}
           doubles == {Duplicates(players, players[i]) : i \in known}
<1>2. id \in UNION doubles
  BY <1>1, Zenon
<1>3. PICK D \in doubles : id \in D
  BY <1>2
<1> QED  BY <1>1, <1>3

\* Nobody is kicked as a ghost but clients with whom at least two more share
\* the hardware id, as far as the lines tell that were handled.
THEOREM OnlyGhostsAreKicked == Spec => KicksAreGhosts
<1> DEFINE Ghosts == \A id \in kicks' \ kicks :
                       log' = <<>> /\ ~asked =>
                         /\ id \in DOMAIN clients
                         /\ Cardinality({c \in DOMAIN clients : clients[c].hwid = clients[id].hwid}) > 2
<1>1. IInv /\ IInv' /\ [Next]_vars => [Ghosts]_vars
  <2> SUFFICES ASSUME IInv, IInv', [Next]_vars, NEW id \in kicks' \ kicks, log' = <<>>, ~asked
               PROVE  id \in DOMAIN clients /\ Cardinality(Sharing(DOMAIN clients, clients, id)) > 2
    BY DEF Sharing
  <2>1. ClientsOK /\ ListOK(players, pending) /\ Closed /\ log \in Seq(Line)
    BY InvariantParts DEF RestOK
  <2>2. IsFiniteSet(DOMAIN clients)
    BY <2>1, ClientFacts
  <2>3. CASE HandleHWID
    <3>1. UNCHANGED <<clients, asked, linked>> /\ log # <<>>
      BY <2>3, Zenon DEF HandleHWID, Handling, game
    <3>2. linked
      BY <2>1, <3>1 DEF Closed
    <3>3. /\ IdsOf(players') = DOMAIN clients
          /\ \A i \in DOMAIN players' : players'[i].hwid = clients[players'[i].id].hwid
      <4>1. (IInv /\ linked /\ ~asked /\ log = <<>> =>
               /\ IdsOf(players) = DOMAIN clients
               /\ \A i \in DOMAIN players : players[i].hwid = clients[players[i].id].hwid)'
        BY QuietFacts, PTL
      <4>2. (linked /\ ~asked /\ log = <<>>)'
        BY <3>1, <3>2
      <4> QED  BY <3>1, <4>1, <4>2
    <3>4. PICK p : /\ id \in Duplicates(players', p)
                   /\ \E k \in DOMAIN players' : players'[k].id = p.id /\ players'[k].hwid = p.hwid
      <4>1. log[1] \in Line
        BY <2>1, <3>1
      <4> QED  BY <2>1, <2>3, <4>1, IdentifiedFacts
    <3>5. PICK list \in Seq(Player) : list = players' /\ Alone(list)
      BY DEF IInv, ListOK, Alone
    <3> QED  BY <2>2, <3>3, <3>4, <3>5, DoubleFacts
  <2>4. CASE CycleRDNS
    <3>1. linked /\ log' = log
      BY <2>4, Zenon DEF CycleRDNS
    <3>2. /\ IdsOf(players) = DOMAIN clients
          /\ \A i \in DOMAIN players : players[i].hwid = clients[players[i].id].hwid
      BY <3>1, QuietFacts
    <3>3. PICK k \in DOMAIN players : id \in Duplicates(players, players[k])
      BY <2>4, AnnouncedFacts
    <3>4. players \in Seq(Player) /\ Alone(players)
      BY <2>1 DEF ListOK
    <3> QED  BY <2>2, <3>2, <3>3, <3>4, DoubleFacts
  <2>5. CASE kicks' \subseteq kicks
    BY <2>5
  <2> QED  BY <2>3, <2>4, <2>5, KicksFrom
<1> QED  BY <1>1, ListFollowsTheGame, PTL DEF Spec, KicksAreGhosts
=============================================================================
