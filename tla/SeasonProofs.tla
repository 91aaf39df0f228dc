---------------------------- MODULE SeasonProofs ----------------------------
(***************************************************************************)
(* Proofs about a season of matches: what the two ladders hold and how     *)
(* they are written, that players keep their recommendations, and that     *)
(* the all-time ladder implements ScoreBoard.  The parts are, in order:    *)
(* folds; ladders as lists in order; a match that is added to them; the    *)
(* game and the server; the ladders' steps; recommendations; the list that *)
(* is waited for; the invariant; and what may still be counted.            *)
(***************************************************************************)
EXTENDS Season, SequenceTheorems, FiniteSetTheorems, WellFoundedInduction, TLAPS

\* A nonempty set of numbers has a least.
LEMMA Least ==
  ASSUME NEW T \in SUBSET Nat, T # {}
  PROVE  \E n \in T : \A m \in T : n <= m
<1> DEFINE R == OpToRel(<, Nat)
<1>1. IsWellFoundedOn(R, Nat)
  BY NatLessThanWellFounded
<1>2. \A x, y \in Nat : x < y => <<x, y>> \in R
  BY DEF OpToRel
<1> HIDE DEF R
<1>3. PICK n \in T : \A m \in T : ~(<<m, n>> \in R)
  BY <1>1, WFMin
<1>4. \A m \in T : ~(m < n)
  BY <1>2, <1>3
<1> QED  BY <1>4

\* Induction, said of a set of numbers.
LEMMA Induction ==
  ASSUME NEW T \in SUBSET Nat, 0 \in T, \A n \in T : n + 1 \in T
  PROVE  T = Nat
<1> SUFFICES ASSUME Nat \ T # {} PROVE FALSE
  OBVIOUS
<1>1. PICK n \in Nat \ T : \A m \in Nat \ T : n <= m
  BY Least
<1>2. n # 0 /\ n - 1 \in Nat
  BY <1>1
<1>3. n - 1 \in T
  BY <1>1, <1>2
<1>4. (n - 1) + 1 = n
  BY <1>1
<1> QED  BY <1>1, <1>3, <1>4

\* The two folds: over the players of a match, and over the entries to be sorted.
Step(op, list, x) == IF op = "credit" THEN Counted(list, x) ELSE Insert(list, x)

\* The function by which FoldLeft is defined: on the sets of positions of q.
IsFold(op, g, base, q, n) ==
  g = [s \in SUBSET (1 .. n) |-> IF s = {} THEN base ELSE Step(op, g[s \ {Max(s)}], q[Max(s)])]

\* The greatest number of a set that ends with it.
LEMMA MaxFacts ==
  ASSUME NEW n \in Nat, NEW s \in SUBSET (1 .. n + 1), n + 1 \in s
  PROVE  Max(s) = n + 1 /\ s \ {Max(s)} \in SUBSET (1 .. n)
<1>1. \A y \in s : n + 1 >= y
  OBVIOUS
<1>2. Max(s) \in s /\ \A y \in s : Max(s) >= y
  BY <1>1 DEF Max
<1>3. Max(s) = n + 1
  <2>1. Max(s) \in 1 .. n + 1 /\ Max(s) >= n + 1
    BY <1>2
  <2> QED  BY <2>1
<1>4. \A y \in s \ {n + 1} : y \in 1 .. n
  OBVIOUS
<1> QED  BY <1>3, <1>4

\* There is such a function.
LEMMA FoldExists ==
  ASSUME NEW op, NEW base, NEW q, NEW m \in Nat
  PROVE  \E g : IsFold(op, g, base, q, m)
<1> DEFINE T == {n \in Nat : \E g : IsFold(op, g, base, q, n)}
<1>1. 0 \in T
  <2> DEFINE g == [s \in SUBSET (1 .. 0) |-> base]
  <2>1. \A s \in SUBSET (1 .. 0) : s = {}
    OBVIOUS
  <2>2. g = [s \in SUBSET (1 .. 0) |-> IF s = {} THEN base ELSE Step(op, g[s \ {Max(s)}], q[Max(s)])]
    BY <2>1
  <2>3. IsFold(op, g, base, q, 0)
    BY <2>2 DEF IsFold
  <2> QED  BY <2>3
<1>2. ASSUME NEW n \in T
      PROVE  n + 1 \in T
  <2>1. PICK f : IsFold(op, f, base, q, n)
    OBVIOUS
  <2> DEFINE g == [s \in SUBSET (1 .. n + 1) |->
                     IF n + 1 \in s THEN Step(op, f[s \ {n + 1}], q[n + 1]) ELSE f[s]]
  <2>2. ASSUME NEW s \in SUBSET (1 .. n + 1)
        PROVE  g[s] = IF s = {} THEN base ELSE Step(op, g[s \ {Max(s)}], q[Max(s)])
    <3>1. CASE n + 1 \in s
      <4>1. Max(s) = n + 1 /\ s \ {Max(s)} \in SUBSET (1 .. n)
        BY <3>1, MaxFacts
      <4>2. s \ {n + 1} \in SUBSET (1 .. n + 1) /\ n + 1 \notin s \ {n + 1}
        OBVIOUS
      <4>3. g[s \ {n + 1}] = f[s \ {n + 1}]
        BY <4>2
      <4> QED  BY <3>1, <4>1, <4>3
    <3>2. CASE n + 1 \notin s
      <4>1. s \in SUBSET (1 .. n)
        <5>1. \A y \in s : y \in 1 .. n
          BY <3>2
        <5> QED  BY <5>1
      <4>2. f[s] = IF s = {} THEN base ELSE Step(op, f[s \ {Max(s)}], q[Max(s)])
        BY <2>1, <4>1 DEF IsFold
      <4>3. n + 1 \notin s \ {Max(s)} /\ s \ {Max(s)} \in SUBSET (1 .. n + 1)
        BY <3>2
      <4>4. g[s \ {Max(s)}] = f[s \ {Max(s)}]
        BY <4>3
      <4> QED  BY <3>2, <4>2, <4>4
    <3> QED  BY <3>1, <3>2
  <2>3. g = [s \in SUBSET (1 .. n + 1) |-> g[s]]
    OBVIOUS
  <2> HIDE DEF g
  <2>4. IsFold(op, g, base, q, n + 1)
    BY <2>2, <2>3, Zenon DEF IsFold
  <2> QED  BY <2>4
<1>3. T = Nat
  <2> HIDE DEF T
  <2>1. T \in SUBSET Nat
    BY DEF T
  <2> QED  BY <1>1, <1>2, <2>1, Induction
<1> QED  BY <1>3

FoldOf(op, base, q) == (CHOOSE g : IsFold(op, g, base, q, Len(q)))[1 .. Len(q)]

\* What the folds compute, one element after the other.
Stages(op, d, base, q) ==
  /\ d[0] = base
  /\ \A k \in 1 .. Len(q) : d[k] = Step(op, d[k - 1], q[k])

LEMMA FoldStages ==
  ASSUME NEW op, NEW base, NEW q, DOMAIN q = 1 .. Len(q), Len(q) \in Nat,
         NEW r, r = FoldOf(op, base, q)
  PROVE  \E d : Stages(op, d, base, q) /\ d[Len(q)] = r
<1> DEFINE g == CHOOSE f : IsFold(op, f, base, q, Len(q))
           d == [k \in 0 .. Len(q) |-> g[1 .. k]]
<1>1. IsFold(op, g, base, q, Len(q))
  BY FoldExists
<1>2. \A s \in SUBSET (1 .. Len(q)) : g[s] = IF s = {} THEN base ELSE Step(op, g[s \ {Max(s)}], q[Max(s)])
  <2> HIDE DEF g
  <2> QED  BY <1>1, Zenon DEF IsFold
<1>3. r = g[1 .. Len(q)]
  BY DEF FoldOf
<1> HIDE DEF g
<1>4. d[0] = base
  <2>1. 1 .. 0 = {} /\ 0 \in 0 .. Len(q)
    OBVIOUS
  <2> QED  BY <1>2, <2>1
<1>5. ASSUME NEW k \in 1 .. Len(q)
      PROVE  d[k] = Step(op, d[k - 1], q[k])
  <2> DEFINE s == 1 .. k
  <2>0. PICK n \in Nat : k = n + 1 /\ n = k - 1
    <3>1. k - 1 \in Nat /\ k = (k - 1) + 1
      OBVIOUS
    <3> QED  BY <3>1
  <2>1. s \in SUBSET (1 .. Len(q)) /\ s # {} /\ k \in s /\ s \in SUBSET (1 .. n + 1)
    <3>1. \A y \in s : y \in 1 .. Len(q) /\ y \in 1 .. n + 1
      BY <2>0
    <3>2. k \in s
      OBVIOUS
    <3> QED  BY <3>1, <3>2
  <2>2. Max(s) = k
    <3> HIDE DEF s
    <3> QED  BY <2>0, <2>1, MaxFacts
  <2>3. s \ {k} = 1 .. n
    <3>1. \A y \in s : y # k => y \in 1 .. n
      BY <2>0
    <3>2. \A y \in 1 .. n : y \in s /\ y # k
      BY <2>0
    <3> QED  BY <3>1, <3>2
  <2>4. d[k] = g[s] /\ d[k - 1] = g[1 .. n]
    <3>1. k \in 0 .. Len(q) /\ n \in 0 .. Len(q)
      BY <2>0
    <3> QED  BY <2>0, <3>1
  <2> HIDE DEF s, d
  <2>5. g[s] = Step(op, g[s \ {k}], q[k])
    BY <1>2, <2>1, <2>2
  <2> QED  BY <2>3, <2>4, <2>5
<1>6. d[Len(q)] = r
  <2>1. Len(q) \in 0 .. Len(q)
    OBVIOUS
  <2> QED  BY <1>3, <2>1
<1> HIDE DEF d
<1>7. Stages(op, d, base, q)
  BY <1>4, <1>5, Zenon DEF Stages
<1> QED  BY <1>6, <1>7

LEMMA CreditStages ==
  ASSUME NEW base, NEW q, DOMAIN q = 1 .. Len(q), Len(q) \in Nat, NEW r, r = CreditAll(base, q)
  PROVE  \E d : Stages("credit", d, base, q) /\ d[Len(q)] = r
<1>1. FoldLeft(Counted, base, q) = FoldOf("credit", base, q)
  BY DEF FoldLeft, MapThenFoldSet, FoldOf, IsFold, Step
<1> QED  BY <1>1, FoldStages DEF CreditAll

LEMMA SortStages ==
  ASSUME NEW q, DOMAIN q = 1 .. Len(q), Len(q) \in Nat, NEW r, r = SortEntries(q)
  PROVE  \E d : Stages("sort", d, <<>>, q) /\ d[Len(q)] = r
<1>1. FoldLeft(Insert, <<>>, q) = FoldOf("sort", <<>>, q)
  BY DEF FoldLeft, MapThenFoldSet, FoldOf, IsFold, Step
<1> PICK base : base = <<>>
  OBVIOUS
<1>2. r = FoldOf("sort", base, q)
  BY <1>1 DEF SortEntries
<1> QED  BY <1>2, FoldStages

----------------------------------------------------------------------------
(***************************************************************************)
(* Ladders                                                                 *)
(***************************************************************************)
Entries == [id : Clients, score : Nat, rank : Nat]
Unique(list) == \A i, j \in DOMAIN list : list[i].id = list[j].id => i = j
WellListed(list) == list \in Seq(Entries) /\ Unique(list)

\* What is listed of whom, whatever the order.
Has(list, c, s) == \E i \in DOMAIN list : list[i].id = c /\ list[i].score = s
SameScores(a, b) == \A c, s : Has(a, c, s) <=> Has(b, c, s)

LEMMA ListShape ==
  ASSUME NEW list \in Seq(Entries)
  PROVE  /\ Len(list) \in Nat /\ DOMAIN list = 1 .. Len(list)
         /\ \A i \in DOMAIN list : list[i] \in Entries
         /\ \A i \in DOMAIN list : list[i].id \in Clients /\ list[i].score \in Nat /\ list[i].rank \in Nat
<1>1. /\ Len(list) \in Nat /\ DOMAIN list = 1 .. Len(list)
      /\ \A i \in DOMAIN list : list[i] \in Entries
  OBVIOUS
<1> QED  BY <1>1 DEF Entries

\* The least number of a set of numbers.
LEMMA MinFacts ==
  ASSUME NEW I \in SUBSET Nat, I # {}
  PROVE  Min(I) \in I
<1>1. PICK n \in I : \A m \in I : n <= m
  BY Least
<1> QED  BY <1>1 DEF Min

\* A total is what is listed.
LEMMA TotalFacts ==
  ASSUME NEW list, WellListed(list), NEW c
  PROVE  /\ TotalOf(list, c) \in Nat
         /\ \A i \in DOMAIN list : list[i].id = c => TotalOf(list, c) = list[i].score
         /\ (\A i \in DOMAIN list : list[i].id # c) => TotalOf(list, c) = 0
<1> DEFINE I == {i \in 1 .. Len(list) : list[i].id = c}
<1>1. list \in Seq(Entries) /\ Unique(list)
  BY DEF WellListed
<1>2. DOMAIN list = 1 .. Len(list) /\ Len(list) \in Nat /\ \A i \in DOMAIN list : list[i].score \in Nat
  BY <1>1, ListShape
<1>3. TotalOf(list, c) = LET k == IF I # {} THEN Min(I) ELSE 0 IN IF k = 0 THEN 0 ELSE list[k].score
  BY DEF TotalOf, SelectInSeq
<1>4. \A i \in I : i # 0 /\ i \in DOMAIN list /\ list[i].id = c
  BY <1>2
<1>5. \A i \in DOMAIN list : list[i].id = c => i \in I
  BY <1>2
<1>6. I # {} => Min(I) \in I
  <2>1. I \in SUBSET Nat
    BY <1>2
  <2> QED  BY <2>1, MinFacts
<1>7. I \subseteq DOMAIN list
  BY <1>4
<1> HIDE DEF I
<1>8. CASE I = {}
  <2>1. TotalOf(list, c) = 0
    BY <1>3, <1>8
  <2> QED  BY <1>5, <1>8, <2>1
<1>9. CASE I # {}
  <2> PICK k : k = Min(I)
    OBVIOUS
  <2>1. k \in I /\ k # 0 /\ k \in DOMAIN list /\ list[k].id = c
    BY <1>4, <1>6, <1>9
  <2>2. TotalOf(list, c) = list[k].score
    BY <1>3, <1>9, <2>1
  <2>3. \A i \in DOMAIN list : list[i].id = c => i = k
    BY <1>1, <2>1 DEF Unique
  <2> QED  BY <1>2, <2>1, <2>2, <2>3
<1> QED  BY <1>8, <1>9

\* Totals do not depend on the order.
LEMMA SameTotals ==
  ASSUME NEW a, NEW b, WellListed(a), WellListed(b), SameScores(a, b), NEW c
  PROVE  TotalOf(a, c) = TotalOf(b, c)
<1>1. CASE \E i \in DOMAIN a : a[i].id = c
  <2>1. PICK i \in DOMAIN a : a[i].id = c
    BY <1>1
  <2>2. Has(b, c, a[i].score)
    BY <2>1 DEF SameScores, Has
  <2>3. PICK j \in DOMAIN b : b[j].id = c /\ b[j].score = a[i].score
    BY <2>2 DEF Has
  <2>4. TotalOf(a, c) = a[i].score
    BY <2>1, TotalFacts
  <2>5. TotalOf(b, c) = b[j].score
    BY <2>3, TotalFacts
  <2> QED  BY <2>3, <2>4, <2>5
<1>2. CASE \A i \in DOMAIN a : a[i].id # c
  <2>1. ASSUME NEW j \in DOMAIN b, b[j].id = c
        PROVE  FALSE
    <3>1. Has(a, c, b[j].score)
      BY <2>1 DEF SameScores, Has
    <3> QED  BY <1>2, <3>1 DEF Has
  <2>2. TotalOf(a, c) = 0
    BY <1>2, TotalFacts
  <2>3. TotalOf(b, c) = 0
    BY <2>1, TotalFacts
  <2> QED  BY <2>2, <2>3
<1> QED  BY <1>1, <1>2

\* An entry behind the others.
LEMMA AppendFacts ==
  ASSUME NEW list \in Seq(Entries), NEW e \in Entries, NEW r, r = Append(list, e)
  PROVE  /\ r \in Seq(Entries) /\ Len(r) = Len(list) + 1 /\ r # <<>>
         /\ DOMAIN r = 1 .. Len(list) + 1
         /\ \A i \in DOMAIN list : i \in DOMAIN r /\ r[i] = list[i]
         /\ r[Len(list) + 1] = e
         /\ \A i \in DOMAIN r : i \in DOMAIN list \/ i = Len(list) + 1
<1>1. r \in Seq(Entries) /\ Len(r) = Len(list) + 1 /\ Len(list) \in Nat /\ DOMAIN list = 1 .. Len(list)
  OBVIOUS
<1>2. DOMAIN r = 1 .. Len(list) + 1
  BY <1>1
<1>3. r[Len(list) + 1] = e /\ \A i \in 1 .. Len(list) : r[i] = list[i]
  OBVIOUS
<1>4. \A i \in 1 .. Len(list) : i \in 1 .. Len(list) + 1
  BY <1>1
<1>5. \A i \in 1 .. Len(list) + 1 : i \in 1 .. Len(list) \/ i = Len(list) + 1
  BY <1>1
<1>6. r # <<>>
  BY <1>1
<1> QED  BY <1>1, <1>2, <1>3, <1>4, <1>5, <1>6

\* What counting a player adds to totals.
Gained(old, new, id, points) ==
  \A c \in Clients : TotalOf(new, c) = TotalOf(old, c) + (IF c = id THEN points ELSE 0)

\* A player's points are added to the player's total and to no other.
LEMMA CreditFacts ==
  ASSUME NEW list, WellListed(list), NEW player, player.id \in Clients, player.points \in Nat,
         NEW r, r = Credit(list, player)
  PROVE  WellListed(r) /\ Gained(list, r, player.id, player.points) /\ (list # <<>> => r # <<>>)
<1> PICK id, points : id = player.id /\ points = player.points
  OBVIOUS
<1>1. list \in Seq(Entries) /\ Unique(list) /\ id \in Clients /\ points \in Nat
  BY DEF WellListed
<1>2. /\ Len(list) \in Nat /\ DOMAIN list = 1 .. Len(list)
      /\ \A i \in DOMAIN list : list[i] \in Entries
      /\ \A i \in DOMAIN list : list[i].id \in Clients /\ list[i].score \in Nat /\ list[i].rank \in Nat
  BY <1>1, ListShape
<1>3. CASE \E i \in DOMAIN list : list[i].id = id
  <2>1. r = [i \in DOMAIN list |-> IF list[i].id = id THEN [list[i] EXCEPT !.score = @ + points] ELSE list[i]]
    BY <1>3 DEF Credit
  <2>2. ASSUME NEW i \in DOMAIN list
        PROVE  /\ r[i] \in Entries /\ r[i].id = list[i].id
               /\ r[i].score = IF list[i].id = id THEN list[i].score + points ELSE list[i].score
    <3> PICK e : e = list[i]
      OBVIOUS
    <3>1. e \in Entries /\ e.score \in Nat
      BY <1>2
    <3>2. CASE e.id = id
      <4>1. r[i] = [e EXCEPT !.score = @ + points]
        BY <2>1, <3>2
      <4>2. [e EXCEPT !.score = @ + points] \in Entries
        <5>1. PICK n \in Nat : n = e.score + points
          BY <1>1, <3>1
        <5>2. [e EXCEPT !.score = n] \in Entries
          BY <3>1 DEF Entries
        <5> QED  BY <5>1, <5>2
      <4>3. [e EXCEPT !.score = @ + points].id = e.id /\ [e EXCEPT !.score = @ + points].score = e.score + points
        BY <3>1 DEF Entries
      <4> QED  BY <3>2, <4>1, <4>2, <4>3
    <3>3. CASE e.id # id
      BY <2>1, <3>1, <3>3
    <3> QED  BY <3>2, <3>3
  <2>3. DOMAIN r = DOMAIN list
    BY <2>1
  <2>4. r \in Seq(Entries) /\ Len(r) = Len(list)
    <3>1. r \in [1 .. Len(list) -> Entries]
      BY <1>2, <2>1, <2>2
    <3> QED  BY <1>2, <3>1
  <2>5. Unique(r)
    BY <1>1, <2>2, <2>3 DEF Unique
  <2>6. WellListed(r)
    BY <2>4, <2>5 DEF WellListed
  <2>7. ASSUME NEW c \in Clients
        PROVE  TotalOf(r, c) = TotalOf(list, c) + (IF c = id THEN points ELSE 0)
    <3>1. CASE \E i \in DOMAIN list : list[i].id = c
      <4>1. PICK i \in DOMAIN list : list[i].id = c
        BY <3>1
      <4>2. TotalOf(list, c) = list[i].score
        BY <4>1, TotalFacts
      <4>3. TotalOf(r, c) = r[i].score
        BY <2>2, <2>3, <2>6, <4>1, TotalFacts
      <4> QED  BY <1>1, <1>2, <2>2, <4>1, <4>2, <4>3
    <3>2. CASE \A i \in DOMAIN list : list[i].id # c
      <4>1. TotalOf(list, c) = 0
        BY <3>2, TotalFacts
      <4>2. TotalOf(r, c) = 0
        BY <2>2, <2>3, <2>6, <3>2, TotalFacts
      <4> QED  BY <1>3, <3>2, <4>1, <4>2
    <3> QED  BY <3>1, <3>2
  <2>8. list # <<>> => r # <<>>
    BY <2>4
  <2> QED  BY <2>6, <2>7, <2>8 DEF Gained
<1>4. CASE \A i \in DOMAIN list : list[i].id # id
  <2> PICK e : e = [id |-> id, score |-> points, rank |-> 0]
    OBVIOUS
  <2>1. e \in Entries /\ e.id = id /\ e.score = points
    BY <1>1 DEF Entries
  <2>2. r = Append(list, e)
    BY <1>4 DEF Credit, Entry
  <2>3. /\ r \in Seq(Entries) /\ r # <<>>
        /\ DOMAIN r = 1 .. Len(list) + 1
        /\ \A i \in DOMAIN list : i \in DOMAIN r /\ r[i] = list[i]
        /\ r[Len(list) + 1] = e
        /\ \A i \in DOMAIN r : i \in DOMAIN list \/ i = Len(list) + 1
    BY <1>1, <2>1, <2>2, AppendFacts
  <2>4. Unique(r)
    BY <1>1, <1>4, <2>1, <2>3 DEF Unique
  <2>5. WellListed(r)
    BY <2>3, <2>4 DEF WellListed
  <2>6. ASSUME NEW c \in Clients
        PROVE  TotalOf(r, c) = TotalOf(list, c) + (IF c = id THEN points ELSE 0)
    <3>1. CASE c = id
      <4>1. TotalOf(list, c) = 0
        BY <1>4, <3>1, TotalFacts
      <4>2. Len(list) + 1 \in DOMAIN r
        BY <1>2, <2>3
      <4>3. TotalOf(r, c) = points
        BY <2>1, <2>3, <2>5, <3>1, <4>2, TotalFacts
      <4> QED  BY <1>1, <3>1, <4>1, <4>3
    <3>2. CASE c # id /\ \E i \in DOMAIN list : list[i].id = c
      <4>1. PICK i \in DOMAIN list : list[i].id = c
        BY <3>2
      <4>2. TotalOf(list, c) = list[i].score
        BY <4>1, TotalFacts
      <4>3. TotalOf(r, c) = list[i].score
        BY <2>3, <2>5, <4>1, TotalFacts
      <4> QED  BY <1>2, <3>2, <4>2, <4>3
    <3>3. CASE c # id /\ \A i \in DOMAIN list : list[i].id # c
      <4>1. TotalOf(list, c) = 0
        BY <3>3, TotalFacts
      <4>2. \A i \in DOMAIN r : r[i].id # c
        BY <2>1, <2>3, <3>3
      <4>3. TotalOf(r, c) = 0
        BY <2>5, <4>2, TotalFacts
      <4> QED  BY <3>3, <4>1, <4>3
    <3> QED  BY <3>1, <3>2, <3>3
  <2> QED  BY <2>3, <2>5, <2>6 DEF Gained
<1> QED  BY <1>3, <1>4

----------------------------------------------------------------------------
\* e behind the first m entries of s.
Inserted(s, m, e, r) ==
  /\ r \in Seq(Entries) /\ Len(r) = Len(s) + 1
  /\ \A j \in 1 .. m : r[j] = s[j]
  /\ r[m + 1] = e
  /\ \A j \in m + 1 .. Len(s) : r[j + 1] = s[j]

\* One sequence after another.
Joined(S, a, b, r) ==
  /\ r \in Seq(S) /\ Len(r) = Len(a) + Len(b)
  /\ \A i \in 1 .. Len(a) + Len(b) : r[i] = IF i <= Len(a) THEN a[i] ELSE b[i - Len(a)]

LEMMA ConcatFacts ==
  ASSUME NEW S, NEW a \in Seq(S), NEW b \in Seq(S), NEW r, r = a \o b
  PROVE  Joined(S, a, b, r)
<1> QED  BY ConcatProperties DEF Joined

LEMMA InsertAtFacts ==
  ASSUME NEW s \in Seq(Entries), NEW m \in 0 .. Len(s), NEW e \in Entries, NEW r, r = InsertAt(s, m + 1, e)
  PROVE  Inserted(s, m, e, r)
<1> PICK n \in Nat : n = Len(s)
  OBVIOUS
<1> DEFINE a == SubSeq(s, 1, m)
           b == SubSeq(s, m + 1, n)
           t == a \o <<e>>
<1>1. a \in Seq(Entries) /\ Len(a) = m /\ \A j \in 1 .. m : a[j] = s[j]
  OBVIOUS
<1>2. b \in Seq(Entries) /\ Len(b) = n - m /\ \A j \in 1 .. n - m : b[j] = s[m + j]
  BY SMTT(30), ZenonT(30)
<1>3. r = t \o b
  <2>1. (m + 1) - 1 = m
    OBVIOUS
  <2> QED  BY <2>1 DEF InsertAt
<1>4. t = Append(a, e)
  <2> HIDE DEF a
  <2> QED  BY <1>1
<1> HIDE DEF a, b, t
<1>5. t \in Seq(Entries) /\ Len(t) = m + 1 /\ t[m + 1] = e /\ \A j \in 1 .. m : t[j] = s[j]
  BY <1>1, <1>4
<1>6. /\ r \in Seq(Entries) /\ Len(r) = Len(t) + Len(b)
      /\ \A i \in 1 .. Len(t) + Len(b) : r[i] = IF i <= Len(t) THEN t[i] ELSE b[i - Len(t)]
  <2> PICK t2 \in Seq(Entries), b2 \in Seq(Entries) : t2 = t /\ b2 = b
    BY <1>2, <1>5
  <2>1. r = t2 \o b2
    BY <1>3
  <2>2. Joined(Entries, t2, b2, r)
    BY <2>1, ConcatFacts
  <2> QED  BY <2>2 DEF Joined
<1>7. Len(t) + Len(b) = n + 1
  BY <1>2, <1>5
<1>8. ASSUME NEW j \in 1 .. m
      PROVE  r[j] = s[j]
  <2>1. j \in 1 .. n + 1 /\ j <= m + 1
    OBVIOUS
  <2> QED  BY <1>5, <1>6, <1>7, <2>1
<1>9. r[m + 1] = e
  <2>1. m + 1 \in 1 .. n + 1 /\ m + 1 <= m + 1
    OBVIOUS
  <2> QED  BY <1>5, <1>6, <1>7, <2>1
<1>10. ASSUME NEW j \in m + 1 .. n
       PROVE  r[j + 1] = s[j]
  <2>1. j + 1 \in 1 .. n + 1 /\ ~(j + 1 <= m + 1) /\ (j + 1) - (m + 1) \in 1 .. n - m /\ m + ((j + 1) - (m + 1)) = j
    OBVIOUS
  <2>2. r[j + 1] = b[(j + 1) - (m + 1)]
    BY <1>5, <1>6, <1>7, <2>1
  <2> QED  BY <1>2, <2>1, <2>2
<1> QED  BY <1>6, <1>7, <1>8, <1>9, <1>10 DEF Inserted

\* The greatest of some numbers up to n, or 0.
LEMMA GreatestFacts ==
  ASSUME NEW n \in Nat, NEW G \in SUBSET (1 .. n), NEW m, m = Max({0} \cup G)
  PROVE  m \in 0 .. n /\ (m = 0 \/ m \in G) /\ \A i \in G : i <= m
<1> DEFINE T == {k \in Nat : \A i \in G : i <= k}
<1>1. n \in T /\ T \in SUBSET Nat
  OBVIOUS
<1> HIDE DEF T
<1>2. PICK k \in T : \A j \in T : k <= j
  BY <1>1, Least
<1>3. k \in Nat /\ \A i \in G : i <= k
  BY <1>2 DEF T
<1>4. k \in {0} \cup G
  <2> SUFFICES ASSUME k \notin {0} \cup G PROVE FALSE
    OBVIOUS
  <2>1. k - 1 \in Nat /\ \A i \in G : i <= k - 1
    <3>1. \A i \in G : i # k
      OBVIOUS
    <3>2. k # 0 /\ \A i \in G : i \in Nat
      OBVIOUS
    <3> QED  BY <1>3, <3>1, <3>2
  <2>2. k - 1 \in T
    BY <2>1 DEF T
  <2> QED  BY <1>2, <1>3, <2>2
<1>5. \A y \in {0} \cup G : k >= y
  BY <1>3
<1>6. m \in {0} \cup G /\ \A y \in {0} \cup G : m >= y
  BY <1>4, <1>5 DEF Max
<1> QED  BY <1>6

\* What an entry that is inserted leaves in order, and adds.
OneMore(s, e, r) ==
  /\ r \in Seq(Entries) /\ IsOrdered(r) /\ r # <<>>
  /\ \A c, v : Has(r, c, v) <=> Has(s, c, v) \/ (c = e.id /\ v = e.score)

LEMMA InsertedFacts ==
  ASSUME NEW s \in Seq(Entries), IsOrdered(s), NEW e \in Entries, \A i \in DOMAIN s : s[i].id # e.id,
         NEW m \in 0 .. Len(s), NEW r, Inserted(s, m, e, r),
         \A i \in 1 .. m : s[i].score >= e.score,
         \A i \in m + 1 .. Len(s) : e.score >= s[i].score
  PROVE  OneMore(s, e, r)
<1> PICK n \in Nat : n = Len(s)
  OBVIOUS
<1>1. DOMAIN s = 1 .. n /\ \A i \in 1 .. n : s[i].score \in Nat
  BY ListShape
<1>2. e.score \in Nat
  BY DEF Entries
<1>3. /\ r \in Seq(Entries) /\ Len(r) = n + 1 /\ DOMAIN r = 1 .. n + 1
      /\ \A j \in 1 .. m : r[j] = s[j]
      /\ r[m + 1] = e
      /\ \A j \in m + 1 .. n : r[j + 1] = s[j]
  BY DEF Inserted
<1>4. \A j \in DOMAIN r : \/ j \in 1 .. m /\ j \in DOMAIN s /\ r[j] = s[j]
                          \/ j = m + 1 /\ r[j] = e
                          \/ j - 1 \in m + 1 .. n /\ j - 1 \in DOMAIN s /\ r[j] = s[j - 1]
  <2> TAKE j \in DOMAIN r
  <2>1. j \in 1 .. n + 1
    BY <1>3
  <2>2. CASE j <= m
    BY <1>1, <1>3, <2>1, <2>2
  <2>3. CASE j = m + 1
    BY <1>3, <2>3
  <2>4. CASE j > m + 1
    <3>1. j - 1 \in m + 1 .. n /\ (j - 1) + 1 = j /\ j - 1 \in 1 .. n
      BY <2>1, <2>4
    <3> QED  BY <1>1, <1>3, <3>1
  <2> QED  BY <2>1, <2>2, <2>3, <2>4
<1>5. \A i, j \in DOMAIN s : i < j => s[i].score >= s[j].score /\ s[i].id # s[j].id
  BY DEF IsOrdered
<1>6. IsOrdered(r)
  <2> SUFFICES ASSUME NEW i \in DOMAIN r, NEW j \in DOMAIN r, i < j
               PROVE  r[i].score >= r[j].score /\ r[i].id # r[j].id
    BY DEF IsOrdered
  <2>1. i \in Nat /\ j \in Nat
    BY <1>3
  <2>2. CASE i \in 1 .. m /\ i \in DOMAIN s /\ r[i] = s[i]
    <3>1. CASE j \in 1 .. m /\ j \in DOMAIN s /\ r[j] = s[j]
      BY <1>5, <2>2, <3>1
    <3>2. CASE j = m + 1 /\ r[j] = e
      BY <2>2, <3>2
    <3>3. CASE j - 1 \in m + 1 .. n /\ j - 1 \in DOMAIN s /\ r[j] = s[j - 1]
      <4>1. i < j - 1
        BY <2>1, <2>2, <3>3
      <4> QED  BY <1>5, <2>2, <3>3, <4>1
    <3> QED  BY <1>4, <3>1, <3>2, <3>3
  <2>3. CASE i = m + 1 /\ r[i] = e
    <3>1. j - 1 \in m + 1 .. n /\ j - 1 \in DOMAIN s /\ r[j] = s[j - 1]
      BY <1>4, <2>1, <2>3
    <3> QED  BY <2>3, <3>1
  <2>4. CASE i - 1 \in m + 1 .. n /\ i - 1 \in DOMAIN s /\ r[i] = s[i - 1]
    <3>1. j - 1 \in m + 1 .. n /\ j - 1 \in DOMAIN s /\ r[j] = s[j - 1] /\ i - 1 < j - 1
      BY <1>4, <2>1, <2>4
    <3> QED  BY <1>5, <2>4, <3>1
  <2> QED  BY <1>4, <2>2, <2>3, <2>4
<1>7. ASSUME NEW c, NEW v
      PROVE  Has(r, c, v) <=> Has(s, c, v) \/ (c = e.id /\ v = e.score)
  <2>1. ASSUME Has(r, c, v)
        PROVE  Has(s, c, v) \/ (c = e.id /\ v = e.score)
    BY <1>4, <2>1 DEF Has
  <2>2. ASSUME NEW i \in DOMAIN s
        PROVE  \E j \in DOMAIN r : r[j] = s[i]
    <3>1. i \in 1 .. n
      BY <1>1
    <3>2. CASE i <= m
      <4>1. i \in 1 .. m /\ i \in 1 .. n + 1
        BY <3>1, <3>2
      <4> QED  BY <1>3, <4>1
    <3>3. CASE ~(i <= m)
      <4>1. i \in m + 1 .. n /\ i + 1 \in 1 .. n + 1
        BY <3>1, <3>3
      <4> QED  BY <1>3, <4>1
    <3> QED  BY <3>2, <3>3
  <2>3. Has(s, c, v) => Has(r, c, v)
    BY <2>2 DEF Has
  <2>4. c = e.id /\ v = e.score => Has(r, c, v)
    <3>1. m + 1 \in DOMAIN r
      BY <1>3
    <3> QED  BY <1>3, <3>1 DEF Has
  <2> QED  BY <2>1, <2>3, <2>4
<1>8. r # <<>>
  BY <1>3
<1> QED  BY <1>3, <1>6, <1>7, <1>8 DEF OneMore

\* An entry is put among those that are in order where it belongs.
LEMMA InsertFacts ==
  ASSUME NEW s \in Seq(Entries), IsOrdered(s), NEW e \in Entries, \A i \in DOMAIN s : s[i].id # e.id,
         NEW r, r = Insert(s, e)
  PROVE  OneMore(s, e, r)
<1> PICK n \in Nat : n = Len(s)
  OBVIOUS
<1>1. DOMAIN s = 1 .. n /\ \A i \in 1 .. n : s[i].score \in Nat
  BY ListShape
<1>2. e.score \in Nat
  BY DEF Entries
<1>3. \A i, j \in 1 .. n : i < j => s[i].score >= s[j].score
  BY <1>1 DEF IsOrdered
<1>4. CASE s = <<>> \/ Last(s).score >= e.score
  <2>1. r = Append(s, e)
    BY <1>4 DEF Insert
  <2>2. \A i \in 1 .. n : s[i].score >= e.score
    <3> TAKE i \in 1 .. n
    <3>1. s # <<>> /\ n \in 1 .. n
      OBVIOUS
    <3>2. s[n].score >= e.score
      BY <1>4, <3>1 DEF Last
    <3>3. i = n \/ s[i].score >= s[n].score
      BY <1>3, <3>1
    <3> QED  BY <1>1, <1>2, <3>1, <3>2, <3>3
  <2>3. /\ r \in Seq(Entries) /\ Len(r) = n + 1
        /\ \A i \in DOMAIN s : i \in DOMAIN r /\ r[i] = s[i]
        /\ r[n + 1] = e
    BY <2>1, AppendFacts
  <2>4. Inserted(s, n, e, r)
    BY <1>1, <2>3 DEF Inserted
  <2>5. n \in 0 .. Len(s) /\ \A i \in n + 1 .. Len(s) : e.score >= s[i].score
    OBVIOUS
  <2> QED  BY <2>2, <2>4, <2>5, InsertedFacts
<1>5. CASE ~(s = <<>> \/ Last(s).score >= e.score)
  <2> PICK G : G = {i \in DOMAIN s : s[i].score > e.score}
    OBVIOUS
  <2> PICK m : m = Max({0} \cup G)
    OBVIOUS
  <2>1. r = InsertAt(s, m + 1, e)
    BY <1>5 DEF Insert
  <2>2. G \in SUBSET (1 .. n)
    BY <1>1
  <2>3. m \in 0 .. n /\ (m = 0 \/ m \in G) /\ \A i \in G : i <= m
    BY <2>2, GreatestFacts
  <2>4. Inserted(s, m, e, r)
    BY <2>1, <2>3, InsertAtFacts
  <2>5. \A i \in 1 .. m : s[i].score >= e.score
    <3> TAKE i \in 1 .. m
    <3>1. m \in 1 .. n /\ s[m].score > e.score /\ i \in 1 .. n
      BY <2>3
    <3>2. i = m \/ s[i].score >= s[m].score
      BY <1>3, <3>1
    <3> QED  BY <1>1, <1>2, <3>1, <3>2
  <2>6. \A i \in m + 1 .. n : e.score >= s[i].score
    <3> TAKE i \in m + 1 .. n
    <3>1. i \in 1 .. n /\ ~(i <= m)
      BY <2>3
    <3>2. ~(s[i].score > e.score)
      BY <1>1, <2>3, <3>1
    <3> QED  BY <1>1, <1>2, <3>1, <3>2
  <2> QED  BY <2>3, <2>4, <2>5, <2>6, InsertedFacts
<1> QED  BY <1>4, <1>5

\* sort_entries brings every list in order, and loses and changes nobody.
LEMMA SortFacts ==
  ASSUME NEW list, WellListed(list), NEW r, r = SortEntries(list)
  PROVE  /\ r \in Seq(Entries) /\ IsOrdered(r) /\ SameScores(list, r)
         /\ (list # <<>> => r # <<>>)
<1> PICK n \in Nat : n = Len(list)
  BY DEF WellListed
<1>1. list \in Seq(Entries) /\ Unique(list) /\ DOMAIN list = 1 .. n
  BY DEF WellListed
<1>2. PICK d : Stages("sort", d, <<>>, list) /\ d[n] = r
  BY <1>1, SortStages
<1>3. d[0] = <<>> /\ \A k \in 1 .. n : d[k] = Insert(d[k - 1], list[k])
  BY <1>2 DEF Stages, Step
<1> DEFINE Listing(k) == \A c, v : Has(d[k], c, v) <=> \E i \in 1 .. k : list[i].id = c /\ list[i].score = v
           Done(k) == d[k] \in Seq(Entries) /\ IsOrdered(d[k]) /\ Listing(k) /\ (k > 0 => d[k] # <<>>)
           T == {k \in Nat : k <= n => Done(k)}
<1>4. 0 \in T
  <2>1. d[0] \in Seq(Entries) /\ DOMAIN d[0] = {}
    BY <1>3
  <2>2. Listing(0) /\ IsOrdered(d[0])
    BY <2>1 DEF Has, IsOrdered
  <2> QED  BY <2>1, <2>2
<1>5. ASSUME NEW k \in T
      PROVE  k + 1 \in T
  <2> SUFFICES ASSUME k + 1 <= n PROVE Done(k + 1)
    OBVIOUS
  <2>1. k \in Nat /\ k + 1 \in 1 .. n /\ (k + 1) - 1 = k /\ Done(k)
    OBVIOUS
  <2> PICK s, e, t : s = d[k] /\ e = list[k + 1] /\ t = d[k + 1]
    OBVIOUS
  <2>2. e \in Entries /\ t = Insert(s, e)
    BY <1>1, <1>3, <2>1
  <2>3. \A i \in DOMAIN s : s[i].id # e.id
    <3> SUFFICES ASSUME NEW i \in DOMAIN s, s[i].id = e.id PROVE FALSE
      OBVIOUS
    <3>1. Has(s, e.id, s[i].score)
      BY DEF Has
    <3>2. PICK j \in 1 .. k : list[j].id = e.id
      BY <2>1, <3>1
    <3>3. j \in DOMAIN list /\ k + 1 \in DOMAIN list /\ j # k + 1
      BY <1>1, <2>1
    <3> QED  BY <1>1, <3>2, <3>3 DEF Unique
  <2>4. OneMore(s, e, t)
    BY <2>1, <2>2, <2>3, InsertFacts
  <2>5. ASSUME NEW c, NEW v
        PROVE  Has(t, c, v) <=> \E i \in 1 .. k + 1 : list[i].id = c /\ list[i].score = v
    <3>1. Has(t, c, v) <=> Has(s, c, v) \/ (c = e.id /\ v = e.score)
      BY <2>4 DEF OneMore
    <3>2. Has(s, c, v) <=> \E i \in 1 .. k : list[i].id = c /\ list[i].score = v
      BY <2>1
    <3>3. \A i \in 1 .. k + 1 : i \in 1 .. k \/ i = k + 1
      BY <2>1
    <3>4. \A i \in 1 .. k : i \in 1 .. k + 1
      BY <2>1
    <3>5. k + 1 \in 1 .. k + 1
      BY <2>1
    <3> QED  BY <3>1, <3>2, <3>3, <3>4, <3>5
  <2> QED  BY <2>4, <2>5 DEF OneMore
<1>6. T = Nat
  <2> HIDE DEF T
  <2>1. T \in SUBSET Nat
    BY DEF T
  <2> QED  BY <1>4, <1>5, <2>1, Induction
<1>7. Done(n)
  <2>1. n \in T /\ n <= n
    BY <1>6
  <2> QED  BY <2>1
<1>8. SameScores(list, r)
  <2> SUFFICES ASSUME NEW c, NEW v PROVE Has(list, c, v) <=> Has(r, c, v)
    BY DEF SameScores
  <2>1. Has(r, c, v) <=> \E i \in 1 .. n : list[i].id = c /\ list[i].score = v
    BY <1>2, <1>7
  <2> QED  BY <1>1, <2>1 DEF Has
<1>9. list # <<>> => n > 0
  BY <1>1
<1> QED  BY <1>2, <1>7, <1>8, <1>9

----------------------------------------------------------------------------
\* A ladder as it is shown and written.
Standing(list) == /\ list \in Seq(Entries) /\ IsOrdered(list)
                  /\ \A i \in DOMAIN list : list[i].rank = i

\* Nobody is listed twice in what is in order.
LEMMA OrderedFacts ==
  ASSUME NEW list \in Seq(Entries), IsOrdered(list)
  PROVE  WellListed(list)
<1>1. DOMAIN list = 1 .. Len(list) /\ Len(list) \in Nat
  OBVIOUS
<1>2. \A i, j \in DOMAIN list : i < j => list[i].id # list[j].id
  BY DEF IsOrdered
<1>3. \A i, j \in DOMAIN list : i < j \/ j < i \/ i = j
  BY <1>1
<1>4. Unique(list)
  BY <1>2, <1>3 DEF Unique
<1> QED  BY <1>4 DEF WellListed

LEMMA StandingFacts ==
  ASSUME NEW list, Standing(list)
  PROVE  WellListed(list) /\ list = Ranked(list)
<1>1. list \in Seq(Entries) /\ IsOrdered(list) /\ \A i \in DOMAIN list : list[i].rank = i
  BY DEF Standing
<1>2. \A i \in DOMAIN list : [list[i] EXCEPT !.rank = i] = list[i]
  <2> TAKE i \in DOMAIN list
  <2> PICK e \in Entries : e = list[i]
    BY <1>1
  <2>1. e.rank = i
    BY <1>1
  <2>2. [e EXCEPT !.rank = i] = e
    BY <2>1 DEF Entries
  <2> QED  BY <2>2
<1>3. list = [i \in DOMAIN list |-> list[i]]
  BY <1>1
<1>4. list = Ranked(list)
  BY <1>2, <1>3 DEF Ranked
<1> QED  BY <1>1, <1>4, OrderedFacts

\* Ranking changes nothing else.
LEMMA RankedFacts ==
  ASSUME NEW list \in Seq(Entries), IsOrdered(list), NEW r, r = Ranked(list)
  PROVE  Standing(r) /\ SameScores(list, r) /\ (list # <<>> => r # <<>>)
<1> PICK n \in Nat : n = Len(list)
  OBVIOUS
<1>1. DOMAIN list = 1 .. n /\ DOMAIN r = 1 .. n
  BY DEF Ranked
<1>2. ASSUME NEW i \in 1 .. n
      PROVE  r[i] \in Entries /\ r[i].id = list[i].id /\ r[i].score = list[i].score /\ r[i].rank = i
  <2> PICK e \in Entries : e = list[i]
    BY <1>1
  <2>1. r[i] = [e EXCEPT !.rank = i]
    BY <1>1 DEF Ranked
  <2>2. /\ [e EXCEPT !.rank = i] \in Entries /\ [e EXCEPT !.rank = i].id = e.id
        /\ [e EXCEPT !.rank = i].score = e.score /\ [e EXCEPT !.rank = i].rank = i
    BY DEF Entries
  <2> QED  BY <2>1, <2>2
<1>3. r \in Seq(Entries) /\ Len(r) = n
  <2>1. r \in [1 .. n -> Entries]
    BY <1>1, <1>2 DEF Ranked
  <2> QED  BY <2>1
<1>4. IsOrdered(r)
  BY <1>1, <1>2 DEF IsOrdered
<1>5. SameScores(list, r)
  BY <1>1, <1>2 DEF SameScores, Has
<1> QED  BY <1>1, <1>2, <1>3, <1>4, <1>5 DEF Standing

\* The part of a file that was written before the process died.
LEMMA CutFacts ==
  ASSUME NEW list, Standing(list), NEW n \in 0 .. Len(list), NEW r, r = SubSeq(list, 1, n)
  PROVE  Standing(r) /\ \A c : TotalOf(r, c) \in {0, TotalOf(list, c)}
<1>1. list \in Seq(Entries) /\ DOMAIN list = 1 .. Len(list) /\ Len(list) \in Nat
  BY DEF Standing
<1>2. /\ r \in Seq(Entries) /\ DOMAIN r = 1 .. n
      /\ \A i \in 1 .. n : i \in DOMAIN list /\ r[i] = list[i]
  BY <1>1
<1>3. Standing(r)
  BY <1>2 DEF Standing, IsOrdered
<1>4. WellListed(r) /\ WellListed(list)
  BY <1>3, StandingFacts
<1>5. ASSUME NEW c
      PROVE  TotalOf(r, c) \in {0, TotalOf(list, c)}
  <2>1. CASE \A i \in DOMAIN r : r[i].id # c
    BY <1>4, <2>1, TotalFacts
  <2>2. CASE \E i \in DOMAIN r : r[i].id = c
    <3>1. PICK i \in DOMAIN r : r[i].id = c
      BY <2>2
    <3>2. TotalOf(r, c) = r[i].score
      BY <1>4, <3>1, TotalFacts
    <3>3. TotalOf(list, c) = list[i].score
      BY <1>2, <1>4, <3>1, TotalFacts
    <3> QED  BY <1>2, <3>1, <3>2, <3>3
  <2> QED  BY <2>1, <2>2
<1> QED  BY <1>3, <1>5

LEMMA EmptyFacts == Standing(<<>>) /\ \A c : TotalOf(<<>>, c) = 0
<1> PICK r : r = <<>>
  OBVIOUS
<1>1. r \in Seq(Entries) /\ DOMAIN r = {}
  OBVIOUS
<1>2. Standing(r)
  BY <1>1 DEF Standing, IsOrdered
<1>3. WellListed(r)
  BY <1>2, StandingFacts
<1>4. ASSUME NEW c
      PROVE  TotalOf(r, c) = 0
  BY <1>1, <1>3, TotalFacts
<1> QED  BY <1>2, <1>4

----------------------------------------------------------------------------
(***************************************************************************)
(* A match is added to a ladder                                            *)
(***************************************************************************)
Scorers == [id : Clients, points : 0 .. MaxPoints]
Worth(player) == IF player.id \in Unranked THEN 0 ELSE player.points

LEMMA ScorerFacts ==
  ASSUME NEW p \in Scorers
  PROVE  p.id \in Clients /\ p.points \in 0 .. MaxPoints /\ p.points \in Nat /\ Worth(p) \in Nat /\ Worth(p) <= p.points
<1>1. MaxPoints \in Nat
  BY MatchAssumption
<1> QED  BY <1>1 DEF Scorers, Worth

LEMMA CountedFacts ==
  ASSUME NEW list, WellListed(list), NEW p \in Scorers, NEW r, r = Counted(list, p)
  PROVE  WellListed(r) /\ Gained(list, r, p.id, Worth(p)) /\ (list # <<>> => r # <<>>)
<1>1. CASE p.id \in Unranked
  <2>1. r = list /\ Worth(p) = 0
    BY <1>1 DEF Counted, Worth
  <2>2. \A c \in Clients : TotalOf(list, c) \in Nat
    BY TotalFacts
  <2>3. Gained(list, list, p.id, 0)
    BY <2>2 DEF Gained
  <2> QED  BY <2>1, <2>3
<1>2. CASE p.id \notin Unranked
  <2>1. r = Credit(list, p) /\ Worth(p) = p.points
    BY <1>2 DEF Counted, Worth
  <2>2. p.id \in Clients /\ p.points \in Nat
    BY ScorerFacts
  <2>3. WellListed(r) /\ Gained(list, r, p.id, p.points) /\ (list # <<>> => r # <<>>)
    BY <2>1, <2>2, CreditFacts
  <2> QED  BY <2>1, <2>3
<1> QED  BY <1>1, <1>2

\* One list after each player of a match.
Counting(d, base, q) ==
  /\ d[0] = base
  /\ \A k \in 0 .. Len(q) : WellListed(d[k]) /\ (base # <<>> => d[k] # <<>>)
  /\ \A k \in 1 .. Len(q) : Gained(d[k - 1], d[k], q[k].id, Worth(q[k]))

LEMMA CountingFacts ==
  ASSUME NEW base, WellListed(base), NEW q \in Seq(Scorers), NEW r, r = CreditAll(base, q)
  PROVE  \E d : Counting(d, base, q) /\ d[Len(q)] = r
<1> PICK n \in Nat : n = Len(q)
  OBVIOUS
<1>1. DOMAIN q = 1 .. n /\ \A k \in 1 .. n : q[k] \in Scorers
  OBVIOUS
<1>2. PICK d : Stages("credit", d, base, q) /\ d[n] = r
  BY <1>1, CreditStages
<1>3. d[0] = base /\ \A k \in 1 .. n : d[k] = Counted(d[k - 1], q[k])
  BY <1>2 DEF Stages, Step
<1> DEFINE T == {k \in Nat : k <= n => WellListed(d[k]) /\ (base # <<>> => d[k] # <<>>)}
<1>4. 0 \in T
  BY <1>3
<1>5. ASSUME NEW k \in T
      PROVE  k + 1 \in T
  <2> SUFFICES ASSUME k + 1 <= n PROVE WellListed(d[k + 1]) /\ (base # <<>> => d[k + 1] # <<>>)
    OBVIOUS
  <2>1. /\ k \in Nat /\ k + 1 \in 1 .. n /\ (k + 1) - 1 = k
        /\ WellListed(d[k]) /\ (base # <<>> => d[k] # <<>>)
    OBVIOUS
  <2> PICK s, p, t : s = d[k] /\ p = q[k + 1] /\ t = d[k + 1]
    OBVIOUS
  <2>2. p \in Scorers /\ t = Counted(s, p) /\ WellListed(s)
    BY <1>1, <1>3, <2>1
  <2>3. WellListed(t) /\ (s # <<>> => t # <<>>)
    BY <2>2, CountedFacts
  <2> QED  BY <2>1, <2>3
<1>6. T = Nat
  <2> HIDE DEF T
  <2>1. T \in SUBSET Nat
    BY DEF T
  <2> QED  BY <1>4, <1>5, <2>1, Induction
<1>7. ASSUME NEW k \in 0 .. n
      PROVE  WellListed(d[k]) /\ (base # <<>> => d[k] # <<>>)
  <2>1. k \in T /\ k <= n
    BY <1>6
  <2> QED  BY <2>1
<1>8. ASSUME NEW k \in 1 .. n
      PROVE  Gained(d[k - 1], d[k], q[k].id, Worth(q[k]))
  <2> PICK s, p, t : s = d[k - 1] /\ p = q[k] /\ t = d[k]
    OBVIOUS
  <2>1. k - 1 \in 0 .. n
    OBVIOUS
  <2>2. p \in Scorers /\ t = Counted(s, p) /\ WellListed(s)
    BY <1>1, <1>3, <1>7, <2>1
  <2>3. Gained(s, t, p.id, Worth(p))
    BY <2>2, CountedFacts
  <2> QED  BY <2>3
<1> HIDE DEF T
<1>9. Counting(d, base, q)
  BY <1>3, <1>7, <1>8 DEF Counting
<1> QED  BY <1>2, <1>9

\* Nobody loses by a match, and who is in it once gains no more than the points made.
Fair(base, q, r) ==
  \A c \in Clients :
    /\ TotalOf(r, c) >= TotalOf(base, c)
    /\ \/ TotalOf(r, c) = TotalOf(base, c)
       \/ \E k \in DOMAIN q : q[k].id = c /\ TotalOf(r, c) <= TotalOf(base, c) + q[k].points

LEMMA FairFacts ==
  ASSUME NEW base, WellListed(base), NEW q \in Seq(Scorers), Unique(q), NEW r, r = CreditAll(base, q)
  PROVE  Fair(base, q, r)
<1> PICK n \in Nat : n = Len(q)
  OBVIOUS
<1>1. DOMAIN q = 1 .. n /\ \A k \in 1 .. n : q[k] \in Scorers
  OBVIOUS
<1>2. PICK d : Counting(d, base, q) /\ d[n] = r
  BY CountingFacts
<1>3. d[0] = base /\ \A k \in 1 .. n : Gained(d[k - 1], d[k], q[k].id, Worth(q[k]))
  BY <1>2 DEF Counting
<1>4. \A k \in 0 .. n : WellListed(d[k])
  BY <1>2 DEF Counting
<1> SUFFICES ASSUME NEW c \in Clients
             PROVE  /\ TotalOf(r, c) >= TotalOf(base, c)
                    /\ \/ TotalOf(r, c) = TotalOf(base, c)
                       \/ \E k \in DOMAIN q : q[k].id = c /\ TotalOf(r, c) <= TotalOf(base, c) + q[k].points
  BY DEF Fair
<1> PICK b \in Nat : b = TotalOf(base, c)
  BY TotalFacts
<1> DEFINE Before(k) == \E j \in 1 .. k : q[j].id = c
           P(k) == \/ TotalOf(d[k], c) = b
                   \/ \E j \in 1 .. k : q[j].id = c /\ TotalOf(d[k], c) = b + Worth(q[j])
           T == {k \in Nat : k <= n => P(k) /\ (~Before(k) => TotalOf(d[k], c) = b)}
<1>5. 0 \in T
  BY <1>3
<1>6. ASSUME NEW k \in T
      PROVE  k + 1 \in T
  <2> SUFFICES ASSUME k + 1 <= n PROVE P(k + 1) /\ (~Before(k + 1) => TotalOf(d[k + 1], c) = b)
    OBVIOUS
  <2>1. k \in Nat /\ k + 1 \in 1 .. n /\ (k + 1) - 1 = k /\ P(k) /\ (~Before(k) => TotalOf(d[k], c) = b)
    OBVIOUS
  <2>2. \A j \in 1 .. k : j \in 1 .. k + 1 /\ j \in 1 .. n /\ j # k + 1
    BY <2>1
  <2> PICK p \in Scorers : p = q[k + 1]
    BY <1>1, <2>1
  <2>3. Worth(p) \in Nat
    BY ScorerFacts
  <2>4. TotalOf(d[k + 1], c) = TotalOf(d[k], c) + (IF c = p.id THEN Worth(p) ELSE 0)
    BY <1>3, <2>1 DEF Gained
  <2>5. CASE p.id = c
    <3>1. ~Before(k)
      BY <1>1, <2>1, <2>2, <2>5 DEF Unique
    <3>2. TotalOf(d[k + 1], c) = b + Worth(q[k + 1])
      BY <2>1, <2>4, <2>5, <3>1
    <3>3. k + 1 \in 1 .. k + 1
      BY <2>1
    <3> QED  BY <2>5, <3>2, <3>3
  <2>6. CASE p.id # c
    <3> PICK t \in Nat : t = TotalOf(d[k], c)
      <4>1. k \in 0 .. n
        BY <2>1
      <4> QED  BY <1>4, <4>1, TotalFacts
    <3>1. TotalOf(d[k + 1], c) = t
      BY <2>4, <2>6
    <3>2. P(k + 1)
      BY <2>1, <2>2, <3>1
    <3>3. Before(k) => Before(k + 1)
      BY <2>2
    <3> QED  BY <2>1, <3>1, <3>2, <3>3
  <2> QED  BY <2>5, <2>6
<1>7. T = Nat
  <2> HIDE DEF T
  <2>1. T \in SUBSET Nat
    BY DEF T
  <2> QED  BY <1>5, <1>6, <2>1, Induction
<1>8. P(n)
  <2>1. n \in T /\ n <= n
    BY <1>7
  <2> QED  BY <2>1
<1> HIDE DEF T
<1>9. CASE TotalOf(r, c) = b
  BY <1>9
<1>10. CASE \E j \in 1 .. n : q[j].id = c /\ TotalOf(r, c) = b + Worth(q[j])
  <2>1. PICK j \in 1 .. n : q[j].id = c /\ TotalOf(r, c) = b + Worth(q[j])
    BY <1>10
  <2> PICK p \in Scorers : p = q[j]
    BY <1>1
  <2>2. Worth(p) \in Nat /\ p.points \in Nat /\ Worth(p) <= p.points
    BY ScorerFacts
  <2>3. TotalOf(r, c) >= b /\ TotalOf(r, c) <= b + q[j].points
    BY <2>1, <2>2
  <2> QED  BY <1>1, <2>1, <2>3
<1> QED  BY <1>2, <1>8, <1>9, <1>10

\* Of two ladders the one that is behind stays behind.
Behind(a, b) == \A c \in Clients : TotalOf(a, c) <= TotalOf(b, c)

LEMMA BehindFacts ==
  ASSUME NEW a, WellListed(a), NEW b, WellListed(b), Behind(a, b), NEW q \in Seq(Scorers),
         NEW r, r = CreditAll(a, q), NEW s, s = CreditAll(b, q)
  PROVE  Behind(r, s)
<1> PICK n \in Nat : n = Len(q)
  OBVIOUS
<1>1. DOMAIN q = 1 .. n /\ \A k \in 1 .. n : q[k] \in Scorers
  OBVIOUS
<1>2. PICK d : Counting(d, a, q) /\ d[n] = r
  BY CountingFacts
<1>3. PICK e : Counting(e, b, q) /\ e[n] = s
  BY CountingFacts
<1>4. /\ d[0] = a /\ \A k \in 1 .. n : Gained(d[k - 1], d[k], q[k].id, Worth(q[k]))
      /\ \A k \in 0 .. n : WellListed(d[k])
  BY <1>2 DEF Counting
<1>5. /\ e[0] = b /\ \A k \in 1 .. n : Gained(e[k - 1], e[k], q[k].id, Worth(q[k]))
      /\ \A k \in 0 .. n : WellListed(e[k])
  BY <1>3 DEF Counting
<1> DEFINE T == {k \in Nat : k <= n => Behind(d[k], e[k])}
<1>6. 0 \in T
  BY <1>4, <1>5
<1>7. ASSUME NEW k \in T
      PROVE  k + 1 \in T
  <2> SUFFICES ASSUME k + 1 <= n PROVE Behind(d[k + 1], e[k + 1])
    OBVIOUS
  <2>1. k \in Nat /\ k \in 0 .. n /\ k + 1 \in 1 .. n /\ (k + 1) - 1 = k /\ Behind(d[k], e[k])
    OBVIOUS
  <2> SUFFICES ASSUME NEW c \in Clients PROVE TotalOf(d[k + 1], c) <= TotalOf(e[k + 1], c)
    BY DEF Behind
  <2> PICK p \in Scorers : p = q[k + 1]
    BY <1>1, <2>1
  <2> PICK g \in Nat : g = IF c = p.id THEN Worth(p) ELSE 0
    BY ScorerFacts
  <2>2. TotalOf(d[k + 1], c) = TotalOf(d[k], c) + g
    BY <1>4, <2>1 DEF Gained
  <2>3. TotalOf(e[k + 1], c) = TotalOf(e[k], c) + g
    BY <1>5, <2>1 DEF Gained
  <2>4. TotalOf(d[k], c) \in Nat /\ TotalOf(e[k], c) \in Nat
    BY <1>4, <1>5, <2>1, TotalFacts
  <2>5. TotalOf(d[k], c) <= TotalOf(e[k], c)
    BY <2>1 DEF Behind
  <2> QED  BY <2>2, <2>3, <2>4, <2>5
<1>8. T = Nat
  <2> HIDE DEF T
  <2>1. T \in SUBSET Nat
    BY DEF T
  <2> QED  BY <1>6, <1>7, <2>1, Induction
<1>9. n \in T /\ n <= n
  BY <1>8
<1> QED  BY <1>2, <1>3, <1>9

\* A list that is put in order and ranked.
LEMMA SettledFacts ==
  ASSUME NEW list, WellListed(list), NEW r, r = Ranked(SortEntries(list))
  PROVE  Standing(r) /\ (list # <<>> => r # <<>>) /\ \A c : TotalOf(r, c) = TotalOf(list, c)
<1> PICK s : s = SortEntries(list)
  OBVIOUS
<1>1. s \in Seq(Entries) /\ IsOrdered(s) /\ SameScores(list, s) /\ (list # <<>> => s # <<>>)
  BY SortFacts
<1>2. Standing(r) /\ SameScores(s, r) /\ (s # <<>> => r # <<>>)
  BY <1>1, RankedFacts
<1>3. SameScores(list, r)
  BY <1>1, <1>2 DEF SameScores
<1>4. WellListed(r)
  BY <1>2, StandingFacts
<1>5. ASSUME NEW c
      PROVE  TotalOf(r, c) = TotalOf(list, c)
  BY <1>3, <1>4, SameTotals
<1> QED  BY <1>1, <1>2, <1>5

----------------------------------------------------------------------------
(***************************************************************************)
(* The match                                                               *)
(***************************************************************************)
Scoring == UNION {[S -> 0 .. MaxPoints] : S \in SUBSET Clients}
Lines == [kind : {"join", "leave"}, who : Clients] \cup [kind : {"end", "start", "ready"}]
         \cup [kind : {"changing"}, seamless : BOOLEAN] \cup [kind : {"list"}, rows : Scoring]
         \cup [kind : {"rec"}, by : Clients, of : Clients]

GameOK ==
  /\ game \in [match : 0 .. MaxMatches, phase : {"playing", "over", "travelling"}, score : Scoring]
  /\ career \in [Clients -> 0 .. MaxPoints]
  /\ \A c \in DOMAIN game.score : game.score[c] <= career[c]

ServerOK ==
  /\ server \in [up : BOOLEAN, ranked : BOOLEAN, reliable : BOOLEAN, players : Seq(Scorers)]
  /\ Unique(server.players)
  /\ ~server.up => server.players = <<>> /\ rx = <<>> /\ tx = <<>>

StreamOK == tx \in Seq({"list", "ping"}) /\ rx \in Seq(Lines)

MatchOK == GameOK /\ ServerOK /\ StreamOK

LEMMA Bounds == MaxPoints \in Nat /\ MaxMatches \in Nat /\ IsFiniteSet(Clients) /\ 0 \in 0 .. MaxPoints
<1> QED  BY MatchAssumption

LEMMA ScoringFacts ==
  ASSUME NEW f \in Scoring
  PROVE  DOMAIN f \in SUBSET Clients /\ f \in [DOMAIN f -> 0 .. MaxPoints]
<1> QED  BY DEF Scoring

LEMMA IsScoring ==
  ASSUME NEW S \in SUBSET Clients, NEW f \in [S -> 0 .. MaxPoints]
  PROVE  f \in Scoring /\ DOMAIN f = S
<1> QED  BY DEF Scoring

LEMMA LineFacts ==
  ASSUME NEW line \in Lines
  PROVE  /\ line.kind \in {"join", "leave"} => line.who \in Clients
         /\ line.kind = "list" => line.rows \in Scoring
         /\ line.kind = "changing" => line.seamless \in BOOLEAN
<1> QED  BY DEF Lines

LEMMA GameFacts ==
  ASSUME GameOK
  PROVE  /\ game.match \in 0 .. MaxMatches /\ game.phase \in {"playing", "over", "travelling"}
         /\ game.score \in Scoring /\ DOMAIN game.score \in SUBSET Clients
         /\ \A c \in DOMAIN game.score : game.score[c] \in 0 .. MaxPoints /\ game.score[c] <= career[c]
         /\ \A c \in Clients : career[c] \in 0 .. MaxPoints /\ career[c] \in Nat
<1>1. game.score \in Scoring
  BY DEF GameOK
<1>2. DOMAIN game.score \in SUBSET Clients /\ game.score \in [DOMAIN game.score -> 0 .. MaxPoints]
  BY <1>1, ScoringFacts
<1> QED  BY <1>1, <1>2, Bounds DEF GameOK

LEMMA ServerFacts ==
  ASSUME ServerOK
  PROVE  /\ server.up \in BOOLEAN /\ server.ranked \in BOOLEAN /\ server.reliable \in BOOLEAN
         /\ server.players \in Seq(Scorers) /\ DOMAIN server.players = 1 .. Len(server.players)
         /\ Len(server.players) \in Nat
         /\ \A i \in DOMAIN server.players : server.players[i] \in Scorers
         /\ Listed \in SUBSET Clients
<1>1. /\ server.up \in BOOLEAN /\ server.ranked \in BOOLEAN /\ server.reliable \in BOOLEAN
      /\ server.players \in Seq(Scorers)
  BY DEF ServerOK
<1>2. /\ DOMAIN server.players = 1 .. Len(server.players) /\ Len(server.players) \in Nat
      /\ \A i \in DOMAIN server.players : server.players[i] \in Scorers
  BY <1>1
<1>3. \A i \in DOMAIN server.players : server.players[i].id \in Clients
  BY <1>2, ScorerFacts
<1> QED  BY <1>1, <1>2, <1>3 DEF Listed

\* What is in a sequence that is written to, or read from.
LEMMA WrittenFacts ==
  ASSUME NEW S, NEW q \in Seq(S), NEW x \in S, NEW r, r = Append(q, x)
  PROVE  /\ r \in Seq(S) /\ Len(r) = Len(q) + 1 /\ DOMAIN r = 1 .. Len(q) + 1
         /\ \A i \in DOMAIN q : i \in DOMAIN r /\ r[i] = q[i]
         /\ Len(q) + 1 \in DOMAIN r /\ r[Len(q) + 1] = x
         /\ \A i \in DOMAIN r : i \in DOMAIN q \/ i = Len(q) + 1
<1>1. r \in Seq(S) /\ Len(r) = Len(q) + 1 /\ Len(q) \in Nat /\ DOMAIN q = 1 .. Len(q)
  OBVIOUS
<1>2. DOMAIN r = 1 .. Len(q) + 1
  BY <1>1
<1>3. r[Len(q) + 1] = x /\ \A i \in 1 .. Len(q) : r[i] = q[i]
  OBVIOUS
<1>4. \A i \in 1 .. Len(q) : i \in 1 .. Len(q) + 1
  BY <1>1
<1>5. \A i \in 1 .. Len(q) + 1 : i \in 1 .. Len(q) \/ i = Len(q) + 1
  BY <1>1
<1>6. Len(q) + 1 \in 1 .. Len(q) + 1
  BY <1>1
<1> QED  BY <1>1, <1>2, <1>3, <1>4, <1>5, <1>6

LEMMA ReadFacts ==
  ASSUME NEW S, NEW q \in Seq(S), q # <<>>, NEW r, r = Tail(q)
  PROVE  /\ r \in Seq(S) /\ Head(q) = q[1] /\ Head(q) \in S /\ 1 \in DOMAIN q
         /\ \A i \in DOMAIN r : i + 1 \in DOMAIN q /\ r[i] = q[i + 1] /\ i \in Nat \ {0}
         /\ \A i \in DOMAIN q : i = 1 \/ (i - 1 \in DOMAIN r /\ r[i - 1] = q[i])
<1>1. /\ r \in Seq(S) /\ Len(q) \in Nat /\ Len(q) > 0 /\ Len(r) = Len(q) - 1
      /\ DOMAIN q = 1 .. Len(q) /\ DOMAIN r = 1 .. Len(r)
  OBVIOUS
<1>2. Head(q) = q[1] /\ \A i \in 1 .. Len(r) : r[i] = q[i + 1]
  OBVIOUS
<1>3. 1 \in 1 .. Len(q) /\ \A i \in 1 .. Len(r) : i + 1 \in 1 .. Len(q) /\ i \in Nat \ {0}
  BY <1>1
<1>4. \A i \in 1 .. Len(q) : i = 1 \/ (i - 1 \in 1 .. Len(r) /\ (i - 1) + 1 = i)
  BY <1>1
<1> QED  BY <1>1, <1>2, <1>3, <1>4

\* The game writes a line.
LEMMA LogFacts ==
  ASSUME StreamOK, NEW line \in Lines, Log(line)
  PROVE  rx' \in Seq(Lines) /\ (~server.up => rx' = rx) /\ (server.up => rx' = Append(rx, line))
<1>1. rx \in Seq(Lines) /\ rx' = IF server.up THEN Append(rx, line) ELSE rx
  BY DEF StreamOK, Log
<1>2. Append(rx, line) \in Seq(Lines)
  BY <1>1
<1> QED  BY <1>1, <1>2

\* A line is handled.
LEMMA HandleFacts ==
  ASSUME MatchOK, NEW kind, Handle(kind)
  PROVE  /\ server.up /\ rx # <<>> /\ rx' = Tail(rx) /\ rx' \in Seq(Lines) /\ UNCHANGED gameVars
         /\ Line \in Lines /\ Line.kind = kind /\ Line = rx[1]
<1>1. server.up /\ rx # <<>> /\ rx' = Tail(rx) /\ UNCHANGED gameVars /\ Head(rx).kind = kind
  BY DEF Handle
<1>2. rx \in Seq(Lines)
  BY DEF MatchOK, StreamOK
<1> QED  BY <1>1, <1>2, ReadFacts DEF Line

----------------------------------------------------------------------------
(***************************************************************************)
(* The list of players                                                     *)
(***************************************************************************)
Players(list) == list \in Seq(Scorers) /\ Unique(list)

LEMMA ListingFacts ==
  ASSUME NEW S, IsFiniteSet(S), NEW q, q = SetToSeq(S)
  PROVE  /\ Len(q) \in Nat /\ q \in [1 .. Len(q) -> S] /\ IsInjective(q)
         /\ \A x \in S : \E k \in 1 .. Len(q) : q[k] = x
<1>1. Cardinality(S) \in Nat /\ ExistsBijection(1 .. Cardinality(S), S)
  BY FS_CardinalityType
<1> PICK n \in Nat : n = Cardinality(S)
  BY <1>1
<1>2. \E f \in [1 .. n -> S] : IsInjective(f)
  <2>1. PICK f : f \in Bijection(1 .. n, S)
    BY <1>1 DEF ExistsBijection
  <2>2. f \in [1 .. n -> S] /\ \A a, b \in 1 .. n : f[a] = f[b] => a = b
    BY <2>1 DEF Bijection, Injection, IsInjective
  <2> QED  BY <2>2 DEF IsInjective
<1>3. q \in [1 .. n -> S] /\ IsInjective(q)
  BY <1>2 DEF SetToSeq
<1>4. q \in Injection(1 .. n, S)
  BY <1>3 DEF Injection, IsInjective
<1>5. IsFiniteSet(1 .. n) /\ Cardinality(1 .. n) = n
  BY FS_Interval
<1>6. q \in Surjection(1 .. n, S)
  BY <1>4, <1>5, FS_Injection
<1>7. Len(q) = n
  BY <1>3
<1> QED  BY <1>3, <1>6, <1>7 DEF Surjection

\* Who is listed when a list was read, and with what: as the rows say, or as before.
FromRows(q, list, rows) ==
  \A k \in DOMAIN q : \/ q[k].id \in DOMAIN rows /\ q[k].points = rows[q[k].id]
                      \/ \E i \in DOMAIN list : q[k] = list[i]

\* Two lists of different players are one after the other.
From(q, a, b) ==
  \A k \in DOMAIN q : (\E i \in DOMAIN a : q[k] = a[i]) \/ (\E i \in DOMAIN b : q[k] = b[i])

LEMMA MergeFacts ==
  ASSUME NEW a, Players(a), NEW b, Players(b),
         \A i \in DOMAIN a, j \in DOMAIN b : a[i].id # b[j].id,
         NEW q, q = a \o b
  PROVE  Players(q) /\ From(q, a, b)
<1>1. a \in Seq(Scorers) /\ b \in Seq(Scorers) /\ Unique(a) /\ Unique(b)
  BY DEF Players
<1> PICK n \in Nat, m \in Nat : n = Len(a) /\ m = Len(b)
  BY <1>1
<1>2. DOMAIN a = 1 .. n /\ DOMAIN b = 1 .. m
  BY <1>1
<1>3. Joined(Scorers, a, b, q)
  BY <1>1, ConcatFacts
<1>4. /\ q \in Seq(Scorers) /\ Len(q) = n + m
      /\ \A i \in 1 .. n + m : q[i] = IF i <= n THEN a[i] ELSE b[i - n]
  BY <1>3 DEF Joined
<1>5. DOMAIN q = 1 .. n + m
  BY <1>4
<1>6. \A i \in 1 .. n + m : \/ i \in 1 .. n /\ q[i] = a[i]
                            \/ i - n \in 1 .. m /\ i > n /\ q[i] = b[i - n]
  <2> TAKE i \in 1 .. n + m
  <2>1. i \in 1 .. n \/ (i - n \in 1 .. m /\ ~(i <= n) /\ i > n)
    OBVIOUS
  <2> QED  BY <1>4, <2>1
<1>7. Unique(q)
  <2> SUFFICES ASSUME NEW i \in 1 .. n + m, NEW j \in 1 .. n + m, q[i].id = q[j].id
               PROVE  i = j
    BY <1>5 DEF Unique
  <2>1. CASE i \in 1 .. n /\ q[i] = a[i] /\ j \in 1 .. n /\ q[j] = a[j]
    BY <1>1, <1>2, <2>1 DEF Unique
  <2>2. CASE i - n \in 1 .. m /\ q[i] = b[i - n] /\ j - n \in 1 .. m /\ q[j] = b[j - n]
    <3>1. i - n = j - n
      BY <1>1, <1>2, <2>2 DEF Unique
    <3> QED  BY <3>1
  <2>3. CASE i \in 1 .. n /\ q[i] = a[i] /\ j - n \in 1 .. m /\ q[j] = b[j - n]
    BY <1>2, <2>3
  <2>4. CASE i - n \in 1 .. m /\ q[i] = b[i - n] /\ j \in 1 .. n /\ q[j] = a[j]
    BY <1>2, <2>4
  <2> QED  BY <1>6, <2>1, <2>2, <2>3, <2>4
<1>8. From(q, a, b)
  BY <1>2, <1>5, <1>6 DEF From
<1> QED  BY <1>4, <1>7, <1>8 DEF Players

\* A list as long as another.
AsLong(list, other) == list = [i \in DOMAIN other |-> list[i]]

\* The players that a row names are given its points.
LEMMA KnownFacts ==
  ASSUME NEW list, Players(list), NEW rows \in Scoring,
         NEW known, AsLong(known, list),
         \A i \in DOMAIN list : known[i] = IF list[i].id \in DOMAIN rows
                                             THEN Player(list[i].id, rows[list[i].id]) ELSE list[i]
  PROVE  Players(known) /\ FromRows(known, list, rows) /\ \A i \in DOMAIN list : known[i].id = list[i].id
<1> PICK n \in Nat : n = Len(list)
  BY DEF Players
<1>1. /\ list \in Seq(Scorers) /\ Unique(list) /\ DOMAIN list = 1 .. n
      /\ \A i \in 1 .. n : list[i] \in Scorers
  BY DEF Players
<1>2. DOMAIN rows \in SUBSET Clients /\ \A c \in DOMAIN rows : rows[c] \in 0 .. MaxPoints
  BY ScoringFacts
<1>3. ASSUME NEW i \in 1 .. n
      PROVE  /\ known[i] \in Scorers /\ known[i].id = list[i].id
             /\ \/ known[i].id \in DOMAIN rows /\ known[i].points = rows[known[i].id]
                \/ known[i] = list[i]
  <2> PICK p \in Scorers : p = list[i]
    BY <1>1
  <2>1. p.id \in Clients
    BY ScorerFacts
  <2>2. known[i] = IF p.id \in DOMAIN rows THEN [id |-> p.id, points |-> rows[p.id]] ELSE p
    BY <1>1 DEF Player
  <2>3. CASE p.id \in DOMAIN rows
    <3>1. [id |-> p.id, points |-> rows[p.id]] \in Scorers
      BY <1>2, <2>1, <2>3 DEF Scorers
    <3> QED  BY <2>2, <2>3, <3>1
  <2>4. CASE p.id \notin DOMAIN rows
    BY <2>2, <2>4
  <2> QED  BY <2>3, <2>4
<1>4. DOMAIN known = 1 .. n /\ known \in [1 .. n -> Scorers]
  BY <1>1, <1>3 DEF AsLong
<1>5. known \in Seq(Scorers)
  BY <1>4
<1>6. Unique(known)
  BY <1>1, <1>3, <1>4 DEF Unique
<1>7. FromRows(known, list, rows)
  BY <1>1, <1>3, <1>4 DEF FromRows
<1> QED  BY <1>1, <1>3, <1>5, <1>6, <1>7 DEF Players

\* Those who were not listed are listed with the points of their rows.
AddedBy(rows, S) == LET new == SetToSeq(S) IN [i \in DOMAIN new |-> Player(new[i], rows[new[i]])]
KnownIn(list, rows) ==
  [i \in DOMAIN list |-> LET p == list[i] IN IF p.id \in DOMAIN rows THEN Player(p.id, rows[p.id]) ELSE p]

IsListing(new, S) == Len(new) \in Nat /\ new \in [1 .. Len(new) -> S] /\ IsInjective(new)

AddedAs(b, rows, new) == b = [i \in DOMAIN new |-> Player(new[i], rows[new[i]])]

LEMMA AddedByListing ==
  ASSUME NEW rows, NEW S, IsFiniteSet(S), NEW b, b = AddedBy(rows, S)
  PROVE  \E new : IsListing(new, S) /\ AddedAs(b, rows, new)
<1>1. IsListing(SetToSeq(S), S)
  BY ListingFacts, Zenon DEF IsListing
<1> QED  BY <1>1, Zenon DEF AddedBy, AddedAs

LEMMA AddedByFacts ==
  ASSUME NEW rows \in Scoring, NEW S \in SUBSET DOMAIN rows, NEW b, b = AddedBy(rows, S)
  PROVE  Players(b) /\ \A i \in DOMAIN b : b[i].id \in S /\ b[i].points = rows[b[i].id]
<1>1. DOMAIN rows \in SUBSET Clients /\ \A c \in DOMAIN rows : rows[c] \in 0 .. MaxPoints
  BY ScoringFacts
<1>2. IsFiniteSet(S)
  <2>1. S \in SUBSET Clients
    BY <1>1
  <2> QED  BY <2>1, Bounds, FS_Subset
<1>3. PICK new : IsListing(new, S) /\ AddedAs(b, rows, new)
  BY <1>2, AddedByListing
<1>9. Len(new) \in Nat
  BY <1>3 DEF IsListing
<1> PICK m \in Nat : m = Len(new)
  BY <1>9, Zenon
<1>4. new \in [1 .. m -> S] /\ IsInjective(new)
  BY <1>3 DEF IsListing
<1>5. DOMAIN new = 1 .. m /\ \A i \in 1 .. m : new[i] \in S
  BY <1>4
<1>6. DOMAIN b = DOMAIN new /\ \A i \in DOMAIN new : b[i] = Player(new[i], rows[new[i]])
  BY <1>3 DEF AddedAs
<1>7. \A c \in S : Player(c, rows[c]) \in Scorers
  BY <1>1 DEF Player, Scorers
<1>8. b \in Seq(Scorers)
  <2>1. \A i \in 1 .. m : b[i] \in Scorers
    BY <1>5, <1>6, <1>7
  <2>2. b \in [1 .. m -> Scorers]
    BY <1>3, <1>5, <2>1 DEF AddedAs
  <2> QED  BY <2>2
<1>10. ASSUME NEW i \in 1 .. m
       PROVE  b[i].id = new[i] /\ new[i] \in S /\ b[i].points = rows[b[i].id]
  BY <1>5, <1>6 DEF Player
<1>11. DOMAIN b = 1 .. m
  BY <1>5, <1>6
<1>12. \A i, j \in 1 .. m : new[i] = new[j] => i = j
  BY <1>4, <1>5 DEF IsInjective
<1>13. Unique(b)
  BY <1>10, <1>11, <1>12 DEF Unique
<1> QED  BY <1>8, <1>10, <1>11, <1>13 DEF Players

LEMMA RowFacts ==
  ASSUME NEW list, Players(list), NEW rows \in Scoring,
         NEW S \in SUBSET DOMAIN rows, \A i \in DOMAIN list : list[i].id \notin S,
         NEW known, known = KnownIn(list, rows), NEW b, b = AddedBy(rows, S),
         NEW q, q = known \o b
  PROVE  Players(q) /\ FromRows(q, list, rows)
<1>1. DOMAIN known = DOMAIN list /\ AsLong(known, list)
  BY DEF KnownIn, AsLong
<1>2. \A i \in DOMAIN list : known[i] = IF list[i].id \in DOMAIN rows
                                          THEN Player(list[i].id, rows[list[i].id]) ELSE list[i]
  BY DEF KnownIn
<1>3. Players(known) /\ FromRows(known, list, rows) /\ \A i \in DOMAIN list : known[i].id = list[i].id
  BY <1>1, <1>2, KnownFacts
<1>4. Players(b) /\ \A i \in DOMAIN b : b[i].id \in S /\ b[i].points = rows[b[i].id]
  BY AddedByFacts
<1>5. \A i \in DOMAIN known, j \in DOMAIN b : known[i].id # b[j].id
  BY <1>1, <1>3, <1>4
<1>6. Players(q) /\ From(q, known, b)
  BY <1>3, <1>4, <1>5, MergeFacts
<1>7. FromRows(q, list, rows)
  BY <1>3, <1>4, <1>6 DEF FromRows, From
<1> QED  BY <1>6, <1>7

LEMMA CompletedFacts ==
  ASSUME Players(server.players), Line.rows \in Scoring, NEW q, q = Completed
  PROVE  Players(q) /\ FromRows(q, server.players, Line.rows)
<1> PICK list, rows : list = server.players /\ rows = Line.rows
  OBVIOUS
<1> PICK S : S = DOMAIN rows \ Listed
  OBVIOUS
<1> PICK known : known = KnownIn(list, rows)
  OBVIOUS
<1> PICK b : b = AddedBy(rows, S)
  OBVIOUS
<1>1. q = known \o b
  BY Zenon DEF Completed, KnownIn, AddedBy
<1>2. Players(list) /\ rows \in Scoring /\ S \in SUBSET DOMAIN rows /\ \A i \in DOMAIN list : list[i].id \notin S
  BY DEF Listed
<1> HIDE <1>2
<1> QED  BY <1>1, <1>2, RowFacts

\* A player who has joined is listed last.
With(list, c) == IF c \in {list[i].id : i \in DOMAIN list} THEN list ELSE Append(list, Player(c, 0))

LEMMA JoinFacts ==
  ASSUME NEW list, Players(list), NEW c \in Clients, NEW r, r = With(list, c)
  PROVE  Players(r) /\ \A i \in DOMAIN r : r[i].points = 0 \/ \E j \in DOMAIN list : r[i] = list[j]
<1>1. CASE \A i \in DOMAIN list : list[i].id # c
  <2> PICK p : p = [id |-> c, points |-> 0]
    OBVIOUS
  <2>1. p \in Scorers /\ p.id = c /\ p.points = 0
    BY Bounds DEF Scorers
  <2>2. r = Append(list, p)
    BY <1>1 DEF With, Player
  <2>3. list \in Seq(Scorers) /\ Unique(list)
    BY DEF Players
  <2>4. /\ r \in Seq(Scorers)
        /\ \A i \in DOMAIN list : i \in DOMAIN r /\ r[i] = list[i]
        /\ r[Len(list) + 1] = p
        /\ \A i \in DOMAIN r : i \in DOMAIN list \/ i = Len(list) + 1
    BY <2>1, <2>2, <2>3, WrittenFacts
  <2>5. Unique(r)
    BY <1>1, <2>1, <2>3, <2>4 DEF Unique
  <2> QED  BY <2>1, <2>4, <2>5 DEF Players
<1>2. CASE ~\A i \in DOMAIN list : list[i].id # c
  BY <1>2 DEF With
<1> QED  BY <1>1, <1>2

\* What is left of a list: some of its players.
Without(list, c) == RemoveFirstMatch(list, LAMBDA p : p.id = c)

LEMMA LeaveFacts ==
  ASSUME NEW list, Players(list), NEW c, NEW r, r = Without(list, c)
  PROVE  Players(r) /\ \A i \in DOMAIN r : \E j \in DOMAIN list : r[i] = list[j]
<1> PICK n \in Nat : n = Len(list)
  BY DEF Players
<1>1. list \in Seq(Scorers) /\ Unique(list) /\ DOMAIN list = 1 .. n
  BY DEF Players
<1> DEFINE I == {i \in 1 .. n : list[i].id = c}
<1>2. CASE I = {}
  <2>1. r = list
    BY <1>2 DEF Without, RemoveFirstMatch
  <2> QED  BY <2>1
<1>3. CASE I # {}
  <2> PICK k : k = Min(I)
    OBVIOUS
  <2>1. k \in 1 .. n
    <3>1. I \in SUBSET Nat
      OBVIOUS
    <3>2. k \in I
      <4> HIDE DEF I
      <4> QED  BY <1>3, <3>1, MinFacts
    <3> QED  BY <3>2
  <2>2. r = RemoveAt(list, k)
    BY <1>3 DEF Without, RemoveFirstMatch, SelectInSeq
  <2> HIDE DEF I
  <2> DEFINE a == SubSeq(list, 1, k - 1)
             b == SubSeq(list, k + 1, n)
  <2>3. a \in Seq(Scorers) /\ Len(a) = k - 1 /\ \A j \in 1 .. k - 1 : a[j] = list[j]
    BY <1>1, <2>1
  <2>4. b \in Seq(Scorers) /\ Len(b) = n - k /\ \A j \in 1 .. n - k : b[j] = list[k + j]
    BY <1>1, <2>1
  <2>5. r = a \o b
    BY <2>2 DEF RemoveAt
  <2> HIDE DEF a, b
  <2>6. /\ r \in Seq(Scorers) /\ Len(r) = (k - 1) + (n - k)
        /\ \A j \in 1 .. (k - 1) + (n - k) : r[j] = IF j <= k - 1 THEN a[j] ELSE b[j - (k - 1)]
    <3> PICK a2 \in Seq(Scorers), b2 \in Seq(Scorers) : a2 = a /\ b2 = b
      BY <2>3, <2>4
    <3>1. Joined(Scorers, a2, b2, r)
      BY <2>5, ConcatFacts
    <3>2. Len(a2) = k - 1 /\ Len(b2) = n - k
      BY <2>3, <2>4
    <3>3. /\ r \in Seq(Scorers) /\ Len(r) = Len(a2) + Len(b2)
          /\ \A j \in 1 .. Len(a2) + Len(b2) : r[j] = IF j <= Len(a2) THEN a2[j] ELSE b2[j - Len(a2)]
      BY <3>1 DEF Joined
    <3> QED  BY <3>2, <3>3
  <2> DEFINE old(j) == IF j <= k - 1 THEN j ELSE j + 1
  <2>7. (k - 1) + (n - k) = n - 1 /\ DOMAIN r = 1 .. n - 1
    <3>1. (k - 1) + (n - k) = n - 1
      BY <2>1
    <3> QED  BY <2>6, <3>1
  <2>8. ASSUME NEW j \in 1 .. n - 1
        PROVE  old(j) \in 1 .. n /\ r[j] = list[old(j)]
    <3>1. CASE j <= k - 1
      <4>1. j \in 1 .. k - 1 /\ j \in 1 .. n
        BY <2>1, <3>1
      <4> QED  BY <2>3, <2>6, <2>7, <3>1, <4>1
    <3>2. CASE ~(j <= k - 1)
      <4>1. j - (k - 1) \in 1 .. n - k /\ k + (j - (k - 1)) = j + 1 /\ j + 1 \in 1 .. n
        BY <2>1, <3>2
      <4> QED  BY <2>4, <2>6, <2>7, <3>2, <4>1
    <3> QED  BY <3>1, <3>2
  <2>9. \A i, j \in 1 .. n - 1 : old(i) = old(j) => i = j
    BY <2>1
  <2> HIDE DEF old
  <2>10. Unique(r)
    <3> SUFFICES ASSUME NEW i \in 1 .. n - 1, NEW j \in 1 .. n - 1, r[i].id = r[j].id
                 PROVE  i = j
      BY <2>7 DEF Unique
    <3>1. list[old(i)].id = list[old(j)].id /\ old(i) \in DOMAIN list /\ old(j) \in DOMAIN list
      BY <1>1, <2>8
    <3>2. old(i) = old(j)
      BY <1>1, <3>1 DEF Unique
    <3> QED  BY <2>9, <3>2
  <2>11. \A i \in DOMAIN r : \E j \in DOMAIN list : r[i] = list[j]
    BY <1>1, <2>7, <2>8
  <2> QED  BY <2>6, <2>10, <2>11 DEF Players
<1> QED  BY <1>2, <1>3

\* After a seamless change of map everybody is there, with nothing.
LEMMA ResetFacts ==
  ASSUME NEW list, Players(list), NEW r, r = [i \in DOMAIN list |-> Player(list[i].id, 0)]
  PROVE  Players(r) /\ \A i \in DOMAIN r : r[i].points = 0
<1> PICK n \in Nat : n = Len(list)
  BY DEF Players
<1>1. list \in Seq(Scorers) /\ Unique(list) /\ DOMAIN list = 1 .. n /\ \A i \in 1 .. n : list[i] \in Scorers
  BY DEF Players
<1>2. ASSUME NEW i \in 1 .. n
      PROVE  r[i] \in Scorers /\ r[i].id = list[i].id /\ r[i].points = 0
  <2>1. list[i].id \in Clients
    BY <1>1, ScorerFacts
  <2>2. r[i] = [id |-> list[i].id, points |-> 0]
    BY <1>1 DEF Player
  <2>3. [id |-> list[i].id, points |-> 0] \in Scorers
    BY <2>1, Bounds DEF Scorers
  <2> QED  BY <2>2, <2>3
<1>3. r \in Seq(Scorers) /\ DOMAIN r = 1 .. n
  <2>1. r \in [1 .. n -> Scorers]
    BY <1>1, <1>2
  <2> QED  BY <2>1
<1>4. Unique(r)
  BY <1>1, <1>2, <1>3 DEF Unique
<1> QED  BY <1>2, <1>3, <1>4 DEF Players

LEMMA NobodyFacts == Players(<<>>) /\ DOMAIN <<>> = {}
<1> PICK r : r = <<>>
  OBVIOUS
<1>1. r \in Seq(Scorers) /\ DOMAIN r = {}
  OBVIOUS
<1> QED  BY <1>1 DEF Players, Unique


----------------------------------------------------------------------------
(***************************************************************************)
(* The steps of the game and of the server                                 *)
(***************************************************************************)
LEMMA NewGame ==
  ASSUME GameOK, UNCHANGED career, NEW m \in 0 .. MaxMatches, NEW ph \in {"playing", "over", "travelling"},
         NEW S \in SUBSET Clients, NEW f \in [S -> 0 .. MaxPoints], \A x \in S : f[x] <= career[x],
         game' = [match |-> m, phase |-> ph, score |-> f]
  PROVE  GameOK'
<1>1. f \in Scoring /\ DOMAIN f = S
  BY IsScoring
<1> PICK g : g = game'
  OBVIOUS
<1>2. g \in [match : 0 .. MaxMatches, phase : {"playing", "over", "travelling"}, score : Scoring]
  BY <1>1
<1>3. g.score = f
  OBVIOUS
<1> QED  BY <1>1, <1>2, <1>3 DEF GameOK

LEMMA GameFields ==
  ASSUME GameOK
  PROVE  game = [match |-> game.match, phase |-> game.phase, score |-> game.score]
<1> QED  BY DEF GameOK

LEMMA GameJoin ==
  ASSUME GameOK, NEW c \in Clients, Join(c)
  PROVE  GameOK'
<1> PICK g, ph, m : g = game.score /\ ph = game.phase /\ m = game.match
  OBVIOUS
<1>1. /\ m \in 0 .. MaxMatches /\ ph \in {"playing", "over", "travelling"}
      /\ DOMAIN g \in SUBSET Clients /\ \A x \in DOMAIN g : g[x] \in 0 .. MaxPoints /\ g[x] <= career[x]
      /\ \A x \in Clients : career[x] \in Nat
  BY GameFacts
<1> PICK S \in SUBSET Clients : S = DOMAIN g \cup {c}
  BY <1>1
<1>2. PICK f : f = [x \in DOMAIN g \cup {c} |-> IF x = c THEN 0 ELSE g[x]]
  OBVIOUS
<1>3. f \in [S -> 0 .. MaxPoints] /\ \A x \in S : f[x] <= career[x]
  BY <1>1, <1>2, Bounds
<1>4. game' = [match |-> m, phase |-> ph, score |-> f] /\ UNCHANGED career
  BY <1>2, GameFields DEF Join
<1> QED  BY <1>1, <1>3, <1>4, NewGame

LEMMA GameLeave ==
  ASSUME GameOK, NEW c \in Clients, Leave(c)
  PROVE  GameOK'
<1> PICK g, ph, m : g = game.score /\ ph = game.phase /\ m = game.match
  OBVIOUS
<1>1. /\ m \in 0 .. MaxMatches /\ ph \in {"playing", "over", "travelling"}
      /\ DOMAIN g \in SUBSET Clients /\ \A x \in DOMAIN g : g[x] \in 0 .. MaxPoints /\ g[x] <= career[x]
  BY GameFacts
<1>2. PICK f : f = [x \in DOMAIN g \ {c} |-> g[x]]
  OBVIOUS
<1>3. f \in [DOMAIN g \ {c} -> 0 .. MaxPoints] /\ \A x \in DOMAIN g \ {c} : f[x] <= career[x]
  BY <1>1, <1>2
<1>4. game' = [match |-> m, phase |-> ph, score |-> f] /\ UNCHANGED career
  BY <1>2, GameFields DEF Leave
<1> QED  BY <1>1, <1>3, <1>4, NewGame

\* What a player who scores has.
LEMMA ScoreFacts ==
  ASSUME GameOK, NEW c \in Clients, Score(c)
  PROVE  /\ GameOK'
         /\ DOMAIN game'.score = DOMAIN game.score
         /\ career' = [career EXCEPT ![c] = @ + 1]
         /\ \A x \in Clients : career'[x] = career[x] + (IF x = c THEN 1 ELSE 0)
         /\ \A x \in DOMAIN game.score : game'.score[x] = game.score[x] + (IF x = c THEN 1 ELSE 0)
         /\ game'.phase = game.phase
<1> PICK g, ph, m : g = game.score /\ ph = game.phase /\ m = game.match
  OBVIOUS
<1>1. /\ m \in 0 .. MaxMatches /\ ph \in {"playing", "over", "travelling"}
      /\ DOMAIN g \in SUBSET Clients
      /\ \A x \in DOMAIN g : g[x] \in Nat /\ g[x] <= career[x]
      /\ \A x \in Clients : career[x] \in 0 .. MaxPoints /\ career[x] \in Nat
  BY GameFacts, Bounds
<1>2. c \in DOMAIN g /\ career[c] < MaxPoints
  BY DEF Score
<1> PICK f : f = [g EXCEPT ![c] = @ + 1]
  OBVIOUS
<1>3. DOMAIN f = DOMAIN g /\ \A x \in DOMAIN g : f[x] = g[x] + (IF x = c THEN 1 ELSE 0)
  BY <1>1
<1>4. game' = [match |-> m, phase |-> ph, score |-> f]
  BY GameFields DEF Score
<1>5. /\ career' = [career EXCEPT ![c] = @ + 1] /\ career \in [Clients -> 0 .. MaxPoints]
      /\ career' \in [Clients -> 0 .. MaxPoints]
      /\ \A x \in Clients : career'[x] = career[x] + (IF x = c THEN 1 ELSE 0)
  <2>1. career' = [career EXCEPT ![c] = @ + 1] /\ career \in [Clients -> 0 .. MaxPoints]
    BY DEF Score, GameOK
  <2>2. career[c] + 1 \in 0 .. MaxPoints
    BY <1>1, <1>2, Bounds
  <2> QED  BY <1>1, <2>1, <2>2
<1>6. \A x \in DOMAIN g : f[x] <= career'[x] /\ f[x] \in 0 .. MaxPoints
  BY <1>1, <1>2, <1>3, <1>5, Bounds
<1>7. f \in Scoring
  <2>1. f \in [DOMAIN g -> 0 .. MaxPoints]
    <3>1. f = [x \in DOMAIN g |-> f[x]]
      OBVIOUS
    <3> QED  BY <1>6, <3>1
  <2> QED  BY <1>1, <2>1, IsScoring
<1> PICK h, e : h = game' /\ e = career'
  OBVIOUS
<1>8. h \in [match : 0 .. MaxMatches, phase : {"playing", "over", "travelling"}, score : Scoring] /\ h.score = f
  BY <1>1, <1>4, <1>7
<1>9. GameOK'
  BY <1>3, <1>5, <1>6, <1>8 DEF GameOK
<1>10. game'.score = f /\ game'.phase = ph
  BY <1>4
<1> QED  BY <1>3, <1>5, <1>9, <1>10

\* Another phase, or another match.
LEMMA PhaseFacts ==
  ASSUME GameOK, NEW ph \in {"playing", "over", "travelling"}, UNCHANGED career,
         game' = [match |-> game.match, phase |-> ph, score |-> game.score]
  PROVE  GameOK' /\ game'.phase = ph /\ game'.score = game.score
<1> PICK g, m : g = game.score /\ m = game.match
  OBVIOUS
<1>1. /\ m \in 0 .. MaxMatches
      /\ DOMAIN g \in SUBSET Clients /\ \A x \in DOMAIN g : g[x] \in 0 .. MaxPoints /\ g[x] <= career[x]
  BY GameFacts
<1>2. game' = [match |-> m, phase |-> ph, score |-> g]
  OBVIOUS
<1> PICK S \in SUBSET Clients : S = DOMAIN g
  BY <1>1
<1>3. g \in [S -> 0 .. MaxPoints] /\ \A x \in S : g[x] <= career[x]
  BY <1>1, GameFacts, ScoringFacts
<1>4. GameOK'
  BY <1>1, <1>2, <1>3, NewGame
<1> QED  BY <1>2, <1>4

LEMMA TravelFacts ==
  ASSUME GameOK, NEW seamless \in BOOLEAN, Travel(seamless)
  PROVE  /\ GameOK' /\ game'.phase = "travelling" /\ \A x \in DOMAIN game'.score : game'.score[x] = 0
<1> PICK g, m : g = game.score /\ m = game.match
  OBVIOUS
<1>1. /\ m \in 0 .. MaxMatches /\ DOMAIN g \in SUBSET Clients /\ \A x \in Clients : career[x] \in Nat
  BY GameFacts
<1>2. m + 1 \in 0 .. MaxMatches
  BY <1>1, Bounds DEF Travel
<1> PICK S : S = IF seamless THEN DOMAIN g ELSE {}
  OBVIOUS
<1> PICK f : f = [x \in S |-> 0]
  OBVIOUS
<1>3. S \in SUBSET Clients /\ f \in [S -> 0 .. MaxPoints] /\ DOMAIN f = S
      /\ (\A x \in S : f[x] <= career[x]) /\ \A x \in S : f[x] = 0
  BY <1>1, Bounds
<1>4. f = IF seamless THEN [c \in DOMAIN g |-> 0] ELSE [c \in {} |-> 0]
  OBVIOUS
<1>5. game' = [match |-> m + 1, phase |-> "travelling", score |-> f] /\ UNCHANGED career
  BY <1>4 DEF Travel, NoOne
<1>6. GameOK'
  <2> PICK n \in 0 .. MaxMatches : n = m + 1
    BY <1>2
  <2>1. game' = [match |-> n, phase |-> "travelling", score |-> f]
    BY <1>5
  <2> QED  BY <1>3, <1>5, <2>1, NewGame
<1>7. game'.score = f /\ game'.phase = "travelling"
  BY <1>5
<1> QED  BY <1>3, <1>6, <1>7

LEMMA LoggedFacts ==
  ASSUME MatchOK, NEW line \in Lines, Log(line), UNCHANGED <<tx, server>>, GameOK'
  PROVE  MatchOK'
<1>1. rx' \in Seq(Lines) /\ (~server.up => rx' = rx)
  BY LogFacts DEF MatchOK
<1>2. StreamOK'
  BY <1>1 DEF MatchOK, StreamOK
<1>3. ServerOK'
  BY <1>1 DEF MatchOK, ServerOK
<1> QED  BY <1>2, <1>3 DEF MatchOK

LEMMA AnswerFacts ==
  ASSUME MatchOK, Answer
  PROVE  /\ MatchOK' /\ server.up /\ tx # <<>>
         /\ \E line \in Lines : /\ Log(line) /\ rx' = Append(rx, line) /\ line.kind \in {"list", "ready"}
                                /\ line.kind = "list" => line.rows = game.score
                                /\ Head(tx) = "list" => line.kind = "list"
<1>1. tx # <<>> /\ tx' = Tail(tx) /\ UNCHANGED <<game, career, server>>
  BY DEF Answer, gameVars
<1> PICK line : line = IF Head(tx) = "list" THEN [kind |-> "list", rows |-> game.score] ELSE [kind |-> "ready"]
  OBVIOUS
<1>2. Log(line)
  BY DEF Answer
<1>3. /\ line \in Lines /\ line.kind \in {"list", "ready"}
      /\ line.kind = "list" => line.rows = game.score
      /\ Head(tx) = "list" => line.kind = "list"
  <2>1. game.score \in Scoring
    BY GameFacts DEF MatchOK
  <2> PICK score \in Scoring : score = game.score
    BY <2>1
  <2>2. [kind |-> "list", rows |-> score] \in Lines /\ [kind |-> "ready"] \in Lines
    BY DEF Lines
  <2>3. CASE Head(tx) = "list"
    <3>1. line = [kind |-> "list", rows |-> score]
      BY <2>3
    <3> QED  BY <2>2, <3>1
  <2>4. CASE Head(tx) # "list"
    <3>1. line = [kind |-> "ready"]
      BY <2>4
    <3> QED  BY <2>2, <2>4, <3>1
  <2> QED  BY <2>3, <2>4
<1>4. server.up /\ server' = server
  <2>1. server.up \in BOOLEAN /\ (~server.up => tx = <<>>)
    BY ServerFacts DEF MatchOK, ServerOK
  <2> QED  BY <1>1, <2>1
<1>5. rx' \in Seq(Lines) /\ rx' = Append(rx, line)
  BY <1>2, <1>3, <1>4, LogFacts DEF MatchOK
<1>6. tx' \in Seq({"list", "ping"})
  <2>1. tx \in Seq({"list", "ping"})
    BY DEF MatchOK, StreamOK
  <2> QED  BY <1>1, <2>1, ReadFacts
<1>7. GameOK' /\ StreamOK'
  BY <1>1, <1>5, <1>6 DEF MatchOK, GameOK, StreamOK
<1>8. ServerOK'
  BY <1>4 DEF MatchOK, ServerOK
<1> QED  BY <1>1, <1>2, <1>3, <1>4, <1>5, <1>7, <1>8 DEF MatchOK

\* Whatever the game does.
LEMMA GameStepFacts ==
  ASSUME MatchOK, GameStep
  PROVE  MatchOK'
<1>0. GameOK
  BY DEF MatchOK
<1>1. ASSUME NEW c \in Clients, Join(c)
      PROVE  MatchOK'
  <2>1. GameOK'
    BY <1>0, <1>1, GameJoin
  <2>2. [kind |-> "join", who |-> c] \in Lines
    BY DEF Lines
  <2> QED  BY <1>1, <2>1, <2>2, LoggedFacts DEF Join
<1>2. ASSUME NEW c \in Clients, Leave(c)
      PROVE  MatchOK'
  <2>1. GameOK'
    BY <1>0, <1>2, GameLeave
  <2>2. [kind |-> "leave", who |-> c] \in Lines
    BY DEF Lines
  <2> QED  BY <1>2, <2>1, <2>2, LoggedFacts DEF Leave
<1>3. ASSUME NEW c \in Clients, Score(c)
      PROVE  MatchOK'
  <2>1. GameOK'
    BY <1>0, <1>3, ScoreFacts
  <2>2. StreamOK' /\ ServerOK'
    BY <1>3 DEF Score, MatchOK, StreamOK, ServerOK
  <2> QED  BY <2>1, <2>2 DEF MatchOK
<1>4. ASSUME EndMatch
      PROVE  MatchOK'
  <2>1. GameOK'
    <3>1. game' = [match |-> game.match, phase |-> "over", score |-> game.score] /\ UNCHANGED career
      BY <1>0, <1>4, GameFields DEF EndMatch
    <3> QED  BY <1>0, <3>1, PhaseFacts
  <2>2. [kind |-> "end"] \in Lines
    BY DEF Lines
  <2> QED  BY <1>4, <2>1, <2>2, LoggedFacts DEF EndMatch
<1>5. ASSUME StartMatch
      PROVE  MatchOK'
  <2>1. GameOK'
    <3>1. game' = [match |-> game.match, phase |-> "playing", score |-> game.score] /\ UNCHANGED career
      BY <1>0, <1>5, GameFields DEF StartMatch
    <3> QED  BY <1>0, <3>1, PhaseFacts
  <2>2. [kind |-> "start"] \in Lines
    BY DEF Lines
  <2> QED  BY <1>5, <2>1, <2>2, LoggedFacts DEF StartMatch
<1>6. ASSUME NEW seamless \in BOOLEAN, Travel(seamless)
      PROVE  MatchOK'
  <2>1. GameOK'
    BY <1>0, <1>6, TravelFacts
  <2>2. [kind |-> "changing", seamless |-> seamless] \in Lines
    BY DEF Lines
  <2> QED  BY <1>6, <2>1, <2>2, LoggedFacts DEF Travel
<1> QED  BY <1>1, <1>2, <1>3, <1>4, <1>5, <1>6, AnswerFacts DEF GameStep

LEMMA ServerFields ==
  ASSUME ServerOK, NEW list
  PROVE  [server EXCEPT !.players = list]
           = [up |-> server.up, ranked |-> server.ranked, reliable |-> server.reliable, players |-> list]
<1> QED  BY DEF ServerOK

\* A server that is up has other players.
LEMMA NewServer ==
  ASSUME ServerOK, server.up, NEW list, Players(list), server' = [server EXCEPT !.players = list]
  PROVE  ServerOK' /\ server'.players = list /\ server'.up
<1>1. server.up \in BOOLEAN /\ server.ranked \in BOOLEAN /\ server.reliable \in BOOLEAN
  BY ServerFacts
<1> PICK s : s = server'
  OBVIOUS
<1>2. s = [up |-> server.up, ranked |-> server.ranked, reliable |-> server.reliable, players |-> list]
  BY ServerFields
<1>3. list \in Seq(Scorers) /\ Unique(list)
  BY DEF Players
<1>4. /\ s \in [up : BOOLEAN, ranked : BOOLEAN, reliable : BOOLEAN, players : Seq(Scorers)]
      /\ s.players = list /\ s.up
  BY <1>1, <1>2, <1>3
<1> QED  BY <1>3, <1>4 DEF ServerOK

\* The players after a line that is not a list: some of them, and those who have joined
\* with nothing, and after a change of map nobody has anything.
Before(list, line) ==
  \A i \in DOMAIN list :
    list[i].points = 0 \/ (line.kind # "changing" /\ \E j \in DOMAIN server.players : list[i] = server.players[j])

LEMMA PlayersFacts ==
  ASSUME MatchOK, ServerJoin \/ ServerLeave \/ ServerChanging
  PROVE  /\ Line.kind \in {"join", "leave", "changing"} /\ Handle(Line.kind) /\ UNCHANGED tx
         /\ \E list : Players(list) /\ Before(list, Line) /\ server' = [server EXCEPT !.players = list]
<1>1. ServerOK /\ Players(server.players)
  BY ServerFacts DEF MatchOK, ServerOK, Players
<1> PICK old : old = server.players
  OBVIOUS
<1>2. CASE ServerJoin
  <2>1. Handle("join") /\ UNCHANGED tx
    BY <1>2 DEF ServerJoin
  <2>2. Line \in Lines /\ Line.kind = "join"
    BY <2>1, HandleFacts
  <2> PICK c \in Clients : c = Line.who
    BY <2>2, LineFacts
  <2> PICK list : list = With(old, c)
    OBVIOUS
  <2>3. server' = [server EXCEPT !.players = list]
    BY <1>2 DEF ServerJoin, With, Listed
  <2>4. Players(list) /\ \A i \in DOMAIN list : list[i].points = 0 \/ \E j \in DOMAIN old : list[i] = old[j]
    BY <1>1, JoinFacts
  <2> QED  BY <2>1, <2>2, <2>3, <2>4 DEF Before
<1>3. CASE ServerLeave
  <2>1. Handle("leave") /\ UNCHANGED tx
    BY <1>3 DEF ServerLeave
  <2>2. Line.kind = "leave"
    BY <2>1, HandleFacts
  <2> PICK c : c = Line.who
    OBVIOUS
  <2> PICK list : list = Without(old, c)
    OBVIOUS
  <2>3. server' = [server EXCEPT !.players = list]
    BY <1>3 DEF ServerLeave, Without
  <2>4. Players(list) /\ \A i \in DOMAIN list : \E j \in DOMAIN old : list[i] = old[j]
    BY <1>1, LeaveFacts
  <2> QED  BY <2>1, <2>2, <2>3, <2>4 DEF Before
<1>4. CASE ServerChanging
  <2>1. Handle("changing") /\ UNCHANGED tx
    BY <1>4 DEF ServerChanging
  <2>2. Line.kind = "changing"
    BY <2>1, HandleFacts
  <2> PICK list : list = IF Line.seamless THEN [i \in DOMAIN old |-> Player(old[i].id, 0)] ELSE <<>>
    OBVIOUS
  <2>3. server' = [server EXCEPT !.players = list]
    BY <1>4 DEF ServerChanging
  <2>4. Players(list) /\ \A i \in DOMAIN list : list[i].points = 0
    <3>1. CASE Line.seamless
      BY <1>1, <3>1, ResetFacts
    <3>2. CASE ~Line.seamless
      <4>1. list = <<>>
        BY <3>2
      <4> QED  BY <4>1, NobodyFacts
    <3> QED  BY <3>1, <3>2
  <2> QED  BY <2>1, <2>2, <2>3, <2>4 DEF Before
<1> QED  BY <1>2, <1>3, <1>4

Words == {"list", "ping"}
Asks(q) == \E i \in DOMAIN q : q[i] = "list"

LEMMA AskedFacts ==
  ASSUME StreamOK
  PROVE  Asked \in Seq(Words) /\ (Asks(tx) => Asks(Asked)) /\ (server.players # <<>> => Asks(Asked))
<1>1. tx \in Seq(Words) /\ "list" \in Words
  BY DEF StreamOK, Words
<1> PICK x \in Words : x = "list"
  BY <1>1
<1> PICK r : r = Append(tx, x)
  OBVIOUS
<1>2. /\ r \in Seq(Words) /\ \A i \in DOMAIN tx : i \in DOMAIN r /\ r[i] = tx[i]
      /\ Len(tx) + 1 \in DOMAIN r /\ r[Len(tx) + 1] = x
  BY <1>1, WrittenFacts
<1>3. Asked = IF server.players = <<>> THEN tx ELSE r
  BY DEF Asked
<1>4. Asks(r)
  BY <1>2 DEF Asks
<1> QED  BY <1>1, <1>2, <1>3, <1>4

\* A line was handled, and the server is still there.
LEMMA HandledFacts ==
  ASSUME MatchOK, NEW kind, Handle(kind), tx' \in Seq(Words),
         ServerOK', server'.up
  PROVE  MatchOK'
<1>1. rx' \in Seq(Lines) /\ UNCHANGED <<game, career>>
  BY HandleFacts DEF gameVars
<1> QED  BY <1>1 DEF MatchOK, GameOK, StreamOK, Words

LEMMA ListsFacts ==
  ASSUME MatchOK, HandleList
  PROVE  /\ Line \in Lines /\ Line.kind = "list" /\ Line = rx[1] /\ Line.rows \in Scoring /\ Handle("list")
         /\ Players(server.players) /\ Players(Completed) /\ FromRows(Completed, server.players, Line.rows)
         /\ server' = [server EXCEPT !.players = Completed] /\ UNCHANGED tx
<1>1. Handle("list") /\ server' = [server EXCEPT !.players = Completed] /\ UNCHANGED tx
  BY DEF HandleList, ServerList
<1>2. Line \in Lines /\ Line.kind = "list" /\ Line = rx[1]
  BY <1>1, HandleFacts
<1>3. Line.rows \in Scoring
  BY <1>2, LineFacts
<1>4. Players(server.players)
  BY ServerFacts DEF MatchOK, ServerOK, Players
<1>5. Players(Completed) /\ FromRows(Completed, server.players, Line.rows)
  BY <1>3, <1>4, CompletedFacts
<1> QED  BY <1>1, <1>2, <1>3, <1>4, <1>5

\* The server is gone, or new.
LEMMA EmptyServer ==
  ASSUME NEW up \in BOOLEAN, server' = [up |-> up, ranked |-> FALSE, reliable |-> FALSE, players |-> <<>>],
         ~up => rx' = <<>> /\ tx' = <<>>
  PROVE  ServerOK' /\ server'.players = <<>> /\ server'.up = up
<1> PICK s : s = server'
  OBVIOUS
<1> PICK none : none = <<>>
  OBVIOUS
<1>1. none \in Seq(Scorers) /\ Unique(none)
  BY NobodyFacts DEF Players
<1>2. s = [up |-> up, ranked |-> FALSE, reliable |-> FALSE, players |-> none]
  OBVIOUS
<1>3. /\ s \in [up : BOOLEAN, ranked : BOOLEAN, reliable : BOOLEAN, players : Seq(Scorers)]
      /\ s.players = none /\ s.up = up
  BY <1>1, <1>2
<1>4. Unique(s.players)
  BY <1>1, <1>3
<1> QED  BY <1>3, <1>4 DEF ServerOK

LEMMA GoneFacts ==
  ASSUME MatchOK, server' = Offline, tx' = <<>>, rx' = <<>>, UNCHANGED gameVars
  PROVE  MatchOK' /\ ~server'.up /\ server'.players = <<>>
<1>1. ServerOK' /\ ~server'.up /\ server'.players = <<>>
  <2>1. server' = [up |-> FALSE, ranked |-> FALSE, reliable |-> FALSE, players |-> <<>>]
    BY DEF Offline
  <2> QED  BY <2>1, EmptyServer
<1>2. tx' \in Seq({"list", "ping"}) /\ rx' \in Seq(Lines)
  OBVIOUS
<1>3. GameOK' /\ StreamOK'
  BY <1>2 DEF MatchOK, GameOK, StreamOK, gameVars
<1> QED  BY <1>1, <1>3 DEF MatchOK

LEMMA ConnectFacts ==
  ASSUME MatchOK, ServerConnects
  PROVE  /\ MatchOK' /\ server'.up /\ server'.players = <<>> /\ server.players = <<>> /\ rx' = <<>> /\ rx = <<>>
         /\ Asks(tx') /\ UNCHANGED <<game, career>>
<1>1. /\ ~server.up /\ server' = [up |-> TRUE, ranked |-> FALSE, reliable |-> FALSE, players |-> <<>>]
      /\ tx' = <<"list", "ping">> /\ UNCHANGED <<game, career, rx>>
  BY DEF ServerConnects, Offline, gameVars
<1>2. server.players = <<>> /\ rx = <<>>
  BY <1>1 DEF MatchOK, ServerOK
<1>3. ServerOK' /\ server'.players = <<>> /\ server'.up
  BY <1>1, EmptyServer
<1>4. tx' \in Seq({"list", "ping"}) /\ 1 \in DOMAIN tx' /\ tx'[1] = "list"
  BY <1>1
<1>5. GameOK' /\ StreamOK'
  BY <1>1, <1>4 DEF MatchOK, GameOK, StreamOK
<1> QED  BY <1>1, <1>2, <1>3, <1>4, <1>5 DEF MatchOK, Asks

LEMMA MatchStep ==
  ASSUME MatchOK, Next
  PROVE  MatchOK'
<1>0. GameOK /\ ServerOK /\ StreamOK /\ tx \in Seq(Words)
  BY DEF MatchOK, StreamOK, Words
<1>1. ASSUME UpdateClientList
      PROVE  MatchOK'
  <2>1. tx' \in Seq(Words) /\ server.up /\ UNCHANGED <<game, career, rx, server>>
    BY <1>0, <1>1, AskedFacts DEF UpdateClientList, gameVars
  <2> QED  BY <2>1 DEF MatchOK, GameOK, ServerOK, StreamOK, Words
<1>2. CASE Game
  BY <1>1, <1>2, GameStepFacts, ConnectFacts DEF Game
<1>3. ASSUME NEW by \in Clients, NEW of \in Clients, AsksToRecommend(by, of)
      PROVE  MatchOK'
  <2>1. Log([kind |-> "rec", by |-> by, of |-> of]) /\ UNCHANGED <<game, career, tx, server>>
    BY <1>3 DEF AsksToRecommend, gameVars
  <2>2. [kind |-> "rec", by |-> by, of |-> of] \in Lines
    BY DEF Lines
  <2>3. GameOK'
    BY <1>0, <2>1 DEF GameOK
  <2> QED  BY <2>1, <2>2, <2>3, LoggedFacts
<1>4. CASE HandlePlayers
  <2>1. ServerJoin \/ ServerLeave \/ ServerChanging
    BY <1>4 DEF HandlePlayers
  <2>2. Handle(Line.kind) /\ UNCHANGED tx
    BY <2>1, PlayersFacts
  <2>3. PICK list : Players(list) /\ server' = [server EXCEPT !.players = list]
    BY <2>1, PlayersFacts
  <2>4. server.up
    BY <2>2 DEF Handle
  <2>5. ServerOK' /\ server'.up
    BY <1>0, <2>3, <2>4, NewServer
  <2> QED  BY <1>0, <2>2, <2>5, HandledFacts
<1>5. ASSUME NEW kind, Handle(kind), UNCHANGED tx, NEW ranked \in BOOLEAN, NEW reliable \in BOOLEAN,
             server' = [up |-> server.up, ranked |-> ranked, reliable |-> reliable, players |-> server.players]
      PROVE  MatchOK'
  <2>1. server.up /\ server.up \in BOOLEAN /\ server.players \in Seq(Scorers) /\ Unique(server.players)
    BY <1>0, <1>5, ServerFacts DEF Handle, ServerOK
  <2> PICK s : s = server'
    OBVIOUS
  <2>2. /\ s \in [up : BOOLEAN, ranked : BOOLEAN, reliable : BOOLEAN, players : Seq(Scorers)]
        /\ s.up /\ s.players = server.players
    BY <1>5, <2>1
  <2>3. ServerOK' /\ server'.up
    BY <2>1, <2>2 DEF ServerOK
  <2> QED  BY <1>0, <1>5, <2>3, HandledFacts
<1>6. CASE HandleStart
  <2>1. Handle("start") /\ UNCHANGED tx /\ server' = [server EXCEPT !.reliable = TRUE]
    BY <1>6 DEF HandleStart, ServerStart
  <2>2. server' = [up |-> server.up, ranked |-> server.ranked, reliable |-> TRUE, players |-> server.players]
    BY <1>0, <2>1 DEF ServerOK
  <2>3. server.ranked \in BOOLEAN
    BY <1>0, ServerFacts
  <2> QED  BY <1>5, <2>1, <2>2, <2>3
<1>7. CASE HandleReady
  <2>1. Handle("ready") /\ UNCHANGED tx /\ server' = [server EXCEPT !.ranked = TRUE]
    BY <1>7 DEF HandleReady
  <2>2. server' = [up |-> server.up, ranked |-> TRUE, reliable |-> server.reliable, players |-> server.players]
    BY <1>0, <2>1 DEF ServerOK
  <2>3. server.reliable \in BOOLEAN
    BY <1>0, ServerFacts
  <2> QED  BY <1>5, <2>1, <2>2, <2>3
<1>8. ASSUME NEW kind, Handle(kind), tx' \in Seq(Words), UNCHANGED server
      PROVE  MatchOK'
  <2>1. server.up
    BY <1>8 DEF Handle
  <2>2. ServerOK' /\ server'.up
    BY <1>0, <1>8, <2>1 DEF ServerOK
  <2> QED  BY <1>0, <1>8, <2>2, HandledFacts
<1>9. CASE HandleEnd
  <2>1. Handle("end") /\ UNCHANGED server /\ (tx' = tx \/ tx' = Asked)
    BY <1>9 DEF HandleEnd, OnGameOver
  <2> QED  BY <1>0, <1>8, <2>1, AskedFacts
<1>10. CASE HandleRec
  BY <1>0, <1>8, <1>10 DEF HandleRec
<1>11. CASE HandleList
  <2>1. Handle("list") /\ Players(Completed) /\ server' = [server EXCEPT !.players = Completed] /\ UNCHANGED tx
    BY <1>11, ListsFacts
  <2>2. server.up
    BY <2>1 DEF Handle
  <2>3. ServerOK' /\ server'.up
    BY <1>0, <2>1, <2>2, NewServer
  <2> QED  BY <1>0, <2>1, <2>3, HandledFacts
<1>12. CASE Lost
  BY <1>12, GoneFacts DEF Lost, ServerLost
<1>13. CASE Crash \/ CrashInUpdate
  BY <1>13, GoneFacts DEF Crash, CrashInUpdate, Stopped
<1>14. CASE RehashMedals \/ ReloadMedals \/ NextDay
  <2>1. UNCHANGED <<game, career, tx, rx, server>>
    BY <1>14 DEF RehashMedals, ReloadMedals, NextDay, matchVars
  <2> QED  BY <2>1 DEF MatchOK, GameOK, ServerOK, StreamOK
<1> QED
  BY <1>2, <1>3, <1>4, <1>6, <1>7, <1>9, <1>10, <1>11, <1>12, <1>13, <1>14 DEF Next

----------------------------------------------------------------------------
(***************************************************************************)
(* The ladders                                                             *)
(***************************************************************************)
LadderOK ==
  /\ waiting \in BOOLEAN /\ today \in 0 .. MaxDays /\ lastSorted \in 0 .. MaxDays
  /\ \A d \in Databases : Standing(entries[d]) /\ Standing(file[d])
  /\ entries["alltime"] = file["alltime"]
  /\ entries["daily"] = <<>> \/ entries["daily"] = file["daily"]

BehindOK == torn \in BOOLEAN /\ (~torn => Behind(file["daily"], file["alltime"]))

LEMMA DatabasesAre == Databases = {"alltime", "daily"}
<1>1. DOMAIN Order = 1 .. 2 /\ Order[1] = "alltime" /\ Order[2] = "daily"
  BY DEF Order
<1>2. Databases = {Order[x] : x \in DOMAIN Order}
  BY DEF Databases, Range
<1>3. 1 .. 2 = {1, 2}
  OBVIOUS
<1> QED  BY <1>1, <1>2, <1>3

LEMMA KeptFacts ==
  ASSUME LadderOK
  PROVE  /\ \A d \in Databases : Standing(Kept(d))
         /\ Kept("alltime") = file["alltime"]
         /\ Kept("daily") = <<>> \/ Kept("daily") = file["daily"]
<1>1. \A d \in Databases : Standing(entries[d])
  BY DEF LadderOK
<1>2. ASSUME NEW d \in Databases
      PROVE  Standing(Kept(d))
  <2> PICK list, none : list = entries[d] /\ none = <<>>
    OBVIOUS
  <2>1. Standing(none) /\ Standing(list)
    BY <1>1, EmptyFacts
  <2>2. Kept(d) = none \/ Kept(d) = list
    BY DEF Kept
  <2> QED  BY <2>1, <2>2
<1>3. Kept("alltime") = file["alltime"]
  BY DEF Kept, LadderOK
<1>4. Kept("daily") = <<>> \/ Kept("daily") = file["daily"]
  BY DEF Kept, LadderOK
<1> QED  BY <1>2, <1>3, <1>4

\* What a match makes of a list.
Standard(list, q, r) ==
  /\ Standing(r) /\ (list # <<>> => r # <<>>)
  /\ \A c \in Clients : TotalOf(r, c) = TotalOf(CreditAll(list, q), c)

LEMMA UpdateFacts ==
  ASSUME NEW list, Standing(list), NEW q, Players(q), NEW r, r = Ranked(SortEntries(CreditAll(list, q)))
  PROVE  Standard(list, q, r)
<1>1. WellListed(list) /\ q \in Seq(Scorers)
  BY StandingFacts DEF Players
<1> PICK s : s = CreditAll(list, q)
  OBVIOUS
<1>2. PICK d : Counting(d, list, q) /\ d[Len(q)] = s
  BY <1>1, CountingFacts
<1>3. Len(q) \in Nat /\ Len(q) \in 0 .. Len(q)
  BY <1>1
<1>4. WellListed(s) /\ (list # <<>> => s # <<>>)
  BY <1>2, <1>3 DEF Counting
<1>5. Standing(r) /\ (s # <<>> => r # <<>>) /\ \A c : TotalOf(r, c) = TotalOf(s, c)
  BY <1>4, SettledFacts
<1> QED  BY <1>4, <1>5 DEF Standard

LEMMA UpdatedFacts ==
  ASSUME LadderOK, Players(Completed), NEW d \in Databases
  PROVE  Standard(Kept(d), Completed, Updated(d)) /\ Standing(Written(d))
<1> PICK list, q, r : list = Kept(d) /\ q = Completed /\ r = Updated(d)
  OBVIOUS
<1>1. Standing(list) /\ Players(q) /\ Standing(file[d])
  BY KeptFacts DEF LadderOK
<1>2. r = Ranked(SortEntries(CreditAll(list, q)))
  BY DEF Updated
<1>3. Standard(list, q, r)
  BY <1>1, <1>2, UpdateFacts
<1>4. Written(d) = file[d] \/ Written(d) = r
  BY DEF Written
<1> QED  BY <1>1, <1>3, <1>4 DEF Standard

\* The all-time ladder grows by the match, and the other one stays behind.
LEMMA TogetherFacts ==
  ASSUME LadderOK, BehindOK, Players(Completed)
  PROVE  /\ Written("alltime") = Updated("alltime")
         /\ Updated("daily") = <<>> \/ Written("daily") = Updated("daily")
         /\ Fair(file["alltime"], Completed, Written("alltime"))
         /\ ~torn => /\ Behind(file["daily"], Written("alltime"))
                     /\ Behind(Updated("daily"), Written("alltime"))
                     /\ Behind(Written("daily"), Written("alltime"))
<1> PICK q : q = Completed
  OBVIOUS
<1>0. q \in Seq(Scorers) /\ Unique(q) /\ Players(q)
  BY DEF Players
<1>1. "alltime" \in Databases /\ "daily" \in Databases
  BY DatabasesAre
<1> PICK a, b, fa, fb, ka, kb, wa, wb :
      /\ a = Updated("alltime") /\ b = Updated("daily") /\ fa = file["alltime"] /\ fb = file["daily"]
      /\ ka = Kept("alltime") /\ kb = Kept("daily") /\ wa = Written("alltime") /\ wb = Written("daily")
  OBVIOUS
<1>2. Standard(ka, q, a) /\ Standard(kb, q, b) /\ Standing(wa) /\ Standing(wb)
  BY <1>1, UpdatedFacts
<1>3. Standing(fa) /\ Standing(fb) /\ Standing(ka) /\ Standing(kb) /\ ka = fa /\ (kb = <<>> \/ kb = fb)
  BY <1>1, KeptFacts DEF LadderOK
<1>4. wa = a /\ (b = <<>> \/ wb = b) /\ (wb = b \/ wb = fb)
  <2>1. wa = (IF a = <<>> THEN fa ELSE a) /\ wb = (IF b = <<>> THEN fb ELSE b)
    BY DEF Written
  <2>2. fa # <<>> => a # <<>>
    BY <1>2, <1>3 DEF Standard
  <2> QED  BY <2>1, <2>2
<1> PICK ca, cb : ca = CreditAll(ka, q) /\ cb = CreditAll(kb, q)
  OBVIOUS
<1>5. WellListed(ka) /\ WellListed(kb) /\ WellListed(fa) /\ WellListed(fb)
  BY <1>3, StandingFacts
<1>6. \A c \in Clients : TotalOf(a, c) = TotalOf(ca, c) /\ TotalOf(b, c) = TotalOf(cb, c)
  BY <1>2 DEF Standard
<1>7. Fair(ka, q, ca)
  BY <1>0, <1>5, FairFacts
<1>8. Fair(fa, q, wa)
  BY <1>3, <1>4, <1>6, <1>7 DEF Fair
<1>9. ASSUME Behind(fb, fa)
      PROVE  Behind(fb, wa) /\ Behind(b, wa)
  <2>1. ASSUME NEW c \in Clients
        PROVE  TotalOf(fb, c) <= TotalOf(wa, c)
    <3>1. TotalOf(fb, c) <= TotalOf(fa, c) /\ TotalOf(wa, c) >= TotalOf(fa, c)
      BY <1>8, <1>9 DEF Behind, Fair
    <3>2. TotalOf(fb, c) \in Nat /\ TotalOf(fa, c) \in Nat /\ TotalOf(wa, c) \in Nat
      <4>1. WellListed(wa)
        BY <1>2, StandingFacts
      <4> QED  BY <1>5, <4>1, TotalFacts
    <3> QED  BY <3>1, <3>2
  <2>2. Behind(kb, ka)
    <3>1. CASE kb = <<>>
      <4>1. \A c : TotalOf(kb, c) = 0
        <5>1. \A c : TotalOf(<<>>, c) = 0
          BY EmptyFacts
        <5> QED  BY <3>1, <5>1
      <4>2. \A c : TotalOf(ka, c) \in Nat
        BY <1>5, TotalFacts
      <4> QED  BY <4>1, <4>2 DEF Behind
    <3>2. CASE kb = fb
      BY <1>3, <1>9, <3>2
    <3> QED  BY <1>3, <3>1, <3>2
  <2>3. Behind(cb, ca)
    BY <1>0, <1>5, <2>2, BehindFacts
  <2>4. Behind(b, wa)
    BY <1>4, <1>6, <2>3 DEF Behind
  <2> QED  BY <2>1, <2>4 DEF Behind
<1> QED  BY <1>4, <1>8, <1>9 DEF BehindOK

\* A file that was written up to some entry, and the ones before and behind it.
Place(d) == CHOOSE i \in DOMAIN Order : Order[i] = d

LEMMA PlaceFacts == Place("alltime") = 1 /\ Place("daily") = 2
<1>1. DOMAIN Order = 1 .. 2 /\ Order[1] = "alltime" /\ Order[2] = "daily" /\ 1 .. 2 = {1, 2}
  BY DEF Order
<1>2. \A i \in DOMAIN Order : Order[i] = "alltime" => i = 1
  BY <1>1
<1>3. \A i \in DOMAIN Order : Order[i] = "daily" => i = 2
  BY <1>1
<1>4. 1 \in DOMAIN Order /\ 2 \in DOMAIN Order
  BY <1>1
<1> QED  BY <1>1, <1>2, <1>3, <1>4 DEF Place

LEMMA WholeFacts ==
  ASSUME NEW list \in Seq(Entries), NEW r, r = SubSeq(list, 1, Len(list))
  PROVE  r = list
<1>1. r \in Seq(Entries) /\ Len(r) = Len(list) /\ \A i \in 1 .. Len(list) : r[i] = list[i]
  OBVIOUS
<1> QED  BY <1>1

\* What is left of list when n entries of it are written over old.
Partly(list, n, old, r) ==
  /\ Standing(r)
  /\ n = Len(list) /\ list # <<>> => r = list
  /\ \A c \in Clients : TotalOf(r, c) = 0 \/ TotalOf(r, c) = TotalOf(list, c) \/ (list = <<>> /\ r = old)
  /\ list = <<>> => r = old

LEMMA PartlyFacts ==
  ASSUME NEW list, Standing(list), NEW old, Standing(old), NEW n \in 0 .. Len(list),
         NEW r, r = IF list # <<>> THEN SubSeq(list, 1, n) ELSE old
  PROVE  Partly(list, n, old, r)
<1>1. list \in Seq(Entries)
  BY DEF Standing
<1>2. CASE list = <<>>
  BY <1>2 DEF Partly
<1>3. CASE list # <<>>
  <2>1. r = SubSeq(list, 1, n)
    BY <1>3
  <2>2. Standing(r) /\ \A c : TotalOf(r, c) \in {0, TotalOf(list, c)}
    BY <2>1, CutFacts
  <2>3. n = Len(list) => r = list
    BY <1>1, <2>1, WholeFacts
  <2> QED  BY <1>3, <2>2, <2>3 DEF Partly
<1> QED  BY <1>2, <1>3

LEMMA WrittenUpToFacts ==
  ASSUME NEW k \in DOMAIN Order, NEW n \in 0 .. Len(Updated(Order[k])), NEW f, f = WrittenUpTo(k, n),
         LadderOK, Players(Completed)
  PROVE  \/ /\ k = 1 /\ Order[k] = "alltime" /\ f["daily"] = file["daily"]
            /\ Partly(Updated("alltime"), n, file["alltime"], f["alltime"])
         \/ /\ k = 2 /\ Order[k] = "daily" /\ f["alltime"] = Written("alltime")
            /\ Partly(Updated("daily"), n, file["daily"], f["daily"])
<1>1. DOMAIN Order = {1, 2} /\ Order[1] = "alltime" /\ Order[2] = "daily"
  BY DEF Order
<1>2. "alltime" \in Databases /\ "daily" \in Databases
  BY DatabasesAre
<1>3. \A d \in Databases : Standing(Updated(d)) /\ Standing(file[d])
  BY UpdatedFacts DEF Standard, LadderOK
<1> PICK a, b, fa, fb, wa :
      /\ a = Updated("alltime") /\ b = Updated("daily") /\ fa = file["alltime"] /\ fb = file["daily"]
      /\ wa = Written("alltime")
  OBVIOUS
<1>6. ASSUME NEW d \in Databases
      PROVE  f[d] = IF Place(d) < k THEN Written(d)
                    ELSE IF Place(d) = k /\ Updated(d) # <<>> THEN SubSeq(Updated(d), 1, n)
                    ELSE file[d]
  BY Zenon DEF WrittenUpTo, Place
<1>4. CASE k = 1
  <2>1. /\ f["alltime"] = (IF a # <<>> THEN SubSeq(a, 1, n) ELSE fa)
        /\ f["daily"] = fb
    BY <1>2, <1>4, <1>6, PlaceFacts
  <2>2. Standing(a) /\ Standing(fa) /\ n \in 0 .. Len(a)
    BY <1>1, <1>2, <1>3, <1>4
  <2> PICK r : r = f["alltime"]
    OBVIOUS
  <2>3. Partly(a, n, fa, r)
    BY <2>1, <2>2, PartlyFacts
  <2> QED  BY <1>1, <1>4, <2>1, <2>3
<1>5. CASE k = 2
  <2>1. /\ f["daily"] = (IF b # <<>> THEN SubSeq(b, 1, n) ELSE fb)
        /\ f["alltime"] = wa
    BY <1>2, <1>5, <1>6, PlaceFacts
  <2>2. Standing(b) /\ Standing(fb) /\ n \in 0 .. Len(b)
    BY <1>1, <1>2, <1>3, <1>5
  <2> PICK r : r = f["daily"]
    OBVIOUS
  <2>3. Partly(b, n, fb, r)
    BY <2>1, <2>2, PartlyFacts
  <2> QED  BY <1>1, <1>5, <2>1, <2>3
<1> QED  BY <1>1, <1>4, <1>5

\* The ladders are read from the files.
LEMMA RestartFacts ==
  ASSUME LadderOK, NEW f, \A d \in Databases : Standing(f[d]), Restart(f)
  PROVE  LadderOK' /\ file' = f
<1>1. waiting' = FALSE /\ lastSorted' = today /\ today' = today /\ file' = f
      /\ entries' = [d \in Databases |-> Ranked(f[d])]
  BY DEF Restart
<1>2. \A d \in Databases : f[d] = Ranked(f[d])
  BY StandingFacts
<1>3. \A d \in Databases : entries'[d] = f[d]
  BY <1>1, <1>2
<1>4. "alltime" \in Databases /\ "daily" \in Databases
  BY DatabasesAre
<1>5. today \in 0 .. MaxDays
  BY DEF LadderOK
<1> QED  BY <1>1, <1>3, <1>4, <1>5 DEF LadderOK

\* A client list is counted.
LEMMA OnListFacts ==
  ASSUME LadderOK, BehindOK, Players(Completed), OnList, UNCHANGED torn
  PROVE  LadderOK' /\ BehindOK'
<1>1. "alltime" \in Databases /\ "daily" \in Databases
  BY DatabasesAre
<1>2. CASE ~Due
  <2>1. /\ waiting' = FALSE /\ lastSorted' = lastSorted /\ today' = today
        /\ \A d \in Databases : entries'[d] = entries[d] /\ file'[d] = file[d]
    BY <1>2 DEF OnList
  <2>2. file'["alltime"] = file["alltime"] /\ file'["daily"] = file["daily"]
    BY <1>1, <2>1
  <2>3. LadderOK'
    BY <1>1, <2>1 DEF LadderOK
  <2> QED  BY <2>2, <2>3 DEF BehindOK
<1>3. CASE Due
  <2>1. /\ waiting' = FALSE /\ lastSorted' = today /\ today' = today
        /\ \A d \in Databases : entries'[d] = Updated(d) /\ file'[d] = Written(d)
    BY <1>3 DEF OnList
  <2>2. \A d \in Databases : Standing(Updated(d)) /\ Standing(Written(d))
    BY UpdatedFacts DEF Standard
  <2>3. /\ Written("alltime") = Updated("alltime")
        /\ Updated("daily") = <<>> \/ Written("daily") = Updated("daily")
        /\ ~torn => Behind(Written("daily"), Written("alltime"))
    BY TogetherFacts
  <2>4. today \in 0 .. MaxDays
    BY DEF LadderOK
  <2>5. LadderOK'
    BY <1>1, <2>1, <2>2, <2>3, <2>4 DEF LadderOK
  <2>6. file'["alltime"] = Written("alltime") /\ file'["daily"] = Written("daily")
    BY <1>1, <2>1
  <2> QED  BY <2>3, <2>5, <2>6 DEF BehindOK
<1> QED  BY <1>2, <1>3

\* The process dies while the files are written.
LEMMA CrashFacts ==
  ASSUME LadderOK, BehindOK, Players(Completed), NEW k \in DOMAIN Order, NEW n \in 0 .. Len(Updated(Order[k])),
         Restart(WrittenUpTo(k, n)), torn' = (torn \/ n < Len(Updated(Order[k])))
  PROVE  LadderOK' /\ BehindOK'
<1> PICK f : f = WrittenUpTo(k, n)
  OBVIOUS
<1>1. \/ /\ k = 1 /\ Order[k] = "alltime" /\ f["daily"] = file["daily"]
         /\ Partly(Updated("alltime"), n, file["alltime"], f["alltime"])
      \/ /\ k = 2 /\ Order[k] = "daily" /\ f["alltime"] = Written("alltime")
         /\ Partly(Updated("daily"), n, file["daily"], f["daily"])
  BY WrittenUpToFacts
<1>2. Databases = {"alltime", "daily"}
  BY DatabasesAre
<1>3. /\ \A d \in Databases : Standing(file[d]) /\ Standing(Written(d)) /\ Standing(Updated(d))
      /\ \A d \in Databases : Updated(d) \in Seq(Entries) /\ Len(Updated(d)) \in Nat
  <2>1. \A d \in Databases : Standing(file[d]) /\ Standing(Written(d)) /\ Standing(Updated(d))
    BY UpdatedFacts DEF LadderOK, Standard
  <2>2. \A d \in Databases : Updated(d) \in Seq(Entries)
    BY <2>1 DEF Standing
  <2> QED  BY <2>1, <2>2
<1>4. \A d \in Databases : Standing(f[d])
  BY <1>1, <1>2, <1>3 DEF Partly
<1>5. LadderOK' /\ file' = f
  BY <1>4, RestartFacts
<1>6. /\ Written("alltime") = Updated("alltime")
      /\ Updated("daily") = <<>> \/ Written("daily") = Updated("daily")
      /\ ~torn => /\ Behind(file["daily"], file["alltime"])
                  /\ Behind(file["daily"], Written("alltime"))
                  /\ Behind(Updated("daily"), Written("alltime"))
  BY TogetherFacts DEF BehindOK
<1>7. ASSUME ~torn'
      PROVE  Behind(f["daily"], f["alltime"])
  <2>1. ~torn /\ n = Len(Updated(Order[k]))
    <3>1. Len(Updated(Order[k])) \in Nat
      BY <1>1, <1>2, <1>3
    <3> PICK len \in Nat : len = Len(Updated(Order[k]))
      BY <3>1
    <3>2. ~torn /\ ~(n < len)
      BY <1>7
    <3>3. n \in 0 .. len
      OBVIOUS
    <3> QED  BY <3>2, <3>3
  <2>2. CASE k = 1
    BY <1>1, <1>6, <2>1, <2>2 DEF Partly
  <2>3. CASE k = 2
    BY <1>1, <1>6, <2>1, <2>3 DEF Partly
  <2> QED  BY <1>1, <2>2, <2>3
<1>8. torn' \in BOOLEAN
  OBVIOUS
<1> QED  BY <1>5, <1>7, <1>8 DEF BehindOK

LEMMA LadderStep ==
  ASSUME MatchOK, LadderOK, BehindOK, Next
  PROVE  LadderOK' /\ BehindOK'
<1>1. ASSUME UNCHANGED <<ladderVars, torn>>
      PROVE  LadderOK' /\ BehindOK'
  BY <1>1 DEF LadderOK, BehindOK, ladderVars
<1>2. CASE Game \/ (\E by, of \in Clients : AsksToRecommend(by, of)) \/ HandlePlayers \/ HandleStart \/ HandleRec
           \/ HandleReady \/ Lost \/ RehashMedals \/ ReloadMedals
  BY <1>1, <1>2 DEF Game, AsksToRecommend, HandlePlayers, HandleStart, HandleRec, HandleReady, Lost, RehashMedals,
       ReloadMedals, Idle, bot
<1>3. CASE HandleEnd
  <2>1. UNCHANGED <<stored, today, torn>> /\ (waiting' = waiting \/ waiting' = (waiting \/ MatchCounts))
    BY <1>3 DEF HandleEnd, OnGameOver, ladderVars, stored, bot
  <2>2. waiting' \in BOOLEAN
    BY <2>1 DEF LadderOK
  <2> QED  BY <2>1, <2>2 DEF LadderOK, BehindOK, stored
<1>4. CASE HandleList
  BY <1>4, ListsFacts, OnListFacts DEF HandleList, bot
<1>5. CASE Crash
  <2>1. Restart(file) /\ UNCHANGED torn
    BY <1>5 DEF Crash, bot
  <2>2. \A d \in Databases : Standing(file[d])
    BY DEF LadderOK
  <2>3. LadderOK' /\ file' = file
    BY <2>1, <2>2, RestartFacts
  <2> QED  BY <2>1, <2>3 DEF BehindOK
<1>6. CASE CrashInUpdate
  <2>1. Players(Completed)
    <3>1. Line \in Lines
      BY <1>6, ReadFacts DEF CrashInUpdate, MatchOK, StreamOK, Line
    <3>2. Line.rows \in Scoring
      BY <1>6, <3>1, LineFacts DEF CrashInUpdate
    <3>3. Players(server.players)
      BY ServerFacts DEF MatchOK, ServerOK, Players
    <3> QED  BY <3>2, <3>3, CompletedFacts
  <2>2. PICK k \in DOMAIN Order : \E n \in 0 .. Len(Updated(Order[k])) :
          Restart(WrittenUpTo(k, n)) /\ torn' = (torn \/ n < Len(Updated(Order[k])))
    BY <1>6 DEF CrashInUpdate
  <2> QED  BY <2>1, <2>2, CrashFacts
<1>7. CASE NextDay
  <2>1. today' = today + 1 /\ today < MaxDays /\ UNCHANGED <<waiting, stored, torn>>
    BY <1>7 DEF NextDay, Midnight, bot
  <2>2. today' \in 0 .. MaxDays
    BY <2>1, LadderAssumption DEF LadderOK
  <2> QED  BY <2>1, <2>2 DEF LadderOK, BehindOK, stored
<1> QED  BY <1>2, <1>3, <1>4, <1>5, <1>6, <1>7 DEF Next

----------------------------------------------------------------------------
(***************************************************************************)
(* The medals                                                              *)
(***************************************************************************)
MedalsOK ==
  /\ recs \in [Listed -> Nat] /\ given \in SUBSET Listed
  /\ medals \in [Clients -> Nat] /\ disk \in [Clients -> Nat]

Keeps == \A c \in Clients : Recs(c)' >= Recs(c)

LEMMA NobodyLoses ==
  ASSUME MedalsOK, Listed' = Listed, recs' \in [Listed -> Nat], given' \in SUBSET Listed,
         UNCHANGED <<medals, disk>>, \A c \in Listed : recs'[c] >= recs[c]
  PROVE  MedalsOK' /\ Keeps
<1>1. MedalsOK'
  BY DEF MedalsOK
<1>2. \A c \in Clients : medals[c] \in Nat
  BY DEF MedalsOK
<1>3. ASSUME NEW c \in Clients
      PROVE  Recs(c)' >= Recs(c)
  <2>1. Recs(c) = (IF c \in Listed THEN recs[c] ELSE medals[c]) /\ Recs(c)' = (IF c \in Listed THEN recs'[c] ELSE medals[c])
    BY DEF Recs
  <2> QED  BY <1>2, <2>1
<1> QED  BY <1>1, <1>3 DEF Keeps

LEMMA MedalsStay ==
  ASSUME MedalsOK, Listed' = Listed, UNCHANGED medalsVars
  PROVE  MedalsOK' /\ Keeps
<1>1. recs' = recs /\ given' = given /\ UNCHANGED <<medals, disk>> /\ \A c \in Listed : recs[c] \in Nat
  BY DEF medalsVars, MedalsOK
<1>2. \A c \in Listed : recs'[c] >= recs[c]
  BY <1>1
<1> QED  BY <1>1, <1>2, NobodyLoses DEF MedalsOK

LEMMA AddRecFacts ==
  ASSUME MedalsOK, NEW b, AddRec(b)
  PROVE  recs' \in [Listed -> Nat] /\ \A c \in Listed : recs'[c] >= recs[c]
<1>1. recs \in [Listed -> Nat] /\ recs' = [recs EXCEPT ![b] = @ + 1]
  BY DEF MedalsOK, AddRec
<1>2. \A c \in Listed : recs[c] \in Nat /\ recs'[c] = IF c = b THEN recs[c] + 1 ELSE recs[c]
  BY <1>1
<1>3. \A c \in Listed : recs'[c] \in Nat /\ recs'[c] >= recs[c]
  BY <1>2
<1>4. recs' = [c \in Listed |-> recs'[c]]
  BY <1>1
<1> QED  BY <1>3, <1>4

\* What is shown of a player stays with the player, who comes or goes.
LEMMA PlayersChangeFacts ==
  ASSUME MedalsOK, Listed' \in SUBSET Clients, PlayersChange
  PROVE  MedalsOK' /\ Keeps
<1> PICK old, new : old = Listed /\ new = Listed'
  OBVIOUS
<1>1. /\ recs \in [old -> Nat] /\ medals \in [Clients -> Nat] /\ disk \in [Clients -> Nat]
      /\ \A c \in old : recs[c] \in Nat
  BY DEF MedalsOK
<1>2. /\ recs' = [c \in new |-> IF c \in DOMAIN recs THEN recs[c] ELSE medals[c]]
      /\ medals' = [c \in Clients |-> IF c \in DOMAIN recs \ new THEN recs[c] ELSE medals[c]]
      /\ given' = given \cap new /\ disk' = disk
  BY DEF PlayersChange, Listed
<1>3. recs' \in [new -> Nat] /\ medals' \in [Clients -> Nat]
  <2>1. \A c \in Clients : medals[c] \in Nat
    BY <1>1
  <2>2. new \in SUBSET Clients /\ DOMAIN recs = old
    BY <1>1
  <2> QED  BY <1>1, <1>2, <2>1, <2>2
<1>4. MedalsOK'
  BY <1>1, <1>2, <1>3 DEF MedalsOK
<1>5. ASSUME NEW c \in Clients
      PROVE  Recs(c)' >= Recs(c)
  <2>1. Recs(c) = IF c \in old THEN recs[c] ELSE medals[c]
    BY DEF Recs
  <2>2. Recs(c)' = IF c \in new THEN recs'[c] ELSE medals'[c]
    BY DEF Recs
  <2>3. DOMAIN recs = old /\ (c \in old => recs[c] \in Nat) /\ medals[c] \in Nat
    BY <1>1
  <2>4. c \in new => recs'[c] = IF c \in old THEN recs[c] ELSE medals[c]
    BY <1>2, <2>3
  <2>5. medals'[c] = IF c \in old /\ c \notin new THEN recs[c] ELSE medals[c]
    BY <1>2, <2>3
  <2> QED  BY <2>1, <2>2, <2>3, <2>4, <2>5
<1> QED  BY <1>4, <1>5 DEF Keeps

LEMMA ReloadFacts ==
  ASSUME MedalsOK, Listed \in SUBSET Clients, Listed' = Listed, Reload
  PROVE  MedalsOK' /\ (UuidIsName => Keeps)
<1> PICK e : e = disk'
  OBVIOUS
<1>1. /\ e = [c \in Clients |-> IF c \in Listed THEN recs[c] ELSE medals[c]]
      /\ medals' = e /\ disk' = e /\ given' = given
      /\ recs' = [c \in Listed |-> IF UuidIsName THEN e[c] ELSE 0]
  BY DEF Reload, ReadByName
<1>2. /\ recs \in [Listed -> Nat] /\ medals \in [Clients -> Nat] /\ given \in SUBSET Listed
      /\ \A c \in Listed : recs[c] \in Nat
      /\ \A c \in Clients : medals[c] \in Nat
  BY DEF MedalsOK
<1>3. e \in [Clients -> Nat] /\ \A c \in Clients : e[c] \in Nat
  BY <1>1, <1>2
<1>4. recs' \in [Listed -> Nat]
  BY <1>1, <1>3
<1>5. MedalsOK'
  BY <1>1, <1>2, <1>3, <1>4 DEF MedalsOK
<1>6. ASSUME UuidIsName, NEW c \in Clients
      PROVE  Recs(c)' >= Recs(c)
  <2>1. Recs(c) = IF c \in Listed THEN recs[c] ELSE medals[c]
    BY DEF Recs
  <2>2. Recs(c)' = IF c \in Listed THEN recs'[c] ELSE medals'[c]
    BY DEF Recs
  <2>3. e[c] = IF c \in Listed THEN recs[c] ELSE medals[c]
    BY <1>1
  <2>4. (c \in Listed => recs'[c] = e[c]) /\ medals'[c] = e[c]
    BY <1>1, <1>6
  <2>5. e[c] \in Nat
    BY <1>3
  <2> QED  BY <2>1, <2>2, <2>3, <2>4, <2>5
<1> QED  BY <1>5, <1>6 DEF Keeps

LEMMA RehashFacts ==
  ASSUME MedalsOK, Listed \in SUBSET Clients, Listed' = Listed, Rehash
  PROVE  MedalsOK'
<1> PICK e : e = disk'
  OBVIOUS
<1>1. /\ e = medals /\ medals' = e /\ disk' = e /\ given' = given
      /\ recs' = [c \in Listed |-> IF UuidIsName THEN e[c] ELSE 0]
  BY DEF Rehash, ReadByName
<1>2. /\ medals \in [Clients -> Nat] /\ given \in SUBSET Listed /\ \A c \in Clients : medals[c] \in Nat
  BY DEF MedalsOK
<1>3. recs' \in [Listed -> Nat]
  BY <1>1, <1>2
<1> QED  BY <1>1, <1>2, <1>3 DEF MedalsOK

LEMMA MedalsRestartFacts ==
  ASSUME MedalsOK, server'.players = <<>>, MedalsRestart
  PROVE  MedalsOK'
<1>1. Listed' = {}
  BY NobodyFacts DEF Listed
<1>2. recs' = [c \in {} |-> 0] /\ given' = {} /\ medals' = disk /\ disk' = disk
  BY DEF MedalsRestart, NoOne
<1>3. recs' \in [{} -> Nat] /\ disk \in [Clients -> Nat]
  BY <1>2 DEF MedalsOK
<1> QED  BY <1>1, <1>2, <1>3 DEF MedalsOK

LEMMA MedalsStep ==
  ASSUME MatchOK, MatchOK', MedalsOK, Next
  PROVE  MedalsOK' /\ (UuidIsName => RehashMedals \/ Crash \/ CrashInUpdate \/ Keeps)
<1>0. ServerOK /\ Listed \in SUBSET Clients
  BY ServerFacts DEF MatchOK
<1>00. Listed' \in SUBSET Clients
  <2>1. server'.players \in Seq(Scorers)
    BY DEF MatchOK, ServerOK
  <2> PICK list \in Seq(Scorers) : list = server'.players
    BY <2>1
  <2>2. \A i \in DOMAIN list : list[i] \in Scorers
    OBVIOUS
  <2>3. \A i \in DOMAIN list : list[i].id \in Clients
    BY <2>2, ScorerFacts
  <2> QED  BY <2>3 DEF Listed
<1>1. CASE Game
  <2>1. UNCHANGED medalsVars
    BY <1>1 DEF Game, Idle
  <2>2. server'.players = server.players
    <3>1. CASE GameStep
      BY <3>1 DEF GameStep, Join, Leave, Score, EndMatch, Travel, StartMatch, Answer
    <3>2. CASE UpdateClientList
      BY <3>2 DEF UpdateClientList
    <3>3. CASE ServerConnects
      BY <3>3, ConnectFacts
    <3> QED  BY <1>1, <3>1, <3>2, <3>3 DEF Game
  <2>3. Listed' = Listed
    BY <2>2 DEF Listed
  <2> QED  BY <2>1, <2>3, MedalsStay
<1>2. CASE (\E by, of \in Clients : AsksToRecommend(by, of)) \/ NextDay
  <2>1. UNCHANGED <<server, medalsVars>>
    BY <1>2 DEF AsksToRecommend, NextDay, Idle, matchVars
  <2>2. Listed' = Listed
    BY <2>1 DEF Listed
  <2> QED  BY <2>1, <2>2, MedalsStay
<1>3. CASE HandlePlayers \/ HandleList \/ Lost
  BY <1>00, <1>3, PlayersChangeFacts DEF HandlePlayers, HandleList, Lost
<1>4. CASE HandleStart \/ HandleReady
  <2>1. UNCHANGED medalsVars /\ server'.players = server.players
    BY <1>0, <1>4 DEF HandleStart, HandleReady, ServerStart, Idle, ServerOK
  <2>2. Listed' = Listed
    BY <2>1 DEF Listed
  <2> QED  BY <2>1, <2>2, MedalsStay
<1>5. CASE HandleEnd
  <2>1. UNCHANGED server /\ (OnMatchEnd \/ UNCHANGED medalsVars)
    BY <1>5 DEF HandleEnd
  <2>2. Listed' = Listed
    BY <2>1 DEF Listed
  <2>3. ASSUME OnMatchEnd
        PROVE  MedalsOK' /\ Keeps
    <3>1. disk' = medals /\ UNCHANGED <<given, medals>> /\ (AddRec(Best) \/ recs' = recs)
      BY <2>3 DEF OnMatchEnd
    <3>2. recs' \in [Listed -> Nat] /\ \A c \in Listed : recs'[c] >= recs[c]
      <4>1. CASE AddRec(Best)
        <5> PICK b : b = Best
          OBVIOUS
        <5> QED  BY <4>1, AddRecFacts
      <4>2. CASE recs' = recs
        BY <4>2 DEF MedalsOK
      <4> QED  BY <3>1, <4>1, <4>2
    <3>3. MedalsOK'
      BY <2>2, <3>1, <3>2 DEF MedalsOK
    <3>4. \A c \in Clients : medals[c] \in Nat
      BY DEF MedalsOK
    <3>5. ASSUME NEW c \in Clients
          PROVE  Recs(c)' >= Recs(c)
      <4>1. Recs(c) = IF c \in Listed THEN recs[c] ELSE medals[c]
        BY DEF Recs
      <4>2. Recs(c)' = IF c \in Listed THEN recs'[c] ELSE medals[c]
        BY <2>2, <3>1 DEF Recs
      <4> QED  BY <3>2, <3>4, <4>1, <4>2
    <3> QED  BY <3>3, <3>5 DEF Keeps
  <2> QED  BY <2>1, <2>2, <2>3, MedalsStay
<1>6. CASE HandleRec
  <2> PICK by, of : by = Line.by /\ of = Line.of
    OBVIOUS
  <2>1. UNCHANGED <<server, medals, disk>> /\ OnRec(by, of)
    BY <1>6 DEF HandleRec, OnRec
  <2>2. Listed' = Listed
    BY <2>1 DEF Listed
  <2>3. CASE {by, of} \subseteq Listed /\ by # of /\ by \notin given
    <3>1. AddRec(of) /\ given' = given \cup {by} /\ by \in Listed
      BY <2>1, <2>3 DEF OnRec
    <3>2. given' \in SUBSET Listed
      BY <3>1 DEF MedalsOK
    <3> QED  BY <2>1, <2>2, <3>1, <3>2, AddRecFacts, NobodyLoses
  <2>4. CASE ~({by, of} \subseteq Listed /\ by # of /\ by \notin given)
    <3>1. UNCHANGED medalsVars
      BY <2>1, <2>4 DEF OnRec, medalsVars
    <3> QED  BY <2>2, <3>1, MedalsStay
  <2> QED  BY <2>3, <2>4
<1>7. CASE Crash \/ CrashInUpdate
  <2>1. MedalsRestart /\ server'.players = <<>>
    BY <1>7, GoneFacts DEF Crash, CrashInUpdate, Stopped
  <2> QED  BY <1>7, <2>1, MedalsRestartFacts
<1>8. CASE RehashMedals \/ ReloadMedals
  <2>1. UNCHANGED server
    BY <1>8 DEF RehashMedals, ReloadMedals, matchVars
  <2>2. Listed' = Listed
    BY <2>1 DEF Listed
  <2> QED  BY <1>0, <1>8, <2>2, RehashFacts, ReloadFacts DEF RehashMedals, ReloadMedals
<1> QED  BY <1>1, <1>2, <1>3, <1>4, <1>5, <1>6, <1>7, <1>8 DEF Next

----------------------------------------------------------------------------
(***************************************************************************)
(* The list that is waited for                                             *)
(***************************************************************************)
OnWay(q) == \E i \in DOMAIN q : q[i].kind = "list"

LEMMA WaitsFacts == WaitsForAList <=> (waiting /\ server.up => Asks(tx) \/ OnWay(rx))
<1> QED  BY DEF WaitsForAList, Asks, OnWay

LEMMA WrittenOn ==
  ASSUME NEW q \in Seq(Lines), NEW line \in Lines, NEW r, r = Append(q, line), OnWay(q) \/ line.kind = "list"
  PROVE  OnWay(r)
<1>1. /\ \A i \in DOMAIN q : i \in DOMAIN r /\ r[i] = q[i]
      /\ Len(q) + 1 \in DOMAIN r /\ r[Len(q) + 1] = line
  BY WrittenFacts
<1> QED  BY <1>1 DEF OnWay

LEMMA ReadOn ==
  ASSUME NEW q \in Seq(Lines), q # <<>>, q[1].kind # "list", NEW r, r = Tail(q), OnWay(q)
  PROVE  OnWay(r)
<1>1. \A i \in DOMAIN q : i = 1 \/ (i - 1 \in DOMAIN r /\ r[i - 1] = q[i])
  BY ReadFacts
<1> QED  BY <1>1 DEF OnWay

LEMMA AskedOn ==
  ASSUME NEW q \in Seq(Words), q # <<>>, NEW r, r = Tail(q), Asks(q)
  PROVE  Head(q) = "list" \/ Asks(r)
<1>1. /\ Head(q) = q[1]
      /\ \A i \in DOMAIN q : i = 1 \/ (i - 1 \in DOMAIN r /\ r[i - 1] = q[i])
  BY ReadFacts
<1> QED  BY <1>1 DEF Asks

LEMMA WaitStep ==
  ASSUME MatchOK, LadderOK, WaitsForAList, Next
  PROVE  WaitsForAList'
<1> SUFFICES ASSUME waiting', server'.up PROVE Asks(tx') \/ OnWay(rx')
  BY DEF WaitsForAList, Asks, OnWay
<1>0. /\ StreamOK /\ ServerOK /\ rx \in Seq(Lines) /\ tx \in Seq(Words)
      /\ (waiting /\ server.up => Asks(tx) \/ OnWay(rx))
  BY WaitsFacts DEF MatchOK, StreamOK, Words
<1>1. ASSUME UNCHANGED <<tx, server, waiting>>, NEW line \in Lines, Log(line)
      PROVE  Asks(tx') \/ OnWay(rx')
  <2>1. server.up /\ waiting /\ rx' = Append(rx, line)
    BY <1>0, <1>1, LogFacts
  <2>2. OnWay(rx) => OnWay(rx')
    BY <1>0, <1>1, <2>1, WrittenOn
  <2> QED  BY <1>0, <1>1, <2>1, <2>2
<1>2. ASSUME UNCHANGED <<tx, waiting>>, NEW kind, Handle(kind), kind # "list"
      PROVE  Asks(tx') \/ OnWay(rx')
  <2>1. server.up /\ rx # <<>> /\ rx' = Tail(rx) /\ rx[1].kind # "list"
    BY <1>2, HandleFacts
  <2>2. OnWay(rx) => OnWay(rx')
    BY <1>0, <2>1, ReadOn
  <2> QED  BY <1>0, <1>2, <2>1, <2>2
<1>3. CASE Game
  <2>1. UNCHANGED waiting
    BY <1>3 DEF Game, Idle, ladderVars
  <2>2. ASSUME NEW c \in Clients, Join(c) \/ Leave(c) \/ Score(c)
        PROVE  Asks(tx') \/ OnWay(rx')
    <3>1. [kind |-> "join", who |-> c] \in Lines /\ [kind |-> "leave", who |-> c] \in Lines
      BY DEF Lines
    <3>2. CASE Join(c)
      BY <1>1, <2>1, <3>1, <3>2 DEF Join
    <3>3. CASE Leave(c)
      BY <1>1, <2>1, <3>1, <3>3 DEF Leave
    <3>4. CASE Score(c)
      BY <1>0, <2>1, <3>4 DEF Score
    <3> QED  BY <2>2, <3>2, <3>3, <3>4
  <2>3. ASSUME EndMatch \/ StartMatch
        PROVE  Asks(tx') \/ OnWay(rx')
    <3>1. [kind |-> "end"] \in Lines /\ [kind |-> "start"] \in Lines
      BY DEF Lines
    <3> QED  BY <1>1, <2>1, <2>3, <3>1 DEF EndMatch, StartMatch
  <2>4. ASSUME NEW seamless \in BOOLEAN, Travel(seamless)
        PROVE  Asks(tx') \/ OnWay(rx')
    <3>1. [kind |-> "changing", seamless |-> seamless] \in Lines
      BY DEF Lines
    <3> QED  BY <1>1, <2>1, <2>4, <3>1 DEF Travel
  <2>5. ASSUME Answer
        PROVE  Asks(tx') \/ OnWay(rx')
    <3>1. server.up /\ tx # <<>> /\ tx' = Tail(tx)
      BY <2>5, AnswerFacts DEF Answer
    <3>2. PICK line \in Lines : rx' = Append(rx, line) /\ (Head(tx) = "list" => line.kind = "list")
      BY <2>5, AnswerFacts
    <3>3. Asks(tx) => Head(tx) = "list" \/ Asks(tx')
      BY <1>0, <3>1, AskedOn
    <3>4. OnWay(rx) \/ line.kind = "list" => OnWay(rx')
      BY <1>0, <3>2, WrittenOn
    <3> QED  BY <1>0, <2>1, <3>1, <3>2, <3>3, <3>4
  <2>6. ASSUME UpdateClientList
        PROVE  Asks(tx') \/ OnWay(rx')
    BY <1>0, <2>1, <2>6, AskedFacts DEF UpdateClientList
  <2>7. ASSUME ServerConnects
        PROVE  Asks(tx') \/ OnWay(rx')
    BY <2>7, ConnectFacts
  <2> QED  BY <1>3, <2>2, <2>3, <2>4, <2>5, <2>6, <2>7 DEF Game, GameStep
<1>4. CASE \E by, of \in Clients : AsksToRecommend(by, of)
  <2>1. PICK by \in Clients, of \in Clients : AsksToRecommend(by, of)
    BY <1>4
  <2>2. [kind |-> "rec", by |-> by, of |-> of] \in Lines
    BY DEF Lines
  <2> QED  BY <1>1, <2>1, <2>2 DEF AsksToRecommend, Idle, ladderVars
<1>5. CASE HandlePlayers
  <2>1. Handle(Line.kind) /\ UNCHANGED tx /\ Line.kind # "list"
    BY <1>5, PlayersFacts DEF HandlePlayers
  <2> QED  BY <1>2, <1>5, <2>1 DEF HandlePlayers, ladderVars
<1>6. CASE HandleStart
  BY <1>2, <1>6 DEF HandleStart, ServerStart, Idle, ladderVars
<1>7. CASE HandleReady
  BY <1>2, <1>7 DEF HandleReady, Idle, ladderVars
<1>8. CASE HandleRec
  BY <1>2, <1>8 DEF HandleRec, ladderVars
<1>9. CASE HandleEnd
  <2>1. CASE "Ladder" \in loaded
    <3>1. OnGameOver /\ Handle("end")
      BY <1>9, <2>1 DEF HandleEnd
    <3>2. CASE MatchCounts
      <4>1. tx' = Asked /\ server.players # <<>>
        BY <3>1, <3>2 DEF OnGameOver, MatchCounts
      <4> QED  BY <1>0, <4>1, AskedFacts
    <3>3. CASE ~MatchCounts
      <4>1. waiting /\ UNCHANGED tx
        BY <3>1, <3>3 DEF OnGameOver
      <4>2. server.up /\ rx # <<>> /\ rx' = Tail(rx) /\ rx[1].kind # "list"
        BY <3>1, HandleFacts
      <4>3. OnWay(rx) => OnWay(rx')
        BY <1>0, <4>2, ReadOn
      <4> QED  BY <1>0, <4>1, <4>2, <4>3
    <3> QED  BY <3>2, <3>3
  <2>2. CASE "Ladder" \notin loaded
    BY <1>2, <1>9, <2>2 DEF HandleEnd, ladderVars
  <2> QED  BY <2>1, <2>2
<1>10. CASE HandleList
  BY <1>10 DEF HandleList, OnList
<1>11. CASE Lost
  BY <1>11, GoneFacts DEF Lost, ServerLost
<1>12. CASE Crash \/ CrashInUpdate
  BY <1>12 DEF Crash, CrashInUpdate, Restart
<1>13. CASE RehashMedals \/ ReloadMedals \/ NextDay
  <2>1. UNCHANGED <<server, tx, rx, waiting>>
    BY <1>13 DEF RehashMedals, ReloadMedals, NextDay, Midnight, matchVars, ladderVars
  <2> QED  BY <1>0, <2>1
<1> QED
  BY <1>3, <1>4, <1>5, <1>6, <1>7, <1>8, <1>9, <1>10, <1>11, <1>12, <1>13 DEF Next

----------------------------------------------------------------------------
(***************************************************************************)
(* The invariant                                                           *)
(***************************************************************************)
Inv == /\ MatchOK /\ LadderOK /\ BehindOK /\ MedalsOK /\ WaitsForAList
       /\ loaded \in PluginSets

LEMMA InitInv ==
  ASSUME Init
  PROVE  Inv
<1> USE DEF Init, MatchInit, LadderInit, MedalsInit
<1>1. /\ game = [match |-> 0, phase |-> "travelling", score |-> [c \in {} |-> 0]]
      /\ career = [c \in Clients |-> 0] /\ tx = <<>> /\ rx = <<>>
      /\ server = [up |-> FALSE, ranked |-> FALSE, reliable |-> FALSE, players |-> <<>>]
  BY DEF NoOne, Offline
<1>2. GameOK
  <2> PICK f : f = [c \in {} |-> 0]
    OBVIOUS
  <2>1. {} \in SUBSET Clients /\ f \in [{} -> 0 .. MaxPoints]
    OBVIOUS
  <2>2. f \in Scoring /\ DOMAIN f = {}
    BY <2>1, IsScoring
  <2>3. 0 \in 0 .. MaxMatches /\ career \in [Clients -> 0 .. MaxPoints]
    BY <1>1, Bounds
  <2>4. game.score = f
    BY <1>1
  <2> QED  BY <1>1, <2>2, <2>3, <2>4 DEF GameOK
<1>3. Listed = {} /\ Players(server.players)
  BY <1>1, NobodyFacts DEF Listed
<1>4. ServerOK
  <2>1. server.players \in Seq(Scorers) /\ Unique(server.players)
    BY <1>3 DEF Players
  <2> QED  BY <1>1, <2>1 DEF ServerOK
<1>5. MatchOK
  BY <1>1, <1>2, <1>4 DEF MatchOK, StreamOK
<1>6. LadderOK /\ BehindOK
  <2>1. Databases = {"alltime", "daily"}
    BY DatabasesAre
  <2> PICK none : none = <<>>
    OBVIOUS
  <2>2. Standing(none) /\ \A c : TotalOf(none, c) = 0
    BY EmptyFacts
  <2>3. /\ \A d \in Databases : entries[d] = none /\ file[d] = none
        /\ waiting = FALSE /\ today = 0 /\ lastSorted = 0 /\ torn = FALSE
    OBVIOUS
  <2>4. 0 \in 0 .. MaxDays
    BY LadderAssumption
  <2>5. LadderOK
    BY <2>1, <2>2, <2>3, <2>4 DEF LadderOK
  <2>6. Behind(none, none)
    BY <2>2 DEF Behind
  <2>7. file["daily"] = none /\ file["alltime"] = none
    BY <2>1, <2>3
  <2>8. BehindOK
    BY <2>3, <2>6, <2>7 DEF BehindOK
  <2> QED  BY <2>5, <2>8
<1>7. MedalsOK
  <2>1. recs \in [{} -> Nat] /\ given = {} /\ medals \in [Clients -> Nat] /\ disk = medals
    BY DEF NoOne
  <2> QED  BY <1>3, <2>1 DEF MedalsOK
<1>8. WaitsForAList
  BY DEF WaitsForAList
<1> QED  BY <1>5, <1>6, <1>7, <1>8 DEF Inv

LEMMA NextInv ==
  ASSUME Inv, [Next]_vars
  PROVE  Inv'
<1>1. MatchOK /\ LadderOK /\ BehindOK /\ MedalsOK /\ WaitsForAList /\ loaded \in PluginSets
  BY DEF Inv
<1>2. CASE Next
  <2>1. MatchOK'
    BY <1>1, <1>2, MatchStep
  <2>2. LadderOK' /\ BehindOK'
    BY <1>1, <1>2, LadderStep
  <2>3. MedalsOK'
    BY <1>1, <1>2, <2>1, MedalsStep
  <2>4. WaitsForAList'
    BY <1>1, <1>2, WaitStep
  <2>5. loaded' \in PluginSets
    BY <1>1, <1>2 DEF Next, Game, AsksToRecommend, HandlePlayers, HandleStart, HandleEnd, HandleRec, HandleList,
         HandleReady, Lost, Crash, CrashInUpdate, RehashMedals, ReloadMedals, NextDay, Idle, bot
  <2> QED  BY <2>1, <2>2, <2>3, <2>4, <2>5 DEF Inv
<1>3. CASE UNCHANGED vars
  <2>1. /\ UNCHANGED <<game, career, tx, rx, server, waiting, entries, file, lastSorted, today>>
        /\ UNCHANGED <<recs, given, medals, disk, loaded, torn>>
    BY <1>3 DEF vars, matchVars, ladderVars, medalsVars, bot
  <2>2. MatchOK'
    BY <1>1, <2>1 DEF MatchOK, GameOK, ServerOK, StreamOK
  <2>3. LadderOK' /\ BehindOK'
    BY <1>1, <2>1 DEF LadderOK, BehindOK
  <2>4. MedalsOK'
    BY <1>1, <2>1 DEF MedalsOK, Listed
  <2>5. WaitsForAList'
    BY <1>1, <2>1 DEF WaitsForAList
  <2> QED  BY <1>1, <2>1, <2>2, <2>3, <2>4, <2>5 DEF Inv
<1> QED  BY <1>2, <1>3

LEMMA LadderShape ==
  ASSUME NEW list, Standing(list)
  PROVE  IsLadder(list)
<1>1. list \in Seq(Entries) /\ \A i \in DOMAIN list : list[i].rank = i
  BY DEF Standing
<1>2. /\ DOMAIN list = 1 .. Len(list) /\ Len(list) \in Nat
      /\ \A i \in DOMAIN list : list[i].id \in Clients /\ list[i].score \in Nat
  BY <1>1, ListShape
<1>3. \A i \in DOMAIN list : list[i].rank \in 0 .. Len(list)
  BY <1>1, <1>2
<1> QED  BY <1>2, <1>3 DEF IsLadder

LEMMA InvSound ==
  ASSUME Inv
  PROVE  LaddersSound
<1>1. GameOK /\ ServerOK /\ StreamOK /\ LadderOK /\ BehindOK /\ MedalsOK /\ WaitsForAList
  BY DEF Inv, MatchOK
<1>2. MatchTypeOK
  <2>1. /\ game.match \in 0 .. MaxMatches /\ game.phase \in {"playing", "over", "travelling"}
        /\ DOMAIN game.score \in SUBSET Clients
    BY <1>1, GameFacts
  <2>2. server.up \in BOOLEAN /\ server.ranked \in BOOLEAN /\ server.reliable \in BOOLEAN
    BY <1>1, ServerFacts
  <2>3. server.players \in Seq([id : Clients, points : 0 .. MaxPoints])
    BY <1>1, ServerFacts DEF Scorers
  <2>4. career \in [Clients -> 0 .. MaxPoints] /\ tx \in Seq({"list", "ping"})
    BY <1>1 DEF GameOK, StreamOK
  <2> QED  BY <2>1, <2>2, <2>3, <2>4 DEF MatchTypeOK
<1>3. \A d \in Databases : Standing(entries[d]) /\ Standing(file[d])
  BY <1>1 DEF LadderOK
<1>4. LadderTypeOK
  BY <1>1, <1>3, LadderShape DEF LadderTypeOK, LadderOK
<1>5. MedalsTypeOK
  BY <1>1 DEF MedalsOK, MedalsTypeOK
<1>6. TypeOK
  BY <1>1, <1>2, <1>4, <1>5 DEF TypeOK, Inv, BehindOK
<1>7. LaddersOrdered
  <2> SUFFICES ASSUME NEW d \in Databases, NEW list \in {entries[d], file[d]}
               PROVE  IsOrdered(list) /\ list = Ranked(list)
    BY DEF LaddersOrdered
  <2>1. Standing(list)
    BY <1>3
  <2>2. list = Ranked(list)
    BY <2>1, StandingFacts
  <2>3. IsOrdered(list)
    BY <2>1 DEF Standing
  <2> QED  BY <2>2, <2>3
<1>8. DailyWithinAllTime
  BY <1>1 DEF BehindOK, Behind, DailyWithinAllTime
<1> QED  BY <1>1, <1>6, <1>7, <1>8 DEF LaddersSound

\* The invariant holds.
THEOREM Inductive == Spec => []Inv
<1> QED  BY InitInv, NextInv, PTL DEF Spec

\* At any time, however many matches were played and wherever the process died while it
\* wrote: the ladders are in order in memory and in the files, with nobody listed twice; a
\* list of clients that is waited for is on its way; and the ladder of the day stays behind
\* that of all time, unless a file was torn.
THEOREM LaddersStaySound == Spec => []LaddersSound
<1> QED  BY Inductive, InvSound, PTL

\* With the uuid that RenX.NicknameUUID gives, nobody loses recommendations by joining,
\* leaving, a lost connection, the end of a match or when the plugin is loaded anew.
THEOREM RecommendationsAreKept ==
  ASSUME UuidIsName
  PROVE  Spec => RecsKept
<1>1. ASSUME Inv, Inv', [Next]_vars
      PROVE  [RehashMedals \/ Crash \/ CrashInUpdate \/ \A c \in Clients : Recs(c)' >= Recs(c)]_vars
  <2>1. CASE Next
    BY <1>1, <2>1, MedalsStep DEF Inv, Keeps
  <2>2. CASE UNCHANGED vars
    BY <2>2
  <2> QED  BY <1>1, <2>1, <2>2
<1> QED  BY <1>1, Inductive, PTL DEF Spec, RecsKept

----------------------------------------------------------------------------
(***************************************************************************)
(* What the lines of a match may be, if no match starts before the bot     *)
(* knows all of the last one                                               *)
(***************************************************************************)
Among(q, kind) == \E i \in DOMAIN q : q[i].kind = kind

\* A match ends once, and nothing of the one before is behind a change of map.
Orderly(q) ==
  /\ \A i, j \in DOMAIN q : q[i].kind = "end" /\ q[j].kind = "end" => i = j
  /\ \A i \in DOMAIN q : q[i].kind = "changing" => i = 1

OrderOK ==
  /\ Orderly(rx)
  /\ Among(rx, "end") => game.phase = "over"
  /\ waiting => game.phase = "over" /\ ~Among(rx, "end")

LEMMA NoLines == Orderly(<<>>) /\ \A kind : ~Among(<<>>, kind)
<1> PICK q : q = <<>>
  OBVIOUS
<1>1. DOMAIN q = {}
  OBVIOUS
<1> QED  BY <1>1 DEF Orderly, Among

LEMMA WrittenOrder ==
  ASSUME NEW q \in Seq(Lines), Orderly(q), NEW line \in Lines, NEW r, r = Append(q, line),
         line.kind = "end" => ~Among(q, "end"), line.kind = "changing" => q = <<>>
  PROVE  Orderly(r) /\ \A kind : Among(r, kind) <=> Among(q, kind) \/ line.kind = kind
<1>1. /\ \A i \in DOMAIN q : i \in DOMAIN r /\ r[i] = q[i]
      /\ Len(q) + 1 \in DOMAIN r /\ r[Len(q) + 1] = line
      /\ \A i \in DOMAIN r : i \in DOMAIN q \/ i = Len(q) + 1
  BY WrittenFacts
<1>2. \A kind : Among(r, kind) <=> Among(q, kind) \/ line.kind = kind
  BY <1>1 DEF Among
<1>3. q = <<>> => Len(q) + 1 = 1
  OBVIOUS
<1>4. \A i \in DOMAIN r : r[i].kind = "changing" => i = 1
  BY <1>1, <1>3 DEF Orderly
<1>5. \A i, j \in DOMAIN r : r[i].kind = "end" /\ r[j].kind = "end" => i = j
  BY <1>1 DEF Orderly, Among
<1> QED  BY <1>2, <1>4, <1>5 DEF Orderly

LEMMA ReadOrder ==
  ASSUME NEW q \in Seq(Lines), q # <<>>, Orderly(q), NEW r, r = Tail(q)
  PROVE  /\ Orderly(r) /\ ~Among(r, "changing")
         /\ \A kind : Among(r, kind) => Among(q, kind)
         /\ \A kind : Among(q, kind) => Among(r, kind) \/ q[1].kind = kind
         /\ q[1].kind = "end" => ~Among(r, "end")
         /\ Among(q, q[1].kind)
<1>1. /\ 1 \in DOMAIN q
      /\ \A i \in DOMAIN r : i + 1 \in DOMAIN q /\ r[i] = q[i + 1] /\ i \in Nat \ {0}
      /\ \A i \in DOMAIN q : i = 1 \/ (i - 1 \in DOMAIN r /\ r[i - 1] = q[i])
  BY ReadFacts
<1>2. \A i \in DOMAIN r : i + 1 # 1
  BY <1>1
<1>3. ~Among(r, "changing")
  BY <1>1, <1>2 DEF Among, Orderly
<1>4. \A i, j \in DOMAIN r : r[i].kind = "end" /\ r[j].kind = "end" => i = j
  <2> SUFFICES ASSUME NEW i \in DOMAIN r, NEW j \in DOMAIN r, r[i].kind = "end", r[j].kind = "end"
               PROVE  i = j
    OBVIOUS
  <2>1. i + 1 = j + 1
    BY <1>1 DEF Orderly
  <2>2. i \in Nat /\ j \in Nat
    BY <1>1
  <2> QED  BY <2>1, <2>2
<1>5. Orderly(r)
  BY <1>3, <1>4 DEF Orderly, Among
<1>6. q[1].kind = "end" => ~Among(r, "end")
  BY <1>1, <1>2 DEF Among, Orderly
<1>7. (\A kind : Among(r, kind) => Among(q, kind)) /\ Among(q, q[1].kind)
  BY <1>1 DEF Among
<1>8. \A kind : Among(q, kind) => Among(r, kind) \/ q[1].kind = kind
  BY <1>1 DEF Among
<1> QED  BY <1>3, <1>5, <1>6, <1>7, <1>8

\* A line of a kind, or nothing if nobody listens.
LEMMA LogOrder ==
  ASSUME MatchOK, Orderly(rx), NEW line \in Lines, Log(line),
         line.kind = "end" => ~Among(rx, "end"), line.kind = "changing" => rx = <<>>
  PROVE  /\ Orderly(rx')
         /\ \A kind : Among(rx', kind) => Among(rx, kind) \/ line.kind = kind
         /\ \A kind : Among(rx, kind) => Among(rx', kind)
         /\ server.up => Among(rx', line.kind)
<1>1. rx \in Seq(Lines) /\ StreamOK
  BY DEF MatchOK, StreamOK
<1> PICK r : r = rx'
  OBVIOUS
<1>2. (~server.up => r = rx) /\ (server.up => r = Append(rx, line))
  BY <1>1, LogFacts
<1>3. CASE server.up
  <2>1. r = Append(rx, line)
    BY <1>2, <1>3
  <2>2. Orderly(r) /\ \A kind : Among(r, kind) <=> Among(rx, kind) \/ line.kind = kind
    BY <1>1, <2>1, WrittenOrder
  <2> QED  BY <2>2
<1>4. CASE ~server.up
  BY <1>2, <1>4
<1> QED  BY <1>3, <1>4

LEMMA HandleOrder ==
  ASSUME MatchOK, Orderly(rx), NEW kind, Handle(kind)
  PROVE  /\ Orderly(rx') /\ ~Among(rx', "changing") /\ Among(rx, kind)
         /\ \A k : Among(rx', k) => Among(rx, k)
         /\ \A k : Among(rx, k) => Among(rx', k) \/ k = kind
         /\ kind = "end" => ~Among(rx', "end")
<1> PICK r : r = rx'
  OBVIOUS
<1>1. rx \in Seq(Lines) /\ rx # <<>> /\ r = Tail(rx) /\ rx[1].kind = kind
  BY HandleFacts DEF MatchOK, StreamOK
<1>2. /\ Orderly(r) /\ ~Among(r, "changing")
      /\ \A k : Among(r, k) => Among(rx, k)
      /\ \A k : Among(rx, k) => Among(r, k) \/ rx[1].kind = k
      /\ rx[1].kind = "end" => ~Among(r, "end")
      /\ Among(rx, rx[1].kind)
  BY <1>1, ReadOrder
<1> QED  BY <1>1, <1>2

LEMMA TravelWaits ==
  ASSUME Prompt, MatchOK, Game, NEW seamless \in BOOLEAN, Travel(seamless)
  PROVE  ~waiting /\ rx = <<>> /\ tx = <<>>
<1>1. game'.match = game.match + 1 /\ rx = <<>> /\ tx = <<>>
  BY DEF Travel
<1>2. game.match \in Nat
  BY GameFacts, Bounds DEF MatchOK
<1>3. game.match + 1 # game.match
  BY <1>2
<1> QED  BY <1>1, <1>3 DEF Game

LEMMA OrderStep ==
  ASSUME Prompt, MatchOK, OrderOK, Next
  PROVE  OrderOK'
<1>0. /\ Orderly(rx) /\ (Among(rx, "end") => game.phase = "over")
      /\ (waiting => game.phase = "over" /\ ~Among(rx, "end"))
      /\ game.phase \in {"playing", "over", "travelling"} /\ GameOK
  BY GameFacts DEF OrderOK, MatchOK
<1>1. ASSUME UNCHANGED waiting, game'.phase = game.phase, NEW line \in Lines, Log(line),
             line.kind \notin {"end", "changing"}
      PROVE  OrderOK'
  <2>1. Orderly(rx') /\ (Among(rx', "end") => Among(rx, "end"))
    BY <1>0, <1>1, LogOrder
  <2> QED  BY <1>0, <1>1, <2>1 DEF OrderOK
<1>2. ASSUME NEW kind, Handle(kind), UNCHANGED waiting
      PROVE  OrderOK'
  <2>1. Orderly(rx') /\ (Among(rx', "end") => Among(rx, "end")) /\ UNCHANGED game
    BY <1>0, <1>2, HandleOrder, HandleFacts DEF gameVars
  <2> QED  BY <1>0, <1>2, <2>1 DEF OrderOK
<1>3. ASSUME UNCHANGED <<game, rx, waiting>>
      PROVE  OrderOK'
  BY <1>3 DEF OrderOK
<1>4. ASSUME rx' = <<>>, UNCHANGED game, waiting' = FALSE \/ UNCHANGED waiting
      PROVE  OrderOK'
  <2>1. Orderly(rx') /\ ~Among(rx', "end")
    BY <1>4, NoLines
  <2> QED  BY <1>0, <1>4, <2>1 DEF OrderOK
<1>5. CASE Game
  <2>1. UNCHANGED waiting
    BY <1>5 DEF Game, Idle, ladderVars
  <2>2. ASSUME NEW c \in Clients, Join(c) \/ Leave(c) \/ Score(c)
        PROVE  OrderOK'
    <3>1. [kind |-> "join", who |-> c] \in Lines /\ [kind |-> "leave", who |-> c] \in Lines
      BY DEF Lines
    <3>2. CASE Join(c)
      <4>1. game'.phase = game.phase
        BY <1>0, <3>2 DEF Join, GameOK
      <4> QED  BY <1>1, <2>1, <3>1, <3>2, <4>1 DEF Join
    <3>3. CASE Leave(c)
      <4>1. game'.phase = game.phase
        BY <1>0, <3>3 DEF Leave, GameOK
      <4> QED  BY <1>1, <2>1, <3>1, <3>3, <4>1 DEF Leave
    <3>4. CASE Score(c)
      <4>1. game'.phase = game.phase
        BY <1>0, <3>4, ScoreFacts
      <4> QED  BY <2>1, <3>4, <4>1 DEF Score, OrderOK
    <3> QED  BY <2>2, <3>2, <3>3, <3>4
  <2>3. ASSUME EndMatch
        PROVE  OrderOK'
    <3>1. game.phase = "playing" /\ game'.phase = "over" /\ Log([kind |-> "end"])
      BY <1>0, <2>3 DEF EndMatch, GameOK
    <3>2. [kind |-> "end"] \in Lines
      BY DEF Lines
    <3>3. ~Among(rx, "end") /\ ~waiting
      BY <1>0, <3>1
    <3>4. Orderly(rx')
      BY <1>0, <3>1, <3>2, <3>3, LogOrder
    <3> QED  BY <2>1, <3>1, <3>3, <3>4 DEF OrderOK
  <2>4. ASSUME StartMatch
        PROVE  OrderOK'
    <3>1. game.phase = "travelling" /\ Log([kind |-> "start"])
      BY <2>4 DEF StartMatch
    <3>2. [kind |-> "start"] \in Lines
      BY DEF Lines
    <3>3. ~Among(rx, "end") /\ ~waiting
      BY <1>0, <3>1
    <3>4. Orderly(rx') /\ ~Among(rx', "end")
      BY <1>0, <3>1, <3>2, <3>3, LogOrder
    <3> QED  BY <2>1, <3>3, <3>4 DEF OrderOK
  <2>5. ASSUME NEW seamless \in BOOLEAN, Travel(seamless)
        PROVE  OrderOK'
    <3>1. ~waiting /\ rx = <<>> /\ Log([kind |-> "changing", seamless |-> seamless])
      BY <1>5, <2>5, TravelWaits DEF Travel
    <3>2. [kind |-> "changing", seamless |-> seamless] \in Lines
      BY DEF Lines
    <3>3. ~Among(rx, "end")
      BY <3>1, NoLines
    <3>4. Orderly(rx') /\ ~Among(rx', "end")
      BY <1>0, <3>1, <3>2, <3>3, LogOrder
    <3> QED  BY <2>1, <3>1, <3>4 DEF OrderOK
  <2>6. ASSUME Answer
        PROVE  OrderOK'
    <3>1. UNCHANGED game
      BY <2>6 DEF Answer, gameVars
    <3>2. PICK line \in Lines : rx' = Append(rx, line) /\ line.kind \in {"list", "ready"}
      BY <2>6, AnswerFacts
    <3>3. rx \in Seq(Lines)
      BY DEF MatchOK, StreamOK
    <3> PICK r : r = rx'
      OBVIOUS
    <3>4. Orderly(r) /\ \A kind : Among(r, kind) <=> Among(rx, kind) \/ line.kind = kind
      BY <1>0, <3>2, <3>3, WrittenOrder
    <3> QED  BY <1>0, <2>1, <3>1, <3>2, <3>4 DEF OrderOK
  <2>7. ASSUME UpdateClientList
        PROVE  OrderOK'
    BY <1>3, <2>1, <2>7 DEF UpdateClientList, gameVars
  <2>8. ASSUME ServerConnects
        PROVE  OrderOK'
    BY <1>3, <2>1, <2>8 DEF ServerConnects, gameVars
  <2> QED  BY <1>5, <2>2, <2>3, <2>4, <2>5, <2>6, <2>7, <2>8 DEF Game, GameStep
<1>6. CASE \E by, of \in Clients : AsksToRecommend(by, of)
  <2>1. PICK by \in Clients, of \in Clients : AsksToRecommend(by, of)
    BY <1>6
  <2>2. [kind |-> "rec", by |-> by, of |-> of] \in Lines
    BY DEF Lines
  <2>3. UNCHANGED <<game, waiting>> /\ Log([kind |-> "rec", by |-> by, of |-> of])
    BY <2>1 DEF AsksToRecommend, Idle, ladderVars, gameVars
  <2> QED  BY <1>1, <2>2, <2>3
<1>7. CASE HandlePlayers \/ HandleStart \/ HandleReady \/ HandleRec
  <2>1. UNCHANGED waiting
    BY <1>7 DEF HandlePlayers, HandleStart, HandleReady, HandleRec, Idle, ladderVars
  <2>2. PICK kind : Handle(kind)
    BY <1>7, PlayersFacts DEF HandlePlayers, HandleStart, HandleReady, HandleRec, ServerStart
  <2> QED  BY <1>2, <2>1, <2>2
<1>8. CASE HandleEnd
  <2>1. Handle("end")
    BY <1>8 DEF HandleEnd
  <2>2. Orderly(rx') /\ Among(rx, "end") /\ ~Among(rx', "end") /\ UNCHANGED game
    BY <1>0, <2>1, HandleOrder, HandleFacts DEF gameVars
  <2> QED  BY <1>0, <2>2 DEF OrderOK
<1>9. CASE HandleList
  <2>1. Handle("list") /\ waiting' = FALSE
    BY <1>9 DEF HandleList, ServerList, OnList
  <2>2. Orderly(rx') /\ (Among(rx', "end") => Among(rx, "end")) /\ UNCHANGED game
    BY <1>0, <2>1, HandleOrder, HandleFacts DEF gameVars
  <2> QED  BY <1>0, <2>1, <2>2 DEF OrderOK
<1>10. CASE Lost \/ Crash \/ CrashInUpdate
  <2>1. rx' = <<>> /\ UNCHANGED game /\ (waiting' = FALSE \/ UNCHANGED waiting)
    BY <1>10 DEF Lost, ServerLost, Crash, CrashInUpdate, Stopped, Restart, ladderVars, gameVars
  <2> QED  BY <1>4, <2>1
<1>11. CASE RehashMedals \/ ReloadMedals \/ NextDay
  <2>1. UNCHANGED <<game, rx, waiting>>
    BY <1>11 DEF RehashMedals, ReloadMedals, NextDay, Midnight, matchVars, ladderVars
  <2> QED  BY <1>3, <2>1
<1> QED
  BY <1>5, <1>6, <1>7, <1>8, <1>9, <1>10, <1>11 DEF Next

----------------------------------------------------------------------------
(***************************************************************************)
(* What may still be counted                                               *)
(***************************************************************************)
Totals == [c \in Clients |-> TotalOf(file["alltime"], c)]

\* The points of the present match are not in the ladder, but may come into it.
Pending == game.phase # "over" \/ Among(rx, "end") \/ waiting

WithinScore(t, e, score)  == \A c \in DOMAIN score : t[c] + score[c] <= e[c]
WithinPlayers(t, e, list) == \A i \in DOMAIN list : t[list[i].id] + list[i].points <= e[list[i].id]
WithinRows(t, e, q)       == \A i \in DOMAIN q : q[i].kind = "list" => WithinScore(t, e, q[i].rows)

\* They were made after all that is in the ladder; so were those the server has of its
\* players, until it is told of another match, and those on their way to it.
Uncounted ==
  /\ WithinScore(Totals, career, game.score)
  /\ ~Among(rx, "changing") => WithinPlayers(Totals, career, server.players)
  /\ WithinRows(Totals, career, rx)

TotalsOK == (\A c \in Clients : Totals[c] <= career[c]) /\ (Pending => Uncounted)

LEMMA TotalsFacts ==
  ASSUME MatchOK, LadderOK
  PROVE  \A c \in Clients : Totals[c] = TotalOf(file["alltime"], c) /\ Totals[c] \in Nat /\ career[c] \in Nat
<1>1. WellListed(file["alltime"])
  BY DatabasesAre, StandingFacts DEF LadderOK
<1>2. \A c \in Clients : TotalOf(file["alltime"], c) \in Nat
  BY <1>1, TotalFacts
<1>3. \A c \in Clients : career[c] \in Nat
  BY GameFacts DEF MatchOK
<1> QED  BY <1>2, <1>3 DEF Totals

LEMMA WrittenRows ==
  ASSUME NEW t, NEW e, NEW q \in Seq(Lines), WithinRows(t, e, q), NEW line \in Lines,
         line.kind = "list" => WithinScore(t, e, line.rows), NEW r, r = Append(q, line)
  PROVE  WithinRows(t, e, r)
<1>1. /\ \A i \in DOMAIN q : i \in DOMAIN r /\ r[i] = q[i]
      /\ r[Len(q) + 1] = line
      /\ \A i \in DOMAIN r : i \in DOMAIN q \/ i = Len(q) + 1
  BY WrittenFacts
<1> QED  BY <1>1 DEF WithinRows

LEMMA ReadRows ==
  ASSUME NEW t, NEW e, NEW q \in Seq(Lines), q # <<>>, WithinRows(t, e, q), NEW r, r = Tail(q)
  PROVE  WithinRows(t, e, r) /\ (q[1].kind = "list" => WithinScore(t, e, q[1].rows))
<1>1. 1 \in DOMAIN q /\ \A i \in DOMAIN r : i + 1 \in DOMAIN q /\ r[i] = q[i + 1]
  BY ReadFacts
<1> QED  BY <1>1 DEF WithinRows

LEMMA NoRows == \A t, e : WithinRows(t, e, <<>>) /\ WithinPlayers(t, e, <<>>)
<1> PICK q : q = <<>>
  OBVIOUS
<1>1. DOMAIN q = {}
  OBVIOUS
<1> QED  BY <1>1 DEF WithinRows, WithinPlayers

\* Steps by which nothing is credited, and nobody scores.
LEMMA QuietTotals ==
  ASSUME TotalsOK, UNCHANGED <<file, career>>,
         Pending' => /\ WithinScore(Totals, career, game'.score)
                     /\ ~Among(rx', "changing") => WithinPlayers(Totals, career, server'.players)
                     /\ WithinRows(Totals, career, rx')
  PROVE  TotalsOK' /\ Totals' = Totals
<1>1. Totals' = Totals
  BY DEF Totals
<1>2. Pending' => Uncounted'
  BY <1>1 DEF Uncounted
<1> QED  BY <1>1, <1>2 DEF TotalsOK

LEMMA LogTotals ==
  ASSUME MatchOK, OrderOK, TotalsOK, NEW line \in Lines, Log(line), UNCHANGED <<file, career, server>>,
         line.kind # "changing", line.kind = "end" => ~Among(rx, "end"),
         Pending' => Pending,
         Uncounted => WithinScore(Totals, career, game'.score),
         Uncounted /\ line.kind = "list" => WithinScore(Totals, career, line.rows)
  PROVE  TotalsOK'
<1> SUFFICES ASSUME Pending'
             PROVE  /\ WithinScore(Totals, career, game'.score)
                    /\ ~Among(rx', "changing") => WithinPlayers(Totals, career, server'.players)
                    /\ WithinRows(Totals, career, rx')
  BY QuietTotals
<1>1. Uncounted
  BY DEF TotalsOK
<1>2. Among(rx, "changing") => Among(rx', "changing")
  BY LogOrder DEF OrderOK
<1>3. WithinRows(Totals, career, rx')
  <2>1. StreamOK /\ rx \in Seq(Lines) /\ WithinRows(Totals, career, rx)
    BY <1>1 DEF MatchOK, StreamOK, Uncounted
  <2>2. rx' = rx \/ rx' = Append(rx, line)
    BY DEF Log
  <2> PICK r, t : r = rx' /\ t = Totals
    OBVIOUS
  <2>3. r = Append(rx, line) => WithinRows(t, career, r)
    BY <1>1, <2>1, WrittenRows
  <2> QED  BY <2>1, <2>2, <2>3
<1> QED  BY <1>1, <1>2, <1>3 DEF Uncounted

LEMMA HandleTotals ==
  ASSUME MatchOK, OrderOK, TotalsOK, NEW kind, Handle(kind), UNCHANGED file,
         Pending' => Pending,
         Uncounted /\ (kind # "changing" => WithinPlayers(Totals, career, server.players))
           => WithinPlayers(Totals, career, server'.players)
  PROVE  TotalsOK'
<1>0. UNCHANGED <<game, career>>
  BY DEF Handle, gameVars
<1> SUFFICES ASSUME Pending'
             PROVE  /\ WithinScore(Totals, career, game'.score)
                    /\ ~Among(rx', "changing") => WithinPlayers(Totals, career, server'.players)
                    /\ WithinRows(Totals, career, rx')
  BY <1>0, QuietTotals
<1>1. Uncounted
  BY DEF TotalsOK
<1>2. kind # "changing" => ~Among(rx, "changing")
  BY HandleOrder DEF OrderOK
<1>3. WithinRows(Totals, career, rx')
  <2>1. rx \in Seq(Lines) /\ rx # <<>> /\ rx' = Tail(rx) /\ WithinRows(Totals, career, rx)
    BY <1>1 DEF MatchOK, StreamOK, Uncounted, Handle
  <2> PICK r, t : r = rx' /\ t = Totals
    OBVIOUS
  <2>2. WithinRows(t, career, r)
    BY <2>1, ReadRows
  <2> QED  BY <2>2
<1> QED  BY <1>0, <1>1, <1>2, <1>3 DEF Uncounted

\* A list that completes players by points not counted has only such points.
LEMMA ListTotals ==
  ASSUME MatchOK, OrderOK, TotalsOK, Pending, server.up, rx # <<>>, Line.kind = "list", Players(Completed)
  PROVE  WithinPlayers(Totals, career, Completed)
<1>1. Uncounted /\ Orderly(rx)
  BY DEF TotalsOK, OrderOK
<1>2. rx \in Seq(Lines)
  BY DEF MatchOK, StreamOK
<1>3. Line = rx[1] /\ Line \in Lines /\ 1 \in DOMAIN rx
  BY <1>2, ReadFacts DEF Line
<1>4. ~Among(rx, "changing")
  BY <1>1, <1>3 DEF Orderly, Among
<1>5. WithinPlayers(Totals, career, server.players) /\ WithinScore(Totals, career, Line.rows)
  BY <1>1, <1>3, <1>4 DEF Uncounted, WithinRows
<1>6. Line.rows \in Scoring
  BY <1>3, LineFacts
<1>7. Players(server.players)
  BY ServerFacts DEF MatchOK, ServerOK, Players
<1>8. FromRows(Completed, server.players, Line.rows)
  BY <1>6, <1>7, CompletedFacts
<1> PICK q, list, rows : q = Completed /\ list = server.players /\ rows = Line.rows
  OBVIOUS
<1>9. ASSUME NEW k \in DOMAIN q
      PROVE  Totals[q[k].id] + q[k].points <= career[q[k].id]
  <2>1. CASE q[k].id \in DOMAIN rows /\ q[k].points = rows[q[k].id]
    BY <1>5, <2>1 DEF WithinScore
  <2>2. CASE \E i \in DOMAIN list : q[k] = list[i]
    BY <1>5, <2>2 DEF WithinPlayers
  <2> QED  BY <1>8, <2>1, <2>2 DEF FromRows
<1> QED  BY <1>9 DEF WithinPlayers

\* When they are counted, nobody has more than was made, or less than before.
LEMMA CreditedFacts ==
  ASSUME MatchOK, LadderOK, BehindOK, TotalsOK, Players(Completed),
         WithinPlayers(Totals, career, Completed), NEW c \in Clients
  PROVE  /\ TotalOf(Written("alltime"), c) \in Nat
         /\ TotalOf(Written("alltime"), c) >= Totals[c]
         /\ TotalOf(Written("alltime"), c) <= career[c]
<1> PICK q, list, new, t : q = Completed /\ list = file["alltime"] /\ new = Written("alltime") /\ t = Totals
  OBVIOUS
<1>1. Fair(list, q, new) /\ WithinPlayers(t, career, q) /\ Players(q)
  BY TogetherFacts
<1>2. t[c] = TotalOf(list, c) /\ t[c] \in Nat /\ career[c] \in Nat /\ t[c] <= career[c]
  BY TotalsFacts DEF TotalsOK
<1>3. TotalOf(new, c) \in Nat
  <2>1. Standing(new)
    BY DatabasesAre, UpdatedFacts
  <2> QED  BY <2>1, StandingFacts, TotalFacts
<1>4. TotalOf(new, c) >= t[c]
  BY <1>1, <1>2 DEF Fair
<1>5. CASE TotalOf(new, c) = TotalOf(list, c)
  BY <1>2, <1>3, <1>4, <1>5
<1>6. CASE \E k \in DOMAIN q : q[k].id = c /\ TotalOf(new, c) <= TotalOf(list, c) + q[k].points
  <2>1. PICK k \in DOMAIN q : q[k].id = c /\ TotalOf(new, c) <= TotalOf(list, c) + q[k].points
    BY <1>6
  <2>2. t[c] + q[k].points <= career[c]
    BY <1>1, <2>1 DEF WithinPlayers
  <2>3. q[k] \in Scorers
    BY <1>1 DEF Players
  <2> PICK p \in Nat : p = q[k].points
    BY <2>3, ScorerFacts
  <2> QED  BY <1>2, <1>3, <1>4, <2>1, <2>2
<1> QED  BY <1>1, <1>5, <1>6 DEF Fair

\* Whoever has nothing can be counted.
LEMMA NothingToCount ==
  ASSUME MatchOK, LadderOK, TotalsOK
  PROVE  \A c \in Clients : \A p : p = 0 => Totals[c] + p <= career[c]
<1>1. \A c \in Clients : Totals[c] \in Nat /\ career[c] \in Nat /\ Totals[c] <= career[c]
  BY TotalsFacts DEF TotalsOK
<1> QED  BY <1>1

\* A player who joins, leaves or scores.
LEMMA PlayTotals ==
  ASSUME MatchOK, LadderOK, OrderOK, TotalsOK, UNCHANGED <<file, waiting, server>>,
         NEW c \in Clients, Join(c) \/ Leave(c) \/ Score(c)
  PROVE  TotalsOK'
<1>1. GameOK /\ Orderly(rx)
  BY DEF MatchOK, OrderOK
<1>2. [kind |-> "join", who |-> c] \in Lines /\ [kind |-> "leave", who |-> c] \in Lines
  BY DEF Lines
<1>3. ASSUME NEW line \in Lines, Log(line), line.kind \in {"join", "leave"}, UNCHANGED career,
             game'.phase = game.phase, Uncounted => WithinScore(Totals, career, game'.score)
      PROVE  TotalsOK'
  <2>1. Among(rx', "end") => Among(rx, "end")
    BY <1>1, <1>3, LogOrder
  <2>2. Pending' => Pending
    BY <1>3, <2>1 DEF Pending
  <2> QED  BY <1>3, <2>2, LogTotals
<1>4. CASE Join(c)
  <2>1. /\ game'.phase = game.phase /\ Log([kind |-> "join", who |-> c]) /\ UNCHANGED career
        /\ game'.score = [x \in DOMAIN game.score \cup {c} |-> IF x = c THEN 0 ELSE game.score[x]]
    BY <1>1, <1>4 DEF Join, GameOK
  <2>2. DOMAIN game'.score = DOMAIN game.score \cup {c} /\ game'.score[c] = 0
        /\ \A x \in DOMAIN game.score : x = c \/ game'.score[x] = game.score[x]
    BY <2>1
  <2>3. Totals[c] + 0 <= career[c]
    BY NothingToCount
  <2>4. Uncounted => WithinScore(Totals, career, game'.score)
    BY <2>2, <2>3 DEF Uncounted, WithinScore
  <2> PICK line \in Lines : line = [kind |-> "join", who |-> c]
    BY <1>2
  <2>5. Log(line) /\ line.kind \in {"join", "leave"}
    BY <2>1
  <2> QED  BY <1>3, <2>1, <2>4, <2>5
<1>5. CASE Leave(c)
  <2>1. /\ game'.phase = game.phase /\ Log([kind |-> "leave", who |-> c]) /\ UNCHANGED career
        /\ game'.score = [x \in DOMAIN game.score \ {c} |-> game.score[x]]
    BY <1>1, <1>5 DEF Leave, GameOK
  <2>2. \A x \in DOMAIN game'.score : x \in DOMAIN game.score /\ game'.score[x] = game.score[x]
    BY <2>1
  <2>3. Uncounted => WithinScore(Totals, career, game'.score)
    BY <2>2 DEF Uncounted, WithinScore
  <2> PICK line \in Lines : line = [kind |-> "leave", who |-> c]
    BY <1>2
  <2>4. Log(line) /\ line.kind \in {"join", "leave"}
    BY <2>1
  <2> QED  BY <1>3, <2>1, <2>3, <2>4
<1>6. CASE Score(c)
  <2>1. /\ DOMAIN game'.score = DOMAIN game.score
        /\ \A x \in Clients : career'[x] = career[x] + (IF x = c THEN 1 ELSE 0)
        /\ \A x \in DOMAIN game.score : game'.score[x] = game.score[x] + (IF x = c THEN 1 ELSE 0)
        /\ game'.phase = game.phase
    BY <1>1, <1>6, ScoreFacts
  <2>2. UNCHANGED rx
    BY <1>6 DEF Score
  <2>3. Totals' = Totals
    BY DEF Totals
  <2>4. \A x \in Clients : Totals[x] \in Nat /\ career[x] \in Nat /\ Totals[x] <= career[x]
    BY TotalsFacts DEF TotalsOK
  <2>5. \A x \in Clients : career'[x] \in Nat /\ career'[x] >= career[x]
    BY <2>1, <2>4
  <2>6. \A x \in Clients : \A p \in Nat : Totals[x] + p <= career[x] => Totals[x] + p <= career'[x]
    BY <2>4, <2>5
  <2>7. \A x \in Clients : Totals'[x] <= career'[x]
    BY <2>3, <2>4, <2>5
  <2>8. ASSUME Pending'
        PROVE  Uncounted'
    <3>1. Uncounted
      BY <2>1, <2>2, <2>8 DEF Pending, TotalsOK
    <3>2. WithinScore(Totals', career', game'.score)
      <4>1. ASSUME NEW x \in DOMAIN game.score
            PROVE  Totals[x] + game'.score[x] <= career'[x]
        <5>1. x \in Clients /\ game.score[x] \in Nat /\ Totals[x] + game.score[x] <= career[x]
          BY <1>1, <3>1, GameFacts, Bounds DEF Uncounted, WithinScore
        <5>2. Totals[x] \in Nat /\ career[x] \in Nat
          BY <2>4, <5>1
        <5> QED  BY <2>1, <5>1, <5>2
      <4> QED  BY <2>1, <2>3, <4>1 DEF WithinScore
    <3>3. WithinPlayers(Totals, career, server.players) => WithinPlayers(Totals', career', server'.players)
      <4>1. \A i \in DOMAIN server.players : server.players[i] \in Scorers
        BY ServerFacts DEF MatchOK
      <4>2. \A i \in DOMAIN server.players : server.players[i].id \in Clients /\ server.players[i].points \in Nat
        BY <4>1, ScorerFacts
      <4> QED  BY <2>3, <2>6, <4>2 DEF WithinPlayers
    <3>4. WithinRows(Totals', career', rx')
      <4>1. ASSUME NEW i \in DOMAIN rx, rx[i].kind = "list"
            PROVE  WithinScore(Totals, career', rx[i].rows)
        <5>1. rx[i] \in Lines
          BY DEF MatchOK, StreamOK
        <5>2. rx[i].rows \in Scoring /\ WithinScore(Totals, career, rx[i].rows)
          BY <3>1, <4>1, <5>1, LineFacts DEF Uncounted, WithinRows
        <5> PICK rows : rows = rx[i].rows
          OBVIOUS
        <5>3. DOMAIN rows \in SUBSET Clients /\ rows \in [DOMAIN rows -> 0 .. MaxPoints]
          BY <5>2, ScoringFacts
        <5>4. \A x \in DOMAIN rows : x \in Clients /\ rows[x] \in Nat
          BY <5>3, Bounds
        <5> QED  BY <2>6, <5>2, <5>4 DEF WithinScore
      <4> QED  BY <2>2, <2>3, <4>1 DEF WithinRows
    <3> QED  BY <2>2, <3>1, <3>2, <3>3, <3>4 DEF Uncounted
  <2> QED  BY <2>7, <2>8 DEF TotalsOK
<1> QED  BY <1>4, <1>5, <1>6

\* A match ends, another is loaded or starts, a request is answered.
LEMMA PhaseTotals ==
  ASSUME MatchOK, LadderOK, OrderOK, TotalsOK, UNCHANGED <<file, waiting, server>>,
         EndMatch \/ StartMatch \/ Answer
  PROVE  TotalsOK'
<1>1. GameOK /\ Orderly(rx) /\ (Among(rx, "end") => game.phase = "over")
  BY DEF MatchOK, OrderOK
<1>2. [kind |-> "end"] \in Lines /\ [kind |-> "start"] \in Lines
  BY DEF Lines
<1>3. CASE EndMatch
  <2>1. game.phase = "playing" /\ game'.score = game.score /\ Log([kind |-> "end"]) /\ UNCHANGED career
    BY <1>1, <1>3 DEF EndMatch, GameOK
  <2>2. Pending /\ ~Among(rx, "end")
    BY <1>1, <2>1 DEF Pending
  <2> PICK line \in Lines : line = [kind |-> "end"]
    BY <1>2
  <2>3. Log(line) /\ line.kind = "end"
    BY <2>1
  <2>4. Uncounted => WithinScore(Totals, career, game'.score)
    BY <2>1 DEF Uncounted
  <2> QED  BY <2>1, <2>2, <2>3, <2>4, LogTotals
<1>4. CASE StartMatch
  <2>1. game.phase = "travelling" /\ game'.score = game.score /\ Log([kind |-> "start"]) /\ UNCHANGED career
    BY <1>1, <1>4 DEF StartMatch, GameOK
  <2>2. Pending
    BY <2>1 DEF Pending
  <2> PICK line \in Lines : line = [kind |-> "start"]
    BY <1>2
  <2>3. Log(line) /\ line.kind = "start"
    BY <2>1
  <2>4. Uncounted => WithinScore(Totals, career, game'.score)
    BY <2>1 DEF Uncounted
  <2> QED  BY <2>1, <2>2, <2>3, <2>4, LogTotals
<1>5. CASE Answer
  <2>1. UNCHANGED <<game, career>>
    BY <1>5 DEF Answer, gameVars
  <2>2. PICK line \in Lines : /\ Log(line) /\ line.kind \in {"list", "ready"}
                              /\ line.kind = "list" => line.rows = game.score
    BY <1>5, AnswerFacts
  <2>3. Among(rx', "end") => Among(rx, "end")
    BY <1>1, <2>2, LogOrder
  <2>4. Pending' => Pending
    BY <2>1, <2>3 DEF Pending
  <2>5. /\ Uncounted => WithinScore(Totals, career, game'.score)
        /\ Uncounted /\ line.kind = "list" => WithinScore(Totals, career, line.rows)
    BY <2>1, <2>2 DEF Uncounted
  <2> QED  BY <2>1, <2>2, <2>4, <2>5, LogTotals
<1> QED  BY <1>3, <1>4, <1>5

\* With a new match everybody starts from nothing.
LEMMA TravelTotals ==
  ASSUME Prompt, MatchOK, LadderOK, OrderOK, TotalsOK, UNCHANGED file,
         Game, NEW seamless \in BOOLEAN, Travel(seamless)
  PROVE  TotalsOK'
<1>1. /\ rx = <<>> /\ GameOK /\ Orderly(rx) /\ UNCHANGED <<career, server>>
      /\ Log([kind |-> "changing", seamless |-> seamless])
  BY TravelWaits DEF Travel, MatchOK, OrderOK
<1> PICK line \in Lines : line = [kind |-> "changing", seamless |-> seamless]
  BY DEF Lines
<1>2. Log(line) /\ line.kind = "changing"
  BY <1>1
<1>3. WithinScore(Totals, career, game'.score)
  <2>1. GameOK' /\ \A x \in DOMAIN game'.score : game'.score[x] = 0
    BY <1>1, TravelFacts
  <2>2. DOMAIN game'.score \in SUBSET Clients
    BY <2>1 DEF GameOK, Scoring
  <2> QED  BY <2>1, <2>2, NothingToCount DEF WithinScore
<1>4. ~Among(rx', "changing") => WithinPlayers(Totals, career, server'.players)
  <2>1. server.up => Among(rx', "changing")
    BY <1>1, <1>2, LogOrder
  <2>2. ~server.up => server.players = <<>>
    BY DEF MatchOK, ServerOK
  <2> PICK t : t = Totals
    OBVIOUS
  <2>3. ~server.up => WithinPlayers(t, career, server.players)
    BY <2>2, NoRows
  <2> QED  BY <1>1, <2>1, <2>3
<1>5. WithinRows(Totals, career, rx')
  <2> PICK r, t : r = rx' /\ t = Totals
    OBVIOUS
  <2>1. WithinRows(t, career, rx) /\ rx \in Seq(Lines)
    BY <1>1, NoRows DEF MatchOK, StreamOK
  <2>2. r = rx \/ r = Append(rx, line)
    BY <1>2 DEF Log
  <2> QED  BY <1>2, <2>1, <2>2, WrittenRows
<1> QED  BY <1>1, <1>3, <1>4, <1>5, QuietTotals

\* Whatever the game does, and what is asked of it.
LEMMA GameTotals ==
  ASSUME Prompt, MatchOK, LadderOK, OrderOK, TotalsOK, Game
  PROVE  TotalsOK'
<1>1. UNCHANGED <<file, waiting>>
  BY DEF Game, Idle, ladderVars
<1>2. ASSUME NEW c \in Clients, Join(c) \/ Leave(c) \/ Score(c)
      PROVE  TotalsOK'
  <2>1. UNCHANGED server
    BY <1>2 DEF Join, Leave, Score
  <2> QED  BY <1>1, <1>2, <2>1, PlayTotals
<1>3. ASSUME EndMatch \/ StartMatch \/ Answer
      PROVE  TotalsOK'
  <2>1. UNCHANGED server
    BY <1>3 DEF EndMatch, StartMatch, Answer
  <2> QED  BY <1>1, <1>3, <2>1, PhaseTotals
<1>4. ASSUME NEW seamless \in BOOLEAN, Travel(seamless)
      PROVE  TotalsOK'
  BY <1>1, <1>4, TravelTotals
<1>5. ASSUME UpdateClientList
      PROVE  TotalsOK'
  <2>1. UNCHANGED <<game, career, rx, server>>
    BY <1>5 DEF UpdateClientList, gameVars
  <2>2. Pending' => Pending
    BY <1>1, <2>1 DEF Pending
  <2> QED  BY <1>1, <2>1, <2>2, QuietTotals DEF TotalsOK, Uncounted
<1>6. ASSUME ServerConnects
      PROVE  TotalsOK'
  <2>1. server'.players = <<>> /\ rx' = <<>> /\ rx = <<>> /\ UNCHANGED <<game, career>>
    BY <1>6, ConnectFacts
  <2>2. Pending' => Pending
    BY <1>1, <2>1 DEF Pending
  <2> PICK t : t = Totals
    OBVIOUS
  <2>3. WithinPlayers(t, career, server'.players) /\ WithinRows(t, career, rx')
    BY <2>1, NoRows
  <2> QED  BY <1>1, <2>1, <2>2, <2>3, QuietTotals DEF TotalsOK, Uncounted
<1> QED  BY <1>2, <1>3, <1>4, <1>5, <1>6 DEF Game, GameStep

\* A line that is not a list of the clients.
LEMMA LineTotals ==
  ASSUME MatchOK, LadderOK, OrderOK, TotalsOK,
         HandlePlayers \/ HandleStart \/ HandleReady \/ HandleRec \/ HandleEnd
  PROVE  TotalsOK'
<1>1. UNCHANGED file
  BY DEF HandlePlayers, HandleStart, HandleReady, HandleRec, HandleEnd, OnGameOver, Idle, ladderVars, stored
<1>2. ASSUME NEW kind, Handle(kind), UNCHANGED waiting
      PROVE  Pending' => Pending
  <2>1. UNCHANGED game /\ (Among(rx', "end") => Among(rx, "end"))
    BY <1>2, HandleOrder, HandleFacts DEF OrderOK, gameVars
  <2> QED  BY <1>2, <2>1 DEF Pending
<1>3. CASE HandlePlayers
  <2>1. UNCHANGED waiting /\ (ServerJoin \/ ServerLeave \/ ServerChanging)
    BY <1>3 DEF HandlePlayers, ladderVars
  <2>2. /\ Handle(Line.kind) /\ Line.kind \in {"join", "leave", "changing"}
        /\ \E list : Players(list) /\ Before(list, Line) /\ server' = [server EXCEPT !.players = list]
    BY <2>1, PlayersFacts
  <2>3. PICK list : Players(list) /\ Before(list, Line) /\ server' = [server EXCEPT !.players = list]
    BY <2>2
  <2>4. server'.players = list
    BY <2>3, ServerFields DEF MatchOK
  <2>5. Pending' => Pending
    BY <1>2, <2>1, <2>2
  <2>6. ASSUME Line.kind # "changing" => WithinPlayers(Totals, career, server.players)
        PROVE  WithinPlayers(Totals, career, list)
    <3>1. ASSUME NEW i \in DOMAIN list
          PROVE  Totals[list[i].id] + list[i].points <= career[list[i].id]
      <4>1. list[i].id \in Clients
        BY <2>3, ScorerFacts DEF Players
      <4>2. CASE list[i].points = 0
        BY <4>1, <4>2, NothingToCount
      <4>3. CASE Line.kind # "changing" /\ \E j \in DOMAIN server.players : list[i] = server.players[j]
        BY <2>6, <4>3 DEF WithinPlayers
      <4> QED  BY <2>3, <4>2, <4>3 DEF Before
    <3> QED  BY <3>1 DEF WithinPlayers
  <2> QED  BY <1>1, <2>2, <2>4, <2>5, <2>6, HandleTotals
<1>4. CASE HandleStart \/ HandleReady \/ HandleRec
  <2>1. PICK kind : Handle(kind) /\ UNCHANGED waiting /\ kind # "changing"
    BY <1>4 DEF HandleStart, HandleReady, HandleRec, ServerStart, Idle, ladderVars
  <2>2. server'.players = server.players
    <3>1. server' = [server EXCEPT !.reliable = TRUE] \/ server' = [server EXCEPT !.ranked = TRUE] \/ server' = server
      BY <1>4 DEF HandleStart, HandleReady, HandleRec, ServerStart
    <3> QED  BY <3>1 DEF MatchOK, ServerOK
  <2>3. Pending' => Pending
    BY <1>2, <2>1
  <2> QED  BY <1>1, <2>1, <2>2, <2>3, HandleTotals
<1>5. CASE HandleEnd
  <2>1. Handle("end") /\ UNCHANGED server
    BY <1>5 DEF HandleEnd
  <2>2. Pending
    BY <2>1, HandleOrder DEF Pending, OrderOK
  <2> QED  BY <1>1, <2>1, <2>2, HandleTotals
<1> QED  BY <1>3, <1>4, <1>5

\* A client list that is not the one of the end of a match, or has nobody.
LEMMA ListedTotals ==
  ASSUME MatchOK, LadderOK, OrderOK, TotalsOK, HandleList, ~Due
  PROVE  TotalsOK' /\ UNCHANGED <<career, torn>> /\ Totals' = Totals
<1>1. /\ Handle("list") /\ server' = [server EXCEPT !.players = Completed]
      /\ Players(Completed) /\ Line.kind = "list"
  BY ListsFacts
<1>2. waiting' = FALSE /\ UNCHANGED torn
  BY DEF HandleList, OnList, bot
<1>3. file'["alltime"] = file["alltime"]
  BY DatabasesAre DEF HandleList, OnList
<1>4. /\ UNCHANGED <<game, career>> /\ server.up /\ rx # <<>>
      /\ (Among(rx', "end") => Among(rx, "end")) /\ ~Among(rx, "changing")
  BY <1>1, HandleOrder, HandleFacts DEF OrderOK, gameVars
<1>5. Totals' = Totals
  BY <1>3 DEF Totals
<1>6. Pending' => Pending
  BY <1>2, <1>4 DEF Pending
<1>7. server'.players = Completed
  BY <1>1, ServerFields DEF MatchOK
<1>8. ASSUME Pending'
      PROVE  Uncounted'
  <2>1. Pending /\ Uncounted
    BY <1>6, <1>8 DEF TotalsOK
  <2>2. WithinPlayers(Totals, career, Completed)
    BY <1>1, <1>4, <2>1, ListTotals
  <2>3. WithinRows(Totals, career, rx')
    <3>1. rx \in Seq(Lines) /\ rx' = Tail(rx) /\ WithinRows(Totals, career, rx)
      BY <1>1, <2>1 DEF MatchOK, StreamOK, Uncounted, Handle
    <3> PICK r, t : r = rx' /\ t = Totals
      OBVIOUS
    <3>2. WithinRows(t, career, r)
      BY <1>4, <3>1, ReadRows
    <3> QED  BY <3>2
  <2> QED  BY <1>4, <1>5, <1>7, <2>1, <2>2, <2>3 DEF Uncounted
<1> QED  BY <1>2, <1>4, <1>5, <1>8 DEF TotalsOK

----------------------------------------------------------------------------
(***************************************************************************)
(* A match is credited                                                     *)
(***************************************************************************)
Grows(c) == Totals'[c] \in Nat /\ Totals'[c] >= Totals[c] /\ Totals'[c] <= career[c]
Drops(c) == Totals'[c] = 0

\* The list that is waited for: all on it have what was made in this match, at most.
LEMMA DueFacts ==
  ASSUME MatchOK, LadderOK, OrderOK, TotalsOK, server.up, rx # <<>>, Line.kind = "list", Due
  PROVE  /\ Players(Completed) /\ WithinPlayers(Totals, career, Completed)
         /\ game.phase = "over" /\ ~Among(rx, "end") /\ rx \in Seq(Lines)
<1>1. rx \in Seq(Lines) /\ ServerOK
  BY DEF MatchOK, StreamOK
<1>2. Line.rows \in Scoring
  BY <1>1, ReadFacts, LineFacts DEF Line
<1>3. Players(Completed)
  BY <1>1, <1>2, ServerFacts, CompletedFacts DEF ServerOK, Players
<1>4. waiting /\ game.phase = "over" /\ ~Among(rx, "end")
  BY DEF Due, OrderOK
<1>5. WithinPlayers(Totals, career, Completed)
  BY <1>3, <1>4, ListTotals DEF Pending
<1> QED  BY <1>1, <1>3, <1>4, <1>5

\* When nothing is left to be counted, the totals are right if none is more than was made.
LEMMA NothingPending ==
  ASSUME UNCHANGED career, game'.phase = "over", ~waiting', ~Among(rx', "end"),
         \A c \in Clients : Totals'[c] <= career[c]
  PROVE  TotalsOK'
BY DEF TotalsOK, Pending

LEMMA DueTotals ==
  ASSUME MatchOK, LadderOK, BehindOK, OrderOK, TotalsOK, HandleList, Due
  PROVE  TotalsOK' /\ UNCHANGED <<career, torn>> /\ \A c \in Clients : Grows(c)
<1>1. Handle("list") /\ server.up /\ rx # <<>> /\ Line.kind = "list"
  BY ListsFacts DEF Handle
<1>2. /\ Players(Completed) /\ WithinPlayers(Totals, career, Completed)
      /\ game.phase = "over" /\ ~Among(rx, "end")
  BY <1>1, DueFacts
<1>3. waiting' = FALSE /\ UNCHANGED torn
  BY DEF HandleList, OnList, bot
<1>4. UNCHANGED <<game, career>> /\ ~Among(rx', "end")
  BY <1>1, <1>2, HandleOrder, HandleFacts DEF OrderOK, gameVars
<1>5. file'["alltime"] = Written("alltime")
  BY DatabasesAre DEF HandleList, OnList
<1>6. \A c \in Clients : Totals'[c] = TotalOf(Written("alltime"), c)
  BY <1>5 DEF Totals
<1>7. \A c \in Clients : Grows(c)
  BY <1>2, <1>6, CreditedFacts DEF Grows
<1> QED  BY <1>2, <1>3, <1>4, <1>7, NothingPending DEF Grows

LEMMA TornTotals ==
  ASSUME MatchOK, LadderOK, BehindOK, OrderOK, TotalsOK, CrashInUpdate
  PROVE  /\ TotalsOK' /\ UNCHANGED career
         /\ \/ UNCHANGED torn /\ \A c \in Clients : Grows(c)
            \/ torn' = TRUE /\ \A c \in Clients : Drops(c) \/ Grows(c)
<1>1. server.up /\ rx # <<>> /\ Line.kind = "list" /\ Due
  BY DEF CrashInUpdate
<1>2. Players(Completed) /\ WithinPlayers(Totals, career, Completed) /\ game.phase = "over"
  BY <1>1, DueFacts
<1>3. UNCHANGED <<game, career>> /\ rx' = <<>> /\ waiting' = FALSE
  BY DEF CrashInUpdate, Stopped, Restart, gameVars
<1>4. ~Among(rx', "end")
  BY <1>3, NoLines
<1>5. PICK k \in DOMAIN Order : \E n \in 0 .. Len(Updated(Order[k])) :
             Restart(WrittenUpTo(k, n)) /\ torn' = (torn \/ n < Len(Updated(Order[k])))
  BY DEF CrashInUpdate
<1>6. PICK n \in 0 .. Len(Updated(Order[k])) :
             Restart(WrittenUpTo(k, n)) /\ torn' = (torn \/ n < Len(Updated(Order[k])))
  BY <1>5
<1> PICK f : f = WrittenUpTo(k, n)
  OBVIOUS
<1>7. file' = f
  BY <1>6 DEF Restart
<1>8. \A c \in Clients : Totals'[c] = TotalOf(f["alltime"], c)
  BY <1>7 DEF Totals
<1>9. \A c \in Clients : /\ TotalOf(Written("alltime"), c) \in Nat
                         /\ TotalOf(Written("alltime"), c) >= Totals[c]
                         /\ TotalOf(Written("alltime"), c) <= career[c]
  BY <1>2, CreditedFacts
<1>10. Written("alltime") = Updated("alltime")
  BY <1>2, TogetherFacts
<1>11. torn \in BOOLEAN
  BY DEF BehindOK
<1>12. \/ UNCHANGED torn /\ \A c \in Clients : Grows(c)
       \/ torn' = TRUE /\ \A c \in Clients : Drops(c) \/ Grows(c)
  <2>1. CASE f["alltime"] = Written("alltime") /\ torn' = torn
    BY <1>8, <1>9, <2>1 DEF Grows
  <2>2. CASE f["alltime"] = Written("alltime") /\ torn' = TRUE
    BY <1>8, <1>9, <2>2 DEF Grows
  <2>3. CASE k = 2
    <3>1. Order[k] = "daily" /\ f["alltime"] = Written("alltime")
      BY <1>2, <2>3, WrittenUpToFacts
    <3>2. torn' = torn \/ torn' = TRUE
      BY <1>6, <1>11
    <3> QED  BY <2>1, <2>2, <3>1, <3>2
  <2>4. CASE k = 1
    <3>1. Order[k] = "alltime" /\ Partly(Updated("alltime"), n, file["alltime"], f["alltime"])
      BY <1>2, <2>4, WrittenUpToFacts
    <3> PICK new, part : new = Written("alltime") /\ part = f["alltime"]
      OBVIOUS
    <3>2. Partly(new, n, file["alltime"], part) /\ n \in 0 .. Len(new) /\ torn' = (torn \/ n < Len(new))
      BY <1>6, <1>10, <3>1
    <3>3. CASE new = <<>>
      <4>1. part = file["alltime"] /\ n = 0 /\ Len(new) = 0
        BY <3>2, <3>3 DEF Partly
      <4>2. torn' = torn
        BY <1>11, <3>2, <4>1
      <4>3. \A c \in Clients : Totals'[c] = Totals[c] /\ Totals[c] \in Nat /\ Totals[c] <= career[c]
        BY <1>8, <4>1, TotalsFacts DEF TotalsOK
      <4> QED  BY <4>2, <4>3 DEF Grows
    <3>4. CASE new # <<>> /\ n = Len(new)
      <4>1. part = new
        BY <3>2, <3>4 DEF Partly
      <4>2. Len(new) \in Nat
        BY <1>2, UpdatedFacts, DatabasesAre DEF Standing
      <4>3. torn' = torn
        BY <1>11, <3>2, <3>4, <4>2
      <4> QED  BY <2>1, <4>1, <4>3
    <3>5. CASE new # <<>> /\ n # Len(new)
      <4>1. Len(new) \in Nat
        BY <1>2, UpdatedFacts, DatabasesAre DEF Standing
      <4>2. n < Len(new)
        BY <3>2, <3>5, <4>1
      <4>3. torn' = TRUE
        BY <3>2, <4>2
      <4>4. \A c \in Clients : TotalOf(part, c) = 0 \/ TotalOf(part, c) = TotalOf(new, c)
        BY <3>2, <3>5 DEF Partly
      <4>5. \A c \in Clients : Drops(c) \/ Grows(c)
        BY <1>8, <1>9, <4>4 DEF Drops, Grows
      <4> QED  BY <4>3, <4>5
    <3> QED  BY <3>3, <3>4, <3>5
  <2>5. k = 1 \/ k = 2
    BY <1>2, <1>6, WrittenUpToFacts
  <2> QED  BY <2>3, <2>4, <2>5
<1>13. \A c \in Clients : Totals'[c] <= career[c]
  <2>1. \A c \in Clients : career[c] \in Nat
    BY TotalsFacts
  <2>2. \A c \in Clients : 0 <= career[c]
    BY <2>1
  <2> QED  BY <1>12, <2>2 DEF Drops, Grows
<1> QED  BY <1>2, <1>3, <1>4, <1>12, <1>13, NothingPending

\* The connection is lost, or the process dies, while nothing is written.
LEMMA GoneTotals ==
  ASSUME MatchOK, LadderOK, OrderOK, TotalsOK, Lost \/ Crash
  PROVE  TotalsOK' /\ UNCHANGED <<career, torn, file>>
<1>1. UNCHANGED <<game, career, torn, file>> /\ server'.players = <<>> /\ rx' = <<>> /\ (waiting' => waiting)
  BY DEF Lost, ServerLost, Crash, Stopped, Restart, Offline, gameVars, ladderVars, bot
<1>2. ~Among(rx', "end")
  BY <1>1, NoLines
<1>3. Pending' => Pending
  BY <1>1, <1>2 DEF Pending
<1> PICK t : t = Totals
  OBVIOUS
<1>4. WithinPlayers(t, career, server'.players) /\ WithinRows(t, career, rx')
  BY <1>1, NoRows
<1> QED  BY <1>1, <1>3, <1>4, QuietTotals DEF TotalsOK, Uncounted

\* What each step does to what was made and what is credited.
BoardStep ==
  \/ UNCHANGED <<career, torn, file>>
  \/ UNCHANGED <<career, torn>> /\ Totals' = Totals
  \/ UNCHANGED <<file, torn>> /\ \E c \in Clients : career' = [career EXCEPT ![c] = @ + 1]
  \/ UNCHANGED <<career, torn>> /\ \A c \in Clients : Grows(c)
  \/ UNCHANGED career /\ torn' = TRUE /\ \A c \in Clients : Drops(c) \/ Grows(c)

LEMMA TotalsStep ==
  ASSUME Prompt, MatchOK, LadderOK, BehindOK, OrderOK, TotalsOK, Next
  PROVE  TotalsOK' /\ BoardStep
<1>1. ASSUME UNCHANGED <<game, career, rx, server, waiting, file>>
      PROVE  TotalsOK'
  <2>1. Pending' => Pending
    BY <1>1 DEF Pending
  <2> QED  BY <1>1, <2>1, QuietTotals DEF TotalsOK, Uncounted
<1>2. CASE Game
  <2>1. UNCHANGED <<file, torn>>
    BY <1>2 DEF Game, Idle, ladderVars, bot
  <2>2. UNCHANGED career \/ \E c \in Clients : career' = [career EXCEPT ![c] = @ + 1]
    BY <1>2 DEF Game, GameStep, Join, Leave, Score, EndMatch, StartMatch, Answer, Travel, UpdateClientList,
         ServerConnects, gameVars
  <2> QED  BY <1>2, <2>1, <2>2, GameTotals DEF BoardStep
<1>3. CASE \E by, of \in Clients : AsksToRecommend(by, of)
  <2>1. PICK by \in Clients, of \in Clients : AsksToRecommend(by, of)
    BY <1>3
  <2>2. /\ UNCHANGED <<game, career, waiting, file, torn, server>>
        /\ Log([kind |-> "rec", by |-> by, of |-> of])
    BY <2>1 DEF AsksToRecommend, Idle, ladderVars, gameVars, bot
  <2> PICK line \in Lines : line = [kind |-> "rec", by |-> by, of |-> of]
    BY DEF Lines
  <2>3. Log(line) /\ line.kind = "rec"
    BY <2>2
  <2>4. Among(rx', "end") => Among(rx, "end")
    BY <2>3, LogOrder DEF OrderOK
  <2>5. (Pending' => Pending) /\ (Uncounted => WithinScore(Totals, career, game'.score))
    BY <2>2, <2>4 DEF Pending, Uncounted
  <2>6. TotalsOK'
    BY <2>2, <2>3, <2>5, LogTotals
  <2> QED  BY <2>2, <2>6 DEF BoardStep
<1>4. CASE HandlePlayers \/ HandleStart \/ HandleReady \/ HandleRec \/ HandleEnd
  <2>1. UNCHANGED <<career, torn, file>>
    BY <1>4 DEF HandlePlayers, HandleStart, HandleReady, HandleRec, HandleEnd, OnGameOver, Idle, ladderVars, stored,
         bot, ServerJoin, ServerLeave, ServerChanging, ServerStart, Handle, gameVars
  <2> QED  BY <1>4, <2>1, LineTotals DEF BoardStep
<1>5. CASE HandleList
  BY <1>5, ListedTotals, DueTotals DEF BoardStep
<1>6. CASE Lost \/ Crash
  BY <1>6, GoneTotals DEF BoardStep
<1>7. CASE CrashInUpdate
  BY <1>7, TornTotals DEF BoardStep
<1>8. CASE RehashMedals \/ ReloadMedals \/ NextDay
  <2>1. UNCHANGED <<game, career, rx, server, waiting, file, torn>>
    BY <1>8 DEF RehashMedals, ReloadMedals, NextDay, Midnight, matchVars, ladderVars, stored, bot
  <2> QED  BY <1>1, <2>1 DEF BoardStep
<1> QED  BY <1>2, <1>3, <1>4, <1>5, <1>6, <1>7, <1>8 DEF Next

\* The abstract ladder takes such a step too, or none.
LEMMA BoardMoves ==
  ASSUME BoardStep, MatchOK, LadderOK
  PROVE  [Board!Next]_(<<career, Totals, torn>>)
<1>1. Totals' = [c \in Clients |-> TotalOf(file'["alltime"], c)]
  BY DEF Totals
<1>2. CASE UNCHANGED <<career, torn, file>>
  BY <1>1, <1>2 DEF Totals
<1>3. CASE UNCHANGED <<career, torn>> /\ Totals' = Totals
  BY <1>3
<1>4. CASE UNCHANGED <<file, torn>> /\ \E c \in Clients : career' = [career EXCEPT ![c] = @ + 1]
  <2>1. PICK c \in Clients : career' = [career EXCEPT ![c] = @ + 1]
    BY <1>4
  <2>2. Board!Earn(c)
    BY <1>4, <2>1 DEF Board!Earn
  <2> QED  BY <2>2 DEF Board!Next
<1>5. ASSUME \A c \in Clients : Drops(c) \/ Grows(c)
      PROVE  Totals' \in [Clients -> Nat]
  <2>1. \A c \in Clients : Totals'[c] \in Nat
    BY <1>5 DEF Drops, Grows
  <2> PICK t : t = Totals'
    OBVIOUS
  <2>2. t = [c \in Clients |-> t[c]]
    BY <1>1
  <2>3. \A c \in Clients : t[c] \in Nat
    BY <2>1
  <2> QED  BY <2>2, <2>3
<1>6. CASE UNCHANGED <<career, torn>> /\ \A c \in Clients : Grows(c)
  <2>1. \A c \in Clients : Board!Credited(c)
    BY <1>6 DEF Grows, Totals, Board!Credited
  <2>2. Board!CreditMatch
    BY <1>5, <1>6, <2>1 DEF Board!CreditMatch, Totals
  <2> QED  BY <2>2 DEF Board!Next
<1>7. CASE UNCHANGED career /\ torn' = TRUE /\ \A c \in Clients : Drops(c) \/ Grows(c)
  <2>1. \A c \in Clients : Totals'[c] = 0 \/ Board!Credited(c)
    BY <1>7 DEF Drops, Grows, Totals, Board!Credited
  <2>2. Board!Tear
    BY <1>5, <1>7, <2>1 DEF Board!Tear, Totals
  <2> QED  BY <2>2 DEF Board!Next
<1> QED  BY <1>2, <1>3, <1>4, <1>6, <1>7 DEF BoardStep

\* While no match starts before the bot knows all of the last one, the all-time ladder
\* never credits anybody with points that were not made, or twice with those that were,
\* and takes nothing back, whatever lines are lost with a connection and wherever the
\* process dies; if it dies while the file is written, the file may lack players.
THEOREM PointsAreCreditedOnce ==
  ASSUME Prompt
  PROVE  Spec => CreditsOnce
<1> DEFINE All == Inv /\ OrderOK /\ TotalsOK
<1>1. ASSUME Init
      PROVE  All /\ Board!Init
  <2>1. Inv
    BY <1>1, InitInv
  <2>2. /\ rx = <<>> /\ game.phase = "travelling" /\ waiting = FALSE /\ torn = FALSE
        /\ server.players = <<>> /\ game.score = NoOne /\ career = [c \in Clients |-> 0]
        /\ file["alltime"] = <<>>
    BY <1>1, DatabasesAre DEF Init, MatchInit, LadderInit, Offline
  <2>3. OrderOK
    BY <2>2, NoLines DEF OrderOK
  <2>4. \A c : TotalOf(file["alltime"], c) = 0
    BY <2>2, EmptyFacts
  <2>5. Totals = career /\ \A c \in Clients : Totals[c] = 0 /\ career[c] = 0
    BY <2>2, <2>4 DEF Totals
  <2>6. Uncounted
    <3>1. WithinScore(Totals, career, game.score)
      BY <2>2 DEF WithinScore, NoOne
    <3> PICK t : t = Totals
      OBVIOUS
    <3>2. WithinPlayers(t, career, server.players) /\ WithinRows(t, career, rx)
      BY <2>2, NoRows
    <3> QED  BY <3>1, <3>2 DEF Uncounted
  <2>7. TotalsOK
    BY <2>5, <2>6 DEF TotalsOK
  <2>8. Board!Init
    BY <2>2, <2>5 DEF Totals, Board!Init
  <2> QED  BY <2>1, <2>3, <2>7, <2>8
<1>2. ASSUME All, [Next]_vars
      PROVE  All' /\ [Board!Next]_(<<career, Totals, torn>>)
  <2>1. Inv'
    BY <1>2, NextInv
  <2>2. CASE Next
    <3>1. MatchOK /\ LadderOK /\ BehindOK
      BY <1>2 DEF Inv
    <3>2. OrderOK'
      BY <1>2, <2>2, <3>1, OrderStep
    <3>3. TotalsOK' /\ BoardStep
      BY <1>2, <2>2, <3>1, TotalsStep
    <3> QED  BY <2>1, <3>1, <3>2, <3>3, BoardMoves
  <2>3. CASE UNCHANGED vars
    <3>1. UNCHANGED <<game, career, rx, server, waiting, file, torn>>
      BY <2>3 DEF vars, matchVars, ladderVars, bot
    <3>2. OrderOK'
      BY <1>2, <3>1 DEF OrderOK
    <3>3. Totals' = Totals /\ (Pending' => Pending)
      BY <3>1 DEF Totals, Pending
    <3>4. TotalsOK'
      BY <1>2, <3>1, <3>3, QuietTotals DEF TotalsOK, Uncounted
    <3> QED  BY <2>1, <3>1, <3>2, <3>3, <3>4
  <2> QED  BY <1>2, <2>2, <2>3
<1>3. All /\ [Next]_vars => All' /\ [Board!Next]_(<<career, Totals, torn>>)
  BY <1>2
<1> HIDE DEF All
<1>4. [Board!Next]_(<<career, Totals, torn>>) => [Board!Next]_(Board!vars)
  BY DEF Totals, Board!vars
<1> QED  BY <1>1, <1>3, <1>4, PTL DEF Spec, CreditsOnce, Board!Spec
=============================================================================
