---------------------------- MODULE RelayProofs ----------------------------
(***************************************************************************)
(* Proofs about Relay, for any upstreams, commands, settings and bounds.   *)
(*                                                                         *)
(* The relay has no identifiers to tell whose response it is: a session in *)
(* m_command_tracker stands for one of the commands of that session, and   *)
(* the lines of the game for one of those on their way.  Both invariants   *)
(* say which: IInv has a function p from the tracker to the positions in   *)
(* the queues, OInv a function e from it to the lines that will come.  The *)
(* first needs no more than that no upstream is lost while the game has    *)
(* its commands, the second also that there is one game server (the        *)
(* tracker is one for all of them) and that the echo of a made-up answer   *)
(* is the command (it is the first word of an unknown one).                *)
(***************************************************************************)
EXTENDS Relay, SequenceTheorems, WellFoundedInduction, TLAPS

\* A nonempty set of numbers has a least one.
LEMMA Least ==
  ASSUME NEW T \in SUBSET Nat, T # {}
  PROVE  \E n \in T : \A m \in T : n <= m
<1> DEFINE R == OpToRel(<, Nat)
<1>1. IsWellFoundedOn(R, Nat)
  BY NatLessThanWellFounded
<1>2. \A x, y \in Nat : x < y => <<x, y>> \in R
  BY DEF OpToRel
<1> HIDE DEF R
<1>3. PICK n \in T : \A m \in T : ~(<<m, n>> \in R)
  BY <1>1, WFMin
<1>4. \A m \in T : ~(m < n)
  BY <1>2, <1>3
<1> QED  BY <1>4

\* Induction, said of a set of numbers.
LEMMA Induction ==
  ASSUME NEW T \in SUBSET Nat, 0 \in T, \A n \in T : n + 1 \in T
  PROVE  T = Nat
<1> SUFFICES ASSUME Nat \ T # {} PROVE FALSE
  OBVIOUS
<1>1. PICK n \in Nat \ T : \A m \in Nat \ T : n <= m
  BY Least
<1>2. n # 0 /\ n - 1 \in Nat
  BY <1>1
<1>3. n - 1 \in T
  BY <1>1, <1>2
<1>4. (n - 1) + 1 = n
  BY <1>1
<1> QED  BY <1>1, <1>3, <1>4

----------------------------------------------------------------------------
\* There is a longest prefix of made-up answers, and FakesOf takes it.
LEMMA FakesOfFacts ==
  ASSUME NEW q \in Seq(UpstreamCommand)
  PROVE  \E n \in 0 .. Len(q) : /\ FakesOf(q) = SubSeq(q, 1, n)
                                /\ \A i \in 1 .. n : q[i].isFake
                                /\ n < Len(q) => ~q[n + 1].isFake
<1> DEFINE IsEnd(n) == n = Len(q) \/ ~q[n + 1].isFake
           T == {n \in 0 .. Len(q) : IsEnd(n)}
           Longest(n) == /\ \A i \in 1 .. n : q[i].isFake
                         /\ n < Len(q) => ~q[n + 1].isFake
<1>1. Len(q) \in Nat /\ Len(q) \in T /\ T \in SUBSET Nat
  OBVIOUS
<1>2. PICK n \in T : \A m \in T : n <= m
  <2> HIDE DEF T
  <2> QED  BY <1>1, Least
<1>3. \A i \in 1 .. n : q[i].isFake
  <2> TAKE i \in 1 .. n
  <2>0. n \in 0 .. Len(q)
    OBVIOUS
  <2>1. i - 1 \in 0 .. Len(q) /\ (i - 1) + 1 = i /\ i - 1 < n
    BY <1>1, <2>0
  <2>2. i - 1 \notin T
    <3> HIDE DEF T
    <3> QED  BY <1>1, <1>2, <2>0, <2>1
  <2> QED  BY <2>1, <2>2
<1>4. n \in 0 .. Len(q) /\ Longest(n)
  BY <1>2, <1>3
<1> HIDE DEF Longest, T
<1>5. Longest(CHOOSE m \in 0 .. Len(q) : Longest(m))
      /\ (CHOOSE m \in 0 .. Len(q) : Longest(m)) \in 0 .. Len(q)
  BY <1>4
<1>6. FakesOf(q) = SubSeq(q, 1, CHOOSE m \in 0 .. Len(q) : Longest(m))
  BY DEF FakesOf, Longest
<1> QED  BY <1>5, <1>6 DEF Longest

----------------------------------------------------------------------------
\* An upstream that is being told of a command has asked for one.
WellTold(v) == v \in View /\ (v.told # Nothing => v.asked # <<>>)

LEMMA LineFacts ==
  ASSUME NEW c \in Commands
  PROVE  /\ Executed(c) \in Line /\ Response(c) \in Line /\ Done(c) \in Line
         /\ c # Nothing
BY NoSession DEF Executed, Response, Done, Line

LEMMA ToldWell ==
  ASSUME NEW v, WellTold(v), NEW line \in Line
  PROVE  WellTold(Told(v, line))
<1> DEFINE A == Seq(Commands)
           T == Commands \cup {Nothing}
<1>1. View = [asked : A, told : T, confused : BOOLEAN]
  BY DEF View
<1>2. line.command \in Commands /\ line.command \in T /\ Nothing \in T /\ line.command # Nothing
      /\ line.kind \in {"executed", "response", "done"}
  BY NoSession DEF Line
<1>3. v.asked \in A /\ (v.asked # <<>> => Tail(v.asked) \in A)
  BY <1>1, HeadTailProperties DEF WellTold
<1>0. v \in [asked : A, told : T, confused : BOOLEAN] /\ (v.told # Nothing => v.asked # <<>>)
  BY <1>1 DEF WellTold
<1> SUFFICES /\ Told(v, line) \in [asked : A, told : T, confused : BOOLEAN]
             /\ Told(v, line).told # Nothing => Told(v, line).asked # <<>>
  BY <1>1 DEF WellTold
<1> HIDE DEF A, T
<1>4. CASE ~Expects(v, line)
  <2>1. Told(v, line) = [v EXCEPT !.confused = TRUE]
    BY <1>4 DEF Told
  <2> QED  BY <1>0, <2>1
<1>5. CASE Expects(v, line) /\ line.kind = "executed"
  <2>1. Told(v, line) = [v EXCEPT !.told = line.command] /\ v.asked # <<>>
    BY <1>5 DEF Told, Expects
  <2> QED  BY <1>0, <1>2, <2>1
<1>6. CASE Expects(v, line) /\ line.kind = "response"
  <2>1. Told(v, line) = v
    BY <1>6 DEF Told
  <2> QED  BY <1>0, <2>1
<1>7. CASE Expects(v, line) /\ line.kind = "done"
  <2>1. Told(v, line) = [v EXCEPT !.told = Nothing, !.asked = Tail(@)] /\ v.asked # <<>>
    BY <1>0, <1>2, <1>7 DEF Told, Expects
  <2>2. Told(v, line) \in [asked : A, told : T, confused : BOOLEAN]
        /\ Told(v, line).told = Nothing
    BY <1>0, <1>2, <1>3, <2>1
  <2> QED  BY <2>2
<1> QED  BY <1>2, <1>4, <1>5, <1>6, <1>7

LEMMA FakedWell ==
  ASSUME NEW v, WellTold(v), NEW c \in Commands
  PROVE  WellTold(Faked(v, c))
BY LineFacts, ToldWell DEF Faked

\* The recursion of FakedAll has a solution.
LEMMA FakedAllRecursion ==
  ASSUME NEW v, NEW cs \in Seq(UpstreamCommand)
  PROVE  \E f : /\ f = [n \in 0 .. Len(cs) |-> IF n = 0 THEN v ELSE Faked(f[n - 1], cs[n].command)]
                /\ FakedAll(v, cs) = f[Len(cs)]
<1> DEFINE F(n, f) == /\ f = [k \in 0 .. n |-> f[k]]
                      /\ \A k \in 0 .. n : f[k] = IF k = 0 THEN v ELSE Faked(f[k - 1], cs[k].command)
           T == {n \in Nat : \E f : F(n, f)}
<1>1. 0 \in T
  <2>1. F(0, [k \in 0 .. 0 |-> v])
    OBVIOUS
  <2> QED  BY <2>1
<1>2. \A n \in T : n + 1 \in T
  <2> TAKE n \in T
  <2>1. n \in Nat /\ \E f : F(n, f)
    OBVIOUS
  <2>2. PICK f : F(n, f)
    BY <2>1
  <2> DEFINE h == [k \in 0 .. n + 1 |-> IF k = n + 1 THEN Faked(f[n], cs[n + 1].command) ELSE f[k]]
  <2>3. h = [k \in 0 .. n + 1 |-> h[k]]
    OBVIOUS
  <2>4. ASSUME NEW k \in 0 .. n + 1
        PROVE h[k] = IF k = 0 THEN v ELSE Faked(h[k - 1], cs[k].command)
    <3>1. CASE k = n + 1
      <4>1. k # 0 /\ k - 1 = n /\ n \in 0 .. n + 1 /\ n # n + 1
        BY <2>1, <3>1
      <4>2. h[k] = Faked(f[n], cs[n + 1].command) /\ h[n] = f[n]
        BY <3>1, <4>1
      <4> HIDE DEF h
      <4> QED  BY <3>1, <4>1, <4>2
    <3>2. CASE k # n + 1
      <4>1. k \in 0 .. n
        BY <2>1, <3>2
      <4>2. f[k] = IF k = 0 THEN v ELSE Faked(f[k - 1], cs[k].command)
        BY <2>2, <4>1
      <4>3. h[k] = f[k] /\ (k # 0 => h[k - 1] = f[k - 1])
        BY <2>1, <3>2, <4>1
      <4> HIDE DEF h
      <4> QED  BY <4>2, <4>3
    <3> QED  BY <3>1, <3>2
  <2>5. F(n + 1, h)
    <3> HIDE DEF h
    <3> QED  BY <2>3, <2>4
  <2> HIDE DEF F
  <2> QED  BY <2>1, <2>5
<1>3. T \in SUBSET Nat
  OBVIOUS
<1>4. Len(cs) \in T
  <2>1. Len(cs) \in Nat
    OBVIOUS
  <2> HIDE DEF T
  <2>2. T = Nat
    BY <1>1, <1>2, <1>3, Induction
  <2> QED  BY <2>1, <2>2
<1>5. PICK f : F(Len(cs), f)
  BY <1>4
<1> DEFINE E(h) == h = [n \in 0 .. Len(cs) |-> IF n = 0 THEN v ELSE Faked(h[n - 1], cs[n].command)]
<1>6. E(f)
  BY <1>5
<1>7. E(CHOOSE h : E(h))
  <2> HIDE DEF E
  <2> QED  BY <1>6
<1>8. FakedAll(v, cs) = (CHOOSE h : E(h))[Len(cs)]
  BY DEF FakedAll
<1> QED  BY <1>7, <1>8

\* Made-up answers leave an upstream with a view it can have.
LEMMA FakedAllWell ==
  ASSUME NEW v, WellTold(v), NEW cs \in Seq(UpstreamCommand)
  PROVE  WellTold(FakedAll(v, cs))
<1>1. PICK f : /\ f = [n \in 0 .. Len(cs) |-> IF n = 0 THEN v ELSE Faked(f[n - 1], cs[n].command)]
               /\ FakedAll(v, cs) = f[Len(cs)]
  BY FakedAllRecursion
<1> DEFINE T == {n \in Nat : n <= Len(cs) => WellTold(f[n])}
<1>2. 0 \in T
  BY <1>1
<1>3. \A n \in T : n + 1 \in T
  <2> SUFFICES ASSUME NEW n \in T, n + 1 <= Len(cs) PROVE WellTold(f[n + 1])
    OBVIOUS
  <2>1. n \in Nat /\ WellTold(f[n]) /\ n + 1 \in 1 .. Len(cs)
    OBVIOUS
  <2>2. cs[n + 1].command \in Commands
    <3>1. cs[n + 1] \in UpstreamCommand
      BY <2>1, ElementOfSeq
    <3> QED  BY <3>1 DEF UpstreamCommand
  <2>3. f[n + 1] = Faked(f[n], cs[n + 1].command)
    BY <1>1, <2>1
  <2> QED  BY <2>1, <2>2, <2>3, FakedWell
<1>4. Len(cs) \in T
  <2>1. T \in SUBSET Nat /\ Len(cs) \in Nat
    OBVIOUS
  <2> HIDE DEF T
  <2> QED  BY <1>2, <1>3, <2>1, Induction
<1> QED  BY <1>1, <1>4
----------------------------------------------------------------------------
(***************************************************************************)
(* The queues and the order of commands.  An entry of m_command_tracker    *)
(* stands for a command its session waits for: p says which.               *)
(***************************************************************************)
Queues == [Sessions -> Seq(UpstreamCommand)]
Order  == Seq(Sessions \cup {Lost})
Real(q) == {k \in 1 .. Len(q) : ~q[k].isFake}

Fits(p, t, q) ==
  /\ p \in [1 .. Len(t) -> Nat]
  /\ \A i \in 1 .. Len(t) : t[i] \in Sessions /\ p[i] \in Real(q[t[i]])
  /\ \A i, j \in 1 .. Len(t) : i < j /\ t[i] = t[j] => p[i] < p[j]
  /\ \A s \in Sessions : \A k \in Real(q[s]) : \E i \in 1 .. Len(t) : t[i] = s /\ p[i] = k

FirstIsReal(q) == \A s \in Sessions : q[s] # <<>> => 1 \in Real(q[s])

Enqueued(q, s, x) == [q EXCEPT ![s] = Append(@, x)]
Longer(p, n, k) == [i \in 1 .. n + 1 |-> IF i <= n THEN p[i] ELSE k]

LEMMA EnqueuedFacts ==
  ASSUME NEW q \in Queues, NEW s \in Sessions, NEW x \in UpstreamCommand
  PROVE  /\ Enqueued(q, s, x) \in Queues
         /\ \A r \in Sessions \ {s} : Enqueued(q, s, x)[r] = q[r]
         /\ Len(Enqueued(q, s, x)[s]) = Len(q[s]) + 1 /\ Len(q[s]) \in Nat
         /\ \A k \in 1 .. Len(q[s]) : Enqueued(q, s, x)[s][k] = q[s][k]
         /\ Enqueued(q, s, x)[s][Len(q[s]) + 1] = x
         /\ Enqueued(q, s, x)[s] # <<>>
<1>1. q[s] \in Seq(UpstreamCommand)
  BY DEF Queues
<1>2. /\ Append(q[s], x) \in Seq(UpstreamCommand)
      /\ Append(q[s], x) # <<>>
      /\ Len(Append(q[s], x)) = Len(q[s]) + 1 /\ Len(q[s]) \in Nat
      /\ \A k \in 1 .. Len(q[s]) : Append(q[s], x)[k] = q[s][k]
      /\ Append(q[s], x)[Len(q[s]) + 1] = x
  BY <1>1, AppendProperties, LenProperties
<1>3. /\ Enqueued(q, s, x)[s] = Append(q[s], x)
      /\ \A r \in Sessions \ {s} : Enqueued(q, s, x)[r] = q[r]
      /\ Enqueued(q, s, x) \in Queues
  BY <1>2 DEF Enqueued, Queues
<1> QED  BY <1>2, <1>3

LEMMA EnqueuedReal ==
  ASSUME NEW q \in Queues, NEW s \in Sessions, NEW x \in UpstreamCommand
  PROVE  /\ \A r \in Sessions \ {s} : Real(Enqueued(q, s, x)[r]) = Real(q[r])
         /\ Real(Enqueued(q, s, x)[s]) =
              Real(q[s]) \cup IF x.isFake THEN {} ELSE {Len(q[s]) + 1}
<1>1. \A r \in Sessions \ {s} : Real(Enqueued(q, s, x)[r]) = Real(q[r])
  BY EnqueuedFacts
<1> DEFINE e == Enqueued(q, s, x)[s]
           n == Len(q[s])
<1>2. /\ Len(e) = n + 1 /\ n \in Nat /\ e[n + 1] = x
      /\ \A k \in 1 .. n : e[k] = q[s][k]
  BY EnqueuedFacts
<1>3. 1 .. n + 1 = (1 .. n) \cup {n + 1} /\ n + 1 \notin 1 .. n
  BY <1>2
<1>4. Real(e) = Real(q[s]) \cup IF x.isFake THEN {} ELSE {n + 1}
  <2> HIDE DEF e
  <2>1. Real(q[s]) = {k \in 1 .. n : ~q[s][k].isFake}
    BY DEF Real
  <2>2. Real(e) = {k \in 1 .. n + 1 : ~e[k].isFake}
    BY <1>2 DEF Real
  <2> HIDE DEF n
  <2> QED  BY <1>2, <1>3, <2>1, <2>2
<1> QED  BY <1>1, <1>4

LEMMA FirstIsRealAsked ==
  ASSUME NEW q \in Queues, NEW s \in Sessions, NEW x \in UpstreamCommand,
         FirstIsReal(q), x.isFake => q[s] # <<>>
  PROVE  FirstIsReal(Enqueued(q, s, x))
<1>1. \A r \in Sessions \ {s} : Enqueued(q, s, x)[r] = q[r]
  BY EnqueuedFacts
<1>2. q[s] # <<>> => 1 \in Real(Enqueued(q, s, x)[s])
  BY EnqueuedReal DEF FirstIsReal
<1>3. q[s] = <<>> => 1 \in Real(Enqueued(q, s, x)[s])
  <2> SUFFICES ASSUME q[s] = <<>> PROVE 1 \in Real(Enqueued(q, s, x)[s])
    OBVIOUS
  <2>1. Len(q[s]) + 1 = 1
    OBVIOUS
  <2> QED  BY <2>1, EnqueuedReal
<1> QED  BY <1>1, <1>2, <1>3 DEF FirstIsReal

LEMMA FitsFake ==
  ASSUME NEW q \in Queues, NEW s \in Sessions, NEW x \in UpstreamCommand, x.isFake,
         NEW p, NEW t, Fits(p, t, q)
  PROVE  Fits(p, t, Enqueued(q, s, x))
<1>1. Real(Enqueued(q, s, x)[s]) = Real(q[s])
  <2>1. Real(Enqueued(q, s, x)[s]) = Real(q[s]) \cup IF x.isFake THEN {} ELSE {Len(q[s]) + 1}
    BY EnqueuedReal
  <2> QED  BY <2>1
<1>2. \A r \in Sessions : Real(Enqueued(q, s, x)[r]) = Real(q[r])
  BY <1>1, EnqueuedReal
<1> QED  BY <1>2 DEF Fits

\* A command that is passed on is the last of its session and of the tracker.
LEMMA FitsReal ==
  ASSUME NEW q \in Queues, NEW s \in Sessions, NEW x \in UpstreamCommand, ~x.isFake,
         NEW p, NEW t \in Order, Fits(p, t, q)
  PROVE  Fits(Longer(p, Len(t), Len(q[s]) + 1), Append(t, s), Enqueued(q, s, x))
<1> DEFINE n == Len(t)
           m == Len(q[s])
           u == Append(t, s)
           h == Longer(p, n, m + 1)
           R(r) == Real(Enqueued(q, s, x)[r])
<1>1. /\ u \in Order /\ Len(u) = n + 1 /\ n \in Nat /\ u[n + 1] = s
      /\ \A i \in 1 .. n : u[i] = t[i]
  BY AppendProperties DEF Order
<1>2. m \in Nat /\ \A k \in Real(q[s]) : k <= m
  BY EnqueuedFacts DEF Real
<1>3. /\ \A r \in Sessions \ {s} : R(r) = Real(q[r])
      /\ R(s) = Real(q[s]) \cup {m + 1}
  BY EnqueuedReal
<1>4. /\ p \in [1 .. n -> Nat]
      /\ \A i \in 1 .. n : t[i] \in Sessions /\ p[i] \in Real(q[t[i]])
      /\ \A i, j \in 1 .. n : i < j /\ t[i] = t[j] => p[i] < p[j]
      /\ \A r \in Sessions : \A k \in Real(q[r]) : \E i \in 1 .. n : t[i] = r /\ p[i] = k
  BY DEF Fits
<1>5. /\ h \in [1 .. n + 1 -> Nat] /\ h[n + 1] = m + 1
      /\ \A i \in 1 .. n : h[i] = p[i]
  BY <1>1, <1>2, <1>4 DEF Longer
<1>6. 1 .. n + 1 = (1 .. n) \cup {n + 1}
  BY <1>1
<1> HIDE DEF n, m, u, h, R
<1>7. \A i \in 1 .. n + 1 : u[i] \in Sessions /\ h[i] \in R(u[i])
  BY <1>1, <1>3, <1>4, <1>5, <1>6
<1>8. ASSUME NEW i \in 1 .. n + 1, NEW j \in 1 .. n + 1, i < j, u[i] = u[j]
      PROVE  h[i] < h[j]
  <2>1. CASE j = n + 1
    <3>1. i \in 1 .. n
      BY <1>1, <1>8, <2>1
    <3>2. t[i] = s
      BY <1>1, <1>8, <2>1, <3>1
    <3>3. p[i] <= m
      BY <1>2, <1>4, <3>1, <3>2
    <3> QED  BY <1>2, <1>4, <1>5, <2>1, <3>1, <3>3
  <2>2. CASE j \in 1 .. n
    <3>1. i \in 1 .. n
      BY <1>1, <1>8, <2>2
    <3> QED  BY <1>1, <1>4, <1>5, <1>8, <2>2, <3>1
  <2> QED  BY <1>6, <2>1, <2>2
<1>9. ASSUME NEW r \in Sessions, NEW k \in R(r)
      PROVE  \E i \in 1 .. n + 1 : u[i] = r /\ h[i] = k
  <2>1. CASE k \in Real(q[r])
    <3>1. PICK i \in 1 .. n : t[i] = r /\ p[i] = k
      BY <1>4, <2>1
    <3> QED  BY <1>1, <1>5, <1>6, <3>1
  <2>2. CASE k \notin Real(q[r])
    <3>1. r = s /\ k = m + 1
      BY <1>3, <1>9, <2>2
    <3>2. n + 1 \in 1 .. n + 1
      BY <1>1
    <3> QED  BY <1>1, <1>5, <3>1, <3>2
  <2> QED  BY <2>1, <2>2
<1>10. Fits(h, u, Enqueued(q, s, x))
  <2> DEFINE D == 1 .. Len(u)
  <2>1. D = 1 .. n + 1
    BY <1>1
  <2> HIDE DEF D
  <2>2. h \in [D -> Nat]
    BY <1>5, <2>1
  <2>3. \A i \in D : u[i] \in Sessions /\ h[i] \in Real(Enqueued(q, s, x)[u[i]])
    BY <1>7, <2>1 DEF R
  <2>4. \A i, j \in D : i < j /\ u[i] = u[j] => h[i] < h[j]
    BY <1>8, <2>1
  <2>5. \A r \in Sessions : \A k \in Real(Enqueued(q, s, x)[r]) :
          \E i \in D : u[i] = r /\ h[i] = k
    BY <1>9, <2>1 DEF R
  <2> QED  BY <2>2, <2>3, <2>4, <2>5 DEF Fits, D
<1> QED  BY <1>10 DEF n, m, u, h

\* The first command of a session and the n made-up answers behind it leave.
Popped(q, s, n) == [q EXCEPT ![s] = SubSeq(@, n + 2, Len(@))]
Shift(p, t, s, n) == [i \in 1 .. Len(t) - 1 |-> IF t[i + 1] = s THEN p[i + 1] - n - 1 ELSE p[i + 1]]

FakesBehind(q, n) == /\ n \in 0 .. Len(q) - 1
                     /\ \A i \in 2 .. n + 1 : q[i].isFake
                     /\ n + 1 < Len(q) => ~q[n + 2].isFake

LEMMA PoppedFacts ==
  ASSUME NEW q \in Queues, NEW s \in Sessions, NEW n, FakesBehind(q[s], n)
  PROVE  /\ Popped(q, s, n) \in Queues
         /\ \A r \in Sessions \ {s} : Popped(q, s, n)[r] = q[r]
         /\ Len(Popped(q, s, n)[s]) = Len(q[s]) - n - 1 /\ Len(q[s]) \in Nat /\ n \in Nat
         /\ \A k \in 1 .. Len(q[s]) - n - 1 : Popped(q, s, n)[s][k] = q[s][k + n + 1]
<1> DEFINE m == Len(q[s])
           e == SubSeq(q[s], n + 2, m)
<1>1. q[s] \in Seq(UpstreamCommand) /\ m \in Nat
  BY DEF Queues
<1>2. n \in Nat /\ n + 1 <= m
  BY <1>1 DEF FakesBehind
<1>3. \A i \in n + 2 .. m : q[s][i] \in UpstreamCommand
  BY <1>1, <1>2, ElementOfSeq
<1>4. /\ e \in Seq(UpstreamCommand)
      /\ Len(e) = IF n + 2 <= m THEN m - (n + 2) + 1 ELSE 0
      /\ \A k \in 1 .. m - (n + 2) + 1 : e[k] = q[s][(n + 2) + k - 1]
  <2>1. n + 2 \in Int /\ m \in Int
    BY <1>1, <1>2
  <2> QED  BY <1>3, <2>1, SubSeqProperties
<1>5. Len(e) = m - n - 1
  BY <1>1, <1>2, <1>4
<1>6. \A k \in 1 .. m - n - 1 : e[k] = q[s][k + n + 1]
  <2> TAKE k \in 1 .. m - n - 1
  <2>1. k \in 1 .. m - (n + 2) + 1 /\ (n + 2) + k - 1 = k + n + 1
    BY <1>1, <1>2
  <2> HIDE DEF e, m
  <2> QED  BY <1>4, <2>1
<1>7. /\ Popped(q, s, n)[s] = e
      /\ \A r \in Sessions \ {s} : Popped(q, s, n)[r] = q[r]
      /\ Popped(q, s, n) \in Queues
  <2> HIDE DEF m
  <2>1. Popped(q, s, n) = [q EXCEPT ![s] = e]
    BY DEF Popped, m
  <2> HIDE DEF e
  <2> QED  BY <1>4, <2>1 DEF Queues
<1> HIDE DEF e
<1> QED  BY <1>1, <1>2, <1>5, <1>6, <1>7

LEMMA PoppedReal ==
  ASSUME NEW q \in Queues, NEW s \in Sessions, NEW n, FakesBehind(q[s], n),
         NEW k \in Nat
  PROVE  k \in Real(Popped(q, s, n)[s]) <=> k > 0 /\ k + n + 1 \in Real(q[s])
<1>1. /\ Len(Popped(q, s, n)[s]) = Len(q[s]) - n - 1 /\ Len(q[s]) \in Nat /\ n \in Nat
      /\ \A i \in 1 .. Len(q[s]) - n - 1 : Popped(q, s, n)[s][i] = q[s][i + n + 1]
  BY PoppedFacts
<1>2. k \in 1 .. Len(q[s]) - n - 1 <=> k > 0 /\ k + n + 1 \in 1 .. Len(q[s])
  BY <1>1
<1> QED  BY <1>1, <1>2 DEF Real

LEMMA FirstIsRealPopped ==
  ASSUME NEW q \in Queues, NEW s \in Sessions, NEW n, FakesBehind(q[s], n), FirstIsReal(q)
  PROVE  FirstIsReal(Popped(q, s, n))
<1>1. \A r \in Sessions \ {s} : Popped(q, s, n)[r] = q[r]
  BY PoppedFacts
<1>2. Popped(q, s, n)[s] # <<>> => 1 \in Real(Popped(q, s, n)[s])
  <2> SUFFICES ASSUME Popped(q, s, n)[s] # <<>> PROVE 1 \in Real(Popped(q, s, n)[s])
    OBVIOUS
  <2>1. Popped(q, s, n)[s] \in Seq(UpstreamCommand)
    BY PoppedFacts DEF Queues
  <2>2. Len(Popped(q, s, n)[s]) # 0
    BY <2>1, EmptySeq
  <2>3. Len(Popped(q, s, n)[s]) = Len(q[s]) - n - 1 /\ Len(q[s]) \in Nat /\ n \in Nat
    BY PoppedFacts
  <2>4. n + 1 < Len(q[s])
    BY <2>2, <2>3 DEF FakesBehind
  <2>5. n + 2 \in Real(q[s]) /\ 1 + n + 1 = n + 2
    BY <2>3, <2>4 DEF FakesBehind, Real
  <2> QED  BY <2>5, PoppedReal
<1> QED  BY <1>1, <1>2 DEF FirstIsReal

\* The front of the tracker stands for the first command of its session, and when
\* both leave the others are where they were.
LEMMA FitsPopped ==
  ASSUME NEW q \in Queues, NEW s \in Sessions, NEW n, FakesBehind(q[s], n), FirstIsReal(q),
         NEW p, NEW t \in Order, t # <<>>, t[1] = s, Fits(p, t, q)
  PROVE  /\ Fits(Shift(p, t, s, n), Tail(t), Popped(q, s, n)) /\ p[1] = 1
         /\ \A i \in 2 .. Len(t) : t[i] = s => p[i] >= n + 2
<1> DEFINE m == Len(t)
           u == Tail(t)
           h == Shift(p, t, s, n)
           R(r) == Real(Popped(q, s, n)[r])
<1>1. /\ u \in Order /\ m \in Nat /\ m > 0 /\ Len(u) = m - 1
      /\ \A i \in 1 .. m - 1 : u[i] = t[i + 1]
  BY HeadTailProperties, EmptySeq DEF Order
<1>2. n \in Nat /\ Len(q[s]) \in Nat /\ n < Len(q[s])
  BY PoppedFacts DEF FakesBehind
<1>3. /\ \A r \in Sessions \ {s} : R(r) = Real(q[r])
      /\ \A k \in Nat : k \in R(s) <=> k > 0 /\ k + n + 1 \in Real(q[s])
  BY PoppedFacts, PoppedReal
<1>4. /\ p \in [1 .. m -> Nat]
      /\ \A i \in 1 .. m : t[i] \in Sessions /\ p[i] \in Real(q[t[i]])
      /\ \A i, j \in 1 .. m : i < j /\ t[i] = t[j] => p[i] < p[j]
      /\ \A r \in Sessions : \A k \in Real(q[r]) : \E i \in 1 .. m : t[i] = r /\ p[i] = k
  BY DEF Fits
<1>5. \A i \in 1 .. m - 1 : h[i] = IF t[i + 1] = s THEN p[i + 1] - n - 1 ELSE p[i + 1]
  BY DEF Shift
<1>6. \A i \in 1 .. m - 1 : i + 1 \in 1 .. m
  BY <1>1
<1>7. \A r \in Sessions : \A k \in Real(q[r]) : k \in Nat \ {0} /\ ~q[r][k].isFake
  BY DEF Real
<1>8. \A k \in Real(q[s]) : k = 1 \/ k >= n + 2
  <2> TAKE k \in Real(q[s])
  <2>1. k \in Nat \ {0} /\ ~q[s][k].isFake
    BY <1>7
  <2>2. k \notin 2 .. n + 1
    BY <2>1 DEF FakesBehind
  <2> QED  BY <1>2, <2>1, <2>2
<1>9. 1 \in Real(q[s])
  <2>1. q[s] # <<>>
    BY <1>2, EmptySeq
  <2> QED  BY <2>1 DEF FirstIsReal
<1> HIDE DEF m, u, h, R
<1>10. p[1] = 1
  <2>1. PICK i \in 1 .. m : t[i] = s /\ p[i] = 1
    BY <1>4, <1>9
  <2>2. i = 1 \/ p[1] < p[i]
    BY <1>1, <1>4, <2>1
  <2>3. p[1] \in Nat \ {0}
    BY <1>1, <1>4, <1>7
  <2> QED  BY <2>1, <2>2, <2>3
<1>11. \A i \in 1 .. m - 1 : t[i + 1] = s => p[i + 1] >= n + 2
  <2> SUFFICES ASSUME NEW i \in 1 .. m - 1, t[i + 1] = s PROVE p[i + 1] >= n + 2
    OBVIOUS
  <2>1. p[1] < p[i + 1]
    BY <1>1, <1>4, <1>6
  <2> QED  BY <1>4, <1>6, <1>8, <1>10, <2>1
<1>12. h \in [1 .. m - 1 -> Nat]
  <2>1. \A i \in 1 .. m - 1 : h[i] \in Nat
    BY <1>2, <1>4, <1>5, <1>6, <1>11
  <2>2. h = [i \in 1 .. m - 1 |-> h[i]]
    BY DEF h, Shift, m
  <2> QED  BY <2>1, <2>2
<1>13. ASSUME NEW i \in 1 .. m - 1
       PROVE u[i] \in Sessions /\ h[i] \in R(u[i])
  <2>1. u[i] = t[i + 1] /\ u[i] \in Sessions /\ p[i + 1] \in Real(q[u[i]]) /\ p[i + 1] \in Nat
    BY <1>1, <1>4, <1>6
  <2>2. CASE u[i] = s
    <3>1. h[i] = p[i + 1] - n - 1 /\ p[i + 1] >= n + 2
      BY <1>5, <1>11, <2>1, <2>2
    <3>2. h[i] \in Nat /\ h[i] > 0 /\ h[i] + n + 1 = p[i + 1]
      BY <1>2, <2>1, <3>1
    <3> QED  BY <1>3, <2>1, <2>2, <3>2
  <2>3. CASE u[i] # s
    BY <1>3, <1>5, <2>1, <2>3
  <2> QED  BY <2>2, <2>3
<1>14. ASSUME NEW i \in 1 .. m - 1, NEW j \in 1 .. m - 1, i < j, u[i] = u[j]
       PROVE  h[i] < h[j]
  <2>1. i + 1 \in 1 .. m /\ j + 1 \in 1 .. m /\ i + 1 < j + 1
    BY <1>6, <1>14
  <2>2. p[i + 1] < p[j + 1] /\ t[i + 1] = t[j + 1] /\ p[i + 1] \in Nat /\ p[j + 1] \in Nat
    BY <1>1, <1>4, <1>14, <2>1
  <2> QED  BY <1>2, <1>5, <2>2, SMTT(30), ZenonT(30)
<1>15. ASSUME NEW r \in Sessions, NEW k \in R(r)
       PROVE  \E i \in 1 .. m - 1 : u[i] = r /\ h[i] = k
  <2>0. k \in Nat \ {0}
    BY <1>15 DEF R, Real
  <2> DEFINE l == IF r = s THEN k + n + 1 ELSE k
  <2>1. l \in Real(q[r]) /\ (r = s => l # 1)
    BY <1>2, <1>3, <2>0
  <2> HIDE DEF l
  <2>2. PICK i \in 1 .. m : t[i] = r /\ p[i] = l
    BY <1>4, <2>1
  <2>3. i # 1
    BY <1>10, <2>1, <2>2
  <2>4. i - 1 \in 1 .. m - 1 /\ (i - 1) + 1 = i
    BY <1>1, <2>3
  <2>5. u[i - 1] = r /\ h[i - 1] = IF r = s THEN l - n - 1 ELSE l
    BY <1>1, <1>5, <2>2, <2>4
  <2>6. h[i - 1] = k
    BY <1>2, <2>0, <2>5 DEF l
  <2> QED  BY <2>4, <2>5, <2>6
<1>16. Fits(h, u, Popped(q, s, n))
  <2> DEFINE D == 1 .. Len(u)
  <2>1. D = 1 .. m - 1
    BY <1>1
  <2> HIDE DEF D
  <2>2. h \in [D -> Nat]
    BY <1>12, <2>1
  <2>3. \A i \in D : u[i] \in Sessions /\ h[i] \in Real(Popped(q, s, n)[u[i]])
    BY <1>13, <2>1 DEF R
  <2>4. \A i, j \in D : i < j /\ u[i] = u[j] => h[i] < h[j]
    BY <1>14, <2>1
  <2>5. \A r \in Sessions : \A k \in Real(Popped(q, s, n)[r]) :
          \E i \in D : u[i] = r /\ h[i] = k
    BY <1>15, <2>1 DEF R
  <2> QED  BY <2>2, <2>3, <2>4, <2>5 DEF Fits, D
<1>17. \A i \in 2 .. Len(t) : t[i] = s => p[i] >= n + 2
  <2> TAKE i \in 2 .. Len(t)
  <2>1. i - 1 \in 1 .. m - 1 /\ (i - 1) + 1 = i
    BY <1>1 DEF m
  <2> QED  BY <1>11, <2>1
<1> QED  BY <1>10, <1>16, <1>17 DEF u, h

\* The answers that leave with a command are all those behind it.
LEMMA DoneFakes ==
  ASSUME NEW q \in Seq(UpstreamCommand), q # <<>>
  PROVE  /\ FakesOf(Tail(q)) \in Seq(UpstreamCommand)
         /\ FakesBehind(q, Len(FakesOf(Tail(q))))
         /\ \A i \in 1 .. Len(FakesOf(Tail(q))) : FakesOf(Tail(q))[i] = q[i + 1]
<1> DEFINE u == Tail(q)
           m == Len(q)
           f == FakesOf(u)
<1>1. /\ u \in Seq(UpstreamCommand) /\ Len(u) = m - 1 /\ m \in Nat /\ m > 0
      /\ \A i \in 1 .. m - 1 : u[i] = q[i + 1]
  BY HeadTailProperties, EmptySeq
<1> HIDE DEF u, m
<1>2. PICK n \in 0 .. Len(u) : /\ f = SubSeq(u, 1, n)
                               /\ \A i \in 1 .. n : u[i].isFake
                               /\ n < Len(u) => ~u[n + 1].isFake
  BY <1>1, FakesOfFacts
<1>3. n \in Nat /\ n <= m - 1
  BY <1>1, <1>2
<1>4. \A i \in 1 .. n : u[i] \in UpstreamCommand
  BY <1>1, <1>3, ElementOfSeq
<1> HIDE DEF f
<1>5. /\ f \in Seq(UpstreamCommand) /\ Len(f) = n
      /\ \A i \in 1 .. n : f[i] = u[i]
  <2>1. /\ SubSeq(u, 1, n) \in Seq(UpstreamCommand)
        /\ Len(SubSeq(u, 1, n)) = IF 1 <= n THEN n - 1 + 1 ELSE 0
        /\ \A i \in 1 .. n - 1 + 1 : SubSeq(u, 1, n)[i] = u[1 + i - 1]
    BY <1>3, <1>4, SubSeqProperties
  <2>2. n - 1 + 1 = n /\ \A i \in 1 .. n : 1 + i - 1 = i
    BY <1>3
  <2> QED  BY <1>2, <1>3, <2>1, <2>2
<1>6. FakesBehind(q, n)
  <2>1. \A i \in 2 .. n + 1 : q[i].isFake
    <3> TAKE i \in 2 .. n + 1
    <3>1. i - 1 \in 1 .. n /\ i - 1 \in 1 .. m - 1 /\ (i - 1) + 1 = i
      BY <1>1, <1>3
    <3> QED  BY <1>1, <1>2, <1>3, <3>1
  <2>2. n + 1 < m => ~q[n + 2].isFake
    <3> SUFFICES ASSUME n + 1 < m PROVE ~q[n + 2].isFake
      OBVIOUS
    <3>1. n < Len(u) /\ n + 1 \in 1 .. m - 1 /\ (n + 1) + 1 = n + 2
      BY <1>1, <1>3
    <3> QED  BY <1>1, <1>2, <3>1
  <2>3. n \in 0 .. m - 1
    BY <1>1, <1>3
  <2> QED  BY <2>1, <2>2, <2>3 DEF FakesBehind, m
<1>7. \A i \in 1 .. n : f[i] = q[i + 1]
  <2>1. \A i \in 1 .. n : i \in 1 .. m - 1
    BY <1>1, <1>3
  <2> QED  BY <1>1, <1>5, <2>1
<1> QED  BY <1>5, <1>6, <1>7 DEF f, u

----------------------------------------------------------------------------
Sound(q, t) == /\ q \in Queues /\ t \in Order
               /\ FirstIsReal(q)
               /\ \E p : Fits(p, t, q)

WellViews(v) == v \in [Sessions -> View] /\ \A s \in Sessions : WellTold(v[s])

WellWired(r, x) == r \in [Servers -> Seq(Line)] /\ x \in [Servers -> Seq(Commands)]

\* The queues and the tracker agree.
IInv ==
  /\ linked \subseteq Servers /\ up \subseteq Sessions /\ processing \subseteq Sessions
  /\ WellWired(rx, tx) /\ WellViews(view)
  /\ Sound(queue, tracker)
  /\ \A s \in processing : tracker # <<>> /\ tracker[1] = s
  /\ \A s \in Sessions : queue[s] # <<>> => s \in up

\* Whoever is at the front of the tracker has a command that waits.
LEMMA TrackedFacts ==
  ASSUME NEW q, NEW t, Sound(q, t), t # <<>>
  PROVE  t[1] \in Sessions /\ q[t[1]] # <<>> /\ 1 \in Real(q[t[1]]) /\ Head(t) = t[1]
<1>1. PICK p : Fits(p, t, q)
  BY DEF Sound
<1>2. t \in Order /\ q \in Queues /\ 1 \in 1 .. Len(t)
  BY EmptySeq DEF Sound, Order
<1>3. t[1] \in Sessions /\ p[1] \in Real(q[t[1]])
  BY <1>1, <1>2 DEF Fits
<1>4. q[t[1]] # <<>>
  BY <1>3 DEF Real
<1> QED  BY <1>2, <1>3, <1>4 DEF Sound, FirstIsReal, Order

\* Whoever has a command that waits is in the tracker.
LEMMA SomeoneIsWaitedFor ==
  ASSUME NEW q, NEW t, Sound(q, t), NEW s \in Sessions, q[s] # <<>>
  PROVE  t # <<>> /\ \E i \in 1 .. Len(t) : t[i] = s
<1>1. PICK p : Fits(p, t, q)
  BY DEF Sound
<1>2. \E i \in 1 .. Len(t) : t[i] = s
  BY <1>1 DEF Sound, FirstIsReal, Fits
<1>3. t # <<>>
  BY <1>2
<1> QED  BY <1>2, <1>3

\* Losing sessions for whom nothing waits changes nothing in the tracker.
LEMMA ForgetsNobody ==
  ASSUME IInv, NEW ss, \A s \in ss : s \in Sessions /\ queue[s] = <<>>
  PROVE  Forgotten(ss) = tracker
<1>1. PICK p : Fits(p, tracker, queue)
  BY DEF IInv, Sound
<1>2. tracker \in Order /\ queue \in Queues
  BY DEF IInv, Sound
<1>3. DOMAIN tracker = 1 .. Len(tracker) /\ tracker = [i \in DOMAIN tracker |-> tracker[i]]
  BY <1>2 DEF Order
<1>4. \A i \in DOMAIN tracker : tracker[i] \notin ss
  <2> SUFFICES ASSUME NEW i \in DOMAIN tracker, tracker[i] \in ss PROVE FALSE
    OBVIOUS
  <2>1. p[i] \in Real(queue[tracker[i]]) /\ queue[tracker[i]] = <<>>
    BY <1>1, <1>3 DEF Fits
  <2> QED  BY <2>1 DEF Real
<1> QED  BY <1>3, <1>4 DEF Forgotten

LEMMA InitIInv == Init => IInv
<1> SUFFICES ASSUME Init PROVE IInv
  OBVIOUS
<1>1. queue \in Queues /\ \A s \in Sessions : queue[s] = <<>>
  BY DEF Init, Queues
<1>2. FirstIsReal(queue) /\ tracker \in Order /\ tracker = <<>>
  BY <1>1 DEF FirstIsReal, Init, Order
<1>3. Fits(<<>>, tracker, queue)
  <2>1. \A s \in Sessions : Real(queue[s]) = {}
    BY <1>1 DEF Real
  <2>2. 1 .. Len(tracker) = {} /\ <<>> \in [{} -> Nat]
    BY <1>2
  <2> QED  BY <2>1, <2>2 DEF Fits
<1>4. WellViews(view)
  <2>1. Idle \in View /\ Idle.told = Nothing
    BY DEF Idle, View
  <2> QED  BY <2>1 DEF WellViews, WellTold, Init
<1>5. WellWired(rx, tx)
  BY DEF WellWired, Init
<1>6. linked \subseteq Servers /\ up \subseteq Sessions /\ processing = {}
  BY DEF Init
<1> QED  BY <1>1, <1>2, <1>3, <1>4, <1>5, <1>6 DEF IInv, Sound

LEMMA AskFacts ==
  ASSUME IInv, NEW s \in Sessions, NEW c \in Commands
  PROVE  /\ WellTold(Asking(s, c)) /\ EchoOf(c) \in Commands
         /\ Asking(s, c).asked = Append(view[s].asked, c)
         /\ Asking(s, c).told = view[s].told
         /\ Asking(s, c).confused = view[s].confused
<1> DEFINE A == Seq(Commands)
           T == Commands \cup {Nothing}
<1>1. View = [asked : A, told : T, confused : BOOLEAN]
  BY DEF View
<1>2. view[s] \in View /\ (view[s].told # Nothing => view[s].asked # <<>>)
  BY DEF IInv, WellViews, WellTold
<1>3. Append(view[s].asked, c) \in A /\ Append(view[s].asked, c) # <<>>
  <2>1. view[s].asked \in Seq(Commands)
    BY <1>2 DEF View
  <2> QED  BY <2>1, AppendProperties
<1>4. EchoOf(c) \in Commands
  BY RelayAssumption DEF EchoOf
<1>5. view[s] \in [asked : A, told : T, confused : BOOLEAN]
  BY <1>1, <1>2
<1> HIDE DEF A, T
<1>6. Asking(s, c) = [view[s] EXCEPT !.asked = Append(view[s].asked, c)]
  BY DEF Asking
<1>7. /\ Asking(s, c) \in [asked : A, told : T, confused : BOOLEAN]
      /\ Asking(s, c).asked = Append(view[s].asked, c)
      /\ Asking(s, c).told = view[s].told
      /\ Asking(s, c).confused = view[s].confused
  BY <1>3, <1>5, <1>6
<1> QED  BY <1>1, <1>3, <1>4, <1>7 DEF WellTold

LEMMA OneView ==
  ASSUME NEW vs, WellViews(vs), NEW s \in Sessions, NEW v, WellTold(v)
  PROVE  WellViews([vs EXCEPT ![s] = v])
<1>1. v \in View
  BY DEF WellTold
<1> QED  BY <1>1 DEF WellViews

LEMMA AskFakeStep ==
  ASSUME IInv, NEW s \in Sessions, NEW c \in Commands, AskFake(s, c)
  PROVE  IInv'
<1>1. /\ WellTold(Asking(s, c)) /\ EchoOf(c) \in Commands
      /\ WellTold(Faked(Asking(s, c), EchoOf(c)))
  BY AskFacts, FakedWell
<1>2. UNCHANGED <<linked, up, processing, tracker, rx, tx>> /\ s \in up
  BY DEF AskFake, wire, MayAsk
<1>3. WellViews(view')
  BY <1>1, OneView DEF AskFake, IInv
<1>4. CASE queue[s] = <<>>
  BY <1>2, <1>3, <1>4 DEF AskFake, IInv
<1>5. CASE queue[s] # <<>>
  <2> DEFINE x == [command |-> EchoOf(c), isFake |-> TRUE]
  <2>1. x \in UpstreamCommand /\ x.isFake
    BY <1>1 DEF UpstreamCommand
  <2>2. queue' = Enqueued(queue, s, x)
    BY <1>5 DEF AskFake, Enqueued
  <2> HIDE DEF x
  <2>3. queue \in Queues /\ tracker \in Order
    BY DEF IInv, Sound
  <2>4. Sound(queue', tracker)
    <3>1. PICK p : Fits(p, tracker, queue)
      BY DEF IInv, Sound
    <3>2. Fits(p, tracker, queue')
      BY <2>1, <2>2, <2>3, <3>1, FitsFake
    <3>3. FirstIsReal(queue') /\ queue' \in Queues
      BY <1>5, <2>1, <2>2, <2>3, FirstIsRealAsked, EnqueuedFacts DEF IInv, Sound
    <3> QED  BY <2>3, <3>2, <3>3 DEF Sound
  <2>5. \A r \in Sessions \ {s} : queue'[r] = queue[r]
    BY <2>1, <2>2, <2>3, EnqueuedFacts
  <2> QED  BY <1>2, <1>3, <2>4, <2>5 DEF IInv
<1> QED  BY <1>4, <1>5

LEMMA TxFacts ==
  ASSUME NEW x \in [Servers -> Seq(Commands)], NEW g \in Servers, NEW c \in Commands
  PROVE  [x EXCEPT ![g] = Append(@, c)] \in [Servers -> Seq(Commands)]
<1>1. Append(x[g], c) \in Seq(Commands)
  BY AppendProperties
<1> QED  BY <1>1

LEMMA AskRealStep ==
  ASSUME IInv, NEW s \in Sessions, NEW c \in Commands, AskReal(s, c)
  PROVE  IInv'
<1> DEFINE x == [command |-> c, isFake |-> FALSE]
<1>1. WellTold(Asking(s, c)) /\ x \in UpstreamCommand /\ ~x.isFake
  BY AskFacts DEF UpstreamCommand
<1>2. UNCHANGED <<linked, up, processing, rx>> /\ s \in up /\ s[1] \in Servers
  BY DEF AskReal, MayAsk, Sessions
<1>3. WellViews(view')
  BY <1>1, OneView DEF AskReal, IInv
<1>4. queue' = Enqueued(queue, s, x) /\ tracker' = Append(tracker, s)
  BY DEF AskReal, Enqueued
<1> HIDE DEF x
<1>5. queue \in Queues /\ tracker \in Order
  BY DEF IInv, Sound
<1>6. Sound(queue', tracker')
  <2>1. PICK p : Fits(p, tracker, queue)
    BY DEF IInv, Sound
  <2>2. Fits(Longer(p, Len(tracker), Len(queue[s]) + 1), tracker', queue')
    BY <1>1, <1>4, <1>5, <2>1, FitsReal
  <2>3. FirstIsReal(queue') /\ queue' \in Queues
    BY <1>1, <1>4, <1>5, FirstIsRealAsked, EnqueuedFacts DEF IInv, Sound
  <2>4. tracker' \in Order
    BY <1>4, <1>5, AppendProperties DEF Order
  <2> QED  BY <2>2, <2>3, <2>4 DEF Sound
<1>7. \A r \in Sessions \ {s} : queue'[r] = queue[r]
  BY <1>1, <1>4, <1>5, EnqueuedFacts
<1>8. WellWired(rx', tx')
  BY <1>2, TxFacts DEF AskReal, IInv, WellWired
<1>9. tracker # <<>> => tracker' # <<>> /\ tracker'[1] = tracker[1]
  <2> SUFFICES ASSUME tracker # <<>> PROVE tracker' # <<>> /\ tracker'[1] = tracker[1]
    OBVIOUS
  <2>1. 1 \in 1 .. Len(tracker)
    BY <1>5, EmptySeq DEF Order
  <2> QED  BY <1>4, <1>5, <2>1, AppendProperties DEF Order
<1> QED  BY <1>2, <1>3, <1>6, <1>7, <1>8, <1>9 DEF IInv

LEMMA LineHandled ==
  ASSUME IInv, NEW g \in Servers, NEW kind, Handling(g, kind), NextLine(g)
  PROVE  /\ Head(rx[g]) \in Line /\ Head(rx[g]) = rx[g][1] /\ Head(rx[g]).kind = kind
         /\ rx' \in [Servers -> Seq(Line)]
<1>1. rx \in [Servers -> Seq(Line)]
  BY DEF IInv, WellWired
<1>2. rx[g] \in Seq(Line) /\ rx[g] # <<>>
  BY <1>1 DEF Handling
<1>3. Head(rx[g]) \in Line /\ Tail(rx[g]) \in Seq(Line)
  BY <1>2, HeadTailProperties
<1>4. rx' \in [Servers -> Seq(Line)]
  BY <1>1, <1>3 DEF NextLine
<1> QED  BY <1>2, <1>3, <1>4 DEF Handling

LEMMA ExecutedStep ==
  ASSUME IInv, NEW g \in Servers, HandleExecuted(g)
  PROVE  IInv'
<1> DEFINE s == Head(tracker)
           line == Head(rx[g])
<1>1. line \in Line /\ rx' \in [Servers -> Seq(Line)]
  BY LineHandled DEF HandleExecuted
<1>2. UNCHANGED <<linked, up, queue, tracker, tx>>
  BY DEF HandleExecuted
<1>3. WellWired(rx', tx')
  BY <1>1, <1>2 DEF IInv, WellWired
<1>4. CASE IsWaitedFor(line.command)
  <2>1. tracker # <<>> /\ s \in Sessions /\ s = tracker[1]
    BY <1>4, TrackedFacts DEF IsWaitedFor, IInv
  <2>2. processing' = processing \cup {s} /\ view' = [view EXCEPT ![s] = Told(view[s], line)]
    BY <1>4 DEF HandleExecuted
  <2>3. WellViews(view')
    <3> HIDE DEF s, line
    <3>1. WellTold(view[s])
      BY <2>1 DEF IInv, WellViews
    <3>2. WellTold(Told(view[s], line))
      BY <1>1, <3>1, ToldWell
    <3> QED  BY <2>1, <2>2, <3>2, OneView DEF IInv
  <2> HIDE DEF s, line
  <2> QED  BY <1>2, <1>3, <2>1, <2>2, <2>3 DEF IInv
<1>5. CASE ~IsWaitedFor(line.command)
  <2>1. UNCHANGED <<processing, view>>
    BY <1>5 DEF HandleExecuted
  <2> HIDE DEF s, line
  <2> QED  BY <1>2, <1>3, <2>1 DEF IInv
<1> QED  BY <1>4, <1>5

LEMMA PassFacts ==
  ASSUME IInv, NEW g \in Servers, NEW line \in Line
  PROVE  WellViews(Pass(g, line))
<1>1. \A s \in Sessions : WellTold(view[s]) /\ WellTold(Told(view[s], line))
  BY ToldWell DEF IInv, WellViews
<1>2. \A s \in Sessions : WellTold(Pass(g, line)[s])
  BY <1>1 DEF Pass
<1>3. Pass(g, line) = [s \in Sessions |-> Pass(g, line)[s]]
  BY DEF Pass
<1>4. \A s \in Sessions : Pass(g, line)[s] \in View
  BY <1>2 DEF WellTold
<1> QED  BY <1>2, <1>3, <1>4 DEF WellViews

LEMMA ResponseStep ==
  ASSUME IInv, NEW g \in Servers, HandleResponse(g)
  PROVE  IInv'
<1>1. Head(rx[g]) \in Line /\ rx' \in [Servers -> Seq(Line)]
  BY LineHandled DEF HandleResponse
<1>2. UNCHANGED <<linked, up, queue, processing, tracker, tx>>
  BY DEF HandleResponse, relay
<1>3. WellWired(rx', tx')
  BY <1>1, <1>2 DEF IInv, WellWired
<1>4. WellViews(view')
  BY <1>1, PassFacts DEF HandleResponse
<1> QED  BY <1>2, <1>3, <1>4 DEF IInv

\* Of the sessions of a server at most the one at the front is told of a
\* response, and it has a command that waits.
LEMMA ReceiversFacts ==
  ASSUME IInv, NEW g \in Servers, NEW s \in Receivers(g)
  PROVE  /\ s \in Sessions /\ s[1] = g /\ tracker # <<>> /\ tracker[1] = s /\ Head(tracker) = s
         /\ Receivers(g) = {s} /\ processing = {s}
         /\ queue[s] # <<>> /\ 1 \in Real(queue[s]) /\ s \in up
<1>1. s \in processing /\ s[1] = g /\ \A r \in processing : r = tracker[1]
  BY DEF Receivers, IInv
<1>2. processing = {s}
  BY <1>1
<1>3. Receivers(g) = {s}
  BY <1>1, <1>2 DEF Receivers
<1>4. s \in Sessions /\ tracker # <<>> /\ tracker[1] = s
  BY <1>1, <1>2 DEF IInv
<1>5. queue[s] # <<>> /\ 1 \in Real(queue[s]) /\ Head(tracker) = s
  BY <1>4, TrackedFacts DEF IInv
<1>6. s \in up
  BY <1>4, <1>5 DEF IInv
<1> QED  BY <1>1, <1>2, <1>3, <1>4, <1>5, <1>6

\* What HandleDone does, said with the operators above.
LEMMA DoneEffect ==
  ASSUME IInv, NEW g \in Servers, HandleDone(g), NEW s \in Receivers(g)
  PROVE  LET fakes == FakesOf(Tail(queue[s]))
             passed == Pass(g, Head(rx[g]))
         IN  /\ queue' = Popped(queue, s, Len(fakes)) /\ FakesBehind(queue[s], Len(fakes))
             /\ tracker' = Tail(tracker) /\ processing' = {}
             /\ view' = [r \in Sessions |-> IF r = s THEN FakedAll(passed[s], fakes) ELSE passed[r]]
<1> DEFINE fakes(r) == FakesOf(Tail(queue[r]))
           passed == Pass(g, Head(rx[g]))
           popped == {r \in Receivers(g) : queue[r] # <<>>}
<1>1. /\ s \in Sessions /\ Receivers(g) = {s} /\ processing = {s} /\ queue[s] # <<>> /\ s \in up
  BY ReceiversFacts
<1>2. popped = {s} /\ popped \cap up = {s}
  BY <1>1
<1>3. /\ queue' = [r \in Sessions |->
                     IF r \in popped THEN SubSeq(queue[r], Len(fakes(r)) + 2, Len(queue[r]))
                                     ELSE queue[r]]
      /\ view' = [r \in Sessions |->
                    IF r \in popped \cap up THEN FakedAll(passed[r], fakes(r)) ELSE passed[r]]
      /\ tracker' = IF popped = {} THEN tracker ELSE Tail(tracker)
      /\ processing' = processing \ Receivers(g)
  BY DEF HandleDone, DoneTracked
<1> HIDE DEF popped, passed, fakes
<1>4. queue \in Queues
  BY DEF IInv, Sound
<1>5. queue' = Popped(queue, s, Len(fakes(s)))
  <2>1. queue' = [r \in Sessions |-> IF r = s THEN SubSeq(queue[s], Len(fakes(s)) + 2, Len(queue[s]))
                                               ELSE queue[r]]
    BY <1>2, <1>3
  <2> DEFINE e == SubSeq(queue[s], Len(fakes(s)) + 2, Len(queue[s]))
  <2>2. Popped(queue, s, Len(fakes(s))) = [queue EXCEPT ![s] = e]
    BY DEF Popped
  <2> HIDE DEF e
  <2>3. [queue EXCEPT ![s] = e] = [r \in Sessions |-> IF r = s THEN e ELSE queue[r]]
    BY <1>1, <1>4 DEF Queues
  <2> QED  BY <2>1, <2>2, <2>3 DEF e
<1>6. FakesBehind(queue[s], Len(fakes(s)))
  BY <1>1, <1>4, DoneFakes DEF fakes, Queues
<1>7. tracker' = Tail(tracker) /\ processing' = {}
  BY <1>1, <1>2, <1>3
<1>8. view' = [r \in Sessions |-> IF r = s THEN FakedAll(passed[s], fakes(s)) ELSE passed[r]]
  BY <1>2, <1>3
<1> QED  BY <1>5, <1>6, <1>7, <1>8 DEF fakes, passed

LEMMA DoneIgnored ==
  ASSUME IInv, NEW g \in Servers, HandleDone(g), Receivers(g) = {}
  PROVE  UNCHANGED <<linked, up, queue, processing, tracker, tx, view>>
<1>1. Pass(g, Head(rx[g])) = view
  BY DEF Pass, IInv, WellViews
<1>2. queue = [r \in Sessions |-> queue[r]] /\ view = [r \in Sessions |-> view[r]]
  BY DEF IInv, WellViews, Sound, Queues
<1>3. queue' = queue /\ view' = view /\ tracker' = tracker /\ processing' = processing
  BY <1>1, <1>2 DEF HandleDone, DoneTracked
<1> QED  BY <1>3 DEF HandleDone, DoneTracked

LEMMA DoneStep ==
  ASSUME IInv, NEW g \in Servers, HandleDone(g)
  PROVE  IInv'
<1>1. Head(rx[g]) \in Line /\ rx' \in [Servers -> Seq(Line)]
  BY LineHandled DEF HandleDone, DoneTracked
<1>2. UNCHANGED <<linked, up, tx>>
  BY DEF HandleDone, DoneTracked
<1>3. WellWired(rx', tx')
  BY <1>1, <1>2 DEF IInv, WellWired
<1>4. CASE Receivers(g) = {}
  BY <1>3, <1>4, DoneIgnored DEF IInv
<1>5. ASSUME NEW s \in Receivers(g) PROVE IInv'
  <2> DEFINE fakes == FakesOf(Tail(queue[s]))
             passed == Pass(g, Head(rx[g]))
             n == Len(fakes)
  <2>1. /\ queue' = Popped(queue, s, n) /\ FakesBehind(queue[s], n)
        /\ tracker' = Tail(tracker) /\ processing' = {}
        /\ view' = [r \in Sessions |-> IF r = s THEN FakedAll(passed[s], fakes) ELSE passed[r]]
    BY <1>5, DoneEffect
  <2>2. s \in Sessions /\ tracker # <<>> /\ tracker[1] = s /\ queue[s] # <<>> /\ s \in up
    BY ReceiversFacts
  <2>3. queue \in Queues /\ tracker \in Order /\ FirstIsReal(queue)
    BY DEF IInv, Sound
  <2>4. fakes \in Seq(UpstreamCommand)
    BY <2>2, <2>3, DoneFakes DEF Queues
  <2>5. WellViews(passed)
    BY <1>1, PassFacts
  <2> HIDE DEF fakes, passed, n
  <2>6. WellViews(view')
    <3>1. \A r \in Sessions : WellTold(view'[r])
      BY <2>1, <2>2, <2>4, <2>5, FakedAllWell DEF WellViews
    <3>2. view' = [r \in Sessions |-> view'[r]]
      BY <2>1
    <3> QED  BY <3>1, <3>2 DEF WellViews, WellTold
  <2>7. Sound(queue', tracker')
    <3>1. PICK p : Fits(p, tracker, queue)
      BY DEF IInv, Sound
    <3>2. Fits(Shift(p, tracker, s, n), tracker', queue')
      BY <2>1, <2>2, <2>3, <3>1, FitsPopped
    <3>3. tracker' \in Order /\ queue' \in Queues /\ FirstIsReal(queue')
      BY <2>1, <2>2, <2>3, FirstIsRealPopped, PoppedFacts, HeadTailProperties DEF Order
    <3> QED  BY <3>2, <3>3 DEF Sound
  <2>8. \A r \in Sessions \ {s} : queue'[r] = queue[r]
    BY <2>1, <2>2, <2>3, PoppedFacts
  <2> QED  BY <1>2, <1>3, <2>1, <2>2, <2>6, <2>7, <2>8 DEF IInv
<1> QED  BY <1>4, <1>5

LEMMA IdleFacts == WellTold(Idle) /\ Idle.told = Nothing
BY DEF WellTold, Idle, View

LEMMA UpstreamLostStep ==
  ASSUME IInv, ~LosesPending, NEW s \in Sessions, UpstreamLost(s)
  PROVE  IInv' /\ tracker' = tracker /\ queue[s] = <<>>
<1>1. queue[s] = <<>> /\ up' = up \ {s} /\ UNCHANGED <<linked, queue, processing, tx, rx>>
  BY DEF UpstreamLost, wire
<1>2. tracker' = tracker
  BY <1>1, ForgetsNobody DEF UpstreamLost
<1>3. WellViews(view')
  BY IdleFacts, OneView DEF UpstreamLost, IInv
<1>4. IInv'
  BY <1>1, <1>2, <1>3 DEF IInv
<1> QED  BY <1>1, <1>2, <1>4

LEMMA ServerLostStep ==
  ASSUME IInv, ~LosesPending, NEW g \in Servers, ServerLost(g)
  PROVE  /\ IInv' /\ queue' = queue /\ tracker' = tracker /\ processing' = processing
         /\ \A s \in {g} \X Upstreams : queue[s] = <<>>
<1> DEFINE gone == {g} \X Upstreams
<1>1. \A s \in gone : s \in Sessions /\ queue[s] = <<>>
  BY DEF ServerLost, Sessions
<1>2. /\ linked' = linked \ {g} /\ up' = up \ gone /\ processing' = processing \ gone
      /\ tracker' = Forgotten(gone)
      /\ queue' = [s \in Sessions |-> IF s \in gone THEN <<>> ELSE queue[s]]
      /\ view' = [s \in Sessions |-> IF s \in gone THEN Idle ELSE view[s]]
      /\ tx' = [tx EXCEPT ![g] = <<>>] /\ rx' = [rx EXCEPT ![g] = <<>>]
  BY DEF ServerLost
<1> HIDE DEF gone
<1>3. tracker' = tracker
  BY <1>1, <1>2, ForgetsNobody
<1>4. queue' = queue
  <2>1. queue = [s \in Sessions |-> queue[s]]
    BY DEF IInv, Sound, Queues
  <2> QED  BY <1>1, <1>2, <2>1
<1>5. processing' = processing
  <2>1. \A s \in processing : s \notin gone
    <3> SUFFICES ASSUME NEW s \in processing, s \in gone PROVE FALSE
      OBVIOUS
    <3>1. tracker # <<>> /\ tracker[1] = s
      BY DEF IInv
    <3>2. queue[s] # <<>>
      BY <3>1, TrackedFacts DEF IInv
    <3> QED  BY <1>1, <3>2
  <2> QED  BY <1>2, <2>1
<1>6. WellViews(view')
  <2>1. \A s \in Sessions : WellTold(view'[s])
    BY <1>2, IdleFacts DEF IInv, WellViews
  <2>2. view' = [s \in Sessions |-> view'[s]]
    BY <1>2
  <2> QED  BY <2>1, <2>2 DEF WellViews, WellTold
<1>7. WellWired(rx', tx')
  BY <1>2 DEF IInv, WellWired
<1>8. IInv'
  BY <1>1, <1>2, <1>3, <1>4, <1>5, <1>6, <1>7 DEF IInv
<1> QED  BY <1>1, <1>3, <1>4, <1>5, <1>8 DEF gone

LEMMA UpstreamConnectsStep ==
  ASSUME IInv, NEW s \in Sessions, UpstreamConnects(s)
  PROVE  IInv'
BY DEF UpstreamConnects, relay, wire, IInv

LEMMA FullyConnectedStep ==
  ASSUME IInv, NEW g \in Servers, ServerFullyConnected(g)
  PROVE  IInv'
<1>1. {g} \X Upstreams \subseteq Sessions
  BY DEF Sessions
<1>2. PICK ss \in SUBSET ({g} \X Upstreams) : up' = up \cup ss
  BY DEF ServerFullyConnected
<1>3. linked' = linked \cup {g}
      /\ UNCHANGED <<queue, processing, tracker, tx, rx, view>>
  BY DEF ServerFullyConnected, relay, wire
<1> QED  BY <1>1, <1>2, <1>3 DEF IInv

LEMMA BotAsksStep ==
  ASSUME IInv, NEW g \in Servers, NEW c \in Commands, BotAsks(g, c)
  PROVE  IInv'
<1>1. WellWired(rx', tx')
  BY TxFacts DEF BotAsks, IInv, WellWired
<1>2. UNCHANGED <<linked, up, queue, processing, tracker, view>>
  BY DEF BotAsks, relay
<1> QED  BY <1>1, <1>2 DEF IInv

LEMMA AnswerFacts ==
  ASSUME IInv, NEW g \in Servers, GameAnswers(g)
  PROVE  /\ Head(tx[g]) \in Commands /\ Head(tx[g]) = tx[g][1] /\ tx[g] # <<>>
         /\ WellWired(rx', tx')
<1> DEFINE c == Head(tx[g])
           lines == <<Executed(c), Response(c), Done(c)>>
<1>1. tx \in [Servers -> Seq(Commands)] /\ rx \in [Servers -> Seq(Line)] /\ tx[g] # <<>>
  BY DEF IInv, WellWired, GameAnswers
<1>2. c \in Commands /\ Tail(tx[g]) \in Seq(Commands) /\ c = tx[g][1]
  <2>1. tx[g] \in Seq(Commands)
    BY <1>1
  <2> QED  BY <1>1, <2>1, HeadTailProperties
<1>3. lines \in Seq(Line)
  BY <1>2, LineFacts
<1>4. rx[g] \o lines \in Seq(Line)
  BY <1>1, <1>3, ConcatProperties
<1>5. tx' = [tx EXCEPT ![g] = Tail(tx[g])] /\ rx' = [rx EXCEPT ![g] = rx[g] \o lines]
  BY DEF GameAnswers
<1> HIDE DEF c, lines
<1>6. WellWired(rx', tx')
  BY <1>1, <1>2, <1>4, <1>5 DEF WellWired
<1> QED  BY <1>1, <1>2, <1>6 DEF c

LEMMA GameAnswersStep ==
  ASSUME IInv, NEW g \in Servers, GameAnswers(g)
  PROVE  IInv'
<1>1. UNCHANGED <<linked, up, queue, processing, tracker, view>>
  BY DEF GameAnswers, relay
<1> QED  BY <1>1, AnswerFacts DEF IInv

LEMMA NextIInv ==
  ASSUME ~LosesPending
  PROVE  IInv /\ [Next]_vars => IInv'
<1> SUFFICES ASSUME IInv, [Next]_vars PROVE IInv'
  OBVIOUS
<1>1. ASSUME NEW s \in Sessions, UpstreamLost(s) PROVE IInv'
  BY <1>1, UpstreamLostStep
<1>2. ASSUME NEW s \in Sessions, UpstreamConnects(s) PROVE IInv'
  BY <1>2, UpstreamConnectsStep
<1>3. ASSUME NEW s \in Sessions, NEW c \in Commands, AskFake(s, c) PROVE IInv'
  BY <1>3, AskFakeStep
<1>4. ASSUME NEW s \in Sessions, NEW c \in Commands, AskReal(s, c) PROVE IInv'
  BY <1>4, AskRealStep
<1>5. ASSUME NEW g \in Servers, HandleExecuted(g) PROVE IInv'
  BY <1>5, ExecutedStep
<1>6. ASSUME NEW g \in Servers, HandleResponse(g) PROVE IInv'
  BY <1>6, ResponseStep
<1>7. ASSUME NEW g \in Servers, HandleDone(g) PROVE IInv'
  BY <1>7, DoneStep
<1>8. ASSUME NEW g \in Servers, ServerLost(g) PROVE IInv'
  BY <1>8, ServerLostStep
<1>9. ASSUME NEW g \in Servers, ServerFullyConnected(g) PROVE IInv'
  BY <1>9, FullyConnectedStep
<1>10. ASSUME NEW g \in Servers, GameAnswers(g) PROVE IInv'
  BY <1>10, GameAnswersStep
<1>11. ASSUME NEW g \in Servers, NEW c \in Commands, BotAsks(g, c) PROVE IInv'
  BY <1>11, BotAsksStep
<1>12. CASE UNCHANGED vars
  BY <1>12 DEF vars, relay, wire, IInv
<1> HIDE DEF IInv
<1> QED
  BY <1>1, <1>2, <1>3, <1>4, <1>5, <1>6, <1>7, <1>8, <1>9, <1>10, <1>11, <1>12 DEF Next

LEMMA IInvIsSound == IInv => QueuesSound
<1> SUFFICES ASSUME IInv PROVE QueuesSound
  OBVIOUS
<1>1. TypeOK
  BY DEF IInv, WellWired, WellViews, Sound, Queues, Order, TypeOK
<1>2. FrontIsQueued
  <2> SUFFICES ASSUME tracker # <<>>
               PROVE  \E i \in DOMAIN queue[Head(tracker)] : ~queue[Head(tracker)][i].isFake
    BY DEF FrontIsQueued
  <2>1. Head(tracker) \in Sessions /\ 1 \in Real(queue[Head(tracker)])
    BY TrackedFacts DEF IInv
  <2>2. DOMAIN queue[Head(tracker)] = 1 .. Len(queue[Head(tracker)])
    BY <2>1 DEF IInv, Sound, Queues
  <2> QED  BY <2>1, <2>2 DEF Real
<1>3. DoneIsTheFront
  BY ReceiversFacts DEF DoneIsTheFront
<1> QED  BY <1>1, <1>2, <1>3 DEF QueuesSound

\* The queues and the tracker agree at all times, with any number of servers.
THEOREM Inductive ==
  ASSUME ~LosesPending
  PROVE  Spec => []IInv
<1> QED  BY InitIInv, NextIInv, PTL DEF Spec

\* Everything has its type, the command RenX_OnRaw compares with the one executed
\* is there, and the assertion of process_renx_message holds: with any number of
\* game servers and upstreams, whoever asks, connects or is lost in whatever order,
\* as long as no upstream is lost while the game has its commands.
THEOREM QueuesStaySound ==
  ASSUME ~LosesPending
  PROVE  Spec => []QueuesSound
<1> QED  BY Inductive, IInvIsSound, PTL

----------------------------------------------------------------------------
(***************************************************************************)
(* The lines that will come, in order: those that wait to be handled, and  *)
(* the first of those the game server will make of what is on its way.     *)
(***************************************************************************)
LineAt(r, x, k) == IF k <= Len(r) THEN r[k] ELSE Executed(x[k - Len(r)])
Stream(r, x) == 1 .. Len(r) + Len(x)

LEMMA LineAtTail ==
  ASSUME NEW r \in Seq(Line), r # <<>>, NEW x \in Seq(Commands),
         NEW k \in Stream(r, x), k # 1
  PROVE  k - 1 \in Stream(Tail(r), x) /\ LineAt(Tail(r), x, k - 1) = LineAt(r, x, k)
<1> DEFINE u == Tail(r)
           n == Len(r)
<1>1. Len(u) = n - 1 /\ n \in Nat /\ n > 0 /\ Len(x) \in Nat /\ \A i \in 1 .. n - 1 : u[i] = r[i + 1]
  BY HeadTailProperties, EmptySeq
<1> HIDE DEF u, n
<1>2. k \in Nat /\ k > 1 /\ k <= n + Len(x)
  BY <1>1 DEF Stream, n
<1>3. k - 1 \in 1 .. Len(u) + Len(x)
  BY <1>1, <1>2
<1>4. CASE k <= n
  <2>1. k - 1 <= Len(u) /\ k - 1 \in 1 .. n - 1 /\ (k - 1) + 1 = k
    BY <1>1, <1>2, <1>4
  <2> QED  BY <1>1, <1>3, <1>4, <2>1 DEF LineAt, Stream, u, n
<1>5. CASE ~(k <= n)
  <2>1. ~(k - 1 <= Len(u)) /\ (k - 1) - Len(u) = k - n
    BY <1>1, <1>2, <1>5
  <2> QED  BY <1>3, <1>5, <2>1 DEF LineAt, Stream, u, n
<1> QED  BY <1>4, <1>5

LEMMA LineAtAsked ==
  ASSUME NEW r \in Seq(Line), NEW x \in Seq(Commands), NEW c \in Commands
  PROVE  /\ \A k \in Stream(r, x) : /\ k \in Stream(r, Append(x, c)) /\ k < Len(r) + Len(x) + 1
                                    /\ LineAt(r, Append(x, c), k) = LineAt(r, x, k)
         /\ Len(r) + Len(x) + 1 \in Stream(r, Append(x, c))
         /\ LineAt(r, Append(x, c), Len(r) + Len(x) + 1) = Executed(c)
<1> DEFINE y == Append(x, c)
           n == Len(r)
           m == Len(x)
<1>1. /\ n \in Nat /\ m \in Nat /\ Len(y) = m + 1 /\ y[m + 1] = c
      /\ \A i \in 1 .. m : y[i] = x[i]
  BY AppendProperties
<1> HIDE DEF y, n, m
<1>2. ASSUME NEW k \in 1 .. n + m
      PROVE  /\ k \in 1 .. n + Len(y) /\ k < n + m + 1
             /\ LineAt(r, y, k) = LineAt(r, x, k)
  <2>1. k \in 1 .. n + Len(y) /\ k < n + m + 1
    BY <1>1
  <2>2. CASE k <= n
    BY <2>1, <2>2 DEF LineAt, n
  <2>3. CASE ~(k <= n)
    <3>1. k - n \in 1 .. m
      BY <1>1, <2>3
    <3> QED  BY <1>1, <2>1, <2>3, <3>1 DEF LineAt, n
  <2> QED  BY <2>2, <2>3, <2>1
<1>3. n + m + 1 \in 1 .. n + Len(y)
  BY <1>1
<1>4. LineAt(r, y, n + m + 1) = Executed(c)
  <2>1. ~(n + m + 1 <= n) /\ n + m + 1 - n = m + 1
    BY <1>1
  <2> QED  BY <1>1, <2>1 DEF LineAt, n
<1> QED  BY <1>2, <1>3, <1>4 DEF Stream, y, n, m

Answered(r, c) == r \o <<Executed(c), Response(c), Done(c)>>

LEMMA AnsweredFacts ==
  ASSUME NEW r \in Seq(Line), NEW c \in Commands
  PROVE  /\ Answered(r, c) \in Seq(Line) /\ Len(Answered(r, c)) = Len(r) + 3 /\ Len(r) \in Nat
         /\ \A k \in 1 .. Len(r) : Answered(r, c)[k] = r[k]
         /\ Answered(r, c)[Len(r) + 1] = Executed(c)
         /\ Answered(r, c)[Len(r) + 2] = Response(c)
         /\ Answered(r, c)[Len(r) + 3] = Done(c)
<1> DEFINE l == <<Executed(c), Response(c), Done(c)>>
           n == Len(r)
<1>1. l \in Seq(Line) /\ Len(l) = 3 /\ l[1] = Executed(c) /\ l[2] = Response(c) /\ l[3] = Done(c)
  BY LineFacts
<1>2. Answered(r, c) = r \o l /\ n \in Nat
  BY DEF Answered
<1> HIDE DEF l
<1>3. /\ r \o l \in Seq(Line)
      /\ Len(r \o l) = n + 3
      /\ \A i \in 1 .. n + 3 : (r \o l)[i] = IF i <= n THEN r[i] ELSE l[i - n]
  <2>1. /\ r \o l \in Seq(Line)
        /\ Len(r \o l) = Len(r) + Len(l)
        /\ \A i \in 1 .. Len(r) + Len(l) : (r \o l)[i] = IF i <= Len(r) THEN r[i] ELSE l[i - Len(r)]
    BY <1>1, ConcatProperties
  <2> QED  BY <1>1, <2>1
<1> HIDE DEF n
<1>4. n + 1 \in 1 .. n + 3 /\ n + 2 \in 1 .. n + 3 /\ n + 3 \in 1 .. n + 3
      /\ ~(n + 1 <= n) /\ ~(n + 2 <= n) /\ ~(n + 3 <= n)
      /\ n + 1 - n = 1 /\ n + 2 - n = 2 /\ n + 3 - n = 3
  BY <1>2
<1>5. \A k \in 1 .. n : k \in 1 .. n + 3 /\ k <= n
  BY <1>2
<1>6. /\ Answered(r, c)[n + 1] = Executed(c)
      /\ Answered(r, c)[n + 2] = Response(c)
      /\ Answered(r, c)[n + 3] = Done(c)
  <2> DEFINE a == r \o l
  <2>1. a = Answered(r, c)
    BY <1>2
  <2>2. \A i \in 1 .. n + 3 : a[i] = IF i <= n THEN r[i] ELSE l[i - n]
    BY <1>3
  <2> HIDE DEF a
  <2>3. a[n + 1] = l[1] /\ a[n + 2] = l[2] /\ a[n + 3] = l[3]
    <3> DEFINE F(i) == IF i <= n THEN r[i] ELSE l[i - n]
               D == 1 .. n + 3
    <3>0. n \in Nat
      BY <1>2
    <3>1. F(n + 1) = l[1] /\ F(n + 2) = l[2] /\ F(n + 3) = l[3]
      BY <1>4, <3>0
    <3>2. \A i \in D : a[i] = F(i)
      BY <2>2
    <3>3. n + 1 \in D /\ n + 2 \in D /\ n + 3 \in D
      BY <1>4
    <3> HIDE DEF F, D
    <3> QED  BY <3>1, <3>2, <3>3
  <2> QED  BY <1>1, <2>1, <2>3
<1>7. \A k \in 1 .. n : Answered(r, c)[k] = r[k]
  BY <1>2, <1>3, <1>5
<1> QED  BY <1>2, <1>3, <1>6, <1>7 DEF n

LEMMA LineAtAnswered ==
  ASSUME NEW r \in Seq(Line), NEW x \in Seq(Commands), x # <<>>, NEW k \in Stream(r, x)
  PROVE  LET j == IF k <= Len(r) + 1 THEN k ELSE k + 2
         IN  /\ j \in Stream(Answered(r, x[1]), Tail(x))
             /\ LineAt(Answered(r, x[1]), Tail(x), j) = LineAt(r, x, k)
<1> DEFINE n == Len(r)
           m == Len(x)
           a == Answered(r, x[1])
           y == Tail(x)
<1>1. /\ n \in Nat /\ m \in Nat /\ m > 0 /\ Len(y) = m - 1 /\ x[1] \in Commands
      /\ \A i \in 1 .. m - 1 : y[i] = x[i + 1]
  BY HeadTailProperties, EmptySeq
<1>2. /\ Len(a) = n + 3
      /\ \A i \in 1 .. n : a[i] = r[i]
      /\ a[n + 1] = Executed(x[1])
  BY <1>1, AnsweredFacts
<1> HIDE DEF a, y, n, m
<1>3. k \in 1 .. n + m
  BY DEF Stream, n, m
<1>4. CASE k <= n
  <2>1. k \in 1 .. n /\ k <= n + 1 /\ k <= n + 3 /\ k \in 1 .. (n + 3) + (m - 1)
    BY <1>1, <1>3, <1>4
  <2> QED  BY <1>1, <1>2, <1>4, <2>1 DEF LineAt, Stream, a, y, n, m
<1>5. CASE k = n + 1
  <2>1. k <= n + 1 /\ k <= n + 3 /\ k \in 1 .. (n + 3) + (m - 1) /\ ~(k <= n) /\ k - n = 1
    BY <1>1, <1>5
  <2> QED  BY <1>1, <1>2, <1>5, <2>1 DEF LineAt, Stream, a, y, n, m
<1>6. CASE k > n + 1
  <2>1. /\ ~(k <= n + 1) /\ ~(k + 2 <= n + 3) /\ k + 2 \in 1 .. (n + 3) + (m - 1) /\ ~(k <= n)
        /\ k + 2 - (n + 3) \in 1 .. m - 1 /\ (k + 2 - (n + 3)) + 1 = k - n
    BY <1>1, <1>3, <1>6
  <2>2. y[k + 2 - (n + 3)] = x[k - n]
    BY <1>1, <2>1
  <2> QED  BY <1>1, <1>2, <2>1, <2>2 DEF LineAt, Stream, a, y, n, m
<1> QED  BY <1>1, <1>3, <1>4, <1>5, <1>6

\* The i-th entry of the tracker waits for this command; the line that says it
\* is executed is the e[i]-th to come, or was the last one handled.
Awaited(i, p, t, q) == q[t[i]][p[i]].command

Follows(e, p, t, q, ss, r, x) ==
  /\ e \in [1 .. Len(t) -> Nat]
  /\ \A i, j \in 1 .. Len(t) : i < j => e[i] < e[j]
  /\ \A i \in 1 .. Len(t) :
       IF i = 1 /\ t[1] \in ss THEN e[i] = 0
       ELSE e[i] \in Stream(r, x) /\ LineAt(r, x, e[i]) = Executed(Awaited(i, p, t, q))

LEMMA AwaitedStays ==
  ASSUME NEW q \in Queues, NEW s \in Sessions, NEW u \in UpstreamCommand,
         NEW p, NEW t \in Order, Fits(p, t, q), NEW i \in 1 .. Len(t)
  PROVE  Awaited(i, p, t, Enqueued(q, s, u)) = Awaited(i, p, t, q)
<1>1. t[i] \in Sessions /\ p[i] \in 1 .. Len(q[t[i]])
  BY DEF Fits, Real
<1>2. CASE t[i] = s
  BY <1>1, <1>2, EnqueuedFacts DEF Awaited
<1>3. CASE t[i] # s
  BY <1>1, <1>3, EnqueuedFacts DEF Awaited
<1> QED  BY <1>2, <1>3

LEMMA FollowsFake ==
  ASSUME NEW q \in Queues, NEW s \in Sessions, NEW u \in UpstreamCommand,
         NEW p, NEW t \in Order, Fits(p, t, q), NEW e, NEW ss, NEW r, NEW x,
         Follows(e, p, t, q, ss, r, x)
  PROVE  Follows(e, p, t, Enqueued(q, s, u), ss, r, x)
<1>1. \A i \in 1 .. Len(t) : Awaited(i, p, t, Enqueued(q, s, u)) = Awaited(i, p, t, q)
  BY AwaitedStays
<1> QED  BY <1>1 DEF Follows

LEMMA FollowsReal ==
  ASSUME NEW q \in Queues, NEW s \in Sessions, NEW u \in UpstreamCommand,
         NEW p, NEW t \in Order, Fits(p, t, q), NEW e, NEW ss,
         NEW r \in Seq(Line), NEW x \in Seq(Commands), t = <<>> => ss = {},
         Follows(e, p, t, q, ss, r, x)
  PROVE  Follows(Longer(e, Len(t), Len(r) + Len(x) + 1), Longer(p, Len(t), Len(q[s]) + 1),
                 Append(t, s), Enqueued(q, s, u), ss, r, Append(x, u.command))
<1> DEFINE n == Len(t)
           m == Len(q[s])
           l == Len(r) + Len(x) + 1
           t2 == Append(t, s)
           q2 == Enqueued(q, s, u)
           x2 == Append(x, u.command)
           e2 == Longer(e, n, l)
           p2 == Longer(p, n, m + 1)
<1>1. /\ t2 \in Order /\ Len(t2) = n + 1 /\ n \in Nat /\ t2[n + 1] = s
      /\ \A i \in 1 .. n : t2[i] = t[i]
  BY AppendProperties DEF Order
<1>2. l \in Nat /\ m \in Nat
  BY EnqueuedFacts
<1>3. /\ e \in [1 .. n -> Nat]
      /\ \A i, j \in 1 .. n : i < j => e[i] < e[j]
      /\ \A i \in 1 .. n :
           IF i = 1 /\ t[1] \in ss THEN e[i] = 0
           ELSE e[i] \in Stream(r, x) /\ LineAt(r, x, e[i]) = Executed(Awaited(i, p, t, q))
  BY DEF Follows
<1>4. /\ e2 \in [1 .. n + 1 -> Nat] /\ e2[n + 1] = l
      /\ \A i \in 1 .. n : e2[i] = e[i]
  BY <1>1, <1>2, <1>3 DEF Longer
<1>5. /\ p2[n + 1] = m + 1 /\ \A i \in 1 .. n : p2[i] = p[i]
  BY <1>1, <1>2 DEF Longer
<1>6. u.command \in Commands
  BY DEF UpstreamCommand
<1>7. /\ \A k \in Stream(r, x) : k \in Stream(r, x2) /\ k < l /\ LineAt(r, x2, k) = LineAt(r, x, k)
      /\ l \in Stream(r, x2) /\ LineAt(r, x2, l) = Executed(u.command)
  BY <1>6, LineAtAsked
<1>8. \A i \in 1 .. n : Awaited(i, p2, t2, q2) = Awaited(i, p, t, q)
  <2> TAKE i \in 1 .. n
  <2>1. Awaited(i, p, t, q2) = Awaited(i, p, t, q)
    BY AwaitedStays
  <2>2. t2[i] = t[i] /\ p2[i] = p[i]
    BY <1>1, <1>5
  <2> HIDE DEF t2, p2, q2
  <2> QED  BY <2>1, <2>2 DEF Awaited
<1>9. Awaited(n + 1, p2, t2, q2) = u.command
  <2>1. q2[s][m + 1] = u
    BY EnqueuedFacts
  <2> HIDE DEF t2, p2, q2, m, n
  <2> QED  BY <1>1, <1>5, <2>1 DEF Awaited
<1>10. 1 .. n + 1 = (1 .. n) \cup {n + 1} /\ n + 1 \notin 1 .. n
  BY <1>1
<1>11. n + 1 = 1 => ss = {}
  BY <1>1, EmptySeq DEF Order
<1>12. 1 \in 1 .. n \/ n + 1 = 1
  BY <1>1
<1> HIDE DEF n, m, l, t2, q2, x2, e2, p2
<1>13. \A i \in 1 .. n : i < n + 1 /\ e[i] \in Nat
  BY <1>1, <1>3
<1>14. \A i \in 1 .. n : e[i] < l
  <2> TAKE i \in 1 .. n
  <2>1. CASE i = 1 /\ t[1] \in ss
    <3>1. e[i] = 0 /\ l # 0
      BY <1>3, <1>7, <2>1 DEF Stream
    <3> QED  BY <1>2, <3>1
  <2>2. CASE ~(i = 1 /\ t[1] \in ss)
    BY <1>3, <1>7, <2>2
  <2> QED  BY <2>1, <2>2
<1>15. ASSUME NEW i \in 1 .. n + 1, NEW j \in 1 .. n + 1, i < j PROVE e2[i] < e2[j]
  <2>1. i \in 1 .. n
    BY <1>1, <1>15
  <2>2. CASE j = n + 1
    BY <1>4, <1>14, <2>1, <2>2
  <2>3. CASE j \in 1 .. n
    BY <1>3, <1>4, <1>15, <2>1, <2>3
  <2> QED  BY <1>10, <2>2, <2>3
<1>16. t2[1] \in ss => 1 \in 1 .. n /\ t2[1] = t[1]
  BY <1>1, <1>11, <1>12
<1>17. ASSUME NEW i \in 1 .. n + 1
       PROVE  IF i = 1 /\ t2[1] \in ss THEN e2[i] = 0
              ELSE e2[i] \in Stream(r, x2) /\ LineAt(r, x2, e2[i]) = Executed(Awaited(i, p2, t2, q2))
  <2>1. CASE i \in 1 .. n
    <3>1. i = 1 => t2[1] = t[1]
      BY <1>1, <2>1
    <3>2. e2[i] = e[i] /\ Awaited(i, p2, t2, q2) = Awaited(i, p, t, q)
      BY <1>4, <1>8, <2>1
    <3> QED  BY <1>3, <1>7, <2>1, <3>1, <3>2
  <2>2. CASE i = n + 1
    <3>1. ~(i = 1 /\ t2[1] \in ss)
      BY <1>10, <1>16, <2>2
    <3> QED  BY <1>4, <1>7, <1>9, <2>2, <3>1
  <2> QED  BY <1>10, <2>1, <2>2
<1>18. Follows(e2, p2, t2, q2, ss, r, x2)
  <2> DEFINE D == 1 .. Len(t2)
  <2>1. D = 1 .. n + 1
    BY <1>1
  <2> HIDE DEF D
  <2>2. e2 \in [D -> Nat]
    BY <1>4, <2>1
  <2>3. \A i, j \in D : i < j => e2[i] < e2[j]
    BY <1>15, <2>1
  <2>4. \A i \in D : IF i = 1 /\ t2[1] \in ss THEN e2[i] = 0
              ELSE e2[i] \in Stream(r, x2) /\ LineAt(r, x2, e2[i]) = Executed(Awaited(i, p2, t2, q2))
    BY <1>17, <2>1
  <2> QED  BY <2>2, <2>3, <2>4 DEF Follows, D
<1> QED  BY <1>18 DEF n, m, l, t2, q2, x2, e2, p2

\* The first line is handled, and starts the response to nobody's command.
Less(e, t) == [i \in 1 .. Len(t) |-> IF e[i] = 0 THEN 0 ELSE e[i] - 1]

LEMMA FollowsTail ==
  ASSUME NEW q, NEW p, NEW t \in Order, NEW e, NEW ss,
         NEW r \in Seq(Line), r # <<>>, NEW x \in Seq(Commands),
         Follows(e, p, t, q, ss, r, x), \A i \in 1 .. Len(t) : e[i] # 1
  PROVE  Follows(Less(e, t), p, t, q, ss, Tail(r), x)
<1> DEFINE n == Len(t)
           h == Less(e, t)
<1>1. /\ e \in [1 .. n -> Nat]
      /\ \A i, j \in 1 .. n : i < j => e[i] < e[j]
      /\ \A i \in 1 .. n :
           IF i = 1 /\ t[1] \in ss THEN e[i] = 0
           ELSE e[i] \in Stream(r, x) /\ LineAt(r, x, e[i]) = Executed(Awaited(i, p, t, q))
  BY DEF Follows
<1>2. /\ \A i \in 1 .. n : h[i] = IF e[i] = 0 THEN 0 ELSE e[i] - 1
      /\ h = [i \in 1 .. n |-> h[i]]
  BY DEF Less
<1>3. \A k \in Stream(r, x) : k \in Nat \ {0}
  <2>1. Len(r) \in Nat /\ Len(x) \in Nat
    OBVIOUS
  <2> QED  BY <2>1 DEF Stream
<1> HIDE DEF n, h
<1>4. h \in [1 .. n -> Nat]
  <2>1. \A i \in 1 .. n : h[i] \in Nat
    BY <1>1, <1>2
  <2> QED  BY <1>2, <2>1
<1>5. \A i \in 1 .. n : e[i] \in Nat /\ e[i] # 1
  BY <1>1 DEF n
<1>6. \A i, j \in 1 .. n : i < j => h[i] < h[j]
  <2> SUFFICES ASSUME NEW i \in 1 .. n, NEW j \in 1 .. n, i < j PROVE h[i] < h[j]
    OBVIOUS
  <2>1. e[i] < e[j]
    BY <1>1
  <2> QED  BY <1>2, <1>5, <2>1
<1>7. \A i \in 1 .. n :
        IF i = 1 /\ t[1] \in ss THEN h[i] = 0
        ELSE h[i] \in Stream(Tail(r), x) /\ LineAt(Tail(r), x, h[i]) = Executed(Awaited(i, p, t, q))
  <2> TAKE i \in 1 .. n
  <2>1. CASE i = 1 /\ t[1] \in ss
    BY <1>1, <1>2, <2>1
  <2>2. CASE ~(i = 1 /\ t[1] \in ss)
    <3>1. e[i] \in Stream(r, x) /\ LineAt(r, x, e[i]) = Executed(Awaited(i, p, t, q))
      BY <1>1, <2>2
    <3>2. h[i] = e[i] - 1 /\ e[i] # 1
      BY <1>2, <1>3, <1>5, <3>1
    <3> QED  BY <2>2, <3>1, <3>2, LineAtTail
  <2> QED  BY <2>1, <2>2
<1> QED  BY <1>4, <1>6, <1>7 DEF Follows, n, h

\* The first line starts the response to the command of the session in front.
Taken(e, t) == [i \in 1 .. Len(t) |-> IF i = 1 THEN 0 ELSE e[i] - 1]

LEMMA FollowsTaken ==
  ASSUME NEW q, NEW p, NEW t \in Order, t # <<>>, NEW e, NEW ss, t[1] \notin ss,
         NEW r \in Seq(Line), r # <<>>, NEW x \in Seq(Commands),
         Follows(e, p, t, q, ss, r, x)
  PROVE  Follows(Taken(e, t), p, t, q, ss \cup {t[1]}, Tail(r), x)
<1> DEFINE n == Len(t)
           h == Taken(e, t)
<1>1. /\ e \in [1 .. n -> Nat]
      /\ \A i, j \in 1 .. n : i < j => e[i] < e[j]
      /\ \A i \in 1 .. n : e[i] \in Stream(r, x) /\ LineAt(r, x, e[i]) = Executed(Awaited(i, p, t, q))
  BY DEF Follows
<1>2. /\ \A i \in 1 .. n : h[i] = IF i = 1 THEN 0 ELSE e[i] - 1
      /\ h = [i \in 1 .. n |-> h[i]]
  BY DEF Taken
<1>3. \A k \in Stream(r, x) : k \in Nat \ {0}
  <2>1. Len(r) \in Nat /\ Len(x) \in Nat
    OBVIOUS
  <2> QED  BY <2>1 DEF Stream
<1>0. 1 \in 1 .. n /\ n \in Nat
  BY EmptySeq DEF Order
<1> HIDE DEF n, h
<1>4. \A i \in 1 .. n : e[i] \in Nat \ {0} /\ (i # 1 => e[i] # 1)
  <2> TAKE i \in 1 .. n
  <2>1. e[i] \in Nat \ {0} /\ e[1] \in Nat \ {0}
    BY <1>0, <1>1, <1>3
  <2>2. i # 1 => e[1] < e[i]
    BY <1>0, <1>1
  <2> QED  BY <2>1, <2>2
<1>5. h \in [1 .. n -> Nat]
  <2>1. \A i \in 1 .. n : h[i] \in Nat
    BY <1>2, <1>4
  <2> QED  BY <1>2, <2>1
<1>6. \A i, j \in 1 .. n : i < j => h[i] < h[j]
  <2> SUFFICES ASSUME NEW i \in 1 .. n, NEW j \in 1 .. n, i < j PROVE h[i] < h[j]
    OBVIOUS
  <2>1. e[i] < e[j] /\ j # 1
    BY <1>0, <1>1
  <2> QED  BY <1>2, <1>4, <2>1
<1>7. \A i \in 1 .. n :
        IF i = 1 /\ t[1] \in ss \cup {t[1]} THEN h[i] = 0
        ELSE h[i] \in Stream(Tail(r), x) /\ LineAt(Tail(r), x, h[i]) = Executed(Awaited(i, p, t, q))
  <2> TAKE i \in 1 .. n
  <2>1. CASE i = 1
    BY <1>2, <2>1
  <2>2. CASE i # 1
    <3>1. e[i] \in Stream(r, x) /\ LineAt(r, x, e[i]) = Executed(Awaited(i, p, t, q))
      BY <1>1
    <3>2. h[i] = e[i] - 1 /\ e[i] # 1
      BY <1>2, <1>4, <2>2
    <3> QED  BY <2>2, <3>1, <3>2, LineAtTail
  <2> QED  BY <2>1, <2>2
<1> QED  BY <1>5, <1>6, <1>7 DEF Follows, n, h

\* The first line is the last of the response to the session in front.
Finished(e, t) == [i \in 1 .. Len(t) - 1 |-> e[i + 1] - 1]

LEMMA FollowsDone ==
  ASSUME NEW q \in Queues, NEW s \in Sessions, NEW n, FakesBehind(q[s], n), FirstIsReal(q),
         NEW p, NEW t \in Order, t # <<>>, t[1] = s, Fits(p, t, q), NEW e,
         NEW r \in Seq(Line), r # <<>>, r[1].kind = "done", NEW x \in Seq(Commands),
         Follows(e, p, t, q, {s}, r, x)
  PROVE  Follows(Finished(e, t), Shift(p, t, s, n), Tail(t), Popped(q, s, n), {}, Tail(r), x)
<1> DEFINE m == Len(t)
           u == Tail(t)
           h == Finished(e, t)
           f == Shift(p, t, s, n)
           q2 == Popped(q, s, n)
<1>1. /\ u \in Order /\ m \in Nat /\ m > 0 /\ Len(u) = m - 1
      /\ \A i \in 1 .. m - 1 : u[i] = t[i + 1]
  BY HeadTailProperties, EmptySeq DEF Order
<1>2. /\ e \in [1 .. m -> Nat]
      /\ \A i, j \in 1 .. m : i < j => e[i] < e[j]
      /\ \A i \in 1 .. m :
           i # 1 => e[i] \in Stream(r, x) /\ LineAt(r, x, e[i]) = Executed(Awaited(i, p, t, q))
  BY DEF Follows
<1>3. \A i \in 1 .. m - 1 : /\ f[i] = IF t[i + 1] = s THEN p[i + 1] - n - 1 ELSE p[i + 1]
                            /\ h[i] = e[i + 1] - 1
  BY DEF Shift, Finished
<1>4. h = [i \in 1 .. m - 1 |-> h[i]]
  BY DEF Finished
<1>5. \A i \in 1 .. m : t[i] \in Sessions /\ p[i] \in 1 .. Len(q[t[i]])
  BY DEF Fits, Real
<1>6. \A i \in 1 .. m : i # 1 /\ t[i] = s => p[i] >= n + 2
  <2> TAKE i \in 1 .. m
  <2>1. i # 1 => i \in 2 .. Len(t)
    BY <1>1
  <2> QED  BY <2>1, FitsPopped
<1>7. /\ \A k \in Sessions \ {s} : q2[k] = q[k]
      /\ Len(q[s]) \in Nat /\ n \in Nat
      /\ \A k \in 1 .. Len(q[s]) - n - 1 : q2[s][k] = q[s][k + n + 1]
  BY PoppedFacts
<1>8. LineAt(r, x, 1).kind = "done"
  <2>1. 1 <= Len(r)
    BY EmptySeq
  <2> QED  BY <2>1 DEF LineAt
<1>9. \A k \in Stream(r, x) : k \in Nat \ {0}
  <2>1. Len(r) \in Nat /\ Len(x) \in Nat
    OBVIOUS
  <2> QED  BY <2>1 DEF Stream
<1> HIDE DEF m, u, h, f, q2
<1>10. \A i \in 1 .. m - 1 : i + 1 \in 1 .. m /\ i + 1 # 1
  BY <1>1
<1>11. ASSUME NEW i \in 1 .. m - 1
       PROVE  Awaited(i, f, u, q2) = Awaited(i + 1, p, t, q)
  <2>1. i + 1 \in 1 .. m /\ i + 1 # 1 /\ u[i] = t[i + 1] /\ t[i + 1] \in Sessions
        /\ p[i + 1] \in 1 .. Len(q[t[i + 1]])
    BY <1>1, <1>5, <1>10
  <2>2. CASE t[i + 1] = s
    <3>1. f[i] = p[i + 1] - n - 1 /\ p[i + 1] >= n + 2
      BY <1>3, <1>6, <2>1, <2>2
    <3>2. f[i] \in 1 .. Len(q[s]) - n - 1 /\ f[i] + n + 1 = p[i + 1]
      <4> DEFINE k == p[i + 1]
                 l == Len(q[s])
                 v == f[i]
      <4>1. k \in 1 .. l /\ l \in Nat /\ n \in Nat /\ v = k - n - 1 /\ k >= n + 2
        BY <1>7, <2>1, <2>2, <3>1
      <4> HIDE DEF k, l, v
      <4>2. v \in 1 .. l - n - 1 /\ v + n + 1 = k
        BY ONLY <4>1
      <4> QED  BY <4>2 DEF k, l, v
    <3>3. q2[s][f[i]] = q[s][p[i + 1]]
      BY <1>7, <3>2
    <3> QED  BY <2>1, <2>2, <3>3 DEF Awaited
  <2>3. CASE t[i + 1] # s
    BY <1>3, <1>7, <2>1, <2>3 DEF Awaited
  <2> QED  BY <2>2, <2>3
<1>12. ASSUME NEW i \in 1 .. m - 1
       PROVE  /\ e[i + 1] \in Stream(r, x) /\ e[i + 1] # 1 /\ e[i + 1] \in Nat \ {0}
              /\ h[i] \in Stream(Tail(r), x)
              /\ LineAt(Tail(r), x, h[i]) = Executed(Awaited(i, f, u, q2))
  <2>1. e[i + 1] \in Stream(r, x) /\ LineAt(r, x, e[i + 1]) = Executed(Awaited(i, f, u, q2))
    BY <1>2, <1>10, <1>11
  <2>2. e[i + 1] # 1
    <3>1. Executed(Awaited(i, f, u, q2)).kind # "done"
      BY DEF Executed
    <3> QED  BY <1>8, <2>1, <3>1
  <2> QED  BY <1>3, <1>9, <2>1, <2>2, LineAtTail
<1>13. h \in [1 .. m - 1 -> Nat]
  <2>1. \A i \in 1 .. m - 1 : h[i] \in Nat
    BY <1>3, <1>12
  <2> QED  BY <1>4, <2>1
<1>14. \A i, j \in 1 .. m - 1 : i < j => h[i] < h[j]
  <2> SUFFICES ASSUME NEW i \in 1 .. m - 1, NEW j \in 1 .. m - 1, i < j PROVE h[i] < h[j]
    OBVIOUS
  <2>1. e[i + 1] < e[j + 1]
    <3>1. i + 1 < j + 1
      BY <1>1
    <3> QED  BY <1>2, <1>10, <3>1
  <2> QED  BY <1>3, <1>12, <2>1
<1>15. Follows(h, f, u, q2, {}, Tail(r), x)
  <2> DEFINE D == 1 .. Len(u)
  <2>1. D = 1 .. m - 1
    BY <1>1
  <2> HIDE DEF D
  <2>2. h \in [D -> Nat]
    BY <1>13, <2>1
  <2>3. \A i, j \in D : i < j => h[i] < h[j]
    BY <1>14, <2>1
  <2>4. \A i \in D : h[i] \in Stream(Tail(r), x)
                     /\ LineAt(Tail(r), x, h[i]) = Executed(Awaited(i, f, u, q2))
    BY <1>12, <2>1
  <2> QED  BY <2>2, <2>3, <2>4 DEF Follows, D
<1> QED  BY <1>15 DEF u, h, f, q2

LEMMA FollowsBot ==
  ASSUME NEW q, NEW p, NEW t, NEW e, NEW ss, NEW r \in Seq(Line), NEW x \in Seq(Commands),
         NEW c \in Commands, Follows(e, p, t, q, ss, r, x)
  PROVE  Follows(e, p, t, q, ss, r, Append(x, c))
<1>1. \A k \in Stream(r, x) : /\ k \in Stream(r, Append(x, c))
                              /\ LineAt(r, Append(x, c), k) = LineAt(r, x, k)
  BY LineAtAsked
<1> QED  BY <1>1 DEF Follows

\* The game server answers the next command: three lines take its place.
Moved(e, t, n) == [i \in 1 .. Len(t) |-> IF e[i] <= n + 1 THEN e[i] ELSE e[i] + 2]

LEMMA FollowsAnswered ==
  ASSUME NEW q, NEW p, NEW t, NEW e, NEW ss, NEW r \in Seq(Line), NEW x \in Seq(Commands),
         x # <<>>, Follows(e, p, t, q, ss, r, x)
  PROVE  Follows(Moved(e, t, Len(r)), p, t, q, ss, Answered(r, x[1]), Tail(x))
<1> DEFINE n == Len(r)
           D == 1 .. Len(t)
           h == Moved(e, t, n)
<1>1. /\ e \in [D -> Nat]
      /\ \A i, j \in D : i < j => e[i] < e[j]
      /\ \A i \in D :
           IF i = 1 /\ t[1] \in ss THEN e[i] = 0
           ELSE e[i] \in Stream(r, x) /\ LineAt(r, x, e[i]) = Executed(Awaited(i, p, t, q))
  BY DEF Follows
<1>2. /\ \A i \in D : h[i] = IF e[i] <= n + 1 THEN e[i] ELSE e[i] + 2
      /\ h = [i \in D |-> h[i]] /\ n \in Nat
  BY DEF Moved
<1> HIDE DEF D, h
<1>3. \A i \in D : e[i] \in Nat
  BY <1>1
<1>4. h \in [D -> Nat]
  <2>1. \A i \in D : h[i] \in Nat
    BY <1>2, <1>3
  <2> QED  BY <1>2, <2>1
<1>5. \A i, j \in D : i < j => h[i] < h[j]
  BY <1>1, <1>2, <1>3
<1>6. \A i \in D :
        IF i = 1 /\ t[1] \in ss THEN h[i] = 0
        ELSE /\ h[i] \in Stream(Answered(r, x[1]), Tail(x))
             /\ LineAt(Answered(r, x[1]), Tail(x), h[i]) = Executed(Awaited(i, p, t, q))
  <2> TAKE i \in D
  <2>1. CASE i = 1 /\ t[1] \in ss
    BY <1>1, <1>2, <2>1
  <2>2. CASE ~(i = 1 /\ t[1] \in ss)
    <3>1. e[i] \in Stream(r, x) /\ LineAt(r, x, e[i]) = Executed(Awaited(i, p, t, q))
      BY <1>1, <2>2
    <3>2. h[i] = IF e[i] <= Len(r) + 1 THEN e[i] ELSE e[i] + 2
      BY <1>2
    <3>3. /\ h[i] \in Stream(Answered(r, x[1]), Tail(x))
          /\ LineAt(Answered(r, x[1]), Tail(x), h[i]) = LineAt(r, x, e[i])
      BY <3>1, <3>2, LineAtAnswered
    <3> QED  BY <2>2, <3>1, <3>3
  <2> QED  BY <2>1, <2>2
<1> QED  BY <1>4, <1>5, <1>6 DEF Follows, D, h

----------------------------------------------------------------------------
(***************************************************************************)
(* The game server's lines, and what the upstreams make of them            *)
(***************************************************************************)
\* Each command is executed, answered and done before the next.
InGroups(r) ==
  \A k \in 1 .. Len(r) :
    /\ r[k].kind = "executed" => k < Len(r) /\ r[k + 1] = Response(r[k].command)
    /\ r[k].kind = "response" => k < Len(r) /\ r[k + 1] = Done(r[k].command)
    /\ r[k].kind = "done" /\ k < Len(r) => r[k + 1].kind = "executed"

LEMMA InGroupsTail ==
  ASSUME NEW r \in Seq(Line), r # <<>>, InGroups(r)
  PROVE  /\ InGroups(Tail(r))
         /\ r[1].kind = "executed" => Tail(r) # <<>> /\ Tail(r)[1] = Response(r[1].command)
         /\ r[1].kind = "response" => Tail(r) # <<>> /\ Tail(r)[1] = Done(r[1].command)
<1> DEFINE n == Len(r)
           u == Tail(r)
<1>1. /\ u \in Seq(Line) /\ n \in Nat /\ n > 0 /\ Len(u) = n - 1
      /\ \A k \in 1 .. n - 1 : u[k] = r[k + 1]
  BY HeadTailProperties, EmptySeq
<1>2. \A k \in 1 .. n :
        /\ r[k].kind = "executed" => k < n /\ r[k + 1] = Response(r[k].command)
        /\ r[k].kind = "response" => k < n /\ r[k + 1] = Done(r[k].command)
        /\ r[k].kind = "done" /\ k < n => r[k + 1].kind = "executed"
  BY DEF InGroups
<1>3. u = <<>> => n = 1
  BY <1>1
<1> HIDE DEF n, u
<1>4. ASSUME NEW k \in 1 .. n - 1
      PROVE  /\ u[k].kind = "executed" => k < n - 1 /\ u[k + 1] = Response(u[k].command)
             /\ u[k].kind = "response" => k < n - 1 /\ u[k + 1] = Done(u[k].command)
             /\ u[k].kind = "done" /\ k < n - 1 => u[k + 1].kind = "executed"
  <2>1. k + 1 \in 1 .. n /\ u[k] = r[k + 1] /\ (k + 1 < n => k < n - 1)
        /\ (k < n - 1 => k + 1 < n)
    BY <1>1
  <2>2. k < n - 1 => k + 1 \in 1 .. n - 1
    BY <1>1
  <2>3. k < n - 1 => u[k + 1] = r[(k + 1) + 1]
    BY <1>1, <2>2
  <2> QED  BY <1>2, <2>1, <2>3
<1>5. InGroups(u)
  BY <1>1, <1>4 DEF InGroups
<1>6. ASSUME r[1].kind \in {"executed", "response"} PROVE u # <<>> /\ u[1] = r[2]
  <2>1. 1 \in 1 .. n
    BY <1>1
  <2>2. 1 < n
    BY <1>2, <1>6, <2>1
  <2>3. 1 \in 1 .. n - 1 /\ n # 1 /\ 1 + 1 = 2
    BY <1>1, <2>2
  <2> QED  BY <1>1, <1>3, <2>3
<1>7. 1 \in 1 .. n /\ 1 + 1 = 2
  BY <1>1
<1>8. /\ r[1].kind = "executed" => r[2] = Response(r[1].command)
      /\ r[1].kind = "response" => r[2] = Done(r[1].command)
  BY <1>2, <1>7
<1> QED  BY <1>5, <1>6, <1>8 DEF u

LEMMA InGroupsAnswered ==
  ASSUME NEW r \in Seq(Line), InGroups(r), NEW c \in Commands
  PROVE  InGroups(Answered(r, c))
<1> DEFINE n == Len(r)
           a == Answered(r, c)
<1>1. /\ a \in Seq(Line) /\ Len(a) = n + 3 /\ n \in Nat
      /\ \A k \in 1 .. n : a[k] = r[k]
      /\ a[n + 1] = Executed(c) /\ a[n + 2] = Response(c) /\ a[n + 3] = Done(c)
  BY AnsweredFacts
<1>2. \A k \in 1 .. n :
        /\ r[k].kind = "executed" => k < n /\ r[k + 1] = Response(r[k].command)
        /\ r[k].kind = "response" => k < n /\ r[k + 1] = Done(r[k].command)
        /\ r[k].kind = "done" /\ k < n => r[k + 1].kind = "executed"
  BY DEF InGroups
<1>3. \A k \in 1 .. n : r[k] \in Line
  BY ElementOfSeq
<1> HIDE DEF a, n
<1> DEFINE G(k) == /\ a[k].kind = "executed" => k < n + 3 /\ a[k + 1] = Response(a[k].command)
                   /\ a[k].kind = "response" => k < n + 3 /\ a[k + 1] = Done(a[k].command)
                   /\ a[k].kind = "done" /\ k < n + 3 => a[k + 1].kind = "executed"
<1>4. ASSUME NEW k \in 1 .. n, k < n PROVE G(k)
  <2>1. k + 1 \in 1 .. n /\ k < n + 3
    BY <1>1, <1>4
  <2> QED  BY <1>1, <1>2, <2>1
<1>5. ASSUME n \in 1 .. n PROVE G(n)
  <2>1. a[n] = r[n] /\ ~(n < n) /\ r[n] \in Line
    BY <1>1, <1>3, <1>5
  <2>2. r[n].kind = "done"
    BY <1>2, <1>5, <2>1 DEF Line
  <2>3. Executed(c).kind = "executed"
    BY DEF Executed
  <2> QED  BY <1>1, <2>1, <2>2, <2>3
<1>6. G(n + 1)
  <2>1. n + 1 < n + 3 /\ (n + 1) + 1 = n + 2
    BY <1>1
  <2> QED  BY <1>1, <2>1 DEF Executed
<1>7. G(n + 2)
  <2>1. n + 2 < n + 3 /\ (n + 2) + 1 = n + 3
    BY <1>1
  <2> QED  BY <1>1, <2>1 DEF Response
<1>8. G(n + 3)
  <2>1. ~(n + 3 < n + 3)
    BY <1>1
  <2> QED  BY <1>1, <2>1 DEF Done
<1>9. \A k \in 1 .. n + 3 : (k \in 1 .. n /\ k < n) \/ (k = n /\ n \in 1 .. n) \/ k = n + 1 \/ k = n + 2 \/ k = n + 3
  BY <1>1
<1>10. \A k \in 1 .. n + 3 : G(k)
  <2> HIDE DEF G
  <2> QED  BY <1>4, <1>5, <1>6, <1>7, <1>8, <1>9
<1>11. InGroups(a)
  BY <1>1, <1>10 DEF InGroups
<1> QED  BY <1>11 DEF a

----------------------------------------------------------------------------
\* What an upstream knows, given the commands in its queue.
Waits(v, q, isTold) ==
  /\ v \in View /\ ~v.confused
  /\ v.told = IF isTold THEN q[1].command ELSE Nothing
  /\ Len(v.asked) = Len(q)
  /\ \A k \in 1 .. Len(q) : v.asked[k] = q[k].command

LEMMA ToldExecuted ==
  ASSUME NEW v, NEW q \in Seq(UpstreamCommand), q # <<>>, Waits(v, q, FALSE)
  PROVE  Waits(Told(v, Executed(q[1].command)), q, TRUE)
<1> DEFINE c == q[1].command
           A == Seq(Commands)
           T == Commands \cup {Nothing}
<1>1. q[1] \in UpstreamCommand /\ 1 \in 1 .. Len(q)
  BY EmptySeq, ElementOfSeq
<1>2. c \in T /\ c \in Commands
  BY <1>1 DEF UpstreamCommand
<1>3. View = [asked : A, told : T, confused : BOOLEAN]
  BY DEF View
<1>4. /\ v \in View /\ ~v.confused /\ v.told = Nothing
      /\ Len(v.asked) = Len(q) /\ \A k \in 1 .. Len(q) : v.asked[k] = q[k].command
  BY DEF Waits
<1>5. v.asked # <<>> /\ Head(v.asked) = c
  BY <1>1, <1>4
<1> HIDE DEF c, A, T
<1>6. Told(v, Executed(c)) = [v EXCEPT !.told = c]
  BY <1>4, <1>5 DEF Told, Expects, Executed
<1>7. /\ Told(v, Executed(c)) \in View /\ Told(v, Executed(c)).told = c
      /\ Told(v, Executed(c)).asked = v.asked /\ Told(v, Executed(c)).confused = v.confused
  BY <1>2, <1>3, <1>4, <1>6
<1> QED  BY <1>4, <1>7 DEF Waits, c

LEMMA ToldResponse ==
  ASSUME NEW v, NEW q, Waits(v, q, TRUE)
  PROVE  Told(v, Response(q[1].command)) = v
BY DEF Told, Expects, Response, Waits

LEMMA ToldDone ==
  ASSUME NEW v, NEW q \in Seq(UpstreamCommand), q # <<>>, Waits(v, q, TRUE)
  PROVE  Waits(Told(v, Done(q[1].command)), Tail(q), FALSE)
<1> DEFINE c == q[1].command
           A == Seq(Commands)
           T == Commands \cup {Nothing}
           w == Told(v, Done(c))
<1>1. /\ v \in View /\ ~v.confused /\ v.told = c
      /\ Len(v.asked) = Len(q) /\ \A k \in 1 .. Len(q) : v.asked[k] = q[k].command
  BY DEF Waits
<1>2. View = [asked : A, told : T, confused : BOOLEAN]
  BY DEF View
<1>3. /\ Len(q) \in Nat \ {0} /\ Len(Tail(q)) = Len(q) - 1
      /\ \A k \in 1 .. Len(q) - 1 : Tail(q)[k] = q[k + 1]
  BY HeadTailProperties, EmptySeq
<1>4. v.asked \in A /\ v.asked # <<>>
  BY <1>1, <1>3 DEF View
<1>5. /\ Tail(v.asked) \in A /\ Len(Tail(v.asked)) = Len(q) - 1
      /\ \A k \in 1 .. Len(q) - 1 : Tail(v.asked)[k] = v.asked[k + 1]
  BY <1>1, <1>4, HeadTailProperties
<1> HIDE DEF c, A, T, w
<1>6. w = [v EXCEPT !.told = Nothing, !.asked = Tail(v.asked)]
  BY <1>1 DEF Told, Expects, Done, w
<1>7. w \in View /\ w.told = Nothing /\ w.asked = Tail(v.asked) /\ w.confused = v.confused
  BY <1>1, <1>2, <1>5, <1>6 DEF T
<1>8. \A k \in 1 .. Len(q) - 1 : w.asked[k] = Tail(q)[k].command
  <2> TAKE k \in 1 .. Len(q) - 1
  <2>1. k + 1 \in 1 .. Len(q)
    BY <1>3
  <2> QED  BY <1>1, <1>3, <1>5, <1>7, <2>1
<1>9. Waits(w, Tail(q), FALSE)
  BY <1>1, <1>3, <1>5, <1>7, <1>8 DEF Waits
<1> QED  BY <1>9 DEF w, c

LEMMA FakedFront ==
  ASSUME NEW v, NEW q \in Seq(UpstreamCommand), q # <<>>, Waits(v, q, FALSE)
  PROVE  Waits(Faked(v, q[1].command), Tail(q), FALSE)
BY ToldExecuted, ToldDone DEF Faked

\* The answers that are made up are told of one after the other.
LEMMA FakedAllFront ==
  ASSUME NEW v, NEW q \in Seq(UpstreamCommand), Waits(v, q, FALSE),
         NEW cs \in Seq(UpstreamCommand), Len(cs) <= Len(q),
         \A i \in 1 .. Len(cs) : cs[i] = q[i]
  PROVE  Waits(FakedAll(v, cs), SubSeq(q, Len(cs) + 1, Len(q)), FALSE)
<1>1. PICK f : /\ f = [n \in 0 .. Len(cs) |-> IF n = 0 THEN v ELSE Faked(f[n - 1], cs[n].command)]
               /\ FakedAll(v, cs) = f[Len(cs)]
  BY FakedAllRecursion
<1> DEFINE m == Len(q)
           Rest(n) == SubSeq(q, n + 1, m)
           P(n) == Waits(f[n], Rest(n), FALSE)
           T == {n \in Nat : n <= Len(cs) => P(n)}
<1>2. m \in Nat /\ Len(cs) \in Nat
  OBVIOUS
<1>3. 0 \in T
  <2>1. Rest(0) = q
    BY SubSeqFull
  <2>2. f[0] = v
    BY <1>1, <1>2
  <2> HIDE DEF Rest
  <2>3. P(0)
    BY <2>1, <2>2
  <2> QED  BY <2>3
<1>4. \A n \in T : n + 1 \in T
  <2> HIDE DEF P
  <2> SUFFICES ASSUME NEW n \in T, n + 1 <= Len(cs) PROVE P(n + 1)
    OBVIOUS
  <2>1. n \in Nat /\ n <= Len(cs) /\ n + 1 \in 1 .. Len(cs)
    BY <1>2
  <2>2. P(n)
    BY <2>1
  <2>3. n + 1 \in 1 .. m /\ m \in n + 1 .. m
    BY <1>2, <2>1
  <2>4. Head(Rest(n)) = q[n + 1] /\ Tail(Rest(n)) = Rest(n + 1)
    <3>1. Head(SubSeq(q, n + 1, m)) = q[n + 1] /\ Tail(SubSeq(q, n + 1, m)) = SubSeq(q, (n + 1) + 1, m)
      BY <2>3, HeadTailOfSubSeq
    <3> QED  BY <3>1
  <2>5. Rest(n) \in Seq(UpstreamCommand) /\ Rest(n) # <<>>
    <3>1. \A i \in n + 1 .. m : q[i] \in UpstreamCommand
      BY <1>2, <2>1, ElementOfSeq
    <3>2. /\ SubSeq(q, n + 1, m) \in Seq(UpstreamCommand)
          /\ Len(SubSeq(q, n + 1, m)) = IF n + 1 <= m THEN m - (n + 1) + 1 ELSE 0
      <4>1. n + 1 \in Int /\ m \in Int
        BY <1>2, <2>1
      <4> QED  BY <3>1, <4>1, SubSeqProperties
    <3>3. Len(SubSeq(q, n + 1, m)) # 0
      BY <1>2, <2>1, <2>3, <3>2
    <3> QED  BY <3>2, <3>3
  <2>6. Rest(n)[1] = cs[n + 1]
    <3>1. cs[n + 1] = q[n + 1]
      BY <2>1
    <3> HIDE DEF Rest
    <3> QED  BY <2>4, <2>5, <3>1
  <2>7. f[n + 1] = Faked(f[n], cs[n + 1].command)
    <3>1. n + 1 \in 0 .. Len(cs) /\ n + 1 # 0 /\ (n + 1) - 1 = n
      BY <1>2, <2>1
    <3> QED  BY <1>1, <3>1
  <2> HIDE DEF Rest
  <2> QED  BY <2>2, <2>4, <2>5, <2>6, <2>7, FakedFront DEF P
<1>5. T \in SUBSET Nat
  OBVIOUS
<1>6. Len(cs) \in T
  <2> HIDE DEF T
  <2>1. T = Nat
    BY <1>3, <1>4, <1>5, Induction
  <2> QED  BY <1>2, <2>1
<1>7. P(Len(cs))
  <2> HIDE DEF P
  <2> QED  BY <1>2, <1>6
<1> QED  BY <1>1, <1>7

LEMMA WaitsAsked ==
  ASSUME IInv, NEW s \in Sessions, NEW c \in Commands, NEW u \in UpstreamCommand,
         u.command = c, NEW b \in BOOLEAN, b => queue[s] # <<>>, Waits(view[s], queue[s], b)
  PROVE  Waits(Asking(s, c), Enqueued(queue, s, u)[s], b)
<1> DEFINE q == queue[s]
           q2 == Enqueued(queue, s, u)[s]
           w == Asking(s, c)
           v == view[s]
<1>1. queue \in Queues
  BY DEF IInv, Sound
<1>2. /\ Len(q2) = Len(q) + 1 /\ Len(q) \in Nat
      /\ \A k \in 1 .. Len(q) : q2[k] = q[k]
      /\ q2[Len(q) + 1] = u
  BY <1>1, EnqueuedFacts
<1>3. /\ w \in View
      /\ w.asked = Append(v.asked, c) /\ w.told = v.told /\ w.confused = v.confused
  BY AskFacts DEF WellTold
<1>4. /\ v \in View /\ ~v.confused
      /\ v.told = IF b THEN q[1].command ELSE Nothing
      /\ Len(v.asked) = Len(q)
      /\ \A k \in 1 .. Len(q) : v.asked[k] = q[k].command
  BY DEF Waits
<1>5. v.asked \in Seq(Commands)
  BY <1>4 DEF View
<1>6. b => 1 \in 1 .. Len(q)
  <2>1. q \in Seq(UpstreamCommand)
    BY <1>1 DEF Queues
  <2> QED  BY <2>1, EmptySeq
<1> HIDE DEF q, q2, w, v
<1>7. /\ Len(w.asked) = Len(q) + 1
      /\ \A k \in 1 .. Len(q) : w.asked[k] = v.asked[k]
      /\ w.asked[Len(q) + 1] = c
  BY <1>3, <1>4, <1>5, AppendProperties
<1>8. 1 .. Len(q) + 1 = (1 .. Len(q)) \cup {Len(q) + 1}
  BY <1>2
<1>9. \A k \in 1 .. Len(q2) : w.asked[k] = q2[k].command
  <2> DEFINE n == Len(q)
  <2>1. \A k \in 1 .. n : w.asked[k] = q2[k].command
    BY <1>2, <1>4, <1>7
  <2>2. w.asked[n + 1] = q2[n + 1].command
    BY <1>2, <1>7
  <2> HIDE DEF n
  <2>3. \A k \in (1 .. n) \cup {n + 1} : w.asked[k] = q2[k].command
    BY <2>1, <2>2
  <2> QED  BY <1>2, <1>8, <2>3 DEF n
<1>10. b => q2[1] = q[1]
  BY <1>2, <1>6
<1>11. Waits(w, q2, b)
  BY <1>2, <1>3, <1>4, <1>7, <1>9, <1>10 DEF Waits
<1> QED  BY <1>11 DEF w, q2

----------------------------------------------------------------------------
\* What the proofs below assume of the constants.
OneServer      == \A g, h \in Servers : g = h
EchoesAreWhole == \A c \in Commands : IsFake(c) => EchoOf(c) = c

Ordered(t, q, ss, r, x) == \E p, e : Fits(p, t, q) /\ Follows(e, p, t, q, ss, r, x)

\* The response that is passed on is to the first command of the session.
BeingTold(q, r) == r # <<>> /\ r[1].kind # "executed" /\ r[1].command = q[1].command

WellOrdered(t, q, ss, r, x) ==
  \A g \in Servers : InGroups(r[g]) /\ Ordered(t, q, ss, r[g], x[g])

WellInformed(vs, us, q, ss) == /\ \A s \in us : Waits(vs[s], q[s], s \in ss)
                               /\ \A s \in Sessions \ us : vs[s] = Idle

\* The tracker and the lines to come agree, and so do queues and upstreams.
OInv ==
  /\ WellOrdered(tracker, queue, processing, rx, tx)
  /\ \A s \in processing : BeingTold(queue[s], rx[s[1]])
  /\ WellInformed(view, up, queue, processing)

LEMMA ServerOf ==
  ASSUME OneServer, NEW g \in Servers, NEW s \in Sessions
  PROVE  s[1] = g /\ s \in {g} \X Upstreams
BY DEF OneServer, Sessions

LEMMA ProcessingFacts ==
  ASSUME IInv, NEW s \in processing
  PROVE  /\ s \in Sessions /\ tracker # <<>> /\ tracker[1] = s /\ Head(tracker) = s
         /\ processing = {s} /\ queue[s] # <<>> /\ s \in up
<1>1. s \in Sessions /\ s[1] \in Servers
  BY DEF IInv, Sessions
<1>2. s \in Receivers(s[1])
  BY DEF Receivers
<1> QED  BY <1>1, <1>2, ReceiversFacts

LEMMA WaitsForNothing == Waits(Idle, <<>>, FALSE)
BY DEF Waits, Idle, View

LEMMA InitOInv == Init => OInv
<1> SUFFICES ASSUME Init PROVE OInv
  OBVIOUS
<1>1. PICK p : Fits(p, tracker, queue)
  BY InitIInv DEF IInv, Sound
<1>2. /\ tracker = <<>> /\ processing = {} /\ up = {}
      /\ \A g \in Servers : rx[g] = <<>>
      /\ \A s \in Sessions : view[s] = Idle
  BY DEF Init
<1>3. \A g \in Servers : InGroups(rx[g])
  BY <1>2 DEF InGroups
<1>4. \A g \in Servers : Follows(<<>>, p, tracker, queue, processing, rx[g], tx[g])
  <2>1. 1 .. Len(tracker) = {} /\ <<>> \in [{} -> Nat]
    BY <1>2
  <2> QED  BY <2>1 DEF Follows
<1>5. WellOrdered(tracker, queue, processing, rx, tx)
  BY <1>1, <1>3, <1>4 DEF WellOrdered, Ordered
<1>6. WellInformed(view, up, queue, processing)
  <2>1. \A s \in up : Waits(view[s], queue[s], s \in processing)
    BY <1>2
  <2>2. \A s \in Sessions \ up : view[s] = Idle
    BY <1>2
  <2> QED  BY <2>1, <2>2 DEF WellInformed
<1> QED  BY <1>2, <1>5, <1>6 DEF OInv

LEMMA UpstreamLostOrder ==
  ASSUME IInv, OInv, ~LosesPending, NEW s \in Sessions, UpstreamLost(s)
  PROVE  OInv'
<1>1. tracker' = tracker
  BY UpstreamLostStep
<1>2. UNCHANGED <<queue, processing, rx, tx>> /\ up' = up \ {s} /\ view' = [view EXCEPT ![s] = Idle]
  BY DEF UpstreamLost, wire
<1>3. view \in [Sessions -> View]
  BY DEF IInv, WellViews
<1>4. WellInformed(view', up', queue, processing)
  BY <1>2, <1>3 DEF OInv, WellInformed
<1> QED  BY <1>1, <1>2, <1>4 DEF OInv

LEMMA ConnectedOrder ==
  ASSUME IInv, OInv, NEW ss, ss \subseteq Sessions, up' = up \cup ss,
         UNCHANGED <<queue, processing, tracker, tx, rx, view>>
  PROVE  OInv'
<1>1. ASSUME NEW s \in ss \ up
      PROVE  Waits(view[s], queue[s], s \in processing)
  <2>1. s \in Sessions
    OBVIOUS
  <2>2. queue[s] = <<>> /\ view[s] = Idle
    BY <2>1 DEF IInv, OInv, WellInformed
  <2>3. s \notin processing
    BY ProcessingFacts
  <2>4. (s \in processing) = FALSE
    BY <2>3
  <2> QED  BY <2>2, <2>4, WaitsForNothing
<1>2. WellInformed(view, up', queue, processing)
  BY <1>1 DEF OInv, WellInformed
<1> QED  BY <1>2 DEF OInv

LEMMA UpstreamConnectsOrder ==
  ASSUME IInv, OInv, NEW s \in Sessions, UpstreamConnects(s)
  PROVE  OInv'
<1>1. {s} \subseteq Sessions /\ up' = up \cup {s}
  BY DEF UpstreamConnects
<1>2. UNCHANGED <<queue, processing, tracker, tx, rx, view>>
  BY DEF UpstreamConnects, relay, wire
<1> QED  BY <1>1, <1>2, ConnectedOrder

LEMMA FullyConnectedOrder ==
  ASSUME IInv, OInv, NEW g \in Servers, ServerFullyConnected(g)
  PROVE  OInv'
<1>1. PICK ss \in SUBSET ({g} \X Upstreams) : up' = up \cup ss
  BY DEF ServerFullyConnected
<1>2. ss \subseteq Sessions
  BY DEF Sessions
<1>3. UNCHANGED <<queue, processing, tracker, tx, rx, view>>
  BY DEF ServerFullyConnected, relay, wire
<1> QED  BY <1>1, <1>2, <1>3, ConnectedOrder

LEMMA ServerLostOrder ==
  ASSUME OneServer, IInv, OInv, ~LosesPending, NEW g \in Servers, ServerLost(g)
  PROVE  OInv'
<1>1. /\ IInv' /\ queue' = queue /\ tracker' = tracker /\ processing' = processing
      /\ \A s \in {g} \X Upstreams : queue[s] = <<>>
  BY ServerLostStep
<1>2. \A s \in Sessions : queue[s] = <<>> /\ s \in {g} \X Upstreams
  BY <1>1, ServerOf
<1>3. tracker = <<>>
  BY <1>2, TrackedFacts DEF IInv
<1>4. processing = {}
  BY <1>3, ProcessingFacts
<1>5. \A h \in Servers : rx'[h] = <<>> /\ tx'[h] = <<>>
  BY DEF ServerLost, OneServer, IInv, WellWired
<1>6. view' = [s \in Sessions |-> Idle] /\ up' = {}
  <2>1. up' = up \ ({g} \X Upstreams)
        /\ view' = [s \in Sessions |-> IF s \in {g} \X Upstreams THEN Idle ELSE view[s]]
    BY DEF ServerLost
  <2> QED  BY <1>2, <2>1 DEF IInv
<1>7. PICK p : Fits(p, tracker, queue)
  BY DEF IInv, Sound
<1>8. Follows(<<>>, p, tracker, queue, processing, <<>>, <<>>)
  <2>1. 1 .. Len(tracker) = {} /\ <<>> \in [{} -> Nat]
    BY <1>3
  <2> QED  BY <2>1 DEF Follows
<1>9. InGroups(<<>>)
  BY DEF InGroups
<1>10. WellOrdered(tracker', queue', processing', rx', tx')
  BY <1>1, <1>5, <1>7, <1>8, <1>9 DEF WellOrdered, Ordered
<1>11. WellInformed(view', up', queue', processing')
  BY <1>6 DEF WellInformed
<1> QED  BY <1>1, <1>4, <1>10, <1>11 DEF OInv

LEMMA BotAsksOrder ==
  ASSUME IInv, OInv, NEW g \in Servers, NEW c \in Commands, BotAsks(g, c)
  PROVE  OInv'
<1>1. /\ tx' = [tx EXCEPT ![g] = Append(tx[g], c)]
      /\ UNCHANGED <<up, queue, processing, tracker, rx, view>>
  BY DEF BotAsks, relay
<1>2. rx \in [Servers -> Seq(Line)] /\ tx \in [Servers -> Seq(Commands)]
  BY DEF IInv, WellWired
<1>3. ASSUME NEW h \in Servers
      PROVE  Ordered(tracker, queue, processing, rx[h], tx'[h])
  <2>1. PICK p, e : /\ Fits(p, tracker, queue)
                    /\ Follows(e, p, tracker, queue, processing, rx[h], tx[h])
    BY DEF OInv, WellOrdered, Ordered
  <2>2. CASE h = g
    <3>1. tx'[h] = Append(tx[h], c)
      BY <1>1, <1>2, <2>2
    <3>2. rx[h] \in Seq(Line) /\ tx[h] \in Seq(Commands)
      BY <1>2
    <3>3. Follows(e, p, tracker, queue, processing, rx[h], Append(tx[h], c))
      BY <2>1, <3>2, FollowsBot
    <3> QED  BY <2>1, <3>1, <3>3 DEF Ordered
  <2>3. CASE h # g
    BY <1>1, <1>2, <2>1, <2>3 DEF Ordered
  <2> QED  BY <2>2, <2>3
<1>4. WellOrdered(tracker, queue, processing, rx, tx')
  BY <1>3 DEF OInv, WellOrdered
<1> QED  BY <1>1, <1>4 DEF OInv

LEMMA GameAnswersOrder ==
  ASSUME IInv, OInv, NEW g \in Servers, GameAnswers(g)
  PROVE  OInv'
<1>1. UNCHANGED <<up, queue, processing, tracker, view>>
  BY DEF GameAnswers, relay
<1>2. rx \in [Servers -> Seq(Line)] /\ tx \in [Servers -> Seq(Commands)]
  BY DEF IInv, WellWired
<1>3. tx[g][1] \in Commands /\ tx[g] # <<>> /\ Head(tx[g]) = tx[g][1]
  BY AnswerFacts
<1>4. /\ tx' = [tx EXCEPT ![g] = Tail(tx[g])]
      /\ rx' = [rx EXCEPT ![g] = Answered(rx[g], tx[g][1])]
  BY <1>3 DEF GameAnswers, Answered
<1>5. ASSUME NEW h \in Servers
      PROVE  InGroups(rx'[h]) /\ Ordered(tracker, queue, processing, rx'[h], tx'[h])
  <2>1. PICK p, e : /\ Fits(p, tracker, queue)
                    /\ Follows(e, p, tracker, queue, processing, rx[h], tx[h])
    BY DEF OInv, WellOrdered, Ordered
  <2>2. InGroups(rx[h])
    BY DEF OInv, WellOrdered
  <2>3. CASE h = g
    <3>1. tx'[h] = Tail(tx[h]) /\ rx'[h] = Answered(rx[h], tx[h][1])
      BY <1>2, <1>4, <2>3
    <3>2. rx[h] \in Seq(Line) /\ tx[h] \in Seq(Commands) /\ tx[h] # <<>>
      BY <1>2, <1>3, <2>3
    <3>3. Follows(Moved(e, tracker, Len(rx[h])), p, tracker, queue, processing,
                  Answered(rx[h], tx[h][1]), Tail(tx[h]))
      BY <2>1, <3>2, FollowsAnswered
    <3>4. InGroups(Answered(rx[h], tx[h][1]))
      BY <1>3, <2>2, <2>3, <3>2, InGroupsAnswered
    <3> QED  BY <2>1, <3>1, <3>3, <3>4 DEF Ordered
  <2>4. CASE h # g
    BY <1>2, <1>4, <2>1, <2>2, <2>4 DEF Ordered
  <2> QED  BY <2>3, <2>4
<1>6. WellOrdered(tracker, queue, processing, rx', tx')
  BY <1>5 DEF WellOrdered
<1>7. ASSUME NEW s \in processing PROVE BeingTold(queue[s], rx'[s[1]])
  <2>1. BeingTold(queue[s], rx[s[1]])
    BY DEF OInv
  <2>2. s[1] \in Servers
    BY DEF IInv, Sessions
  <2>3. CASE s[1] = g
    <3>1. rx'[g] = Answered(rx[g], tx[g][1]) /\ rx[g] \in Seq(Line)
      BY <1>2, <1>4
    <3>2. rx[g] # <<>> /\ 1 \in 1 .. Len(rx[g])
      BY <2>1, <2>3, <3>1, EmptySeq DEF BeingTold
    <3>3. rx'[g][1] = rx[g][1] /\ rx'[g] # <<>>
      <4>1. /\ Len(rx'[g]) = Len(rx[g]) + 3 /\ Len(rx[g]) \in Nat
            /\ rx'[g][1] = rx[g][1]
        BY <1>3, <3>1, <3>2, AnsweredFacts
      <4> QED  BY <4>1
    <3> QED  BY <2>1, <2>3, <3>3 DEF BeingTold
  <2>4. CASE s[1] # g
    BY <1>2, <1>4, <2>1, <2>2, <2>4
  <2> QED  BY <2>3, <2>4
<1> QED  BY <1>1, <1>6, <1>7 DEF OInv

LEMMA AskFakeOrder ==
  ASSUME EchoesAreWhole, IInv, OInv, NEW s \in Sessions, NEW c \in Commands, AskFake(s, c)
  PROVE  OInv'
<1>1. UNCHANGED <<up, processing, tracker, rx, tx>> /\ s \in up /\ EchoOf(c) = c
  BY DEF AskFake, wire, MayAsk, EchoesAreWhole
<1>2. queue \in Queues /\ tracker \in Order /\ view \in [Sessions -> View]
  BY DEF IInv, Sound, WellViews
<1> DEFINE u == [command |-> c, isFake |-> TRUE]
           b == s \in processing
<1>3. u \in UpstreamCommand /\ u.isFake /\ u.command = c
  BY DEF UpstreamCommand
<1>4. b \in BOOLEAN /\ (b => queue[s] # <<>>) /\ Waits(view[s], queue[s], b)
  BY <1>1, ProcessingFacts DEF OInv, WellInformed
<1> HIDE DEF u
<1>5. Waits(Asking(s, c), Enqueued(queue, s, u)[s], b)
  <2> HIDE DEF b
  <2> QED  BY <1>3, <1>4, WaitsAsked
<1>6. CASE queue[s] = <<>>
  <2>1. UNCHANGED queue /\ view' = [view EXCEPT ![s] = Faked(Asking(s, c), c)]
    BY <1>1, <1>6 DEF AskFake
  <2>2. Enqueued(queue, s, u)[s] = <<u>>
    <3>1. Append(<<>>, u) = <<u>>
      OBVIOUS
    <3> QED  BY <1>2, <1>6, <3>1 DEF Enqueued, Queues
  <2>3. ~b
    BY <1>4, <1>6
  <2>4. Waits(Faked(Asking(s, c), c), <<>>, FALSE)
    <3>0. b = FALSE
      BY <2>3
    <3> HIDE DEF b
    <3>1. Waits(Asking(s, c), <<u>>, FALSE)
      BY <1>5, <2>2, <3>0
    <3>2. <<u>> \in Seq(UpstreamCommand) /\ <<u>> # <<>> /\ <<u>>[1] = u /\ Tail(<<u>>) = <<>>
      BY <1>3
    <3> QED  BY <1>3, <3>1, <3>2, FakedFront
  <2>5. WellInformed(view', up, queue, processing)
    <3>1. \A r \in up : Waits(view'[r], queue[r], r \in processing)
      <4> TAKE r \in up
      <4>1. r \in Sessions
        BY DEF IInv
      <4>2. CASE r = s
        <5>1. view'[r] = Faked(Asking(s, c), c) /\ (r \in processing) = FALSE
          BY <1>2, <2>1, <2>3, <4>2
        <5> QED  BY <1>6, <2>4, <4>2, <5>1
      <4>3. CASE r # s
        BY <1>2, <2>1, <4>1, <4>3 DEF OInv, WellInformed
      <4> QED  BY <4>2, <4>3
    <3>2. \A r \in Sessions \ up : view'[r] = Idle
      BY <1>1, <1>2, <2>1 DEF OInv, WellInformed
    <3> QED  BY <3>1, <3>2 DEF WellInformed
  <2> QED  BY <1>1, <2>1, <2>5 DEF OInv
<1>7. CASE queue[s] # <<>>
  <2>1. queue' = Enqueued(queue, s, u) /\ view' = [view EXCEPT ![s] = Asking(s, c)]
    BY <1>1, <1>7 DEF AskFake, Enqueued, u
  <2>2. WellOrdered(tracker, queue', processing, rx, tx)
    <3> SUFFICES ASSUME NEW g \in Servers
                 PROVE  Ordered(tracker, queue', processing, rx[g], tx[g])
      BY DEF OInv, WellOrdered
    <3>1. PICK p, e : /\ Fits(p, tracker, queue)
                      /\ Follows(e, p, tracker, queue, processing, rx[g], tx[g])
      BY DEF OInv, WellOrdered, Ordered
    <3>2. Fits(p, tracker, queue')
      BY <1>2, <1>3, <2>1, <3>1, FitsFake
    <3>3. Follows(e, p, tracker, queue', processing, rx[g], tx[g])
      BY <1>2, <1>3, <2>1, <3>1, FollowsFake
    <3> QED  BY <3>2, <3>3 DEF Ordered
  <2>3. \A r \in Sessions \ {s} : queue'[r] = queue[r]
    BY <1>2, <1>3, <2>1, EnqueuedFacts
  <2>4. WellInformed(view', up, queue', processing)
    <3>1. \A r \in up : Waits(view'[r], queue'[r], r \in processing)
      <4> TAKE r \in up
      <4>1. r \in Sessions /\ Waits(view[r], queue[r], r \in processing)
        BY DEF IInv, OInv, WellInformed
      <4>2. CASE r = s
        <5>1. view'[r] = Asking(s, c)
          BY <1>2, <2>1, <4>1, <4>2
        <5> QED  BY <1>5, <2>1, <4>2, <5>1
      <4>3. CASE r # s
        <5>1. view'[r] = view[r] /\ queue'[r] = queue[r]
          BY <1>2, <2>1, <2>3, <4>1, <4>3
        <5> QED  BY <4>1, <5>1
      <4> QED  BY <4>2, <4>3
    <3>2. \A r \in Sessions \ up : view'[r] = Idle
      BY <1>1, <1>2, <2>1 DEF OInv, WellInformed
    <3> QED  BY <3>1, <3>2 DEF WellInformed
  <2>5. \A r \in processing : BeingTold(queue'[r], rx[r[1]])
    <3> TAKE r \in processing
    <3>1. r \in Sessions /\ queue[r] # <<>>
      BY ProcessingFacts
    <3>2. queue'[r][1] = queue[r][1]
      <4>1. CASE r = s
        <5>1. 1 \in 1 .. Len(queue[s])
          BY <1>2, <1>7, EmptySeq DEF Queues
        <5> QED  BY <1>2, <1>3, <2>1, <4>1, <5>1, EnqueuedFacts
      <4> QED  BY <2>3, <3>1, <4>1
    <3> QED  BY <3>2 DEF OInv, BeingTold
  <2> QED  BY <1>1, <2>2, <2>4, <2>5 DEF OInv
<1> QED  BY <1>6, <1>7

LEMMA AskRealOrder ==
  ASSUME OneServer, IInv, OInv, NEW s \in Sessions, NEW c \in Commands, AskReal(s, c)
  PROVE  OInv'
<1> DEFINE u == [command |-> c, isFake |-> FALSE]
           b == s \in processing
<1>1. u \in UpstreamCommand /\ ~u.isFake /\ u.command = c
  BY DEF UpstreamCommand
<1>2. UNCHANGED <<up, processing, rx>> /\ s \in up /\ s[1] \in Servers
  BY DEF AskReal, MayAsk, Sessions
<1>3. queue \in Queues /\ tracker \in Order /\ view \in [Sessions -> View]
      /\ rx \in [Servers -> Seq(Line)] /\ tx \in [Servers -> Seq(Commands)]
  BY DEF IInv, Sound, WellViews, WellWired
<1>4. /\ queue' = Enqueued(queue, s, u) /\ tracker' = Append(tracker, s)
      /\ view' = [view EXCEPT ![s] = Asking(s, c)]
      /\ tx' = [tx EXCEPT ![s[1]] = Append(tx[s[1]], c)]
  BY DEF AskReal, Enqueued
<1>5. b \in BOOLEAN /\ (b => queue[s] # <<>>) /\ Waits(view[s], queue[s], b)
  BY <1>2, ProcessingFacts DEF OInv, WellInformed
<1> HIDE DEF u, b
<1>6. Waits(Asking(s, c), queue'[s], b)
  BY <1>1, <1>4, <1>5, WaitsAsked
<1>7. \A r \in Sessions \ {s} : queue'[r] = queue[r]
  BY <1>1, <1>3, <1>4, EnqueuedFacts
<1>8. WellOrdered(tracker', queue', processing, rx, tx')
  <2> SUFFICES ASSUME NEW g \in Servers
               PROVE  Ordered(tracker', queue', processing, rx[g], tx'[g])
    BY DEF OInv, WellOrdered
  <2>1. PICK p, e : /\ Fits(p, tracker, queue)
                    /\ Follows(e, p, tracker, queue, processing, rx[g], tx[g])
    BY DEF OInv, WellOrdered, Ordered
  <2>2. s[1] = g
    BY ServerOf
  <2>3. tx'[g] = Append(tx[g], c) /\ rx[g] \in Seq(Line) /\ tx[g] \in Seq(Commands)
    BY <1>3, <1>4, <2>2
  <2>4. tracker = <<>> => processing = {}
    BY ProcessingFacts
  <2> DEFINE p2 == Longer(p, Len(tracker), Len(queue[s]) + 1)
             e2 == Longer(e, Len(tracker), Len(rx[g]) + Len(tx[g]) + 1)
  <2>5. Fits(p2, tracker', queue')
    BY <1>1, <1>3, <1>4, <2>1, FitsReal
  <2>6. Follows(e2, p2, tracker', queue', processing, rx[g], tx'[g])
    BY <1>1, <1>3, <1>4, <2>1, <2>3, <2>4, FollowsReal
  <2> HIDE DEF p2, e2
  <2> QED  BY <2>5, <2>6 DEF Ordered
<1>9. WellInformed(view', up, queue', processing)
  <2>1. \A r \in up : Waits(view'[r], queue'[r], r \in processing)
    <3> TAKE r \in up
    <3>1. r \in Sessions /\ Waits(view[r], queue[r], r \in processing)
      BY DEF IInv, OInv, WellInformed
    <3>2. CASE r = s
      <4>1. view'[r] = Asking(s, c)
        BY <1>3, <1>4, <3>1, <3>2
      <4> QED  BY <1>6, <3>2, <4>1 DEF b
    <3>3. CASE r # s
      <4>1. view'[r] = view[r] /\ queue'[r] = queue[r]
        BY <1>3, <1>4, <1>7, <3>1, <3>3
      <4> QED  BY <3>1, <4>1
    <3> QED  BY <3>2, <3>3
  <2>2. \A r \in Sessions \ up : view'[r] = Idle
    BY <1>2, <1>3, <1>4 DEF OInv, WellInformed
  <2> QED  BY <2>1, <2>2 DEF WellInformed
<1>10. \A r \in processing : BeingTold(queue'[r], rx[r[1]])
  <2> TAKE r \in processing
  <2>1. r \in Sessions /\ queue[r] # <<>>
    BY ProcessingFacts
  <2>2. queue'[r][1] = queue[r][1]
    <3>1. CASE r = s
      <4>1. 1 \in 1 .. Len(queue[s])
        BY <1>3, <2>1, <3>1, EmptySeq DEF Queues
      <4> QED  BY <1>1, <1>3, <1>4, <3>1, <4>1, EnqueuedFacts
    <3> QED  BY <1>7, <2>1, <3>1
  <2> QED  BY <2>2 DEF OInv, BeingTold
<1> QED  BY <1>2, <1>8, <1>9, <1>10 DEF OInv

\* The command a session waits for first is the first of its queue.
LEMMA FrontIsFirst ==
  ASSUME NEW p, NEW q, NEW t, Sound(q, t), Fits(p, t, q), t # <<>>
  PROVE  p[1] = 1 /\ 1 \in 1 .. Len(t)
<1>1. t[1] \in Sessions /\ q[t[1]] # <<>> /\ q \in Queues /\ t \in Order /\ FirstIsReal(q)
  BY TrackedFacts DEF Sound
<1>2. FakesBehind(q[t[1]], Len(FakesOf(Tail(q[t[1]]))))
  BY <1>1, DoneFakes DEF Queues
<1>3. p[1] = 1
  BY <1>1, <1>2, FitsPopped
<1> QED  BY <1>1, <1>3, EmptySeq DEF Order

\* A line that does not start the response to the front is nobody's.
LEMMA NotTheFirst ==
  ASSUME NEW p, NEW e, NEW q, NEW t, Sound(q, t), Fits(p, t, q), NEW ss,
         NEW r \in Seq(Line), r # <<>>, NEW x \in Seq(Commands), Follows(e, p, t, q, ss, r, x),
         \/ r[1].kind # "executed"
         \/ t # <<>> => t[1] \notin ss /\ r[1].command # q[t[1]][1].command
  PROVE  \A i \in 1 .. Len(t) : e[i] # 1
<1>1. LineAt(r, x, 1) = r[1]
  <2>1. 1 <= Len(r)
    BY EmptySeq
  <2> QED  BY <2>1 DEF LineAt
<1>2. Len(t) \in Nat
  BY DEF Sound, Order
<1>3. /\ \A i \in 1 .. Len(t) : e[i] \in Nat
      /\ \A i, j \in 1 .. Len(t) : i < j => e[i] < e[j]
      /\ \A i \in 1 .. Len(t) :
           IF i = 1 /\ t[1] \in ss THEN e[i] = 0
           ELSE e[i] \in Stream(r, x) /\ LineAt(r, x, e[i]) = Executed(Awaited(i, p, t, q))
  BY DEF Follows
<1>4. \A k \in Stream(r, x) : k \in Nat \ {0}
  <2>1. Len(r) \in Nat /\ Len(x) \in Nat
    OBVIOUS
  <2> QED  BY <2>1 DEF Stream
<1>5. \A c : Executed(c).kind = "executed" /\ Executed(c).command = c
  BY DEF Executed
<1>6. CASE r[1].kind # "executed"
  <2> SUFFICES ASSUME NEW i \in 1 .. Len(t), e[i] = 1 PROVE FALSE
    OBVIOUS
  <2>1. LineAt(r, x, e[i]) = Executed(Awaited(i, p, t, q))
    BY <1>3
  <2> QED  BY <1>1, <1>5, <1>6, <2>1
<1>7. CASE t # <<>> => t[1] \notin ss /\ r[1].command # q[t[1]][1].command
  <2> SUFFICES ASSUME NEW i \in 1 .. Len(t), e[i] = 1 PROVE FALSE
    OBVIOUS
  <2>1. t # <<>>
    OBVIOUS
  <2>2. p[1] = 1 /\ 1 \in 1 .. Len(t)
    BY <2>1, FrontIsFirst
  <2>3. e[1] \in Stream(r, x) /\ LineAt(r, x, e[1]) = Executed(q[t[1]][1].command)
    BY <1>3, <1>7, <2>1, <2>2 DEF Awaited
  <2>4. e[1] # 1
    BY <1>1, <1>5, <1>7, <2>1, <2>3
  <2>5. e[1] \in Nat \ {0} /\ i # 1
    BY <1>4, <2>3, <2>4
  <2>6. e[1] < e[i]
    <3>1. 1 < i
      BY <1>2, <2>5
    <3> QED  BY <1>3, <2>2, <3>1
  <2> QED  BY <2>5, <2>6
<1> QED  BY <1>6, <1>7

LEMMA LineIs ==
  ASSUME NEW line \in Line
  PROVE  /\ line.kind = "executed" => line = Executed(line.command)
         /\ line.kind = "response" => line = Response(line.command)
         /\ line.kind = "done" => line = Done(line.command)
BY DEF Line, Executed, Response, Done

LEMMA HandledFacts ==
  ASSUME OneServer, IInv, OInv, NEW g \in Servers, NEW kind, Handling(g, kind), NextLine(g)
  PROVE  /\ rx[g] \in Seq(Line) /\ rx[g] # <<>> /\ tx[g] \in Seq(Commands)
         /\ Head(rx[g]) = rx[g][1] /\ rx[g][1] \in Line /\ rx[g][1].kind = kind
         /\ InGroups(rx[g]) /\ InGroups(Tail(rx[g]))
         /\ \A h \in Servers : h = g /\ rx'[h] = Tail(rx[g])
         /\ \A s \in Sessions : s[1] = g
<1>1. rx \in [Servers -> Seq(Line)] /\ tx \in [Servers -> Seq(Commands)]
  BY DEF IInv, WellWired
<1>2. rx[g] \in Seq(Line) /\ tx[g] \in Seq(Commands) /\ rx[g] # <<>>
  BY <1>1 DEF Handling
<1>3. Head(rx[g]) = rx[g][1] /\ rx[g][1] \in Line /\ rx[g][1].kind = kind
  BY LineHandled
<1>4. InGroups(rx[g]) /\ InGroups(Tail(rx[g]))
  BY <1>2, InGroupsTail DEF OInv, WellOrdered
<1>5. \A h \in Servers : h = g /\ rx'[h] = Tail(rx[g])
  BY <1>1 DEF NextLine, OneServer
<1>6. \A s \in Sessions : s[1] = g
  BY ServerOf
<1> QED  BY <1>2, <1>3, <1>4, <1>5, <1>6

LEMMA ExecutedOrder ==
  ASSUME OneServer, IInv, OInv, NEW g \in Servers, HandleExecuted(g)
  PROVE  OInv'
<1> DEFINE line == rx[g][1]
           s == tracker[1]
<1>1. /\ rx[g] \in Seq(Line) /\ rx[g] # <<>> /\ tx[g] \in Seq(Commands)
      /\ Head(rx[g]) = line /\ line \in Line /\ line.kind = "executed"
      /\ InGroups(rx[g]) /\ InGroups(Tail(rx[g]))
      /\ \A h \in Servers : h = g /\ rx'[h] = Tail(rx[g])
      /\ \A r \in Sessions : r[1] = g
  BY HandledFacts DEF HandleExecuted
<1>2. UNCHANGED <<linked, up, queue, tracker, tx>>
  BY DEF HandleExecuted
<1>3. processing = {}
  <2> SUFFICES ASSUME NEW r \in processing PROVE FALSE
    OBVIOUS
  <2>1. r \in Sessions /\ BeingTold(queue[r], rx[r[1]])
    BY DEF IInv, OInv
  <2> QED  BY <1>1, <2>1 DEF BeingTold
<1>4. PICK p, e : /\ Fits(p, tracker, queue)
                  /\ Follows(e, p, tracker, queue, processing, rx[g], tx[g])
  BY DEF OInv, WellOrdered, Ordered
<1>5. Sound(queue, tracker) /\ tracker \in Order /\ queue \in Queues /\ view \in [Sessions -> View]
  BY DEF IInv, Sound, WellViews
<1>6. CASE IsWaitedFor(line.command)
  <2>1. tracker # <<>> /\ Head(tracker) = s /\ s \in Sessions /\ queue[s] # <<>>
    BY <1>5, <1>6, TrackedFacts DEF IsWaitedFor
  <2>2. queue[s] \in Seq(UpstreamCommand) /\ line.command = queue[s][1].command
    BY <1>5, <1>6, <2>1 DEF IsWaitedFor, Queues
  <2>3. processing' = {s} /\ view' = [view EXCEPT ![s] = Told(view[s], line)]
    BY <1>1, <1>3, <1>6, <2>1 DEF HandleExecuted
  <2>4. Follows(Taken(e, tracker), p, tracker, queue, {s}, Tail(rx[g]), tx[g])
    <3>1. s \notin processing /\ processing \cup {s} = {s}
      BY <1>3
    <3>2. Follows(Taken(e, tracker), p, tracker, queue, processing \cup {tracker[1]}, Tail(rx[g]), tx[g])
      BY <1>1, <1>4, <1>5, <2>1, <3>1, FollowsTaken
    <3> QED  BY <3>1, <3>2
  <2>5. WellOrdered(tracker', queue', processing', rx', tx')
    BY <1>1, <1>2, <1>4, <2>3, <2>4 DEF WellOrdered, Ordered
  <2>6. \A r \in processing' : BeingTold(queue'[r], rx'[r[1]])
    <3>1. Tail(rx[g]) # <<>> /\ Tail(rx[g])[1] = Response(line.command)
      BY <1>1, InGroupsTail
    <3>2. BeingTold(queue[s], Tail(rx[g]))
      BY <2>2, <3>1 DEF BeingTold, Response
    <3>3. s[1] = g
      BY <1>1, <2>1
    <3> QED  BY <1>1, <1>2, <2>3, <3>2, <3>3
  <2>7. WellInformed(view', up', queue', processing')
    <3>1. s \in up
      BY <2>1 DEF IInv
    <3>2. (s \in processing) = FALSE /\ (s \in {s}) = TRUE
      BY <1>3
    <3>3. Waits(view[s], queue[s], FALSE)
      BY <3>1, <3>2 DEF OInv, WellInformed
    <3>4. line = Executed(queue[s][1].command)
      BY <1>1, <2>2, LineIs
    <3>5. Waits(Told(view[s], line), queue[s], TRUE)
      BY <2>1, <2>2, <3>3, <3>4, ToldExecuted
    <3>6. \A r \in up : Waits(view'[r], queue[r], r \in {s})
      <4> TAKE r \in up
      <4>1. r \in Sessions /\ Waits(view[r], queue[r], r \in processing)
        BY DEF IInv, OInv, WellInformed
      <4>2. CASE r = s
        <5>1. view'[r] = Told(view[s], line)
          BY <1>5, <2>1, <2>3, <4>2
        <5> QED  BY <3>2, <3>5, <4>2, <5>1
      <4>3. CASE r # s
        <5>1. view'[r] = view[r] /\ (r \in processing) = FALSE /\ (r \in {s}) = FALSE
          BY <1>3, <1>5, <2>3, <4>1, <4>3
        <5> QED  BY <4>1, <5>1
      <4> QED  BY <4>2, <4>3
    <3>7. \A r \in Sessions \ up : view'[r] = Idle
      BY <1>5, <2>3, <3>1 DEF OInv, WellInformed
    <3> QED  BY <1>2, <2>3, <3>6, <3>7 DEF WellInformed
  <2> QED  BY <2>5, <2>6, <2>7 DEF OInv
<1>7. CASE ~IsWaitedFor(line.command)
  <2>1. UNCHANGED <<processing, view>>
    BY <1>1, <1>7 DEF HandleExecuted
  <2>2. tracker # <<>> => s \notin processing /\ line.command # queue[s][1].command
    <3> SUFFICES ASSUME tracker # <<>>, line.command = queue[s][1].command PROVE FALSE
      BY <1>3
    <3>1. Head(tracker) = s /\ s \in Sessions /\ queue[s] # <<>> /\ s # Lost
      BY <1>5, TrackedFacts, NoSession
    <3>2. Head(queue[s]) = queue[s][1]
      BY <1>5, <3>1 DEF Queues
    <3> QED  BY <1>3, <1>7, <3>1, <3>2 DEF IsWaitedFor
  <2>3. \A i \in 1 .. Len(tracker) : e[i] # 1
    BY <1>1, <1>4, <1>5, <2>2, NotTheFirst
  <2>4. Follows(Less(e, tracker), p, tracker, queue, processing, Tail(rx[g]), tx[g])
    BY <1>1, <1>4, <1>5, <2>3, FollowsTail
  <2>5. WellOrdered(tracker', queue', processing', rx', tx')
    BY <1>1, <1>2, <1>4, <2>1, <2>4 DEF WellOrdered, Ordered
  <2>6. \A r \in processing' : BeingTold(queue'[r], rx'[r[1]])
    BY <1>3, <2>1
  <2>7. WellInformed(view', up', queue', processing')
    BY <1>2, <2>1 DEF OInv
  <2> QED  BY <2>5, <2>6, <2>7 DEF OInv
<1> QED  BY <1>6, <1>7

LEMMA ResponseOrder ==
  ASSUME OneServer, IInv, OInv, NEW g \in Servers, HandleResponse(g)
  PROVE  OInv'
<1> DEFINE line == rx[g][1]
<1>1. /\ rx[g] \in Seq(Line) /\ rx[g] # <<>> /\ tx[g] \in Seq(Commands)
      /\ Head(rx[g]) = line /\ line \in Line /\ line.kind = "response"
      /\ InGroups(rx[g]) /\ InGroups(Tail(rx[g]))
      /\ \A h \in Servers : h = g /\ rx'[h] = Tail(rx[g])
      /\ \A r \in Sessions : r[1] = g
  BY HandledFacts DEF HandleResponse
<1>2. UNCHANGED <<linked, up, queue, processing, tracker, tx>> /\ view' = Pass(g, line)
  BY <1>1 DEF HandleResponse, relay
<1>3. PICK p, e : /\ Fits(p, tracker, queue)
                  /\ Follows(e, p, tracker, queue, processing, rx[g], tx[g])
  BY DEF OInv, WellOrdered, Ordered
<1>4. Sound(queue, tracker) /\ tracker \in Order
  BY DEF IInv, Sound
<1>5. \A i \in 1 .. Len(tracker) : e[i] # 1
  BY <1>1, <1>3, <1>4, NotTheFirst
<1>6. Follows(Less(e, tracker), p, tracker, queue, processing, Tail(rx[g]), tx[g])
  BY <1>1, <1>3, <1>4, <1>5, FollowsTail
<1>7. WellOrdered(tracker', queue', processing', rx', tx')
  BY <1>1, <1>2, <1>3, <1>6 DEF WellOrdered, Ordered
<1>8. ASSUME NEW s \in processing
      PROVE  BeingTold(queue[s], Tail(rx[g])) /\ Told(view[s], line) = view[s]
  <2>1. s \in Sessions /\ BeingTold(queue[s], rx[g]) /\ s \in up
    BY <1>1, ProcessingFacts DEF OInv
  <2>2. line.command = queue[s][1].command
    BY <2>1 DEF BeingTold
  <2>3. Tail(rx[g]) # <<>> /\ Tail(rx[g])[1] = Done(line.command)
    BY <1>1, InGroupsTail
  <2>4. BeingTold(queue[s], Tail(rx[g]))
    BY <2>2, <2>3 DEF BeingTold, Done
  <2>5. line = Response(queue[s][1].command)
    BY <1>1, <2>2, LineIs
  <2>6. (s \in processing) = TRUE
    OBVIOUS
  <2>7. Waits(view[s], queue[s], TRUE)
    BY <2>1, <2>6 DEF OInv, WellInformed
  <2> QED  BY <2>4, <2>5, <2>7, ToldResponse
<1>9. view' = view
  <2>1. view = [s \in Sessions |-> view[s]]
    BY DEF IInv, WellViews
  <2>2. Pass(g, line) = [s \in Sessions |-> view[s]]
    BY <1>8 DEF Pass, Receivers
  <2> QED  BY <1>2, <2>1, <2>2
<1>10. \A s \in processing' : BeingTold(queue'[s], rx'[s[1]])
  <2>1. \A s \in processing : s \in Sessions
    BY DEF IInv
  <2> QED  BY <1>1, <1>2, <1>8, <2>1
<1>11. WellInformed(view', up', queue', processing')
  BY <1>2, <1>9 DEF OInv
<1> QED  BY <1>7, <1>10, <1>11 DEF OInv

LEMMA DoneOrder ==
  ASSUME OneServer, IInv, OInv, NEW g \in Servers, HandleDone(g)
  PROVE  OInv'
<1> DEFINE line == rx[g][1]
<1>1. /\ rx[g] \in Seq(Line) /\ rx[g] # <<>> /\ tx[g] \in Seq(Commands)
      /\ Head(rx[g]) = line /\ line \in Line /\ line.kind = "done"
      /\ InGroups(rx[g]) /\ InGroups(Tail(rx[g]))
      /\ \A h \in Servers : h = g /\ rx'[h] = Tail(rx[g])
      /\ \A r \in Sessions : r[1] = g
  BY HandledFacts DEF HandleDone, DoneTracked
<1>2. UNCHANGED <<linked, up, tx>>
  BY DEF HandleDone, DoneTracked
<1>3. PICK p, e : /\ Fits(p, tracker, queue)
                  /\ Follows(e, p, tracker, queue, processing, rx[g], tx[g])
  BY DEF OInv, WellOrdered, Ordered
<1>4. Sound(queue, tracker) /\ tracker \in Order /\ queue \in Queues /\ FirstIsReal(queue)
  BY DEF IInv, Sound
<1>5. Receivers(g) = processing
  BY <1>1 DEF Receivers, IInv
<1>6. CASE processing = {}
  <2>1. UNCHANGED <<queue, processing, tracker, view>>
    BY <1>5, <1>6, DoneIgnored
  <2>2. \A i \in 1 .. Len(tracker) : e[i] # 1
    BY <1>1, <1>3, <1>4, NotTheFirst
  <2>3. Follows(Less(e, tracker), p, tracker, queue, processing, Tail(rx[g]), tx[g])
    BY <1>1, <1>3, <1>4, <2>2, FollowsTail
  <2>4. WellOrdered(tracker', queue', processing', rx', tx')
    BY <1>1, <1>2, <1>3, <2>1, <2>3 DEF WellOrdered, Ordered
  <2>5. WellInformed(view', up', queue', processing')
    BY <1>2, <2>1 DEF OInv
  <2> QED  BY <1>6, <2>1, <2>4, <2>5 DEF OInv
<1>7. ASSUME NEW s \in processing PROVE OInv'
  <2> DEFINE fakes == FakesOf(Tail(queue[s]))
             n == Len(fakes)
             passed == Pass(g, line)
  <2>1. /\ s \in Sessions /\ tracker # <<>> /\ tracker[1] = s
        /\ processing = {s} /\ queue[s] # <<>> /\ s \in up
    BY ProcessingFacts
  <2>2. /\ queue' = Popped(queue, s, n) /\ FakesBehind(queue[s], n)
        /\ tracker' = Tail(tracker) /\ processing' = {}
        /\ view' = [r \in Sessions |-> IF r = s THEN FakedAll(passed[s], fakes) ELSE passed[r]]
    BY <1>1, <1>5, DoneEffect
  <2>3. queue[s] \in Seq(UpstreamCommand)
    BY <1>4, <2>1 DEF Queues
  <2>4. /\ fakes \in Seq(UpstreamCommand)
        /\ \A i \in 1 .. n : fakes[i] = queue[s][i + 1]
    BY <2>1, <2>3, DoneFakes
  <2>5. /\ Len(queue[s]) \in Nat /\ n \in Nat /\ n <= Len(queue[s]) - 1
    BY <2>2, <2>3, <2>4 DEF FakesBehind
  <2>6. passed[s] = Told(view[s], line) /\ \A r \in Sessions \ {s} : passed[r] = view[r]
    BY <1>5, <2>1 DEF Pass
  <2> HIDE DEF fakes, n, passed
  <2>7. WellOrdered(tracker', queue', processing', rx', tx')
    <3>1. Fits(Shift(p, tracker, s, n), tracker', queue')
      BY <1>3, <1>4, <2>1, <2>2, FitsPopped
    <3>2. Follows(e, p, tracker, queue, {s}, rx[g], tx[g])
      BY <1>3, <2>1
    <3>3. Follows(Finished(e, tracker), Shift(p, tracker, s, n), tracker', queue', {}, Tail(rx[g]), tx[g])
      BY <1>1, <1>3, <1>4, <2>1, <2>2, <3>2, FollowsDone
    <3>4. Ordered(tracker', queue', {}, Tail(rx[g]), tx[g])
      BY <3>1, <3>3 DEF Ordered
    <3> QED  BY <1>1, <1>2, <2>2, <3>4 DEF WellOrdered
  <2>8. Waits(passed[s], Tail(queue[s]), FALSE)
    <3>1. BeingTold(queue[s], rx[g])
      BY <1>1, <2>1 DEF OInv
    <3>2. line = Done(queue[s][1].command)
      BY <1>1, <3>1, LineIs DEF BeingTold
    <3>3. (s \in processing) = TRUE
      OBVIOUS
    <3>4. Waits(view[s], queue[s], TRUE)
      BY <2>1, <3>3 DEF OInv, WellInformed
    <3> QED  BY <2>1, <2>3, <2>6, <3>2, <3>4, ToldDone, SMTT(30), ZenonT(30)
  <2>9. Waits(FakedAll(passed[s], fakes), queue'[s], FALSE)
    <3> DEFINE q == queue[s]
               u == Tail(q)
    <3>1. /\ u \in Seq(UpstreamCommand) /\ Len(u) = Len(q) - 1
          /\ \A k \in 1 .. Len(q) - 1 : u[k] = q[k + 1]
      BY <2>1, <2>3, HeadTailProperties
    <3>2. n = Len(fakes)
      BY DEF n
    <3>3. n <= Len(u) /\ \A i \in 1 .. n : i \in 1 .. Len(q) - 1
      BY <2>5, <3>1
    <3>4. \A i \in 1 .. n : fakes[i] = u[i]
      BY <2>4, <3>1, <3>3
    <3> HIDE DEF q, u
    <3>5. Waits(FakedAll(passed[s], fakes), SubSeq(u, n + 1, Len(u)), FALSE)
      BY <2>4, <2>8, <3>1, <3>2, <3>3, <3>4, FakedAllFront DEF q, u
    <3>6. SubSeq(u, n + 1, Len(u)) = queue'[s]
      <4>1. /\ queue'[s] \in Seq(UpstreamCommand) /\ Len(queue'[s]) = Len(q) - n - 1
            /\ \A k \in 1 .. Len(q) - n - 1 : queue'[s][k] = q[k + n + 1]
        BY <1>4, <2>1, <2>2, PoppedFacts, SMTT(30), ZenonT(30) DEF Queues, q
      <4> DEFINE m == Len(u)
                 w == SubSeq(u, n + 1, m)
      <4>2. m \in Nat /\ m = Len(q) - 1 /\ n \in Nat /\ n <= m /\ Len(q) \in Nat
        BY <2>5, <3>1, <3>3 DEF q
      <4>3. \A k \in n + 1 .. m : u[k] \in UpstreamCommand
        BY <3>1, <4>2, ElementOfSeq
      <4>4. /\ w \in Seq(UpstreamCommand)
            /\ Len(w) = IF n + 1 <= m THEN m - (n + 1) + 1 ELSE 0
            /\ \A k \in 1 .. m - (n + 1) + 1 : w[k] = u[(n + 1) + k - 1]
        <5>1. n + 1 \in Int /\ m \in Int
          BY <4>2
        <5> QED  BY <4>3, <5>1, SubSeqProperties
      <4> HIDE DEF m, w
      <4>5. Len(w) = m - n /\ m - n = Len(q) - n - 1 /\ m - (n + 1) + 1 = m - n
        BY <4>2, <4>4
      <4>6. \A k \in 1 .. m - n : w[k] = queue'[s][k]
        <5> TAKE k \in 1 .. m - n
        <5>1. w[k] = u[(n + 1) + k - 1]
          BY <4>4, <4>5
        <5>2. (n + 1) + k - 1 = k + n /\ k + n \in 1 .. Len(q) - 1 /\ (k + n) + 1 = k + n + 1
          BY <4>2
        <5>3. u[k + n] = q[k + n + 1]
          BY <3>1, <5>2
        <5> QED  BY <4>1, <4>5, <5>1, <5>2, <5>3
      <4>7. w = queue'[s]
        BY <4>1, <4>4, <4>5, <4>6, SeqEqual
      <4> QED  BY <4>7 DEF w, m
    <3> QED  BY <3>5, <3>6
  <2>10. WellInformed(view', up', queue', processing')
    <3>1. \A r \in Sessions \ {s} : queue'[r] = queue[r] /\ view'[r] = view[r]
      BY <1>4, <2>1, <2>2, <2>6, PoppedFacts
    <3>2. view'[s] = FakedAll(passed[s], fakes)
      BY <2>1, <2>2
    <3>3. \A r \in up : Waits(view'[r], queue'[r], FALSE)
      <4> TAKE r \in up
      <4>1. r \in Sessions /\ Waits(view[r], queue[r], r \in processing)
        BY DEF IInv, OInv, WellInformed
      <4>2. CASE r = s
        BY <2>9, <3>2, <4>2
      <4>3. CASE r # s
        <5>1. (r \in processing) = FALSE
          BY <2>1, <4>3
        <5> QED  BY <3>1, <4>1, <4>3, <5>1
      <4> QED  BY <4>2, <4>3
    <3>4. \A r : (r \in processing') = FALSE
      BY <2>2
    <3>5. \A r \in Sessions \ up : view'[r] = Idle
      BY <2>1, <3>1 DEF OInv, WellInformed
    <3>6. \A r \in up : Waits(view'[r], queue'[r], r \in processing')
      BY <3>3, <3>4
    <3> QED  BY <1>2, <3>5, <3>6 DEF WellInformed
  <2> QED  BY <2>2, <2>7, <2>10 DEF OInv
<1> QED  BY <1>6, <1>7

LEMMA NextOInv ==
  ASSUME OneServer, EchoesAreWhole, ~LosesPending
  PROVE  IInv /\ OInv /\ [Next]_vars => OInv'
<1> SUFFICES ASSUME IInv, OInv, [Next]_vars PROVE OInv'
  OBVIOUS
<1>1. ASSUME NEW s \in Sessions, UpstreamLost(s) PROVE OInv'
  BY <1>1, UpstreamLostOrder
<1>2. ASSUME NEW s \in Sessions, UpstreamConnects(s) PROVE OInv'
  BY <1>2, UpstreamConnectsOrder
<1>3. ASSUME NEW s \in Sessions, NEW c \in Commands, AskFake(s, c) PROVE OInv'
  BY <1>3, AskFakeOrder
<1>4. ASSUME NEW s \in Sessions, NEW c \in Commands, AskReal(s, c) PROVE OInv'
  BY <1>4, AskRealOrder
<1>5. ASSUME NEW g \in Servers, HandleExecuted(g) PROVE OInv'
  BY <1>5, ExecutedOrder
<1>6. ASSUME NEW g \in Servers, HandleResponse(g) PROVE OInv'
  BY <1>6, ResponseOrder
<1>7. ASSUME NEW g \in Servers, HandleDone(g) PROVE OInv'
  BY <1>7, DoneOrder
<1>8. ASSUME NEW g \in Servers, ServerLost(g) PROVE OInv'
  BY <1>8, ServerLostOrder
<1>9. ASSUME NEW g \in Servers, ServerFullyConnected(g) PROVE OInv'
  BY <1>9, FullyConnectedOrder
<1>10. ASSUME NEW g \in Servers, GameAnswers(g) PROVE OInv'
  BY <1>10, GameAnswersOrder
<1>11. ASSUME NEW g \in Servers, NEW c \in Commands, BotAsks(g, c) PROVE OInv'
  BY <1>11, BotAsksOrder
<1>12. CASE UNCHANGED vars
  BY <1>12 DEF vars, relay, wire, OInv
<1> HIDE DEF IInv, OInv
<1> QED
  BY <1>1, <1>2, <1>3, <1>4, <1>5, <1>6, <1>7, <1>8, <1>9, <1>10, <1>11, <1>12 DEF Next

LEMMA OInvIsClear == IInv /\ OInv => NobodyIsConfused
<1> SUFFICES ASSUME IInv, OInv, NEW s \in Sessions PROVE ~view[s].confused
  BY DEF NobodyIsConfused
<1>1. CASE s \in up
  BY <1>1 DEF OInv, WellInformed, Waits
<1>2. CASE s \notin up
  BY <1>2 DEF OInv, WellInformed, Idle
<1> QED  BY <1>1, <1>2

LEMMA OInvAnswersAll == OneServer /\ IInv /\ OInv => EverythingIsAnswered
<1> SUFFICES ASSUME OneServer, IInv, OInv, \A g \in Servers : tx[g] = <<>> /\ rx[g] = <<>>,
                    NEW s \in up
             PROVE  view[s].asked = <<>>
  BY DEF EverythingIsAnswered
<1>1. s \in Sessions /\ s[1] \in Servers
  BY DEF IInv, Sessions
<1> DEFINE g == s[1]
<1>2. rx[g] = <<>> /\ tx[g] = <<>>
  BY <1>1
<1>3. PICK p, e : /\ Fits(p, tracker, queue)
                  /\ Follows(e, p, tracker, queue, processing, rx[g], tx[g])
  BY <1>1 DEF OInv, WellOrdered, Ordered
<1>4. processing = {}
  <2> SUFFICES ASSUME NEW r \in processing PROVE FALSE
    OBVIOUS
  <2>1. r \in Sessions /\ r[1] \in Servers /\ BeingTold(queue[r], rx[r[1]])
    BY DEF IInv, OInv, Sessions
  <2> QED  BY <2>1 DEF BeingTold
<1>5. tracker = <<>>
  <2> SUFFICES ASSUME tracker # <<>> PROVE FALSE
    OBVIOUS
  <2>1. 1 \in 1 .. Len(tracker)
    BY <1>3, FrontIsFirst DEF IInv
  <2>2. e[1] \in Stream(rx[g], tx[g])
    BY <1>3, <1>4, <2>1 DEF Follows
  <2>3. Stream(rx[g], tx[g]) = {}
    BY <1>2 DEF Stream
  <2> QED  BY <2>2, <2>3
<1>6. queue[s] = <<>>
  BY <1>1, <1>5, SomeoneIsWaitedFor DEF IInv
<1>7. view[s] \in View /\ Len(view[s].asked) = 0
  BY <1>6 DEF OInv, WellInformed, Waits
<1>8. view[s].asked \in Seq(Commands)
  BY <1>7 DEF View
<1> QED  BY <1>7, <1>8, EmptySeq

\* The commands that are waited for are executed in the order of the tracker.
THEOREM AnswersInOrder ==
  ASSUME OneServer, EchoesAreWhole, ~LosesPending
  PROVE  Spec => []OInv
<1>1. Spec => []IInv
  BY Inductive
<1> QED  BY <1>1, InitOInv, NextOInv, PTL DEF Spec

\* An upstream is told the results of what it asked and of nothing else, one after
\* the other and in that order, whatever the bot, which asks over the same
\* connection, and the other upstreams ask meanwhile: also of the same commands.
THEOREM NobodyGetsConfused ==
  ASSUME OneServer, EchoesAreWhole, ~LosesPending
  PROVE  Spec => []NobodyIsConfused
<1>1. Spec => []IInv
  BY Inductive
<1>2. Spec => []OInv
  BY AnswersInOrder
<1> QED  BY <1>1, <1>2, OInvIsClear, PTL

\* When nothing is on its way any more, nobody waits for an answer: no response
\* is given to another session, and no made-up answer is left in a queue.
THEOREM EverythingGetsAnswered ==
  ASSUME OneServer, EchoesAreWhole, ~LosesPending
  PROVE  Spec => []EverythingIsAnswered
<1>1. Spec => []IInv
  BY Inductive
<1>2. Spec => []OInv
  BY AnswersInOrder
<1>3. IInv /\ OInv => EverythingIsAnswered
  BY OInvAnswersAll
<1> QED  BY <1>1, <1>2, <1>3, PTL
=============================================================================
