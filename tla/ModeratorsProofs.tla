-------------------------- MODULE ModeratorsProofs --------------------------
(***************************************************************************)
(* Proofs about Moderators, for any persons, groups, users and sections.    *)
(*                                                                         *)
(* A player's record is changed in three ways: auth, a group that is given, *)
(* and a login or logout.  The lemmas say of each that the record it makes  *)
(* is bounded by a level somebody may give, and has a reason to be above    *)
(* the default group; the invariant says so of all players.                 *)
(***************************************************************************)
EXTENDS Moderators, TLAPS

Bounded(r, levels) == \E a \in levels : r.access <= a

\* What lets a player be above the default group once his login is taken away.
Reasoned(p, r, ks) ==
  r.access > Groups[1].access /\ r.access > LoginAccess(r.admin) =>
    r.group > 1 \/ r.access \in OwnLevels \/ p \in ks \cup KickExempt

SectionOK(s, levels) == s \in Section /\ Setting(s, "access") \in levels

IInv ==
  /\ TypeOK
  /\ MembershipIsDurable
  /\ \A u \in DOMAIN sections : SectionOK(sections[u], Givable)
  /\ \A p \in DOMAIN players : Bounded(players[p], Givable)
  /\ loaded => \A p \in DOMAIN players : Reasoned(p, players[p], kicks)

----------------------------------------------------------------------------
\* A record with another group and access.
FromLevel(r, g, a) == [r EXCEPT !.group = g, !.access = a]

LEMMA FromLevelFacts ==
  ASSUME NEW r \in Player, NEW g \in 0 .. Len(Groups), NEW a \in Nat
  PROVE  /\ FromLevel(r, g, a) \in Player
         /\ FromLevel(r, g, a).access = a /\ FromLevel(r, g, a).group = g
         /\ FromLevel(r, g, a).admin = r.admin
<1> DEFINE G == 0 .. Len(Groups)
           D == {"", "moderator", "administrator"}
<1>1. Player = [steam : Steams, access : Nat, group : G, admin : D] /\ g \in G
  BY DEF Player
<1>2. r \in [steam : Steams, access : Nat, group : G, admin : D]
  BY <1>1
<1> HIDE DEF G, D
<1>3. FromLevel(r, g, a) \in [steam : Steams, access : Nat, group : G, admin : D]
  BY <1>1, <1>2 DEF FromLevel
<1>4. /\ FromLevel(r, g, a).access = a /\ FromLevel(r, g, a).group = g
      /\ FromLevel(r, g, a).admin = r.admin
  BY <1>2 DEF FromLevel
<1> QED  BY <1>1, <1>3, <1>4

LEMMA GroupFacts ==
  /\ 1 \in 1 .. Len(Groups) /\ Len(Groups) \in Nat
  /\ \A g \in 1 .. Len(Groups) : Groups[g].access \in Nat
  /\ ATMDefault \in 0 .. Len(Groups)
  /\ Moderator \in 0 .. Len(Groups) /\ Administrator \in 0 .. Len(Groups)
  /\ \A o \in Owns : "access" \in DOMAIN o => o["access"] \in Nat
<1> DEFINE Group == [access : Nat, lockSteam : BOOLEAN, lockIP : BOOLEAN, lockName : BOOLEAN,
                     kickLockMismatch : BOOLEAN, autoAuthSteam : BOOLEAN, autoAuthIP : BOOLEAN]
<1>1. Groups \in Seq(Group) /\ Groups # <<>>
  BY ModeratorsAssumption
<1>2. /\ Len(Groups) \in Nat /\ Len(Groups) # 0
      /\ \A g \in 1 .. Len(Groups) : Groups[g] \in Group
  <2> HIDE DEF Group
  <2> QED  BY <1>1
<1>3. \A g \in 1 .. Len(Groups) : Groups[g].access \in Nat
  BY <1>2
<1>4. /\ ATMDefault \in 0 .. Len(Groups)
      /\ Moderator \in 0 .. Len(Groups) /\ Administrator \in 0 .. Len(Groups)
  BY ModeratorsAssumption
<1>5. \A o \in Owns : "access" \in DOMAIN o => o["access"] \in Nat
  BY ModeratorsAssumption
<1>6. 1 \in 1 .. Len(Groups)
  BY <1>2
<1> QED  BY <1>2, <1>3, <1>4, <1>5, <1>6

LEMMA GivableFacts ==
  /\ Givable \subseteq Nat
  /\ {0, 1, 2} \subseteq Givable
  /\ Groups[1].access \in Givable
  /\ \A g \in {ATMDefault, Moderator, Administrator} \ {0} : Groups[g].access \in Givable
  /\ OwnLevels \subseteq Givable
<1>1. \A u \in DOMAIN InitSections : InitSections[u].group \in 1 .. Len(Groups)
  BY ModeratorsAssumption DEF Section
<1>2. OwnLevels \subseteq Nat
  BY GroupFacts DEF OwnLevels
<1>3. \A g \in {ATMDefault, Moderator, Administrator} \ {0} : g \in 1 .. Len(Groups)
  BY GroupFacts
<1>4. \A x \in Givable : x \in Nat
  BY <1>1, <1>2, <1>3, GroupFacts DEF Givable
<1> QED  BY <1>4 DEF Givable

LEMMA LoginFacts ==
  ASSUME NEW t \in {"", "moderator", "administrator"}
  PROVE  LoginAccess(t) \in Nat /\ LoginAccess(t) \in Givable
BY GroupFacts, GivableFacts DEF LoginAccess

LEMMA LoginOfNobody == LoginAccess("") = Groups[1].access
BY DEF LoginAccess

LEMMA SettingFacts ==
  ASSUME NEW s \in Section
  PROVE  /\ Setting(s, "access") \in Nat
         /\ "access" \in DOMAIN s.own => Setting(s, "access") \in OwnLevels
         /\ "access" \notin DOMAIN s.own => Setting(s, "access") = Groups[s.group].access
<1>1. s.own \in Owns /\ s.group \in 1 .. Len(Groups)
  BY DEF Section
<1> QED  BY <1>1, GroupFacts DEF Setting, OwnLevels

\* A group that is given makes a record as it should be.
LEMMA FromGroupFacts ==
  ASSUME NEW p, NEW ks, NEW r \in Player, NEW g \in 1 .. Len(Groups)
  PROVE  /\ FromGroup(r, g) \in Player
         /\ FromGroup(r, g).access = Groups[g].access /\ FromGroup(r, g).group = g
         /\ FromGroup(r, g).admin = r.admin
         /\ Reasoned(p, FromGroup(r, g), ks)
<1>1. FromGroup(r, g) \in Player /\ FromGroup(r, g).access = Groups[g].access
      /\ FromGroup(r, g).group = g /\ FromGroup(r, g).admin = r.admin
  <2> DEFINE a == Groups[g].access
  <2>1. g \in 0 .. Len(Groups) /\ a \in Nat
    BY GroupFacts
  <2>2. FromGroup(r, g) = FromLevel(r, g, a)
    BY DEF FromGroup, FromLevel
  <2> HIDE DEF a
  <2>3. /\ FromLevel(r, g, a) \in Player /\ FromLevel(r, g, a).access = a
        /\ FromLevel(r, g, a).group = g /\ FromLevel(r, g, a).admin = r.admin
    BY <2>1, FromLevelFacts
  <2> USE DEF a
  <2> QED  BY <2>2, <2>3
<1>2. CASE g = 1
  BY <1>1, <1>2, GroupFacts DEF Reasoned
<1>3. CASE g # 1
  BY <1>1, <1>3, GroupFacts DEF Reasoned
<1> QED  BY <1>1, <1>2, <1>3

LEMMA FromSectionFacts ==
  ASSUME NEW p, NEW ks, NEW r \in Player, NEW s, SectionOK(s, Givable)
  PROVE  /\ FromSection(r, s) \in Player
         /\ Bounded(FromSection(r, s), Givable)
         /\ Reasoned(p, FromSection(r, s), ks)
<1>1. s \in Section /\ s.group \in 1 .. Len(Groups) /\ Setting(s, "access") \in Nat
  BY SettingFacts DEF SectionOK, Section
<1>2. FromSection(r, s) \in Player /\ FromSection(r, s).access = Setting(s, "access")
      /\ FromSection(r, s).group = s.group
  <2> DEFINE a == Setting(s, "access")
             g == s.group
  <2>1. g \in 0 .. Len(Groups) /\ a \in Nat
    BY <1>1, GroupFacts
  <2>2. FromSection(r, s) = FromLevel(r, g, a)
    BY DEF FromSection, FromLevel
  <2> HIDE DEF a, g
  <2>3. FromLevel(r, g, a) \in Player /\ FromLevel(r, g, a).access = a /\ FromLevel(r, g, a).group = g
    BY <2>1, FromLevelFacts
  <2> USE DEF a, g
  <2> QED  BY <2>2, <2>3
<1>3. Bounded(FromSection(r, s), Givable)
  <2>1. Setting(s, "access") \in Givable
    BY DEF SectionOK
  <2>2. \A a \in Nat : a <= a
    OBVIOUS
  <2> QED  BY <1>1, <1>2, <2>1, <2>2 DEF Bounded
<1>4. CASE "access" \in DOMAIN s.own
  <2>1. Setting(s, "access") \in OwnLevels
    BY <1>1, <1>4, SettingFacts
  <2> QED  BY ONLY <2>1, <1>2, <1>3 DEF Reasoned
<1>5. CASE "access" \notin DOMAIN s.own /\ s.group = 1
  <2>1. Setting(s, "access") = Groups[1].access /\ Groups[1].access \in Nat
    BY <1>1, <1>5, SettingFacts, GroupFacts
  <2>2. FromSection(r, s).access = Groups[1].access
    BY <1>2, <2>1
  <2>3. \A a \in Nat : ~(a > a)
    OBVIOUS
  <2> QED  BY ONLY <1>2, <1>3, <2>1, <2>2, <2>3 DEF Reasoned
<1>6. CASE s.group # 1
  <2>1. FromSection(r, s).group > 1
    BY <1>1, <1>2, <1>6, GroupFacts
  <2> QED  BY ONLY <1>2, <1>3, <2>1 DEF Reasoned
<1> QED  BY <1>2, <1>3, <1>4, <1>5, <1>6

\* Whatever auth makes of a record is bounded; it has a reason unless it is
\* the record of before, of somebody who is turned away.
LEMMA AuthFacts ==
  ASSUME NEW p, NEW ks, NEW r \in Player, Bounded(r, Givable),
         NEW checkAuto \in BOOLEAN, NEW force \in BOOLEAN,
         NEW list, \A u \in DOMAIN list : SectionOK(list[u], Givable)
  PROVE  LET a == Auth(p, r, checkAuto, force, list)
         IN  /\ a \in Player /\ Bounded(a, Givable)
             /\ \/ Reasoned(p, a, ks)
                \/ a = r /\ Mismatch(p, r, force, list)
<1> DEFINE u == UUID(r.steam, Who[p].name)
           a == Auth(p, r, checkAuto, force, list)
<1>1. FromGroup(r, 1) \in Player /\ Bounded(FromGroup(r, 1), Givable) /\ Reasoned(p, FromGroup(r, 1), ks)
  <2>1. 1 \in 1 .. Len(Groups) /\ Groups[1].access \in Givable /\ Groups[1].access \in Nat
    BY GroupFacts, GivableFacts
  <2>2. /\ FromGroup(r, 1) \in Player /\ FromGroup(r, 1).access = Groups[1].access
        /\ Reasoned(p, FromGroup(r, 1), ks)
    BY <2>1, FromGroupFacts
  <2>3. \A x \in Nat : x <= x
    OBVIOUS
  <2> QED  BY <2>1, <2>2, <2>3 DEF Bounded
<1>2. u \in DOMAIN list => /\ FromSection(r, list[u]) \in Player
                           /\ Bounded(FromSection(r, list[u]), Givable)
                           /\ Reasoned(p, FromSection(r, list[u]), ks)
  BY FromSectionFacts
<1>3. \/ a = FromGroup(r, 1)
      \/ u \in DOMAIN list /\ a = FromSection(r, list[u])
      \/ a = r /\ Mismatch(p, r, force, list)
  BY DEF Auth
<1> QED  BY <1>1, <1>2, <1>3

----------------------------------------------------------------------------
\* Who is in the channel does not change, and nor does what may be given.
LEMMA GivableStays ==
  ASSUME online' = online
  PROVE  Givable' = Givable
BY DEF Givable, MayAdd, OwnLevels, Owns

LEMMA ReasonedStays ==
  ASSUME NEW p, NEW r, NEW ks, NEW more, ks \subseteq more, Reasoned(p, r, ks)
  PROVE  Reasoned(p, r, more)
BY DEF Reasoned

\* A step that changes only players, all of whom it leaves as they should be.
LEMMA PlayersStep ==
  ASSUME IInv,
         UNCHANGED <<online, sections, saved>>, loaded' \in BOOLEAN,
         players' \in [DOMAIN players -> Player], kicks' \subseteq DOMAIN players,
         \A p \in DOMAIN players : Bounded(players'[p], Givable),
         loaded' => \A p \in DOMAIN players : Reasoned(p, players'[p], kicks')
  PROVE  IInv'
<1>1. DOMAIN players' = DOMAIN players
  OBVIOUS
<1>2. TypeOK'
  BY <1>1 DEF IInv, TypeOK
<1>3. MembershipIsDurable'
  BY DEF IInv, MembershipIsDurable
<1>4. Givable' = Givable
  BY GivableStays
<1>5. \A u \in DOMAIN sections' : SectionOK(sections'[u], Givable')
  BY <1>4 DEF IInv
<1>6. \A p \in DOMAIN players' : Bounded(players'[p], Givable')
  BY <1>1, <1>4
<1> QED  BY <1>1, <1>2, <1>3, <1>5, <1>6 DEF IInv

\* A step that changes one player only.
LEMMA PlayerStep ==
  ASSUME IInv, NEW p \in DOMAIN players, NEW r \in Player,
         players' = [players EXCEPT ![p] = r],
         Bounded(r, Givable), loaded => Reasoned(p, r, kicks),
         UNCHANGED <<online, loaded, sections, saved, kicks>>
  PROVE  IInv'
<1>1. players' \in [DOMAIN players -> Player]
  BY DEF IInv, TypeOK
<1>2. \A q \in DOMAIN players : players'[q] = IF q = p THEN r ELSE players[q]
  OBVIOUS
<1>3. \A q \in DOMAIN players : Bounded(players'[q], Givable)
  BY <1>2 DEF IInv
<1>4. loaded' => \A q \in DOMAIN players : Reasoned(q, players'[q], kicks')
  BY <1>2 DEF IInv
<1> QED  BY <1>1, <1>3, <1>4, PlayersStep DEF IInv, TypeOK

\* Whoever is authenticated, and kicked if turned away, is as he should be.
LEMMA AuthOutcome ==
  ASSUME NEW p, NEW ks, NEW r \in Player, Bounded(r, Givable),
         NEW checkAuto \in BOOLEAN, NEW force \in BOOLEAN,
         NEW list, \A u \in DOMAIN list : SectionOK(list[u], Givable),
         Mismatch(p, r, force, list) => p \in ks \cup KickExempt
  PROVE  LET a == Auth(p, r, checkAuto, force, list)
         IN  a \in Player /\ Bounded(a, Givable) /\ Reasoned(p, a, ks)
<1> DEFINE a == Auth(p, r, checkAuto, force, list)
<1>1. /\ a \in Player /\ Bounded(a, Givable)
      /\ Reasoned(p, a, ks) \/ Mismatch(p, r, force, list)
  BY AuthFacts
<1> HIDE DEF a
<1>2. p \in ks \cup KickExempt => Reasoned(p, a, ks)
  BY DEF Reasoned
<1> USE DEF a
<1> QED  BY <1>1, <1>2

----------------------------------------------------------------------------
\* The file says what memory says of the levels of sections.
LEMMA SavedFacts ==
  ASSUME IInv
  PROVE  \A u \in DOMAIN saved : SectionOK(saved[u], Givable)
<1> SUFFICES ASSUME NEW u \in DOMAIN saved
             PROVE  SectionOK(saved[u], Givable)
  OBVIOUS
<1>1. /\ u \in DOMAIN sections /\ saved[u] \in Section
      /\ sections[u].group = saved[u].group /\ sections[u].own = saved[u].own
  BY DEF IInv, TypeOK, MembershipIsDurable
<1>2. SectionOK(sections[u], Givable)
  BY <1>1 DEF IInv
<1> QED  BY <1>1, <1>2 DEF SectionOK, Setting

LEMMA PersonFacts ==
  ASSUME NEW p \in Persons
  PROVE  Who[p].steam \in Steams /\ Who[p].ip \in IPs /\ Who[p].name \in Names
BY DEF Steams, IPs, Names

LEMMA OnlinePlayerFacts ==
  ASSUME IInv, NEW p \in DOMAIN players
  PROVE  /\ p \in Persons /\ players[p] \in Player /\ Bounded(players[p], Givable)
         /\ loaded => Reasoned(p, players[p], kicks)
BY DEF IInv, TypeOK

\* A record with another access, and with another login as well.
WithAccess(r, a)   == [r EXCEPT !.access = a]
WithLogin(r, t, a) == [r EXCEPT !.admin = t, !.access = a]
Logins == {"", "moderator", "administrator"}

LEMMA WithAccessFacts ==
  ASSUME NEW r \in Player, NEW a \in Nat
  PROVE  /\ WithAccess(r, a) \in Player
         /\ WithAccess(r, a).access = a /\ WithAccess(r, a).admin = r.admin
<1> DEFINE G == 0 .. Len(Groups)
<1>1. Player = [steam : Steams, access : Nat, group : G, admin : Logins]
  BY DEF Player, Logins
<1>2. r \in [steam : Steams, access : Nat, group : G, admin : Logins]
  BY <1>1
<1> HIDE DEF G
<1>3. /\ WithAccess(r, a) \in [steam : Steams, access : Nat, group : G, admin : Logins]
      /\ WithAccess(r, a).access = a /\ WithAccess(r, a).admin = r.admin
  BY <1>2 DEF WithAccess
<1> QED  BY <1>1, <1>3

LEMMA WithLoginFacts ==
  ASSUME NEW r \in Player, NEW a \in Nat, NEW t \in Logins
  PROVE  /\ WithLogin(r, t, a) \in Player
         /\ WithLogin(r, t, a).access = a /\ WithLogin(r, t, a).admin = t
         /\ WithLogin(r, t, a).group = r.group
<1> DEFINE G == 0 .. Len(Groups)
<1>1. Player = [steam : Steams, access : Nat, group : G, admin : Logins]
  BY DEF Player, Logins
<1>2. r \in [steam : Steams, access : Nat, group : G, admin : Logins]
  BY <1>1
<1> HIDE DEF G
<1>3. WithLogin(r, t, a) \in [steam : Steams, access : Nat, group : G, admin : Logins]
  BY <1>2 DEF WithLogin
<1>4. /\ WithLogin(r, t, a).access = a /\ WithLogin(r, t, a).admin = t
      /\ WithLogin(r, t, a).group = r.group
  BY <1>2 DEF WithLogin
<1> QED  BY <1>1, <1>3, <1>4

LEMMA SteamLearntStep ==
  ASSUME IInv, NEW p \in Persons, SteamLearnt(p)
  PROVE  IInv'
<1> DEFINE r == [players[p] EXCEPT !.steam = Who[p].steam]
<1>1. p \in DOMAIN players
  BY DEF SteamLearnt
<1>2. /\ players[p] \in Player /\ Bounded(players[p], Givable)
      /\ loaded => Reasoned(p, players[p], kicks)
  BY <1>1, OnlinePlayerFacts
<1>3. /\ r \in Player /\ r.access = players[p].access /\ r.group = players[p].group
      /\ r.admin = players[p].admin
  BY <1>2, PersonFacts DEF Player
<1>4. Bounded(r, Givable) /\ (loaded => Reasoned(p, r, kicks))
  BY <1>2, <1>3 DEF Bounded, Reasoned
<1>5. players' = [players EXCEPT ![p] = r]
  BY DEF SteamLearnt
<1>6. UNCHANGED <<online, loaded, sections, saved, kicks>>
  BY DEF SteamLearnt
<1> HIDE DEF r
<1> QED  BY <1>1, <1>3, <1>4, <1>5, <1>6, PlayerStep

\* A login gives at least the level of the group, and the rest has its reason.
LEMMA AdminLoginStep ==
  ASSUME IInv, NEW p \in Persons, NEW t \in {"moderator", "administrator"}, AdminLogin(p, t)
  PROVE  IInv'
<1> DEFINE g == LoginGroup(t)
           old == players[p].access
           a == IF loaded /\ g # 0 /\ old < Groups[g].access THEN Groups[g].access ELSE old
           r == WithLogin(players[p], t, a)
<1>1. p \in DOMAIN players /\ players[p].admin = ""
  BY DEF AdminLogin
<1>2. /\ players[p] \in Player /\ Bounded(players[p], Givable)
      /\ loaded => Reasoned(p, players[p], kicks)
  BY <1>1, OnlinePlayerFacts
<1>3. old \in Nat
  BY <1>2 DEF Player
<1>4. g # 0 => /\ Groups[g].access \in Nat /\ Groups[g].access \in Givable
               /\ LoginAccess(t) = Groups[g].access
  BY GroupFacts, GivableFacts DEF LoginGroup, LoginAccess
<1>5. a \in Nat /\ (a = old \/ (g # 0 /\ a = Groups[g].access))
  BY <1>3, <1>4
<1>6. r \in Player /\ r.access = a /\ r.admin = t /\ r.group = players[p].group
  <2>1. t \in Logins
    BY DEF Logins
  <2> HIDE DEF a
  <2> QED  BY <1>2, <1>5, <2>1, WithLoginFacts
<1>7. Bounded(r, Givable)
  <2>1. CASE a = old
    BY <1>2, <1>6, <2>1 DEF Bounded
  <2>2. CASE g # 0 /\ a = Groups[g].access
    BY <1>4, <1>6, <2>2 DEF Bounded
  <2> QED  BY <1>5, <2>1, <2>2
<1>8. ASSUME loaded PROVE Reasoned(p, r, kicks)
  <2>1. CASE a = old
    BY <1>1, <1>2, <1>6, <1>8, <2>1, LoginOfNobody DEF Reasoned
  <2>2. CASE g # 0 /\ a = Groups[g].access
    <3>1. r.access = LoginAccess(r.admin) /\ LoginAccess(r.admin) \in Nat
      BY <1>4, <1>6, <2>2
    <3> HIDE DEF r
    <3> QED  BY <3>1 DEF Reasoned
  <2> QED  BY <1>5, <2>1, <2>2
<1>9. players' = [players EXCEPT ![p] = r] /\ UNCHANGED <<online, loaded, sections, saved, kicks>>
  BY <1>1 DEF AdminLogin, WithLogin
<1> HIDE DEF r, a
<1> QED  BY <1>1, <1>6, <1>7, <1>8, <1>9, PlayerStep

\* Whoever logs out and keeps more than the login gave has it for another reason.
LEMMA AdminLogoutStep ==
  ASSUME IInv, NEW p \in Persons, AdminLogout(p)
  PROVE  IInv'
<1> DEFINE old == players[p].access
           given == LoginAccess(players[p].admin)
           a == IF loaded /\ old <= given THEN Groups[1].access ELSE old
           r == WithLogin(players[p], "", a)
<1>1. p \in DOMAIN players
  BY DEF AdminLogout
<1>2. /\ players[p] \in Player /\ Bounded(players[p], Givable)
      /\ loaded => Reasoned(p, players[p], kicks)
  BY <1>1, OnlinePlayerFacts
<1>3. old \in Nat /\ given \in Nat /\ Groups[1].access \in Nat /\ Groups[1].access \in Givable
  BY <1>2, GroupFacts, GivableFacts, LoginFacts DEF Player
<1>4. a \in Nat /\ (a = old \/ a = Groups[1].access)
  BY <1>3
<1>5. r \in Player /\ r.access = a /\ r.admin = "" /\ r.group = players[p].group
  <2> DEFINE t == ""
  <2>1. t \in Logins
    BY DEF Logins
  <2>2. r = WithLogin(players[p], t, a)
    OBVIOUS
  <2> HIDE DEF a, r, t
  <2>3. r \in Player /\ r.access = a /\ r.admin = t /\ r.group = players[p].group
    BY <1>2, <1>4, <2>1, <2>2, WithLoginFacts
  <2> QED  BY <2>3 DEF t
<1>6. Bounded(r, Givable)
  <2>1. CASE a = old
    BY <1>2, <1>5, <2>1 DEF Bounded
  <2>2. CASE a = Groups[1].access
    <3>1. r.access = Groups[1].access
      BY <1>5, <2>2
    <3> HIDE DEF r
    <3> QED  BY <1>3, <3>1 DEF Bounded
  <2> QED  BY <1>4, <2>1, <2>2
<1>7. ASSUME loaded PROVE Reasoned(p, r, kicks)
  <2>1. CASE old <= given
    <3>1. r.access = Groups[1].access
      BY <1>5, <1>7, <2>1
    <3> HIDE DEF r
    <3> QED  BY <1>3, <3>1 DEF Reasoned
  <2>2. CASE ~(old <= given)
    <3>1. a = old /\ old > given
      BY <1>3, <2>2
    <3> QED  BY <1>2, <1>5, <1>7, <3>1 DEF Reasoned
  <2> QED  BY <2>1, <2>2
<1>8. players' = [players EXCEPT ![p] = r] /\ UNCHANGED <<online, loaded, sections, saved, kicks>>
  BY <1>1 DEF AdminLogout, WithLogin
<1> HIDE DEF r, a
<1> QED  BY <1>1, <1>5, <1>6, <1>7, <1>8, PlayerStep

\* Taking the access back leaves what the login gives, which needs no reason.
LEMMA ResetFacts ==
  ASSUME NEW p, NEW ks, NEW r \in Player
  PROVE  /\ ResetAccess(r) \in Player /\ Bounded(ResetAccess(r), Givable)
         /\ Reasoned(p, ResetAccess(r), ks)
<1>1. r.admin \in {"", "moderator", "administrator"}
  BY DEF Player
<1>2. LoginAccess(r.admin) \in Nat /\ LoginAccess(r.admin) \in Givable
  BY <1>1, LoginFacts
<1>3. ResetAccess(r) = WithAccess(r, LoginAccess(r.admin))
  BY DEF ResetAccess, WithAccess
<1>4. /\ ResetAccess(r) \in Player /\ ResetAccess(r).access = LoginAccess(r.admin)
      /\ ResetAccess(r).admin = r.admin
  BY <1>2, <1>3, WithAccessFacts
<1>5. Bounded(ResetAccess(r), Givable)
  BY <1>2, <1>4 DEF Bounded
<1>6. Reasoned(p, ResetAccess(r), ks)
  BY <1>2, <1>4 DEF Reasoned
<1> QED  BY <1>4, <1>5, <1>6

LEMMA DeAuthStep ==
  ASSUME IInv, NEW u \in online, NEW p \in Persons, DeAuthIRCCommand(u, p)
  PROVE  IInv'
<1>1. p \in DOMAIN players
  BY DEF DeAuthIRCCommand
<1>2. players[p] \in Player
  BY <1>1, OnlinePlayerFacts
<1>3. /\ players' = [players EXCEPT ![p] = ResetAccess(players[p])]
      /\ UNCHANGED <<online, loaded, sections, saved, kicks>>
  BY DEF DeAuthIRCCommand
<1> QED  BY <1>1, <1>2, <1>3, ResetFacts, PlayerStep

\* A grant is bounded if the group is, and is itself a reason.
LEMMA TempAuthStep ==
  ASSUME IInv, NEW p \in DOMAIN players, NEW g \in 1 .. Len(Groups),
         Bounded(Groups[g], Givable), TempAuth(p, g)
  PROVE  IInv'
<1> DEFINE r == FromGroup(players[p], g)
<1>1. players[p] \in Player
  BY OnlinePlayerFacts
<1>2. /\ r \in Player /\ r.access = Groups[g].access /\ Reasoned(p, r, kicks)
  BY <1>1, FromGroupFacts
<1>3. players' = [players EXCEPT ![p] = r] /\ UNCHANGED <<online, loaded, sections, saved, kicks>>
  BY DEF TempAuth
<1> HIDE DEF r
<1>4. Bounded(r, Givable)
  BY <1>2 DEF Bounded
<1> QED  BY <1>2, <1>3, <1>4, PlayerStep

\* The group of an atm command is bounded by what he who gives it may give.
LEMMA ATMGroupFacts ==
  ASSUME NEW g \in 0 .. Len(Groups), NEW access \in Nat, ATMGroup(g, access) # 0,
         \A h \in 1 .. Len(Groups) : Groups[h].access <= access => Bounded(Groups[h], Givable)
  PROVE  /\ ATMGroup(g, access) \in 1 .. Len(Groups)
         /\ Bounded(Groups[ATMGroup(g, access)], Givable)
<1> DEFINE h == ATMGroup(g, access)
<1>1. CASE h = ATMDefault
  <2>1. h \in 1 .. Len(Groups)
    BY <1>1, GroupFacts
  <2>2. Groups[h].access \in Nat /\ Groups[h].access \in Givable
    BY <1>1, <2>1, GroupFacts, GivableFacts
  <2> HIDE DEF h
  <2>3. Bounded(Groups[h], Givable)
    BY <2>2 DEF Bounded
  <2> USE DEF h
  <2> QED  BY <2>1, <2>3
<1>2. CASE h = g /\ g # 0 /\ ~(Groups[g].access > access)
  <2>1. g \in 1 .. Len(Groups) /\ Groups[g].access \in Nat
    BY <1>2, GroupFacts
  <2>2. Groups[g].access <= access
    BY <1>2, <2>1
  <2> QED  BY <1>2, <2>1, <2>2
<1> QED  BY <1>1, <1>2 DEF ATMGroup

LEMMA ATMIRCStep ==
  ASSUME IInv, NEW u \in online, NEW p \in Persons, NEW g \in 0 .. Len(Groups),
         ATMIRCCommand(u, p, g)
  PROVE  IInv'
<1>1. p \in DOMAIN players /\ UserAccess[u] >= 3 /\ TempAuth(p, ATMGroup(g, UserAccess[u]))
  BY DEF ATMIRCCommand
<1>2. UserAccess[u] \in Nat
  BY ModeratorsAssumption DEF IInv, TypeOK
<1>3. ASSUME NEW h \in 1 .. Len(Groups), Groups[h].access <= UserAccess[u]
      PROVE  Bounded(Groups[h], Givable)
  <2>1. Groups[h].access \in Nat
    BY GroupFacts
  <2>2. Groups[h].access \in Givable
    BY <1>1, <1>3 DEF Givable
  <2> QED  BY <2>1, <2>2 DEF Bounded
<1>4. ATMGroup(g, UserAccess[u]) # 0
  BY <1>1 DEF TempAuth
<1> QED  BY <1>1, <1>2, <1>3, <1>4, ATMGroupFacts, TempAuthStep

LEMMA ATMGameStep ==
  ASSUME IInv, NEW j \in Persons, NEW p \in Persons, NEW g \in 0 .. Len(Groups),
         ATMGameCommand(j, p, g)
  PROVE  IInv'
<1> DEFINE access == players[j].access
<1>1. {j, p} \subseteq DOMAIN players /\ TempAuth(p, ATMGroup(g, access))
  BY DEF ATMGameCommand
<1>2. players[j] \in Player /\ Bounded(players[j], Givable)
  BY <1>1, OnlinePlayerFacts
<1>3. access \in Nat
  BY <1>2 DEF Player
<1>4. ASSUME NEW h \in 1 .. Len(Groups), Groups[h].access <= access
      PROVE  Bounded(Groups[h], Givable)
  <2>1. Groups[h].access \in Nat
    BY GroupFacts
  <2>2. PICK a \in Givable : access <= a
    BY <1>2 DEF Bounded
  <2>3. a \in Nat
    BY GivableFacts
  <2> HIDE DEF access
  <2>4. Groups[h].access <= a
    BY <1>3, <1>4, <2>1, <2>2, <2>3
  <2> QED  BY <2>4 DEF Bounded
<1>5. ATMGroup(g, access) # 0
  BY <1>1 DEF TempAuth
<1> HIDE DEF access
<1> QED  BY <1>1, <1>3, <1>4, <1>5, ATMGroupFacts, TempAuthStep

----------------------------------------------------------------------------
\* A command authenticates somebody: from IRC the player named, from the game
\* the one who gives it.
LEMMA AuthenticateStep ==
  ASSUME IInv, loaded, NEW p \in DOMAIN players, NEW force \in BOOLEAN,
         Authenticate(p, FALSE, force), UNCHANGED <<online, loaded, sections, saved>>
  PROVE  IInv'
<1> DEFINE a == Auth(p, players[p], FALSE, force, sections)
<1>1. players \in [DOMAIN players -> Player] /\ players' = [players EXCEPT ![p] = a]
  BY DEF IInv, TypeOK, Authenticate
<1>2. /\ kicks \subseteq kicks' /\ kicks' \subseteq DOMAIN players
      /\ Mismatch(p, players[p], force, sections) => p \in kicks' \cup KickExempt
  BY DEF IInv, TypeOK, Authenticate, Kick
<1>3. \A u \in DOMAIN sections : SectionOK(sections[u], Givable)
  BY DEF IInv
<1>4. a \in Player /\ Bounded(a, Givable) /\ Reasoned(p, a, kicks')
  BY <1>2, <1>3, OnlinePlayerFacts, AuthOutcome
<1> HIDE DEF a
<1>5. ASSUME NEW q \in DOMAIN players
      PROVE  /\ players'[q] \in Player /\ Bounded(players'[q], Givable)
             /\ Reasoned(q, players'[q], kicks')
  <2>1. CASE q = p
    BY <1>1, <1>4, <2>1
  <2>2. CASE q # p
    <3>1. players'[q] = players[q]
      BY <1>1, <2>2
    <3>2. players[q] \in Player /\ Bounded(players[q], Givable) /\ Reasoned(q, players[q], kicks)
      BY OnlinePlayerFacts
    <3> QED  BY <1>2, <3>1, <3>2, ReasonedStays
  <2> QED  BY <2>1, <2>2
<1>6. players' \in [DOMAIN players -> Player] /\ loaded' \in BOOLEAN
  BY <1>1, <1>4 DEF IInv, TypeOK
<1> HIDE DEF IInv
<1> QED  BY <1>2, <1>5, <1>6, PlayersStep

\* The plugin reads its configuration, and authenticates everybody.
LEMMA InitializeStep ==
  ASSUME IInv, Initialize(saved), loaded' = TRUE,
         sections' = saved, UNCHANGED <<online, saved>>
  PROVE  IInv'
<1>1. Kick({p \in DOMAIN players : Mismatch(p, players[p], FALSE, saved)})
  BY DEF Initialize
<1>2. players' = [p \in DOMAIN players |->
                    Auth(p, players[p], TRUE, FALSE, saved)]
  BY DEF Initialize
<1>3. \A u \in DOMAIN saved : SectionOK(saved[u], Givable)
  BY SavedFacts
<1>4. \A p \in DOMAIN players : players[p] \in Player /\ Bounded(players[p], Givable)
  BY DEF IInv, TypeOK
<1>5. kicks' \subseteq DOMAIN players
  BY <1>1 DEF Kick, IInv, TypeOK
<1>6. ASSUME NEW p \in DOMAIN players
      PROVE  /\ players'[p] \in Player /\ Bounded(players'[p], Givable)
             /\ Reasoned(p, players'[p], kicks')
  <2>1. Mismatch(p, players[p], FALSE, saved) => p \in kicks' \cup KickExempt
    BY <1>1 DEF Kick
  <2> QED  BY <1>2, <1>3, <1>4, <2>1, AuthOutcome
<1>7. DOMAIN players' = DOMAIN players /\ players' \in [DOMAIN players' -> Player]
  BY <1>2, <1>6
<1>8. Givable' = Givable
  BY GivableStays
<1>9. TypeOK'
  BY <1>5, <1>7 DEF IInv, TypeOK
<1>10. MembershipIsDurable'
  BY DEF MembershipIsDurable
<1>11. \A u \in DOMAIN sections' : SectionOK(sections'[u], Givable')
  BY <1>3, <1>8
<1>12. /\ \A p \in DOMAIN players' : Bounded(players'[p], Givable')
       /\ \A p \in DOMAIN players' : Reasoned(p, players'[p], kicks')
  BY <1>6, <1>7, <1>8
<1> QED  BY <1>9, <1>10, <1>11, <1>12 DEF IInv

\* Without the plugin a player has what the login to the game gives.
LEMMA UnloadStep ==
  ASSUME IInv, Unload
  PROVE  IInv'
<1>1. ASSUME NEW p \in DOMAIN players
      PROVE  players'[p] \in Player /\ Bounded(players'[p], Givable)
  <2> DEFINE r == players[p]
             a == CASE r.admin = "administrator" -> 2 [] r.admin = "moderator" -> 1 [] OTHER -> 0
             x == FromLevel(r, 0, a)
  <2>1. players'[p] = x
    BY DEF Unload, FromLevel
  <2>2. a \in {0, 1, 2}
    OBVIOUS
  <2>3. a \in Nat /\ a \in Givable /\ 0 \in 0 .. Len(Groups) /\ r \in Player
    BY <2>2, GivableFacts, GroupFacts, OnlinePlayerFacts
  <2> HIDE DEF a, r
  <2>4. x \in Player /\ x.access = a
    BY <2>3, FromLevelFacts
  <2> HIDE DEF x
  <2> QED  BY <2>1, <2>3, <2>4 DEF Bounded
<1>2. players' \in [DOMAIN players -> Player]
  BY <1>1 DEF Unload
<1>3. /\ UNCHANGED <<online, sections, saved, kicks>> /\ loaded' = FALSE
      /\ kicks \subseteq DOMAIN players
  BY DEF Unload, IInv, TypeOK
<1> HIDE DEF IInv
<1> QED  BY <1>1, <1>2, <1>3, PlayersStep

\* Somebody joins, with access 0, and is authenticated if the plugin is loaded.
LEMMA PlayerCreateStep ==
  ASSUME IInv, NEW p \in Persons, NEW steam \in Steams, PlayerCreate(p, steam)
  PROVE  IInv'
<1> DEFINE r == NewPlayer(steam)
           a == Auth(p, r, TRUE, FALSE, sections)
<1>1. r \in Player /\ r.access = 0
  <2>1. 0 \in 0 .. Len(Groups)
    BY GroupFacts
  <2> QED  BY <2>1 DEF NewPlayer, Player
<1>2. Bounded(r, Givable)
  <2> HIDE DEF r
  <2>1. 0 \in Givable
    BY GivableFacts
  <2>2. r.access <= 0
    BY <1>1
  <2> QED  BY <2>1, <2>2 DEF Bounded
<1>3. /\ kicks' = kicks \cup ({q \in {p} : loaded /\ Mismatch(q, r, FALSE, sections)} \ KickExempt)
      /\ DOMAIN players' = DOMAIN players \cup {p}
      /\ \A q \in DOMAIN players \ {p} : players'[q] = players[q]
      /\ players'[p] = IF loaded THEN a ELSE r
      /\ UNCHANGED <<online, loaded, sections, saved>>
  BY DEF PlayerCreate, Kick
<1>4. kicks \subseteq kicks' /\ kicks' \subseteq DOMAIN players'
  BY <1>3 DEF IInv, TypeOK
<1>5. \A u \in DOMAIN sections : SectionOK(sections[u], Givable)
  BY DEF IInv
<1>6. loaded /\ Mismatch(p, r, FALSE, sections) => p \in kicks' \cup KickExempt
  BY <1>3
<1> HIDE DEF r
<1>7. loaded => a \in Player /\ Bounded(a, Givable) /\ Reasoned(p, a, kicks')
  BY <1>1, <1>2, <1>5, <1>6, AuthOutcome
<1> HIDE DEF a
<1>8. ASSUME NEW q \in DOMAIN players'
      PROVE  /\ players'[q] \in Player /\ Bounded(players'[q], Givable)
             /\ loaded => Reasoned(q, players'[q], kicks')
  <2>1. CASE q = p
    BY <1>1, <1>2, <1>3, <1>7, <2>1
  <2>2. CASE q # p
    <3>1. q \in DOMAIN players /\ players'[q] = players[q]
      BY <1>3, <2>2
    <3>2. /\ players[q] \in Player /\ Bounded(players[q], Givable)
          /\ loaded => Reasoned(q, players[q], kicks)
      BY <3>1, OnlinePlayerFacts
    <3> QED  BY <1>4, <3>1, <3>2, ReasonedStays
  <2> QED  BY <2>1, <2>2
<1>9. Givable' = Givable
  BY <1>3, GivableStays
<1>10. players' \in [DOMAIN players' -> Player] /\ DOMAIN players' \subseteq Persons
  BY <1>3, <1>8 DEF PlayerCreate, IInv, TypeOK
<1>11. TypeOK'
  BY <1>3, <1>4, <1>10 DEF IInv, TypeOK
<1>12. MembershipIsDurable' /\ \A u \in DOMAIN sections' : SectionOK(sections'[u], Givable')
  BY <1>3, <1>9 DEF IInv, MembershipIsDurable
<1> QED  BY <1>3, <1>8, <1>9, <1>11, <1>12 DEF IInv

\* What a section takes over from a player who leaves has no say in its level.
LEMMA PlayerDeleteStep ==
  ASSUME IInv, NEW p \in Persons, PlayerDelete(p)
  PROVE  IInv'
<1>1. /\ p \in DOMAIN players /\ kicks' = kicks \ {p}
      /\ players' = [q \in DOMAIN players \ {p} |-> players[q]]
      /\ UNCHANGED <<online, loaded, saved>>
  BY DEF PlayerDelete
<1>2. players[p].steam \in Steams /\ Who[p].ip \in IPs /\ Who[p].name \in Names
  BY <1>1, OnlinePlayerFacts, PersonFacts DEF Player
<1>3. DOMAIN sections' = DOMAIN sections
  BY DEF PlayerDelete, IInv, TypeOK
<1>4. ASSUME NEW u \in DOMAIN sections
      PROVE  /\ sections'[u] \in Section
             /\ sections'[u].group = sections[u].group /\ sections'[u].own = sections[u].own
  <2>1. sections[u] \in Section
    BY DEF IInv, TypeOK
  <2>2. \/ sections'[u] = sections[u]
        \/ sections'[u] = [sections[u] EXCEPT !.steam = players[p].steam,
                                              !.ip = Who[p].ip, !.name = Who[p].name]
    BY <2>1 DEF PlayerDelete, IInv, TypeOK
  <2> QED  BY <1>2, <2>1, <2>2 DEF Section
<1>5. Givable' = Givable
  BY <1>1, GivableStays
<1>6. \A u \in DOMAIN sections' : SectionOK(sections'[u], Givable')
  BY <1>3, <1>4, <1>5 DEF IInv, SectionOK, Setting
<1>7. MembershipIsDurable'
  BY <1>1, <1>3, <1>4 DEF IInv, MembershipIsDurable
<1>8. TypeOK'
  <2>1. sections' \in [DOMAIN sections' -> Section]
    BY <1>3, <1>4 DEF PlayerDelete, IInv, TypeOK
  <2> QED  BY <1>1, <1>3, <2>1 DEF IInv, TypeOK
<1>9. \A q \in DOMAIN players' : Bounded(players'[q], Givable')
  BY <1>1, <1>5 DEF IInv
<1>10. loaded' => \A q \in DOMAIN players' : Reasoned(q, players'[q], kicks')
  BY <1>1 DEF IInv, Reasoned
<1> QED  BY <1>6, <1>7, <1>8, <1>9, <1>10 DEF IInv

\* A section that is written is bounded: whoever adds may give every group.
LEMMA AddStep ==
  ASSUME IInv, NEW u \in online, NEW p \in Persons, NEW g \in 1 .. Len(Groups),
         AddIRCCommand(u, p, g)
  PROVE  IInv'
<1> DEFINE id == UuidOf(p)
           r == ResetAccess(players[p])
           a == Auth(p, r, FALSE, TRUE, sections')
<1>1. /\ p \in DOMAIN players /\ loaded /\ UserAccess[u] >= 5 /\ id # ""
      /\ sections' = WithSection(p, g) /\ saved' = sections'
      /\ players' = [players EXCEPT ![p] = a]
      /\ UNCHANGED <<online, loaded, kicks>>
  BY DEF AddIRCCommand
<1>2. players[p] \in Player
  BY <1>1, OnlinePlayerFacts
<1>3. id \in UUIDs
  <2>1. players[p].steam \in Steams /\ Who[p].name \in Names
    BY <1>2, PersonFacts DEF Player
  <2> QED  BY <1>1, <2>1, ModeratorsAssumption DEF UuidOf
<1>4. Givable' = Givable
  BY <1>1, GivableStays
<1>5. Groups[g].access \in Givable
  BY <1>1 DEF Givable, MayAdd
<1>6. DOMAIN sections' = DOMAIN sections \cup {id} /\ DOMAIN sections' \subseteq UUIDs
  BY <1>1, <1>3 DEF WithSection, IInv, TypeOK
<1>7. ASSUME NEW v \in DOMAIN sections'
      PROVE  SectionOK(sections'[v], Givable)
  <2>1. CASE v # id
    <3>1. v \in DOMAIN sections /\ sections'[v] = sections[v]
      BY <1>1, <1>6, <2>1 DEF WithSection
    <3> QED  BY <3>1 DEF IInv
  <2>2. CASE v = id
    <3> DEFINE own == IF id \in DOMAIN sections THEN sections[id].own ELSE Inherits
               s == sections'[v]
    <3>1. s = [group |-> g, steam |-> players[p].steam, ip |-> Who[p].ip,
               name |-> Who[p].name, own |-> own]
      BY <1>1, <1>6, <2>2 DEF WithSection
    <3>2. own \in Owns
      BY DEF IInv, TypeOK, Section, Owns
    <3> HIDE DEF own
    <3>3. s \in Section
      <4>1. players[p].steam \in Steams
        BY <1>2 DEF Player
      <4> QED  BY <3>1, <3>2, <4>1, PersonFacts DEF Section
    <3>4. s.group = g
      BY <3>1
    <3> HIDE DEF s
    <3>5. Setting(s, "access") \in OwnLevels \/ Setting(s, "access") = Groups[g].access
      BY <3>3, <3>4, SettingFacts
    <3>6. Setting(s, "access") \in Givable
      BY <1>5, <3>5, GivableFacts
    <3> USE DEF s
    <3> QED  BY <3>3, <3>6 DEF SectionOK
  <2> QED  BY <2>1, <2>2
<1>8. a \in Player /\ Bounded(a, Givable) /\ Reasoned(p, a, kicks)
  <2>1. r \in Player /\ Bounded(r, Givable)
    BY <1>2, ResetFacts
  <2>2. ~Mismatch(p, r, TRUE, sections')
    BY DEF Mismatch
  <2> HIDE DEF r
  <2> QED  BY <1>7, <2>1, <2>2, AuthOutcome
<1> HIDE DEF a
<1>9. DOMAIN players' = DOMAIN players /\ players' \in [DOMAIN players' -> Player]
  BY <1>1, <1>8 DEF IInv, TypeOK
<1>10. /\ \A q \in DOMAIN players' : Bounded(players'[q], Givable')
       /\ loaded' => \A q \in DOMAIN players' : Reasoned(q, players'[q], kicks')
  BY <1>1, <1>4, <1>8, <1>9 DEF IInv
<1>11. sections' \in [DOMAIN sections' -> Section]
  <2>1. sections' = [v \in DOMAIN sections' |-> sections'[v]]
    BY <1>1 DEF WithSection
  <2> QED  BY <1>7, <2>1 DEF SectionOK
<1>12. TypeOK'
  BY <1>1, <1>6, <1>9, <1>11 DEF IInv, TypeOK
<1>13. MembershipIsDurable'
  BY <1>1 DEF MembershipIsDurable
<1> QED  BY <1>4, <1>7, <1>10, <1>12, <1>13 DEF IInv

LEMMA DelStep ==
  ASSUME IInv, NEW u \in online, NEW id \in UUIDs, DelIRCCommand(u, id)
  PROVE  IInv'
<1>1. /\ DOMAIN sections' = DOMAIN sections \ {id}
      /\ sections' = [v \in DOMAIN sections' |-> sections'[v]]
      /\ \A v \in DOMAIN sections' : sections'[v] = sections[v]
      /\ saved' = sections' /\ UNCHANGED <<online, loaded, players, kicks>>
  BY DEF DelIRCCommand
<1>2. Givable' = Givable
  BY <1>1, GivableStays
<1>3. sections' \in [DOMAIN sections' -> Section] /\ DOMAIN sections' \subseteq UUIDs
  BY <1>1 DEF IInv, TypeOK
<1>4. TypeOK' /\ MembershipIsDurable'
  BY <1>1, <1>3 DEF IInv, TypeOK, MembershipIsDurable
<1> QED  BY <1>1, <1>2, <1>4 DEF IInv

----------------------------------------------------------------------------
LEMMA InitIInv == Init => IInv
<1> SUFFICES ASSUME Init PROVE IInv
  OBVIOUS
<1>1. /\ players = [p \in {} |-> 0] /\ DOMAIN players = {} /\ kicks = {}
      /\ online \subseteq Users /\ loaded \in BOOLEAN
      /\ sections = InitSections /\ saved = InitSections
  BY DEF Init
<1>2. InitSections \in [DOMAIN InitSections -> Section] /\ DOMAIN InitSections \subseteq UUIDs
  BY ModeratorsAssumption
<1>3. players \in [DOMAIN players -> Player]
  BY <1>1
<1>4. TypeOK
  BY <1>1, <1>2, <1>3 DEF TypeOK
<1>5. ASSUME NEW u \in DOMAIN InitSections
      PROVE  SectionOK(InitSections[u], Givable)
  <2>1. InitSections[u] \in Section
    BY <1>2
  <2>2. Groups[InitSections[u].group].access \in Givable
    BY DEF Givable
  <2>3. \/ Setting(InitSections[u], "access") \in OwnLevels
        \/ Setting(InitSections[u], "access") = Groups[InitSections[u].group].access
    BY <2>1, SettingFacts
  <2> QED  BY <2>1, <2>2, <2>3, GivableFacts DEF SectionOK
<1> QED  BY <1>1, <1>4, <1>5 DEF IInv, MembershipIsDurable

LEMMA NextIInv == IInv /\ [Next]_vars => IInv'
<1> SUFFICES ASSUME IInv, [Next]_vars PROVE IInv'
  OBVIOUS
<1>1. ASSUME NEW p \in Persons, NEW steam \in {Who[p].steam, ""}, PlayerCreate(p, steam)
      PROVE  IInv'
  <2>1. steam \in Steams
    BY DEF Steams
  <2> QED  BY <1>1, <2>1, PlayerCreateStep
<1>2. ASSUME NEW p \in Persons, SteamLearnt(p) \/ PlayerDelete(p) \/ AdminLogout(p)
      PROVE  IInv'
  BY <1>2, SteamLearntStep, PlayerDeleteStep, AdminLogoutStep
<1>3. ASSUME NEW p \in Persons, NEW t \in {"moderator", "administrator"}, AdminLogin(p, t)
      PROVE  IInv'
  BY <1>3, AdminLoginStep
<1>4. ASSUME NEW u \in online, NEW p \in Persons, AuthIRCCommand(u, p) \/ ForceAuthIRCCommand(u, p)
      PROVE  IInv'
  BY <1>4, AuthenticateStep DEF AuthIRCCommand, ForceAuthIRCCommand
<1>5. ASSUME NEW u \in online, NEW p \in Persons, DeAuthIRCCommand(u, p)
      PROVE  IInv'
  BY <1>5, DeAuthStep
<1>6. ASSUME NEW u \in online, NEW p \in Persons, NEW g \in 0 .. Len(Groups), ATMIRCCommand(u, p, g)
      PROVE  IInv'
  BY <1>6, ATMIRCStep
<1>7. ASSUME NEW u \in online, NEW p \in Persons, NEW g \in 1 .. Len(Groups), AddIRCCommand(u, p, g)
      PROVE  IInv'
  BY <1>7, AddStep
<1>8. ASSUME NEW u \in online, NEW id \in UUIDs, DelIRCCommand(u, id)
      PROVE  IInv'
  BY <1>8, DelStep
<1>9. ASSUME NEW j \in Persons, NEW p \in Persons, AuthGameCommand(j, p) \/ ForceAuthGameCommand(j, p)
      PROVE  IInv'
  BY <1>9, AuthenticateStep DEF AuthGameCommand, ForceAuthGameCommand, Authenticates
<1>10. ASSUME NEW j \in Persons, NEW p \in Persons, NEW g \in 0 .. Len(Groups), ATMGameCommand(j, p, g)
       PROVE  IInv'
  BY <1>10, ATMGameStep
<1>11. CASE OnRehash
  BY <1>11, InitializeStep DEF OnRehash, IInv, TypeOK
<1>12. CASE Unload
  BY <1>12, UnloadStep
<1>13. CASE Load
  BY <1>13, InitializeStep DEF Load
<1>14. CASE UNCHANGED vars
  BY <1>14, GivableStays DEF vars, IInv, TypeOK, MembershipIsDurable
<1> HIDE DEF IInv
<1> QED
  BY <1>1, <1>2, <1>3, <1>4, <1>5, <1>6, <1>7, <1>8, <1>9, <1>10, <1>11, <1>12, <1>13, <1>14
  DEF Next

\* The invariant holds at all times.
THEOREM Inductive == Spec => []IInv
<1> QED  BY InitIInv, NextIInv, PTL DEF Spec

\* Everything has its type, and the file says who is a moderator of which group
\* as memory does: what add and del change survives a rehash, a reload and a
\* restart, whatever players did with the records in memory in between.
THEOREM SectionsAreSound == Spec => []SectionsSound
<1>1. IInv => SectionsSound
  BY DEF IInv, SectionsSound
<1> QED  BY <1>1, Inductive, PTL

\* Grants, authentications, logins, logouts, rehashes and reloads, in whatever
\* order, lift nobody above the highest level that somebody may give.
THEOREM NobodyEscalates == Spec => []NoEscalation
<1>1. IInv => NoEscalation
  BY DEF IInv, NoEscalation, Bounded
<1> QED  BY <1>1, Inductive, PTL

\* While the plugin is loaded, nobody is above the default group for no reason:
\* he is logged in, was given a group or a level of his own, or is turned away.
THEOREM NobodyOutranksForNothing == Spec => []OutranksForAReason
<1>1. ASSUME IInv PROVE OutranksForAReason
  <2> SUFFICES ASSUME loaded, NEW p \in DOMAIN players,
                      players[p].access > Groups[1].access, players[p].admin = ""
               PROVE  \/ players[p].group > 1 \/ players[p].access \in OwnLevels
                      \/ p \in kicks \cup KickExempt
    BY DEF OutranksForAReason
  <2>1. Reasoned(p, players[p], kicks)
    BY <1>1 DEF IInv
  <2> QED  BY <2>1, LoginOfNobody DEF Reasoned
<1> QED  BY <1>1, Inductive, PTL
=============================================================================
