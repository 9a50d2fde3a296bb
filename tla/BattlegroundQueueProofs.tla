----------------------- MODULE BattlegroundQueueProofs -----------------------
(***************************************************************************)
(* What is proved about BattlegroundQueue: the counts of a battleground    *)
(* are those of its players and invitees, no team is too large, the slots  *)
(* of a player agree with the queue, and an invitation has an event that   *)
(* ends it; an invitation keeps the teams fair, and who waits keeps his    *)
(* place.                                                                  *)
(*                                                                         *)
(* The functions of BattlegroundQueue take a state q of the queue and give *)
(* the next one, so the inductive invariant, Sound, is about such a q,     *)
(* together with where the players are (b for bgId, a for at).  There is   *)
(* one lemma for each function, and then one for each action.              *)
(***************************************************************************)
EXTENDS BattlegroundQueue, FiniteSetTheorems, SequenceTheorems,
        WellFoundedInduction, TLAPS

----------------------------------------------------------------------------
(* The inductive invariant.                                                *)

Places == {"world", "far", "offline"}
GroupRow == [players : SUBSET Player, team : Team, invited : Nat]
QueueState == [groups : Seq(GroupRow), bgs : Seq(BgRow \cup {NULL}),
               free : Seq(Nat), slot : [Player -> Nat \cup {NULL}],
               events : [Player -> Seq(Nat)]]
Whereabouts(b, a) == b \in [Player -> Nat] /\ a \in [Player -> Places]

Alive(q, i) == i \in DOMAIN q.bgs /\ q.bgs[i] # NULL

\* Nobody is in two groups of the queue, and a group is of one team.
GroupsApart(q) ==
    \A k \in DOMAIN q.groups :
        /\ q.groups[k].players # {}
        /\ \A p \in q.groups[k].players : TeamOf(p) = q.groups[k].team
        /\ \A l \in DOMAIN q.groups \ {k} :
              q.groups[k].players \cap q.groups[l].players = {}

\* By whom a player is invited: {} when he is not queued, {0} when he waits.
InvitedOf(q, p) == {q.groups[k].invited : k \in GroupOf(q, p)}

\* The instances that are spoken of exist, or existed.
Known(q, b) ==
    \A p \in Player : InvitedOf(q, p) \cup {b[p]} \subseteq {0} \cup DOMAIN q.bgs

FreeAlive(q) == IsInjective(q.free) /\ \A k \in DOMAIN q.free : Alive(q, q.free[k])

\* The slot of who is queued, of who is not, and of who is offline.
SlotSound(q, b, a, p) ==
    /\ \A j \in InvitedOf(q, p) : a[p] # "offline" /\ q.slot[p] = j /\ b[p] = 0
    /\ InvitedOf(q, p) = {} =>
          \/ q.slot[p] = NULL /\ (a[p] = "offline" \/ b[p] = 0)
          \/ q.slot[p] = b[p] /\ a[p] # "offline" /\ b[p] # 0

\* Who is inside a battleground knows it, and who is in the world is inside.
InsideSound(q, b, a, i) ==
    /\ \A p \in q.bgs[i].players : b[p] = i /\ a[p] # "far"
    /\ \A p \in Player : a[p] = "world" /\ b[p] = i => p \in q.bgs[i].players

CountedIn(q, b, a, i, t) ==
    {p \in Player : TeamOf(p) = t /\
       \/ i \in InvitedOf(q, p)
       \/ p \in q.bgs[i].players
       \/ a[p] = "far" /\ b[p] = i}

CountsExact(q, b, a, i) ==
    \A t \in Team :
        /\ q.bgs[i].invited[t] = Cardinality(CountedIn(q, b, a, i, t))
        /\ q.bgs[i].invited[t] <= MaxPlayersPerTeam

\* A battleground without anybody will be deleted.
EmptyDeleted(q, b, a, i) ==
    (\A t \in Team : CountedIn(q, b, a, i, t) = {}) => q.bgs[i].deleteThis

\* Every invitation of a battleground that goes on has its event.
EventsSound(q, p) ==
    \A j \in InvitedOf(q, p) : Alive(q, j) => j \in ToSet(q.events[p])

\* All of it, but that battleground e is perhaps not filled yet.
SoundBut(q, b, a, e) ==
    /\ q \in QueueState /\ Whereabouts(b, a)
    /\ GroupsApart(q) /\ Known(q, b) /\ FreeAlive(q)
    /\ \A p \in Player : SlotSound(q, b, a, p) /\ EventsSound(q, p)
    /\ \A i \in DOMAIN q.bgs : q.bgs[i] # NULL =>
          /\ InsideSound(q, b, a, i) /\ CountsExact(q, b, a, i)
          /\ i # e => EmptyDeleted(q, b, a, i)

Sound(q, b, a) == SoundBut(q, b, a, 0)

QueueInv == handled \in Nat /\ Sound(Queue, bgId, at)

----------------------------------------------------------------------------
(* Numbers, sequences and folds.                                           *)

\* A set of numbers has a least one.
LEMMA Least ==
  ASSUME NEW T, T \subseteq Nat, T # {}
  PROVE  \E m \in T : \A k \in T : m <= k
  <1> DEFINE R == OpToRel(<, Nat)
  <1>1. IsWellFoundedOn(R, Nat)
    BY NatLessThanWellFounded
  <1>2. \A x, y \in Nat : <<x, y>> \in R <=> x < y
    BY DEF OpToRel
  <1> HIDE DEF R
  <1>3. PICK x \in T : \A y \in T : ~(<<y, x>> \in R)
    BY <1>1, WFMin
  <1>4. ASSUME NEW k \in T PROVE x <= k
    <2>1. x \in Nat /\ k \in Nat /\ ~(k < x)
      BY <1>2, <1>3
    <2> QED
      BY ONLY <2>1
  <1> QED
    BY <1>4

\* What a fold keeps at every step holds at its end.
LEMMA KeptBySteps ==
  ASSUME NEW P, NEW n \in Nat, NEW r, r[0] \in P,
         \A k \in 1..n : r[k - 1] \in P => r[k] \in P
  PROVE  \A k \in 0..n : r[k] \in P
  <1> DEFINE T == {k \in 0..n : r[k] \notin P}
  <1> SUFFICES ASSUME T # {} PROVE FALSE
    OBVIOUS
  <1>1. PICK m \in T : \A k \in T : m <= k
    <2>1. T \subseteq Nat
      OBVIOUS
    <2> HIDE DEF T
    <2> QED
      BY <2>1, Least
  <1>2. m \in 0..n /\ m # 0 /\ r[m] \notin P
    OBVIOUS
  <1>3. m \in 1..n /\ m - 1 \in 0..n /\ ~(m <= m - 1)
    BY <1>2
  <1>4. m - 1 \notin T
    BY <1>1, <1>3
  <1> QED
    BY <1>2, <1>3, <1>4

\* The fold of functions F[1], ..., F[n] on a set of states exists.
IsFold(P, n, q, F, g) ==
    /\ g \in [0..n -> P]
    /\ g[0] = q
    /\ \A k \in 1..n : g[k] = F[k][g[k - 1]]

HasFold(P, n, q, F) == \E g : IsFold(P, n, q, F, g)

\* There is such a g for any n, by the least one that has none.
LEMMA FoldExists ==
  ASSUME NEW P, NEW n \in Nat, NEW q \in P, NEW F \in [1..n -> [P -> P]]
  PROVE  HasFold(P, n, q, F)
  <1> DEFINE T == {m \in 0..n : ~HasFold(P, m, q, F)}
  <1> SUFFICES ASSUME T # {} PROVE FALSE
    OBVIOUS
  <1>1. PICK m \in T : \A k \in T : m <= k
    <2>1. T \subseteq Nat
      OBVIOUS
    <2> HIDE DEF T
    <2> QED
      BY <2>1, Least
  <1>2. m \in 0..n /\ ~HasFold(P, m, q, F)
    OBVIOUS
  <1>3. m # 0
    <2> SUFFICES ASSUME m = 0 PROVE FALSE
      OBVIOUS
    <2> DEFINE g == [k \in 0..0 |-> q]
    <2>1. IsFold(P, 0, q, F, g)
      BY DEF IsFold
    <2> QED
      BY <1>2, <2>1 DEF HasFold
  <1>4. m \in 1..n /\ m - 1 \in 0..n /\ ~(m <= m - 1) /\ m - 1 \in 0..(m - 1)
    BY <1>2, <1>3
  <1>5. PICK g : IsFold(P, m - 1, q, F, g)
    <2>1. m - 1 \notin T
      BY <1>1, <1>4
    <2> QED
      BY <1>4, <2>1 DEF HasFold
  <1>6. /\ g \in [0..(m - 1) -> P] /\ g[0] = q
        /\ \A k \in 1..(m - 1) : g[k] = F[k][g[k - 1]]
    BY <1>5 DEF IsFold
  <1> DEFINE h == [k \in 0..m |-> IF k = m THEN F[m][g[m - 1]] ELSE g[k]]
  <1>7. g[m - 1] \in P /\ F[m][g[m - 1]] \in P
    BY <1>4, <1>6
  <1>8. \A k \in 0..m : k # m => k \in 0..(m - 1)
    BY <1>4
  <1>9. h \in [0..m -> P]
    BY <1>6, <1>7, <1>8
  <1>10. /\ \A k \in 0..(m - 1) : k \in 0..m /\ h[k] = g[k]
         /\ h[m] = F[m][g[m - 1]] /\ 0 \in 0..(m - 1)
    BY <1>4
  <1> HIDE DEF h
  <1>11. ASSUME NEW k \in 1..m
         PROVE  h[k] = F[k][h[k - 1]]
    <2>1. CASE k = m
      BY <1>4, <1>10, <2>1
    <2>2. CASE k # m
      <3>1. k \in 1..(m - 1) /\ k \in 0..(m - 1) /\ k - 1 \in 0..(m - 1)
        BY <1>4, <2>2
      <3> QED
        BY <1>6, <1>10, <3>1
    <2> QED
      BY <2>1, <2>2
  <1>12. IsFold(P, m, q, F, h)
    BY <1>6, <1>9, <1>10, <1>11 DEF IsFold
  <1> QED
    BY <1>2, <1>12 DEF HasFold

\* A finite set can be listed.
LEMMA SetAsSequence ==
  ASSUME NEW S, IsFiniteSet(S)
  PROVE  /\ Cardinality(S) \in Nat
         /\ SetToSeq(S) \in [1..Cardinality(S) -> S]
  <1> DEFINE n == Cardinality(S)
  <1>1. n \in Nat /\ ExistsBijection(1..n, S)
    BY FS_CardinalityType
  <1>2. PICK f : f \in Bijection(1..n, S)
    BY <1>1 DEF ExistsBijection
  <1>3. f \in [1..n -> S] /\ IsInjective(f)
    BY <1>2 DEF Bijection, Injection, IsInjective
  <1>4. SetToSeq(S) \in [1..n -> S] /\ IsInjective(SetToSeq(S))
    BY <1>3 DEF SetToSeq
  <1> QED
    BY <1>1, <1>4

\* Erasing the element at i moves those behind it by one.
LEMMA Erased ==
  ASSUME NEW S, NEW q \in Seq(S), NEW k \in 1..Len(q)
  PROVE  /\ RemoveAt(q, k) \in Seq(S)
         /\ Len(RemoveAt(q, k)) = Len(q) - 1
         /\ \A i \in 1..(Len(q) - 1) :
               RemoveAt(q, k)[i] = IF i < k THEN q[i] ELSE q[i + 1]
  <1> DEFINE a == SubSeq(q, 1, k - 1)
             b == SubSeq(q, k + 1, Len(q))
  <1>1. Len(q) \in Nat /\ \A i \in 1..Len(q) : q[i] \in S
    BY LenProperties, ElementOfSeq
  <1>2. /\ a \in Seq(S) /\ Len(a) = k - 1
        /\ \A i \in 1..(k - 1) : a[i] = q[i]
    <2>1. \A i \in 1..(k - 1) : q[i] \in S
      BY <1>1
    <2>2. 1 \in Int /\ k - 1 \in Int
      BY <1>1
    <2>3. /\ a \in Seq(S) /\ Len(a) = IF 1 <= k - 1 THEN k - 1 - 1 + 1 ELSE 0
          /\ \A i \in 1..(k - 1 - 1 + 1) : a[i] = q[1 + i - 1]
      BY <2>1, <2>2, SubSeqProperties
    <2> QED
      BY <1>1, <2>3
  <1>3. /\ b \in Seq(S) /\ Len(b) = Len(q) - k
        /\ \A i \in 1..(Len(q) - k) : b[i] = q[i + k]
    <2>1. \A i \in (k + 1)..Len(q) : q[i] \in S
      BY <1>1
    <2>2. k + 1 \in Int /\ Len(q) \in Int
      BY <1>1
    <2>3. /\ b \in Seq(S)
          /\ Len(b) = IF k + 1 <= Len(q) THEN Len(q) - (k + 1) + 1 ELSE 0
          /\ \A i \in 1..(Len(q) - (k + 1) + 1) : b[i] = q[k + 1 + i - 1]
      BY <2>1, <2>2, SubSeqProperties
    <2> QED
      BY <1>1, <2>3
  <1>4. /\ a \o b \in Seq(S) /\ Len(a \o b) = Len(q) - 1
        /\ \A i \in 1..(Len(q) - 1) :
              (a \o b)[i] = IF i <= k - 1 THEN a[i] ELSE b[i - (k - 1)]
    <2> HIDE DEF a, b
    <2>1. /\ a \o b \in Seq(S) /\ Len(a \o b) = Len(a) + Len(b)
          /\ \A i \in 1..(Len(a) + Len(b)) :
                (a \o b)[i] = IF i <= Len(a) THEN a[i] ELSE b[i - Len(a)]
      <3>1. a \in Seq(S) /\ b \in Seq(S)
        BY ONLY <1>2, <1>3
      <3> QED
        BY ONLY <3>1, ConcatProperties
    <2> QED
      BY <2>1, <1>1, <1>2, <1>3
  <1>5. RemoveAt(q, k) = a \o b
    BY DEF RemoveAt
  <1> HIDE DEF a, b
  <1>6. ASSUME NEW i \in 1..(Len(q) - 1)
        PROVE  (a \o b)[i] = IF i < k THEN q[i] ELSE q[i + 1]
    <2>1. CASE i < k
      BY <1>1, <1>2, <1>4, <2>1
    <2>2. CASE ~(i < k)
      <3>1. i - (k - 1) \in 1..(Len(q) - k) /\ (i - (k - 1)) + k = i + 1
        BY <1>1, <2>2
      <3>2. b[i - (k - 1)] = q[i + 1]
        BY <1>3, <3>1
      <3>3. ~(i <= k - 1)
        BY <1>1, <2>2
      <3> QED
        BY <1>4, <2>2, <3>2, <3>3
    <2> QED
      BY <2>1, <2>2
  <1> QED
    BY <1>4, <1>5, <1>6

----------------------------------------------------------------------------
(* Players, groups and battlegrounds.                                      *)

\* Sets of players are finite, and their sizes add up.
LEMMA PlayersFinite ==
  ASSUME NEW S \in SUBSET Player
  PROVE  /\ IsFiniteSet(S) /\ Cardinality(S) \in Nat
         /\ Cardinality(S) = 0 <=> S = {}
  <1>1. IsFiniteSet(S)
    BY BattlegroundAssumption, FS_Subset
  <1> QED
    BY <1>1, FS_CardinalityType, FS_EmptySet

\* The numbers of players of two sets that are apart add up.
LEMMA PlayersJoin ==
  ASSUME NEW S \in SUBSET Player, NEW T \in SUBSET Player, S \cap T = {}
  PROVE  Cardinality(S \cup T) = Cardinality(S) + Cardinality(T)
  <1>1. IsFiniteSet(S) /\ IsFiniteSet(T)
    BY PlayersFinite
  <1>2. Cardinality(S) \in Nat /\ Cardinality(T) \in Nat
    BY PlayersFinite
  <1>3. Cardinality(S \cup T) = Cardinality(S) + Cardinality(T) - Cardinality(S \cap T)
    BY <1>1, FS_Union
  <1>4. Cardinality(S \cap T) = 0
    BY FS_EmptySet
  <1> QED
    BY <1>2, <1>3, <1>4

\* One player less.
LEMMA PlayerLess ==
  ASSUME NEW S \in SUBSET Player, NEW p \in S
  PROVE  Cardinality(S) \in Nat \ {0} /\ Cardinality(S \ {p}) = Cardinality(S) - 1
  <1>1. IsFiniteSet(S) /\ Cardinality(S) \in Nat /\ Cardinality(S) # 0
    BY PlayersFinite
  <1> QED
    BY <1>1, FS_RemoveElement

\* Some of the players are not more than all.
LEMMA PlayersFewer ==
  ASSUME NEW S \in SUBSET Player, NEW T \in SUBSET S
  PROVE  Cardinality(T) <= Cardinality(S)
  BY PlayersFinite, FS_Subset

\* What is in a state of the queue.
LEMMA Typed ==
  ASSUME NEW q \in QueueState
  PROVE  /\ q.groups \in Seq(GroupRow) /\ q.bgs \in Seq(BgRow \cup {NULL})
         /\ q.free \in Seq(Nat)
         /\ q.slot \in [Player -> Nat \cup {NULL}]
         /\ q.events \in [Player -> Seq(Nat)]
         /\ Len(q.groups) \in Nat /\ DOMAIN q.groups = 1..Len(q.groups)
         /\ \A k \in DOMAIN q.groups : q.groups[k] \in GroupRow
         /\ Len(q.bgs) \in Nat /\ DOMAIN q.bgs = 1..Len(q.bgs)
         /\ \A i \in DOMAIN q.bgs : q.bgs[i] # NULL => q.bgs[i] \in BgRow
         /\ Len(q.free) \in Nat /\ DOMAIN q.free = 1..Len(q.free)
         /\ \A k \in DOMAIN q.free : q.free[k] \in Nat
  <1>1. /\ q.groups \in Seq(GroupRow) /\ q.bgs \in Seq(BgRow \cup {NULL})
        /\ q.free \in Seq(Nat)
        /\ q.slot \in [Player -> Nat \cup {NULL}]
        /\ q.events \in [Player -> Seq(Nat)]
    BY DEF QueueState
  <1>2. /\ Len(q.groups) \in Nat /\ DOMAIN q.groups = 1..Len(q.groups)
        /\ \A k \in 1..Len(q.groups) : q.groups[k] \in GroupRow
    BY <1>1, LenProperties, ElementOfSeq
  <1>3. /\ Len(q.bgs) \in Nat /\ DOMAIN q.bgs = 1..Len(q.bgs)
        /\ \A i \in 1..Len(q.bgs) : q.bgs[i] \in BgRow \cup {NULL}
    BY <1>1, LenProperties, ElementOfSeq
  <1>4. /\ Len(q.free) \in Nat /\ DOMAIN q.free = 1..Len(q.free)
        /\ \A k \in 1..Len(q.free) : q.free[k] \in Nat
    BY <1>1, LenProperties, ElementOfSeq
  <1> QED
    BY <1>1, <1>2, <1>3, <1>4, Zenon

\* The fields of a row.
LEMMA RowTyped ==
  ASSUME NEW g \in GroupRow
  PROVE  g.players \in SUBSET Player /\ g.team \in Team /\ g.invited \in Nat
  BY DEF GroupRow

\* What is in a battleground.
LEMMA BgTyped ==
  ASSUME NEW bg \in BgRow
  PROVE  /\ bg.status \in Status /\ bg.players \in SUBSET Player
         /\ bg.deleteThis \in BOOLEAN
         /\ bg.invited \in [Team -> Nat] /\ \A t \in Team : bg.invited[t] \in Nat
  BY DEF BgRow

\* A player is in no group, or in one.
LEMMA OneGroup ==
  ASSUME NEW q \in QueueState, GroupsApart(q), NEW p \in Player
  PROVE  \/ GroupOf(q, p) = {} /\ InvitedOf(q, p) = {}
         \/ \E k \in DOMAIN q.groups :
              /\ GroupOf(q, p) = {k} /\ p \in q.groups[k].players
              /\ InvitedOf(q, p) = {q.groups[k].invited}
              /\ Max(GroupOf(q, p)) = k
  <1>1. CASE GroupOf(q, p) = {}
    BY <1>1 DEF InvitedOf
  <1>2. CASE GroupOf(q, p) # {}
    <2>1. PICK k \in DOMAIN q.groups : p \in q.groups[k].players
      BY <1>2 DEF GroupOf
    <2>2. \A l \in DOMAIN q.groups : p \in q.groups[l].players => l = k
      BY <2>1 DEF GroupsApart
    <2>3. GroupOf(q, p) = {k}
      BY <2>1, <2>2 DEF GroupOf
    <2>4. InvitedOf(q, p) = {q.groups[k].invited}
      BY <2>3 DEF InvitedOf
    <2>5. Max({k}) = k
      <3>1. k \in Nat
        BY Typed
      <3> QED
        BY <3>1 DEF Max
    <2> QED
      BY <2>1, <2>3, <2>4, <2>5
  <1> QED
    BY <1>1, <1>2

----------------------------------------------------------------------------
(* Invitations.                                                            *)

\* The players M are invited by battleground i, and nothing else happens.
Invites(q, M, i, r) ==
    /\ r \in QueueState /\ GroupsApart(r) /\ r.free = q.free
    /\ Len(r.groups) = Len(q.groups)
    /\ \A k \in DOMAIN q.groups : /\ r.groups[k].players = q.groups[k].players
                                  /\ r.groups[k].team = q.groups[k].team
    /\ DOMAIN r.bgs = DOMAIN q.bgs /\ r.bgs[i] # NULL
    /\ \A j \in DOMAIN q.bgs \ {i} : r.bgs[j] = q.bgs[j]
    /\ r.bgs[i].status = q.bgs[i].status /\ r.bgs[i].players = q.bgs[i].players
    /\ r.bgs[i].deleteThis = q.bgs[i].deleteThis
    /\ \A t \in Team : r.bgs[i].invited[t] =
          q.bgs[i].invited[t] + Cardinality({p \in M : TeamOf(p) = t})
    /\ \A p \in M : /\ InvitedOf(q, p) = {0} /\ InvitedOf(r, p) = {i}
                    /\ r.slot[p] = i /\ i \in ToSet(r.events[p])
    /\ \A p \in Player \ M : /\ InvitedOf(r, p) = InvitedOf(q, p)
                             /\ r.slot[p] = q.slot[p] /\ r.events[p] = q.events[p]

Waiting(q, ks) == Members(q, Uninvited(q, ks))

\* A record of the queue's state from its fields.
LEMMA StateOf ==
  ASSUME NEW gs \in Seq(GroupRow), NEW bs \in Seq(BgRow \cup {NULL}),
         NEW fr \in Seq(Nat), NEW sl \in [Player -> Nat \cup {NULL}],
         NEW ev \in [Player -> Seq(Nat)]
  PROVE  [groups |-> gs, bgs |-> bs, free |-> fr, slot |-> sl, events |-> ev]
            \in QueueState
  BY DEF QueueState

\* A state of the queue is its fields.
LEMMA FieldsOf ==
  ASSUME NEW q \in QueueState
  PROVE  q = [groups |-> q.groups, bgs |-> q.bgs, free |-> q.free,
              slot |-> q.slot, events |-> q.events]
  BY DEF QueueState

\* What is appended is in the sequence.
LEMMA AppendHas ==
  ASSUME NEW s \in Seq(Nat), NEW i \in Nat
  PROVE  Append(s, i) \in Seq(Nat) /\ i \in ToSet(Append(s, i))
  <1>1. /\ Append(s, i) \in Seq(Nat) /\ Len(Append(s, i)) = Len(s) + 1
        /\ Append(s, i)[Len(s) + 1] = i /\ Len(s) \in Nat
    BY AppendProperties, LenProperties
  <1>2. Len(s) + 1 \in DOMAIN Append(s, i)
    BY <1>1, LenProperties
  <1> QED
    BY <1>1, <1>2 DEF ToSet

\* InviteGroups invites those of the groups who wait, and does nothing else.
LEMMA InviteGroupsInvites ==
  ASSUME NEW q \in QueueState, GroupsApart(q), NEW ks \in SUBSET DOMAIN q.groups,
         NEW i, Alive(q, i)
  PROVE  /\ Invites(q, Waiting(q, ks), i, InviteGroups(q, ks, i))
         /\ Waiting(q, ks) \in SUBSET Player
  <1> DEFINE U == Uninvited(q, ks)
             M == Waiting(q, ks)
             r == InviteGroups(q, ks, i)
             ev == [p \in Player |-> IF p \in M THEN Append(q.events[p], i)
                                     ELSE q.events[p]]
             sl == [p \in Player |-> IF p \in M THEN i ELSE q.slot[p]]
             gs == Marked(q, ks, i)
             bs == [q.bgs EXCEPT ![i] = Counting(q, ks, i)]
  <1>1. /\ i \in DOMAIN q.bgs /\ i \in Nat /\ i \in 1..Len(q.bgs)
        /\ q.bgs[i] \in BgRow /\ q.bgs[i] # NULL
    BY Typed DEF Alive
  <1>2. U \subseteq DOMAIN q.groups /\ \A k \in U : q.groups[k].invited = 0
    BY DEF Uninvited
  <1>3. \A p : p \in M <=> \E k \in U : p \in q.groups[k].players
    BY DEF Waiting, Members
  <1>4. M \in SUBSET Player
    BY <1>2, <1>3, Typed, RowTyped
  <1>5. r = [groups |-> gs, bgs |-> bs, free |-> q.free, slot |-> sl, events |-> ev]
    <2>1. r = [q EXCEPT !.groups = gs, !.bgs = bs, !.slot = sl, !.events = ev]
      BY DEF InviteGroups, Waiting
    <2> HIDE DEF r, gs, bs, sl, ev
    <2>2. q = [groups |-> q.groups, bgs |-> q.bgs, free |-> q.free,
               slot |-> q.slot, events |-> q.events]
      BY FieldsOf
    <2> QED
      BY <2>1, <2>2
  <1> HIDE DEF M, U
  \* The groups.
  <1>6. /\ gs \in Seq(GroupRow) /\ Len(gs) = Len(q.groups)
        /\ \A k \in DOMAIN q.groups :
              /\ gs[k].players = q.groups[k].players
              /\ gs[k].team = q.groups[k].team
              /\ gs[k].invited = IF k \in U THEN i ELSE q.groups[k].invited
    <2>1. /\ DOMAIN q.groups = 1..Len(q.groups) /\ Len(q.groups) \in Nat
          /\ \A k \in DOMAIN q.groups : q.groups[k] \in GroupRow
      BY Typed
    <2>2. gs = [k \in 1..Len(q.groups) |->
                 IF k \in U THEN [q.groups[k] EXCEPT !.invited = i]
                 ELSE q.groups[k]]
      BY <2>1 DEF Marked, U
    <2>3. ASSUME NEW k \in DOMAIN q.groups
          PROVE  /\ gs[k] \in GroupRow
                 /\ gs[k].players = q.groups[k].players
                 /\ gs[k].team = q.groups[k].team
                 /\ gs[k].invited = IF k \in U THEN i ELSE q.groups[k].invited
      BY <1>1, <2>1, <2>2 DEF GroupRow
    <2>4. gs \in [1..Len(q.groups) -> GroupRow]
      BY <2>1, <2>2, <2>3
    <2> HIDE DEF gs
    <2>5. gs \in Seq(GroupRow)
      BY <2>1, <2>4, SeqDef
    <2>6. Len(gs) = Len(q.groups)
      BY <2>1, <2>4, <2>5, LenProperties
    <2> QED
      BY <2>3, <2>5, <2>6
  \* The battleground.
  <1>7. \A t \in Team : Members(q, OfTeam(q, U, t)) = {p \in M : TeamOf(p) = t}
    BY <1>2, <1>3 DEF Members, OfTeam, GroupsApart
  <1>8. \A t \in Team : Cardinality({p \in M : TeamOf(p) = t}) \in Nat
    BY <1>4, PlayersFinite
  <1>9. /\ Counting(q, ks, i) \in BgRow
        /\ Counting(q, ks, i).status = q.bgs[i].status
        /\ Counting(q, ks, i).players = q.bgs[i].players
        /\ Counting(q, ks, i).deleteThis = q.bgs[i].deleteThis
        /\ \A t \in Team : Counting(q, ks, i).invited[t] =
              q.bgs[i].invited[t] + Cardinality({p \in M : TeamOf(p) = t})
    <2> DEFINE inv == [t \in Team |-> q.bgs[i].invited[t] +
                         Cardinality({p \in M : TeamOf(p) = t})]
    <2>1. Counting(q, ks, i) = [q.bgs[i] EXCEPT !.invited = inv]
      BY <1>7 DEF Counting, U
    <2>2. inv \in [Team -> Nat]
      BY <1>1, <1>8, BgTyped
    <2>3. \A t \in Team : inv[t] =
              q.bgs[i].invited[t] + Cardinality({p \in M : TeamOf(p) = t})
      OBVIOUS
    <2> HIDE DEF inv
    <2> QED
      BY <1>1, <2>1, <2>2, <2>3 DEF BgRow
  <1>10. /\ bs \in Seq(BgRow \cup {NULL}) /\ DOMAIN bs = DOMAIN q.bgs
         /\ bs[i] = Counting(q, ks, i) /\ bs[i] # NULL
         /\ \A j \in DOMAIN q.bgs \ {i} : bs[j] = q.bgs[j]
    <2>1. q.bgs \in Seq(BgRow \cup {NULL}) /\ DOMAIN q.bgs = 1..Len(q.bgs)
      BY Typed
    <2>2. Counting(q, ks, i) \in BgRow \cup {NULL} /\ Counting(q, ks, i) # NULL
      BY <1>9, BattlegroundAssumption
    <2>3. /\ bs \in Seq(BgRow \cup {NULL}) /\ Len(bs) = Len(q.bgs)
          /\ \A j \in 1..Len(q.bgs) :
                bs[j] = IF j = i THEN Counting(q, ks, i) ELSE q.bgs[j]
      BY <1>1, <2>1, <2>2, ExceptSeq
    <2>4. DOMAIN bs = 1..Len(bs)
      BY <2>3, LenProperties
    <2> HIDE DEF bs
    <2> QED
      BY <1>1, <2>1, <2>2, <2>3, <2>4
  \* The players.
  <1>11. /\ sl \in [Player -> Nat \cup {NULL}]
         /\ \A p \in Player : sl[p] = IF p \in M THEN i ELSE q.slot[p]
    BY <1>1, Typed
  <1>12. /\ ev \in [Player -> Seq(Nat)]
         /\ \A p \in M : i \in ToSet(ev[p])
         /\ \A p \in Player \ M : ev[p] = q.events[p]
    <2>1. q.events \in [Player -> Seq(Nat)]
      BY Typed
    <2>2. \A p \in Player : /\ Append(q.events[p], i) \in Seq(Nat)
                            /\ i \in ToSet(Append(q.events[p], i))
      BY <1>1, <2>1, AppendHas
    <2> QED
      BY <1>4, <2>1, <2>2
  <1> HIDE DEF gs, bs, sl, ev, r
  <1>13. /\ r \in QueueState /\ r.groups = gs /\ r.bgs = bs /\ r.free = q.free
         /\ r.slot = sl /\ r.events = ev
    <2>1. q.free \in Seq(Nat)
      BY Typed
    <2>2. r \in QueueState
      BY <1>5, <1>6, <1>10, <1>11, <1>12, <2>1, StateOf
    <2> QED
      BY <1>5, <2>2
  <1>14. DOMAIN gs = DOMAIN q.groups
    BY <1>6, Typed, LenProperties
  <1>15. \A p : GroupOf(r, p) = GroupOf(q, p)
    BY <1>6, <1>13, <1>14 DEF GroupOf
  <1>16. GroupsApart(r)
    BY <1>6, <1>13, <1>14 DEF GroupsApart
  <1>17. ASSUME NEW p \in M
         PROVE  InvitedOf(q, p) = {0} /\ InvitedOf(r, p) = {i}
    <2>1. PICK k \in U : p \in q.groups[k].players
      BY <1>3
    <2>2. p \in Player /\ GroupOf(q, p) = {k}
      <3>1. p \in Player /\ k \in GroupOf(q, p)
        BY <1>2, <1>4, <2>1 DEF GroupOf
      <3> QED
        BY <3>1, OneGroup
    <2>3. q.groups[k].invited = 0 /\ gs[k].invited = i
      BY <1>2, <1>6, <2>1
    <2> QED
      BY <1>13, <1>15, <2>2, <2>3 DEF InvitedOf
  <1>18. ASSUME NEW p \in Player \ M
         PROVE  InvitedOf(r, p) = InvitedOf(q, p)
    <2>1. \A k \in GroupOf(q, p) : k \in DOMAIN q.groups /\ k \notin U
      BY <1>3 DEF GroupOf
    <2>2. \A k \in GroupOf(q, p) : gs[k].invited = q.groups[k].invited
      BY <1>6, <2>1
    <2> QED
      BY <1>13, <1>15, <2>2 DEF InvitedOf
  <1>19. \A p \in M : r.slot[p] = i /\ i \in ToSet(r.events[p])
    BY <1>4, <1>11, <1>12, <1>13
  <1>20. \A p \in Player \ M : r.slot[p] = q.slot[p] /\ r.events[p] = q.events[p]
    BY <1>11, <1>12, <1>13
  <1>21. Invites(q, M, i, r)
    BY <1>6, <1>9, <1>10, <1>13, <1>16, <1>17, <1>18, <1>19, <1>20 DEF Invites
  <1> QED
    BY <1>4, <1>21 DEF M, r

\* An invitation keeps the queue sound when there is room for it.
LEMMA InvitesSound ==
  ASSUME NEW q, NEW b, NEW a, NEW e, SoundBut(q, b, a, e),
         NEW M \in SUBSET Player, NEW i, Alive(q, i), e \in {0, i},
         NEW r, Invites(q, M, i, r),
         \A t \in Team : q.bgs[i].invited[t] + Cardinality({p \in M : TeamOf(p) = t})
                            <= MaxPlayersPerTeam
  PROVE  SoundBut(r, b, a, e) /\ (M # {} => Sound(r, b, a))
  <1>1. /\ q \in QueueState /\ Whereabouts(b, a) /\ GroupsApart(q)
        /\ Known(q, b) /\ FreeAlive(q)
        /\ \A p \in Player : SlotSound(q, b, a, p) /\ EventsSound(q, p)
        /\ \A j \in DOMAIN q.bgs : q.bgs[j] # NULL =>
              /\ InsideSound(q, b, a, j) /\ CountsExact(q, b, a, j)
              /\ j # e => EmptyDeleted(q, b, a, j)
    BY DEF SoundBut
  <1>2. /\ r \in QueueState /\ GroupsApart(r) /\ r.free = q.free
        /\ DOMAIN r.bgs = DOMAIN q.bgs /\ r.bgs[i] # NULL
        /\ \A j \in DOMAIN q.bgs \ {i} : r.bgs[j] = q.bgs[j]
        /\ r.bgs[i].players = q.bgs[i].players
        /\ r.bgs[i].deleteThis = q.bgs[i].deleteThis
        /\ \A t \in Team : r.bgs[i].invited[t] =
              q.bgs[i].invited[t] + Cardinality({p \in M : TeamOf(p) = t})
        /\ \A p \in M : /\ InvitedOf(q, p) = {0} /\ InvitedOf(r, p) = {i}
                        /\ r.slot[p] = i /\ i \in ToSet(r.events[p])
        /\ \A p \in Player \ M : /\ InvitedOf(r, p) = InvitedOf(q, p)
                                 /\ r.slot[p] = q.slot[p]
                                 /\ r.events[p] = q.events[p]
    BY DEF Invites
  <1>3. /\ i \in DOMAIN q.bgs /\ q.bgs[i] # NULL /\ i \in Nat \ {0}
        /\ \A j \in DOMAIN q.bgs : j \in Nat \ {0}
    BY <1>1, Typed DEF Alive
  <1>4. \A p \in M : p \in Player /\ b[p] = 0 /\ a[p] # "offline"
    BY <1>1, <1>2 DEF SlotSound
  <1>5. \A j \in DOMAIN q.bgs : (r.bgs[j] # NULL <=> q.bgs[j] # NULL)
                                 /\ r.bgs[j].players = q.bgs[j].players
                                 /\ r.bgs[j].deleteThis = q.bgs[j].deleteThis
    BY <1>2, <1>3
  <1>6. \A j : Alive(r, j) <=> Alive(q, j)
    BY <1>2, <1>5 DEF Alive
  <1>7. Known(r, b)
    BY <1>1, <1>2, <1>3 DEF Known
  <1>8. FreeAlive(r)
    BY <1>1, <1>2, <1>6 DEF FreeAlive
  <1>9. ASSUME NEW p \in Player
        PROVE  SlotSound(r, b, a, p) /\ EventsSound(r, p)
    <2>1. CASE p \in M
      BY <1>2, <1>4, <2>1 DEF SlotSound, EventsSound
    <2>2. CASE p \notin M
      BY <1>1, <1>2, <1>6, <2>2 DEF SlotSound, EventsSound
    <2> QED
      BY <2>1, <2>2
  <1>10. ASSUME NEW j \in DOMAIN q.bgs \ {i}, NEW t \in Team
         PROVE  CountedIn(r, b, a, j, t) = CountedIn(q, b, a, j, t)
    BY <1>2, <1>3, <1>5 DEF CountedIn
  <1>11. ASSUME NEW t \in Team
         PROVE  /\ CountedIn(r, b, a, i, t) =
                     CountedIn(q, b, a, i, t) \cup {p \in M : TeamOf(p) = t}
                /\ CountedIn(q, b, a, i, t) \cap {p \in M : TeamOf(p) = t} = {}
                /\ CountedIn(q, b, a, i, t) \subseteq Player
    <2>1. \A p \in M : i \notin InvitedOf(q, p) /\ b[p] # i
      BY <1>2, <1>3, <1>4
    <2>2. \A p \in q.bgs[i].players : b[p] = i
      BY <1>1, <1>3 DEF InsideSound
    <2>3. \A p \in Player : p \in CountedIn(r, b, a, i, t) <=>
             p \in CountedIn(q, b, a, i, t) \cup {x \in M : TeamOf(x) = t}
      BY <1>2, <1>3, <1>5 DEF CountedIn
    <2>4. CountedIn(q, b, a, i, t) \cap {p \in M : TeamOf(p) = t} = {}
      BY <2>1, <2>2 DEF CountedIn
    <2>5. /\ CountedIn(q, b, a, i, t) \subseteq Player
          /\ CountedIn(r, b, a, i, t) \subseteq Player
      BY DEF CountedIn
    <2> QED
      BY <2>3, <2>4, <2>5
  <1>12. CountsExact(r, b, a, i)
    <2> SUFFICES ASSUME NEW t \in Team
                 PROVE  /\ r.bgs[i].invited[t] = Cardinality(CountedIn(r, b, a, i, t))
                        /\ r.bgs[i].invited[t] <= MaxPlayersPerTeam
      BY DEF CountsExact
    <2>1. {p \in M : TeamOf(p) = t} \in SUBSET Player
      OBVIOUS
    <2>2. Cardinality(CountedIn(r, b, a, i, t)) =
             Cardinality(CountedIn(q, b, a, i, t)) + Cardinality({p \in M : TeamOf(p) = t})
      BY <1>11, <2>1, PlayersJoin
    <2> QED
      BY <1>1, <1>2, <1>3, <2>2 DEF CountsExact
  <1>13. ASSUME NEW j \in DOMAIN q.bgs, q.bgs[j] # NULL
         PROVE  /\ InsideSound(r, b, a, j) /\ CountsExact(r, b, a, j)
                /\ j # e => EmptyDeleted(r, b, a, j)
    <2>1. InsideSound(r, b, a, j)
      BY <1>1, <1>5, <1>13 DEF InsideSound
    <2>2. CountsExact(r, b, a, j)
      <3>1. CASE j = i
        BY <1>12, <3>1
      <3>2. CASE j # i
        BY <1>1, <1>2, <1>10, <1>13, <3>2 DEF CountsExact
      <3> QED
        BY <3>1, <3>2
    <2>3. ASSUME j # e PROVE EmptyDeleted(r, b, a, j)
      <3>1. CASE j = i
        BY <1>1, <1>5, <1>11, <1>13, <2>3, <3>1 DEF EmptyDeleted
      <3>2. CASE j # i
        BY <1>1, <1>5, <1>10, <1>13, <2>3, <3>2 DEF EmptyDeleted
      <3> QED
        BY <3>1, <3>2
    <2> QED
      BY <2>1, <2>2, <2>3
  <1>14. SoundBut(r, b, a, e)
    BY <1>1, <1>2, <1>5, <1>7, <1>8, <1>9, <1>13 DEF SoundBut
  <1>15. ASSUME M # {} PROVE EmptyDeleted(r, b, a, i)
    <2>1. PICK p \in M : TeamOf(p) \in Team
      BY <1>15 DEF TeamOf, Team
    <2>2. CountedIn(r, b, a, i, TeamOf(p)) # {}
      BY <1>11, <2>1
    <2> QED
      BY <2>1, <2>2 DEF EmptyDeleted
  <1>16. ASSUME M # {} PROVE Sound(r, b, a)
    BY <1>2, <1>3, <1>5, <1>13, <1>14, <1>15, <1>16 DEF Sound, SoundBut
  <1> QED
    BY <1>14, <1>16

----------------------------------------------------------------------------
(* From one state of the queue to a later one.                             *)

\* No battleground of q is gone or got another status.  Where a team has more
\* who are invited, the match is not over and no lead of more than one came of
\* it; only a battleground that is over has less.  Who was invited, or not
\* queued, has got no new invitation.
Onward(q, r) ==
    /\ \A i \in DOMAIN q.bgs : q.bgs[i] # NULL =>
          /\ Alive(r, i) /\ r.bgs[i].status = q.bgs[i].status
          /\ \A t \in Team :
               /\ r.bgs[i].invited[t] > q.bgs[i].invited[t] =>
                    /\ q.bgs[i].status # "wait_leave"
                    /\ q.bgs[i].status = "in_progress" =>
                         r.bgs[i].invited[t] <= r.bgs[i].invited[Other(t)] + 1
               /\ q.bgs[i].status # "wait_leave" =>
                    q.bgs[i].invited[t] <= r.bgs[i].invited[t]
    /\ \A p \in Player : InvitedOf(q, p) # {0} => InvitedOf(r, p) \subseteq InvitedOf(q, p)

SlotsKept(q, r, ps) == \A p \in ps : q.slot[p] # NULL => r.slot[p] # NULL

\* There are two teams.
LEMMA OtherTeam == \A t \in Team : Other(t) \in Team /\ Other(t) # t
  BY DEF Team, Other

\* A queue with the same battlegrounds and invitations is onward.
LEMMA OnwardSame ==
  ASSUME NEW q \in QueueState, NEW r, r.bgs = q.bgs,
         \A p \in Player : InvitedOf(r, p) = InvitedOf(q, p)
  PROVE  Onward(q, r)
  <1>1. \A i \in DOMAIN q.bgs : q.bgs[i] # NULL => \A t \in Team : q.bgs[i].invited[t] \in Nat
    BY Typed, BgTyped
  <1> QED
    BY <1>1 DEF Onward, Alive

\* Two steps onward are one.
LEMMA OnwardTwice ==
  ASSUME NEW q \in QueueState, NEW r \in QueueState, NEW s \in QueueState,
         GroupsApart(q), Onward(q, r), Onward(r, s)
  PROVE  Onward(q, s)
  <1>1. ASSUME NEW i \in DOMAIN q.bgs, q.bgs[i] # NULL
        PROVE  /\ Alive(s, i) /\ s.bgs[i].status = q.bgs[i].status
               /\ \A t \in Team :
                    /\ s.bgs[i].invited[t] > q.bgs[i].invited[t] =>
                         /\ q.bgs[i].status # "wait_leave"
                         /\ q.bgs[i].status = "in_progress" =>
                              s.bgs[i].invited[t] <= s.bgs[i].invited[Other(t)] + 1
                    /\ q.bgs[i].status # "wait_leave" =>
                         q.bgs[i].invited[t] <= s.bgs[i].invited[t]
    <2>1. Alive(r, i) /\ r.bgs[i].status = q.bgs[i].status
      BY <1>1 DEF Onward
    <2>2. Alive(s, i) /\ s.bgs[i].status = q.bgs[i].status
      BY <2>1 DEF Onward, Alive
    <2>3. ASSUME NEW t \in Team
          PROVE  /\ q.bgs[i].invited[t] \in Nat /\ r.bgs[i].invited[t] \in Nat
                 /\ s.bgs[i].invited[t] \in Nat
      BY <1>1, <2>1, <2>2, Typed, BgTyped DEF Alive
    <2>4. ASSUME NEW t \in Team
          PROVE  /\ s.bgs[i].invited[t] > q.bgs[i].invited[t] =>
                      /\ q.bgs[i].status # "wait_leave"
                      /\ q.bgs[i].status = "in_progress" =>
                           s.bgs[i].invited[t] <= s.bgs[i].invited[Other(t)] + 1
                 /\ q.bgs[i].status # "wait_leave" =>
                      q.bgs[i].invited[t] <= s.bgs[i].invited[t]
      <3> DEFINE x == q.bgs[i].invited[t]
                 y == r.bgs[i].invited[t]
                 z == s.bgs[i].invited[t]
                 yo == r.bgs[i].invited[Other(t)]
                 zo == s.bgs[i].invited[Other(t)]
                 o == q.bgs[i].status = "wait_leave"
                 g == q.bgs[i].status = "in_progress"
      <3>1. Other(t) \in Team
        BY OtherTeam
      <3>2. x \in Nat /\ y \in Nat /\ z \in Nat /\ yo \in Nat /\ zo \in Nat
        BY <2>3, <3>1
      <3>3. /\ y > x => ~o /\ (g => y <= yo + 1)
            /\ ~o => x <= y
        BY <1>1 DEF Onward
      <3>4. /\ z > y => ~o /\ (g => z <= zo + 1)
            /\ ~o => y <= z
            /\ ~o => yo <= zo
        BY <2>1, <3>1 DEF Onward, Alive
      <3> HIDE DEF x, y, z, yo, zo, o, g
      <3>5. (z > x => ~o /\ (g => z <= zo + 1)) /\ (~o => x <= z)
        BY <3>2, <3>3, <3>4
      <3> QED
        BY <3>5 DEF x, y, z, yo, zo, o, g
    <2> QED
      BY <2>2, <2>4
  <1>2. ASSUME NEW p \in Player, InvitedOf(q, p) # {0}
        PROVE  InvitedOf(s, p) \subseteq InvitedOf(q, p)
    <2>1. InvitedOf(r, p) \subseteq InvitedOf(q, p)
      BY <1>2 DEF Onward
    <2>2. InvitedOf(q, p) = {} \/ \E j : InvitedOf(q, p) = {j}
      BY OneGroup
    <2>3. InvitedOf(r, p) # {0}
      BY <1>2, <2>1, <2>2
    <2>4. InvitedOf(s, p) \subseteq InvitedOf(r, p)
      BY <2>3 DEF Onward
    <2> QED
      BY <2>1, <2>4
  <1> QED
    BY <1>1, <1>2 DEF Onward

\* Where the queue gets to from q when nobody leaves it.
Reached(q, b, a, r) ==
    Sound(r, b, a) /\ Onward(q, r) /\ SlotsKept(q, r, Player)

\* A sound queue has its type and its groups apart.
LEMMA SoundTyped ==
  ASSUME NEW q, NEW b, NEW a, NEW e, SoundBut(q, b, a, e)
  PROVE  q \in QueueState /\ GroupsApart(q)
  BY DEF SoundBut

\* A sound queue gets to itself.
LEMMA ReachedSame ==
  ASSUME NEW q, NEW b, NEW a, Sound(q, b, a)
  PROVE  Reached(q, b, a, q)
  BY SoundTyped, OnwardSame DEF Sound, Reached, SlotsKept

\* Two steps that nobody leaves by are one.
LEMMA ReachedTwice ==
  ASSUME NEW q, NEW b, NEW a, Sound(q, b, a),
         NEW r, NEW s, Reached(q, b, a, r), Reached(r, b, a, s)
  PROVE  Reached(q, b, a, s)
  <1>1. q \in QueueState /\ r \in QueueState /\ s \in QueueState /\ GroupsApart(q)
    BY SoundTyped DEF Sound, Reached
  <1>2. Onward(q, s)
    BY <1>1, OnwardTwice DEF Reached
  <1> QED
    BY <1>2 DEF Reached, SlotsKept

----------------------------------------------------------------------------
(* Who fits.                                                               *)

\* The least of some numbers.
LEMMA MinOf ==
  ASSUME NEW T, T \subseteq Nat, T # {}
  PROVE  Min(T) \in T /\ \A k \in T : Min(T) <= k
  <1>1. \E m \in T : \A k \in T : m <= k
    BY Least
  <1> QED
    BY <1>1 DEF Min

\* So many fit: they get no more than the room, and no lead in a match.
LEMMA FreeSlots ==
  ASSUME NEW bg \in BgRow, NEW t \in Team, bg.invited[t] <= MaxPlayersPerTeam,
         NEW n \in Nat \ {0}, GetFreeSlotsForTeam(bg, t) >= n
  PROVE  /\ bg.invited[t] + n <= MaxPlayersPerTeam
         /\ bg.status # "wait_leave"
         /\ bg.status = "in_progress" => bg.invited[t] + n <= bg.invited[Other(t)] + 1
  <1> DEFINE x == bg.invited[t]
             y == bg.invited[Other(t)]
             inside == IF InBg(bg, t) <= InBg(bg, Other(t))
                       THEN Lead(InBg(bg, t), InBg(bg, Other(t)))
                       ELSE IF bg.invited[t] <= MinPlayersPerTeam
                            THEN (MinPlayersPerTeam - bg.invited[t]) + 1 ELSE 0
  <1>1. x \in Nat /\ y \in Nat /\ MaxPlayersPerTeam \in Nat /\ MinPlayersPerTeam \in Nat
    BY BgTyped, OtherTeam, BattlegroundAssumption
  <1>2. Room(bg, t) = MaxPlayersPerTeam - x /\ Room(bg, t) \in Nat
    <2>1. Min({x, MaxPlayersPerTeam}) = x
      <3>1. /\ Min({x, MaxPlayersPerTeam}) \in {x, MaxPlayersPerTeam}
            /\ Min({x, MaxPlayersPerTeam}) <= x
        BY <1>1, MinOf
      <3> QED
        BY <1>1, <3>1
    <2> QED
      BY <1>1, <2>1 DEF Room
  <1>3. \A u \in Team : InBg(bg, u) \in Nat
    BY BgTyped, PlayersFinite DEF InBg
  <1>4. \A m, l \in Nat : Lead(m, l) \in Nat
    BY DEF Lead
  <1>5. inside \in Nat
    <2>1. Lead(InBg(bg, t), InBg(bg, Other(t))) \in Nat
      <3>1. InBg(bg, t) \in Nat /\ InBg(bg, Other(t)) \in Nat
        BY <1>3, OtherTeam
      <3> QED
        BY <3>1, <1>4
    <2>2. x <= MinPlayersPerTeam => (MinPlayersPerTeam - x) + 1 \in Nat
      BY <1>1
    <2> QED
      BY <2>1, <2>2
  <1>6. GetFreeSlotsForTeam(bg, t) =
           CASE bg.status = "wait_join" -> Room(bg, t)
             [] bg.status = "in_progress" -> Min({Lead(x, y), Room(bg, t), inside})
             [] OTHER -> 0
    BY DEF GetFreeSlotsForTeam
  <1> HIDE DEF inside, x, y
  <1>7. CASE bg.status = "wait_join"
    <2>1. x + n <= MaxPlayersPerTeam
      BY <1>1, <1>2, <1>6, <1>7
    <2> QED
      BY <1>7, <2>1 DEF x
  <1>8. CASE bg.status = "in_progress"
    <2>1. Min({Lead(x, y), Room(bg, t), inside}) >= n
      BY <1>6, <1>8
    <2>2. {Lead(x, y), Room(bg, t), inside} \subseteq Nat
      BY <1>1, <1>2, <1>4, <1>5
    <2>3. /\ Min({Lead(x, y), Room(bg, t), inside}) <= Lead(x, y)
          /\ Min({Lead(x, y), Room(bg, t), inside}) <= Room(bg, t)
          /\ Min({Lead(x, y), Room(bg, t), inside}) \in Nat
      BY <2>2, MinOf
    <2>4. n <= Lead(x, y) /\ n <= Room(bg, t)
      BY <1>1, <1>2, <1>4, <2>1, <2>3
    <2>5. x + n <= MaxPlayersPerTeam /\ x + n <= y + 1
      BY <1>1, <1>2, <2>4 DEF Lead
    <2> QED
      BY <1>8, <2>5 DEF x, y
  <1>9. CASE bg.status \notin {"wait_join", "in_progress"}
    BY <1>6, <1>9
  <1> QED
    BY <1>7, <1>8, <1>9

\* There is room for the players M in battleground i, and no lead comes of it.
Fits(q, M, i) ==
    \A t \in Team : {p \in M : TeamOf(p) = t} # {} =>
        LET n == Cardinality({p \in M : TeamOf(p) = t}) IN
        /\ q.bgs[i].invited[t] + n <= MaxPlayersPerTeam
        /\ q.bgs[i].status # "wait_leave"
        /\ q.bgs[i].status = "in_progress" =>
             q.bgs[i].invited[t] + n <= q.bgs[i].invited[Other(t)] + 1

\* Invitations that fit keep the queue sound and go onward.
LEMMA InvitesOnward ==
  ASSUME NEW q, NEW b, NEW a, NEW e, SoundBut(q, b, a, e),
         NEW M \in SUBSET Player, NEW i, Alive(q, i), e \in {0, i},
         NEW r, Invites(q, M, i, r),
         Fits(q, M, i)
  PROVE  /\ SoundBut(r, b, a, e) /\ (M # {} => Sound(r, b, a))
         /\ Onward(q, r) /\ SlotsKept(q, r, Player)
  <1> DEFINE N(t) == Cardinality({p \in M : TeamOf(p) = t})
  <1>1. \A t \in Team : /\ N(t) \in Nat
                        /\ {p \in M : TeamOf(p) = t} = {} => N(t) = 0
    BY PlayersFinite
  <1>2. /\ q \in QueueState /\ i \in DOMAIN q.bgs /\ q.bgs[i] # NULL /\ i \in Nat
        /\ \A j \in DOMAIN q.bgs : q.bgs[j] # NULL =>
              \A t \in Team : q.bgs[j].invited[t] \in Nat
    BY SoundTyped, Typed, BgTyped DEF Alive
  <1>3. \A t \in Team :
           /\ q.bgs[i].invited[t] + N(t) <= MaxPlayersPerTeam
           /\ N(t) > 0 => /\ q.bgs[i].status # "wait_leave"
                          /\ q.bgs[i].status = "in_progress" =>
                               q.bgs[i].invited[t] + N(t) <= q.bgs[i].invited[Other(t)] + 1
    <2> SUFFICES ASSUME NEW t \in Team
                 PROVE  /\ q.bgs[i].invited[t] + N(t) <= MaxPlayersPerTeam
                        /\ N(t) > 0 => /\ q.bgs[i].status # "wait_leave"
                                       /\ q.bgs[i].status = "in_progress" =>
                                            q.bgs[i].invited[t] + N(t)
                                               <= q.bgs[i].invited[Other(t)] + 1
      OBVIOUS
    <2>1. q.bgs[i].invited[t] <= MaxPlayersPerTeam /\ q.bgs[i].invited[t] \in Nat
      BY <1>2 DEF SoundBut, CountsExact
    <2>2. CASE {p \in M : TeamOf(p) = t} = {}
      <3>1. N(t) = 0
        BY <1>1, <2>2
      <3> QED
        BY <2>1, <3>1
    <2>3. CASE {p \in M : TeamOf(p) = t} # {}
      BY <2>3 DEF Fits
    <2> QED
      BY <2>2, <2>3
  <1>4. SoundBut(r, b, a, e) /\ (M # {} => Sound(r, b, a))
    BY <1>3, InvitesSound
  <1>5. /\ DOMAIN r.bgs = DOMAIN q.bgs /\ r.bgs[i] # NULL
        /\ \A j \in DOMAIN q.bgs \ {i} : r.bgs[j] = q.bgs[j]
        /\ r.bgs[i].status = q.bgs[i].status
        /\ \A t \in Team : r.bgs[i].invited[t] = q.bgs[i].invited[t] + N(t)
        /\ \A p \in M : InvitedOf(q, p) = {0} /\ r.slot[p] = i
        /\ \A p \in Player \ M : InvitedOf(r, p) = InvitedOf(q, p) /\ r.slot[p] = q.slot[p]
    BY DEF Invites
  <1>6. Onward(q, r)
    <2>1. ASSUME NEW t \in Team
          PROVE  /\ r.bgs[i].invited[t] > q.bgs[i].invited[t] =>
                      /\ q.bgs[i].status # "wait_leave"
                      /\ q.bgs[i].status = "in_progress" =>
                           r.bgs[i].invited[t] <= r.bgs[i].invited[Other(t)] + 1
                 /\ q.bgs[i].status # "wait_leave" =>
                      q.bgs[i].invited[t] <= r.bgs[i].invited[t]
      <3> DEFINE x == q.bgs[i].invited[t]
                 y == r.bgs[i].invited[t]
                 xo == q.bgs[i].invited[Other(t)]
                 yo == r.bgs[i].invited[Other(t)]
                 n == N(t)
                 no == N(Other(t))
      <3>1. Other(t) \in Team
        BY OtherTeam
      <3>2. /\ x \in Nat /\ xo \in Nat /\ n \in Nat /\ no \in Nat
            /\ y = x + n /\ yo = xo + no
        BY <1>1, <1>2, <1>5, <3>1
      <3>3. n > 0 => /\ q.bgs[i].status # "wait_leave"
                     /\ q.bgs[i].status = "in_progress" => x + n <= xo + 1
        BY <1>3
      <3> HIDE DEF x, y, xo, yo, n, no
      <3>4. /\ y > x => /\ q.bgs[i].status # "wait_leave"
                        /\ q.bgs[i].status = "in_progress" => y <= yo + 1
            /\ x <= y
        BY <3>2, <3>3
      <3> QED
        BY <3>4 DEF x, y, yo
    <2>2. ASSUME NEW j \in DOMAIN q.bgs, q.bgs[j] # NULL, j # i
          PROVE  r.bgs[j] = q.bgs[j] /\ \A t \in Team : q.bgs[j].invited[t] \in Nat
      BY <1>2, <1>5, <2>2
    <2>3. \A p \in Player : InvitedOf(q, p) # {0} => InvitedOf(r, p) = InvitedOf(q, p)
      BY <1>5
    <2> HIDE DEF N
    <2> QED
      BY <1>5, <2>1, <2>2, <2>3 DEF Onward, Alive
  <1>7. SlotsKept(q, r, Player)
    BY <1>2, <1>5, BattlegroundAssumption DEF SlotsKept
  <1> QED
    BY <1>4, <1>6, <1>7

\* So the queue gets there without anybody leaving it.
LEMMA InvitesReached ==
  ASSUME NEW q, NEW b, NEW a, Sound(q, b, a),
         NEW M \in SUBSET Player, NEW i, Alive(q, i), NEW r, Invites(q, M, i, r),
         Fits(q, M, i)
  PROVE  Reached(q, b, a, r)
  <1>1. SoundBut(q, b, a, 0) /\ 0 \in {0, i}
    BY DEF Sound
  <1>2. SoundBut(r, b, a, 0) /\ Onward(q, r) /\ SlotsKept(q, r, Player)
    BY <1>1, InvitesOnward
  <1> QED
    BY <1>2 DEF Reached, Sound

\* One group is invited, if it fits.
LEMMA InviteIfFitsReached ==
  ASSUME NEW q, NEW b, NEW a, Sound(q, b, a),
         NEW i, Alive(q, i), NEW k \in DOMAIN q.groups
  PROVE  /\ Reached(q, b, a, InviteIfFits(q, k, i))
         /\ Len(InviteIfFits(q, k, i).groups) = Len(q.groups)
         /\ InviteIfFits(q, k, i).free = q.free
  <1> DEFINE g == q.groups[k]
             M == Waiting(q, {k})
             r == InviteGroups(q, {k}, i)
  <1>1. /\ q \in QueueState /\ GroupsApart(q) /\ q.bgs[i] \in BgRow /\ g \in GroupRow
        /\ \A t \in Team : q.bgs[i].invited[t] <= MaxPlayersPerTeam
    BY Typed, SoundTyped DEF Sound, SoundBut, CountsExact, Alive
  <1>2. CASE GetFreeSlotsForTeam(q.bgs[i], g.team) >= Size(g)
    <2>1. Invites(q, M, i, r) /\ M \in SUBSET Player
      BY <1>1, InviteGroupsInvites
    <2>2. M = {} \/ M = g.players
      BY DEF Waiting, Members, Uninvited
    <2>3. /\ g.players \in SUBSET Player /\ g.players # {} /\ g.team \in Team
          /\ \A p \in g.players : TeamOf(p) = g.team
      BY <1>1, RowTyped DEF GroupsApart
    <2>4. Size(g) \in Nat \ {0} /\ Size(g) = Cardinality(g.players)
      BY <2>3, PlayersFinite DEF Size
    <2>5. /\ q.bgs[i].invited[g.team] + Size(g) <= MaxPlayersPerTeam
          /\ q.bgs[i].status # "wait_leave"
          /\ q.bgs[i].status = "in_progress" =>
               q.bgs[i].invited[g.team] + Size(g) <= q.bgs[i].invited[Other(g.team)] + 1
      BY <1>1, <1>2, <2>3, <2>4, FreeSlots
    <2>6. \A t \in Team : {p \in M : TeamOf(p) = t} # {} =>
             t = g.team /\ {p \in M : TeamOf(p) = t} = g.players
      BY <2>2, <2>3
    <2> HIDE DEF M, r, g
    <2>7. Fits(q, M, i)
      BY <2>4, <2>5, <2>6 DEF Fits
    <2>8. Reached(q, b, a, r)
      BY <2>1, <2>7, InvitesReached
    <2>9. Len(r.groups) = Len(q.groups) /\ r.free = q.free
      BY <2>1 DEF Invites
    <2>10. InviteIfFits(q, k, i) = r
      BY <1>2 DEF InviteIfFits, g, r
    <2> QED
      BY <2>8, <2>9, <2>10
  <1>3. CASE ~(GetFreeSlotsForTeam(q.bgs[i], g.team) >= Size(g))
    BY <1>3, ReachedSame DEF InviteIfFits
  <1> QED
    BY <1>2, <1>3

\* All groups that fit are invited, one after the other.
LEMMA InviteWhoFitsReached ==
  ASSUME NEW q, NEW b, NEW a, Sound(q, b, a), NEW i, Alive(q, i)
  PROVE  Reached(q, b, a, InviteWhoFits(q, i)) /\ InviteWhoFits(q, i).free = q.free
  <1> DEFINE n == Len(q.groups)
             P == {s \in QueueState :
                     Reached(q, b, a, s) /\ Len(s.groups) = n /\ s.free = q.free}
             F == [k \in 1..n |-> [s \in P |-> InviteIfFits(s, k, i)]]
             Step(h) == [k \in 0..n |-> IF k = 0 THEN q ELSE InviteIfFits(h[k - 1], k, i)]
  <1>1. n \in Nat /\ q \in P
    BY SoundTyped, Typed, ReachedSame DEF Sound
  <1>2. ASSUME NEW s \in P, NEW k \in 1..n
        PROVE  InviteIfFits(s, k, i) \in P
    <2>1. Sound(s, b, a) /\ s \in QueueState /\ Len(s.groups) = n /\ s.free = q.free
      BY DEF Reached
    <2>2. Alive(s, i)
      BY DEF Reached, Onward, Alive
    <2>3. k \in DOMAIN s.groups
      BY <2>1, Typed
    <2>4. /\ Reached(s, b, a, InviteIfFits(s, k, i))
          /\ Len(InviteIfFits(s, k, i).groups) = n
          /\ InviteIfFits(s, k, i).free = q.free
      BY <2>1, <2>2, <2>3, InviteIfFitsReached
    <2>5. Reached(q, b, a, InviteIfFits(s, k, i))
      BY <2>4, ReachedTwice
    <2>6. InviteIfFits(s, k, i) \in QueueState
      BY <2>5, SoundTyped DEF Reached, Sound
    <2> QED
      BY <2>4, <2>5, <2>6
  <1> HIDE DEF n, P
  <1>3. F \in [1..n -> [P -> P]]
    BY <1>2
  <1>4. PICK g : IsFold(P, n, q, F, g)
    BY <1>1, <1>3, FoldExists DEF HasFold
  <1>5. g = Step(g)
    <2>1. g \in [0..n -> P] /\ g[0] = q /\ \A k \in 1..n : g[k] = F[k][g[k - 1]]
      BY <1>4 DEF IsFold
    <2>2. \A k \in 1..n : k \in 0..n /\ k - 1 \in 0..n
      BY <1>1
    <2>3. \A k \in 1..n : g[k] = InviteIfFits(g[k - 1], k, i)
      BY <2>1, <2>2
    <2>4. \A k \in 0..n : k = 0 \/ k \in 1..n
      BY <1>1
    <2> HIDE DEF F
    <2> QED
      BY <2>1, <2>3, <2>4
  <1> DEFINE h == CHOOSE x : x = Step(x)
  <1>6. h = Step(h)
    BY <1>5
  <1>7. InviteWhoFits(q, i) = h[n]
    BY DEF InviteWhoFits, n
  <1> HIDE DEF h, F
  <1>8. h[0] = q /\ \A k \in 1..n : h[k] = InviteIfFits(h[k - 1], k, i)
    <2>1. 0 \in 0..n /\ \A k \in 1..n : k \in 0..n /\ k # 0
      BY <1>1
    <2> QED
      BY <1>6, <2>1
  <1>9. h[n] \in P
    <2>1. \A k \in 0..n : h[k] \in P
      BY <1>1, <1>2, <1>8, KeptBySteps
    <2> QED
      BY <1>1, <2>1
  <1> QED
    BY <1>7, <1>9 DEF P

\* A battleground is taken out of the queue of those that have room.
LEMMA RemoveFromFreeOthers ==
  ASSUME NEW s \in Seq(Nat), IsInjective(s), NEW i \in Nat
  PROVE  /\ RemoveFromFree(s, i) \in Seq(Nat) /\ IsInjective(RemoveFromFree(s, i))
         /\ \A k \in DOMAIN RemoveFromFree(s, i) :
               /\ RemoveFromFree(s, i)[k] # i
               /\ \E l \in DOMAIN s : RemoveFromFree(s, i)[k] = s[l]
  <1>1. Len(s) \in Nat /\ DOMAIN s = 1..Len(s)
    BY LenProperties
  <1>2. CASE i \notin ToSet(s)
    BY <1>2 DEF RemoveFromFree, ToSet
  <1>3. CASE i \in ToSet(s)
    <2> DEFINE c == CHOOSE k \in DOMAIN s : s[k] = i
               u == RemoveAt(s, c)
    <2>1. c \in DOMAIN s /\ s[c] = i
      BY <1>3 DEF ToSet
    <2>2. RemoveFromFree(s, i) = u
      BY <1>3 DEF RemoveFromFree
    <2> HIDE DEF c
    <2>3. /\ u \in Seq(Nat) /\ Len(u) = Len(s) - 1
          /\ \A k \in 1..(Len(s) - 1) : u[k] = IF k < c THEN s[k] ELSE s[k + 1]
      BY <1>1, <2>1, Erased
    <2> HIDE DEF u
    <2>4. DOMAIN u = 1..(Len(s) - 1)
      BY <2>3, LenProperties
    <2> DEFINE f == [k \in 1..(Len(s) - 1) |-> IF k < c THEN k ELSE k + 1]
    <2>5. \A k \in 1..(Len(s) - 1) : f[k] \in DOMAIN s /\ f[k] # c /\ u[k] = s[f[k]]
      <3> SUFFICES ASSUME NEW k \in 1..(Len(s) - 1)
                   PROVE  f[k] \in DOMAIN s /\ f[k] # c /\ u[k] = s[f[k]]
        OBVIOUS
      <3>1. u[k] = IF k < c THEN s[k] ELSE s[k + 1]
        BY <2>3
      <3>2. k \in Nat /\ c \in Nat /\ Len(s) \in Nat
        BY <1>1, <2>1
      <3>3. f[k] = IF k < c THEN k ELSE k + 1
        OBVIOUS
      <3> QED
        BY <1>1, <3>1, <3>2, <3>3
    <2>6. \A k, l \in 1..(Len(s) - 1) : f[k] = f[l] => k = l
      BY <1>1, <2>1
    <2> HIDE DEF f
    <2>7. \A k, l \in DOMAIN s : s[k] = s[l] => k = l
      BY Zenon DEF IsInjective
    <2>8. ASSUME NEW k \in DOMAIN u
          PROVE  u[k] # i /\ \E l \in DOMAIN s : u[k] = s[l]
      <3>1. f[k] \in DOMAIN s /\ f[k] # c /\ u[k] = s[f[k]]
        BY <2>4, <2>5
      <3> QED
        BY <2>1, <2>7, <3>1
    <2>9. ASSUME NEW k \in DOMAIN u, NEW l \in DOMAIN u, u[k] = u[l]
          PROVE  k = l
      <3>1. f[k] = f[l]
        <4>1. /\ f[k] \in DOMAIN s /\ u[k] = s[f[k]]
              /\ f[l] \in DOMAIN s /\ u[l] = s[f[l]]
          BY <2>4, <2>5
        <4>2. s[f[k]] = s[f[l]]
          BY <2>9, <4>1
        <4> QED
          BY <4>1, <4>2, <2>7, Zenon
      <3> QED
        BY <2>4, <2>6, <3>1
    <2>10. IsInjective(u)
      BY <2>9, Zenon DEF IsInjective
    <2> QED
      BY <2>2, <2>3, <2>8, <2>10
  <1> QED
    BY <1>2, <1>3

\* The same with other places in that queue.
LEMMA FreeChanged ==
  ASSUME NEW q, NEW b, NEW a, Sound(q, b, a), NEW fr \in Seq(Nat), IsInjective(fr),
         \A k \in DOMAIN fr : Alive(q, fr[k])
  PROVE  Reached(q, b, a, [q EXCEPT !.free = fr])
  <1> DEFINE r == [q EXCEPT !.free = fr]
  <1>1. q \in QueueState
    BY SoundTyped DEF Sound
  <1>2. /\ r \in QueueState /\ r.groups = q.groups /\ r.bgs = q.bgs /\ r.free = fr
        /\ r.slot = q.slot /\ r.events = q.events
    BY <1>1 DEF QueueState
  <1> HIDE DEF r
  <1>3. \A p : GroupOf(r, p) = GroupOf(q, p) /\ InvitedOf(r, p) = InvitedOf(q, p)
    BY <1>2 DEF GroupOf, InvitedOf
  <1>4. \A i : Alive(r, i) <=> Alive(q, i)
    BY <1>2 DEF Alive
  <1>5. GroupsApart(r) /\ Known(r, b) /\ FreeAlive(r)
    BY <1>2, <1>3, <1>4 DEF GroupsApart, Known, FreeAlive, Sound, SoundBut
  <1>6. \A p \in Player : SlotSound(r, b, a, p) /\ EventsSound(r, p)
    BY <1>2, <1>3, <1>4 DEF Sound, SoundBut, SlotSound, EventsSound
  <1>7. \A i, t : CountedIn(r, b, a, i, t) = CountedIn(q, b, a, i, t)
    BY <1>2, <1>3 DEF CountedIn
  <1>8. ASSUME NEW i \in DOMAIN r.bgs, r.bgs[i] # NULL
        PROVE  /\ InsideSound(r, b, a, i) /\ CountsExact(r, b, a, i)
               /\ i # 0 => EmptyDeleted(r, b, a, i)
    BY <1>2, <1>7, <1>8
       DEF Sound, SoundBut, InsideSound, CountsExact, EmptyDeleted
  <1>9. Sound(r, b, a)
    BY <1>2, <1>5, <1>6, <1>8 DEF Sound, SoundBut
  <1>10. Onward(q, r) /\ SlotsKept(q, r, Player)
    BY <1>1, <1>2, <1>3, OnwardSame DEF SlotsKept
  <1> QED
    BY <1>9, <1>10 DEF Reached, r

\* One battleground is filled.
LEMMA FillBattlegroundReached ==
  ASSUME NEW q, NEW b, NEW a, Sound(q, b, a), NEW i, Alive(q, i)
  PROVE  Reached(q, b, a, FillBattleground(q, i))
  <1> DEFINE r == InviteWhoFits(q, i)
             s == [r EXCEPT !.free = RemoveFromFree(r.free, i)]
  <1>1. Reached(q, b, a, r)
    BY InviteWhoFitsReached
  <1>2. Reached(q, b, a, s)
    <2>1. Sound(r, b, a) /\ r \in QueueState /\ FreeAlive(r)
      BY <1>1, SoundTyped DEF Reached, Sound, SoundBut
    <2>2. r.free \in Seq(Nat) /\ IsInjective(r.free) /\ i \in Nat
      BY <2>1, SoundTyped, Typed DEF FreeAlive, Alive, Sound
    <2> HIDE DEF r
    <2>3. /\ RemoveFromFree(r.free, i) \in Seq(Nat)
          /\ IsInjective(RemoveFromFree(r.free, i))
          /\ \A k \in DOMAIN RemoveFromFree(r.free, i) :
                \E l \in DOMAIN r.free : RemoveFromFree(r.free, i)[k] = r.free[l]
      BY <2>2, RemoveFromFreeOthers
    <2>4. \A k \in DOMAIN RemoveFromFree(r.free, i) : Alive(r, RemoveFromFree(r.free, i)[k])
      BY <2>1, <2>3 DEF FreeAlive
    <2>5. Reached(r, b, a, s)
      BY <2>1, <2>3, <2>4, FreeChanged
    <2> QED
      BY <1>1, <2>5, ReachedTwice
  <1>3. FillBattleground(q, i) \in {q, r, s}
    BY DEF FillBattleground
  <1> QED
    BY <1>1, <1>2, <1>3, ReachedSame

\* All battlegrounds with free slots are filled, one after the other.
LEMMA FillReached ==
  ASSUME NEW q, NEW b, NEW a, Sound(q, b, a)
  PROVE  Reached(q, b, a, Fill(q))
  <1> DEFINE n == Len(q.free)
             P == {s \in QueueState : Reached(q, b, a, s)}
             F == [k \in 1..n |-> [s \in P |-> FillBattleground(s, q.free[k])]]
             Step(h) == [k \in 0..n |-> IF k = 0 THEN q
                                        ELSE FillBattleground(h[k - 1], q.free[k])]
  <1>1. n \in Nat /\ q \in P
    BY SoundTyped, Typed, ReachedSame DEF Sound
  <1>2. ASSUME NEW s \in P, NEW k \in 1..n
        PROVE  FillBattleground(s, q.free[k]) \in P
    <2>1. Sound(s, b, a) /\ Reached(q, b, a, s)
      BY DEF Reached
    <2>2. Alive(q, q.free[k])
      BY SoundTyped, Typed DEF Sound, SoundBut, FreeAlive
    <2>3. Alive(s, q.free[k])
      BY <2>1, <2>2 DEF Reached, Onward, Alive
    <2>4. Reached(s, b, a, FillBattleground(s, q.free[k]))
      BY <2>1, <2>3, FillBattlegroundReached
    <2>5. Reached(q, b, a, FillBattleground(s, q.free[k]))
      BY <2>1, <2>4, ReachedTwice
    <2>6. FillBattleground(s, q.free[k]) \in QueueState
      BY <2>5, SoundTyped DEF Reached, Sound
    <2> QED
      BY <2>5, <2>6
  <1> HIDE DEF n, P
  <1>3. F \in [1..n -> [P -> P]]
    BY <1>2
  <1>4. PICK g : IsFold(P, n, q, F, g)
    BY <1>1, <1>3, FoldExists DEF HasFold
  <1>5. g = Step(g)
    <2>1. g \in [0..n -> P] /\ g[0] = q /\ \A k \in 1..n : g[k] = F[k][g[k - 1]]
      BY <1>4 DEF IsFold
    <2>2. \A k \in 1..n : k \in 0..n /\ k - 1 \in 0..n
      BY <1>1
    <2>3. \A k \in 1..n : g[k] = FillBattleground(g[k - 1], q.free[k])
      BY <2>1, <2>2
    <2>4. \A k \in 0..n : k = 0 \/ k \in 1..n
      BY <1>1
    <2> HIDE DEF F
    <2> QED
      BY <2>1, <2>3, <2>4
  <1> DEFINE h == CHOOSE x : x = Step(x)
  <1>6. h = Step(h)
    BY <1>5
  <1>7. Fill(q) = h[n]
    BY DEF Fill, n
  <1> HIDE DEF h, F
  <1>8. h[0] = q /\ \A k \in 1..n : h[k] = FillBattleground(h[k - 1], q.free[k])
    <2>1. 0 \in 0..n /\ \A k \in 1..n : k \in 0..n /\ k # 0
      BY <1>1
    <2> QED
      BY <1>6, <2>1
  <1>9. h[n] \in P
    <2>1. \A k \in 0..n : h[k] \in P
      BY <1>1, <1>2, <1>8, KeptBySteps
    <2> QED
      BY <1>1, <2>1
  <1> QED
    BY <1>7, <1>9 DEF P

----------------------------------------------------------------------------
(* A new battleground.                                                     *)

\* Up to m, the set ks comes first: what only ls has is behind what only ks has.
Ahead(ks, ls, m) ==
    \A j \in 1..m : j \in ls \ ks => \E h \in 1..(j - 1) : h \in ks \ ls

\* Of several sets of places one is the first in the order of Build.
LEMMA FirstPool ==
  ASSUME NEW n \in Nat, NEW pools, pools \subseteq SUBSET (1..n), pools # {}
  PROVE  \E ks \in pools : \A ls \in pools \ {ks} :
            Min((ks \ ls) \cup (ls \ ks)) \in ks
  <1> DEFINE B(m) == {ks \in pools : \A ls \in pools : Ahead(ks, ls, m)}
             best == [m \in 0..n |-> B(m)]
             P == (SUBSET pools) \ {{}}
  <1>1. /\ 0 \in 0..n /\ n \in 0..n /\ \A m \in 1..n : m - 1 \in 0..n /\ m \in 0..n
        /\ \A m \in 0..n : best[m] \in P <=> B(m) # {}
    <2>1. 0 \in 0..n /\ n \in 0..n /\ \A m \in 1..n : m - 1 \in 0..n /\ m \in 0..n
      OBVIOUS
    <2>2. \A m : B(m) \in SUBSET pools
      OBVIOUS
    <2> HIDE DEF B
    <2>3. ASSUME NEW m \in 0..n PROVE best[m] \in P <=> B(m) # {}
      <3>1. best[m] = B(m) /\ B(m) \in SUBSET pools
        BY <2>2
      <3> HIDE DEF best
      <3> QED
        BY <3>1
    <2> QED
      BY <2>1, <2>3
  <1> HIDE DEF best, P
  <1>2. best[0] \in P
    <2>1. \A ks, ls : Ahead(ks, ls, 0)
      BY DEF Ahead
    <2>2. B(0) = pools
      BY <2>1
    <2> QED
      BY <1>1, <2>2
  <1>3. ASSUME NEW m \in 1..n, best[m - 1] \in P
        PROVE  best[m] \in P
    <2>1. B(m - 1) # {}
      BY <1>1, <1>3
    <2>2. \A j \in 1..m : j = m \/ j \in 1..(m - 1)
      OBVIOUS
    <2>3. \A j \in 1..(m - 1) : \A h \in 1..(j - 1) : h \in 1..(m - 1)
      OBVIOUS
    <2>4. CASE \E ks \in B(m - 1) : m \in ks
      <3>1. PICK ks \in pools : m \in ks /\ \A ls \in pools : Ahead(ks, ls, m - 1)
        BY <2>4
      <3>2. \A ls \in pools : Ahead(ks, ls, m)
        BY <2>2, <3>1 DEF Ahead
      <3>3. ks \in B(m)
        BY <3>2
      <3> HIDE DEF B
      <3> QED
        BY <1>1, <3>3
    <2>5. CASE \A ks \in B(m - 1) : m \notin ks
      <3>1. PICK ks \in pools : \A ls \in pools : Ahead(ks, ls, m - 1)
        BY <2>1
      <3>2. ASSUME NEW ls \in pools, ~Ahead(ks, ls, m)
            PROVE  FALSE
        <4>1. /\ m \in ls /\ ~\E h \in 1..(m - 1) : h \in ks \ ls
          BY <2>2, <3>1, <3>2 DEF Ahead
        <4>2. \A j \in 1..(m - 1) : j \in ks <=> j \in ls
          BY <2>3, <3>1, <4>1 DEF Ahead
        <4>3. \A ms \in pools : Ahead(ls, ms, m - 1)
          BY <2>3, <3>1, <4>2 DEF Ahead
        <4>4. ls \in B(m - 1)
          BY <4>3
        <4> QED
          BY <2>5, <4>1, <4>4
      <3>3. ks \in B(m)
        BY <3>2
      <3> HIDE DEF B
      <3> QED
        BY <1>1, <3>3
    <2> QED
      BY <2>4, <2>5
  <1>4. best[n] \in P
    <2>1. \A m \in 0..n : best[m] \in P
      BY <1>2, <1>3, KeptBySteps
    <2> QED
      BY <2>1
  <1>5. PICK ks \in pools : \A ls \in pools : Ahead(ks, ls, n)
    BY <1>1, <1>4
  <1>6. ASSUME NEW ls \in pools \ {ks}
        PROVE  Min((ks \ ls) \cup (ls \ ks)) \in ks
    <2> DEFINE T == (ks \ ls) \cup (ls \ ks)
    <2>1. T \subseteq 1..n /\ T # {}
      BY <1>6
    <2>2. Min(T) \in T /\ \A j \in T : Min(T) <= j
      <3>1. T \subseteq Nat
        BY <2>1
      <3> HIDE DEF T
      <3> QED
        BY <2>1, <3>1, MinOf
    <2>3. ASSUME Min(T) \notin ks PROVE FALSE
      <3>1. Min(T) \in ls \ ks /\ Min(T) \in 1..n
        BY <2>1, <2>2, <2>3
      <3>2. PICK h \in 1..(Min(T) - 1) : h \in ks \ ls
        BY <1>5, <3>1 DEF Ahead
      <3>3. h \in T /\ ~(Min(T) <= h)
        BY <3>1, <3>2
      <3> QED
        BY <2>2, <3>3
    <2> QED
      BY <2>3
  <1> QED
    BY <1>6

\* A pool is of groups of the team that wait, and not too large.
LEMMA SelectionPoolIs ==
  ASSUME NEW q \in QueueState, NEW t \in Team
  PROVE  /\ SelectionPool(q, t) \subseteq
               {k \in DOMAIN q.groups : q.groups[k].invited = 0 /\ q.groups[k].team = t}
         /\ SelectionPool(q, t) # {} => Players(q, SelectionPool(q, t)) <= MaxPlayersPerTeam
  <1> DEFINE eligible == {k \in DOMAIN q.groups :
                            /\ q.groups[k].invited = 0 /\ q.groups[k].team = t
                            /\ Size(q.groups[k]) <= MaxPlayersPerTeam}
             pools == {ks \in (SUBSET eligible) \ {{}} :
                         /\ Players(q, ks) \in MinPlayersPerTeam..MaxPlayersPerTeam
                         /\ Players(q, ks \ {Max(ks)}) < MinPlayersPerTeam}
             First(ks) == \A ls \in pools \ {ks} : Min((ks \ ls) \cup (ls \ ks)) \in ks
  <1>1. SelectionPool(q, t) = IF pools = {} THEN {} ELSE CHOOSE ks \in pools : First(ks)
    BY DEF SelectionPool
  <1>2. ASSUME NEW ks \in pools
        PROVE  /\ ks \subseteq eligible /\ ks \subseteq 1..Len(q.groups)
               /\ Players(q, ks) <= MaxPlayersPerTeam
    BY BattlegroundAssumption, Typed
  <1>3. CASE pools = {}
    BY <1>1, <1>3
  <1>4. CASE pools # {}
    <2> HIDE DEF pools
    <2>1. \E ks \in pools : First(ks)
      <3>1. pools \subseteq SUBSET (1..Len(q.groups)) /\ Len(q.groups) \in Nat
        BY <1>2, Typed
      <3> QED
        BY <1>4, <3>1, FirstPool
    <2>2. SelectionPool(q, t) \in pools
      BY <1>1, <1>4, <2>1
    <2> QED
      BY <1>2, <2>2
  <1> QED
    BY <1>3, <1>4

\* The first n of some groups are some of them.
LEMMA FirstOfSome ==
  ASSUME NEW ks, ks \subseteq Nat, ks # {}, IsFiniteSet(ks), NEW n \in Nat \ {0}
  PROVE  FirstOf(ks, n) \subseteq ks /\ FirstOf(ks, n) # {}
  <1>1. PICK m \in ks : \A k \in ks : m <= k
    BY Least
  <1>2. \A l \in ks : ~(l < m)
    BY <1>1
  <1>3. {l \in ks : l < m} = {}
    BY <1>2
  <1>4. Cardinality({l \in ks : l < m}) < n
    BY <1>3, FS_EmptySet
  <1>5. m \in FirstOf(ks, n)
    BY <1>4 DEF FirstOf
  <1> QED
    BY <1>5 DEF FirstOf

\* What is put in front of a sequence without it.
LEMMA AtFront ==
  ASSUME NEW s \in Seq(Nat), IsInjective(s), NEW i \in Nat, i \notin ToSet(s)
  PROVE  /\ <<i>> \o s \in Seq(Nat) /\ IsInjective(<<i>> \o s)
         /\ \A k \in DOMAIN (<<i>> \o s) : \/ (<<i>> \o s)[k] = i
                                           \/ (<<i>> \o s)[k] \in ToSet(s)
  <1> DEFINE u == <<i>> \o s
  <1>1. Len(s) \in Nat /\ DOMAIN s = 1..Len(s)
    BY LenProperties
  <1>2. /\ u \in Seq(Nat) /\ Len(u) = 1 + Len(s)
        /\ \A k \in 1..(1 + Len(s)) : u[k] = IF k = 1 THEN i ELSE s[k - 1]
    <2>1. <<i>> \in Seq(Nat) /\ Len(<<i>>) = 1 /\ <<i>>[1] = i
      OBVIOUS
    <2>2. /\ u \in Seq(Nat) /\ Len(u) = Len(<<i>>) + Len(s)
          /\ \A k \in 1..(Len(<<i>>) + Len(s)) :
                u[k] = IF k <= Len(<<i>>) THEN <<i>>[k] ELSE s[k - Len(<<i>>)]
      BY <2>1, ConcatProperties
    <2> HIDE DEF u
    <2>3. \A k \in 1..(1 + Len(s)) : k <= 1 <=> k = 1
      BY <1>1
    <2> QED
      BY <1>1, <2>1, <2>2, <2>3
  <1> HIDE DEF u
  <1>3. DOMAIN u = 1..(1 + Len(s))
    BY <1>2, LenProperties
  <1>4. ASSUME NEW k \in DOMAIN u, k # 1
        PROVE  k - 1 \in DOMAIN s /\ u[k] = s[k - 1] /\ u[k] \in ToSet(s)
    <2>1. k - 1 \in DOMAIN s /\ u[k] = s[k - 1]
      BY <1>1, <1>2, <1>3, <1>4
    <2> QED
      BY <2>1 DEF ToSet
  <1>5. 1 \in DOMAIN u /\ u[1] = i
    BY <1>1, <1>2, <1>3
  <1>6. ASSUME NEW k \in DOMAIN u, NEW l \in DOMAIN u, u[k] = u[l]
        PROVE  k = l
    <2>1. CASE k = 1 \/ l = 1
      BY <1>4, <1>5, <1>6, <2>1
    <2>2. CASE k # 1 /\ l # 1
      <3>1. k - 1 \in DOMAIN s /\ l - 1 \in DOMAIN s /\ s[k - 1] = s[l - 1]
        BY <1>4, <1>6, <2>2
      <3>2. k - 1 = l - 1
        BY <3>1, Zenon DEF IsInjective
      <3> QED
        BY <1>3, <3>2
    <2> QED
      BY <2>1, <2>2
  <1>7. IsInjective(u)
    BY <1>6, Zenon DEF IsInjective
  <1>8. \A k \in DOMAIN u : u[k] = i \/ u[k] \in ToSet(s)
    BY <1>4, <1>5
  <1> QED
    BY <1>2, <1>7, <1>8 DEF u

\* The new battleground stands at the front of those that have room.
Created(q) == [q EXCEPT !.bgs = Append(@, NewBattleground),
                        !.free = <<Len(q.bgs) + 1>> \o @]

\* A new battleground, which nobody is invited to yet.
LEMMA CreatedSound ==
  ASSUME NEW q, NEW b, NEW a, Sound(q, b, a), NEW i, i = Len(q.bgs) + 1
  PROVE  /\ SoundBut(Created(q), b, a, i) /\ Onward(q, Created(q))
         /\ Created(q).groups = q.groups /\ Created(q).slot = q.slot
         /\ Alive(Created(q), i) /\ Created(q).bgs[i] = NewBattleground
         /\ i \in DOMAIN Created(q).bgs
  <1> DEFINE r == Created(q)
             bs == Append(q.bgs, NewBattleground)
             fr == <<i>> \o q.free
  <1>1. /\ q \in QueueState /\ Whereabouts(b, a) /\ GroupsApart(q)
        /\ Known(q, b) /\ FreeAlive(q)
        /\ \A p \in Player : SlotSound(q, b, a, p) /\ EventsSound(q, p)
        /\ \A j \in DOMAIN q.bgs : q.bgs[j] # NULL =>
              /\ InsideSound(q, b, a, j) /\ CountsExact(q, b, a, j)
              /\ j # 0 => EmptyDeleted(q, b, a, j)
    BY DEF Sound, SoundBut
  <1>2. /\ q.bgs \in Seq(BgRow \cup {NULL}) /\ q.free \in Seq(Nat)
        /\ Len(q.bgs) \in Nat /\ DOMAIN q.bgs = 1..Len(q.bgs)
    BY <1>1, Typed
  <1>3. NewBattleground \in BgRow /\ NewBattleground # NULL
    <2>1. NewBattleground \in BgRow
      BY DEF NewBattleground, BgRow, Status
    <2> QED
      BY <2>1, BattlegroundAssumption
  <1>4. /\ bs \in Seq(BgRow \cup {NULL}) /\ DOMAIN bs = 1..i
        /\ bs[i] = NewBattleground /\ \A j \in DOMAIN q.bgs : bs[j] = q.bgs[j]
    <2>1. /\ bs \in Seq(BgRow \cup {NULL}) /\ Len(bs) = Len(q.bgs) + 1
          /\ \A j \in 1..Len(q.bgs) : bs[j] = q.bgs[j]
          /\ bs[Len(q.bgs) + 1] = NewBattleground
      BY <1>2, <1>3, AppendProperties
    <2> HIDE DEF bs
    <2> QED
      BY <1>2, <2>1, LenProperties
  <1>5. /\ i \in Nat \ {0} /\ i \notin DOMAIN q.bgs /\ i \in 1..i
        /\ \A j \in 1..i : j = i \/ j \in DOMAIN q.bgs
        /\ \A j \in DOMAIN q.bgs : j \in 1..i
    BY <1>2
  <1>6. /\ fr \in Seq(Nat) /\ IsInjective(fr)
        /\ \A k \in DOMAIN fr : fr[k] = i \/ Alive(q, fr[k])
    <2>1. \A j \in ToSet(q.free) : Alive(q, j)
      BY <1>1 DEF FreeAlive, ToSet
    <2>2. i \notin ToSet(q.free)
      BY <1>5, <2>1 DEF Alive
    <2>3. /\ fr \in Seq(Nat) /\ IsInjective(fr)
          /\ \A k \in DOMAIN fr : fr[k] = i \/ fr[k] \in ToSet(q.free)
      BY <1>1, <1>2, <1>5, <2>2, AtFront DEF FreeAlive
    <2> QED
      BY <2>1, <2>3
  <1>7. r = [q EXCEPT !.bgs = bs, !.free = fr]
    BY DEF Created
  <1> HIDE DEF bs, fr, r
  <1>8. /\ r \in QueueState /\ r.groups = q.groups /\ r.bgs = bs /\ r.free = fr
        /\ r.slot = q.slot /\ r.events = q.events
    BY <1>1, <1>4, <1>6, <1>7 DEF QueueState
  <1>9. \A p : GroupOf(r, p) = GroupOf(q, p) /\ InvitedOf(r, p) = InvitedOf(q, p)
    BY <1>8 DEF GroupOf, InvitedOf
  <1>10. /\ \A j : Alive(r, j) <=> Alive(q, j) \/ j = i
         /\ ~Alive(q, i)
    BY <1>3, <1>4, <1>5, <1>8 DEF Alive
  <1>11. \A p \in Player : i \notin InvitedOf(q, p) /\ b[p] # i
    BY <1>1, <1>5 DEF Known
  <1>12. GroupsApart(r)
    BY <1>1, <1>8 DEF GroupsApart
  <1>13. Known(r, b)
    BY <1>1, <1>4, <1>5, <1>8, <1>9 DEF Known
  <1>14. FreeAlive(r)
    BY <1>6, <1>8, <1>10 DEF FreeAlive
  <1>15. \A p \in Player : SlotSound(r, b, a, p) /\ EventsSound(r, p)
    BY <1>1, <1>8, <1>9, <1>10, <1>11 DEF SlotSound, EventsSound
  <1>16. ASSUME NEW j \in DOMAIN q.bgs, NEW t
         PROVE  CountedIn(r, b, a, j, t) = CountedIn(q, b, a, j, t)
    BY <1>4, <1>8, <1>9 DEF CountedIn
  <1>17. InsideSound(r, b, a, i) /\ CountsExact(r, b, a, i)
    <2>1. /\ r.bgs[i].players = {} /\ \A t \in Team : r.bgs[i].invited[t] = 0
      BY <1>4, <1>8 DEF NewBattleground
    <2>2. \A t : CountedIn(r, b, a, i, t) = {}
      BY <1>9, <1>11, <2>1 DEF CountedIn
    <2>3. InsideSound(r, b, a, i)
      BY <1>11, <2>1 DEF InsideSound
    <2>4. 0 <= MaxPlayersPerTeam
      BY BattlegroundAssumption
    <2>5. CountsExact(r, b, a, i)
      BY <2>1, <2>2, <2>4, FS_EmptySet DEF CountsExact
    <2> QED
      BY <2>3, <2>5
  <1>18. ASSUME NEW j \in DOMAIN q.bgs, q.bgs[j] # NULL
         PROVE  /\ InsideSound(r, b, a, j) /\ CountsExact(r, b, a, j)
                /\ EmptyDeleted(r, b, a, j)
    <2>1. r.bgs[j] = q.bgs[j] /\ j # 0
      BY <1>2, <1>4, <1>8
    <2> QED
      BY <1>1, <1>16, <1>18, <2>1 DEF InsideSound, CountsExact, EmptyDeleted
  <1>19. SoundBut(r, b, a, i)
    BY <1>1, <1>4, <1>5, <1>8, <1>12, <1>13, <1>14, <1>15, <1>17, <1>18 DEF SoundBut
  <1>20. Onward(q, r)
    <2>1. \A j \in DOMAIN q.bgs : q.bgs[j] # NULL =>
             /\ Alive(r, j) /\ r.bgs[j] = q.bgs[j]
             /\ \A t \in Team : q.bgs[j].invited[t] \in Nat
      BY <1>1, <1>4, <1>8, <1>10, Typed, BgTyped DEF Alive
    <2> QED
      BY <1>9, <2>1 DEF Onward
  <1> QED
    BY <1>4, <1>5, <1>8, <1>10, <1>19, <1>20 DEF r

\* The places ks hold groups of team t that wait, not too many players.
PoolOf(q, ks, t) ==
    /\ ks \subseteq {k \in DOMAIN q.groups : q.groups[k].invited = 0 /\ q.groups[k].team = t}
    /\ Players(q, ks) <= MaxPlayersPerTeam

\* Of a pool some may be invited: they are of its team, and not too many.
LEMMA PoolPart ==
  ASSUME NEW q \in QueueState, GroupsApart(q), NEW t \in Team, NEW ks, PoolOf(q, ks, t),
         NEW r \in QueueState, Len(r.groups) = Len(q.groups),
         \A k \in DOMAIN q.groups : r.groups[k].players = q.groups[k].players,
         NEW ls \in SUBSET ks
  PROVE  /\ ls \in SUBSET DOMAIN r.groups
         /\ \A p \in Waiting(r, ls) : TeamOf(p) = t
         /\ Cardinality(Waiting(r, ls)) \in Nat
         /\ Cardinality(Waiting(r, ls)) <= MaxPlayersPerTeam
  <1>1. ks \subseteq DOMAIN q.groups /\ \A k \in ks : q.groups[k].team = t
    BY DEF PoolOf
  <1>2. DOMAIN r.groups = DOMAIN q.groups
    BY Typed
  <1>3. Waiting(r, ls) \subseteq Members(q, ks)
    BY <1>1 DEF Waiting, Members, Uninvited
  <1>4. \A p \in Members(q, ks) : TeamOf(p) = t
    BY <1>1 DEF Members, GroupsApart
  <1>5. Members(q, ks) \in SUBSET Player
    BY <1>1, Typed, RowTyped DEF Members
  <1>6. /\ Cardinality(Waiting(r, ls)) <= Cardinality(Members(q, ks))
        /\ Cardinality(Waiting(r, ls)) \in Nat
        /\ Cardinality(Members(q, ks)) \in Nat
    BY <1>3, <1>5, PlayersFewer, PlayersFinite
  <1>7. Cardinality(Members(q, ks)) <= MaxPlayersPerTeam
    BY DEF PoolOf, Players
  <1>8. Cardinality(Waiting(r, ls)) <= MaxPlayersPerTeam
    BY <1>6, <1>7, BattlegroundAssumption
  <1> QED
    BY <1>1, <1>2, <1>3, <1>4, <1>6, <1>8

\* The groups of a pool are finitely many.
LEMMA PoolFinite ==
  ASSUME NEW q \in QueueState, NEW ks \in SUBSET DOMAIN q.groups
  PROVE  ks \subseteq Nat /\ IsFiniteSet(ks)
  <1>1. DOMAIN q.groups = 1..Len(q.groups) /\ Len(q.groups) \in Nat
    BY Typed
  <1>2. IsFiniteSet(1..Len(q.groups))
    BY <1>1, FS_Interval
  <1>3. IsFiniteSet(ks)
    BY <1>1, <1>2, FS_Subset
  <1> QED
    BY <1>1, <1>3

\* A new battleground with the groups of both pools.
LEMMA CreateBattlegroundReached ==
  ASSUME NEW q, NEW b, NEW a, Sound(q, b, a),
         NEW alliance, alliance # {}, PoolOf(q, alliance, "alliance"),
         NEW horde, horde # {}, PoolOf(q, horde, "horde")
  PROVE  Reached(q, b, a, CreateBattleground(q, alliance, horde))
  <1> DEFINE i == Len(q.bgs) + 1
             n == Min({Cardinality(alliance), Cardinality(horde)})
             c == Created(q)
             M == Waiting(c, FirstOf(horde, n))
             r == InviteGroups(c, FirstOf(horde, n), i)
             N == Waiting(r, FirstOf(alliance, n))
             s == InviteGroups(r, FirstOf(alliance, n), i)
  <1>1. /\ q \in QueueState /\ GroupsApart(q)
        /\ alliance \in SUBSET DOMAIN q.groups /\ horde \in SUBSET DOMAIN q.groups
        /\ "alliance" \in Team /\ "horde" \in Team
    BY SoundTyped DEF Sound, PoolOf, Team
  <1>2. CreateBattleground(q, alliance, horde) \in {r, s}
    BY DEF CreateBattleground, Created
  <1>3. /\ SoundBut(c, b, a, i) /\ Onward(q, c)
        /\ c.groups = q.groups /\ c.slot = q.slot
        /\ Alive(c, i) /\ c.bgs[i] = NewBattleground /\ i \in DOMAIN c.bgs
    BY CreatedSound
  <1>4. /\ FirstOf(horde, n) \subseteq horde /\ FirstOf(horde, n) # {}
        /\ FirstOf(alliance, n) \subseteq alliance
    <2>1. /\ horde \subseteq Nat /\ IsFiniteSet(horde)
          /\ alliance \subseteq Nat /\ IsFiniteSet(alliance)
      BY <1>1, PoolFinite
    <2>2. Cardinality(horde) \in Nat \ {0} /\ Cardinality(alliance) \in Nat \ {0}
      BY <2>1, FS_CardinalityType, FS_EmptySet
    <2>3. n \in Nat \ {0}
      <3>1. {Cardinality(alliance), Cardinality(horde)} \subseteq Nat
        BY <2>2
      <3>2. n \in {Cardinality(alliance), Cardinality(horde)}
        BY <3>1, MinOf
      <3> QED
        BY <2>2, <3>2
    <2> HIDE DEF n
    <2> QED
      BY <2>1, <2>3, FirstOfSome
  <1>5. c \in QueueState /\ GroupsApart(c)
    BY <1>3, SoundTyped
  <1> HIDE DEF i, n, c
  \* The groups of the Horde.
  <1>6. /\ FirstOf(horde, n) \in SUBSET DOMAIN c.groups
        /\ \A p \in M : TeamOf(p) = "horde"
        /\ Cardinality(M) \in Nat /\ Cardinality(M) <= MaxPlayersPerTeam
    BY <1>1, <1>3, <1>4, <1>5, PoolPart
  <1>7. Invites(c, M, i, r) /\ M \in SUBSET Player
    BY <1>3, <1>5, <1>6, InviteGroupsInvites
  <1>8. M # {}
    <2>1. PICK k \in FirstOf(horde, n) : TRUE
      BY <1>4
    <2>2. /\ k \in DOMAIN c.groups /\ c.groups[k].invited = 0 /\ c.groups[k].players # {}
      BY <1>3, <1>4, <1>5, <2>1 DEF PoolOf, GroupsApart
    <2> QED
      BY <2>1, <2>2 DEF Waiting, Members, Uninvited
  <1>9. /\ c.bgs[i].status = "wait_join"
        /\ \A t \in Team : c.bgs[i].invited[t] = 0
    BY <1>3 DEF NewBattleground
  <1> HIDE DEF M, r
  <1>10. \A t \in Team : {p \in M : TeamOf(p) = t} # {} =>
            /\ t = "horde" /\ {p \in M : TeamOf(p) = t} = M
    BY <1>6
  <1>11. Fits(c, M, i)
    BY <1>6, <1>9, <1>10 DEF Fits
  <1>12. Sound(r, b, a) /\ Onward(c, r) /\ SlotsKept(c, r, Player)
    <2>1. i \in {0, i}
      OBVIOUS
    <2> QED
      BY <1>3, <1>7, <1>8, <1>11, <2>1, InvitesOnward
  <1>13. Reached(q, b, a, r)
    <2>1. r \in QueueState
      BY <1>12, SoundTyped DEF Sound
    <2>2. Onward(q, r)
      BY <1>1, <1>3, <1>5, <1>12, <2>1, OnwardTwice
    <2> QED
      BY <1>3, <1>12, <2>2 DEF Reached, SlotsKept
  \* The groups of the Alliance.
  <1>14. /\ r \in QueueState /\ GroupsApart(r) /\ Len(r.groups) = Len(q.groups)
         /\ \A k \in DOMAIN q.groups : r.groups[k].players = q.groups[k].players
         /\ Alive(r, i) /\ r.bgs[i].status = "wait_join"
         /\ r.bgs[i].invited["alliance"] = 0
    <2>1. /\ r \in QueueState /\ GroupsApart(r) /\ Len(r.groups) = Len(q.groups)
          /\ \A k \in DOMAIN q.groups : r.groups[k].players = q.groups[k].players
          /\ DOMAIN r.bgs = DOMAIN c.bgs /\ r.bgs[i] # NULL
          /\ r.bgs[i].status = c.bgs[i].status
          /\ r.bgs[i].invited["alliance"] =
                c.bgs[i].invited["alliance"] + Cardinality({p \in M : TeamOf(p) = "alliance"})
      BY <1>1, <1>3, <1>7 DEF Invites
    <2>2. {p \in M : TeamOf(p) = "alliance"} = {}
      BY <1>6
    <2>3. Cardinality({p \in M : TeamOf(p) = "alliance"}) = 0
      BY <2>2, FS_EmptySet
    <2>4. Alive(r, i)
      BY <1>3, <2>1 DEF Alive
    <2> QED
      BY <1>1, <1>9, <2>1, <2>3, <2>4
  <1>15. /\ FirstOf(alliance, n) \in SUBSET DOMAIN r.groups
         /\ \A p \in N : TeamOf(p) = "alliance"
         /\ Cardinality(N) \in Nat /\ Cardinality(N) <= MaxPlayersPerTeam
    BY <1>1, <1>4, <1>14, PoolPart
  <1>16. Invites(r, N, i, s) /\ N \in SUBSET Player
    BY <1>14, <1>15, InviteGroupsInvites
  <1> HIDE DEF N, s
  <1>17. \A t \in Team : {p \in N : TeamOf(p) = t} # {} =>
            /\ t = "alliance" /\ {p \in N : TeamOf(p) = t} = N
    BY <1>15
  <1>18. Fits(r, N, i)
    <2>1. ASSUME NEW t \in Team, {p \in N : TeamOf(p) = t} # {}
          PROVE  /\ r.bgs[i].invited[t] = 0 /\ {p \in N : TeamOf(p) = t} = N
      BY <1>14, <1>17, <2>1
    <2>2. /\ r.bgs[i].status # "wait_leave" /\ r.bgs[i].status # "in_progress"
          /\ 0 + Cardinality(N) <= MaxPlayersPerTeam
      BY <1>14, <1>15
    <2> QED
      BY <2>1, <2>2 DEF Fits
  <1>19. Reached(r, b, a, s)
    BY <1>12, <1>14, <1>16, <1>18, InvitesReached
  <1>20. Reached(q, b, a, s)
    BY <1>13, <1>19, ReachedTwice
  <1> QED
    BY <1>2, <1>13, <1>20

\* What Update does to the queue.
LEMMA UpdateReached ==
  ASSUME NEW q, NEW b, NEW a, Sound(q, b, a)
  PROVE  Reached(q, b, a, Update(q))
  <1> DEFINE f == Fill(q)
             A == SelectionPool(f, "alliance")
             H == SelectionPool(f, "horde")
  <1>1. Reached(q, b, a, f)
    BY FillReached
  <1>2. Sound(f, b, a) /\ f \in QueueState
    BY <1>1, SoundTyped DEF Reached, Sound
  <1>3. Update(q) = IF A # {} /\ H # {} THEN CreateBattleground(f, A, H) ELSE f
    BY DEF Update
  <1> HIDE DEF f
  <1>4. CASE A # {} /\ H # {}
    <2>1. PoolOf(f, A, "alliance") /\ PoolOf(f, H, "horde")
      BY <1>2, <1>4, SelectionPoolIs DEF PoolOf, Team
    <2>2. Reached(f, b, a, CreateBattleground(f, A, H))
      BY <1>2, <1>4, <2>1, CreateBattlegroundReached
    <2>3. Reached(q, b, a, CreateBattleground(f, A, H))
      BY <1>1, <2>2, ReachedTwice
    <2> QED
      BY <1>3, <1>4, <2>3
  <1>5. CASE ~(A # {} /\ H # {})
    BY <1>1, <1>3, <1>5
  <1> QED
    BY <1>4, <1>5

----------------------------------------------------------------------------
(* One player moves.                                                       *)

CountsIn(q, b, a, i, p) ==
    \/ i \in InvitedOf(q, p)
    \/ p \in q.bgs[i].players
    \/ a[p] = "far" /\ b[p] = i

BgSound(q, b, a, i) ==
    InsideSound(q, b, a, i) /\ CountsExact(q, b, a, i) /\ EmptyDeleted(q, b, a, i)

\* From q, where the players are as b and a say, to r, with d and c: only p moves.
OthersSame(q, b, a, r, d, c, p) ==
    \A x \in Player \ {p} :
        /\ InvitedOf(r, x) = InvitedOf(q, x)
        /\ r.slot[x] = q.slot[x] /\ r.events[x] = q.events[x]
        /\ d[x] = b[x] /\ c[x] = a[x]

\* Player p is inside battleground i when he is there and has arrived.
InsideOf(q, b, a, i, p) ==
    /\ p \in q.bgs[i].players => b[p] = i /\ a[p] # "far"
    /\ a[p] = "world" /\ b[p] = i => p \in q.bgs[i].players

\* Who is inside is still right if only p has gone or come.
LEMMA InsideFrame ==
  ASSUME NEW q, NEW b, NEW a, NEW r, NEW d, NEW c, NEW p \in Player, NEW i,
         OthersSame(q, b, a, r, d, c, p),
         InsideSound(q, b, a, i),
         r.bgs[i].players \in SUBSET Player,
         r.bgs[i].players \ {p} = q.bgs[i].players \ {p},
         InsideOf(r, d, c, i, p)
  PROVE  InsideSound(r, d, c, i)
  <1>1. \A x \in Player \ {p} : /\ x \in r.bgs[i].players <=> x \in q.bgs[i].players
                                /\ d[x] = b[x] /\ c[x] = a[x]
    BY DEF OthersSame
  <1>2. \A x \in Player : x = p \/ x \in Player \ {p}
    OBVIOUS
  <1> QED
    BY <1>1, <1>2 DEF InsideSound, InsideOf

\* He is counted as before.
LEMMA BgKept ==
  ASSUME NEW q, NEW b, NEW a, NEW r, NEW d, NEW c, NEW p \in Player, NEW i,
         OthersSame(q, b, a, r, d, c, p), BgSound(q, b, a, i),
         r.bgs[i].players \in SUBSET Player,
         r.bgs[i].players \ {p} = q.bgs[i].players \ {p},
         r.bgs[i].invited = q.bgs[i].invited,
         q.bgs[i].deleteThis => r.bgs[i].deleteThis,
         InsideOf(r, d, c, i, p),
         CountsIn(r, d, c, i, p) <=> CountsIn(q, b, a, i, p)
  PROVE  BgSound(r, d, c, i)
  <1>1. \A x \in Player : CountsIn(r, d, c, i, x) <=> CountsIn(q, b, a, i, x)
    BY DEF OthersSame, CountsIn
  <1>2. \A t : CountedIn(r, d, c, i, t) = CountedIn(q, b, a, i, t)
    BY <1>1 DEF CountedIn, CountsIn
  <1>3. InsideSound(r, d, c, i)
    BY InsideFrame DEF BgSound
  <1>4. CountsExact(r, d, c, i)
    BY <1>2 DEF BgSound, CountsExact
  <1>5. EmptyDeleted(r, d, c, i)
    BY <1>2 DEF BgSound, EmptyDeleted
  <1> QED
    BY <1>3, <1>4, <1>5 DEF BgSound

\* Battleground bg with one of team t less, and to be deleted if he was the last.
LEMMA FewerIs ==
  ASSUME NEW bg \in BgRow, NEW t \in Team, bg.invited[t] > 0
  PROVE  /\ Fewer(bg, t) \in BgRow
         /\ Fewer(bg, t).status = bg.status /\ Fewer(bg, t).players = bg.players
         /\ Fewer(bg, t).invited[t] = bg.invited[t] - 1
         /\ \A u \in Team \ {t} : Fewer(bg, t).invited[u] = bg.invited[u]
         /\ Fewer(bg, t).deleteThis =
              (bg.deleteThis \/ (bg.players = {} /\ \A u \in Team : Fewer(bg, t).invited[u] = 0))
  <1> DEFINE inv == [bg.invited EXCEPT ![t] = @ - 1]
             del == bg.deleteThis \/ (bg.players = {} /\ \A u \in Team : inv[u] = 0)
  <1>1. /\ bg.invited \in [Team -> Nat] /\ bg.deleteThis \in BOOLEAN
        /\ bg = [status |-> bg.status, invited |-> bg.invited, players |-> bg.players,
                 deleteThis |-> bg.deleteThis]
    BY DEF BgRow
  <1>2. /\ inv \in [Team -> Nat] /\ inv[t] = bg.invited[t] - 1
        /\ \A u \in Team \ {t} : inv[u] = bg.invited[u]
    BY <1>1
  <1> HIDE DEF inv
  <1>3. [bg EXCEPT !.invited[t] = @ - 1] = [bg EXCEPT !.invited = inv]
    BY DEF inv
  <1>4. Fewer(bg, t) = [bg EXCEPT !.invited = inv, !.deleteThis = del]
    BY <1>1, <1>3 DEF Fewer, SetDeleteThis
  <1>5. del \in BOOLEAN
    BY <1>1
  <1> HIDE DEF del
  <1>6. /\ Fewer(bg, t) \in BgRow
        /\ Fewer(bg, t).status = bg.status /\ Fewer(bg, t).players = bg.players
        /\ Fewer(bg, t).invited = inv /\ Fewer(bg, t).deleteThis = del
    BY <1>1, <1>2, <1>4, <1>5 DEF BgRow
  <1> QED
    BY <1>2, <1>6 DEF del

\* A player is of a team.
LEMMA TeamOfIn == \A p : TeamOf(p) \in Team
  BY DEF TeamOf, Team

\* He was counted, and is not any more.
LEMMA BgLess ==
  ASSUME NEW q, NEW b, NEW a, NEW r, NEW d, NEW c, NEW p \in Player, NEW i,
         OthersSame(q, b, a, r, d, c, p), BgSound(q, b, a, i), q.bgs[i] \in BgRow,
         NEW bg \in BgRow, bg.invited = q.bgs[i].invited,
         bg.players \ {p} = q.bgs[i].players \ {p},
         q.bgs[i].deleteThis => bg.deleteThis,
         r.bgs[i] = Fewer(bg, TeamOf(p)),
         InsideOf(r, d, c, i, p),
         CountsIn(q, b, a, i, p), ~CountsIn(r, d, c, i, p)
  PROVE  r.bgs[i] \in BgRow /\ r.bgs[i].status = bg.status /\ BgSound(r, d, c, i)
  <1> DEFINE t == TeamOf(p)
             C(u) == CountedIn(q, b, a, i, u)
             D(u) == CountedIn(r, d, c, i, u)
  <1>1. t \in Team
    BY TeamOfIn
  <1>2. \A u \in Team : /\ q.bgs[i].invited[u] = Cardinality(C(u))
                        /\ q.bgs[i].invited[u] <= MaxPlayersPerTeam
                        /\ q.bgs[i].invited[u] \in Nat
    BY BgTyped DEF BgSound, CountsExact
  <1>3. p \in C(t) /\ C(t) \in SUBSET Player
    BY DEF CountedIn, CountsIn
  <1>4. Cardinality(C(t)) \in Nat \ {0} /\ Cardinality(C(t) \ {p}) = Cardinality(C(t)) - 1
    BY <1>3, PlayerLess
  <1>5. /\ r.bgs[i] \in BgRow
        /\ r.bgs[i].status = bg.status /\ r.bgs[i].players = bg.players
        /\ r.bgs[i].invited[t] = q.bgs[i].invited[t] - 1
        /\ \A u \in Team \ {t} : r.bgs[i].invited[u] = q.bgs[i].invited[u]
        /\ r.bgs[i].deleteThis =
             (bg.deleteThis \/ (bg.players = {} /\ \A u \in Team : r.bgs[i].invited[u] = 0))
    <2>1. bg.invited[t] > 0
      BY <1>1, <1>2, <1>4
    <2> QED
      BY <1>1, <2>1, FewerIs
  <1>6. \A x \in Player \ {p} : CountsIn(r, d, c, i, x) <=> CountsIn(q, b, a, i, x)
    BY <1>5 DEF OthersSame, CountsIn
  <1>7. \A u \in Team : D(u) = IF u = t THEN C(u) \ {p} ELSE C(u)
    BY <1>6 DEF CountedIn, CountsIn
  <1>8. InsideSound(r, d, c, i)
    BY <1>5, BgTyped, InsideFrame DEF BgSound
  <1> HIDE DEF C, D
  <1>9. \A u \in Team : r.bgs[i].invited[u] = Cardinality(D(u))
    BY <1>1, <1>2, <1>4, <1>5, <1>7
  <1>10. \A u \in Team : r.bgs[i].invited[u] <= MaxPlayersPerTeam
    BY <1>1, <1>2, <1>5, BattlegroundAssumption
  <1>11. CountsExact(r, d, c, i)
    BY <1>9, <1>10 DEF CountsExact, D
  <1>12. ASSUME \A u \in Team : D(u) = {}
         PROVE  r.bgs[i].deleteThis
    <2>1. \A u \in Team : r.bgs[i].invited[u] = 0
      BY <1>9, <1>12, FS_EmptySet
    <2>2. \A x \in Player : x \notin bg.players
      BY <1>5, <1>12, TeamOfIn DEF D, CountedIn
    <2>3. bg.players = {}
      BY <2>2, BgTyped
    <2> QED
      BY <1>5, <2>1, <2>3
  <1>13. EmptyDeleted(r, d, c, i)
    BY <1>12 DEF EmptyDeleted, D
  <1> QED
    BY <1>5, <1>8, <1>11, <1>13 DEF BgSound

\* What a sound queue says of a battleground.
LEMMA SoundBgs ==
  ASSUME NEW q, NEW b, NEW a, Sound(q, b, a), NEW i, Alive(q, i)
  PROVE  /\ BgSound(q, b, a, i) /\ q.bgs[i] \in BgRow
         /\ i \in Nat \ {0} /\ i \in DOMAIN q.bgs
  <1>1. q \in QueueState
    BY SoundTyped DEF Sound
  <1>2. i \in DOMAIN q.bgs /\ q.bgs[i] # NULL /\ i \in Nat \ {0} /\ q.bgs[i] \in BgRow
    BY <1>1, Typed DEF Alive
  <1> QED
    BY <1>2 DEF Sound, SoundBut, BgSound

\* What is left to show when one player moves.
LEMMA SoundFrame ==
  ASSUME NEW q, NEW b, NEW a, Sound(q, b, a), NEW p \in Player,
         NEW r \in QueueState, NEW d, NEW c, OthersSame(q, b, a, r, d, c, p),
         Whereabouts(d, c), GroupsApart(r), FreeAlive(r),
         DOMAIN r.bgs = DOMAIN q.bgs,
         \A i \in DOMAIN q.bgs : r.bgs[i] # NULL <=> q.bgs[i] # NULL,
         InvitedOf(r, p) \cup {d[p]} \subseteq {0} \cup DOMAIN q.bgs,
         SlotSound(r, d, c, p), EventsSound(r, p),
         \A i : Alive(q, i) => BgSound(r, d, c, i)
  PROVE  Sound(r, d, c)
  <1>1. \A i : Alive(r, i) <=> Alive(q, i)
    BY DEF Alive
  <1>2. ASSUME NEW x \in Player
        PROVE  /\ SlotSound(r, d, c, x) /\ EventsSound(r, x)
               /\ InvitedOf(r, x) \cup {d[x]} \subseteq {0} \cup DOMAIN r.bgs
    <2>1. CASE x = p
      BY <2>1
    <2>2. CASE x # p
      <3>1. /\ InvitedOf(r, x) = InvitedOf(q, x)
            /\ r.slot[x] = q.slot[x] /\ r.events[x] = q.events[x]
            /\ d[x] = b[x] /\ c[x] = a[x]
        BY <2>2 DEF OthersSame
      <3>2. SlotSound(q, b, a, x) /\ EventsSound(q, x) /\ Known(q, b)
        BY DEF Sound, SoundBut
      <3> QED
        BY <1>1, <3>1, <3>2 DEF SlotSound, EventsSound, Known
    <2> QED
      BY <2>1, <2>2
  <1>3. Known(r, d)
    BY <1>2 DEF Known
  <1>4. \A i \in DOMAIN r.bgs : r.bgs[i] # NULL => BgSound(r, d, c, i)
    BY DEF Alive
  <1> QED
    BY <1>2, <1>3, <1>4 DEF Sound, SoundBut, BgSound

----------------------------------------------------------------------------
(* A player leaves his group.                                              *)

\* The rows gs are those of q without player p; row k was at the place f[k].
Regrouped(q, gs, p, f) ==
    /\ gs \in Seq(GroupRow)
    /\ f \in [DOMAIN gs -> DOMAIN q.groups]
    /\ \A k, l \in DOMAIN gs : f[k] = f[l] => k = l
    /\ \A k \in DOMAIN gs :
          /\ gs[k].players = q.groups[f[k]].players \ {p} /\ gs[k].players # {}
          /\ gs[k].team = q.groups[f[k]].team
          /\ gs[k].invited = q.groups[f[k]].invited
    /\ \A l \in DOMAIN q.groups : q.groups[l].players # {p} =>
          \E k \in DOMAIN gs : f[k] = l

\* A queue without p has its groups apart and the other invitations.
LEMMA RegroupedSound ==
  ASSUME NEW q \in QueueState, GroupsApart(q), NEW p, NEW f,
         NEW gs, Regrouped(q, gs, p, f), NEW r, r.groups = gs
  PROVE  /\ GroupsApart(r)
         /\ \A x : InvitedOf(r, x) = IF x = p THEN {} ELSE InvitedOf(q, x)
  <1>1. /\ f \in [DOMAIN gs -> DOMAIN q.groups]
        /\ \A k, l \in DOMAIN gs : f[k] = f[l] => k = l
        /\ \A k \in DOMAIN gs :
              /\ gs[k].players = q.groups[f[k]].players \ {p} /\ gs[k].players # {}
              /\ gs[k].team = q.groups[f[k]].team
              /\ gs[k].invited = q.groups[f[k]].invited
        /\ \A l \in DOMAIN q.groups : q.groups[l].players # {p} =>
              \E k \in DOMAIN gs : f[k] = l
    BY DEF Regrouped
  <1>2. GroupsApart(r)
    <2> SUFFICES ASSUME NEW k \in DOMAIN gs
                 PROVE  /\ gs[k].players # {}
                        /\ \A x \in gs[k].players : TeamOf(x) = gs[k].team
                        /\ \A l \in DOMAIN gs \ {k} : gs[k].players \cap gs[l].players = {}
      BY DEF GroupsApart
    <2>1. f[k] \in DOMAIN q.groups /\ gs[k].players \subseteq q.groups[f[k]].players
      BY <1>1
    <2>2. \A x \in gs[k].players : TeamOf(x) = gs[k].team
      BY <1>1, <2>1 DEF GroupsApart
    <2>3. ASSUME NEW l \in DOMAIN gs \ {k}
          PROVE  gs[k].players \cap gs[l].players = {}
      <3>1. f[l] \in DOMAIN q.groups \ {f[k]} /\ gs[l].players \subseteq q.groups[f[l]].players
        BY <1>1
      <3>2. q.groups[f[k]].players \cap q.groups[f[l]].players = {}
        BY <2>1, <3>1 DEF GroupsApart
      <3> QED
        BY <2>1, <3>1, <3>2
    <2> QED
      BY <1>1, <2>2, <2>3
  <1>3. InvitedOf(r, p) = {}
    <2>1. GroupOf(r, p) = {}
      BY <1>1 DEF GroupOf
    <2> QED
      BY <2>1 DEF InvitedOf
  <1>4. ASSUME NEW x, x # p
        PROVE  InvitedOf(r, x) = InvitedOf(q, x)
    <2>1. ASSUME NEW k \in GroupOf(r, x)
          PROVE  gs[k].invited \in InvitedOf(q, x)
      <3>1. k \in DOMAIN gs /\ x \in gs[k].players
        BY DEF GroupOf
      <3>2. f[k] \in DOMAIN q.groups /\ x \in q.groups[f[k]].players
        BY <1>1, <3>1
      <3>3. f[k] \in GroupOf(q, x) /\ gs[k].invited = q.groups[f[k]].invited
        BY <1>1, <3>1, <3>2 DEF GroupOf
      <3> QED
        BY <3>3 DEF InvitedOf
    <2>2. ASSUME NEW l \in GroupOf(q, x)
          PROVE  q.groups[l].invited \in InvitedOf(r, x)
      <3>1. l \in DOMAIN q.groups /\ x \in q.groups[l].players
        BY DEF GroupOf
      <3>2. PICK k \in DOMAIN gs : f[k] = l
        BY <1>1, <1>4, <3>1
      <3>3. k \in GroupOf(r, x) /\ gs[k].invited = q.groups[l].invited
        BY <1>1, <1>4, <3>1, <3>2 DEF GroupOf
      <3> QED
        BY <3>3 DEF InvitedOf
    <2> QED
      BY <2>1, <2>2 DEF InvitedOf
  <1> QED
    BY <1>2, <1>3, <1>4

\* LeaveGroup regroups the queue so.
LEMMA WithoutRegrouped ==
  ASSUME NEW q \in QueueState, GroupsApart(q), NEW k \in DOMAIN q.groups,
         NEW p \in q.groups[k].players
  PROVE  \E f : Regrouped(q, Without(q, k, p), p, f)
  <1> DEFINE gs == Without(q, k, p)
             n == Len(q.groups)
  <1>1. /\ n \in Nat /\ DOMAIN q.groups = 1..n /\ q.groups \in Seq(GroupRow)
        /\ \A l \in 1..n : q.groups[l] \in GroupRow
    BY Typed
  <1>2. \A l \in 1..n : /\ q.groups[l].players # {}
                        /\ l # k => p \notin q.groups[l].players
    BY <1>1 DEF GroupsApart
  <1>3. CASE q.groups[k].players = {p}
    <2> DEFINE f == [l \in 1..(n - 1) |-> IF l < k THEN l ELSE l + 1]
    <2>1. gs = RemoveAt(q.groups, k)
      BY <1>3 DEF Without
    <2> HIDE DEF gs
    <2>2. /\ gs \in Seq(GroupRow) /\ Len(gs) = n - 1
          /\ \A l \in 1..(n - 1) : gs[l] = IF l < k THEN q.groups[l] ELSE q.groups[l + 1]
      BY <1>1, <2>1, Erased
    <2>3. DOMAIN gs = 1..(n - 1)
      BY <2>2, LenProperties
    <2>4. \A l \in 1..(n - 1) : f[l] \in 1..n /\ f[l] # k /\ gs[l] = q.groups[f[l]]
      BY <1>1, <2>2
    <2>5. \A l, m \in 1..(n - 1) : f[l] = f[m] => l = m
      BY <1>1
    <2>6. ASSUME NEW l \in 1..n, l # k
          PROVE  \E m \in 1..(n - 1) : f[m] = l
      <3>1. CASE l < k
        <4>1. l \in 1..(n - 1) /\ f[l] = l
          BY <1>1, <3>1
        <4> QED
          BY <4>1
      <3>2. CASE ~(l < k)
        <4>1. l - 1 \in 1..(n - 1) /\ f[l - 1] = l
          BY <1>1, <2>6, <3>2
        <4> QED
          BY <4>1
      <3> QED
        BY <3>1, <3>2
    <2>7. f \in [1..(n - 1) -> 1..n]
      BY <2>4
    <2> HIDE DEF f
    <2>8. ASSUME NEW l \in 1..(n - 1)
          PROVE  /\ gs[l].players = q.groups[f[l]].players \ {p} /\ gs[l].players # {}
                 /\ gs[l].team = q.groups[f[l]].team
                 /\ gs[l].invited = q.groups[f[l]].invited
      BY <1>2, <2>4
    <2>9. \A l \in 1..n : q.groups[l].players # {p} => \E m \in 1..(n - 1) : f[m] = l
      BY <1>3, <2>6
    <2>10. Regrouped(q, gs, p, f)
      BY <1>1, <2>2, <2>3, <2>5, <2>7, <2>8, <2>9 DEF Regrouped
    <2> QED
      BY <2>10 DEF gs
  <1>4. CASE q.groups[k].players # {p}
    <2> DEFINE f == [l \in 1..n |-> l]
               g == [q.groups[k] EXCEPT !.players = @ \ {p}]
    <2>1. gs = [q.groups EXCEPT ![k] = g]
      BY <1>4 DEF Without
    <2>2. /\ g \in GroupRow /\ g.players = q.groups[k].players \ {p}
          /\ g.team = q.groups[k].team /\ g.invited = q.groups[k].invited
      BY <1>1 DEF GroupRow
    <2> HIDE DEF gs, g
    <2>3. /\ gs \in Seq(GroupRow) /\ Len(gs) = n
          /\ \A l \in 1..n : gs[l] = IF l = k THEN g ELSE q.groups[l]
      BY <1>1, <2>1, <2>2, ExceptSeq
    <2>4. DOMAIN gs = 1..n
      BY <2>3, LenProperties
    <2>5. ASSUME NEW l \in 1..n
          PROVE  /\ gs[l].players = q.groups[l].players \ {p} /\ gs[l].players # {}
                 /\ gs[l].team = q.groups[l].team
                 /\ gs[l].invited = q.groups[l].invited
      BY <1>1, <1>2, <1>4, <2>2, <2>3
    <2>6. f \in [1..n -> 1..n] /\ \A l \in 1..n : f[l] = l
      OBVIOUS
    <2> HIDE DEF f
    <2>7. Regrouped(q, gs, p, f)
      BY <1>1, <2>3, <2>4, <2>5, <2>6 DEF Regrouped
    <2> QED
      BY <2>7 DEF gs
  <1> QED
    BY <1>3, <1>4

\* What RemovePlayer does: p is in no group, and the battleground that had
\* invited him, if it goes on, has one less.
Removes(q, p, decreaseInvitedCount, r) ==
    /\ r \in QueueState /\ GroupsApart(r)
    /\ \A x : InvitedOf(r, x) = IF x = p THEN {} ELSE InvitedOf(q, x)
    /\ r.free = q.free /\ r.slot = q.slot /\ r.events = q.events
    /\ DOMAIN r.bgs = DOMAIN q.bgs
    /\ \A j \in DOMAIN q.bgs :
          r.bgs[j] = IF decreaseInvitedCount /\ j \in InvitedOf(q, p) /\ q.bgs[j] # NULL
                     THEN Fewer(q.bgs[j], TeamOf(p)) ELSE q.bgs[j]

\* RemovePlayer removes p so, if the battleground that invited him counts him.
LEMMA RemovePlayerIs ==
  ASSUME NEW q \in QueueState, GroupsApart(q), NEW p \in Player, NEW dec \in BOOLEAN,
         InvitedOf(q, p) \subseteq {0} \cup DOMAIN q.bgs,
         dec => \A j \in InvitedOf(q, p) : Alive(q, j) => q.bgs[j].invited[TeamOf(p)] > 0
  PROVE  Removes(q, p, dec, RemovePlayer(q, p, dec))
  <1>1. CASE GroupOf(q, p) = {}
    <2>1. RemovePlayer(q, p, dec) = q /\ InvitedOf(q, p) = {}
      BY <1>1 DEF RemovePlayer, InvitedOf
    <2> QED
      BY <2>1 DEF Removes
  <1>2. CASE GroupOf(q, p) # {}
    <2>1. PICK k \in DOMAIN q.groups :
             /\ p \in q.groups[k].players
             /\ InvitedOf(q, p) = {q.groups[k].invited}
             /\ Max(GroupOf(q, p)) = k
      BY <1>2, OneGroup
    <2> DEFINE g == q.groups[k]
               j == g.invited
               gs == Without(q, k, p)
               left == [q EXCEPT !.groups = gs]
               dim == dec /\ j # 0 /\ q.bgs[j] # NULL
               r == RemovePlayer(q, p, dec)
    <2>2. r = IF dim THEN [left EXCEPT !.bgs[j] = Fewer(@, g.team)] ELSE left
      <3>1. r = LeaveGroup(q, k, p, dec)
        BY <1>2, <2>1 DEF RemovePlayer
      <3> HIDE DEF r
      <3> QED
        BY <3>1 DEF LeaveGroup
    <2>3. g.team = TeamOf(p)
      BY <2>1 DEF GroupsApart
    <2>4. PICK f : Regrouped(q, gs, p, f)
      BY <2>1, WithoutRegrouped
    <2>5. gs \in Seq(GroupRow)
      BY <2>4 DEF Regrouped
    <2> HIDE DEF gs
    <2>6. /\ left \in QueueState /\ left.groups = gs /\ left.bgs = q.bgs
          /\ left.free = q.free /\ left.slot = q.slot /\ left.events = q.events
      BY <2>5 DEF QueueState
    <2> HIDE DEF left, g
    <2>7. j \in {0} \cup DOMAIN q.bgs
      BY <2>1 DEF g
    <2>8. 0 \notin DOMAIN q.bgs
      BY Typed
    <2>9. /\ r \in QueueState /\ r.groups = gs
          /\ r.free = q.free /\ r.slot = q.slot /\ r.events = q.events
          /\ DOMAIN r.bgs = DOMAIN q.bgs
          /\ \A l \in DOMAIN q.bgs :
                r.bgs[l] = IF dec /\ l = j /\ q.bgs[l] # NULL
                           THEN Fewer(q.bgs[l], TeamOf(p)) ELSE q.bgs[l]
      <3>1. CASE dim
        <4> DEFINE bs == [q.bgs EXCEPT ![j] = Fewer(q.bgs[j], TeamOf(p))]
        <4>1. r = [left EXCEPT !.bgs = bs]
          <5>1. r = [left EXCEPT !.bgs[j] = Fewer(@, TeamOf(p))]
            BY <2>2, <2>3, <3>1
          <5> HIDE DEF r
          <5> QED
            BY <5>1, <2>6
        <4>2. j \in DOMAIN q.bgs /\ q.bgs[j] \in BgRow /\ Alive(q, j)
          BY <2>7, <3>1, Typed DEF Alive
        <4>3. q.bgs[j].invited[TeamOf(p)] > 0
          BY <2>1, <3>1, <4>2 DEF g
        <4>4. Fewer(q.bgs[j], TeamOf(p)) \in BgRow \cup {NULL}
          BY <4>2, <4>3, TeamOfIn, FewerIs
        <4>5. q.bgs \in Seq(BgRow \cup {NULL}) /\ DOMAIN q.bgs = 1..Len(q.bgs)
          BY Typed
        <4>6. /\ bs \in Seq(BgRow \cup {NULL}) /\ Len(bs) = Len(q.bgs)
              /\ \A l \in 1..Len(q.bgs) :
                    bs[l] = IF l = j THEN Fewer(q.bgs[j], TeamOf(p)) ELSE q.bgs[l]
          BY <4>2, <4>4, <4>5, ExceptSeq
        <4>7. DOMAIN bs = DOMAIN q.bgs
          BY <4>5, <4>6, LenProperties
        <4> HIDE DEF bs, r
        <4>8. /\ r \in QueueState /\ r.groups = gs /\ r.bgs = bs
              /\ r.free = q.free /\ r.slot = q.slot /\ r.events = q.events
          BY <2>6, <4>1, <4>6 DEF QueueState
        <4> QED
          BY <3>1, <4>2, <4>5, <4>6, <4>7, <4>8
      <3>2. CASE ~dim
        <4>1. r = left
          BY <2>2, <3>2
        <4>2. \A l \in DOMAIN q.bgs : ~(dec /\ l = j /\ q.bgs[l] # NULL)
          BY <2>8, <3>2
        <4> HIDE DEF r
        <4> QED
          BY <2>6, <4>1, <4>2
      <3> QED
        BY <3>1, <3>2
    <2> HIDE DEF r
    <2>10. /\ GroupsApart(r)
           /\ \A x : InvitedOf(r, x) = IF x = p THEN {} ELSE InvitedOf(q, x)
      <3>1. r.groups = gs
        BY <2>9
      <3> QED
        BY <2>4, <3>1, RegroupedSound
    <2>11. InvitedOf(q, p) = {j}
      BY <2>1 DEF g
    <2>12. Removes(q, p, dec, r)
      BY <2>9, <2>10, <2>11 DEF Removes
    <2> QED
      BY <2>12 DEF r
  <1> QED
    BY <1>1, <1>2

----------------------------------------------------------------------------
(* A player leaves the queue.                                              *)

\* No battleground of q is gone, or has more of a team.
Shrinks(q, r) ==
    \A i \in DOMAIN q.bgs : q.bgs[i] # NULL =>
        /\ Alive(r, i) /\ r.bgs[i].status = q.bgs[i].status
        /\ \A t \in Team : r.bgs[i].invited[t] <= q.bgs[i].invited[t]

\* No team of a match got a lead of more than one by an invitation.
FairStep(q, r) ==
    \A i \in DOMAIN q.bgs, t \in Team :
        (/\ q.bgs[i] # NULL /\ q.bgs[i].status = "in_progress" /\ r.bgs[i] # NULL
         /\ r.bgs[i].invited[t] > q.bgs[i].invited[t]) =>
            r.bgs[i].invited[t] <= r.bgs[i].invited[Other(t)] + 1

\* Who leaves before an invitation does not make it unfair.
LEMMA FairAfter ==
  ASSUME NEW q \in QueueState, NEW r \in QueueState, NEW s \in QueueState,
         Shrinks(q, r), Onward(r, s)
  PROVE  FairStep(q, s)
  <1> SUFFICES ASSUME NEW i \in DOMAIN q.bgs, NEW t \in Team, q.bgs[i] # NULL,
                      q.bgs[i].status = "in_progress",
                      s.bgs[i].invited[t] > q.bgs[i].invited[t]
               PROVE  s.bgs[i].invited[t] <= s.bgs[i].invited[Other(t)] + 1
    BY DEF FairStep
  <1>1. /\ Alive(r, i) /\ r.bgs[i].status = "in_progress"
        /\ r.bgs[i].invited[t] <= q.bgs[i].invited[t]
    BY DEF Shrinks
  <1>2. /\ Alive(s, i)
        /\ s.bgs[i].invited[t] > r.bgs[i].invited[t] =>
             s.bgs[i].invited[t] <= s.bgs[i].invited[Other(t)] + 1
    BY <1>1 DEF Onward, Alive
  <1>3. /\ q.bgs[i].invited[t] \in Nat /\ r.bgs[i].invited[t] \in Nat
        /\ s.bgs[i].invited[t] \in Nat
    BY <1>1, <1>2, Typed, BgTyped DEF Alive
  <1> QED
    BY <1>1, <1>2, <1>3

\* Where nobody is invited, nobody is unfairly.
LEMMA FairShrinks ==
  ASSUME NEW q \in QueueState, NEW r \in QueueState, Shrinks(q, r)
  PROVE  FairStep(q, r)
  BY FairAfter, OnwardSame

\* The battleground that counts p has a count to decrease.
LEMMA CountedSome ==
  ASSUME NEW q, NEW b, NEW a, Sound(q, b, a), NEW i, Alive(q, i),
         NEW p \in Player, CountsIn(q, b, a, i, p)
  PROVE  q.bgs[i].invited[TeamOf(p)] \in Nat /\ q.bgs[i].invited[TeamOf(p)] > 0
  <1> DEFINE C == CountedIn(q, b, a, i, TeamOf(p))
  <1>1. p \in C /\ C \in SUBSET Player
    BY DEF CountedIn, CountsIn
  <1>2. q.bgs[i].invited[TeamOf(p)] = Cardinality(C)
    BY SoundBgs, TeamOfIn DEF BgSound, CountsExact
  <1> HIDE DEF C
  <1>3. Cardinality(C) \in Nat \ {0}
    BY <1>1, PlayerLess
  <1> QED
    BY <1>2, <1>3

\* Who is queued is not in a battleground.
LEMMA QueuedOutside ==
  ASSUME NEW q, NEW b, NEW a, Sound(q, b, a), NEW p \in Player
  PROVE  /\ \A j \in InvitedOf(q, p) : b[p] = 0 /\ a[p] # "offline" /\ q.slot[p] = j
         /\ \A i : Alive(q, i) => InsideOf(q, b, a, i, p)
         /\ InvitedOf(q, p) \cup {b[p]} \subseteq {0} \cup DOMAIN q.bgs
         /\ 0 \notin DOMAIN q.bgs
         /\ b[p] \in Nat /\ a[p] \in Places /\ q.slot[p] \in Nat \cup {NULL}
  <1>1. q \in QueueState /\ SlotSound(q, b, a, p) /\ Known(q, b) /\ Whereabouts(b, a)
    BY DEF Sound, SoundBut
  <1>2. \A i : Alive(q, i) => InsideOf(q, b, a, i, p)
    BY SoundBgs DEF BgSound, InsideSound, InsideOf
  <1>3. 0 \notin DOMAIN q.bgs /\ q.slot[p] \in Nat \cup {NULL}
    BY <1>1, Typed
  <1> QED
    BY <1>1, <1>2, <1>3 DEF SlotSound, Known, Whereabouts

\* A player leaves the queue, and its slot, before he is inside.
LEMMA WithdrawingSound ==
  ASSUME NEW q, NEW b, NEW a, Sound(q, b, a), NEW p \in Player, b[p] = 0
  PROVE  /\ Sound(Withdrawing(q, p), b, a)
         /\ Shrinks(q, Withdrawing(q, p))
         /\ SlotsKept(q, Withdrawing(q, p), Player \ {p})
         /\ InvitedOf(Withdrawing(q, p), p) = {} /\ Withdrawing(q, p).slot[p] = NULL
         /\ \A x \in Player \ {p} : Withdrawing(q, p).events[x] = q.events[x]
         /\ (\A j \in InvitedOf(q, p) : Alive(q, j) => q.bgs[j].status = "wait_leave") =>
               Onward(q, Withdrawing(q, p))
  <1> DEFINE u == RemoveBattlegroundQueueId(q, p)
             r == Withdrawing(q, p)
  <1>1. /\ q \in QueueState /\ GroupsApart(q) /\ FreeAlive(q) /\ Whereabouts(b, a)
        /\ InvitedOf(q, p) \subseteq {0} \cup DOMAIN q.bgs
    BY QueuedOutside DEF Sound, SoundBut
  <1>2. /\ u \in QueueState /\ u.groups = q.groups /\ u.bgs = q.bgs /\ u.free = q.free
        /\ u.events = q.events /\ u.slot[p] = NULL
        /\ \A x \in Player \ {p} : u.slot[x] = q.slot[x]
    BY <1>1 DEF RemoveBattlegroundQueueId, QueueState
  <1> HIDE DEF u
  <1>3. \A x : GroupOf(u, x) = GroupOf(q, x) /\ InvitedOf(u, x) = InvitedOf(q, x)
    BY <1>2 DEF GroupOf, InvitedOf
  <1>4. Removes(u, p, TRUE, r)
    <2>1. GroupsApart(u) /\ InvitedOf(u, p) \subseteq {0} \cup DOMAIN u.bgs
      BY <1>1, <1>2, <1>3 DEF GroupsApart
    <2>2. \A j \in InvitedOf(u, p) : Alive(u, j) => u.bgs[j].invited[TeamOf(p)] > 0
      BY <1>2, <1>3, CountedSome DEF Alive, CountsIn
    <2>3. Removes(u, p, TRUE, RemovePlayer(u, p, TRUE))
      BY <1>2, <2>1, <2>2, RemovePlayerIs
    <2> QED
      BY <2>3 DEF u, Withdrawing
  <1> HIDE DEF r
  <1>5. /\ r \in QueueState /\ GroupsApart(r) /\ InvitedOf(r, p) = {}
        /\ \A x \in Player \ {p} : /\ InvitedOf(r, x) = InvitedOf(q, x)
                                   /\ r.slot[x] = q.slot[x] /\ r.events[x] = q.events[x]
        /\ r.slot[p] = NULL /\ r.free = q.free /\ DOMAIN r.bgs = DOMAIN q.bgs
        /\ \A j \in DOMAIN q.bgs :
              r.bgs[j] = IF j \in InvitedOf(q, p) /\ q.bgs[j] # NULL
                         THEN Fewer(q.bgs[j], TeamOf(p)) ELSE q.bgs[j]
    BY <1>2, <1>3, <1>4 DEF Removes
  <1>6. OthersSame(q, b, a, r, b, a, p)
    BY <1>5 DEF OthersSame
  <1>7. ASSUME NEW i, Alive(q, i)
        PROVE  /\ BgSound(r, b, a, i) /\ r.bgs[i] \in BgRow
               /\ r.bgs[i].status = q.bgs[i].status
               /\ i \notin InvitedOf(q, p) => r.bgs[i] = q.bgs[i]
               /\ \A t \in Team : r.bgs[i].invited[t] <= q.bgs[i].invited[t]
    <2>1. /\ BgSound(q, b, a, i) /\ q.bgs[i] \in BgRow
          /\ i \in Nat \ {0} /\ i \in DOMAIN q.bgs /\ q.bgs[i] # NULL
      BY <1>7, SoundBgs DEF Alive
    <2>2. /\ p \notin q.bgs[i].players /\ q.bgs[i].players \in SUBSET Player
          /\ \A t \in Team : q.bgs[i].invited[t] \in Nat
      BY <1>7, <2>1, QueuedOutside, BgTyped DEF InsideOf
    <2>3. CASE i \in InvitedOf(q, p)
      <3>1. CountsIn(q, b, a, i, p) /\ r.bgs[i] = Fewer(q.bgs[i], TeamOf(p))
        BY <1>5, <2>1, <2>3 DEF CountsIn
      <3>2. /\ r.bgs[i].players = q.bgs[i].players /\ r.bgs[i].status = q.bgs[i].status
            /\ r.bgs[i].invited[TeamOf(p)] = q.bgs[i].invited[TeamOf(p)] - 1
            /\ \A t \in Team \ {TeamOf(p)} : r.bgs[i].invited[t] = q.bgs[i].invited[t]
        BY <1>7, <2>1, <3>1, CountedSome, TeamOfIn, FewerIs
      <3>3. InsideOf(r, b, a, i, p) /\ ~CountsIn(r, b, a, i, p)
        BY <1>5, <2>1, <2>2, <3>2 DEF InsideOf, CountsIn
      <3>4. BgSound(r, b, a, i) /\ r.bgs[i] \in BgRow
        BY <1>6, <2>1, <3>1, <3>3, BgLess
      <3>5. \A t \in Team : r.bgs[i].invited[t] <= q.bgs[i].invited[t]
        BY <2>2, <3>2, TeamOfIn
      <3> QED
        BY <2>3, <3>2, <3>4, <3>5
    <2>4. CASE i \notin InvitedOf(q, p)
      <3>1. r.bgs[i] = q.bgs[i]
        BY <1>5, <2>1, <2>4
      <3>2. InsideOf(r, b, a, i, p) /\ (CountsIn(r, b, a, i, p) <=> CountsIn(q, b, a, i, p))
        BY <1>5, <2>1, <2>2, <2>4, <3>1 DEF InsideOf, CountsIn
      <3>3. BgSound(r, b, a, i)
        BY <1>6, <2>1, <2>2, <3>1, <3>2, BgKept
      <3> QED
        BY <2>1, <2>2, <3>1, <3>3
    <2> QED
      BY <2>3, <2>4
  <1>8. \A i \in DOMAIN q.bgs : r.bgs[i] # NULL <=> q.bgs[i] # NULL
    BY <1>5, <1>7, BattlegroundAssumption DEF Alive
  <1>9. \A i : Alive(r, i) <=> Alive(q, i)
    BY <1>5, <1>8 DEF Alive
  <1>10. Sound(r, b, a)
    <2>1. FreeAlive(r)
      BY <1>1, <1>5, <1>9 DEF FreeAlive
    <2>2. SlotSound(r, b, a, p) /\ EventsSound(r, p)
      BY <1>5 DEF SlotSound, EventsSound
    <2>3. InvitedOf(r, p) \cup {b[p]} \subseteq {0} \cup DOMAIN q.bgs
      BY <1>5
    <2>4. \A i : Alive(q, i) => BgSound(r, b, a, i)
      BY <1>7
    <2> QED
      BY <1>1, <1>5, <1>6, <1>8, <2>1, <2>2, <2>3, <2>4, SoundFrame
  <1>11. Shrinks(q, r)
    BY <1>7, <1>9 DEF Shrinks, Alive
  <1>12. SlotsKept(q, r, Player \ {p})
    BY <1>5 DEF SlotsKept
  <1>13. ASSUME \A j \in InvitedOf(q, p) : Alive(q, j) => q.bgs[j].status = "wait_leave"
         PROVE  Onward(q, r)
    <2>1. ASSUME NEW i \in DOMAIN q.bgs, q.bgs[i] # NULL
          PROVE  /\ Alive(r, i) /\ r.bgs[i].status = q.bgs[i].status
                 /\ \A t \in Team :
                      /\ r.bgs[i].invited[t] > q.bgs[i].invited[t] =>
                           /\ q.bgs[i].status # "wait_leave"
                           /\ q.bgs[i].status = "in_progress" =>
                                r.bgs[i].invited[t] <= r.bgs[i].invited[Other(t)] + 1
                      /\ q.bgs[i].status # "wait_leave" =>
                           q.bgs[i].invited[t] <= r.bgs[i].invited[t]
      <3>1. /\ Alive(q, i) /\ Alive(r, i) /\ r.bgs[i].status = q.bgs[i].status
            /\ q.bgs[i].status # "wait_leave" => r.bgs[i] = q.bgs[i]
            /\ \A t \in Team : r.bgs[i].invited[t] <= q.bgs[i].invited[t]
        BY <1>7, <1>9, <1>13, <2>1 DEF Alive
      <3>2. \A t \in Team : q.bgs[i].invited[t] \in Nat /\ r.bgs[i].invited[t] \in Nat
        BY <1>1, <1>5, <3>1, Typed, BgTyped DEF Alive
      <3> QED
        BY <3>1, <3>2
    <2>2. \A x \in Player : InvitedOf(r, x) \subseteq InvitedOf(q, x)
      BY <1>5
    <2> QED
      BY <2>1, <2>2 DEF Onward
  <1> QED
    BY <1>5, <1>10, <1>11, <1>12, <1>13 DEF r

\* One player goes, and the queue is offered to the others.
LEMMA WithdrawSound ==
  ASSUME NEW q, NEW b, NEW a, Sound(q, b, a), NEW p \in Player, b[p] = 0
  PROVE  /\ Sound(Withdraw(q, p), b, a)
         /\ Shrinks(q, Withdrawing(q, p)) /\ Withdrawing(q, p) \in QueueState
         /\ Onward(Withdrawing(q, p), Withdraw(q, p))
         /\ SlotsKept(q, Withdraw(q, p), Player \ {p})
         /\ (\A j \in InvitedOf(q, p) : Alive(q, j) => q.bgs[j].status = "wait_leave") =>
               Onward(q, Withdraw(q, p))
  <1> DEFINE r == Withdrawing(q, p)
             s == Withdraw(q, p)
  <1>1. /\ Sound(r, b, a) /\ Shrinks(q, r) /\ SlotsKept(q, r, Player \ {p})
        /\ (\A j \in InvitedOf(q, p) : Alive(q, j) => q.bgs[j].status = "wait_leave") =>
              Onward(q, r)
    BY WithdrawingSound
  <1>2. s = Update(r)
    BY DEF Withdraw
  <1> HIDE DEF r, s
  <1>3. Reached(r, b, a, s)
    BY <1>1, <1>2, UpdateReached
  <1>4. Sound(s, b, a) /\ Onward(r, s) /\ SlotsKept(r, s, Player)
    BY <1>3 DEF Reached
  <1>5. SlotsKept(q, s, Player \ {p})
    BY <1>1, <1>4 DEF SlotsKept
  <1>6. /\ q \in QueueState /\ r \in QueueState /\ s \in QueueState
        /\ GroupsApart(q)
    BY <1>1, <1>4 DEF Sound, SoundBut
  <1>7. ASSUME \A j \in InvitedOf(q, p) : Alive(q, j) => q.bgs[j].status = "wait_leave"
        PROVE  Onward(q, s)
    <2>1. Onward(q, r)
      BY <1>1, <1>7
    <2> QED
      BY <1>4, <1>6, <2>1, OnwardTwice
  <1> QED
    BY <1>1, <1>4, <1>5, <1>6, <1>7 DEF r, s

\* The same of who is withdrawn by the server, whichever type Update is given.
LEMMA WithdrawInvitedSound ==
  ASSUME NEW q, NEW b, NEW a, Sound(q, b, a), NEW p \in Player, b[p] = 0
  PROVE  /\ Sound(WithdrawInvited(q, p), b, a)
         /\ SlotsKept(q, WithdrawInvited(q, p), Player \ {p})
         /\ (\A j \in InvitedOf(q, p) : Alive(q, j) => q.bgs[j].status = "wait_leave") =>
               Onward(q, WithdrawInvited(q, p))
  <1>1. CASE sameType
    <2>1. WithdrawInvited(q, p) = Withdraw(q, p)
      BY <1>1 DEF WithdrawInvited
    <2> QED
      BY <2>1, WithdrawSound
  <1>2. CASE ~sameType
    <2>1. WithdrawInvited(q, p) = Withdrawing(q, p)
      BY <1>2 DEF WithdrawInvited
    <2> QED
      BY <2>1, WithdrawingSound
  <1> QED
    BY <1>1, <1>2

\* The players ps are invited by battlegrounds that are over, and are outside.
Over(q, b, ps) ==
    \A p \in ps : /\ p \in Player /\ b[p] = 0
                  /\ \A j \in InvitedOf(q, p) :
                        Alive(q, j) /\ q.bgs[j].status = "wait_leave"

\* All of them leave, one after the other.
LEMMA WithdrawAllSound ==
  ASSUME NEW q, NEW b, NEW a, Sound(q, b, a), NEW S, NEW n \in Nat,
         NEW ps \in [1..n -> S], Len(ps) = n, Over(q, b, S)
  PROVE  /\ Sound(WithdrawAll(q, ps), b, a) /\ Onward(q, WithdrawAll(q, ps))
         /\ SlotsKept(q, WithdrawAll(q, ps), Player \ S)
  <1> DEFINE P == {s \in QueueState : Sound(s, b, a) /\ Onward(q, s)
                                      /\ SlotsKept(q, s, Player \ S)}
             F == [k \in 1..n |-> [s \in P |-> WithdrawInvited(s, ps[k])]]
             Step(h) ==
               [k \in 0..n |-> IF k = 0 THEN q ELSE WithdrawInvited(h[k - 1], ps[k])]
  <1>1. q \in P /\ q \in QueueState /\ GroupsApart(q)
    <2>1. Reached(q, b, a, q)
      BY ReachedSame
    <2> QED
      BY <2>1, SoundTyped DEF Sound, Reached, SlotsKept
  <1>2. ASSUME NEW s \in P, NEW k \in 1..n
        PROVE  WithdrawInvited(s, ps[k]) \in P
    <2>1. /\ s \in QueueState /\ Sound(s, b, a) /\ Onward(q, s)
          /\ SlotsKept(q, s, Player \ S)
      OBVIOUS
    <2> HIDE DEF P
    <2>2. ps[k] \in S
      OBVIOUS
    <2>3. /\ ps[k] \in Player /\ b[ps[k]] = 0
          /\ \A j \in InvitedOf(q, ps[k]) : Alive(q, j) /\ q.bgs[j].status = "wait_leave"
      BY <2>2 DEF Over
    <2>4. InvitedOf(q, ps[k]) # {0}
      BY <2>3, QueuedOutside DEF Alive
    <2>5. InvitedOf(s, ps[k]) \subseteq InvitedOf(q, ps[k])
      BY <2>1, <2>3, <2>4 DEF Onward
    <2>6. \A j \in InvitedOf(s, ps[k]) : s.bgs[j].status = "wait_leave"
      BY <2>1, <2>3, <2>5 DEF Onward, Alive
    <2> DEFINE u == WithdrawInvited(s, ps[k])
    <2>7. /\ Sound(u, b, a) /\ Onward(s, u)
          /\ SlotsKept(s, u, Player \ {ps[k]})
      BY <2>1, <2>3, <2>6, WithdrawInvitedSound
    <2> HIDE DEF u
    <2>8. u \in QueueState
      BY <2>7, SoundTyped DEF Sound
    <2>9. Onward(q, u)
      BY <1>1, <2>1, <2>7, <2>8, OnwardTwice
    <2>10. SlotsKept(q, u, Player \ S)
      BY <2>1, <2>2, <2>7 DEF SlotsKept
    <2>11. u \in P
      BY <2>7, <2>8, <2>9, <2>10 DEF P
    <2> QED
      BY <2>11 DEF u
  <1> HIDE DEF P
  <1>3. F \in [1..n -> [P -> P]]
    BY <1>2
  <1>4. PICK g : IsFold(P, n, q, F, g)
    BY <1>1, <1>3, FoldExists DEF HasFold
  <1>5. g = Step(g)
    <2>1. g \in [0..n -> P] /\ g[0] = q /\ \A k \in 1..n : g[k] = F[k][g[k - 1]]
      BY <1>4 DEF IsFold
    <2>2. \A k \in 1..n : k \in 0..n /\ k - 1 \in 0..n
      BY <1>1
    <2>3. \A k \in 1..n : g[k] = WithdrawInvited(g[k - 1], ps[k])
      BY <2>1, <2>2
    <2>4. \A k \in 0..n : k = 0 \/ k \in 1..n
      BY <1>1
    <2> HIDE DEF F
    <2> QED
      BY <2>1, <2>3, <2>4
  <1> DEFINE h == CHOOSE x : x = Step(x)
  <1>6. h = Step(h)
    BY <1>5
  <1>7. WithdrawAll(q, ps) = h[n]
    BY DEF WithdrawAll
  <1> HIDE DEF h, F
  <1>8. h[0] = q /\ \A k \in 1..n : h[k] = WithdrawInvited(h[k - 1], ps[k])
    <2>1. 0 \in 0..n /\ \A k \in 1..n : k \in 0..n /\ k # 0
      BY <1>1
    <2> QED
      BY <1>6, <2>1
  <1>9. h[n] \in P
    <2>1. \A k \in 0..n : h[k] \in P
      BY <1>1, <1>2, <1>8, KeptBySteps
    <2> QED
      BY <1>1, <2>1
  <1> QED
    BY <1>7, <1>9 DEF P

----------------------------------------------------------------------------
(* A group joins the queue.                                                *)

\* Who is not queued, online and without a slot is outside.
LEMMA FreeToJoin ==
  ASSUME NEW q, NEW b, NEW a, Sound(q, b, a), NEW p \in Player,
         a[p] # "offline", q.slot[p] = NULL
  PROVE  InvitedOf(q, p) = {} /\ b[p] = 0
  <1>1. /\ SlotSound(q, b, a, p) /\ b[p] \in Nat /\ NULL \notin Nat
        /\ InvitedOf(q, p) \subseteq {0} \cup DOMAIN q.bgs /\ DOMAIN q.bgs = 1..Len(q.bgs)
        /\ Len(q.bgs) \in Nat
    BY QueuedOutside, SoundTyped, Typed, BattlegroundAssumption DEF Sound, SoundBut
  <1>2. \A j \in InvitedOf(q, p) : j \in Nat /\ q.slot[p] = j
    BY <1>1 DEF SlotSound
  <1>3. InvitedOf(q, p) = {}
    BY <1>1, <1>2
  <1> QED
    BY <1>1, <1>3 DEF SlotSound

\* A group of players joins.
LEMMA AddGroupSound ==
  ASSUME NEW q, NEW b, NEW a, Sound(q, b, a), NEW ps \in Groups,
         \A p \in ps : a[p] # "offline" /\ q.slot[p] = NULL
  PROVE  /\ Sound(AddGroup(q, ps), b, a) /\ AddGroup(q, ps).bgs = q.bgs
         /\ SlotsKept(q, AddGroup(q, ps), Player)
  <1> DEFINE t == TeamOf(CHOOSE p \in ps : TRUE)
             g == [players |-> ps, team |-> t, invited |-> 0]
             gs == Append(q.groups, g)
             sl == [p \in Player |-> IF p \in ps THEN 0 ELSE q.slot[p]]
             r == AddGroup(q, ps)
             n == Len(q.groups) + 1
  <1>1. /\ q \in QueueState /\ Whereabouts(b, a) /\ GroupsApart(q)
        /\ Known(q, b) /\ FreeAlive(q)
        /\ \A p \in Player : SlotSound(q, b, a, p) /\ EventsSound(q, p)
        /\ \A j \in DOMAIN q.bgs : q.bgs[j] # NULL =>
              /\ InsideSound(q, b, a, j) /\ CountsExact(q, b, a, j)
              /\ j # 0 => EmptyDeleted(q, b, a, j)
    BY DEF Sound, SoundBut
  <1>2. /\ q.groups \in Seq(GroupRow) /\ Len(q.groups) \in Nat
        /\ DOMAIN q.groups = 1..Len(q.groups)
        /\ q.slot \in [Player -> Nat \cup {NULL}]
        /\ DOMAIN q.bgs = 1..Len(q.bgs) /\ Len(q.bgs) \in Nat
    BY <1>1, Typed
  <1>3. /\ ps \in SUBSET Player /\ ps # {} /\ t \in Team
        /\ \A p \in ps : TeamOf(p) = t
    <2>1. /\ ps # {} /\ (ps \subseteq Alliance \/ ps \subseteq Horde)
          /\ Alliance \cap Horde = {}
      BY BattlegroundAssumption
    <2>2. (CHOOSE p \in ps : TRUE) \in ps
      BY <2>1
    <2>3. \A x, y \in ps : TeamOf(x) = TeamOf(y)
      BY <2>1 DEF TeamOf
    <2> QED
      BY <2>1, <2>2, <2>3, TeamOfIn DEF Player
  <1>4. \A p \in ps : InvitedOf(q, p) = {} /\ b[p] = 0 /\ a[p] # "offline"
    BY <1>3, FreeToJoin
  <1>5. g \in GroupRow
    BY <1>3 DEF GroupRow
  <1>6. g.players = ps /\ g.team = t /\ g.invited = 0
    OBVIOUS
  <1>7. r = [q EXCEPT !.groups = gs, !.slot = sl]
    BY DEF AddGroup
  <1> HIDE DEF t, g
  <1>8. /\ gs \in Seq(GroupRow) /\ DOMAIN gs = 1..n /\ gs[n] = g
        /\ \A k \in DOMAIN q.groups : gs[k] = q.groups[k]
    <2>1. /\ gs \in Seq(GroupRow) /\ Len(gs) = Len(q.groups) + 1
          /\ \A k \in 1..Len(q.groups) : gs[k] = q.groups[k]
          /\ gs[Len(q.groups) + 1] = g
      BY <1>2, <1>5, AppendProperties
    <2> HIDE DEF gs
    <2> QED
      BY <1>2, <2>1, LenProperties
  <1>9. /\ n \in 1..n /\ n \notin DOMAIN q.groups
        /\ \A k \in 1..n : k = n \/ k \in DOMAIN q.groups
        /\ \A k \in DOMAIN q.groups : k \in 1..n
    BY <1>2
  <1>10. sl \in [Player -> Nat \cup {NULL}]
    BY <1>2
  <1>11. \A p \in Player : sl[p] = IF p \in ps THEN 0 ELSE q.slot[p]
    OBVIOUS
  <1> HIDE DEF gs, sl, r, n
  <1>12. /\ r \in QueueState /\ r.groups = gs /\ r.bgs = q.bgs /\ r.free = q.free
         /\ r.slot = sl /\ r.events = q.events
    BY <1>1, <1>7, <1>8, <1>10 DEF QueueState
  <1>13. \A p \in ps : GroupOf(q, p) = {}
    BY <1>4 DEF InvitedOf
  <1>14. GroupsApart(r)
    <2>1. ASSUME NEW k \in 1..n
          PROVE  /\ gs[k].players # {}
                 /\ \A p \in gs[k].players : TeamOf(p) = gs[k].team
      BY <1>1, <1>3, <1>6, <1>8, <1>9, <2>1 DEF GroupsApart
    <2>2. \A k \in DOMAIN q.groups : gs[k].players \cap ps = {}
      BY <1>8, <1>13 DEF GroupOf
    <2>3. ASSUME NEW k \in 1..n, NEW l \in (1..n) \ {k}
          PROVE  gs[k].players \cap gs[l].players = {}
      <3>1. CASE k = n
        BY <1>6, <1>8, <1>9, <2>2, <3>1
      <3>2. CASE l = n
        BY <1>6, <1>8, <1>9, <2>2, <3>2
      <3>3. CASE k # n /\ l # n
        <4>1. /\ k \in DOMAIN q.groups /\ l \in DOMAIN q.groups \ {k}
              /\ gs[k] = q.groups[k] /\ gs[l] = q.groups[l]
          BY <1>8, <1>9, <3>3
        <4> QED
          BY <1>1, <4>1 DEF GroupsApart
      <3> QED
        BY <3>1, <3>2, <3>3
    <2> QED
      BY <1>8, <1>12, <2>1, <2>3 DEF GroupsApart
  <1>15. \A p \in ps : InvitedOf(r, p) = {0}
    <2>1. ASSUME NEW p \in ps PROVE GroupOf(r, p) = {n}
      BY <1>6, <1>8, <1>9, <1>12, <1>13 DEF GroupOf
    <2> QED
      BY <1>6, <1>8, <1>12, <2>1 DEF InvitedOf
  <1>16. ASSUME NEW p, p \notin ps
         PROVE  InvitedOf(r, p) = InvitedOf(q, p)
    <2>1. GroupOf(r, p) = GroupOf(q, p)
      BY <1>6, <1>8, <1>9, <1>12, <1>16 DEF GroupOf
    <2>2. \A k \in GroupOf(q, p) : r.groups[k] = q.groups[k]
      BY <1>8, <1>12 DEF GroupOf
    <2> QED
      BY <2>1, <2>2 DEF InvitedOf
  <1>17. Known(r, b)
    <2>1. \A p \in Player : InvitedOf(r, p) \subseteq {0} \cup DOMAIN q.bgs
      BY <1>1, <1>15, <1>16 DEF Known
    <2> QED
      BY <1>1, <1>12, <2>1 DEF Known
  <1>18. FreeAlive(r) /\ \A i : Alive(r, i) <=> Alive(q, i)
    BY <1>1, <1>12 DEF FreeAlive, Alive
  <1>19. ASSUME NEW p \in Player PROVE SlotSound(r, b, a, p) /\ EventsSound(r, p)
    <2>1. CASE p \in ps
      <3>1. ~Alive(q, 0)
        BY <1>2 DEF Alive
      <3>2. InvitedOf(r, p) = {0} /\ r.slot[p] = 0
        BY <1>11, <1>12, <1>15, <2>1
      <3> QED
        BY <1>4, <1>18, <2>1, <3>1, <3>2 DEF SlotSound, EventsSound
    <2>2. CASE p \notin ps
      BY <1>1, <1>11, <1>12, <1>16, <1>18, <2>2 DEF SlotSound, EventsSound
    <2> QED
      BY <2>1, <2>2
  <1>20. ASSUME NEW i \in DOMAIN q.bgs, NEW u
         PROVE  CountedIn(r, b, a, i, u) = CountedIn(q, b, a, i, u)
    <2>1. i # 0
      BY <1>2
    <2>2. \A p \in Player : i \in InvitedOf(r, p) <=> i \in InvitedOf(q, p)
      BY <1>4, <1>15, <1>16, <2>1
    <2> QED
      BY <1>12, <2>2 DEF CountedIn
  <1>21. ASSUME NEW i \in DOMAIN q.bgs, q.bgs[i] # NULL
         PROVE  /\ InsideSound(r, b, a, i) /\ CountsExact(r, b, a, i)
                /\ EmptyDeleted(r, b, a, i)
    <2>1. i # 0
      BY <1>2
    <2> QED
      BY <1>1, <1>12, <1>20, <1>21, <2>1 DEF InsideSound, CountsExact, EmptyDeleted
  <1>22. Sound(r, b, a)
    BY <1>1, <1>12, <1>14, <1>17, <1>18, <1>19, <1>21 DEF Sound, SoundBut
  <1>23. SlotsKept(q, r, Player)
    <2>1. 0 # NULL
      BY BattlegroundAssumption
    <2> QED
      BY <1>11, <1>12, <2>1 DEF SlotsKept
  <1> QED
    BY <1>12, <1>22, <1>23 DEF r

----------------------------------------------------------------------------
(* A player leaves his battleground, or comes into it.                     *)

\* A player leaves a battleground he is inside of.
LEMMA RemovePlayerAtLeaveSound ==
  ASSUME NEW q, NEW b, NEW a, Sound(q, b, a), NEW p \in Player, NEW i, Alive(q, i),
         p \in q.bgs[i].players,
         NEW d, NEW c, Whereabouts(d, c),
         \A x \in Player \ {p} : d[x] = b[x] /\ c[x] = a[x],
         d[p] = 0 \/ (d[p] = i /\ c[p] = "offline"),
         NEW found \in BOOLEAN, found \/ a[p] = "offline"
  PROVE  /\ Sound(RemovePlayerAtLeave(q, p, i, found), d, c)
         /\ Shrinks(q, RemovePlayerAtLeave(q, p, i, found))
         /\ SlotsKept(q, RemovePlayerAtLeave(q, p, i, found), Player \ {p})
         /\ InvitedOf(q, p) = {}
  <1> DEFINE bg == [q.bgs[i] EXCEPT !.players = @ \ {p}]
             left == Fewer(bg, TeamOf(p))
             fr == IF i \in ToSet(q.free) \/ q.bgs[i].status = "wait_leave"
                   THEN q.free ELSE <<i>> \o q.free
             sl == [q.slot EXCEPT ![p] = IF found THEN NULL ELSE @]
             r == RemovePlayerAtLeave(q, p, i, found)
  <1>1. /\ q \in QueueState /\ GroupsApart(q) /\ FreeAlive(q)
        /\ SlotSound(q, b, a, p)
    BY DEF Sound, SoundBut
  <1>2. /\ BgSound(q, b, a, i) /\ q.bgs[i] \in BgRow /\ i \in Nat \ {0}
        /\ i \in DOMAIN q.bgs /\ q.bgs[i] # NULL
    BY SoundBgs DEF Alive
  <1>3. b[p] = i /\ a[p] # "far"
    BY <1>2 DEF BgSound, InsideSound
  <1>4. InvitedOf(q, p) = {} /\ GroupOf(q, p) = {}
    <2>1. InvitedOf(q, p) = {}
      BY <1>2, <1>3, QueuedOutside
    <2> QED
      BY <2>1 DEF InvitedOf
  <1>5. ~found => q.slot[p] = NULL
    BY <1>1, <1>4 DEF SlotSound
  <1>6. /\ q.bgs[i].invited[TeamOf(p)] \in Nat /\ q.bgs[i].invited[TeamOf(p)] > 0
        /\ CountsIn(q, b, a, i, p)
    BY CountedSome DEF CountsIn
  <1>7. /\ bg \in BgRow /\ bg.players = q.bgs[i].players \ {p}
        /\ bg.invited = q.bgs[i].invited /\ bg.status = q.bgs[i].status
        /\ bg.deleteThis = q.bgs[i].deleteThis
    BY <1>2 DEF BgRow
  <1>8. r = [q EXCEPT !.bgs[i] = left, !.free = fr,
                      !.slot[p] = IF found THEN NULL ELSE @]
    BY DEF RemovePlayerAtLeave
  <1> HIDE DEF bg
  <1>9. /\ left \in BgRow /\ left.status = bg.status /\ left.players = bg.players
        /\ left.invited[TeamOf(p)] = bg.invited[TeamOf(p)] - 1
        /\ \A t \in Team \ {TeamOf(p)} : left.invited[t] = bg.invited[t]
    BY <1>6, <1>7, TeamOfIn, FewerIs
  <1>10. fr \in Seq(Nat) /\ IsInjective(fr) /\ \A k \in DOMAIN fr : Alive(q, fr[k])
    <2>1. q.free \in Seq(Nat) /\ IsInjective(q.free) /\ \A k \in DOMAIN q.free : Alive(q, q.free[k])
      BY <1>1, Typed DEF FreeAlive
    <2>2. \A j \in ToSet(q.free) : Alive(q, j)
      BY <2>1 DEF ToSet
    <2>3. CASE i \in ToSet(q.free) \/ q.bgs[i].status = "wait_leave"
      BY <2>1, <2>3
    <2>4. CASE ~(i \in ToSet(q.free) \/ q.bgs[i].status = "wait_leave")
      <3>1. /\ <<i>> \o q.free \in Seq(Nat) /\ IsInjective(<<i>> \o q.free)
            /\ \A k \in DOMAIN (<<i>> \o q.free) : \/ (<<i>> \o q.free)[k] = i
                                                   \/ (<<i>> \o q.free)[k] \in ToSet(q.free)
        BY <1>2, <2>1, <2>4, AtFront
      <3>2. fr = <<i>> \o q.free
        BY <2>4
      <3> QED
        BY <2>2, <3>1, <3>2
    <2> QED
      BY <2>3, <2>4
  <1> HIDE DEF left, fr, r
  <1>11. /\ q.slot \in [Player -> Nat \cup {NULL}] /\ q.bgs \in Seq(BgRow \cup {NULL})
         /\ Len(q.bgs) \in Nat /\ DOMAIN q.bgs = 1..Len(q.bgs)
    BY <1>1, Typed
  <1>12. /\ [q.bgs EXCEPT ![i] = left] \in Seq(BgRow \cup {NULL})
         /\ DOMAIN [q.bgs EXCEPT ![i] = left] = DOMAIN q.bgs
    BY <1>2, <1>9, <1>11, ExceptSeq
  <1>13. sl \in [Player -> Nat \cup {NULL}] /\ sl[p] = NULL
         /\ \A x \in Player \ {p} : sl[x] = q.slot[x]
    BY <1>5, <1>11
  <1>14. r = [q EXCEPT !.bgs = [q.bgs EXCEPT ![i] = left], !.free = fr, !.slot = sl]
    BY <1>8, <1>1 DEF QueueState
  <1> HIDE DEF sl
  <1>15. /\ r \in QueueState /\ r.groups = q.groups
         /\ r.bgs = [q.bgs EXCEPT ![i] = left] /\ r.free = fr
         /\ r.slot = sl /\ r.events = q.events
    BY <1>1, <1>10, <1>12, <1>13, <1>14 DEF QueueState
  <1>16. /\ DOMAIN r.bgs = DOMAIN q.bgs /\ r.bgs[i] = left
         /\ \A j \in DOMAIN q.bgs \ {i} : r.bgs[j] = q.bgs[j]
    BY <1>2, <1>12, <1>15
  <1>17. left # NULL
    BY <1>9, BattlegroundAssumption
  <1>18. \A x : GroupOf(r, x) = GroupOf(q, x) /\ InvitedOf(r, x) = InvitedOf(q, x)
    BY <1>15 DEF GroupOf, InvitedOf
  <1>19. OthersSame(q, b, a, r, d, c, p)
    BY <1>13, <1>15, <1>18 DEF OthersSame
  <1>20. ASSUME NEW j, Alive(q, j)
         PROVE  BgSound(r, d, c, j)
    <2>1. /\ BgSound(q, b, a, j) /\ q.bgs[j] \in BgRow /\ j \in Nat \ {0}
          /\ j \in DOMAIN q.bgs
      BY <1>20, SoundBgs
    <2>2. CASE j = i
      <3>1. InsideOf(r, d, c, i, p) /\ ~CountsIn(r, d, c, i, p)
        BY <1>2, <1>4, <1>7, <1>9, <1>16, <1>18 DEF InsideOf, CountsIn
      <3>2. r.bgs[i] = Fewer(bg, TeamOf(p))
        BY <1>16 DEF left
      <3> QED
        BY <1>2, <1>6, <1>7, <1>19, <2>2, <3>1, <3>2, BgLess
    <2>3. CASE j # i
      <3>1. r.bgs[j] = q.bgs[j]
        BY <1>16, <2>1, <2>3
      <3>2. p \notin q.bgs[j].players /\ q.bgs[j].players \in SUBSET Player
        BY <1>3, <2>1, <2>3, BgTyped DEF BgSound, InsideSound
      <3>3. InsideOf(r, d, c, j, p) /\ (CountsIn(r, d, c, j, p) <=> CountsIn(q, b, a, j, p))
        BY <1>3, <1>4, <1>18, <2>1, <2>3, <3>1, <3>2 DEF InsideOf, CountsIn
      <3> QED
        BY <1>19, <2>1, <3>1, <3>2, <3>3, BgKept
    <2> QED
      BY <2>2, <2>3
  <1>21. \A j \in DOMAIN q.bgs : r.bgs[j] # NULL <=> q.bgs[j] # NULL
    BY <1>2, <1>16, <1>17
  <1>22. \A j : Alive(r, j) <=> Alive(q, j)
    BY <1>16, <1>21 DEF Alive
  <1>23. Sound(r, d, c)
    <2>1. GroupsApart(r) /\ FreeAlive(r)
      BY <1>1, <1>10, <1>15, <1>22 DEF GroupsApart, FreeAlive
    <2>2. SlotSound(r, d, c, p) /\ EventsSound(r, p)
      BY <1>4, <1>13, <1>15, <1>18 DEF SlotSound, EventsSound
    <2>3. InvitedOf(r, p) \cup {d[p]} \subseteq {0} \cup DOMAIN q.bgs
      BY <1>2, <1>4, <1>18
    <2> QED
      BY <1>15, <1>16, <1>19, <1>20, <1>21, <2>1, <2>2, <2>3, SoundFrame
  <1>24. Shrinks(q, r)
    <2>1. ASSUME NEW j \in DOMAIN q.bgs, q.bgs[j] # NULL
          PROVE  /\ r.bgs[j].status = q.bgs[j].status
                 /\ \A t \in Team : r.bgs[j].invited[t] <= q.bgs[j].invited[t]
      <3>1. \A t \in Team : q.bgs[j].invited[t] \in Nat
        BY <1>1, <2>1, Typed, BgTyped
      <3>2. CASE j = i
        <4>1. r.bgs[j].status = q.bgs[j].status
          BY <1>7, <1>9, <1>16, <3>2
        <4>2. /\ r.bgs[j].invited[TeamOf(p)] = q.bgs[j].invited[TeamOf(p)] - 1
              /\ \A t \in Team \ {TeamOf(p)} : r.bgs[j].invited[t] = q.bgs[j].invited[t]
          BY <1>7, <1>9, <1>16, <3>2
        <4> QED
          BY <3>1, <4>1, <4>2, TeamOfIn
      <3>3. CASE j # i
        BY <1>16, <2>1, <3>1, <3>3
      <3> QED
        BY <3>2, <3>3
    <2> QED
      BY <1>22, <2>1 DEF Shrinks, Alive
  <1>25. SlotsKept(q, r, Player \ {p})
    BY <1>13, <1>15 DEF SlotsKept
  <1> QED
    BY <1>4, <1>23, <1>24, <1>25 DEF r

\* The rows of the queue stay as they are; only what is said of p changes.
LEMMA SameRows ==
  ASSUME NEW q, NEW b, NEW a, Sound(q, b, a), NEW p \in Player,
         NEW r \in QueueState, r.groups = q.groups, r.bgs = q.bgs, r.free = q.free,
         NEW d, NEW c, Whereabouts(d, c),
         \A x \in Player \ {p} : /\ r.slot[x] = q.slot[x] /\ r.events[x] = q.events[x]
                                 /\ d[x] = b[x] /\ c[x] = a[x],
         d[p] \in {0} \cup DOMAIN q.bgs,
         SlotSound(r, d, c, p), EventsSound(r, p),
         \A i : Alive(q, i) =>
            /\ InsideOf(r, d, c, i, p)
            /\ a[p] = "far" /\ b[p] = i => CountsIn(r, d, c, i, p)
            /\ c[p] = "far" /\ d[p] = i => CountsIn(q, b, a, i, p)
  PROVE  /\ Sound(r, d, c) /\ Shrinks(q, r)
         /\ \A x : InvitedOf(r, x) = InvitedOf(q, x)
  <1>1. q \in QueueState /\ GroupsApart(q) /\ FreeAlive(q)
    BY DEF Sound, SoundBut
  <1>2. \A x : InvitedOf(r, x) = InvitedOf(q, x)
    BY DEF GroupOf, InvitedOf
  <1>3. OthersSame(q, b, a, r, d, c, p)
    BY <1>2 DEF OthersSame
  <1>4. ASSUME NEW i, Alive(q, i)
        PROVE  BgSound(r, d, c, i)
    <2>1. BgSound(q, b, a, i) /\ q.bgs[i] \in BgRow
      BY <1>4, SoundBgs
    <2>2. q.bgs[i].players \in SUBSET Player
      BY <2>1, BgTyped
    <2>3. CountsIn(r, d, c, i, p) <=> CountsIn(q, b, a, i, p)
      BY <1>2, <1>4 DEF CountsIn
    <2> QED
      BY <1>3, <1>4, <2>1, <2>2, <2>3, BgKept
  <1>5. FreeAlive(r) /\ GroupsApart(r)
    BY <1>1 DEF FreeAlive, GroupsApart, Alive
  <1>6. InvitedOf(r, p) \cup {d[p]} \subseteq {0} \cup DOMAIN q.bgs
    BY <1>2, QueuedOutside
  <1>7. Sound(r, d, c)
    BY <1>3, <1>4, <1>5, <1>6, SoundFrame
  <1>8. \A i \in DOMAIN q.bgs : q.bgs[i] # NULL => \A t \in Team : q.bgs[i].invited[t] \in Nat
    BY <1>1, Typed, BgTyped
  <1> QED
    BY <1>2, <1>7, <1>8 DEF Shrinks, Alive

\* HandleMoveWorldportAck: who arrives in his battleground is in it.
Arrived(q, b, a, p) ==
    IF a[p] = "far" /\ Alive(q, b[p]) /\ q.slot[p] = b[p]
    THEN [q EXCEPT !.bgs[b[p]].players = @ \cup {p}] ELSE q

\* A player arrives where his far teleport goes.
LEMMA ArrivedSound ==
  ASSUME NEW q, NEW b, NEW a, Sound(q, b, a), NEW p \in Player, a[p] # "offline",
         NEW c, Whereabouts(b, c), c[p] = "world", \A x \in Player \ {p} : c[x] = a[x]
  PROVE  /\ Sound(Arrived(q, b, a, p), b, c)
         /\ Shrinks(q, Arrived(q, b, a, p))
         /\ Arrived(q, b, a, p).slot = q.slot
         /\ \A x : InvitedOf(Arrived(q, b, a, p), x) = InvitedOf(q, x)
  <1> DEFINE i == b[p]
             bg == [q.bgs[i] EXCEPT !.players = @ \cup {p}]
             r == Arrived(q, b, a, p)
  <1>1. /\ q \in QueueState /\ GroupsApart(q) /\ FreeAlive(q)
        /\ SlotSound(q, b, a, p) /\ EventsSound(q, p)
    BY DEF Sound, SoundBut
  <1>2. /\ a[p] \in Places /\ b[p] \in {0} \cup DOMAIN q.bgs /\ 0 \notin DOMAIN q.bgs
        /\ InvitedOf(q, p) \subseteq {0} \cup DOMAIN q.bgs
    BY QueuedOutside
  <1>3. SlotSound(q, b, c, p)
    BY <1>1 DEF SlotSound
  <1>4. CASE a[p] = "far" /\ Alive(q, i) /\ q.slot[p] = i
    <2>1. /\ BgSound(q, b, a, i) /\ q.bgs[i] \in BgRow /\ i \in Nat \ {0}
          /\ i \in DOMAIN q.bgs /\ q.bgs[i] # NULL
      BY <1>4, SoundBgs DEF Alive
    <2>2. /\ bg \in BgRow /\ bg.players = q.bgs[i].players \cup {p}
          /\ bg.invited = q.bgs[i].invited /\ bg.status = q.bgs[i].status
          /\ bg.deleteThis = q.bgs[i].deleteThis
      BY <2>1 DEF BgRow
    <2>3. r = [q EXCEPT !.bgs[i] = bg]
      BY <1>4 DEF Arrived
    <2> HIDE DEF bg, r
    <2>4. /\ q.bgs \in Seq(BgRow \cup {NULL}) /\ DOMAIN q.bgs = 1..Len(q.bgs)
          /\ Len(q.bgs) \in Nat
      BY <1>1, Typed
    <2>5. /\ [q.bgs EXCEPT ![i] = bg] \in Seq(BgRow \cup {NULL})
          /\ DOMAIN [q.bgs EXCEPT ![i] = bg] = DOMAIN q.bgs
      BY <2>1, <2>2, <2>4, ExceptSeq
    <2>6. r = [q EXCEPT !.bgs = [q.bgs EXCEPT ![i] = bg]]
      BY <1>1, <2>3 DEF QueueState
    <2>7. /\ r \in QueueState /\ r.groups = q.groups /\ r.free = q.free
          /\ r.bgs = [q.bgs EXCEPT ![i] = bg]
          /\ r.slot = q.slot /\ r.events = q.events
      BY <1>1, <2>5, <2>6 DEF QueueState
    <2>8. /\ DOMAIN r.bgs = DOMAIN q.bgs /\ r.bgs[i] = bg
          /\ \A j \in DOMAIN q.bgs \ {i} : r.bgs[j] = q.bgs[j]
      BY <2>1, <2>5, <2>7
    <2>9. bg # NULL
      BY <2>2, BattlegroundAssumption
    <2>10. \A x : GroupOf(r, x) = GroupOf(q, x) /\ InvitedOf(r, x) = InvitedOf(q, x)
      BY <2>7 DEF GroupOf, InvitedOf
    <2>11. OthersSame(q, b, a, r, b, c, p)
      BY <2>7, <2>10 DEF OthersSame
    <2>12. InvitedOf(q, p) = {}
      BY <2>1, QueuedOutside
    <2>13. ASSUME NEW j, Alive(q, j)
           PROVE  BgSound(r, b, c, j)
      <3>1. /\ BgSound(q, b, a, j) /\ q.bgs[j] \in BgRow /\ j \in DOMAIN q.bgs
            /\ q.bgs[j].players \in SUBSET Player
        BY <2>13, SoundBgs, BgTyped
      <3>2. CASE j = i
        <4>1. InsideOf(r, b, c, i, p) /\ CountsIn(r, b, c, i, p) /\ CountsIn(q, b, a, i, p)
          BY <1>4, <2>2, <2>8 DEF InsideOf, CountsIn
        <4>2. /\ r.bgs[i].players \in SUBSET Player
              /\ r.bgs[i].players \ {p} = q.bgs[i].players \ {p}
          BY <2>2, <2>8, <3>1, <3>2
        <4> QED
          BY <2>2, <2>8, <2>11, <3>1, <3>2, <4>1, <4>2, BgKept
      <3>3. CASE j # i
        <4>1. r.bgs[j] = q.bgs[j]
          BY <2>8, <3>1, <3>3
        <4>2. p \notin q.bgs[j].players
          BY <3>1, <3>3 DEF BgSound, InsideSound
        <4>3. InsideOf(r, b, c, j, p) /\ (CountsIn(r, b, c, j, p) <=> CountsIn(q, b, a, j, p))
          BY <2>10, <3>3, <4>1, <4>2 DEF InsideOf, CountsIn
        <4> QED
          BY <2>11, <3>1, <4>1, <4>2, <4>3, BgKept
      <3> QED
        BY <3>2, <3>3
    <2>14. \A j \in DOMAIN q.bgs : r.bgs[j] # NULL <=> q.bgs[j] # NULL
      BY <2>1, <2>8, <2>9
    <2>15. \A j : Alive(r, j) <=> Alive(q, j)
      BY <2>8, <2>14 DEF Alive
    <2>16. Sound(r, b, c)
      <3>1. GroupsApart(r) /\ FreeAlive(r)
        BY <1>1, <2>7, <2>15 DEF GroupsApart, FreeAlive
      <3>2. SlotSound(r, b, c, p) /\ EventsSound(r, p)
        BY <1>3, <2>7, <2>10, <2>12 DEF SlotSound, EventsSound
      <3>3. InvitedOf(r, p) \cup {b[p]} \subseteq {0} \cup DOMAIN q.bgs
        BY <1>2, <2>10
      <3> QED
        BY <2>7, <2>8, <2>11, <2>13, <2>14, <3>1, <3>2, <3>3, SoundFrame
    <2>17. Shrinks(q, r)
      <3>1. ASSUME NEW j \in DOMAIN q.bgs, q.bgs[j] # NULL
            PROVE  /\ r.bgs[j].status = q.bgs[j].status
                   /\ \A t \in Team : r.bgs[j].invited[t] <= q.bgs[j].invited[t]
        <4>1. \A t \in Team : q.bgs[j].invited[t] \in Nat
          BY <1>1, <3>1, Typed, BgTyped
        <4>2. r.bgs[j].status = q.bgs[j].status /\ r.bgs[j].invited = q.bgs[j].invited
          BY <2>2, <2>8, <3>1
        <4> QED
          BY <4>1, <4>2
      <3> QED
        BY <2>15, <3>1 DEF Shrinks, Alive
    <2> QED
      BY <2>7, <2>10, <2>16, <2>17 DEF r
  <1>5. CASE ~(a[p] = "far" /\ Alive(q, i) /\ q.slot[p] = i)
    <2>1. r = q
      BY <1>5 DEF Arrived
    <2>2. ASSUME NEW j, Alive(q, j)
          PROVE  InsideOf(q, b, c, j, p) /\ ~(a[p] = "far" /\ b[p] = j)
      <3>1. /\ j # 0 /\ InsideOf(q, b, a, j, p)
        BY <1>2, <2>2, QueuedOutside DEF Alive
      <3>2. b[p] = j => InvitedOf(q, p) = {} /\ q.slot[p] = j
        BY <1>1, <3>1 DEF SlotSound
      <3>3. ~(a[p] = "far" /\ b[p] = j)
        BY <1>5, <2>2, <3>2
      <3> QED
        BY <1>2, <3>1, <3>3 DEF InsideOf, Places
    <2>3. \A j : Alive(q, j) =>
             /\ InsideOf(q, b, c, j, p)
             /\ a[p] = "far" /\ b[p] = j => CountsIn(q, b, c, j, p)
             /\ c[p] = "far" /\ b[p] = j => CountsIn(q, b, a, j, p)
      BY <2>2
    <2> HIDE DEF r, i
    <2>4. Sound(q, b, c) /\ Shrinks(q, q)
      BY <1>1, <1>2, <1>3, <2>3, SameRows
    <2> QED
      BY <2>1, <2>4 DEF r
  <1> QED
    BY <1>4, <1>5

\* A match starts, or ends.
LEMMA StatusSound ==
  ASSUME NEW q, NEW b, NEW a, Sound(q, b, a), NEW i, Alive(q, i), NEW s \in Status
  PROVE  LET r == [q EXCEPT !.bgs[i].status = s] IN
         /\ Sound(r, b, a) /\ Alive(r, i) /\ r.bgs[i].status = s
         /\ DOMAIN r.bgs = DOMAIN q.bgs
         /\ \A j \in DOMAIN q.bgs \ {i} : r.bgs[j] = q.bgs[j]
         /\ r.bgs[i].invited = q.bgs[i].invited
         /\ r.groups = q.groups /\ r.free = q.free /\ r.slot = q.slot
         /\ r.events = q.events
         /\ r.bgs = [q.bgs EXCEPT ![i].status = s]
  <1> DEFINE bg == [q.bgs[i] EXCEPT !.status = s]
             r == [q EXCEPT !.bgs[i].status = s]
  <1>1. /\ q \in QueueState /\ Whereabouts(b, a) /\ GroupsApart(q)
        /\ Known(q, b) /\ FreeAlive(q)
        /\ \A p \in Player : SlotSound(q, b, a, p) /\ EventsSound(q, p)
        /\ \A j \in DOMAIN q.bgs : q.bgs[j] # NULL =>
              /\ InsideSound(q, b, a, j) /\ CountsExact(q, b, a, j)
              /\ j # 0 => EmptyDeleted(q, b, a, j)
    BY DEF Sound, SoundBut
  <1>2. q.bgs[i] \in BgRow /\ i \in DOMAIN q.bgs /\ q.bgs[i] # NULL
    BY SoundBgs DEF Alive
  <1>3. /\ q.bgs \in Seq(BgRow \cup {NULL}) /\ DOMAIN q.bgs = 1..Len(q.bgs)
        /\ Len(q.bgs) \in Nat
    BY <1>1, Typed
  <1>4. /\ bg \in BgRow /\ bg.players = q.bgs[i].players
        /\ bg.invited = q.bgs[i].invited /\ bg.status = s
        /\ bg.deleteThis = q.bgs[i].deleteThis
    BY <1>2 DEF BgRow
  <1>5. r = [q EXCEPT !.bgs = [q.bgs EXCEPT ![i].status = s]]
    BY <1>1 DEF QueueState
  <1>6. [q.bgs EXCEPT ![i].status = s] = [q.bgs EXCEPT ![i] = bg]
    OBVIOUS
  <1> HIDE DEF bg, r
  <1>7. /\ [q.bgs EXCEPT ![i] = bg] \in Seq(BgRow \cup {NULL})
        /\ DOMAIN [q.bgs EXCEPT ![i] = bg] = DOMAIN q.bgs
    BY <1>2, <1>3, <1>4, ExceptSeq
  <1>8. /\ r \in QueueState /\ r.groups = q.groups /\ r.free = q.free
        /\ r.bgs = [q.bgs EXCEPT ![i] = bg]
        /\ r.slot = q.slot /\ r.events = q.events
    BY <1>1, <1>5, <1>6, <1>7 DEF QueueState
  <1>9. /\ DOMAIN r.bgs = DOMAIN q.bgs /\ r.bgs[i] = bg
        /\ \A j \in DOMAIN q.bgs \ {i} : r.bgs[j] = q.bgs[j]
    BY <1>2, <1>7, <1>8
  <1>10. bg # NULL
    BY <1>4, BattlegroundAssumption
  <1>11. \A x : GroupOf(r, x) = GroupOf(q, x) /\ InvitedOf(r, x) = InvitedOf(q, x)
    BY <1>8 DEF GroupOf, InvitedOf
  <1>12. \A j \in DOMAIN q.bgs : r.bgs[j] # NULL <=> q.bgs[j] # NULL
    BY <1>2, <1>9, <1>10
  <1>13. \A j : Alive(r, j) <=> Alive(q, j)
    BY <1>9, <1>12 DEF Alive
  <1>14. ASSUME NEW j \in DOMAIN q.bgs
         PROVE  /\ r.bgs[j].players = q.bgs[j].players
                /\ r.bgs[j].invited = q.bgs[j].invited
                /\ r.bgs[j].deleteThis = q.bgs[j].deleteThis
                /\ \A t : CountedIn(r, b, a, j, t) = CountedIn(q, b, a, j, t)
    <2>1. /\ r.bgs[j].players = q.bgs[j].players
          /\ r.bgs[j].invited = q.bgs[j].invited
          /\ r.bgs[j].deleteThis = q.bgs[j].deleteThis
      BY <1>4, <1>9
    <2> QED
      BY <1>11, <2>1 DEF CountedIn
  <1>15. /\ Known(r, b) /\ FreeAlive(r) /\ GroupsApart(r)
         /\ \A p \in Player : SlotSound(r, b, a, p) /\ EventsSound(r, p)
    BY <1>1, <1>8, <1>9, <1>11, <1>13
       DEF Known, FreeAlive, GroupsApart, SlotSound, EventsSound
  <1>16. ASSUME NEW j \in DOMAIN q.bgs, q.bgs[j] # NULL
         PROVE  /\ InsideSound(r, b, a, j) /\ CountsExact(r, b, a, j)
                /\ j # 0 => EmptyDeleted(r, b, a, j)
    BY <1>1, <1>14, <1>16 DEF InsideSound, CountsExact, EmptyDeleted
  <1>17. Sound(r, b, a)
    BY <1>1, <1>8, <1>9, <1>12, <1>15, <1>16 DEF Sound, SoundBut
  <1>18. Alive(r, i) /\ r.bgs[i].status = s /\ r.bgs[i].invited = q.bgs[i].invited
    BY <1>2, <1>4, <1>9, <1>13 DEF Alive
  <1> QED
    BY <1>6, <1>8, <1>9, <1>17, <1>18 DEF r

\* BattlegroundMgr::Update deletes a battleground.
LEMMA DeletedSound ==
  ASSUME NEW q, NEW b, NEW a, Sound(q, b, a), NEW i, Alive(q, i)
  PROVE  LET r == [q EXCEPT !.bgs = [q.bgs EXCEPT ![i] = NULL],
                            !.free = RemoveFromFree(q.free, i)] IN
         /\ Sound(r, b, a) /\ r.bgs = [q.bgs EXCEPT ![i] = NULL]
         /\ r.slot = q.slot
  <1> DEFINE bs == [q.bgs EXCEPT ![i] = NULL]
             fr == RemoveFromFree(q.free, i)
             r == [q EXCEPT !.bgs = bs, !.free = fr]
  <1>1. /\ q \in QueueState /\ Whereabouts(b, a) /\ GroupsApart(q)
        /\ Known(q, b) /\ FreeAlive(q)
        /\ \A p \in Player : SlotSound(q, b, a, p) /\ EventsSound(q, p)
        /\ \A j \in DOMAIN q.bgs : q.bgs[j] # NULL =>
              /\ InsideSound(q, b, a, j) /\ CountsExact(q, b, a, j)
              /\ j # 0 => EmptyDeleted(q, b, a, j)
    BY DEF Sound, SoundBut
  <1>2. i \in DOMAIN q.bgs /\ i \in Nat
    BY SoundBgs DEF Alive
  <1>3. /\ q.bgs \in Seq(BgRow \cup {NULL}) /\ DOMAIN q.bgs = 1..Len(q.bgs)
        /\ Len(q.bgs) \in Nat /\ q.free \in Seq(Nat)
    BY <1>1, Typed
  <1>4. bs \in Seq(BgRow \cup {NULL}) /\ DOMAIN bs = DOMAIN q.bgs
    BY <1>2, <1>3, ExceptSeq
  <1>5. /\ fr \in Seq(Nat) /\ IsInjective(fr)
        /\ \A k \in DOMAIN fr : fr[k] # i /\ \E l \in DOMAIN q.free : fr[k] = q.free[l]
    BY <1>1, <1>2, <1>3, RemoveFromFreeOthers DEF FreeAlive
  <1> HIDE DEF fr, r
  <1>6. /\ r \in QueueState /\ r.groups = q.groups /\ r.free = fr /\ r.bgs = bs
        /\ r.slot = q.slot /\ r.events = q.events
    BY <1>1, <1>4, <1>5 DEF QueueState, r
  <1>7. bs[i] = NULL /\ \A j \in DOMAIN q.bgs \ {i} : bs[j] = q.bgs[j]
    BY <1>2
  <1> HIDE DEF bs
  <1>8. \A x : GroupOf(r, x) = GroupOf(q, x) /\ InvitedOf(r, x) = InvitedOf(q, x)
    BY <1>6 DEF GroupOf, InvitedOf
  <1>9. \A j : Alive(r, j) <=> Alive(q, j) /\ j # i
    BY <1>4, <1>6, <1>7 DEF Alive
  <1>10. FreeAlive(r)
    <2>1. \A l \in DOMAIN q.free : Alive(q, q.free[l])
      BY <1>1 DEF FreeAlive
    <2>2. \A k \in DOMAIN fr : Alive(r, fr[k])
      BY <1>5, <1>9, <2>1
    <2> QED
      BY <1>5, <1>6, <2>2 DEF FreeAlive
  <1>11. /\ Known(r, b) /\ GroupsApart(r)
         /\ \A p \in Player : SlotSound(r, b, a, p) /\ EventsSound(r, p)
    BY <1>1, <1>4, <1>6, <1>8, <1>9
       DEF Known, GroupsApart, SlotSound, EventsSound
  <1>12. ASSUME NEW j \in DOMAIN r.bgs, r.bgs[j] # NULL
         PROVE  /\ InsideSound(r, b, a, j) /\ CountsExact(r, b, a, j)
                /\ j # 0 => EmptyDeleted(r, b, a, j)
    <2>1. j \in DOMAIN q.bgs /\ r.bgs[j] = q.bgs[j] /\ q.bgs[j] # NULL
      BY <1>4, <1>6, <1>7, <1>12
    <2>2. \A t : CountedIn(r, b, a, j, t) = CountedIn(q, b, a, j, t)
      BY <1>8, <2>1 DEF CountedIn
    <2> QED
      BY <1>1, <2>1, <2>2 DEF InsideSound, CountsExact, EmptyDeleted
  <1>13. Sound(r, b, a)
    BY <1>1, <1>6, <1>10, <1>11, <1>12 DEF Sound, SoundBut
  <1> QED
    BY <1>6, <1>13 DEF r, fr, bs

\* Who is invited goes into his battleground, and is counted all the way.
Entering(q, p) == RemovePlayer(q, p, FALSE)

\* An invited player leaves for the battleground.
LEMMA EnteringSound ==
  ASSUME NEW q, NEW b, NEW a, Sound(q, b, a), NEW p \in Player, NEW i, Alive(q, i),
         InvitedOf(q, p) = {i},
         NEW d, NEW c, Whereabouts(d, c), d[p] = i, c[p] = "far",
         \A x \in Player \ {p} : d[x] = b[x] /\ c[x] = a[x]
  PROVE  Sound(Entering(q, p), d, c) /\ Entering(q, p).bgs = q.bgs
  <1> DEFINE r == Entering(q, p)
  <1>1. /\ q \in QueueState /\ GroupsApart(q) /\ FreeAlive(q)
    BY DEF Sound, SoundBut
  <1>2. b[p] = 0 /\ q.slot[p] = i /\ InvitedOf(q, p) \subseteq {0} \cup DOMAIN q.bgs
    BY QueuedOutside
  <1>3. i \in Nat \ {0} /\ i \in DOMAIN q.bgs
    BY SoundBgs
  <1>4. Removes(q, p, FALSE, r)
    BY <1>1, <1>2, RemovePlayerIs DEF Entering
  <1> HIDE DEF r
  <1>5. /\ r \in QueueState /\ GroupsApart(r) /\ InvitedOf(r, p) = {}
        /\ \A x \in Player \ {p} : InvitedOf(r, x) = InvitedOf(q, x)
        /\ r.free = q.free /\ r.slot = q.slot /\ r.events = q.events
        /\ DOMAIN r.bgs = DOMAIN q.bgs /\ \A j \in DOMAIN q.bgs : r.bgs[j] = q.bgs[j]
    BY <1>4 DEF Removes
  <1>6. r.bgs = q.bgs
    <2>1. /\ DOMAIN q.bgs = 1..Len(q.bgs) /\ q.bgs \in Seq(BgRow \cup {NULL})
          /\ r.bgs \in Seq(BgRow \cup {NULL}) /\ DOMAIN r.bgs = 1..Len(r.bgs)
          /\ Len(q.bgs) \in Nat /\ Len(r.bgs) \in Nat
      BY <1>1, <1>5, Typed
    <2>2. Len(q.bgs) = Len(r.bgs)
      BY <1>5, <2>1, LenProperties
    <2> QED
      BY <1>5, <2>1, <2>2, SeqEqual
  <1>7. OthersSame(q, b, a, r, d, c, p)
    BY <1>5 DEF OthersSame
  <1>8. ASSUME NEW j, Alive(q, j)
        PROVE  BgSound(r, d, c, j)
    <2>1. /\ BgSound(q, b, a, j) /\ q.bgs[j] \in BgRow /\ j # 0
          /\ q.bgs[j].players \in SUBSET Player
      BY <1>8, SoundBgs, BgTyped
    <2>2. p \notin q.bgs[j].players
      BY <1>2, <2>1 DEF BgSound, InsideSound
    <2>3. InsideOf(r, d, c, j, p)
      BY <1>6, <2>2 DEF InsideOf
    <2>4. CountsIn(r, d, c, j, p) <=> CountsIn(q, b, a, j, p)
      BY <1>2, <1>5, <1>6, <2>1, <2>2 DEF CountsIn
    <2> QED
      BY <1>6, <1>7, <2>1, <2>3, <2>4, BgKept
  <1>9. FreeAlive(r)
    BY <1>1, <1>5, <1>6 DEF FreeAlive, Alive
  <1>10. SlotSound(r, d, c, p) /\ EventsSound(r, p)
    BY <1>2, <1>3, <1>5 DEF SlotSound, EventsSound
  <1>11. InvitedOf(r, p) \cup {d[p]} \subseteq {0} \cup DOMAIN q.bgs
    BY <1>3, <1>5
  <1>12. Sound(r, d, c)
    BY <1>5, <1>6, <1>7, <1>8, <1>9, <1>10, <1>11, SoundFrame
  <1> QED
    BY <1>6, <1>12 DEF r

\* Who is not queued has only his slot to lose.
LEMMA WithdrawingUnqueued ==
  ASSUME NEW q, NEW p, InvitedOf(q, p) = {}
  PROVE  Withdrawing(q, p) = RemoveBattlegroundQueueId(q, p)
  <1>1. GroupOf(q, p) = {}
    BY DEF InvitedOf
  <1>2. GroupOf(RemoveBattlegroundQueueId(q, p), p) = GroupOf(q, p)
    BY DEF GroupOf, RemoveBattlegroundQueueId
  <1> QED
    BY <1>1, <1>2 DEF Withdrawing, RemovePlayer

\* WorldSession::LogoutPlayer after he has arrived: he leaves the queue.
LoggedOut(q, p) == [Withdrawing(q, p) EXCEPT !.events[p] = <<>>]

\* A player logs out in the world: he and his events are gone.
LEMMA LoggedOutSound ==
  ASSUME NEW q, NEW b, NEW a, Sound(q, b, a), NEW p \in Player, a[p] = "world",
         NEW c, Whereabouts(b, c), c[p] = "offline", \A x \in Player \ {p} : c[x] = a[x]
  PROVE  Sound(LoggedOut(q, p), b, c) /\ Shrinks(q, LoggedOut(q, p))
  <1> DEFINE r == Withdrawing(q, p)
             s == LoggedOut(q, p)
             ev == [r.events EXCEPT ![p] = <<>>]
  <1>1. s = [r EXCEPT !.events = ev]
    BY DEF LoggedOut
  <1>2. b[p] \in {0} \cup DOMAIN q.bgs /\ b[p] \in Nat
    BY QueuedOutside
  <1>3. q \in QueueState /\ q.events \in [Player -> Seq(Nat)] /\ <<>> \in Seq(Nat)
    <2>1. q \in QueueState
      BY SoundTyped DEF Sound
    <2>2. <<>> \in Seq(Nat)
      BY EmptySeq
    <2> QED
      BY <2>1, <2>2, Typed
  <1>4. CASE b[p] = 0
    <2>1. Sound(r, b, a) /\ Shrinks(q, r) /\ InvitedOf(r, p) = {} /\ r.slot[p] = NULL
      BY <1>4, WithdrawingSound
    <2> HIDE DEF r, s
    <2>2. r \in QueueState /\ r.events \in [Player -> Seq(Nat)]
      BY <2>1, SoundTyped, Typed DEF Sound
    <2>3. ev \in [Player -> Seq(Nat)] /\ \A x \in Player \ {p} : ev[x] = r.events[x]
      BY <1>3, <2>2
    <2> HIDE DEF ev
    <2>4. /\ s \in QueueState /\ s.groups = r.groups /\ s.bgs = r.bgs /\ s.free = r.free
          /\ s.slot = r.slot /\ \A x \in Player \ {p} : s.events[x] = r.events[x]
      BY <1>1, <2>2, <2>3 DEF QueueState
    <2>5. InvitedOf(s, p) = {}
      BY <2>1, <2>4 DEF InvitedOf, GroupOf
    <2>6. SlotSound(s, b, c, p) /\ EventsSound(s, p)
      BY <2>1, <2>4, <2>5 DEF SlotSound, EventsSound
    <2>7. ASSUME NEW i, Alive(r, i)
          PROVE  /\ InsideOf(s, b, c, i, p)
                 /\ a[p] = "far" /\ b[p] = i => CountsIn(s, b, c, i, p)
                 /\ c[p] = "far" /\ b[p] = i => CountsIn(r, b, a, i, p)
      <3>1. InsideOf(r, b, a, i, p)
        BY <2>1, <2>7, QueuedOutside
      <3> QED
        BY <2>4, <3>1 DEF InsideOf
    <2>8. Sound(s, b, c) /\ Shrinks(r, s)
      BY <1>4, <2>1, <2>4, <2>6, <2>7, SameRows
    <2>9. Shrinks(q, s)
      BY <2>1, <2>4 DEF Shrinks, Alive
    <2> QED
      BY <2>8, <2>9 DEF s
  <1>5. CASE b[p] # 0
    <2>1. InvitedOf(q, p) = {}
      BY <1>5, QueuedOutside
    <2>2. r = [q EXCEPT !.slot[p] = NULL]
      BY <2>1, WithdrawingUnqueued DEF RemoveBattlegroundQueueId
    <2> HIDE DEF r, s
    <2>3. q.slot \in [Player -> Nat \cup {NULL}]
      BY <1>3, Typed
    <2>4. /\ r \in QueueState /\ r.groups = q.groups /\ r.bgs = q.bgs /\ r.free = q.free
          /\ r.slot[p] = NULL /\ \A x \in Player \ {p} : r.slot[x] = q.slot[x]
          /\ r.events = q.events
      BY <1>3, <2>2 DEF QueueState
    <2>5. ev \in [Player -> Seq(Nat)] /\ \A x \in Player \ {p} : ev[x] = q.events[x]
      BY <1>3, <2>4
    <2> HIDE DEF ev
    <2>6. /\ s \in QueueState /\ s.groups = q.groups /\ s.bgs = q.bgs /\ s.free = q.free
          /\ s.slot = r.slot /\ \A x \in Player \ {p} : s.events[x] = q.events[x]
      BY <1>1, <2>4, <2>5 DEF QueueState
    <2>7. InvitedOf(s, p) = {}
      BY <2>1, <2>6 DEF InvitedOf, GroupOf
    <2>8. SlotSound(s, b, c, p) /\ EventsSound(s, p)
      BY <2>4, <2>6, <2>7 DEF SlotSound, EventsSound
    <2>9. ASSUME NEW i, Alive(q, i)
          PROVE  /\ InsideOf(s, b, c, i, p)
                 /\ a[p] = "far" /\ b[p] = i => CountsIn(s, b, c, i, p)
                 /\ c[p] = "far" /\ b[p] = i => CountsIn(q, b, a, i, p)
      <3>1. InsideOf(q, b, a, i, p)
        BY <2>9, QueuedOutside
      <3> QED
        BY <2>6, <3>1 DEF InsideOf
    <2>10. \A x \in Player \ {p} : s.slot[x] = q.slot[x]
      BY <2>4, <2>6
    <2>11. Sound(s, b, c) /\ Shrinks(q, s)
      BY <1>2, <2>6, <2>8, <2>9, <2>10, SameRows
    <2> QED
      BY <2>11 DEF s
  <1> QED
    BY <1>4, <1>5

\* A state of the queue from its parts, and what changing one of them gives.
Rec(gs, bs, fr, sl, ev) ==
    [groups |-> gs, bgs |-> bs, free |-> fr, slot |-> sl, events |-> ev]

WithEvents(q, ev) == [q EXCEPT !.events = ev]

\* What other events make of a state.
LEMMA RecEvents ==
  ASSUME NEW gs, NEW bs, NEW fr, NEW sl, NEW ev, NEW x
  PROVE  WithEvents(Rec(gs, bs, fr, sl, ev), x) = Rec(gs, bs, fr, sl, x)
  BY DEF Rec, WithEvents

NoSlot(sl, p) == [sl EXCEPT ![p] = NULL]

\* What a slot that is given back makes of a state.
LEMMA RecSlot ==
  ASSUME NEW gs, NEW bs, NEW fr, NEW sl, NEW ev, NEW p
  PROVE  RemoveBattlegroundQueueId(Rec(gs, bs, fr, sl, ev), p)
           = Rec(gs, bs, fr, NoSlot(sl, p), ev)
  BY DEF Rec, NoSlot, RemoveBattlegroundQueueId

\* What LeaveGroup leaves of the groups gs, and of the battlegrounds bs.
GroupsLeft(gs, k, p) ==
    IF gs[k].players = {p} THEN RemoveAt(gs, k) ELSE [gs EXCEPT ![k].players = @ \ {p}]
BgsLeft(gs, bs, k) ==
    IF gs[k].invited # 0 /\ bs[gs[k].invited] # NULL
    THEN [bs EXCEPT ![gs[k].invited] = Fewer(@, gs[k].team)] ELSE bs

Leaves(q, k, p) == LeaveGroup(q, k, p, TRUE)

\* What LeaveGroup makes of a state.
LEMMA RecLeave ==
  ASSUME NEW gs, NEW bs, NEW fr, NEW sl, NEW ev, NEW k, NEW p
  PROVE  Leaves(Rec(gs, bs, fr, sl, ev), k, p)
           = Rec(GroupsLeft(gs, k, p), BgsLeft(gs, bs, k), fr, sl, ev)
  <1> DEFINE q == Rec(gs, bs, fr, sl, ev)
             hs == GroupsLeft(gs, k, p)
  <1>1. q.groups = gs /\ q.bgs = bs
    BY DEF Rec
  <1>2. Without(q, k, p) = hs
    BY <1>1 DEF Without, GroupsLeft
  <1> HIDE DEF hs
  <1>3. [q EXCEPT !.groups = hs] = Rec(hs, bs, fr, sl, ev)
    BY DEF Rec
  <1> DEFINE r == Rec(hs, bs, fr, sl, ev)
  <1>4. [r EXCEPT !.bgs[gs[k].invited] = Fewer(@, gs[k].team)]
          = Rec(hs, [bs EXCEPT ![gs[k].invited] = Fewer(@, gs[k].team)], fr, sl, ev)
    BY DEF Rec
  <1> DEFINE left == [q EXCEPT !.groups = hs]
  <1>5. Leaves(q, k, p)
          = IF gs[k].invited # 0 /\ bs[gs[k].invited] # NULL
            THEN [left EXCEPT !.bgs[gs[k].invited] = Fewer(@, gs[k].team)] ELSE left
    BY <1>1, <1>2, Zenon DEF Leaves, LeaveGroup
  <1>6. left = r
    BY <1>3
  <1> HIDE DEF q, r, left
  <1> QED
    BY <1>4, <1>5, <1>6 DEF BgsLeft, hs, q, r

\* Whatever events there are, a player leaves his group in the same way.
LEMMA EventsApart ==
  ASSUME NEW q \in QueueState, NEW p, NEW ev
  PROVE  Withdrawing(WithEvents(q, ev), p) = WithEvents(Withdrawing(q, p), ev)
  <1> DEFINE gs == q.groups
             bs == q.bgs
             fr == q.free
             sl == NoSlot(q.slot, p)
             u == Rec(gs, bs, fr, sl, q.events)
             v == Rec(gs, bs, fr, sl, ev)
             k == Max(GroupOf(u, p))
  <1>1. q = Rec(gs, bs, fr, q.slot, q.events)
    BY FieldsOf DEF Rec
  <1>2. WithEvents(q, ev) = Rec(gs, bs, fr, q.slot, ev)
    BY <1>1, RecEvents
  <1>3. RemoveBattlegroundQueueId(q, p) = u
    BY <1>1, RecSlot
  <1>4. RemoveBattlegroundQueueId(WithEvents(q, ev), p) = v
    BY <1>2, RecSlot
  <1>5. u.groups = gs /\ v.groups = gs
    BY DEF Rec
  <1>6. GroupOf(v, p) = GroupOf(u, p)
    BY <1>5 DEF GroupOf
  <1> DEFINE hs == GroupsLeft(gs, k, p)
             cs == BgsLeft(gs, bs, k)
  <1> HIDE DEF k
  <1>7. /\ Leaves(u, k, p) = Rec(hs, cs, fr, sl, q.events)
        /\ Leaves(v, k, p) = Rec(hs, cs, fr, sl, ev)
    BY RecLeave
  <1> HIDE DEF gs, bs, fr, sl, hs, cs
  <1>8. /\ WithEvents(Rec(hs, cs, fr, sl, q.events), ev) = Rec(hs, cs, fr, sl, ev)
        /\ WithEvents(u, ev) = v
    BY RecEvents
  <1> HIDE DEF u, v
  <1>9. RemovePlayer(v, p, TRUE) = WithEvents(RemovePlayer(u, p, TRUE), ev)
    <2>1. CASE GroupOf(u, p) = {}
      BY <1>6, <1>8, <2>1 DEF RemovePlayer
    <2>2. CASE GroupOf(u, p) # {}
      <3>1. /\ RemovePlayer(v, p, TRUE) = Leaves(v, k, p)
            /\ RemovePlayer(u, p, TRUE) = Leaves(u, k, p)
        BY <1>6, <2>2 DEF RemovePlayer, Leaves, k
      <3> QED
        BY <1>7, <1>8, <3>1
    <2> QED
      BY <2>1, <2>2
  <1> QED
    BY <1>3, <1>4, <1>9 DEF Withdrawing

\* The events of p may be any with one for the invitation he has.
LEMMA EventsChanged ==
  ASSUME NEW q, NEW b, NEW a, Sound(q, b, a), NEW p \in Player,
         NEW ev \in [Player -> Seq(Nat)], \A x \in Player \ {p} : ev[x] = q.events[x],
         \A j \in InvitedOf(q, p) : Alive(q, j) => j \in ToSet(ev[p])
  PROVE  /\ Sound(WithEvents(q, ev), b, a) /\ Shrinks(q, WithEvents(q, ev))
         /\ WithEvents(q, ev).slot = q.slot /\ WithEvents(q, ev).bgs = q.bgs
  <1> DEFINE s == WithEvents(q, ev)
  <1>1. q \in QueueState /\ Whereabouts(b, a) /\ SlotSound(q, b, a, p)
    BY DEF Sound, SoundBut
  <1>2. /\ s \in QueueState /\ s.groups = q.groups /\ s.bgs = q.bgs /\ s.free = q.free
        /\ s.slot = q.slot /\ s.events = ev
    BY <1>1 DEF QueueState, WithEvents
  <1> HIDE DEF s
  <1>3. InvitedOf(s, p) = InvitedOf(q, p)
    BY <1>2 DEF InvitedOf, GroupOf
  <1>4. SlotSound(s, b, a, p) /\ EventsSound(s, p)
    BY <1>1, <1>2, <1>3 DEF SlotSound, EventsSound, Alive
  <1>5. b[p] \in {0} \cup DOMAIN q.bgs
    BY QueuedOutside
  <1>6. ASSUME NEW i, Alive(q, i)
        PROVE  /\ InsideOf(s, b, a, i, p)
               /\ a[p] = "far" /\ b[p] = i => CountsIn(s, b, a, i, p)
               /\ a[p] = "far" /\ b[p] = i => CountsIn(q, b, a, i, p)
    <2>1. InsideOf(q, b, a, i, p)
      BY <1>6, QueuedOutside
    <2> QED
      BY <1>2, <2>1 DEF InsideOf, CountsIn
  <1>7. Sound(s, b, a) /\ Shrinks(q, s)
    BY <1>1, <1>2, <1>4, <1>5, <1>6, SameRows
  <1> QED
    BY <1>2, <1>7 DEF s

Popped(q, p) == [q EXCEPT !.events[p] = Tail(@)]

\* BGQueueRemoveEvent::Execute: the first event of p is gone, and so is he when
\* it is that of his invitation.
LEMMA ExpiredSound ==
  ASSUME NEW q, NEW b, NEW a, Sound(q, b, a), NEW p \in Player, q.events[p] # <<>>,
         NEW rest, rest = Popped(q, p)
  PROVE  /\ ~(Alive(q, Head(q.events[p])) /\ Head(q.events[p]) \in InvitedOf(q, p)) =>
               Sound(rest, b, a) /\ Shrinks(q, rest) /\ rest.slot = q.slot
         /\ b[p] = 0 => /\ Sound(WithdrawInvited(rest, p), b, a)
                        /\ FairStep(q, WithdrawInvited(rest, p))
                        /\ SlotsKept(q, WithdrawInvited(rest, p), Player \ {p})
  <1> DEFINE j == Head(q.events[p])
             ev == [q.events EXCEPT ![p] = Tail(@)]
  <1>1. q \in QueueState /\ EventsSound(q, p) /\ q.events \in [Player -> Seq(Nat)]
    BY Typed DEF Sound, SoundBut
  <1>2. /\ q.events[p] \in Seq(Nat) /\ Tail(q.events[p]) \in Seq(Nat)
        /\ \A x \in ToSet(q.events[p]) : x = j \/ x \in ToSet(Tail(q.events[p]))
    <2> DEFINE es == q.events[p]
    <2>1. es \in Seq(Nat) /\ es # <<>>
      BY <1>1
    <2> HIDE DEF es
    <2>2. /\ Tail(es) \in Seq(Nat) /\ Len(Tail(es)) = Len(es) - 1
          /\ Len(es) \in Nat
      BY <2>1, HeadTailProperties, LenProperties
    <2>3. /\ \A k \in 1..Len(Tail(es)) : Tail(es)[k] = es[k + 1]
          /\ Head(es) = es[1]
      BY <2>1
    <2>4. ASSUME NEW k \in 1..Len(es), k # 1
          PROVE  es[k] \in ToSet(Tail(es))
      <3>1. k - 1 \in 1..Len(Tail(es)) /\ Tail(es)[k - 1] = es[k]
        BY <2>2, <2>4, <2>3
      <3>2. DOMAIN Tail(es) = 1..Len(Tail(es))
        BY <2>2, LenProperties
      <3> QED
        BY <3>1, <3>2 DEF ToSet
    <2>5. DOMAIN es = 1..Len(es)
      BY <2>1, LenProperties
    <2>6. \A x \in ToSet(es) : x = Head(es) \/ x \in ToSet(Tail(es))
      BY <2>2, <2>4, <2>5, <2>3 DEF ToSet
    <2> QED
      BY <2>1, <2>2, <2>6 DEF es
  <1>3. /\ ev \in [Player -> Seq(Nat)] /\ ev[p] = Tail(q.events[p])
        /\ \A x \in Player \ {p} : ev[x] = q.events[x]
    BY <1>1, <1>2
  <1>4. rest = WithEvents(q, ev)
    BY <1>1 DEF QueueState, WithEvents, Popped
  <1> HIDE DEF ev
  <1>5. ASSUME ~(Alive(q, j) /\ j \in InvitedOf(q, p))
        PROVE  Sound(rest, b, a) /\ Shrinks(q, rest) /\ rest.slot = q.slot
    <2>1. \A i \in InvitedOf(q, p) : Alive(q, i) => i \in ToSet(ev[p])
      BY <1>1, <1>2, <1>3, <1>5 DEF EventsSound
    <2>2. /\ Sound(WithEvents(q, ev), b, a) /\ Shrinks(q, WithEvents(q, ev))
          /\ WithEvents(q, ev).slot = q.slot
      <3>1. ev \in [Player -> Seq(Nat)] /\ \A x \in Player \ {p} : ev[x] = q.events[x]
        BY ONLY <1>3
      <3> QED
        BY ONLY Sound(q, b, a), p \in Player, <3>1, <2>1, EventsChanged
    <2> QED
      BY ONLY <1>4, <2>2
  <1>6. ASSUME b[p] = 0
        PROVE  /\ Sound(WithdrawInvited(rest, p), b, a)
               /\ FairStep(q, WithdrawInvited(rest, p))
               /\ SlotsKept(q, WithdrawInvited(rest, p), Player \ {p})
    <2> DEFINE r == Withdrawing(q, p)
               s == WithEvents(r, ev)
               u == WithdrawInvited(rest, p)
    <2>1. u = IF sameType THEN Update(Withdrawing(rest, p)) ELSE Withdrawing(rest, p)
      BY DEF WithdrawInvited, Withdraw
    <2>2. Withdrawing(rest, p) = s
      BY <1>1, <1>4, EventsApart
    <2>3. /\ Sound(r, b, a) /\ Shrinks(q, r) /\ SlotsKept(q, r, Player \ {p})
          /\ InvitedOf(r, p) = {} /\ \A x \in Player \ {p} : r.events[x] = q.events[x]
      BY <1>6, WithdrawingSound
    <2> HIDE DEF r
    <2>4. /\ Sound(s, b, a) /\ Shrinks(r, s) /\ s.slot = r.slot /\ s.bgs = r.bgs
      <3>1. Sound(r, b, a) /\ p \in Player
        BY <2>3
      <3>2. ev \in [Player -> Seq(Nat)] /\ \A x \in Player \ {p} : ev[x] = r.events[x]
        BY <1>3, <2>3
      <3>3. \A i \in InvitedOf(r, p) : Alive(r, i) => i \in ToSet(ev[p])
        BY <2>3
      <3> QED
        BY ONLY <3>1, <3>2, <3>3, EventsChanged
    <2> HIDE DEF s, u
    <2>5. Shrinks(q, s)
      BY <2>3, <2>4 DEF Shrinks, Alive
    <2>6. q \in QueueState /\ s \in QueueState
      BY <1>1, <2>4, SoundTyped DEF Sound
    <2>7. Sound(u, b, a) /\ SlotsKept(s, u, Player) /\ FairStep(q, u)
      <3>1. CASE sameType
        <4>1. Sound(u, b, a) /\ Onward(s, u) /\ SlotsKept(s, u, Player)
          BY <2>1, <2>2, <2>4, <3>1, UpdateReached DEF Reached
        <4>2. u \in QueueState
          BY <4>1, SoundTyped DEF Sound
        <4> QED
          BY <2>5, <2>6, <4>1, <4>2, FairAfter
      <3>2. CASE ~sameType
        <4>1. u = s
          BY <2>1, <2>2, <3>2
        <4> QED
          BY <2>4, <2>5, <2>6, <4>1, FairShrinks DEF SlotsKept
      <3> QED
        BY <3>1, <3>2
    <2>8. SlotsKept(q, u, Player \ {p})
      BY <2>3, <2>4, <2>7 DEF SlotsKept
    <2> QED
      BY <2>7, <2>8 DEF u
  <1> QED
    BY <1>4, <1>5, <1>6

----------------------------------------------------------------------------
(* The actions.                                                            *)

\* Who waits has a slot.
WaitsOn(q, r) == \A p \in Player : 0 \in InvitedOf(q, p) => r.slot[p] # NULL

\* What every step keeps: the queue is sound, no invitation was unfair, and who
\* waits keeps his slot unless a client did something.
StepSound ==
    /\ Sound(Queue', bgId', at') /\ FairStep(Queue, Queue')
    /\ handled' \in Nat
    /\ handled' = handled => WaitsOn(Queue, Queue')

\* Who waits keeps his slot when those who lose theirs do not wait.
LEMMA WaitsKept ==
  ASSUME NEW q, NEW b, NEW a, Sound(q, b, a), NEW r, NEW ps,
         \A p \in ps : 0 \notin InvitedOf(q, p), SlotsKept(q, r, Player \ ps)
  PROVE  WaitsOn(q, r)
  <1>1. 0 # NULL
    BY BattlegroundAssumption
  <1>2. \A p \in Player : 0 \in InvitedOf(q, p) => q.slot[p] = 0 /\ p \notin ps
    BY QueuedOutside
  <1> QED
    BY <1>1, <1>2 DEF WaitsOn, SlotsKept

\* Who waits keeps his slot when nobody loses one.
LEMMA WaitsKeptAll ==
  ASSUME NEW q, NEW b, NEW a, Sound(q, b, a), NEW r, SlotsKept(q, r, Player)
  PROVE  WaitsOn(q, r)
  <1>1. 0 # NULL
    BY BattlegroundAssumption
  <1>2. \A p \in Player : 0 \in InvitedOf(q, p) => q.slot[p] = 0
    BY QueuedOutside
  <1> QED
    BY <1>1, <1>2 DEF WaitsOn, SlotsKept

\* The variables as one state.
LEMMA QueueIs ==
  /\ Queue.groups = groups /\ Queue.bgs = bgs /\ Queue.free = freeSlots
  /\ Queue.slot = slot /\ Queue.events = events
  /\ \A i : Live(i) <=> Alive(Queue, i)
  BY DEF Queue, Live, Alive

\* And what it becomes.
LEMMA BecomesIs ==
  ASSUME NEW q \in QueueState, Becomes(q)
  PROVE  Queue' = q
  <1>1. /\ groups' = q.groups /\ bgs' = q.bgs /\ freeSlots' = q.free
        /\ slot' = q.slot /\ events' = q.events
    BY DEF Becomes
  <1>2. q = [groups |-> q.groups, bgs |-> q.bgs, free |-> q.free,
             slot |-> q.slot, events |-> q.events]
    BY FieldsOf
  <1> QED
    BY <1>1, <1>2 DEF Queue

\* What a step must show to be sound.
LEMMA StepIs ==
  ASSUME NEW q, Becomes(q), Sound(q, bgId', at'), FairStep(Queue, q), handled' \in Nat,
         handled' = handled => WaitsOn(Queue, q)
  PROVE  StepSound
  <1>1. q \in QueueState
    BY SoundTyped DEF Sound
  <1>2. Queue' = q
    BY <1>1, BecomesIs
  <1> QED
    BY <1>2 DEF StepSound

\* After a client's handler.
LEMMA ClientStep ==
  ASSUME NEW q, QueueInv, Handled, Becomes(q), Sound(q, bgId', at'), FairStep(Queue, q)
  PROVE  StepSound
  <1>1. handled' \in Nat /\ handled' # handled
    BY DEF QueueInv, Handled
  <1> QED
    BY <1>1, StepIs

\* How the invariant speaks of a player in the queue.
LEMMA Queueing ==
  ASSUME QueueInv, NEW p \in Player
  PROVE  /\ Queued(p) => InvitedOf(Queue, p) = {InvitedBy(p)} /\ Cardinality(GroupOf(Queue, p)) = 1
         /\ ~Queued(p) => /\ InvitedOf(Queue, p) = {} /\ InvitedBy(p) = 0
                          /\ Cardinality(GroupOf(Queue, p)) = 0
         /\ Live(InvitedBy(p)) => InvitedOf(Queue, p) = {InvitedBy(p)}
         /\ \A i \in DOMAIN bgs : InvitedBy(p) = i <=> i \in InvitedOf(Queue, p)
  <1>1. Sound(Queue, bgId, at) /\ Queue \in QueueState /\ GroupsApart(Queue)
    BY SoundTyped DEF QueueInv, Sound
  <1>2. 0 \notin DOMAIN bgs
    BY <1>1, QueuedOutside, QueueIs
  <1>3. CASE GroupOf(Queue, p) = {}
    <2>1. InvitedOf(Queue, p) = {} /\ InvitedBy(p) = 0 /\ ~Queued(p)
      BY <1>3 DEF InvitedOf, InvitedBy, Queued
    <2>2. Cardinality(GroupOf(Queue, p)) = 0
      BY <1>3, FS_EmptySet
    <2> QED
      BY <1>2, <2>1, <2>2 DEF Live
  <1>4. CASE GroupOf(Queue, p) # {}
    <2>1. PICK k \in DOMAIN Queue.groups :
             /\ GroupOf(Queue, p) = {k} /\ InvitedOf(Queue, p) = {Queue.groups[k].invited}
             /\ Max(GroupOf(Queue, p)) = k
      BY <1>1, <1>4, OneGroup
    <2>2. InvitedBy(p) = Queue.groups[k].invited /\ Queued(p)
      BY <2>1, QueueIs DEF InvitedBy, Queued
    <2>3. Cardinality(GroupOf(Queue, p)) = 1
      BY <2>1, FS_Singleton
    <2> QED
      BY <2>1, <2>2, <2>3
  <1> QED
    BY <1>3, <1>4

\* A client joins, alone or with a group.
LEMMA JoinStep ==
  ASSUME QueueInv, NEW players \in Groups, HandleBattlegroundJoin(players)
  PROVE  StepSound
  <1> DEFINE r == AddGroup(Queue, players)
             u == Update(r)
  <1>1. Sound(Queue, bgId, at) /\ Queue \in QueueState
    BY SoundTyped DEF QueueInv, Sound
  <1>2. /\ Handled /\ Becomes(u) /\ bgId' = bgId /\ at' = at
        /\ \A p \in players : at[p] # "offline" /\ Queue.slot[p] = NULL
    BY QueueIs DEF HandleBattlegroundJoin
  <1>3. Sound(r, bgId, at) /\ r.bgs = Queue.bgs
    BY <1>1, <1>2, AddGroupSound
  <1> HIDE DEF r
  <1>4. Sound(u, bgId, at) /\ Onward(r, u)
    BY <1>3, UpdateReached DEF Reached
  <1> HIDE DEF u
  <1>5. r \in QueueState /\ u \in QueueState
    BY <1>3, <1>4, SoundTyped DEF Sound
  <1>6. Shrinks(Queue, r)
    <2>1. \A i \in DOMAIN Queue.bgs : Queue.bgs[i] # NULL =>
             \A t \in Team : Queue.bgs[i].invited[t] \in Nat
      BY <1>1, Typed, BgTyped
    <2> QED
      BY <1>3, <2>1 DEF Shrinks, Alive
  <1>7. FairStep(Queue, u)
    BY <1>1, <1>4, <1>5, <1>6, FairAfter
  <1>8. Sound(u, bgId', at')
    BY <1>2, <1>4
  <1> QED
    BY <1>2, <1>7, <1>8, ClientStep

\* Who is invited enters.
LEMMA EnterStep ==
  ASSUME QueueInv, NEW p \in Player, HandleBattlegroundEnter(p)
  PROVE  StepSound
  <1> DEFINE i == InvitedBy(p)
             r == Entering(Queue, p)
  <1>1. /\ Sound(Queue, bgId, at) /\ Queue \in QueueState /\ Whereabouts(bgId, at)
    BY SoundTyped DEF QueueInv, Sound, SoundBut
  <1>2. /\ Handled /\ Becomes(r) /\ Live(i) /\ bgId' = [bgId EXCEPT ![p] = i]
        /\ at' = [at EXCEPT ![p] = "far"]
    BY DEF HandleBattlegroundEnter, Entering
  <1>3. Alive(Queue, i) /\ InvitedOf(Queue, p) = {i}
    BY <1>2, Queueing, QueueIs
  <1>4. i \in Nat
    BY <1>1, <1>3, SoundBgs
  <1> HIDE DEF i
  <1>5. /\ bgId' \in [Player -> Nat] /\ bgId'[p] = i /\ \A x \in Player \ {p} : bgId'[x] = bgId[x]
    BY <1>1, <1>2, <1>4 DEF Whereabouts
  <1>6. /\ at' \in [Player -> Places] /\ at'[p] = "far" /\ \A x \in Player \ {p} : at'[x] = at[x]
    BY <1>1, <1>2 DEF Whereabouts, Places
  <1>7. Sound(r, bgId', at') /\ r.bgs = Queue.bgs
    <2>1. Whereabouts(bgId', at')
      BY <1>5, <1>6 DEF Whereabouts
    <2>2. \A x \in Player \ {p} : bgId'[x] = bgId[x] /\ at'[x] = at[x]
      BY <1>5, <1>6
    <2>3. bgId'[p] = i /\ at'[p] = "far" /\ Sound(Queue, bgId, at)
      BY <1>1, <1>5, <1>6
    <2> QED
      BY ONLY <1>3, <2>1, <2>2, <2>3, p \in Player, EnteringSound
  <1> HIDE DEF r
  <1>8. FairStep(Queue, r)
    <2>1. \A j \in DOMAIN Queue.bgs : Queue.bgs[j] # NULL =>
             \A t \in Team : Queue.bgs[j].invited[t] \in Nat
      BY <1>1, Typed, BgTyped
    <2> QED
      BY <1>7, <2>1 DEF FairStep
  <1> QED
    BY <1>2, <1>7, <1>8, ClientStep

\* A client leaves the queue.
LEMMA LeaveQueueStep ==
  ASSUME QueueInv, NEW p \in Player, HandleBattlegroundLeaveQueue(p)
  PROVE  StepSound
  <1> DEFINE u == Withdraw(Queue, p)
             r == Withdrawing(Queue, p)
  <1>1. Sound(Queue, bgId, at) /\ Queue \in QueueState
    BY SoundTyped DEF QueueInv, Sound
  <1>2. Handled /\ Becomes(u) /\ Queued(p) /\ bgId' = bgId /\ at' = at
    BY DEF HandleBattlegroundLeaveQueue
  <1>3. bgId[p] = 0
    BY <1>1, <1>2, Queueing, QueuedOutside
  <1>4. /\ Sound(u, bgId, at) /\ Shrinks(Queue, r) /\ r \in QueueState /\ Onward(r, u)
    BY <1>1, <1>3, WithdrawSound
  <1> HIDE DEF u, r
  <1>5. u \in QueueState
    BY <1>4, SoundTyped DEF Sound
  <1>6. FairStep(Queue, u)
    BY <1>1, <1>4, <1>5, FairAfter
  <1>7. Sound(u, bgId', at')
    BY <1>2, <1>4
  <1> QED
    BY <1>2, <1>6, <1>7, ClientStep

\* Two steps by which nobody is invited are one.
LEMMA ShrinksTwice ==
  ASSUME NEW q \in QueueState, NEW r \in QueueState, NEW s \in QueueState,
         Shrinks(q, r), Shrinks(r, s)
  PROVE  Shrinks(q, s)
  <1>1. ASSUME NEW i \in DOMAIN q.bgs, q.bgs[i] # NULL
        PROVE  /\ Alive(s, i) /\ s.bgs[i].status = q.bgs[i].status
               /\ \A t \in Team : s.bgs[i].invited[t] <= q.bgs[i].invited[t]
    <2>1. /\ Alive(r, i) /\ r.bgs[i].status = q.bgs[i].status
          /\ \A t \in Team : r.bgs[i].invited[t] <= q.bgs[i].invited[t]
      BY <1>1 DEF Shrinks
    <2>2. /\ Alive(s, i) /\ s.bgs[i].status = r.bgs[i].status
          /\ \A t \in Team : s.bgs[i].invited[t] <= r.bgs[i].invited[t]
      BY <2>1 DEF Shrinks, Alive
    <2>3. \A t \in Team : /\ q.bgs[i].invited[t] \in Nat /\ r.bgs[i].invited[t] \in Nat
                          /\ s.bgs[i].invited[t] \in Nat
      BY <1>1, <2>1, <2>2, Typed, BgTyped DEF Alive
    <2> QED
      BY <2>1, <2>2, <2>3
  <1> QED
    BY <1>1 DEF Shrinks

\* The queue stays as it is.
LEMMA Staying == UNCHANGED queueVars => Becomes(Queue)
  BY DEF queueVars, Becomes, Queue

\* Nobody is invited by nothing.
LEMMA StaysFair ==
  ASSUME NEW q \in QueueState
  PROVE  Shrinks(q, q)
  <1>1. \A i \in DOMAIN q.bgs : q.bgs[i] # NULL =>
           \A t \in Team : q.bgs[i].invited[t] \in Nat
    BY Typed, BgTyped
  <1> QED
    BY <1>1 DEF Shrinks, Alive

\* Where a player goes.
Put(c, a, p, w) == c = [a EXCEPT ![p] = w]

\* Where p is, and the others.
LEMMA Moved ==
  ASSUME NEW b, NEW a, Whereabouts(b, a), NEW p \in Player,
         NEW i \in Nat, NEW w \in Places, NEW d, NEW c,
         Put(d, b, p, i) \/ (d = b /\ i = b[p]),
         Put(c, a, p, w) \/ (c = a /\ w = a[p])
  PROVE  /\ Whereabouts(d, c) /\ d[p] = i /\ c[p] = w
         /\ \A x \in Player \ {p} : d[x] = b[x] /\ c[x] = a[x]
  <1>1. /\ d \in [Player -> Nat] /\ d[p] = i /\ \A x \in Player \ {p} : d[x] = b[x]
    BY DEF Whereabouts, Put
  <1>2. /\ c \in [Player -> Places] /\ c[p] = w /\ \A x \in Player \ {p} : c[x] = a[x]
    BY DEF Whereabouts, Put
  <1> QED
    BY <1>1, <1>2 DEF Whereabouts

\* Whoever leaves his battleground, by himself or not.
LEMMA TeleportStep ==
  ASSUME QueueInv, NEW p \in Player, TeleportTo(p)
  PROVE  StepSound
  <1> DEFINE i == bgId[p]
             r == RemovePlayerAtLeave(Queue, p, i, TRUE)
  <1>1. /\ Sound(Queue, bgId, at) /\ Queue \in QueueState /\ Whereabouts(bgId, at)
        /\ SlotSound(Queue, bgId, at, p) /\ EventsSound(Queue, p)
    BY SoundTyped DEF QueueInv, Sound, SoundBut
  <1>2. i \in Nat /\ i \in {0} \cup DOMAIN Queue.bgs /\ 0 \notin DOMAIN Queue.bgs
    BY <1>1, QueuedOutside
  <1>3. Handled /\ at[p] = "world" /\ at' = [at EXCEPT ![p] = "far"]
    BY DEF TeleportTo, LeaveBattleground
  <1>4. CASE Live(i)
    <2>1. Becomes(r) /\ bgId' = [bgId EXCEPT ![p] = 0]
      BY <1>4 DEF TeleportTo, LeaveBattleground
    <2>2. /\ Whereabouts(bgId', at') /\ bgId'[p] = 0
          /\ \A x \in Player \ {p} : bgId'[x] = bgId[x] /\ at'[x] = at[x]
      <3>1. 0 \in Nat /\ "far" \in Places
        BY DEF Places
      <3>2. Put(bgId', bgId, p, 0) /\ Put(at', at, p, "far")
        BY <1>3, <2>1 DEF Put
      <3> QED
        BY ONLY <1>1, <3>1, <3>2, p \in Player, Moved
    <2>3. Alive(Queue, i) /\ p \in Queue.bgs[i].players
      <3>1. Alive(Queue, i)
        BY <1>4, QueueIs
      <3> QED
        BY <1>1, <1>3, <3>1, SoundBgs DEF BgSound, InsideSound
    <2> HIDE DEF i
    <2>4. Sound(r, bgId', at') /\ Shrinks(Queue, r)
      <3>1. TRUE \in BOOLEAN
        OBVIOUS
      <3> QED
        BY ONLY <1>1, <2>2, <2>3, <3>1, p \in Player, RemovePlayerAtLeaveSound
    <2> HIDE DEF r
    <2>5. FairStep(Queue, r)
      BY <1>1, <2>4, SoundTyped, FairShrinks DEF Sound
    <2> QED
      BY <1>3, <2>1, <2>4, <2>5, ClientStep
  <1>5. CASE ~Live(i)
    <2>1. Becomes(Queue) /\ bgId' = bgId
      BY <1>5, Staying DEF TeleportTo, LeaveBattleground
    <2>2. /\ Whereabouts(bgId, at') /\ at'[p] = "far"
          /\ \A x \in Player \ {p} : at'[x] = at[x]
      <3>1. "far" \in Places
        BY DEF Places
      <3>2. Put(at', at, p, "far") /\ bgId[p] \in Nat
        BY <1>2, <1>3 DEF Put
      <3> QED
        BY ONLY <1>1, <3>1, <3>2, p \in Player, Moved
    <2>3. ~Alive(Queue, i)
      BY <1>5, QueueIs
    <2>4. SlotSound(Queue, bgId, at', p)
      BY <1>1, <1>3, <2>2 DEF SlotSound
    <2>5. ASSUME NEW j, Alive(Queue, j)
          PROVE  /\ InsideOf(Queue, bgId, at', j, p)
                 /\ at[p] = "far" /\ bgId[p] = j => CountsIn(Queue, bgId, at', j, p)
                 /\ at'[p] = "far" /\ bgId[p] = j => CountsIn(Queue, bgId, at, j, p)
      <3>1. bgId[p] # j /\ InsideOf(Queue, bgId, at, j, p)
        BY <1>1, <2>3, <2>5, QueuedOutside
      <3> QED
        BY <3>1 DEF InsideOf
    <2> HIDE DEF i, r
    <2>6. Sound(Queue, bgId, at')
      BY <1>1, <1>2, <2>2, <2>4, <2>5, SameRows DEF i
    <2>7. FairStep(Queue, Queue)
      BY <1>1, StaysFair, FairShrinks
    <2> QED
      BY <1>3, <2>1, <2>6, <2>7, ClientStep
  <1> QED
    BY <1>4, <1>5

\* The arrival of the model, on a state.
LEMMA ArriveIs ==
  ASSUME NEW p
  PROVE  Arrive(Queue, p) = Arrived(Queue, bgId, at, p)
  BY QueueIs DEF Arrive, Arrived

\* A far teleport ends.
LEMMA WorldportStep ==
  ASSUME QueueInv, NEW p \in Player, HandleMoveWorldportAck(p)
  PROVE  StepSound
  <1> DEFINE r == Arrived(Queue, bgId, at, p)
  <1>1. /\ Sound(Queue, bgId, at) /\ Queue \in QueueState /\ Whereabouts(bgId, at)
        /\ handled \in Nat
    BY SoundTyped DEF QueueInv, Sound, SoundBut
  <1>2. /\ Becomes(r) /\ at[p] = "far" /\ at' = [at EXCEPT ![p] = "world"]
        /\ bgId' = bgId /\ handled' = handled
    BY ArriveIs DEF HandleMoveWorldportAck
  <1>3. /\ Whereabouts(bgId, at') /\ at'[p] = "world"
        /\ \A x \in Player \ {p} : at'[x] = at[x]
    <2>1. "world" \in Places /\ bgId[p] \in Nat
      BY <1>1 DEF Places, Whereabouts
    <2>2. Put(at', at, p, "world")
      BY <1>2 DEF Put
    <2> QED
      BY ONLY <1>1, <2>1, <2>2, p \in Player, Moved
  <1>4. Sound(r, bgId, at') /\ Shrinks(Queue, r) /\ r.slot = Queue.slot
    <2>1. at[p] # "offline"
      BY <1>2
    <2> QED
      BY ONLY <1>1, <1>3, <2>1, p \in Player, ArrivedSound
  <1> HIDE DEF r
  <1>5. FairStep(Queue, r)
    BY <1>1, <1>4, SoundTyped, FairShrinks DEF Sound
  <1>6. WaitsOn(Queue, r)
    <2>1. SlotsKept(Queue, r, Player)
      BY <1>4 DEF SlotsKept
    <2> QED
      BY <1>1, <2>1, WaitsKeptAll
  <1> QED
    BY <1>1, <1>2, <1>4, <1>5, <1>6, StepIs

\* A client logs out.
LEMMA LogoutStep ==
  ASSUME QueueInv, NEW p \in Player, LogoutPlayer(p)
  PROVE  StepSound
  <1> DEFINE r == Arrived(Queue, bgId, at, p)
             u == RemoveBattlegroundQueueId(r, p)
             s == LoggedOut(r, p)
             c == [at EXCEPT ![p] = "world"]
  <1>1. /\ Sound(Queue, bgId, at) /\ Queue \in QueueState /\ Whereabouts(bgId, at)
        /\ SlotSound(Queue, bgId, at, p)
    BY SoundTyped DEF QueueInv, Sound, SoundBut
  <1>2. /\ Handled /\ at[p] # "offline" /\ at' = [at EXCEPT ![p] = "offline"]
        /\ bgId' = bgId
        /\ Becomes([(IF slot[p] = NULL THEN u ELSE RemovePlayer(u, p, TRUE))
                      EXCEPT !.events[p] = <<>>])
    BY ArriveIs DEF LogoutPlayer
  <1>3. /\ Whereabouts(bgId, c) /\ c[p] = "world" /\ \A x \in Player \ {p} : c[x] = at[x]
    BY <1>1 DEF Whereabouts, Places
  <1> HIDE DEF c
  <1>4. /\ Sound(r, bgId, c) /\ Shrinks(Queue, r) /\ InvitedOf(r, p) = InvitedOf(Queue, p)
    BY <1>1, <1>2, <1>3, ArrivedSound
  <1> HIDE DEF r
  <1>5. slot[p] = NULL => InvitedOf(r, p) = {}
    <2>1. \A j \in InvitedOf(Queue, p) : slot[p] = j /\ j \in Nat
      <3>1. InvitedOf(Queue, p) \subseteq {0} \cup DOMAIN Queue.bgs /\ DOMAIN Queue.bgs \subseteq Nat
        BY <1>1, QueuedOutside, Typed
      <3> QED
        BY <1>1, <3>1, QueueIs DEF SlotSound
    <2> QED
      BY <1>4, <2>1, BattlegroundAssumption
  <1>6. (IF slot[p] = NULL THEN u ELSE RemovePlayer(u, p, TRUE)) = Withdrawing(r, p)
    <2>1. CASE slot[p] = NULL
      BY <1>5, <2>1, WithdrawingUnqueued
    <2>2. CASE slot[p] # NULL
      BY <2>2 DEF Withdrawing
    <2> QED
      BY <2>1, <2>2
  <1>7. Becomes(s)
    BY <1>2, <1>6 DEF LoggedOut
  <1>8. /\ Whereabouts(bgId, at') /\ at'[p] = "offline"
        /\ \A x \in Player \ {p} : at'[x] = c[x]
    <2>1. at' \in [Player -> Places]
      BY <1>1, <1>2 DEF Whereabouts, Places
    <2> QED
      BY <1>1, <1>2, <1>3, <2>1 DEF Whereabouts
  <1>9. Sound(s, bgId, at') /\ Shrinks(r, s)
    BY <1>3, <1>4, <1>8, LoggedOutSound
  <1> HIDE DEF s
  <1>10. FairStep(Queue, s)
    <2>1. r \in QueueState /\ s \in QueueState
      BY <1>4, <1>9, SoundTyped DEF Sound
    <2>2. Shrinks(Queue, s)
      BY <1>1, <1>4, <1>9, <2>1, ShrinksTwice
    <2> QED
      BY <1>1, <2>1, <2>2, FairShrinks
  <1>11. Sound(s, bgId', at')
    BY <1>2, <1>9
  <1> QED
    BY <1>2, <1>7, <1>10, <1>11, ClientStep

\* Who is offline is not queued, and has no slot.
LEMMA OfflineIs ==
  ASSUME NEW q, NEW b, NEW a, Sound(q, b, a), NEW p \in Player, a[p] = "offline"
  PROVE  InvitedOf(q, p) = {} /\ q.slot[p] = NULL
  <1>1. SlotSound(q, b, a, p)
    BY DEF Sound, SoundBut
  <1> QED
    BY <1>1 DEF SlotSound

\* A client logs in.
LEMMA LoadStep ==
  ASSUME QueueInv, NEW p \in Player, LoadFromDB(p)
  PROVE  StepSound
  <1> DEFINE i == bgId[p]
             inside == Live(i) /\ p \in bgs[i].players
             r == RemovePlayerAtLeave(Queue, p, i, FALSE)
             s == [Queue EXCEPT !.slot[p] = i]
  <1>1. /\ Sound(Queue, bgId, at) /\ Queue \in QueueState /\ Whereabouts(bgId, at)
        /\ EventsSound(Queue, p)
    BY SoundTyped DEF QueueInv, Sound, SoundBut
  <1>2. i \in Nat /\ i \in {0} \cup DOMAIN Queue.bgs /\ 0 \notin DOMAIN Queue.bgs
    BY <1>1, QueuedOutside
  <1>3. /\ Handled /\ at[p] = "offline" /\ at' = [at EXCEPT ![p] = "world"]
        /\ InvitedOf(Queue, p) = {} /\ Queue.slot[p] = NULL
    BY <1>1, OfflineIs DEF LoadFromDB
  <1>4. "world" \in Places /\ Put(at', at, p, "world") /\ at'[p] = "world" /\ 0 \in Nat
    BY <1>1, <1>3 DEF Places, Put, Whereabouts
  <1>5. /\ inside => Alive(Queue, i) /\ p \in Queue.bgs[i].players
        /\ Alive(Queue, i) /\ p \in Queue.bgs[i].players => inside
    BY QueueIs
  <1>6. CASE inside /\ bgs[i].status # "wait_leave"
    <2>1. Becomes(s) /\ bgId' = bgId
      BY <1>6 DEF LoadFromDB
    <2>2. /\ Whereabouts(bgId, at') /\ \A x \in Player \ {p} : at'[x] = at[x]
      BY ONLY <1>1, <1>2, <1>4, p \in Player, Moved
    <2>3. Alive(Queue, i) /\ p \in Queue.bgs[i].players /\ i # 0
      BY <1>2, <1>5, <1>6 DEF Alive
    <2> HIDE DEF i, inside, r
    <2>4. /\ s \in QueueState /\ s.groups = Queue.groups /\ s.bgs = Queue.bgs
          /\ s.free = Queue.free /\ s.slot[p] = i /\ s.events = Queue.events
          /\ \A x \in Player \ {p} : s.slot[x] = Queue.slot[x]
      <3> DEFINE sl == [Queue.slot EXCEPT ![p] = i]
      <3>1. Queue.slot \in [Player -> Nat \cup {NULL}]
        BY <1>1, Typed
      <3>2. /\ sl \in [Player -> Nat \cup {NULL}] /\ sl[p] = i
            /\ \A x \in Player \ {p} : sl[x] = Queue.slot[x]
        BY <1>2, <3>1
      <3>3. s = [Queue EXCEPT !.slot = sl]
        BY <1>1 DEF QueueState
      <3> HIDE DEF sl, s
      <3> QED
        BY <1>1, <3>2, <3>3 DEF QueueState
    <2> HIDE DEF s
    <2>5. InvitedOf(s, p) = {}
      BY <1>3, <2>4 DEF InvitedOf, GroupOf
    <2>6. SlotSound(s, bgId, at', p) /\ EventsSound(s, p)
      <3>1. s.slot[p] = bgId[p] /\ bgId[p] # 0 /\ at'[p] # "offline"
        BY <1>4, <2>3, <2>4 DEF i
      <3> QED
        BY <2>5, <3>1 DEF SlotSound, EventsSound
    <2>7. ASSUME NEW j, Alive(Queue, j)
          PROVE  /\ InsideOf(s, bgId, at', j, p)
                 /\ at[p] = "far" /\ bgId[p] = j => CountsIn(s, bgId, at', j, p)
                 /\ at'[p] = "far" /\ bgId[p] = j => CountsIn(Queue, bgId, at, j, p)
      <3>1. InsideOf(Queue, bgId, at, j, p)
        BY <1>1, <2>7, QueuedOutside
      <3>2. bgId[p] = j => p \in s.bgs[j].players
        BY <2>3, <2>4 DEF i
      <3> QED
        BY <1>3, <1>4, <2>4, <3>1, <3>2 DEF InsideOf
    <2>8. bgId[p] \in {0} \cup DOMAIN Queue.bgs
      BY <1>2 DEF i
    <2>9. /\ s.groups = Queue.groups /\ s.bgs = Queue.bgs /\ s.free = Queue.free
          /\ \A x \in Player \ {p} : /\ s.slot[x] = Queue.slot[x]
                                     /\ s.events[x] = Queue.events[x]
                                     /\ bgId[x] = bgId[x] /\ at'[x] = at[x]
      BY <2>2, <2>4
    <2>10. Sound(s, bgId, at') /\ Shrinks(Queue, s)
      BY ONLY <1>1, <2>2, <2>4, <2>6, <2>7, <2>8, <2>9, p \in Player, SameRows
    <2>11. FairStep(Queue, s)
      BY <1>1, <2>4, <2>10, FairShrinks
    <2>12. Sound(s, bgId', at')
      BY <2>1, <2>10
    <2> QED
      BY <1>3, <2>1, <2>11, <2>12, ClientStep
  <1>7. CASE inside /\ bgs[i].status = "wait_leave"
    <2>1. Becomes(r) /\ bgId' = [bgId EXCEPT ![p] = 0]
      BY <1>7 DEF LoadFromDB
    <2>2. /\ Whereabouts(bgId', at') /\ bgId'[p] = 0
          /\ \A x \in Player \ {p} : bgId'[x] = bgId[x] /\ at'[x] = at[x]
      <3>1. Put(bgId', bgId, p, 0)
        BY <2>1 DEF Put
      <3> QED
        BY ONLY <1>1, <1>4, <3>1, p \in Player, Moved
    <2>3. Alive(Queue, i) /\ p \in Queue.bgs[i].players
      BY <1>5, <1>7
    <2> HIDE DEF i, inside
    <2>4. Sound(r, bgId', at') /\ Shrinks(Queue, r)
      <3>1. FALSE \in BOOLEAN
        OBVIOUS
      <3> QED
        <4>1. at[p] = "offline" /\ Sound(Queue, bgId, at)
          BY <1>1, <1>3
        <4> DEFINE found == FALSE
        <4>2. found \in BOOLEAN /\ r = RemovePlayerAtLeave(Queue, p, i, found)
          BY DEF r
        <4> HIDE DEF found
        <4>3. Sound(RemovePlayerAtLeave(Queue, p, i, found), bgId', at')
                /\ Shrinks(Queue, RemovePlayerAtLeave(Queue, p, i, found))
          BY ONLY <4>1, <4>2, <2>2, <2>3, p \in Player, RemovePlayerAtLeaveSound
        <4> QED
          BY ONLY <4>2, <4>3
    <2> HIDE DEF r
    <2>5. FairStep(Queue, r)
      BY <1>1, <2>4, SoundTyped, FairShrinks DEF Sound
    <2> QED
      BY <1>3, <2>1, <2>4, <2>5, ClientStep
  <1>8. CASE ~inside
    <2>1. Becomes(Queue) /\ bgId' = [bgId EXCEPT ![p] = 0]
      BY <1>8 DEF LoadFromDB
    <2>2. /\ Whereabouts(bgId', at') /\ bgId'[p] = 0
          /\ \A x \in Player \ {p} : bgId'[x] = bgId[x] /\ at'[x] = at[x]
      <3>1. Put(bgId', bgId, p, 0)
        BY <2>1 DEF Put
      <3> QED
        BY ONLY <1>1, <1>4, <3>1, p \in Player, Moved
    <2>3. SlotSound(Queue, bgId', at', p)
      BY <1>3, <2>2 DEF SlotSound
    <2>4. ASSUME NEW j, Alive(Queue, j)
          PROVE  /\ InsideOf(Queue, bgId', at', j, p)
                 /\ at[p] = "far" /\ bgId[p] = j => CountsIn(Queue, bgId', at', j, p)
                 /\ at'[p] = "far" /\ bgId'[p] = j => CountsIn(Queue, bgId, at, j, p)
      <3>1. InsideOf(Queue, bgId, at, j, p) /\ j # 0
        BY <1>1, <1>2, <2>4, QueuedOutside DEF Alive
      <3>2. p \notin Queue.bgs[j].players
        BY <1>5, <1>8, <2>4, <3>1 DEF InsideOf
      <3>3. bgId'[p] # j /\ at[p] # "far"
        BY <1>3, <2>2, <3>1
      <3> QED
        BY <3>2, <3>3 DEF InsideOf
    <2> HIDE DEF i, inside, r, s
    <2>5. bgId'[p] \in {0} \cup DOMAIN Queue.bgs
      BY <2>2
    <2>6. Sound(Queue, bgId', at')
      BY <1>1, <2>2, <2>3, <2>4, <2>5, SameRows
    <2>7. FairStep(Queue, Queue)
      BY <1>1, StaysFair, FairShrinks
    <2> QED
      BY <1>3, <2>1, <2>6, <2>7, ClientStep
  <1> QED
    BY <1>6, <1>7, <1>8

\* The time of an invitation is over.
LEMMA RemoveEventStep ==
  ASSUME QueueInv, NEW p \in Player, RemoveEvent(p)
  PROVE  StepSound
  <1> DEFINE i == Head(events[p])
             rest == [Queue EXCEPT !.events[p] = Tail(@)]
             u == WithdrawInvited(rest, p)
             due == Live(i) /\ slot[p] # NULL /\ Queued(p) /\ InvitedBy(p) = i
  <1>1. Sound(Queue, bgId, at) /\ Queue \in QueueState /\ handled \in Nat
    BY SoundTyped DEF QueueInv, Sound
  <1>2. /\ Queue.events[p] # <<>> /\ i = Head(Queue.events[p])
        /\ bgId' = bgId /\ at' = at /\ handled' = handled
    BY QueueIs DEF RemoveEvent
  <1>3. Becomes(IF due THEN u ELSE rest)
    BY DEF RemoveEvent
  <1> HIDE DEF rest, i
  <1>4. /\ ~(Alive(Queue, i) /\ i \in InvitedOf(Queue, p)) =>
              Sound(rest, bgId, at) /\ Shrinks(Queue, rest) /\ rest.slot = Queue.slot
        /\ bgId[p] = 0 => /\ Sound(u, bgId, at) /\ FairStep(Queue, u)
                          /\ SlotsKept(Queue, u, Player \ {p})
    <2>1. rest = Popped(Queue, p)
      BY DEF rest, Popped
    <2>2. p \in Player
      OBVIOUS
    <2> DEFINE h == Head(Queue.events[p])
    <2>3. /\ ~(Alive(Queue, h) /\ h \in InvitedOf(Queue, p)) =>
                Sound(rest, bgId, at) /\ Shrinks(Queue, rest) /\ rest.slot = Queue.slot
          /\ bgId[p] = 0 => /\ Sound(WithdrawInvited(rest, p), bgId, at)
                            /\ FairStep(Queue, WithdrawInvited(rest, p))
                            /\ SlotsKept(Queue, WithdrawInvited(rest, p), Player \ {p})
      BY ONLY <1>1, <1>2, <2>1, <2>2, ExpiredSound
    <2>4. i = h
      BY <1>2
    <2> HIDE DEF h
    <2> QED
      BY <2>3, <2>4
  <1>5. CASE due
    <2>1. Alive(Queue, i) /\ InvitedOf(Queue, p) = {i}
      BY <1>5, Queueing, QueueIs
    <2>2. bgId[p] = 0 /\ i # 0
      BY <1>1, <2>1, QueuedOutside DEF Alive
    <2> HIDE DEF u
    <2>3. Sound(u, bgId, at) /\ FairStep(Queue, u) /\ SlotsKept(Queue, u, Player \ {p})
      BY <1>4, <2>2
    <2>4. WaitsOn(Queue, u)
      <3> DEFINE ps == {p}
      <3>1. \A x \in ps : 0 \notin InvitedOf(Queue, x)
        BY <2>1, <2>2
      <3>2. SlotsKept(Queue, u, Player \ ps)
        BY <2>3
      <3> HIDE DEF ps
      <3> QED
        BY ONLY <1>1, <3>1, <3>2, WaitsKept
    <2> QED
      BY <1>1, <1>2, <1>3, <1>5, <2>3, <2>4, StepIs
  <1>6. CASE ~due
    <2>1. ~(Alive(Queue, i) /\ i \in InvitedOf(Queue, p))
      <3> SUFFICES ASSUME Alive(Queue, i), i \in InvitedOf(Queue, p)
                   PROVE  due
        BY <1>6
      <3>1. Live(i) /\ i \in DOMAIN bgs
        BY QueueIs DEF Live
      <3>2. InvitedBy(p) = i
        BY <3>1, Queueing
      <3>3. Queued(p)
        BY Queueing
      <3>4. slot[p] = i /\ i \in Nat
        BY <1>1, QueuedOutside, SoundBgs, QueueIs
      <3> QED
        BY <3>1, <3>2, <3>3, <3>4, BattlegroundAssumption
    <2>2. Sound(rest, bgId, at) /\ Shrinks(Queue, rest) /\ rest.slot = Queue.slot
      BY <1>4, <2>1
    <2>3. FairStep(Queue, rest)
      BY <1>1, <2>2, SoundTyped, FairShrinks DEF Sound
    <2>4. WaitsOn(Queue, rest)
      <3>1. SlotsKept(Queue, rest, Player)
        BY <2>2 DEF SlotsKept
      <3> QED
        BY <1>1, <3>1, WaitsKeptAll
    <2> QED
      BY <1>1, <1>2, <1>3, <1>6, <2>2, <2>3, <2>4, StepIs
  <1> QED
    BY <1>5, <1>6

\* A match starts.
LEMMA StartStep ==
  ASSUME QueueInv, NEW i \in DOMAIN bgs, StartMatch(i)
  PROVE  StepSound
  <1> DEFINE r == [Queue EXCEPT !.bgs[i].status = "in_progress"]
  <1>1. Sound(Queue, bgId, at) /\ Queue \in QueueState /\ handled \in Nat
    BY SoundTyped DEF QueueInv, Sound
  <1>2. /\ Alive(Queue, i) /\ bgs' = [bgs EXCEPT ![i].status = "in_progress"]
        /\ groups' = groups /\ freeSlots' = freeSlots /\ slot' = slot /\ events' = events
        /\ bgId' = bgId /\ at' = at /\ handled' = handled
    BY QueueIs DEF StartMatch
  <1>3. "in_progress" \in Status
    BY DEF Status
  <1>4. /\ Sound(r, bgId, at) /\ DOMAIN r.bgs = DOMAIN Queue.bgs
        /\ \A j \in DOMAIN Queue.bgs \ {i} : r.bgs[j] = Queue.bgs[j]
        /\ r.bgs[i].invited = Queue.bgs[i].invited
        /\ r.groups = Queue.groups /\ r.free = Queue.free /\ r.slot = Queue.slot
        /\ r.events = Queue.events
        /\ r.bgs = [Queue.bgs EXCEPT ![i].status = "in_progress"]
    BY <1>1, <1>2, <1>3, StatusSound
  <1>5. Becomes(r)
    BY <1>2, <1>4, QueueIs DEF Becomes
  <1> HIDE DEF r
  <1>6. FairStep(Queue, r)
    <2>1. \A j \in DOMAIN Queue.bgs : Queue.bgs[j] # NULL =>
             \A t \in Team : Queue.bgs[j].invited[t] \in Nat
      BY <1>1, Typed, BgTyped
    <2>2. \A j \in DOMAIN Queue.bgs : r.bgs[j].invited = Queue.bgs[j].invited
      BY <1>4
    <2> QED
      BY <2>1, <2>2 DEF FairStep
  <1>7. WaitsOn(Queue, r)
    <2>1. SlotsKept(Queue, r, Player)
      BY <1>4 DEF SlotsKept
    <2> QED
      BY <1>1, <2>1, WaitsKeptAll
  <1>8. Sound(r, bgId', at') /\ handled' \in Nat
    BY <1>1, <1>2, <1>4
  <1> QED
    BY <1>5, <1>6, <1>7, <1>8, StepIs

\* A match ends, and invitations to it are withdrawn.
LEMMA EndStep ==
  ASSUME QueueInv, NEW i \in DOMAIN bgs, EndBattleground(i)
  PROVE  StepSound
  <1> DEFINE q == [Queue EXCEPT !.bgs[i].status = "wait_leave"]
             fr == RemoveFromFree(q.free, i)
             r == [q EXCEPT !.free = fr]
  <1>1. Sound(Queue, bgId, at) /\ Queue \in QueueState /\ handled \in Nat
    BY SoundTyped DEF QueueInv, Sound
  <1>2. Alive(Queue, i) /\ bgId' = bgId /\ at' = at /\ handled' = handled
    BY QueueIs DEF EndBattleground
  <1>3. "wait_leave" \in Status /\ i \in Nat \ {0}
    BY <1>1, <1>2, SoundBgs DEF Status
  <1>4. /\ Sound(q, bgId, at) /\ Alive(q, i) /\ q.bgs[i].status = "wait_leave"
        /\ DOMAIN q.bgs = DOMAIN Queue.bgs
        /\ \A j \in DOMAIN Queue.bgs \ {i} : q.bgs[j] = Queue.bgs[j]
        /\ q.bgs[i].invited = Queue.bgs[i].invited
        /\ q.groups = Queue.groups /\ q.free = Queue.free /\ q.slot = Queue.slot
    BY <1>1, <1>2, <1>3, StatusSound
  <1>5. q \in QueueState
    BY <1>4, SoundTyped DEF Sound
  <1>6. [Queue EXCEPT !.bgs[i].status = "wait_leave", !.free = RemoveFromFree(@, i)] = r
    BY <1>1, <1>4 DEF QueueState
  <1> DEFINE all(ps) == WithdrawAll(r, SetToSeq(ps))
  <1>7. \E ps \in Withdrawn(i) : Becomes(all(ps))
    BY <1>6 DEF EndBattleground
  <1>8. PICK ps \in Withdrawn(i) : Becomes(all(ps))
    BY <1>7
  <1> HIDE DEF q
  <1>9. fr \in Seq(Nat) /\ IsInjective(fr) /\ \A k \in DOMAIN fr : Alive(q, fr[k])
    <2>1. /\ q.free \in Seq(Nat) /\ IsInjective(q.free)
          /\ \A l \in DOMAIN q.free : Alive(q, q.free[l])
      BY <1>4, <1>5, Typed DEF Sound, SoundBut, FreeAlive
    <2>2. /\ fr \in Seq(Nat) /\ IsInjective(fr)
          /\ \A k \in DOMAIN fr : \E l \in DOMAIN q.free : fr[k] = q.free[l]
      BY <1>3, <2>1, RemoveFromFreeOthers
    <2> QED
      BY <2>1, <2>2
  <1>10. r.groups = q.groups /\ r.bgs = q.bgs /\ r.slot = q.slot
    BY <1>5 DEF QueueState
  <1> HIDE DEF fr
  <1>11. Reached(q, bgId, at, r)
    BY <1>4, <1>9, FreeChanged
  <1> HIDE DEF r
  <1>12. Sound(r, bgId, at) /\ r \in QueueState
    BY <1>11, SoundTyped DEF Reached, Sound
  <1>13. \A p : InvitedOf(r, p) = InvitedOf(Queue, p)
    BY <1>4, <1>10 DEF InvitedOf, GroupOf
  <1>14. ps \in SUBSET Player /\ \A p \in ps : InvitedOf(Queue, p) = {i} /\ bgId[p] = 0
    <2>1. ps \in SUBSET Player /\ \A p \in ps : InvitedBy(p) = i
      BY DEF Withdrawn
    <2>2. ASSUME NEW p \in ps
          PROVE  InvitedOf(Queue, p) = {i} /\ bgId[p] = 0
      <3>1. p \in Player /\ Live(InvitedBy(p)) /\ InvitedBy(p) = i
        BY <1>2, <2>1, QueueIs
      <3>2. InvitedOf(Queue, p) = {i}
        BY <3>1, Queueing
      <3> QED
        BY <1>1, <3>1, <3>2, QueuedOutside
    <2> QED
      BY <2>1, <2>2
  <1>15. Over(r, bgId, ps)
    <2>1. Alive(r, i) /\ r.bgs[i].status = "wait_leave"
      BY <1>4, <1>10 DEF Alive
    <2> QED
      BY <1>13, <1>14, <2>1 DEF Over
  <1> DEFINE s == all(ps)
             n == Cardinality(ps)
             f == SetToSeq(ps)
  <1>16. n \in Nat /\ f \in [1..n -> ps] /\ Len(f) = n
    <2>1. n \in Nat /\ f \in [1..n -> ps]
      BY <1>14, PlayersFinite, SetAsSequence
    <2> HIDE DEF n, f
    <2>2. Len(f) = n
      BY <2>1
    <2> QED
      BY <2>1, <2>2
  <1>17. s = WithdrawAll(r, f)
    OBVIOUS
  <1> HIDE DEF s, n, f
  <1>18. Sound(s, bgId, at) /\ Onward(r, s) /\ SlotsKept(r, s, Player \ ps)
    BY <1>12, <1>15, <1>16, <1>17, WithdrawAllSound
  <1>19. FairStep(Queue, s)
    <2> SUFFICES ASSUME NEW j \in DOMAIN Queue.bgs, NEW t \in Team, Queue.bgs[j] # NULL,
                        Queue.bgs[j].status = "in_progress",
                        s.bgs[j].invited[t] > Queue.bgs[j].invited[t]
                 PROVE  s.bgs[j].invited[t] <= s.bgs[j].invited[Other(t)] + 1
      BY DEF FairStep
    <2>1. j \in DOMAIN r.bgs /\ r.bgs[j].invited = Queue.bgs[j].invited
      BY <1>4, <1>10
    <2>2. r.bgs[j] # NULL
      BY <1>4, <1>10 DEF Alive
    <2>3. r.bgs[j].status # "wait_leave"
      BY <1>18, <2>1, <2>2 DEF Onward
    <2>4. r.bgs[j] = Queue.bgs[j]
      BY <1>4, <1>10, <2>3
    <2> QED
      BY <1>18, <2>1, <2>2, <2>4 DEF Onward
  <1>20. WaitsOn(Queue, s)
    <2>1. \A p \in ps : 0 \notin InvitedOf(Queue, p)
      BY <1>3, <1>14
    <2>2. SlotsKept(Queue, s, Player \ ps)
      BY <1>4, <1>10, <1>18 DEF SlotsKept
    <2> QED
      BY <1>1, <2>1, <2>2, WaitsKept
  <1>21. Becomes(s) /\ Sound(s, bgId', at') /\ handled' \in Nat
    BY <1>1, <1>2, <1>8, <1>18 DEF s
  <1> QED
    BY <1>19, <1>20, <1>21, StepIs

\* A player is taken out of a battleground.
LEMMA RemovePlayersStep ==
  ASSUME QueueInv, NEW i \in DOMAIN bgs, NEW p \in Player, RemovePlayers(i, p)
  PROVE  StepSound
  <1> DEFINE found == at[p] = "world"
             r == RemovePlayerAtLeave(Queue, p, i, found)
  <1>1. /\ Sound(Queue, bgId, at) /\ Queue \in QueueState /\ Whereabouts(bgId, at)
        /\ handled \in Nat
    BY SoundTyped DEF QueueInv, Sound, SoundBut
  <1>2. /\ Alive(Queue, i) /\ p \in Queue.bgs[i].players /\ Becomes(r)
        /\ handled' = handled
    BY QueueIs DEF RemovePlayers
  <1>3. bgId[p] = i /\ at[p] # "far" /\ at[p] \in Places
    BY <1>1, <1>2, SoundBgs DEF BgSound, InsideSound, Whereabouts
  <1>4. found \in BOOLEAN /\ (found \/ at[p] = "offline")
    BY <1>3 DEF Places
  <1>5. /\ Whereabouts(bgId', at') /\ \A x \in Player \ {p} : bgId'[x] = bgId[x] /\ at'[x] = at[x]
        /\ bgId'[p] = 0 \/ (bgId'[p] = i /\ at'[p] = "offline")
    <2>1. CASE at[p] = "world"
      <3>1. /\ Put(bgId', bgId, p, 0) /\ Put(at', at, p, "far") /\ 0 \in Nat
            /\ "far" \in Places
        BY <2>1 DEF RemovePlayers, Put, Places
      <3> QED
        BY ONLY <1>1, <3>1, p \in Player, Moved
    <2>2. CASE at[p] # "world"
      <3>1. bgId' = bgId /\ at' = at /\ at[p] = "offline"
        BY <1>4, <2>2 DEF RemovePlayers
      <3> QED
        BY <1>1, <1>3, <3>1
    <2> QED
      BY <2>1, <2>2
  <1> HIDE DEF found
  <1>6. /\ Sound(r, bgId', at') /\ Shrinks(Queue, r) /\ SlotsKept(Queue, r, Player \ {p})
        /\ InvitedOf(Queue, p) = {}
    BY ONLY <1>1, <1>2, <1>4, <1>5, p \in Player, RemovePlayerAtLeaveSound
  <1> HIDE DEF r
  <1>7. FairStep(Queue, r)
    BY <1>1, <1>6, SoundTyped, FairShrinks DEF Sound
  <1>8. WaitsOn(Queue, r)
    <2> DEFINE ps == {p}
    <2>1. \A x \in ps : 0 \notin InvitedOf(Queue, x)
      BY <1>6
    <2>2. SlotsKept(Queue, r, Player \ ps)
      BY <1>6
    <2> HIDE DEF ps
    <2> QED
      BY ONLY <1>1, <2>1, <2>2, WaitsKept
  <1> QED
    BY <1>1, <1>2, <1>6, <1>7, <1>8, StepIs

\* A battleground is deleted.
LEMMA DeleteStep ==
  ASSUME QueueInv, NEW i \in DOMAIN bgs, DeleteBattleground(i)
  PROVE  StepSound
  <1> DEFINE r == [Queue EXCEPT !.bgs = [Queue.bgs EXCEPT ![i] = NULL],
                                !.free = RemoveFromFree(Queue.free, i)]
  <1>1. Sound(Queue, bgId, at) /\ Queue \in QueueState /\ handled \in Nat
    BY SoundTyped DEF QueueInv, Sound
  <1>2. /\ Alive(Queue, i) /\ bgs' = [bgs EXCEPT ![i] = NULL]
        /\ freeSlots' = RemoveFromFree(freeSlots, i)
        /\ groups' = groups /\ slot' = slot /\ events' = events
        /\ bgId' = bgId /\ at' = at /\ handled' = handled
    BY QueueIs DEF DeleteBattleground
  <1>3. /\ Sound(r, bgId, at) /\ r.bgs = [Queue.bgs EXCEPT ![i] = NULL]
        /\ r.slot = Queue.slot
    BY <1>1, <1>2, DeletedSound
  <1>4. r.groups = groups /\ r.free = freeSlots' /\ r.events = events
    BY <1>1, <1>2, QueueIs DEF QueueState
  <1>5. Becomes(r)
    BY <1>2, <1>3, <1>4, QueueIs DEF Becomes
  <1> HIDE DEF r
  <1>6. FairStep(Queue, r)
    <2>1. \A j \in DOMAIN Queue.bgs : Queue.bgs[j] # NULL =>
             \A t \in Team : Queue.bgs[j].invited[t] \in Nat
      BY <1>1, Typed, BgTyped
    <2>2. \A j \in DOMAIN Queue.bgs : r.bgs[j] = NULL \/ r.bgs[j] = Queue.bgs[j]
      BY <1>3
    <2> QED
      BY <2>1, <2>2 DEF FairStep
  <1>7. WaitsOn(Queue, r)
    <2>1. SlotsKept(Queue, r, Player)
      BY <1>3 DEF SlotsKept
    <2> QED
      BY <1>1, <2>1, WaitsKeptAll
  <1>8. Sound(r, bgId', at') /\ handled' \in Nat
    BY <1>1, <1>2, <1>3
  <1> QED
    BY <1>5, <1>6, <1>7, <1>8, StepIs

----------------------------------------------------------------------------
(* The theorems.                                                           *)

\* The initial states.
LEMMA InitSound == Init => QueueInv
  <1> SUFFICES ASSUME Init PROVE QueueInv
    OBVIOUS
  <1>1. /\ groups = <<>> /\ bgs = <<>> /\ freeSlots = <<>>
        /\ slot = [p \in Player |-> NULL] /\ events = [p \in Player |-> <<>>]
        /\ bgId = [p \in Player |-> 0] /\ at = [p \in Player |-> "world"]
        /\ handled = 0
    BY DEF Init
  <1>2. Queue \in QueueState
    <2>1. /\ groups \in Seq(GroupRow) /\ bgs \in Seq(BgRow \cup {NULL})
          /\ freeSlots \in Seq(Nat)
      BY <1>1, EmptySeq
    <2>2. <<>> \in Seq(Nat)
      BY EmptySeq
    <2>3. events \in [Player -> Seq(Nat)] /\ slot \in [Player -> Nat \cup {NULL}]
      BY <1>1, <2>2
    <2> QED
      BY <2>1, <2>3, StateOf DEF Queue
  <1>3. Whereabouts(bgId, at)
    BY <1>1 DEF Whereabouts, Places
  <1>4. DOMAIN Queue.groups = {} /\ DOMAIN Queue.bgs = {} /\ DOMAIN Queue.free = {}
    BY <1>1, QueueIs
  <1>5. \A p : InvitedOf(Queue, p) = {}
    BY <1>4 DEF InvitedOf, GroupOf
  <1>6. GroupsApart(Queue) /\ Known(Queue, bgId)
    BY <1>1, <1>4, <1>5 DEF GroupsApart, Known
  <1>7. FreeAlive(Queue)
    BY <1>4 DEF FreeAlive, IsInjective
  <1>8. \A p \in Player : SlotSound(Queue, bgId, at, p) /\ EventsSound(Queue, p)
    BY <1>1, <1>5, QueueIs DEF SlotSound, EventsSound
  <1> QED
    BY <1>1, <1>2, <1>3, <1>4, <1>6, <1>7, <1>8 DEF QueueInv, Sound, SoundBut

\* Every step.
LEMMA NextSound ==
  ASSUME QueueInv, Next
  PROVE  StepSound
  <1>1. CASE Clients
    <2>1. ASSUME NEW players \in Groups, HandleBattlegroundJoin(players) PROVE StepSound
      BY <2>1, JoinStep
    <2>2. ASSUME NEW p \in Player, \/ HandleBattlegroundEnter(p)
                                   \/ HandleBattlegroundLeaveQueue(p)
                                   \/ TeleportTo(p) \/ LogoutPlayer(p) \/ LoadFromDB(p)
          PROVE  StepSound
      BY <2>2, EnterStep, LeaveQueueStep, TeleportStep, LogoutStep, LoadStep
    <2> QED
      BY <1>1, <2>1, <2>2 DEF Clients
  <1>2. CASE Server
    <2>1. ASSUME NEW p \in Player, HandleMoveWorldportAck(p) \/ RemoveEvent(p)
          PROVE  StepSound
      BY <2>1, WorldportStep, RemoveEventStep
    <2>2. ASSUME NEW i \in DOMAIN bgs, DeleteBattleground(i) PROVE StepSound
      BY <2>2, DeleteStep
    <2>3. ASSUME NEW i \in DOMAIN bgs, NEW p \in Player, RemovePlayers(i, p)
          PROVE  StepSound
      BY <2>3, RemovePlayersStep
    <2> QED
      BY <1>2, <2>1, <2>2, <2>3 DEF Server
  <1>3. ASSUME NEW i \in DOMAIN bgs, StartMatch(i) \/ EndBattleground(i)
        PROVE  StepSound
    BY <1>3, StartStep, EndStep
  <1> QED
    BY <1>1, <1>2, <1>3 DEF Next

\* The queue and its battlegrounds are sound whatever the players and the server
\* do, for any players, groups and sizes of the teams.
THEOREM QueueInvariant == Spec => []QueueInv
  <1>1. QueueInv /\ [Next]_vars => QueueInv'
    <2> SUFFICES ASSUME QueueInv, [Next]_vars PROVE QueueInv'
      OBVIOUS
    <2>1. CASE Next
      BY <2>1, NextSound DEF StepSound, QueueInv
    <2>2. CASE UNCHANGED vars
      <3>1. Queue' = Queue /\ bgId' = bgId /\ at' = at /\ handled' = handled
        BY <2>2 DEF vars, queueVars, Queue
      <3> QED
        BY <3>1 DEF QueueInv
    <2> QED
      BY <2>1, <2>2
  <1> QED
    BY <1>1, InitSound, PTL DEF Spec

\* What is counted is the same in the invariant and in the properties.
LEMMA CountedIs ==
  ASSUME QueueInv, NEW i \in DOMAIN bgs, NEW t
  PROVE  Counted(i, t) = CountedIn(Queue, bgId, at, i, t)
  <1>1. \A p \in Player : InvitedBy(p) = i <=> i \in InvitedOf(Queue, p)
    BY Queueing
  <1> QED
    BY <1>1, QueueIs DEF Counted, CountedIn

\* What the invariant says of a live battleground.
LEMMA LiveIs ==
  ASSUME QueueInv, NEW i \in DOMAIN bgs, Live(i)
  PROVE  /\ CountsExact(Queue, bgId, at, i) /\ InsideSound(Queue, bgId, at, i)
         /\ EmptyDeleted(Queue, bgId, at, i)
  <1>1. Sound(Queue, bgId, at) /\ Alive(Queue, i)
    BY QueueIs DEF QueueInv
  <1> QED
    BY <1>1, SoundBgs DEF BgSound

\* The counts are exact, since those of the invariant are.
LEMMA ExactFromInv == QueueInv => InvitedExact
  <1> SUFFICES ASSUME QueueInv, NEW i \in DOMAIN bgs, Live(i)
               PROVE  /\ \A t \in Team : bgs[i].invited[t] = Cardinality(Counted(i, t))
                      /\ (\A t \in Team : Counted(i, t) = {}) => bgs[i].deleteThis
    BY DEF InvitedExact
  <1>1. CountsExact(Queue, bgId, at, i) /\ EmptyDeleted(Queue, bgId, at, i)
    BY LiveIs
  <1>2. \A t \in Team : Counted(i, t) = CountedIn(Queue, bgId, at, i, t)
    BY CountedIs
  <1> QED
    BY <1>1, <1>2, QueueIs DEF CountsExact, EmptyDeleted

\* The limit holds, since the counts are exact and bounded.
LEMMA LimitFromInv == QueueInv => TeamLimit
  <1> SUFFICES ASSUME QueueInv, NEW i \in DOMAIN bgs, Live(i), NEW t \in Team
               PROVE  Cardinality(Counted(i, t)) <= MaxPlayersPerTeam
    BY DEF TeamLimit
  <1>1. CountsExact(Queue, bgId, at, i)
    BY LiveIs
  <1>2. Counted(i, t) = CountedIn(Queue, bgId, at, i, t)
    BY CountedIs
  <1> QED
    BY <1>1, <1>2 DEF CountsExact

\* The slots agree with groups and battlegrounds.
LEMMA SlotsFromInv == QueueInv => SlotsAgree
  <1> SUFFICES ASSUME QueueInv, NEW p \in Player
               PROVE  /\ Cardinality(GroupOf(Queue, p)) <= 1
                      /\ Queued(p) => /\ at[p] # "offline" /\ slot[p] = InvitedBy(p)
                                      /\ bgId[p] = 0
                      /\ ~Queued(p) /\ slot[p] # NULL => bgId[p] = slot[p]
                      /\ Cardinality({i \in DOMAIN bgs : Live(i) /\ p \in bgs[i].players}) <= 1
    BY DEF SlotsAgree
  <1>1. Sound(Queue, bgId, at)
    BY DEF QueueInv
  <1>2. SlotSound(Queue, bgId, at, p)
    BY <1>1 DEF Sound, SoundBut
  <1>3. Cardinality(GroupOf(Queue, p)) \in {0, 1}
    BY Queueing
  <1>4. Queued(p) => at[p] # "offline" /\ slot[p] = InvitedBy(p) /\ bgId[p] = 0
    BY <1>2, Queueing, QueueIs DEF SlotSound
  <1>5. ~Queued(p) /\ slot[p] # NULL => bgId[p] = slot[p]
    BY <1>2, Queueing, QueueIs DEF SlotSound
  <1>6. Cardinality({i \in DOMAIN bgs : Live(i) /\ p \in bgs[i].players}) <= 1
    <2> DEFINE S == {i \in DOMAIN bgs : Live(i) /\ p \in bgs[i].players}
    <2>1. ASSUME NEW i \in S PROVE i = bgId[p]
      BY LiveIs, QueueIs DEF InsideSound
    <2>2. S \subseteq {bgId[p]}
      BY <2>1
    <2> HIDE DEF S
    <2>3. IsFiniteSet({bgId[p]}) /\ Cardinality({bgId[p]}) = 1
      BY FS_Singleton
    <2>4. Cardinality(S) <= Cardinality({bgId[p]})
      BY <2>2, <2>3, FS_Subset
    <2> QED
      BY <2>3, <2>4 DEF S
  <1> QED
    BY <1>3, <1>4, <1>5, <1>6

\* Who is invited has an event that ends it.
LEMMA EndsFromInv == QueueInv => InvitationEnds
  <1> SUFFICES ASSUME QueueInv, NEW p \in Player, Live(InvitedBy(p))
               PROVE  InvitedBy(p) \in ToSet(events[p])
    BY DEF InvitationEnds
  <1>1. EventsSound(Queue, p) /\ InvitedOf(Queue, p) = {InvitedBy(p)}
    BY Queueing DEF QueueInv, Sound, SoundBut
  <1>2. Alive(Queue, InvitedBy(p))
    BY QueueIs
  <1> QED
    BY <1>1, <1>2, QueueIs DEF EventsSound

\* The counts of a battleground, kept by InviteGroupToBG, RemovePlayer and
\* RemovePlayerAtLeave, are those of the players who are invited, on the way or
\* inside; one that nobody is counted by will be deleted.
THEOREM CountsAreExact == Spec => []InvitedExact
  BY QueueInvariant, ExactFromInv, PTL

\* No team is ever larger than the battleground allows: groups of any sizes,
\* invited one after the other from what GetFreeSlotsForTeam gives or together
\* from a selection pool, who come, leave and log out in any order.
THEOREM TeamsAreLimited == Spec => []TeamLimit
  BY QueueInvariant, LimitFromInv, PTL

\* A player is in one group of the queue at most, while he is online and outside;
\* his slots say the same; he is inside one battleground at most.
THEOREM SlotsAgreeAlways == Spec => []SlotsAgree
  BY QueueInvariant, SlotsFromInv, PTL

\* As long as an invitation of a battleground that goes on stands, its event is
\* on the player's list.
THEOREM InvitationsHaveEvents == Spec => []InvitationEnds
  BY QueueInvariant, EndsFromInv, PTL

\* An invitation gives no team of a running match a lead of more than one, over
\* all that one handler invites.
THEOREM InvitationsAreFair == Spec => FairTeams
  <1>1. QueueInv /\ [Next]_vars =>
           [\A i \in DOMAIN bgs, t \in Team :
              (/\ Live(i) /\ bgs[i].status = "in_progress" /\ bgs'[i] # NULL
               /\ bgs'[i].invited[t] > bgs[i].invited[t]) =>
                  bgs'[i].invited[t] <= bgs'[i].invited[Other(t)] + 1]_vars
    <2> SUFFICES ASSUME QueueInv, Next, NEW i \in DOMAIN bgs, NEW t \in Team,
                        Live(i), bgs[i].status = "in_progress", bgs'[i] # NULL,
                        bgs'[i].invited[t] > bgs[i].invited[t]
                 PROVE  bgs'[i].invited[t] <= bgs'[i].invited[Other(t)] + 1
      OBVIOUS
    <2>1. FairStep(Queue, Queue')
      BY NextSound DEF StepSound
    <2>2. Queue.bgs = bgs /\ Queue'.bgs = bgs' /\ Queue.bgs[i] # NULL
      BY DEF Queue, Live
    <2> QED
      BY <2>1, <2>2 DEF FairStep
  <1> QED
    BY <1>1, QueueInvariant, PTL DEF Spec, FairTeams

\* Who waits in the queue keeps his place when the server withdraws others, ends
\* a match, or runs an event of an invitation that he had before.
THEOREM WaitingIsKept == Spec => StaysQueued
  <1>1. QueueInv /\ [Next]_vars =>
           [\A p \in Player : Queued(p) /\ InvitedBy(p) = 0 /\ handled' = handled =>
              slot'[p] # NULL]_vars
    <2> SUFFICES ASSUME QueueInv, Next, NEW p \in Player, Queued(p), InvitedBy(p) = 0,
                        handled' = handled
                 PROVE  slot'[p] # NULL
      OBVIOUS
    <2>1. WaitsOn(Queue, Queue') /\ Queue'.slot = slot'
      BY NextSound DEF StepSound, Queue
    <2>2. 0 \in InvitedOf(Queue, p)
      BY Queueing
    <2> QED
      BY <2>1, <2>2 DEF WaitsOn
  <1> QED
    BY <1>1, QueueInvariant, PTL DEF Spec, StaysQueued
=============================================================================
