------------------------ MODULE InstanceSavesProofs -------------------------
(***************************************************************************)
(* What is proved about InstanceSaves: a save exists as long as somebody   *)
(* is bound to it and its lists are the binds; who is bound for good is in *)
(* no other copy, and nothing but the reset of the dungeon unbinds him.    *)
(*                                                                         *)
(* The functions of InstanceSaves take a state q of the dungeon and give   *)
(* the next one, so the inductive invariant, Sound, is about such a q,     *)
(* together with the characters that are online (on).  There is one lemma  *)
(* for each function, and then one for each action.                        *)
(***************************************************************************)
EXTENDS InstanceSaves, FiniteSetTheorems, SequenceTheorems,
        WellFoundedInduction, TLAPS

----------------------------------------------------------------------------
(* The inductive invariant.                                                *)

Status == {"none", "temporary", "permanent"}
Rows == [InstanceId -> Status]
State == [at : [Player -> {0} \cup InstanceId], valid : [Player -> BOOLEAN],
          bind : [Player -> Bind \cup {NULL}], members : [Group -> Seq(Player)],
          leader : [Group -> Player \cup {NULL}],
          gbind : [Group -> Bind \cup {NULL}],
          saves : [InstanceId -> Save \cup {NULL}], maps : SUBSET InstanceId,
          expiring : SUBSET InstanceId, events : SUBSET InstanceId,
          inst : SUBSET InstanceId, char : [Player -> Rows],
          grp : [Player -> Rows], lastId : {0} \cup InstanceId]

\* The lists of the saves are the binds, but that these players and groups are
\* still in those of the save of x.
Listed(q, x, ps, gs) ==
    /\ \A p \in Player : q.bind[p] # NULL =>
          /\ q.saves[q.bind[p].id] # NULL
          /\ p \in q.saves[q.bind[p].id].players
    /\ \A g \in Group : q.gbind[g] # NULL =>
          /\ q.saves[q.gbind[g].id] # NULL
          /\ g \in q.saves[q.gbind[g].id].groups
    /\ \A i \in InstanceId : q.saves[i] # NULL =>
          /\ \A p \in q.saves[i].players : BoundTo(q.bind[p], i) \/ (i = x /\ p \in ps)
          /\ \A g \in q.saves[i].groups : BoundTo(q.gbind[g], i) \/ (i = x /\ g \in gs)

\* Each save but that of x is somebody's.
Needed(q, x) ==
    \A i \in InstanceId \ {x} : q.saves[i] # NULL =>
        q.saves[i].players # {} \/ q.saves[i].groups # {}

\* Who is bound or inside is online, inside a map that is loaded, and only there
\* he is invalid; a group has a leader.
Placed(q, on) ==
    /\ \A p \in Player :
         /\ q.bind[p] # NULL => p \in on
         /\ q.at[p] # 0 => p \in on /\ q.at[p] \in q.maps
         /\ ~q.valid[p] => q.at[p] # 0
    /\ \A g \in Group :
         q.gbind[g] # NULL \/ q.members[g] # <<>> => q.leader[g] # NULL

ForGood(q) ==
    \A p \in Player : BoundForGood(q, p) =>
        /\ q.at[p] \in {0, q.bind[p].id}
        /\ ~q.saves[q.bind[p].id].canReset

\* Only a heroic dungeon binds for good, and only a normal one has events.
Heroic(q) ==
    /\ ~heroic =>
         /\ \A p \in Player : ~BoundForGood(q, p)
         /\ \A g \in Group : q.gbind[g] # NULL => ~q.gbind[g].perm
         /\ \A p \in Player, i \in InstanceId : q.char[p][i] # "permanent"
    /\ heroic => q.events = {}

SoundBut(q, on, x, ps, gs) ==
    /\ q \in State /\ on \subseteq Player
    /\ Listed(q, x, ps, gs) /\ Needed(q, x) /\ Placed(q, on)
    /\ ForGood(q) /\ Heroic(q)
Sound(q, on) == SoundBut(q, on, 0, {}, {})

\* Those who are bound for good, but for these, stay so, and so do their rows.
KeptBut(q, r, ps) ==
    \A p \in Player \ ps : BoundForGood(q, p) =>
        /\ r.bind[p] = q.bind[p]
        /\ r.char[p][q.bind[p].id] = q.char[p][q.bind[p].id]
Kept(q, r) == KeptBut(q, r, {})

\* Characters are where they were, in the groups where they were.
Still(q, r) ==
    /\ r.at = q.at /\ r.members = q.members /\ r.leader = q.leader
    /\ r.maps = q.maps /\ r.lastId = q.lastId

DungeonInv ==
    /\ Sound(Dungeon, online)
    /\ heroic \in BOOLEAN
    /\ to \in [Player -> {"in", "out", "here"}]
    /\ position \in [Player -> {0} \cup InstanceId]
    /\ \A p \in Player : to[p] = "in" => at[p] = 0

----------------------------------------------------------------------------
(* States and binds.                                                       *)

\* What a state has.
LEMMA Fields ==
    ASSUME NEW q \in State
    PROVE  /\ q.at \in [Player -> {0} \cup InstanceId]
           /\ q.valid \in [Player -> BOOLEAN]
           /\ q.bind \in [Player -> Bind \cup {NULL}]
           /\ q.members \in [Group -> Seq(Player)]
           /\ q.leader \in [Group -> Player \cup {NULL}]
           /\ q.gbind \in [Group -> Bind \cup {NULL}]
           /\ q.saves \in [InstanceId -> Save \cup {NULL}]
           /\ q.maps \subseteq InstanceId /\ q.expiring \subseteq InstanceId
           /\ q.events \subseteq InstanceId /\ q.inst \subseteq InstanceId
           /\ q.char \in [Player -> Rows] /\ q.grp \in [Player -> Rows]
           /\ q.lastId \in {0} \cup InstanceId
    BY DEF State

\* Binds and saves are not NULL, and ids are positive.
LEMMA NotNull ==
    /\ NULL \notin Bind /\ NULL \notin Save /\ NULL \notin Player /\ NULL \notin Group
    /\ \A b \in Bind : b.id \in InstanceId /\ b.perm \in BOOLEAN
    /\ \A s \in Save : s.players \subseteq Player /\ s.groups \subseteq Group
                       /\ s.canReset \in BOOLEAN
    /\ \A i \in InstanceId, b \in BOOLEAN : [id |-> i, perm |-> b] \in Bind
    /\ InstanceId \subseteq Nat /\ 0 \notin InstanceId /\ MaxInstanceId \in InstanceId
    BY NullAssumption, MaxInstanceIdAssumption DEF Bind, Save, InstanceId

\* What is so for x only, is so.
LEMMA SoundIs ==
    ASSUME NEW q, NEW on, NEW x, NEW ps, NEW gs, SoundBut(q, on, x, ps, gs)
    PROVE  /\ q \in State /\ on \subseteq Player /\ Listed(q, x, ps, gs)
           /\ Needed(q, x) /\ Placed(q, on) /\ ForGood(q) /\ Heroic(q)
    BY DEF SoundBut

\* Nothing is taken where nothing changes.
LEMMA KeptSame == ASSUME NEW q, NEW ps PROVE KeptBut(q, q, ps)
    BY DEF KeptBut

\* Two steps that take nothing take nothing.
LEMMA KeptTwice ==
    ASSUME NEW q, NEW r, NEW s, NEW ps, KeptBut(q, r, ps), KeptBut(r, s, ps)
    PROVE  KeptBut(q, s, ps)
    BY DEF KeptBut, BoundForGood

\* Where the binds and rows of characters are the same.
LEMMA KeptUnchanged ==
    ASSUME NEW q, NEW r, r.bind = q.bind, r.char = q.char PROVE Kept(q, r)
    BY DEF Kept, KeptBut

\* What changes neither binds nor saves nor tables, and keeps the rest in order.
LEMMA SoundMoved ==
    ASSUME NEW q, NEW on, NEW x, NEW ps, NEW gs, SoundBut(q, on, x, ps, gs),
           NEW r \in State, NEW o \in SUBSET Player,
           r.bind = q.bind, r.gbind = q.gbind, r.saves = q.saves, r.char = q.char,
           Placed(r, o), heroic => r.events = {},
           \A p \in Player : BoundForGood(q, p) => r.at[p] \in {0, q.bind[p].id}
    PROVE  SoundBut(r, o, x, ps, gs)
<1>1. Listed(r, x, ps, gs) /\ Needed(r, x)
    BY DEF SoundBut, Listed, Needed
<1>2. \A p \in Player : BoundForGood(r, p) = BoundForGood(q, p)
    BY DEF BoundForGood
<1>3. ForGood(r)
    BY <1>2 DEF SoundBut, ForGood
<1>4. Heroic(r)
    BY <1>2 DEF SoundBut, Heroic
<1> QED
    BY <1>1, <1>3, <1>4 DEF SoundBut

\* The rows that are left are those of other instances.
LEMMA WithoutRows ==
    ASSUME NEW rows \in Rows, NEW is
    PROVE  /\ Without(rows, is) \in Rows
           /\ \A i \in InstanceId :
                Without(rows, is)[i] = IF i \in is THEN "none" ELSE rows[i]
    BY DEF Rows, Without, Status

\* InstanceSaveManager::DeleteInstanceFromDB: no row of these instances is left, and
\* the rows of those bound for good to others stay.
LEMMA DeleteInstanceFromDBSound ==
    ASSUME NEW q, NEW on, NEW x, NEW ps, NEW gs, SoundBut(q, on, x, ps, gs), NEW is
    PROVE  LET r == DeleteInstanceFromDB(q, is) IN
           /\ SoundBut(r, on, x, ps, gs)
           /\ Still(q, r) /\ r.bind = q.bind /\ r.gbind = q.gbind /\ r.saves = q.saves
           /\ (\A p \in Player : BoundForGood(q, p) => q.bind[p].id \notin is)
                => Kept(q, r)
<1> DEFINE r == DeleteInstanceFromDB(q, is)
<1>1. q \in State
    BY SoundIs
<1>2. r = [q EXCEPT !.inst = q.inst \ is,
                    !.char = [p \in Player |-> Without(q.char[p], is)],
                    !.grp = [p \in Player |-> Without(q.grp[p], is)]]
    BY DEF DeleteInstanceFromDB
<1> HIDE DEF r
<1>3. \A p \in Player : q.char[p] \in Rows /\ q.grp[p] \in Rows
    BY <1>1, Fields
<1> DEFINE C == [p \in Player |-> Without(q.char[p], is)]
           G == [p \in Player |-> Without(q.grp[p], is)]
<1>4. r \in State
  <2>1. C \in [Player -> Rows] /\ G \in [Player -> Rows]
      BY <1>3, WithoutRows
  <2>2. r = [q EXCEPT !.inst = q.inst \ is, !.char = C, !.grp = G]
      BY <1>2
  <2> HIDE DEF C, G
  <2> QED
      BY <1>1, <2>1, <2>2 DEF State
<1>5. /\ r.at = q.at /\ r.valid = q.valid /\ r.bind = q.bind /\ r.members = q.members
      /\ r.leader = q.leader /\ r.gbind = q.gbind /\ r.saves = q.saves
      /\ r.maps = q.maps /\ r.events = q.events /\ r.lastId = q.lastId
      /\ r.char = [p \in Player |-> Without(q.char[p], is)]
    BY <1>1, <1>2 DEF State
<1>6. Listed(r, x, ps, gs) /\ Needed(r, x) /\ Placed(r, on)
    BY <1>5 DEF SoundBut, Listed, Needed, Placed
<1>7. \A p \in Player : BoundForGood(r, p) = BoundForGood(q, p)
    BY <1>5 DEF BoundForGood
<1>8. ForGood(r)
    BY <1>5, <1>7 DEF SoundBut, ForGood
<1>9. \A p \in Player : r.char[p] = Without(q.char[p], is)
    BY <1>5
<1>10. Heroic(r)
  <2>1. \A p \in Player, i \in InstanceId :
          r.char[p][i] = IF i \in is THEN "none" ELSE q.char[p][i]
      BY <1>3, <1>9, WithoutRows
  <2> QED
      BY <1>5, <1>7, <2>1 DEF SoundBut, Heroic
<1>11. (\A p \in Player : BoundForGood(q, p) => q.bind[p].id \notin is) => Kept(q, r)
  <2> SUFFICES ASSUME NEW p \in Player, BoundForGood(q, p), q.bind[p].id \notin is
               PROVE  r.char[p][q.bind[p].id] = q.char[p][q.bind[p].id]
      BY <1>5 DEF Kept, KeptBut
  <2>1. q.bind[p].id \in InstanceId
      BY <1>1, Fields, NotNull DEF BoundForGood
  <2> QED
      BY <1>3, <1>9, <2>1, WithoutRows
<1>12. Still(q, r)
    BY <1>5 DEF Still
<1>13. SoundBut(r, on, x, ps, gs)
    BY <1>4, <1>6, <1>8, <1>10 DEF SoundBut
<1> QED
    BY <1>5, <1>11, <1>12, <1>13 DEF r

\* AddInstanceSave: a save that nobody is bound to yet.
LEMMA AddInstanceSaveSound ==
    ASSUME NEW q, NEW on, Sound(q, on), NEW i \in InstanceId,
           NEW canReset \in BOOLEAN, NEW load \in BOOLEAN
    PROVE  LET r == AddInstanceSave(q, i, canReset, load) IN
           /\ SoundBut(r, on, i, {}, {}) /\ r.saves[i] # NULL
           /\ q.saves[i] # NULL => r = q
           /\ Still(q, r) /\ r.bind = q.bind /\ r.gbind = q.gbind
           /\ r.char = q.char /\ r.valid = q.valid
<1> DEFINE r == AddInstanceSave(q, i, canReset, load)
           new == [players |-> {}, groups |-> {}, canReset |-> canReset]
           N == IF load THEN q.inst ELSE q.inst \cup {i}
           E == IF load \/ heroic THEN q.events ELSE q.events \cup {i}
           S == [q.saves EXCEPT ![i] = new]
<1>1. /\ q \in State /\ on \subseteq Player /\ Listed(q, 0, {}, {}) /\ Needed(q, 0)
      /\ Placed(q, on) /\ ForGood(q) /\ Heroic(q)
    BY SoundIs DEF Sound
<1>2. Listed(q, i, {}, {}) /\ Needed(q, i)
    BY <1>1, NotNull DEF Listed, Needed
<1>3. CASE q.saves[i] # NULL
  <2>1. r = q
      BY <1>3 DEF AddInstanceSave
  <2>2. SoundBut(q, on, i, {}, {}) /\ Still(q, q)
      BY <1>1, <1>2 DEF SoundBut, Still
  <2> HIDE DEF r
  <2>3. /\ SoundBut(r, on, i, {}, {}) /\ r.saves[i] # NULL /\ r = q
        /\ Still(q, r) /\ r.bind = q.bind /\ r.gbind = q.gbind
        /\ r.char = q.char /\ r.valid = q.valid
      BY <1>3, <2>1, <2>2
  <2> QED
      BY <2>3 DEF r
<1>4. CASE q.saves[i] = NULL
  <2>1. r = [q EXCEPT !.saves = S, !.inst = N, !.events = E]
      BY <1>1, <1>4 DEF AddInstanceSave, State
  <2>2. new \in Save /\ new.players = {} /\ new.groups = {} /\ new # NULL
      BY NotNull DEF Save
  <2>3. q.saves \in [InstanceId -> Save \cup {NULL}]
      BY <1>1, Fields
  <2> HIDE DEF new, r
  <2>4. S \in [InstanceId -> Save \cup {NULL}] /\ S[i] = new
        /\ \A j \in InstanceId \ {i} : S[j] = q.saves[j]
      BY <2>2, <2>3
  <2>5. N \in SUBSET InstanceId /\ E \in SUBSET InstanceId /\ (heroic => E = q.events)
      BY <1>1, Fields
  <2> HIDE DEF S, N, E
  <2>6. r \in State
      BY <1>1, <2>1, <2>4, <2>5 DEF State
  <2>7. /\ r.at = q.at /\ r.valid = q.valid /\ r.bind = q.bind /\ r.members = q.members
        /\ r.leader = q.leader /\ r.gbind = q.gbind /\ r.saves = S /\ r.lastId = q.lastId
        /\ r.maps = q.maps /\ r.events = E /\ r.char = q.char
      BY <1>1, <2>1 DEF State
  <2>8. /\ \A p \in Player : q.bind[p] # NULL =>
              q.bind[p].id \in InstanceId /\ q.bind[p].id # i
        /\ \A g \in Group : q.gbind[g] # NULL =>
              q.gbind[g].id \in InstanceId /\ q.gbind[g].id # i
      BY <1>1, <1>4, Fields, NotNull DEF Listed
  <2>9. Listed(r, i, {}, {})
      BY <1>2, <2>2, <2>4, <2>7, <2>8 DEF Listed
  <2>10. Needed(r, i)
      BY <1>2, <2>4, <2>7 DEF Needed
  <2>11. Placed(r, on)
      BY <1>1, <2>7 DEF Placed
  <2>12. \A p \in Player : BoundForGood(r, p) = BoundForGood(q, p)
      BY <2>7 DEF BoundForGood
  <2>13. ForGood(r)
      BY <1>1, <2>4, <2>7, <2>8, <2>12 DEF ForGood, BoundForGood
  <2>14. Heroic(r)
      BY <1>1, <2>5, <2>7, <2>12 DEF Heroic
  <2>15. SoundBut(r, on, i, {}, {})
      BY <1>1, <2>6, <2>9, <2>10, <2>11, <2>13, <2>14 DEF SoundBut
  <2>16. r.saves[i] # NULL
      BY <2>2, <2>4, <2>7
  <2> QED
      BY <1>4, <2>7, <2>15, <2>16 DEF Still, r
<1> QED
    BY <1>3, <1>4

\* A save that lists nobody is deleted.
LEMMA UnloadIfEmptySound ==
    ASSUME NEW q, NEW on, NEW i \in InstanceId, SoundBut(q, on, i, {}, {})
    PROVE  LET r == UnloadIfEmpty(q, i) IN
           /\ q.saves[i] # NULL => Sound(r, on)
           /\ Still(q, r) /\ r.bind = q.bind /\ r.gbind = q.gbind
           /\ r.char = q.char /\ r.valid = q.valid
<1> DEFINE r == UnloadIfEmpty(q, i)
           S == [q.saves EXCEPT ![i] = NULL]
<1>1. /\ q \in State /\ on \subseteq Player /\ Listed(q, i, {}, {}) /\ Needed(q, i)
      /\ Placed(q, on) /\ ForGood(q) /\ Heroic(q)
    BY SoundIs
<1>2. Listed(q, 0, {}, {})
    BY <1>1 DEF Listed
<1>3. CASE ~(q.saves[i].players = {} /\ q.saves[i].groups = {})
  <2>1. r = q
      BY <1>3 DEF UnloadIfEmpty
  <2>2. Needed(q, 0)
      BY <1>1, <1>3 DEF Needed
  <2>3. Sound(q, on)
      BY <1>1, <1>2, <2>2 DEF Sound, SoundBut
  <2> QED
      BY <2>1, <2>3 DEF Still
<1>4. CASE q.saves[i].players = {} /\ q.saves[i].groups = {}
  <2>1. r = [q EXCEPT !.saves = S]
      BY <1>1, <1>4 DEF UnloadIfEmpty, State
  <2> HIDE DEF r
  <2>2. S \in [InstanceId -> Save \cup {NULL}] /\ S[i] = NULL
        /\ \A j \in InstanceId \ {i} : S[j] = q.saves[j]
      BY <1>1, Fields
  <2> HIDE DEF S
  <2>3. r \in State
      BY <1>1, <2>1, <2>2 DEF State
  <2>4. /\ r.at = q.at /\ r.valid = q.valid /\ r.bind = q.bind /\ r.members = q.members
        /\ r.leader = q.leader /\ r.gbind = q.gbind /\ r.saves = S /\ r.lastId = q.lastId
        /\ r.maps = q.maps /\ r.events = q.events /\ r.char = q.char
      BY <1>1, <2>1 DEF State
  <2>5. /\ \A p \in Player : q.bind[p] # NULL =>
              q.bind[p].id \in InstanceId /\ q.bind[p].id # i
        /\ \A g \in Group : q.gbind[g] # NULL =>
              q.gbind[g].id \in InstanceId /\ q.gbind[g].id # i
    <3>1. /\ \A p \in Player : q.bind[p] # NULL => q.bind[p].id \in InstanceId
          /\ \A g \in Group : q.gbind[g] # NULL => q.gbind[g].id \in InstanceId
        BY <1>1, Fields, NotNull
    <3> QED
        BY <1>1, <1>4, <3>1 DEF Listed
  <2>6. Listed(r, 0, {}, {})
      BY <1>2, <2>2, <2>4, <2>5 DEF Listed
  <2>7. Needed(r, 0)
      BY <1>1, <2>2, <2>4 DEF Needed
  <2>8. Placed(r, on)
      BY <1>1, <2>4 DEF Placed
  <2>9. \A p \in Player : BoundForGood(r, p) = BoundForGood(q, p)
      BY <2>4 DEF BoundForGood
  <2>10. ForGood(r)
      BY <1>1, <2>2, <2>4, <2>5, <2>9 DEF ForGood, BoundForGood
  <2>11. Heroic(r)
      BY <1>1, <2>4, <2>9 DEF Heroic
  <2>12. Sound(r, on)
      BY <1>1, <2>3, <2>6, <2>7, <2>8, <2>10, <2>11 DEF Sound, SoundBut
  <2> QED
      BY <2>4, <2>12 DEF Still, r
<1> QED
    BY <1>3, <1>4

\* A character who is no longer bound is taken out of the list.
LEMMA RemovePlayerSound ==
    ASSUME NEW q, NEW on, NEW i \in InstanceId, NEW p \in Player,
           SoundBut(q, on, i, {p}, {}), q.saves[i] # NULL, ~BoundTo(q.bind[p], i)
    PROVE  LET r == RemovePlayer(q, p, i) IN
           /\ Sound(r, on)
           /\ Still(q, r) /\ r.bind = q.bind /\ r.gbind = q.gbind
           /\ r.char = q.char /\ r.valid = q.valid
<1> DEFINE e == [q EXCEPT !.saves[i].players = @ \ {p}]
           new == [q.saves[i] EXCEPT !.players = @ \ {p}]
           S == [q.saves EXCEPT ![i] = new]
<1>1. /\ q \in State /\ on \subseteq Player /\ Listed(q, i, {p}, {}) /\ Needed(q, i)
      /\ Placed(q, on) /\ ForGood(q) /\ Heroic(q)
    BY SoundIs
<1>2. q.saves \in [InstanceId -> Save \cup {NULL}] /\ q.saves[i] \in Save
    BY <1>1, Fields
<1>3. /\ new \in Save /\ new # NULL /\ new.players = q.saves[i].players \ {p}
      /\ new.groups = q.saves[i].groups /\ new.canReset = q.saves[i].canReset
    BY <1>2, NotNull DEF Save
<1>4. e = [q EXCEPT !.saves = S]
    BY <1>1, <1>2 DEF State
<1> HIDE DEF new, e
<1>5. S \in [InstanceId -> Save \cup {NULL}] /\ S[i] = new
      /\ \A j \in InstanceId \ {i} : S[j] = q.saves[j]
    BY <1>2, <1>3
<1> HIDE DEF S
<1>6. e \in State
    BY <1>1, <1>4, <1>5 DEF State
<1>7. /\ e.at = q.at /\ e.valid = q.valid /\ e.bind = q.bind /\ e.members = q.members
      /\ e.leader = q.leader /\ e.gbind = q.gbind /\ e.saves = S /\ e.lastId = q.lastId
      /\ e.maps = q.maps /\ e.events = q.events /\ e.char = q.char
    BY <1>1, <1>4 DEF State
<1>8. /\ \A o \in Player : q.bind[o] # NULL => q.bind[o].id \in InstanceId
      /\ \A g \in Group : q.gbind[g] # NULL => q.gbind[g].id \in InstanceId
    BY <1>1, Fields, NotNull
<1>9. Listed(e, i, {}, {})
  <2>1. ASSUME NEW o \in Player, q.bind[o] # NULL
        PROVE  /\ S[q.bind[o].id] # NULL /\ o \in S[q.bind[o].id].players
    <3>1. q.saves[q.bind[o].id] # NULL /\ o \in q.saves[q.bind[o].id].players
        BY <1>1, <2>1 DEF Listed
    <3>2. q.bind[o].id = i => o # p
        BY <2>1 DEF BoundTo
    <3> QED
        BY <1>3, <1>5, <1>8, <2>1, <3>1, <3>2
  <2>2. ASSUME NEW g \in Group, q.gbind[g] # NULL
        PROVE  /\ S[q.gbind[g].id] # NULL /\ g \in S[q.gbind[g].id].groups
    <3>1. q.saves[q.gbind[g].id] # NULL /\ g \in q.saves[q.gbind[g].id].groups
        BY <1>1, <2>2 DEF Listed
    <3> QED
        BY <1>3, <1>5, <1>8, <2>2, <3>1
  <2>3. ASSUME NEW j \in InstanceId, S[j] # NULL
        PROVE  /\ \A o \in S[j].players : BoundTo(q.bind[o], j)
               /\ \A g \in S[j].groups : BoundTo(q.gbind[g], j)
      BY <1>1, <1>2, <1>3, <1>5, <2>3 DEF Listed
  <2> QED
      BY <1>7, <2>1, <2>2, <2>3 DEF Listed
<1>10. Needed(e, i)
    BY <1>1, <1>5, <1>7 DEF Needed
<1>11. Placed(e, on)
    BY <1>1, <1>7 DEF Placed
<1>12. \A o \in Player : BoundForGood(e, o) = BoundForGood(q, o)
    BY <1>7 DEF BoundForGood
<1>13. ForGood(e)
    BY <1>1, <1>3, <1>5, <1>7, <1>8, <1>12 DEF ForGood, BoundForGood
<1>14. Heroic(e)
    BY <1>1, <1>7, <1>12 DEF Heroic
<1>15. SoundBut(e, on, i, {}, {}) /\ e.saves[i] # NULL
    BY <1>1, <1>3, <1>5, <1>6, <1>7, <1>9, <1>10, <1>11, <1>13, <1>14 DEF SoundBut
<1>16. RemovePlayer(q, p, i) = UnloadIfEmpty(e, i)
    BY DEF RemovePlayer, e
<1> QED
    BY <1>7, <1>15, <1>16, UnloadIfEmptySound DEF Still

\* So is a group.
LEMMA RemoveGroupSound ==
    ASSUME NEW q, NEW on, NEW i \in InstanceId, NEW g \in Group,
           SoundBut(q, on, i, {}, {g}), q.saves[i] # NULL, ~BoundTo(q.gbind[g], i)
    PROVE  LET r == RemoveGroup(q, g, i) IN
           /\ Sound(r, on)
           /\ Still(q, r) /\ r.bind = q.bind /\ r.gbind = q.gbind
           /\ r.char = q.char /\ r.valid = q.valid
<1> DEFINE e == [q EXCEPT !.saves[i].groups = @ \ {g}]
           new == [q.saves[i] EXCEPT !.groups = @ \ {g}]
           S == [q.saves EXCEPT ![i] = new]
<1>1. /\ q \in State /\ on \subseteq Player /\ Listed(q, i, {}, {g}) /\ Needed(q, i)
      /\ Placed(q, on) /\ ForGood(q) /\ Heroic(q)
    BY SoundIs
<1>2. q.saves \in [InstanceId -> Save \cup {NULL}] /\ q.saves[i] \in Save
    BY <1>1, Fields
<1>3. /\ new \in Save /\ new # NULL /\ new.groups = q.saves[i].groups \ {g}
      /\ new.players = q.saves[i].players /\ new.canReset = q.saves[i].canReset
    BY <1>2, NotNull DEF Save
<1>4. e = [q EXCEPT !.saves = S]
    BY <1>1, <1>2 DEF State
<1> HIDE DEF new, e
<1>5. S \in [InstanceId -> Save \cup {NULL}] /\ S[i] = new
      /\ \A j \in InstanceId \ {i} : S[j] = q.saves[j]
    BY <1>2, <1>3
<1> HIDE DEF S
<1>6. e \in State
    BY <1>1, <1>4, <1>5 DEF State
<1>7. /\ e.at = q.at /\ e.valid = q.valid /\ e.bind = q.bind /\ e.members = q.members
      /\ e.leader = q.leader /\ e.gbind = q.gbind /\ e.saves = S /\ e.lastId = q.lastId
      /\ e.maps = q.maps /\ e.events = q.events /\ e.char = q.char
    BY <1>1, <1>4 DEF State
<1>8. /\ \A o \in Player : q.bind[o] # NULL => q.bind[o].id \in InstanceId
      /\ \A h \in Group : q.gbind[h] # NULL => q.gbind[h].id \in InstanceId
    BY <1>1, Fields, NotNull
<1>9. Listed(e, i, {}, {})
  <2>1. ASSUME NEW o \in Player, q.bind[o] # NULL
        PROVE  /\ S[q.bind[o].id] # NULL /\ o \in S[q.bind[o].id].players
    <3>1. q.saves[q.bind[o].id] # NULL /\ o \in q.saves[q.bind[o].id].players
        BY <1>1, <2>1 DEF Listed
    <3> QED
        BY <1>3, <1>5, <1>8, <2>1, <3>1
  <2>2. ASSUME NEW h \in Group, q.gbind[h] # NULL
        PROVE  /\ S[q.gbind[h].id] # NULL /\ h \in S[q.gbind[h].id].groups
    <3>1. q.saves[q.gbind[h].id] # NULL /\ h \in q.saves[q.gbind[h].id].groups
        BY <1>1, <2>2 DEF Listed
    <3>2. q.gbind[h].id = i => h # g
        BY <2>2 DEF BoundTo
    <3> QED
        BY <1>3, <1>5, <1>8, <2>2, <3>1, <3>2
  <2>3. ASSUME NEW j \in InstanceId, S[j] # NULL
        PROVE  /\ \A o \in S[j].players : BoundTo(q.bind[o], j)
               /\ \A h \in S[j].groups : BoundTo(q.gbind[h], j)
      BY <1>1, <1>2, <1>3, <1>5, <2>3 DEF Listed
  <2> QED
      BY <1>7, <2>1, <2>2, <2>3 DEF Listed
<1>10. Needed(e, i)
    BY <1>1, <1>5, <1>7 DEF Needed
<1>11. Placed(e, on)
    BY <1>1, <1>7 DEF Placed
<1>12. \A o \in Player : BoundForGood(e, o) = BoundForGood(q, o)
    BY <1>7 DEF BoundForGood
<1>13. ForGood(e)
    BY <1>1, <1>3, <1>5, <1>7, <1>8, <1>12 DEF ForGood, BoundForGood
<1>14. Heroic(e)
    BY <1>1, <1>7, <1>12 DEF Heroic
<1>15. SoundBut(e, on, i, {}, {}) /\ e.saves[i] # NULL
    BY <1>1, <1>3, <1>5, <1>6, <1>7, <1>9, <1>10, <1>11, <1>13, <1>14 DEF SoundBut
<1>16. RemoveGroup(q, g, i) = UnloadIfEmpty(e, i)
    BY DEF RemoveGroup, e
<1> QED
    BY <1>7, <1>15, <1>16, UnloadIfEmptySound DEF Still

\* A character is unbound, with these rows in the end.
LEMMA UnbindSound ==
    ASSUME NEW q, NEW on, Sound(q, on), NEW p \in Player, q.bind[p] # NULL,
           NEW c \in [Player -> Rows], \A o \in Player \ {p} : c[o] = q.char[o],
           \A j \in InstanceId : c[p][j] \in {q.char[p][j], "none"}
    PROVE  LET i == q.bind[p].id
               r == RemovePlayer([q EXCEPT !.bind[p] = NULL, !.char = c], p, i) IN
           /\ Sound(r, on) /\ KeptBut(q, r, {p})
           /\ Still(q, r) /\ r.bind = [q.bind EXCEPT ![p] = NULL]
           /\ r.gbind = q.gbind /\ r.char = c /\ r.valid = q.valid
<1> DEFINE i == q.bind[p].id
           B == [q.bind EXCEPT ![p] = NULL]
           e == [q EXCEPT !.bind[p] = NULL, !.char = c]
           r == RemovePlayer(e, p, i)
<1>1. /\ q \in State /\ on \subseteq Player /\ Listed(q, 0, {}, {}) /\ Needed(q, 0)
      /\ Placed(q, on) /\ ForGood(q) /\ Heroic(q)
    BY SoundIs DEF Sound
<1>2. q.bind \in [Player -> Bind \cup {NULL}] /\ i \in InstanceId
    BY <1>1, Fields, NotNull
<1>3. e = [q EXCEPT !.bind = B, !.char = c]
    BY <1>1 DEF State
<1> HIDE DEF e
<1>4. B \in [Player -> Bind \cup {NULL}] /\ B[p] = NULL
      /\ \A o \in Player \ {p} : B[o] = q.bind[o]
    BY <1>2
<1> HIDE DEF B
<1>5. e \in State
    BY <1>1, <1>3, <1>4 DEF State
<1>6. /\ e.at = q.at /\ e.valid = q.valid /\ e.bind = B /\ e.members = q.members
      /\ e.leader = q.leader /\ e.gbind = q.gbind /\ e.saves = q.saves
      /\ e.lastId = q.lastId /\ e.maps = q.maps /\ e.events = q.events /\ e.char = c
    BY <1>1, <1>3 DEF State
<1>7. Listed(e, i, {p}, {})
  <2>1. ASSUME NEW j \in InstanceId, q.saves[j] # NULL, NEW o \in q.saves[j].players
        PROVE  BoundTo(B[o], j) \/ (j = i /\ o \in {p})
    <3>1. BoundTo(q.bind[o], j) /\ o \in Player
        BY <1>1, <2>1, Fields, NotNull DEF Listed
    <3> QED
        BY <1>4, <3>1 DEF BoundTo, i
  <2> QED
      BY <1>1, <1>4, <1>6, <2>1 DEF Listed
<1>8. Needed(e, i)
    BY <1>1, <1>6, NotNull DEF Needed
<1>9. Placed(e, on)
    BY <1>1, <1>4, <1>6 DEF Placed
<1>10. /\ \A o \in Player \ {p} : BoundForGood(e, o) = BoundForGood(q, o)
       /\ ~BoundForGood(e, p)
    BY <1>4, <1>6 DEF BoundForGood
<1>11. ForGood(e)
    BY <1>1, <1>4, <1>6, <1>10 DEF ForGood
<1>12. Heroic(e)
  <2>1. \A o \in Player, j \in InstanceId : c[o][j] = q.char[o][j] \/ c[o][j] = "none"
      OBVIOUS
  <2> QED
      BY <1>1, <1>6, <1>10, <2>1 DEF Heroic
<1>13. SoundBut(e, on, i, {p}, {})
    BY <1>1, <1>5, <1>7, <1>8, <1>9, <1>11, <1>12 DEF SoundBut
<1>14. e.saves[i] # NULL /\ ~BoundTo(e.bind[p], i)
    BY <1>1, <1>4, <1>6 DEF Listed, BoundTo, i
<1>15. /\ Sound(r, on)
       /\ Still(e, r) /\ r.bind = e.bind /\ r.gbind = e.gbind
       /\ r.char = e.char /\ r.valid = e.valid
    BY <1>2, <1>13, <1>14, RemovePlayerSound
<1>16. KeptBut(q, r, {p})
    BY <1>4, <1>6, <1>15 DEF KeptBut
<1> QED
    BY <1>6, <1>15, <1>16 DEF Still, r, e, i, B

\* Player::UnbindInstance.
LEMMA UnbindPlayerSound ==
    ASSUME NEW q, NEW on, Sound(q, on), NEW p \in Player, NEW unload \in BOOLEAN
    PROVE  LET r == UnbindPlayer(q, p, unload) IN
           /\ Sound(r, on) /\ KeptBut(q, r, {p})
           /\ Still(q, r) /\ r.bind = [q.bind EXCEPT ![p] = NULL]
           /\ r.gbind = q.gbind /\ r.valid = q.valid
           /\ unload => r.char = q.char
<1> DEFINE i == q.bind[p].id
           rows == [q.char[p] EXCEPT ![i] = IF unload THEN q.char[p][i] ELSE "none"]
           c == [q.char EXCEPT ![p] = rows]
           e == [q EXCEPT !.bind[p] = NULL,
                          !.char[p][i] = IF unload THEN @ ELSE "none"]
<1>1. q \in State /\ q.bind \in [Player -> Bind \cup {NULL}] /\ q.char \in [Player -> Rows]
    BY SoundIs, Fields DEF Sound
<1>2. CASE q.bind[p] = NULL
  <2>1. UnbindPlayer(q, p, unload) = q
      BY <1>2 DEF UnbindPlayer
  <2>2. q.bind = [q.bind EXCEPT ![p] = NULL]
      BY <1>1, <1>2
  <2> QED
      BY <2>1, <2>2, KeptSame DEF Still
<1>3. CASE q.bind[p] # NULL
  <2>1. i \in InstanceId /\ q.char[p] \in [InstanceId -> Status]
      BY <1>1, <1>3, NotNull DEF Rows
  <2>2. rows \in Rows /\ \A j \in InstanceId : rows[j] \in {q.char[p][j], "none"}
      BY <2>1 DEF Rows, Status
  <2>3. e = [q EXCEPT !.bind[p] = NULL, !.char = c]
      BY <1>1, <2>1 DEF State
  <2>4. UnbindPlayer(q, p, unload) = RemovePlayer(e, p, i)
      BY <1>3 DEF UnbindPlayer
  <2> HIDE DEF rows, e
  <2>5. /\ c \in [Player -> Rows] /\ c[p] = rows
        /\ \A o \in Player \ {p} : c[o] = q.char[o]
      BY <1>1, <2>2
  <2>6. unload => rows = q.char[p]
      BY <2>1 DEF rows
  <2>7. unload => c = q.char
      BY <1>1, <2>6
  <2> HIDE DEF c
  <2>8. LET r == RemovePlayer([q EXCEPT !.bind[p] = NULL, !.char = c], p, i) IN
        /\ Sound(r, on) /\ KeptBut(q, r, {p})
        /\ Still(q, r) /\ r.bind = [q.bind EXCEPT ![p] = NULL]
        /\ r.gbind = q.gbind /\ r.char = c /\ r.valid = q.valid
    <3>1. \A j \in InstanceId : c[p][j] \in {q.char[p][j], "none"}
        BY <2>2, <2>5
    <3> QED
        BY <1>3, <2>5, <3>1, UnbindSound
  <2> QED
      BY <2>3, <2>4, <2>7, <2>8
<1> QED
    BY <1>2, <1>3

\* The rows that a bind writes.
LEMMA WrittenRows ==
    ASSUME NEW rows \in Rows, NEW old \in Bind \cup {NULL}, NEW i \in InstanceId,
           NEW perm \in BOOLEAN
    PROVE  /\ Written(rows, old, i, perm) \in Rows
           /\ \A j \in InstanceId : Written(rows, old, i, perm)[j] = "permanent" =>
                 perm \/ rows[j] = "permanent"
<1>1. rows \in [InstanceId -> Status] /\ Permanent(perm) \in Status
      /\ (Permanent(perm) = "permanent" => perm)
    BY DEF Rows, Status, Permanent
<1>2. old # NULL => old.id \in InstanceId
    BY NotNull
<1>3. /\ Inserted(rows, i, perm) \in Rows
      /\ \A j \in InstanceId : Inserted(rows, i, perm)[j] = "permanent" =>
            perm \/ rows[j] = "permanent"
    BY <1>1 DEF Inserted, Rows
<1>4. ASSUME NEW j \in InstanceId
      PROVE  /\ Updated(rows, j, i, perm) \in Rows
             /\ \A k \in InstanceId : Updated(rows, j, i, perm)[k] = "permanent" =>
                   perm \/ rows[k] = "permanent"
    BY <1>1 DEF Updated, Rows, Status
<1> QED
    BY <1>2, <1>3, <1>4 DEF Written

\* What becomes of a save, one field after the other.
LEMMA SaveListed ==
    ASSUME NEW s \in Save, NEW P
    PROVE  [s EXCEPT !.players = P] =
             [players |-> P, groups |-> s.groups, canReset |-> s.canReset]
    BY DEF Save

\* And one that may be reset, or not.
LEMMA SaveReset ==
    ASSUME NEW s \in Save, NEW c
    PROVE  [s EXCEPT !.canReset = c] =
             [players |-> s.players, groups |-> s.groups, canReset |-> c]
    BY DEF Save

\* And one with another list of groups.
LEMMA SaveGrouped ==
    ASSUME NEW s \in Save, NEW G
    PROVE  [s EXCEPT !.groups = G] =
             [players |-> s.players, groups |-> G, canReset |-> s.canReset]
    BY DEF Save

\* And one with another list of players that may be reset, or not.
LEMMA SaveChanged ==
    ASSUME NEW s \in Save, NEW P \in SUBSET Player, NEW c \in BOOLEAN
    PROVE  [s EXCEPT !.players = P, !.canReset = c] =
             [players |-> P, groups |-> s.groups, canReset |-> c]
<1> DEFINE r == [s EXCEPT !.players = P]
<1>1. r = [players |-> P, groups |-> s.groups, canReset |-> s.canReset]
    BY SaveListed
<1> HIDE DEF r
<1>2. r \in Save /\ r.players = P /\ r.groups = s.groups
    BY <1>1 DEF Save
<1>3. [r EXCEPT !.canReset = c] =
        [players |-> r.players, groups |-> r.groups, canReset |-> c]
    BY <1>2, SaveReset
<1>4. [s EXCEPT !.players = P, !.canReset = c] = [r EXCEPT !.canReset = c]
    BY DEF r
<1> QED
    BY <1>2, <1>3, <1>4

\* A character is bound, in memory and in his rows, and to nothing else.
LEMMA BindPlayerSound ==
    ASSUME NEW q, NEW on, NEW i \in InstanceId, SoundBut(q, on, i, {}, {}),
           q.saves[i] # NULL, NEW p \in on, NEW perm \in BOOLEAN, NEW load \in BOOLEAN,
           perm => heroic /\ q.at[p] \in {0, i}
    PROVE  LET r == BindPlayer(q, p, i, perm, load) IN
           /\ Sound(r, on) /\ KeptBut(q, r, {p})
           /\ Still(q, r) /\ r.gbind = q.gbind /\ r.valid = q.valid
           /\ r.bind = [q.bind EXCEPT ![p] = [id |-> i, perm |-> perm]]
           /\ load => r.char = q.char
<1> DEFINE old == q.bind[p]
           b == [id |-> i, perm |-> perm]
           s == q.saves[i]
           k == s.canReset /\ ~perm
           new == [players |-> s.players \cup {p}, groups |-> s.groups, canReset |-> k]
           rows == IF load THEN q.char[p] ELSE Written(q.char[p], old, i, perm)
           C == [q.char EXCEPT ![p] = rows]
           B == [q.bind EXCEPT ![p] = b]
           S == [q.saves EXCEPT ![i] = new]
           e == [q EXCEPT !.char[p] = IF load THEN @ ELSE Written(@, old, i, perm),
                          !.bind[p] = [id |-> i, perm |-> perm],
                          !.saves[i].players = @ \cup {p},
                          !.saves[i].canReset = @ /\ ~perm]
           r == BindPlayer(q, p, i, perm, load)
<1> SUFFICES /\ Sound(r, on) /\ KeptBut(q, r, {p}) /\ Still(q, r)
             /\ r.gbind = q.gbind /\ r.valid = q.valid /\ r.bind = B
             /\ load => r.char = q.char
    OBVIOUS
<1>1. /\ q \in State /\ on \subseteq Player /\ Listed(q, i, {}, {}) /\ Needed(q, i)
      /\ Placed(q, on) /\ ForGood(q) /\ Heroic(q) /\ p \in Player
    BY SoundIs
<1>2. /\ q.bind \in [Player -> Bind \cup {NULL}] /\ q.char \in [Player -> Rows]
      /\ q.saves \in [InstanceId -> Save \cup {NULL}] /\ s \in Save
      /\ q.gbind \in [Group -> Bind \cup {NULL}]
    BY <1>1, Fields
<1>3. old \in Bind \cup {NULL} /\ q.char[p] \in Rows
    BY <1>1, <1>2
<1>4. /\ rows \in Rows
      /\ \A j \in InstanceId : rows[j] = "permanent" => perm \/ q.char[p][j] = "permanent"
    BY <1>3, WrittenRows
<1>5. /\ new \in Save /\ new # NULL /\ new.players = s.players \cup {p}
      /\ new.groups = s.groups
      /\ new.canReset => s.canReset /\ ~perm
  <2>1. k \in BOOLEAN /\ (k => s.canReset /\ ~perm)
      BY <1>2 DEF Save
  <2> HIDE DEF k
  <2> QED
      BY <1>1, <1>2, <2>1, NotNull DEF Save
<1>6. b \in Bind /\ b # NULL /\ b.id = i /\ b.perm = perm
    BY NotNull
<1>7. e = [q EXCEPT !.char = C, !.bind = B, !.saves = S]
  <2>1. [s EXCEPT !.players = @ \cup {p}, !.canReset = @ /\ ~perm] = new
    <3>1. s.players \cup {p} \in SUBSET Player /\ k \in BOOLEAN
        BY <1>1, <1>2, NotNull DEF Save
    <3> QED
        BY <1>2, <3>1, SaveChanged
  <2>2. [q.saves EXCEPT ![i].players = @ \cup {p}, ![i].canReset = @ /\ ~perm] = S
      BY <1>2, <2>1
  <2>3. e = [q EXCEPT !.char[p] = rows, !.bind[p] = b,
                      !.saves[i].players = @ \cup {p},
                      !.saves[i].canReset = @ /\ ~perm]
      OBVIOUS
  <2> HIDE DEF rows, new, b, e, k, old
  <2>4. e = [q EXCEPT !.char = C, !.bind = B,
                      !.saves = [q.saves EXCEPT ![i].players = @ \cup {p},
                                                ![i].canReset = @ /\ ~perm]]
      BY <1>1, <2>3 DEF State
  <2> QED
      BY <2>2, <2>4
<1> HIDE DEF rows, new, b, e
<1>8. /\ C \in [Player -> Rows] /\ C[p] = rows /\ \A o \in Player \ {p} : C[o] = q.char[o]
      /\ B \in [Player -> Bind \cup {NULL}] /\ B[p] = b
      /\ \A o \in Player \ {p} : B[o] = q.bind[o]
      /\ S \in [InstanceId -> Save \cup {NULL}] /\ S[i] = new
      /\ \A j \in InstanceId \ {i} : S[j] = q.saves[j]
    BY <1>1, <1>2, <1>4, <1>5, <1>6
<1> HIDE DEF C, B, S
<1>9. e \in State
    BY <1>1, <1>7, <1>8 DEF State
<1>10. /\ e.at = q.at /\ e.valid = q.valid /\ e.bind = B /\ e.members = q.members
       /\ e.leader = q.leader /\ e.gbind = q.gbind /\ e.saves = S /\ e.lastId = q.lastId
       /\ e.maps = q.maps /\ e.events = q.events /\ e.char = C
    BY <1>1, <1>7 DEF State
<1>11. /\ \A o \in Player : q.bind[o] # NULL => q.bind[o].id \in InstanceId
       /\ \A g \in Group : q.gbind[g] # NULL => q.gbind[g].id \in InstanceId
    BY <1>2, NotNull
<1>12. ASSUME NEW o \in Player, B[o] # NULL
       PROVE  S[B[o].id] # NULL /\ o \in S[B[o].id].players
  <2>1. CASE o = p
      BY <1>5, <1>6, <1>8, <2>1
  <2>2. CASE o # p
    <3>1. B[o] = q.bind[o]
        BY <1>8, <2>2
    <3>2. q.saves[q.bind[o].id] # NULL /\ o \in q.saves[q.bind[o].id].players
        BY <1>1, <1>12, <3>1 DEF Listed
    <3> QED
        BY <1>5, <1>8, <1>11, <1>12, <3>1, <3>2
  <2> QED
      BY <2>1, <2>2
<1>13. ASSUME NEW g \in Group, q.gbind[g] # NULL
       PROVE  S[q.gbind[g].id] # NULL /\ g \in S[q.gbind[g].id].groups
  <2>1. q.saves[q.gbind[g].id] # NULL /\ g \in q.saves[q.gbind[g].id].groups
      BY <1>1, <1>13 DEF Listed
  <2> QED
      BY <1>5, <1>8, <1>11, <1>13, <2>1
<1>14. ASSUME NEW j \in InstanceId, S[j] # NULL, NEW o \in S[j].players
       PROVE  \/ BoundTo(B[o], j)
              \/ o = p /\ old # NULL /\ old.id = j /\ j # i
  <2>1. CASE o = p /\ j = i
      BY <1>1, <1>6, <1>8, <2>1 DEF BoundTo
  <2>2. CASE ~(o = p /\ j = i)
    <3>1. q.saves[j] # NULL /\ o \in q.saves[j].players
        BY <1>5, <1>8, <1>14, <2>2
    <3>2. BoundTo(q.bind[o], j) /\ o \in Player
        BY <1>1, <1>2, <3>1, NotNull DEF Listed
    <3> QED
        BY <1>8, <2>2, <3>2 DEF BoundTo, old
  <2> QED
      BY <2>1, <2>2
<1>15. ASSUME NEW j \in InstanceId, S[j] # NULL, NEW g \in S[j].groups
       PROVE  BoundTo(q.gbind[g], j)
  <2>1. q.saves[j] # NULL /\ g \in q.saves[j].groups
      BY <1>5, <1>8, <1>15
  <2> QED
      BY <1>1, <2>1 DEF Listed
<1>16. \A j \in InstanceId : S[j] # NULL => S[j].players # {} \/ S[j].groups # {}
    BY <1>1, <1>5, <1>8 DEF Needed
<1>17. Placed(e, on)
    BY <1>1, <1>8, <1>10 DEF Placed
<1>18. /\ \A o \in Player \ {p} : BoundForGood(e, o) = BoundForGood(q, o)
       /\ BoundForGood(e, p) = perm
    BY <1>1, <1>6, <1>8, <1>10 DEF BoundForGood
<1>19. ForGood(e)
  <2>1. ASSUME NEW o \in Player, BoundForGood(e, o)
        PROVE  e.at[o] \in {0, B[o].id} /\ ~S[B[o].id].canReset
    <3>1. CASE o = p
        BY <1>5, <1>6, <1>8, <1>10, <1>18, <2>1, <3>1
    <3>2. CASE o # p
      <4>1. q.bind[o] # NULL /\ q.at[o] \in {0, q.bind[o].id}
            /\ ~q.saves[q.bind[o].id].canReset
          BY <1>1, <1>18, <2>1, <3>2 DEF ForGood, BoundForGood
      <4> QED
          BY <1>5, <1>8, <1>10, <1>11, <3>2, <4>1
    <3> QED
        BY <3>1, <3>2
  <2> QED
      BY <1>10, <2>1 DEF ForGood
<1>20. Heroic(e)
  <2>1. ~heroic => \A o \in Player, j \in InstanceId : C[o][j] # "permanent"
      BY <1>1, <1>4, <1>8 DEF Heroic
  <2> QED
      BY <1>1, <1>10, <1>18, <2>1 DEF Heroic
<1>21. CASE old = NULL \/ BoundTo(old, i)
  <2>1. r = e
      BY <1>21 DEF BindPlayer, e
  <2>2. Listed(e, 0, {}, {})
      BY <1>10, <1>12, <1>13, <1>14, <1>15, <1>21 DEF Listed, BoundTo
  <2>3. Needed(e, 0)
      BY <1>10, <1>16 DEF Needed
  <2>4. Sound(e, on)
      BY <1>1, <1>9, <1>17, <1>19, <1>20, <2>2, <2>3 DEF Sound, SoundBut
  <2>5. Still(q, e) /\ KeptBut(q, e, {p})
      BY <1>8, <1>10 DEF Still, KeptBut
  <2>6. load => C = q.char
      BY <1>2 DEF C, rows
  <2> HIDE DEF r
  <2>7. /\ Sound(r, on) /\ KeptBut(q, r, {p}) /\ Still(q, r) /\ r.gbind = q.gbind
        /\ r.valid = q.valid /\ r.bind = B
        /\ load => r.char = q.char
      BY <1>10, <2>1, <2>4, <2>5, <2>6
  <2> QED
      BY <2>7
<1>22. CASE ~(old = NULL \/ BoundTo(old, i))
  <2>1. r = RemovePlayer(e, p, old.id)
      BY <1>22 DEF BindPlayer, e
  <2>2. old.id \in InstanceId /\ old.id # i /\ old # NULL
      BY <1>1, <1>11, <1>22 DEF BoundTo
  <2>3. Listed(e, old.id, {p}, {})
      BY <1>10, <1>12, <1>13, <1>14, <1>15 DEF Listed
  <2>4. Needed(e, old.id)
      BY <1>10, <1>16 DEF Needed
  <2>5. SoundBut(e, on, old.id, {p}, {})
      BY <1>1, <1>9, <1>17, <1>19, <1>20, <2>3, <2>4 DEF SoundBut
  <2>6. e.saves[old.id] # NULL /\ ~BoundTo(e.bind[p], old.id)
      BY <1>1, <1>6, <1>8, <1>10, <2>2 DEF Listed, BoundTo
  <2> HIDE DEF r, old
  <2>7. /\ Sound(r, on) /\ Still(e, r) /\ r.bind = e.bind /\ r.gbind = e.gbind
        /\ r.char = e.char /\ r.valid = e.valid
      BY <1>1, <2>1, <2>2, <2>5, <2>6, RemovePlayerSound
  <2>8. Still(q, r) /\ KeptBut(q, r, {p})
      BY <1>8, <1>10, <2>7 DEF Still, KeptBut
  <2>9. load => C = q.char
      BY <1>2 DEF C, rows
  <2>10. /\ Sound(r, on) /\ KeptBut(q, r, {p}) /\ Still(q, r) /\ r.gbind = q.gbind
         /\ r.valid = q.valid /\ r.bind = B
         /\ load => r.char = q.char
      BY <1>10, <2>7, <2>8, <2>9
  <2> QED
      BY <2>10
<1> QED
    BY <1>21, <1>22

\* A group is bound, and to nothing else.
LEMMA BindGroupSound ==
    ASSUME NEW q, NEW on, NEW i \in InstanceId, SoundBut(q, on, i, {}, {}),
           q.saves[i] # NULL, NEW g \in Group, q.leader[g] # NULL,
           NEW perm \in BOOLEAN, NEW load \in BOOLEAN, perm => heroic
    PROVE  LET r == BindGroup(q, g, i, perm, load) IN
           /\ Sound(r, on)
           /\ Still(q, r) /\ r.bind = q.bind /\ r.valid = q.valid
           /\ r.char = q.char /\ r.gbind = [q.gbind EXCEPT ![g] = [id |-> i, perm |-> perm]]
<1> DEFINE old == q.gbind[g]
           l == q.leader[g]
           b == [id |-> i, perm |-> perm]
           s == q.saves[i]
           new == [players |-> s.players, groups |-> s.groups \cup {g},
                   canReset |-> s.canReset]
           rows == IF load THEN q.grp[l] ELSE Written(q.grp[l], old, i, perm)
           C == [q.grp EXCEPT ![l] = rows]
           B == [q.gbind EXCEPT ![g] = b]
           S == [q.saves EXCEPT ![i] = new]
           e == [q EXCEPT !.grp[l] = IF load THEN @ ELSE Written(@, old, i, perm),
                          !.gbind[g] = [id |-> i, perm |-> perm],
                          !.saves[i].groups = @ \cup {g}]
           r == BindGroup(q, g, i, perm, load)
<1> SUFFICES /\ Sound(r, on) /\ Still(q, r) /\ r.bind = q.bind
             /\ r.valid = q.valid /\ r.char = q.char /\ r.gbind = B
    OBVIOUS
<1>1. /\ q \in State /\ on \subseteq Player /\ Listed(q, i, {}, {}) /\ Needed(q, i)
      /\ Placed(q, on) /\ ForGood(q) /\ Heroic(q)
    BY SoundIs
<1>2. /\ q.bind \in [Player -> Bind \cup {NULL}] /\ q.grp \in [Player -> Rows]
      /\ q.saves \in [InstanceId -> Save \cup {NULL}] /\ s \in Save
      /\ q.gbind \in [Group -> Bind \cup {NULL}] /\ l \in Player
    BY <1>1, Fields
<1>3. old \in Bind \cup {NULL} /\ q.grp[l] \in Rows
    BY <1>2
<1>4. rows \in Rows
    BY <1>3, WrittenRows
<1>5. /\ new \in Save /\ new # NULL /\ new.players = s.players
      /\ new.groups = s.groups \cup {g} /\ new.canReset = s.canReset
    BY <1>2, NotNull DEF Save
<1>6. b \in Bind /\ b # NULL /\ b.id = i /\ b.perm = perm
    BY NotNull
<1>7. e = [q EXCEPT !.grp = C, !.gbind = B, !.saves = S]
  <2>1. [s EXCEPT !.groups = @ \cup {g}] = new
      BY <1>2, SaveGrouped
  <2>2. [q.saves EXCEPT ![i].groups = @ \cup {g}] = S
      BY <1>2, <2>1
  <2> QED
      BY <1>1, <1>2, <2>2 DEF State
<1> HIDE DEF rows, new, b, e
<1>8. /\ C \in [Player -> Rows]
      /\ B \in [Group -> Bind \cup {NULL}] /\ B[g] = b
      /\ \A h \in Group \ {g} : B[h] = q.gbind[h]
      /\ S \in [InstanceId -> Save \cup {NULL}] /\ S[i] = new
      /\ \A j \in InstanceId \ {i} : S[j] = q.saves[j]
    BY <1>1, <1>2, <1>4, <1>5, <1>6
<1> HIDE DEF C, B, S
<1>9. e \in State
    BY <1>1, <1>7, <1>8 DEF State
<1>10. /\ e.at = q.at /\ e.valid = q.valid /\ e.bind = q.bind /\ e.members = q.members
       /\ e.leader = q.leader /\ e.gbind = B /\ e.saves = S /\ e.lastId = q.lastId
       /\ e.maps = q.maps /\ e.events = q.events /\ e.char = q.char
    BY <1>1, <1>7 DEF State
<1>11. /\ \A o \in Player : q.bind[o] # NULL => q.bind[o].id \in InstanceId
       /\ \A h \in Group : q.gbind[h] # NULL => q.gbind[h].id \in InstanceId
    BY <1>2, NotNull
<1>12. ASSUME NEW h \in Group, B[h] # NULL
       PROVE  S[B[h].id] # NULL /\ h \in S[B[h].id].groups
  <2>1. CASE h = g
      BY <1>5, <1>6, <1>8, <2>1
  <2>2. CASE h # g
    <3>1. B[h] = q.gbind[h]
        BY <1>8, <2>2
    <3>2. q.saves[q.gbind[h].id] # NULL /\ h \in q.saves[q.gbind[h].id].groups
        BY <1>1, <1>12, <3>1 DEF Listed
    <3> QED
        BY <1>5, <1>8, <1>11, <1>12, <3>1, <3>2
  <2> QED
      BY <2>1, <2>2
<1>13. ASSUME NEW o \in Player, q.bind[o] # NULL
       PROVE  S[q.bind[o].id] # NULL /\ o \in S[q.bind[o].id].players
  <2>1. q.saves[q.bind[o].id] # NULL /\ o \in q.saves[q.bind[o].id].players
      BY <1>1, <1>13 DEF Listed
  <2> QED
      BY <1>5, <1>8, <1>11, <1>13, <2>1
<1>14. ASSUME NEW j \in InstanceId, S[j] # NULL, NEW h \in S[j].groups
       PROVE  \/ BoundTo(B[h], j)
              \/ h = g /\ old # NULL /\ old.id = j /\ j # i
  <2>1. CASE h = g /\ j = i
      BY <1>1, <1>6, <1>8, <2>1 DEF BoundTo
  <2>2. CASE ~(h = g /\ j = i)
    <3>1. q.saves[j] # NULL /\ h \in q.saves[j].groups
        BY <1>5, <1>8, <1>14, <2>2
    <3>2. BoundTo(q.gbind[h], j) /\ h \in Group
        BY <1>1, <1>2, <3>1, NotNull DEF Listed
    <3> QED
        BY <1>8, <2>2, <3>2 DEF BoundTo, old
  <2> QED
      BY <2>1, <2>2
<1>15. ASSUME NEW j \in InstanceId, S[j] # NULL, NEW o \in S[j].players
       PROVE  BoundTo(q.bind[o], j)
  <2>1. q.saves[j] # NULL /\ o \in q.saves[j].players
      BY <1>5, <1>8, <1>15
  <2> QED
      BY <1>1, <2>1 DEF Listed
<1>16. \A j \in InstanceId : S[j] # NULL => S[j].players # {} \/ S[j].groups # {}
    BY <1>1, <1>5, <1>8 DEF Needed
<1>17. Placed(e, on)
    BY <1>1, <1>8, <1>10 DEF Placed
<1>18. \A o \in Player : BoundForGood(e, o) = BoundForGood(q, o)
    BY <1>10 DEF BoundForGood
<1>19. ForGood(e)
  <2>1. ASSUME NEW o \in Player, BoundForGood(q, o)
        PROVE  q.at[o] \in {0, q.bind[o].id} /\ ~S[q.bind[o].id].canReset
    <3>1. q.bind[o] # NULL /\ q.at[o] \in {0, q.bind[o].id}
          /\ ~q.saves[q.bind[o].id].canReset
        BY <1>1, <2>1 DEF ForGood, BoundForGood
    <3> QED
        BY <1>5, <1>8, <1>11, <3>1
  <2> QED
      BY <1>10, <1>18, <2>1 DEF ForGood
<1>20. Heroic(e)
  <2>1. ~heroic => \A h \in Group : B[h] # NULL => ~B[h].perm
      BY <1>1, <1>6, <1>8 DEF Heroic
  <2> QED
      BY <1>1, <1>10, <1>18, <2>1 DEF Heroic
<1>21. CASE old = NULL \/ BoundTo(old, i)
  <2>1. r = e
      BY <1>21 DEF BindGroup, e
  <2>2. Listed(e, 0, {}, {})
      BY <1>10, <1>12, <1>13, <1>14, <1>15, <1>21 DEF Listed, BoundTo
  <2>3. Needed(e, 0)
      BY <1>10, <1>16 DEF Needed
  <2>4. Sound(e, on)
      BY <1>1, <1>9, <1>17, <1>19, <1>20, <2>2, <2>3 DEF Sound, SoundBut
  <2>5. Still(q, e)
      BY <1>10 DEF Still
  <2> HIDE DEF r
  <2> QED
      BY <1>10, <2>1, <2>4, <2>5
<1>22. CASE ~(old = NULL \/ BoundTo(old, i))
  <2>1. r = RemoveGroup(e, g, old.id)
      BY <1>22 DEF BindGroup, e
  <2>2. old.id \in InstanceId /\ old.id # i /\ old # NULL
      BY <1>1, <1>11, <1>22 DEF BoundTo
  <2>3. Listed(e, old.id, {}, {g})
      BY <1>10, <1>12, <1>13, <1>14, <1>15 DEF Listed
  <2>4. Needed(e, old.id)
      BY <1>10, <1>16 DEF Needed
  <2>5. SoundBut(e, on, old.id, {}, {g})
      BY <1>1, <1>9, <1>17, <1>19, <1>20, <2>3, <2>4 DEF SoundBut
  <2>6. e.saves[old.id] # NULL /\ ~BoundTo(e.gbind[g], old.id)
      BY <1>1, <1>6, <1>8, <1>10, <2>2 DEF Listed, BoundTo
  <2> HIDE DEF r, old
  <2>7. /\ Sound(r, on) /\ Still(e, r) /\ r.bind = e.bind /\ r.gbind = e.gbind
        /\ r.char = e.char /\ r.valid = e.valid
      BY <1>1, <2>1, <2>2, <2>5, <2>6, RemoveGroupSound
  <2>8. Still(q, r)
      BY <1>10, <2>7 DEF Still
  <2> QED
      BY <1>10, <2>7, <2>8
<1> QED
    BY <1>21, <1>22

\* Group::UnbindInstance.
LEMMA UnbindGroupSound ==
    ASSUME NEW q, NEW on, Sound(q, on), NEW g \in Group
    PROVE  LET r == UnbindGroup(q, g) IN
           /\ Sound(r, on) /\ Still(q, r) /\ r.bind = q.bind /\ r.valid = q.valid
           /\ r.char = q.char /\ r.gbind = [q.gbind EXCEPT ![g] = NULL]
<1> DEFINE i == q.gbind[g].id
           B == [q.gbind EXCEPT ![g] = NULL]
           e == [q EXCEPT !.gbind[g] = NULL]
           r == UnbindGroup(q, g)
<1>1. /\ q \in State /\ on \subseteq Player /\ Listed(q, 0, {}, {}) /\ Needed(q, 0)
      /\ Placed(q, on) /\ ForGood(q) /\ Heroic(q)
    BY SoundIs DEF Sound
<1>2. q.gbind \in [Group -> Bind \cup {NULL}]
    BY <1>1, Fields
<1>3. CASE q.gbind[g] = NULL
  <2>1. r = q /\ q.gbind = B
      BY <1>2, <1>3 DEF UnbindGroup
  <2> QED
      BY <2>1 DEF Still
<1>4. CASE q.gbind[g] # NULL
  <2>1. i \in InstanceId
      BY <1>2, <1>4, NotNull
  <2>2. e = [q EXCEPT !.gbind = B]
      BY <1>1 DEF State
  <2>3. r = RemoveGroup(e, g, i)
      BY <1>4 DEF UnbindGroup
  <2> HIDE DEF e, r
  <2>4. B \in [Group -> Bind \cup {NULL}] /\ B[g] = NULL
        /\ \A h \in Group \ {g} : B[h] = q.gbind[h]
      BY <1>2
  <2>5. e \in State
      BY <1>1, <2>2, <2>4 DEF State
  <2>6. /\ e.at = q.at /\ e.valid = q.valid /\ e.bind = q.bind /\ e.members = q.members
        /\ e.leader = q.leader /\ e.gbind = B /\ e.saves = q.saves
        /\ e.lastId = q.lastId /\ e.maps = q.maps /\ e.events = q.events
        /\ e.char = q.char
      BY <1>1, <2>2 DEF State
  <2> HIDE DEF B
  <2>7. Listed(e, i, {}, {g})
    <3>1. ASSUME NEW j \in InstanceId, q.saves[j] # NULL, NEW h \in q.saves[j].groups
          PROVE  BoundTo(B[h], j) \/ (j = i /\ h \in {g})
      <4>1. BoundTo(q.gbind[h], j) /\ h \in Group
          BY <1>1, <3>1, Fields, NotNull DEF Listed
      <4> QED
          BY <2>4, <4>1 DEF BoundTo, i
    <3> QED
        BY <1>1, <2>4, <2>6, <3>1 DEF Listed
  <2>8. Needed(e, i)
      BY <1>1, <2>6, NotNull DEF Needed
  <2>9. Placed(e, on)
      BY <1>1, <2>4, <2>6 DEF Placed
  <2>10. \A o \in Player : BoundForGood(e, o) = BoundForGood(q, o)
      BY <2>6 DEF BoundForGood
  <2>11. ForGood(e)
      BY <1>1, <2>6, <2>10 DEF ForGood
  <2>12. Heroic(e)
      BY <1>1, <2>4, <2>6, <2>10 DEF Heroic
  <2>13. SoundBut(e, on, i, {}, {g})
      BY <1>1, <2>5, <2>7, <2>8, <2>9, <2>11, <2>12 DEF SoundBut
  <2>14. e.saves[i] # NULL /\ ~BoundTo(e.gbind[g], i)
      BY <1>1, <1>4, <2>4, <2>6 DEF Listed, BoundTo, i
  <2>15. /\ Sound(r, on) /\ Still(e, r) /\ r.bind = e.bind /\ r.gbind = e.gbind
         /\ r.char = e.char /\ r.valid = e.valid
      BY <2>1, <2>3, <2>13, <2>14, RemoveGroupSound
  <2>16. Still(q, r)
      BY <2>6, <2>15 DEF Still
  <2> QED
      BY <2>6, <2>15, <2>16 DEF r, B
<1> QED
    BY <1>3, <1>4

----------------------------------------------------------------------------
(* Schedules, maps and resets.                                             *)

\* InstanceMap::SetResetSchedule changes the events of a normal dungeon only.
LEMMA SetResetScheduleSound ==
    ASSUME NEW q, NEW on, Sound(q, on), NEW i \in InstanceId, NEW b \in BOOLEAN
    PROVE  LET r == SetResetSchedule(q, i, b) IN
           /\ Sound(r, on) /\ Still(q, r) /\ r.bind = q.bind /\ r.valid = q.valid
           /\ r.char = q.char /\ r.gbind = q.gbind /\ r.saves = q.saves
<1> DEFINE r == SetResetSchedule(q, i, b)
           E == IF b THEN q.events \cup {i} ELSE q.events \ {i}
<1>1. q \in State /\ on \subseteq Player /\ Placed(q, on) /\ ForGood(q) /\ Heroic(q)
    BY SoundIs DEF Sound
<1>2. CASE heroic \/ HavePlayers(q, i) \/ q.saves[i] = NULL
  <2>1. r = q
      BY <1>2 DEF SetResetSchedule
  <2> QED
      BY <2>1 DEF Still
<1>3. CASE ~(heroic \/ HavePlayers(q, i) \/ q.saves[i] = NULL)
  <2>1. r = [q EXCEPT !.events = E]
      BY <1>1, <1>3 DEF SetResetSchedule, State
  <2>2. E \in SUBSET InstanceId
      BY <1>1, Fields
  <2> HIDE DEF E, r
  <2>3. r \in State
      BY <1>1, <2>1, <2>2 DEF State
  <2>4. /\ r.at = q.at /\ r.valid = q.valid /\ r.bind = q.bind /\ r.members = q.members
        /\ r.leader = q.leader /\ r.gbind = q.gbind /\ r.saves = q.saves
        /\ r.lastId = q.lastId /\ r.maps = q.maps /\ r.char = q.char
      BY <1>1, <2>1 DEF State
  <2>5. Placed(r, on)
      BY <1>1, <2>4 DEF Placed
  <2>6. \A p \in Player : BoundForGood(q, p) => r.at[p] \in {0, q.bind[p].id}
      BY <1>1, <2>4 DEF ForGood
  <2>7. Sound(r, on)
    <3> HIDE DEF r
    <3> QED
        BY <1>1, <1>3, <2>3, <2>4, <2>5, <2>6, SoundMoved DEF Sound
  <2> QED
      BY <2>4, <2>7 DEF Still, r
<1> QED
    BY <1>2, <1>3

\* InstanceMap::Reset: who is inside may be invalid, and a timer may start.
LEMMA ResetMapSound ==
    ASSUME NEW q, NEW on, Sound(q, on), NEW is, NEW method
    PROVE  LET r == ResetMap(q, is, method) IN
           /\ Sound(r, on) /\ Still(q, r) /\ r.bind = q.bind
           /\ r.char = q.char /\ r.gbind = q.gbind /\ r.saves = q.saves
<1> DEFINE r == ResetMap(q, is, method)
           loaded == is \cap q.maps
           E == q.expiring \cup {i \in loaded : ~HavePlayers(q, i)}
           V == [p \in Player |->
                   q.valid[p] /\ ~(method = "global" /\ q.at[p] \in loaded)]
<1>1. /\ q \in State /\ on \subseteq Player /\ Placed(q, on) /\ ForGood(q) /\ Heroic(q)
      /\ q.maps \subseteq InstanceId /\ q.expiring \subseteq InstanceId
      /\ q.valid \in [Player -> BOOLEAN]
    BY SoundIs, Fields DEF Sound
<1>2. r = [q EXCEPT !.expiring = E, !.valid = V]
    BY <1>1 DEF ResetMap, State
<1>3. E \in SUBSET InstanceId /\ V \in [Player -> BOOLEAN]
    BY <1>1
<1>4. \A p \in Player : ~V[p] => ~q.valid[p] \/ q.at[p] \in q.maps
    OBVIOUS
<1> HIDE DEF E, V, r
<1>5. r \in State
    BY <1>1, <1>2, <1>3 DEF State
<1>6. /\ r.at = q.at /\ r.valid = V /\ r.bind = q.bind /\ r.members = q.members
      /\ r.leader = q.leader /\ r.gbind = q.gbind /\ r.saves = q.saves
      /\ r.lastId = q.lastId /\ r.maps = q.maps /\ r.char = q.char /\ r.events = q.events
    BY <1>1, <1>2 DEF State
<1>7. Placed(r, on)
    BY <1>1, <1>4, <1>6, NotNull DEF Placed
<1>8. \A p \in Player : BoundForGood(q, p) => r.at[p] \in {0, q.bind[p].id}
    BY <1>1, <1>6 DEF ForGood
<1>9. Sound(r, on)
    BY <1>1, <1>5, <1>6, <1>7, <1>8, SoundMoved DEF Sound, Heroic
<1> QED
    BY <1>6, <1>9 DEF Still, r

\* A save that can be reset has nobody who is bound for good.
LEMMA NobodyForGood ==
    ASSUME NEW q, NEW on, Sound(q, on), NEW i, q.saves[i].canReset
    PROVE  \A p \in Player : BoundForGood(q, p) => q.bind[p].id # i
    BY SoundIs DEF Sound, ForGood

\* Player::ResetInstances: a save that may be reset is nobody's for good.
LEMMA ResetPlayerSound ==
    ASSUME NEW q, NEW on, Sound(q, on), NEW p \in Player, NEW method
    PROVE  LET r == ResetPlayer(q, p, method) IN
           Sound(r, on) /\ Kept(q, r) /\ Still(q, r) /\ r.gbind = q.gbind
<1> DEFINE i == q.bind[p].id
           e == ResetMap(q, {i}, method)
           d == DeleteInstanceFromDB(e, {i})
           r == ResetPlayer(q, p, method)
           u == RemovePlayer([d EXCEPT !.bind[p] = NULL], p, i)
<1>1. CASE q.bind[p] = NULL \/ ~q.saves[i].canReset \/ (method = "all" /\ heroic)
  <2>1. r = q
      BY <1>1 DEF ResetPlayer
  <2> QED
      BY <2>1, KeptSame DEF Still, Kept
<1>2. CASE ~(q.bind[p] = NULL \/ ~q.saves[i].canReset \/ (method = "all" /\ heroic))
  <2>1. \A o \in Player : BoundForGood(q, o) => q.bind[o].id # i
      BY <1>2, NobodyForGood
  <2>2. /\ Sound(e, on) /\ Still(q, e) /\ e.bind = q.bind
        /\ e.char = q.char /\ e.gbind = q.gbind
      BY ResetMapSound
  <2>3. r = e \/ r = u
      BY <1>2 DEF ResetPlayer
  <2> HIDE DEF r, e
  <2>4. Kept(q, e)
      BY <2>2, KeptUnchanged
  <2>5. \A o \in Player : BoundForGood(e, o) => e.bind[o].id \notin {i}
      BY <2>1, <2>2 DEF BoundForGood
  <2>6. /\ Sound(d, on) /\ Kept(e, d) /\ Still(e, d)
        /\ d.bind = e.bind /\ d.gbind = e.gbind
      BY <2>2, <2>5, DeleteInstanceFromDBSound DEF Sound
  <2> HIDE DEF d
  <2>7. d \in State /\ d.char \in [Player -> Rows]
      BY <2>6, SoundIs, Fields DEF Sound
  <2>8. [d EXCEPT !.bind[p] = NULL, !.char = d.char] = [d EXCEPT !.bind[p] = NULL]
      BY <2>7 DEF State
  <2>9. /\ Sound(u, on) /\ KeptBut(d, u, {p}) /\ Still(d, u)
        /\ u.gbind = d.gbind
    <3>1. d.bind[p] # NULL /\ d.bind[p].id = i
        BY <1>2, <2>2, <2>6
    <3>2. LET w == RemovePlayer([d EXCEPT !.bind[p] = NULL, !.char = d.char], p,
                                d.bind[p].id) IN
          /\ Sound(w, on) /\ KeptBut(d, w, {p}) /\ Still(d, w) /\ w.gbind = d.gbind
      <4>1. /\ \A o \in Player \ {p} : d.char[o] = d.char[o]
            /\ \A j \in InstanceId : d.char[p][j] \in {d.char[p][j], "none"}
          OBVIOUS
      <4> QED
          BY <2>6, <2>7, <3>1, <4>1, UnbindSound
    <3> QED
        BY <2>8, <3>1, <3>2 DEF u
  <2> HIDE DEF u
  <2>10. KeptBut(q, u, {p})
      BY <2>4, <2>6, <2>9 DEF Kept, KeptBut, BoundForGood
  <2>11. ~BoundForGood(q, p)
      BY <2>1
  <2>12. Kept(q, u)
      BY <2>10, <2>11 DEF Kept, KeptBut
  <2>13. Still(q, u) /\ u.gbind = q.gbind
      BY <2>2, <2>6, <2>9 DEF Still
  <2> QED
      BY <2>2, <2>3, <2>4, <2>9, <2>12, <2>13 DEF r
<1> QED
    BY <1>1, <1>2

\* The rows of groups say nothing of characters.
LEMMA GroupRowsSound ==
    ASSUME NEW q, NEW on, Sound(q, on), NEW is
    PROVE  LET r == [q EXCEPT !.grp = [p \in Player |-> Without(@[p], is)]] IN
           /\ Sound(r, on) /\ Kept(q, r) /\ Still(q, r) /\ r.gbind = q.gbind
<1> DEFINE G == [p \in Player |-> Without(q.grp[p], is)]
           r == [q EXCEPT !.grp = G]
<1>1. /\ q \in State /\ Placed(q, on) /\ ForGood(q) /\ Heroic(q) /\ on \subseteq Player
      /\ q.grp \in [Player -> Rows]
    BY SoundIs, Fields DEF Sound
<1>2. G \in [Player -> Rows]
    BY <1>1, WithoutRows
<1> HIDE DEF G
<1>3. r \in State
    BY <1>1, <1>2 DEF State
<1>4. /\ r.at = q.at /\ r.valid = q.valid /\ r.bind = q.bind /\ r.members = q.members
      /\ r.leader = q.leader /\ r.gbind = q.gbind /\ r.saves = q.saves
      /\ r.lastId = q.lastId /\ r.maps = q.maps /\ r.char = q.char /\ r.events = q.events
    BY <1>1 DEF State
<1> HIDE DEF r
<1>5. Placed(r, on)
    BY <1>1, <1>4 DEF Placed
<1>6. \A p \in Player : BoundForGood(q, p) => r.at[p] \in {0, q.bind[p].id}
    BY <1>1, <1>4 DEF ForGood
<1>7. Sound(r, on)
    BY <1>1, <1>3, <1>4, <1>5, <1>6, SoundMoved DEF Sound, Heroic
<1>8. Kept(q, r) /\ Still(q, r)
    BY <1>4, KeptUnchanged DEF Still
<1> QED
    BY <1>4, <1>7, <1>8 DEF r, G

\* Group::ResetInstances: with "disband" the group is unbound from any save, and only
\* the rows of groups are deleted when the save may not be reset.
LEMMA ResetGroupSound ==
    ASSUME NEW q, NEW on, Sound(q, on), NEW g \in Group, NEW method
    PROVE  LET r == ResetGroup(q, g, method) IN
           /\ Sound(r, on) /\ Kept(q, r) /\ Still(q, r)
           /\ method = "disband" => r.gbind[g] = NULL
<1> DEFINE i == q.gbind[g].id
           can == q.saves[i].canReset
           e == IF can THEN ResetMap(q, {i}, method) ELSE q
           w == [e EXCEPT !.grp = [p \in Player |-> Without(@[p], {i})]]
           d == IF can THEN DeleteInstanceFromDB(e, {i}) ELSE w
           r == ResetGroup(q, g, method)
           u == RemoveGroup([d EXCEPT !.gbind[g] = NULL], g, i)
<1>1. CASE \/ q.gbind[g] = NULL \/ (~can /\ method # "disband")
           \/ (method = "all" /\ heroic)
  <2>1. r = q
      BY <1>1 DEF ResetGroup
  <2>2. method = "disband" => q.gbind[g] = NULL
      BY <1>1
  <2> QED
      BY <2>1, <2>2, KeptSame DEF Still, Kept
<1>2. CASE ~(\/ q.gbind[g] = NULL \/ (~can /\ method # "disband")
             \/ (method = "all" /\ heroic))
  <2>1. q.gbind[g] # NULL
      BY <1>2
  <2>2. can => \A o \in Player : BoundForGood(q, o) => q.bind[o].id # i
      BY NobodyForGood
  <2>3. /\ Sound(e, on) /\ Still(q, e) /\ e.bind = q.bind
        /\ e.char = q.char /\ e.gbind = q.gbind
      BY ResetMapSound DEF Still
  <2>4. (r = e /\ method # "disband") \/ r = u
    <3>1. r = IF HavePlayers(q, i) /\ method # "disband" THEN e ELSE u
        BY <1>2 DEF ResetGroup
    <3> QED
        BY <3>1
  <2> HIDE DEF r, e, can
  <2>5. Kept(q, e)
      BY <2>3, KeptUnchanged
  <2>6. Sound(d, on) /\ Kept(e, d) /\ Still(e, d) /\ d.gbind = e.gbind
    <3>1. CASE can
      <4>1. \A o \in Player : BoundForGood(e, o) => e.bind[o].id \notin {i}
          BY <2>2, <2>3, <3>1 DEF BoundForGood
      <4> QED
          BY <2>3, <3>1, <4>1, DeleteInstanceFromDBSound DEF Sound
    <3>2. CASE ~can
        BY <2>3, <3>2, GroupRowsSound
    <3> QED
        BY <3>1, <3>2
  <2> HIDE DEF d
  <2>7. u = UnbindGroup(d, g)
    <3>1. d.gbind[g] # NULL /\ d.gbind[g].id = i
        BY <2>1, <2>3, <2>6
    <3> QED
        BY <3>1 DEF UnbindGroup
  <2> HIDE DEF u
  <2>8. /\ Sound(u, on) /\ Still(d, u) /\ u.bind = d.bind /\ u.char = d.char
        /\ u.gbind[g] = NULL
    <3>1. d.gbind \in [Group -> Bind \cup {NULL}]
        BY <2>6, SoundIs, Fields DEF Sound
    <3>2. LET v == UnbindGroup(d, g) IN
          /\ Sound(v, on) /\ Still(d, v) /\ v.bind = d.bind /\ v.valid = d.valid
          /\ v.char = d.char /\ v.gbind = [d.gbind EXCEPT ![g] = NULL]
        BY <2>6, UnbindGroupSound
    <3> QED
        BY <2>7, <3>1, <3>2
  <2>9. Kept(q, u)
      BY <2>5, <2>6, <2>8 DEF Kept, KeptBut, BoundForGood
  <2>10. Still(q, u)
      BY <2>3, <2>6, <2>8 DEF Still
  <2> QED
      BY <2>3, <2>4, <2>5, <2>8, <2>9, <2>10 DEF r
<1> QED
    BY <1>1, <1>2

\* _ResetSave of any set of instances unbinds all who are in the lists of the saves.
LEMMA ResetSaveSound ==
    ASSUME NEW q, NEW on, Sound(q, on), NEW is \in SUBSET InstanceId
    PROVE  LET r == ResetSave(q, is) IN
           Sound(r, on) /\ Still(q, r) /\ r.valid = q.valid /\ r.char = q.char
<1> DEFINE loaded == {i \in is : q.saves[i] # NULL}
           B == [p \in Player |->
                   IF \E i \in loaded : p \in q.saves[i].players THEN NULL ELSE q.bind[p]]
           G == [g \in Group |->
                   IF \E i \in loaded : g \in q.saves[i].groups THEN NULL ELSE q.gbind[g]]
           S == [i \in InstanceId |-> IF i \in is THEN NULL ELSE q.saves[i]]
           r == ResetSave(q, is)
<1>1. /\ q \in State /\ on \subseteq Player /\ Listed(q, 0, {}, {}) /\ Needed(q, 0)
      /\ Placed(q, on) /\ ForGood(q) /\ Heroic(q)
    BY SoundIs DEF Sound
<1>2. /\ q.bind \in [Player -> Bind \cup {NULL}] /\ q.gbind \in [Group -> Bind \cup {NULL}]
      /\ q.saves \in [InstanceId -> Save \cup {NULL}]
    BY <1>1, Fields
<1>3. r = [q EXCEPT !.bind = B, !.gbind = G, !.saves = S]
    BY <1>1 DEF ResetSave, State
<1> HIDE DEF r
<1>4. /\ B \in [Player -> Bind \cup {NULL}] /\ G \in [Group -> Bind \cup {NULL}]
      /\ S \in [InstanceId -> Save \cup {NULL}]
    BY <1>2
<1>5. /\ \A p \in Player : B[p] = NULL \/ B[p] = q.bind[p]
      /\ \A g \in Group : G[g] = NULL \/ G[g] = q.gbind[g]
      /\ \A i \in InstanceId : S[i] = IF i \in is THEN NULL ELSE q.saves[i]
    OBVIOUS
\* Who is still bound is bound to an instance that was not reset.
<1>6. ASSUME NEW p \in Player, B[p] # NULL
      PROVE  /\ q.bind[p].id \in InstanceId \ is /\ q.saves[q.bind[p].id] # NULL
             /\ p \in q.saves[q.bind[p].id].players
  <2>1. B[p] = q.bind[p] /\ q.bind[p] # NULL
      BY <1>5, <1>6
  <2>2. /\ q.saves[q.bind[p].id] # NULL /\ p \in q.saves[q.bind[p].id].players
        /\ q.bind[p].id \in InstanceId
      BY <1>1, <1>2, <2>1, NotNull DEF Listed
  <2> QED
      BY <1>6, <2>2
<1>7. ASSUME NEW g \in Group, G[g] # NULL
      PROVE  /\ q.gbind[g].id \in InstanceId \ is /\ q.saves[q.gbind[g].id] # NULL
             /\ g \in q.saves[q.gbind[g].id].groups
  <2>1. G[g] = q.gbind[g] /\ q.gbind[g] # NULL
      BY <1>5, <1>7
  <2>2. /\ q.saves[q.gbind[g].id] # NULL /\ g \in q.saves[q.gbind[g].id].groups
        /\ q.gbind[g].id \in InstanceId
      BY <1>1, <1>2, <2>1, NotNull DEF Listed
  <2> QED
      BY <1>7, <2>2
\* And nobody of the others was unbound.
<1>8. ASSUME NEW i \in InstanceId, S[i] # NULL
      PROVE  /\ i \notin is /\ S[i] = q.saves[i]
             /\ \A p \in q.saves[i].players : p \in Player /\ BoundTo(B[p], i)
             /\ \A g \in q.saves[i].groups : g \in Group /\ BoundTo(G[g], i)
  <2>1. i \notin is /\ S[i] = q.saves[i] /\ q.saves[i] # NULL
      BY <1>5, <1>8
  <2>2. ASSUME NEW p \in q.saves[i].players
        PROVE  p \in Player /\ BoundTo(B[p], i)
    <3>1. p \in Player /\ BoundTo(q.bind[p], i)
        BY <1>1, <1>2, <2>1, NotNull DEF Listed
    <3>2. ~\E j \in loaded : p \in q.saves[j].players
        BY <1>1, <2>1, <3>1 DEF Listed, BoundTo
    <3> QED
        BY <3>1, <3>2
  <2>3. ASSUME NEW g \in q.saves[i].groups
        PROVE  g \in Group /\ BoundTo(G[g], i)
    <3>1. g \in Group /\ BoundTo(q.gbind[g], i)
        BY <1>1, <1>2, <2>1, NotNull DEF Listed
    <3>2. ~\E j \in loaded : g \in q.saves[j].groups
        BY <1>1, <2>1, <3>1 DEF Listed, BoundTo
    <3> QED
        BY <3>1, <3>2
  <2> QED
      BY <2>1, <2>2, <2>3
<1> HIDE DEF B, G, S
<1>9. r \in State
    BY <1>1, <1>3, <1>4 DEF State
<1>10. /\ r.at = q.at /\ r.valid = q.valid /\ r.bind = B /\ r.members = q.members
       /\ r.leader = q.leader /\ r.gbind = G /\ r.saves = S /\ r.lastId = q.lastId
       /\ r.maps = q.maps /\ r.events = q.events /\ r.char = q.char
    BY <1>1, <1>3 DEF State
<1>11. Listed(r, 0, {}, {})
    BY <1>5, <1>6, <1>7, <1>8, <1>10 DEF Listed
<1>12. Needed(r, 0)
    BY <1>1, <1>5, <1>10 DEF Needed
<1>13. Placed(r, on)
    BY <1>1, <1>5, <1>10 DEF Placed
<1>14. \A p \in Player : BoundForGood(r, p) => B[p] = q.bind[p] /\ BoundForGood(q, p)
    BY <1>5, <1>10 DEF BoundForGood
<1>15. ForGood(r)
  <2>1. ASSUME NEW p \in Player, BoundForGood(r, p)
        PROVE  q.at[p] \in {0, B[p].id} /\ ~S[B[p].id].canReset
    <3>1. B[p] = q.bind[p] /\ q.at[p] \in {0, q.bind[p].id}
          /\ ~q.saves[q.bind[p].id].canReset /\ B[p] # NULL
        BY <1>1, <1>10, <1>14, <2>1 DEF ForGood, BoundForGood
    <3> QED
        BY <1>5, <1>6, <3>1
  <2> QED
      BY <1>10, <2>1 DEF ForGood
<1>16. Heroic(r)
    BY <1>1, <1>5, <1>10, <1>14 DEF Heroic
<1>17. Sound(r, on)
    BY <1>1, <1>9, <1>11, <1>12, <1>13, <1>15, <1>16 DEF Sound, SoundBut
<1> QED
    BY <1>10, <1>17 DEF Still, r

----------------------------------------------------------------------------
(* Entering and leaving.                                                   *)

\* The group of somebody has him, and a leader.
LEMMA GroupOfIn ==
    ASSUME NEW q, NEW on, q \in State, Placed(q, on), NEW p \in Player, Grouped(q, p)
    PROVE  /\ GroupOf(q, p) \in Group /\ p \in ToSet(q.members[GroupOf(q, p)])
           /\ q.members[GroupOf(q, p)] # <<>> /\ q.leader[GroupOf(q, p)] \in Player
<1> DEFINE g == GroupOf(q, p)
<1>1. g \in Group /\ p \in ToSet(q.members[g])
    BY DEF Grouped, GroupsOf, GroupOf
<1>2. q.members[g] # <<>>
    BY <1>1 DEF ToSet
<1>3. q.leader[g] \in Player
    BY <1>1, <1>2, Fields DEF Placed
<1> QED
    BY <1>1, <1>2, <1>3

\* Groups that have the same members are the same.
LEMMA GroupsSame ==
    ASSUME NEW q, NEW r, r.members = q.members, NEW p
    PROVE  /\ GroupsOf(r, p) = GroupsOf(q, p) /\ Grouped(r, p) = Grouped(q, p)
           /\ GroupOf(r, p) = GroupOf(q, p)
    BY DEF Grouped, GroupsOf, GroupOf

\* More maps that are loaded, their timers and the last id.
LEMMA LoadedSound ==
    ASSUME NEW q, NEW on, Sound(q, on), NEW r \in State, q.maps \subseteq r.maps,
           r.at = q.at, r.valid = q.valid, r.bind = q.bind, r.members = q.members,
           r.leader = q.leader, r.gbind = q.gbind, r.saves = q.saves,
           r.char = q.char, r.events = q.events
    PROVE  Sound(r, on)
<1>1. /\ q \in State /\ on \subseteq Player /\ Placed(q, on) /\ ForGood(q) /\ Heroic(q)
    BY SoundIs DEF Sound
<1>2. Placed(r, on)
    BY <1>1 DEF Placed
<1>3. \A p \in Player : BoundForGood(q, p) => r.at[p] \in {0, q.bind[p].id}
    BY <1>1 DEF ForGood
<1> QED
    BY <1>1, <1>2, <1>3, SoundMoved DEF Heroic, Sound

\* A timer starts or stops.
LEMMA ExpiringSound ==
    ASSUME NEW q, NEW on, Sound(q, on), NEW e \in SUBSET InstanceId,
           NEW r, r = [q EXCEPT !.expiring = e]
    PROVE  /\ Sound(r, on) /\ Still(q, r) /\ r.valid = q.valid /\ r.bind = q.bind
           /\ r.gbind = q.gbind /\ r.saves = q.saves /\ r.char = q.char
<1>1. q \in State
    BY SoundIs DEF Sound
<1>2. r \in State
    BY <1>1 DEF State
<1>3. /\ r.at = q.at /\ r.valid = q.valid /\ r.bind = q.bind /\ r.members = q.members
      /\ r.leader = q.leader /\ r.gbind = q.gbind /\ r.saves = q.saves
      /\ r.maps = q.maps /\ r.char = q.char /\ r.events = q.events /\ r.lastId = q.lastId
    BY <1>1 DEF State
<1> QED
    BY <1>2, <1>3, LoadedSound DEF Still

\* MapInstanced::CreateInstance.
LEMMA CreateMapSound ==
    ASSUME NEW q, NEW on, Sound(q, on), NEW i \in InstanceId,
           NEW n \in {0} \cup InstanceId
    PROVE  LET r == CreateMap([q EXCEPT !.lastId = n], i) IN
           /\ Sound(r, on)
           /\ r.at = q.at /\ r.valid = q.valid /\ r.bind = q.bind /\ r.members = q.members
           /\ r.leader = q.leader /\ r.gbind = q.gbind /\ r.saves = q.saves
           /\ r.maps = q.maps \cup {i} /\ r.char = q.char
<1> DEFINE e == [q EXCEPT !.lastId = n]
           r == CreateMap(e, i)
           m == q.maps \cup {i}
           x == IF i \in q.maps THEN q.expiring ELSE q.expiring \cup {i}
<1>1. q \in State /\ m \in SUBSET InstanceId /\ q.maps \subseteq m
      /\ x \in SUBSET InstanceId
    BY SoundIs, Fields DEF Sound
<1>2. e.maps = q.maps /\ e.expiring = q.expiring
    BY <1>1 DEF State
<1>3. r = [q EXCEPT !.maps = m, !.expiring = x, !.lastId = n]
  <2>1. CASE i \in q.maps
      BY <1>1, <1>2, <2>1 DEF CreateMap, State
  <2>2. CASE i \notin q.maps
      BY <1>1, <1>2, <2>2 DEF CreateMap, State
  <2> QED
      BY <2>1, <2>2
<1> HIDE DEF r, x, m
<1>4. r \in State
    BY <1>1, <1>3 DEF State
<1>5. /\ r.at = q.at /\ r.valid = q.valid /\ r.bind = q.bind /\ r.members = q.members
      /\ r.leader = q.leader /\ r.gbind = q.gbind /\ r.saves = q.saves
      /\ r.maps = m /\ r.char = q.char /\ r.events = q.events
    BY <1>1, <1>3 DEF State
<1>6. Sound(r, on)
    BY <1>1, <1>4, <1>5, LoadedSound
<1> QED
    BY <1>5, <1>6 DEF r, m

\* The instance for a character: he keeps a bind for good, and no other bind where
\* his group has one.
LEMMA CreateInstanceForPlayerSound ==
    ASSUME NEW q, NEW on, Sound(q, on), NEW p \in Player, NEW login,
           InstanceFor(q, p, login) \in {0} \cup InstanceId
    PROVE  LET i == InstanceFor(q, p, login)
               r == CreateInstanceForPlayer(q, p, login)
               grouped == /\ ~BoundForGood(q, p) /\ login = 0
                          /\ Grouped(q, p) /\ q.gbind[GroupOf(q, p)] # NULL
           IN /\ Sound(r, on) /\ Kept(q, r)
              /\ r.at = q.at /\ r.valid = q.valid /\ r.members = q.members
              /\ r.leader = q.leader /\ r.gbind = q.gbind
              /\ q.maps \subseteq r.maps
              /\ i = 0 => r = q
              /\ i # 0 => /\ i \in r.maps
                          /\ r.bind = IF grouped THEN [q.bind EXCEPT ![p] = NULL]
                                      ELSE q.bind
<1> DEFINE i == InstanceFor(q, p, login)
           r == CreateInstanceForPlayer(q, p, login)
           grouped == /\ ~BoundForGood(q, p) /\ login = 0
                      /\ Grouped(q, p) /\ q.gbind[GroupOf(q, p)] # NULL
           u == IF grouped THEN UnbindPlayer(q, p, FALSE) ELSE q
           n == IF i > u.lastId THEN i ELSE u.lastId
           e == [u EXCEPT !.lastId = n]
<1>1. CASE i = 0
  <2>1. r = q
      BY <1>1 DEF CreateInstanceForPlayer
  <2> QED
      BY <1>1, <2>1, KeptSame DEF Kept
<1>2. CASE i # 0
  <2>1. /\ Sound(u, on) /\ KeptBut(q, u, {p}) /\ Still(q, u)
        /\ u.gbind = q.gbind /\ u.valid = q.valid
        /\ u.bind = IF grouped THEN [q.bind EXCEPT ![p] = NULL] ELSE q.bind
    <3>1. CASE grouped
        BY <3>1, UnbindPlayerSound
    <3>2. CASE ~grouped
      <4>1. u = q
          BY <3>2
      <4> QED
          BY <3>2, <4>1, KeptSame DEF Still
    <3> QED
        BY <3>1, <3>2
  <2>2. grouped \/ u = q
      OBVIOUS
  <2>3. i \in InstanceId
      BY <1>2
  <2>4. r = CreateMap(e, i)
      BY <1>2 DEF CreateInstanceForPlayer
  <2> HIDE DEF u, i
  <2>5. n \in {0} \cup InstanceId
      BY <2>1, <2>3, SoundIs, Fields DEF Sound
  <2> HIDE DEF n, r
  <2>6. /\ Sound(r, on)
        /\ r.at = u.at /\ r.valid = u.valid /\ r.bind = u.bind /\ r.members = u.members
        /\ r.leader = u.leader /\ r.gbind = u.gbind /\ r.saves = u.saves
        /\ r.maps = u.maps \cup {i} /\ r.char = u.char
      BY <2>1, <2>3, <2>4, <2>5, CreateMapSound
  <2>7. Kept(q, u)
    <3>1. CASE grouped
        BY <2>1, <3>1 DEF Kept, KeptBut
    <3>2. CASE u = q
        BY <3>2, KeptSame DEF Kept
    <3> QED
        BY <2>2, <3>1, <3>2
  <2>8. Kept(q, r)
      BY <2>6, <2>7 DEF Kept, KeptBut
  <2> QED
      BY <1>2, <2>1, <2>6, <2>8 DEF Still, r, i
<1> QED
    BY <1>1, <1>2

\* A character is put into a map, or out of it.
LEMMA PutSound ==
    ASSUME NEW q, NEW on, Sound(q, on), NEW p \in on, NEW i \in {0} \cup q.maps,
           BoundForGood(q, p) => i \in {0, q.bind[p].id},
           q.valid[p] \/ i # 0
    PROVE  LET r == [q EXCEPT !.at[p] = i] IN
           /\ Sound(r, on) /\ r.at = [q.at EXCEPT ![p] = i]
           /\ r.valid = q.valid /\ r.bind = q.bind /\ r.members = q.members
           /\ r.leader = q.leader /\ r.gbind = q.gbind /\ r.saves = q.saves
           /\ r.maps = q.maps /\ r.char = q.char /\ r.lastId = q.lastId
<1> DEFINE A == [q.at EXCEPT ![p] = i]
           r == [q EXCEPT !.at[p] = i]
<1>1. /\ q \in State /\ on \subseteq Player /\ Placed(q, on) /\ ForGood(q) /\ Heroic(q)
      /\ q.at \in [Player -> {0} \cup InstanceId] /\ q.maps \subseteq InstanceId
    BY SoundIs, Fields DEF Sound
<1>2. r = [q EXCEPT !.at = A]
    BY <1>1 DEF State
<1>3. /\ A \in [Player -> {0} \cup InstanceId] /\ A[p] = i
      /\ \A o \in Player \ {p} : A[o] = q.at[o]
    BY <1>1
<1> HIDE DEF r, A
<1>4. r \in State
    BY <1>1, <1>2, <1>3 DEF State
<1>5. /\ r.at = A /\ r.valid = q.valid /\ r.bind = q.bind /\ r.members = q.members
      /\ r.leader = q.leader /\ r.gbind = q.gbind /\ r.saves = q.saves
      /\ r.maps = q.maps /\ r.char = q.char /\ r.events = q.events /\ r.lastId = q.lastId
    BY <1>1, <1>2 DEF State
<1>6. Placed(r, on)
    BY <1>1, <1>3, <1>5 DEF Placed
<1>7. \A o \in Player : BoundForGood(q, o) => r.at[o] \in {0, q.bind[o].id}
    BY <1>1, <1>3, <1>5 DEF ForGood
<1>8. Sound(r, on)
    BY <1>1, <1>4, <1>5, <1>6, <1>7, SoundMoved DEF Heroic, Sound
<1> QED
    BY <1>5, <1>8 DEF r, A

\* Who may join depends on binds and members only.
LEMMA MayJoinSame ==
    ASSUME NEW q, NEW r, r.bind = q.bind, r.gbind = q.gbind, r.members = q.members,
           NEW p, NEW i
    PROVE  MayJoin(r, p, i) = MayJoin(q, p, i)
    BY GroupsSame DEF MayJoin, BoundForGood

\* Where a character arrives he may join, or there is a save.
LEMMA MayJoinOrSaved ==
    ASSUME NEW q, NEW on, Sound(q, on), NEW p \in Player,
           InstanceFor(q, p, 0) \in InstanceId
    PROVE  LET i == InstanceFor(q, p, 0)
               r == CreateInstanceForPlayer(q, p, 0)
           IN MayJoin(r, p, i) \/ r.saves[i] # NULL
<1> DEFINE i == InstanceFor(q, p, 0)
           r == CreateInstanceForPlayer(q, p, 0)
           grouped == /\ ~BoundForGood(q, p)
                      /\ Grouped(q, p) /\ q.gbind[GroupOf(q, p)] # NULL
<1>1. i # 0 /\ i \in {0} \cup InstanceId
    BY NotNull
<1>2. /\ Sound(r, on) /\ r.members = q.members /\ r.gbind = q.gbind
      /\ r.bind = IF grouped THEN [q.bind EXCEPT ![p] = NULL] ELSE q.bind
    BY <1>1, CreateInstanceForPlayerSound
<1>3. Grouped(r, p) = Grouped(q, p) /\ GroupOf(r, p) = GroupOf(q, p)
    BY <1>2, GroupsSame
<1>4. q.bind \in [Player -> Bind \cup {NULL}]
    BY SoundIs, Fields DEF Sound
<1> HIDE DEF r
<1>5. CASE grouped
  <2>1. r.bind[p] = NULL /\ i = q.gbind[GroupOf(q, p)].id
      BY <1>2, <1>4, <1>5 DEF InstanceFor
  <2> QED
      BY <1>2, <1>3, <1>5, <2>1 DEF MayJoin, BoundForGood, BoundTo, r
<1>6. CASE ~grouped /\ q.bind[p] # NULL
  <2>1. r.bind[p] = q.bind[p] /\ i = q.bind[p].id
      BY <1>2, <1>6 DEF InstanceFor, BoundForGood
  <2>2. r.saves[i] # NULL
      BY <1>2, <1>6, <2>1, SoundIs DEF Listed, Sound
  <2> QED
      BY <2>2 DEF r
<1>7. CASE ~grouped /\ q.bind[p] = NULL
  <2>1. r.bind[p] = NULL /\ ~BoundForGood(q, p)
      BY <1>2, <1>7 DEF BoundForGood
  <2> QED
      BY <1>2, <1>3, <1>7, <2>1 DEF MayJoin, BoundForGood, r
<1> QED
    BY <1>5, <1>6, <1>7

\* A save to which somebody is bound is needed.
LEMMA StillNeeded ==
    ASSUME NEW q, NEW on, NEW i \in InstanceId, SoundBut(q, on, i, {}, {}),
           \/ \E p \in Player : BoundTo(q.bind[p], i)
           \/ \E g \in Group : BoundTo(q.gbind[g], i)
    PROVE  Sound(q, on)
<1>1. /\ q \in State /\ on \subseteq Player /\ Listed(q, i, {}, {}) /\ Needed(q, i)
      /\ Placed(q, on) /\ ForGood(q) /\ Heroic(q)
    BY SoundIs
<1>2. Listed(q, 0, {}, {})
    BY <1>1 DEF Listed
<1>3. q.saves[i].players # {} \/ q.saves[i].groups # {}
    BY <1>1 DEF Listed, BoundTo
<1>4. Needed(q, 0)
    BY <1>1, <1>3 DEF Needed
<1> QED
    BY <1>1, <1>2, <1>4 DEF Sound, SoundBut

\* Who may join is bound in the end, or his group is.
LEMMA JoinSound ==
    ASSUME NEW q, NEW on, NEW i \in InstanceId, SoundBut(q, on, i, {}, {}),
           q.saves[i] # NULL, NEW p \in on, q.at[p] = i, MayJoin(q, p, i)
    PROVE  LET r == Join(q, p, i) IN
           Sound(r, on) /\ Kept(q, r) /\ Still(q, r) /\ r.valid = q.valid
<1> DEFINE g == GroupOf(q, p)
           u == IF BoundForGood(q, p) THEN q
                ELSE IF ~Grouped(q, p)
                     THEN (IF q.bind[p] = NULL THEN BindPlayer(q, p, i, FALSE, FALSE)
                           ELSE q)
                ELSE IF q.gbind[g] = NULL THEN BindGroup(q, g, i, FALSE, FALSE)
                ELSE IF q.gbind[g].perm THEN BindPlayer(q, p, i, TRUE, FALSE)
                ELSE q
           s == SetResetSchedule(u, i, FALSE)
           x == s.expiring \ {i}
           r == Join(q, p, i)
<1>1. /\ q \in State /\ on \subseteq Player /\ Placed(q, on) /\ Heroic(q) /\ p \in Player
    BY SoundIs
<1>2. Grouped(q, p) => g \in Group /\ q.leader[g] # NULL
    BY <1>1, GroupOfIn, NotNull
<1>3. ASSUME NEW b \in BOOLEAN, NEW load \in BOOLEAN, b => heroic
      PROVE  LET w == BindPlayer(q, p, i, b, load) IN
             Sound(w, on) /\ KeptBut(q, w, {p}) /\ Still(q, w) /\ w.valid = q.valid
  <2>1. b => heroic /\ q.at[p] \in {0, i}
      BY <1>3
  <2>2. LET w == BindPlayer(q, p, i, b, load) IN
        /\ Sound(w, on) /\ KeptBut(q, w, {p})
        /\ Still(q, w) /\ w.gbind = q.gbind /\ w.valid = q.valid
        /\ w.bind = [q.bind EXCEPT ![p] = [id |-> i, perm |-> b]]
        /\ load => w.char = q.char
      BY <2>1, BindPlayerSound
  <2> QED
      BY <2>2
<1>4. ASSUME NEW b \in BOOLEAN, NEW load \in BOOLEAN, b => heroic, Grouped(q, p)
      PROVE  LET w == BindGroup(q, g, i, b, load) IN
             /\ Sound(w, on) /\ Still(q, w) /\ w.bind = q.bind /\ w.valid = q.valid
             /\ w.char = q.char
  <2>1. g \in Group /\ q.leader[g] # NULL
      BY <1>2, <1>4
  <2> HIDE DEF g
  <2>2. LET w == BindGroup(q, g, i, b, load) IN
        /\ Sound(w, on)
        /\ Still(q, w) /\ w.bind = q.bind /\ w.valid = q.valid
        /\ w.char = q.char /\ w.gbind = [q.gbind EXCEPT ![g] = [id |-> i, perm |-> b]]
      BY <1>4, <2>1, BindGroupSound
  <2> QED
      BY <2>2
\* He is bound, or his group is.
<1>5. Sound(u, on) /\ Kept(q, u) /\ Still(q, u) /\ u.valid = q.valid
  <2>1. CASE BoundForGood(q, p) \/ (~Grouped(q, p) /\ q.bind[p] # NULL)
    <3>1. u = q
        BY <2>1
    <3>2. BoundTo(q.bind[p], i)
        BY <2>1 DEF MayJoin
    <3>3. Sound(q, on)
        BY <1>1, <3>2, StillNeeded
    <3> QED
        BY <3>1, <3>3, KeptSame DEF Kept, Still
  <2>2. CASE ~BoundForGood(q, p) /\ ~Grouped(q, p) /\ q.bind[p] = NULL
    <3>1. u = BindPlayer(q, p, i, FALSE, FALSE)
        BY <2>2
    <3>2. Sound(u, on) /\ KeptBut(q, u, {p}) /\ Still(q, u) /\ u.valid = q.valid
        BY <1>3, <3>1
    <3> QED
        BY <2>2, <3>2 DEF Kept, KeptBut
  <2>3. CASE ~BoundForGood(q, p) /\ Grouped(q, p) /\ q.gbind[g] = NULL
    <3>1. u = BindGroup(q, g, i, FALSE, FALSE)
        BY <2>3
    <3>2. /\ Sound(u, on) /\ Still(q, u) /\ u.bind = q.bind /\ u.valid = q.valid
          /\ u.char = q.char
        BY <1>4, <2>3, <3>1
    <3> QED
        BY <3>2, KeptUnchanged
  <2>4. CASE /\ ~BoundForGood(q, p) /\ Grouped(q, p) /\ q.gbind[g] # NULL
             /\ q.gbind[g].perm
    <3>1. u = BindPlayer(q, p, i, TRUE, FALSE)
        BY <2>4
    <3>2. heroic
        BY <1>1, <1>2, <2>4 DEF Heroic
    <3>3. Sound(u, on) /\ KeptBut(q, u, {p}) /\ Still(q, u) /\ u.valid = q.valid
        BY <1>3, <3>1, <3>2
    <3> QED
        BY <2>4, <3>3 DEF Kept, KeptBut
  <2>5. CASE /\ ~BoundForGood(q, p) /\ Grouped(q, p) /\ q.gbind[g] # NULL
             /\ ~q.gbind[g].perm
    <3>1. u = q
        BY <2>5
    <3>2. BoundTo(q.gbind[g], i)
        BY <2>5 DEF MayJoin
    <3>3. Sound(q, on)
        BY <1>2, <2>5, <3>2, StillNeeded
    <3> QED
        BY <3>1, <3>3, KeptSame DEF Kept, Still
  <2> QED
      BY <2>1, <2>2, <2>3, <2>4, <2>5
<1>6. r = [s EXCEPT !.expiring = x]
  <2>1. r = [s EXCEPT !.expiring = @ \ {i}]
      BY DEF Join
  <2> HIDE DEF s, r
  <2> QED
      BY <2>1
<1> HIDE DEF u
<1>7. /\ Sound(s, on) /\ Still(u, s) /\ s.bind = u.bind /\ s.valid = u.valid
      /\ s.char = u.char
    BY <1>5, SetResetScheduleSound
<1> HIDE DEF s
<1>8. x \in SUBSET InstanceId
    BY <1>7, SoundIs, Fields DEF Sound
<1> HIDE DEF x, r
<1>9. /\ Sound(r, on) /\ Still(s, r) /\ r.valid = s.valid /\ r.bind = s.bind
      /\ r.char = s.char
    BY <1>6, <1>7, <1>8, ExpiringSound
<1>10. Kept(q, r)
    BY <1>5, <1>7, <1>9 DEF Kept, KeptBut
<1> QED
    BY <1>5, <1>7, <1>9, <1>10 DEF Still, r

\* InstanceMap::AddPlayerToMap: a save that it creates is somebody's when he joins.
LEMMA AddPlayerToMapSound ==
    ASSUME NEW q, NEW on, Sound(q, on), NEW i \in InstanceId, NEW p \in on,
           q.at[p] = i, MayJoin(q, p, i) \/ q.saves[i] # NULL
    PROVE  LET r == AddPlayerToMap(q, p, i) IN
           Sound(r, on) /\ Kept(q, r) /\ Still(q, r) /\ r.valid = q.valid
<1> DEFINE e == AddInstanceSave(q, i, TRUE, FALSE)
           r == AddPlayerToMap(q, p, i)
<1>1. /\ SoundBut(e, on, i, {}, {}) /\ e.saves[i] # NULL
      /\ q.saves[i] # NULL => e = q
      /\ Still(q, e) /\ e.bind = q.bind /\ e.gbind = q.gbind
      /\ e.char = q.char /\ e.valid = q.valid
  <2>1. ASSUME NEW can \in BOOLEAN, NEW load \in BOOLEAN
        PROVE  LET d == AddInstanceSave(q, i, can, load) IN
               /\ SoundBut(d, on, i, {}, {}) /\ d.saves[i] # NULL
               /\ q.saves[i] # NULL => d = q
               /\ Still(q, d) /\ d.bind = q.bind /\ d.gbind = q.gbind
               /\ d.char = q.char /\ d.valid = q.valid
      BY AddInstanceSaveSound
  <2> QED
      BY <2>1
<1>2. r = IF MayJoin(e, p, i) THEN Join(e, p, i) ELSE e
    BY DEF AddPlayerToMap
<1> HIDE DEF e, r
<1>3. MayJoin(e, p, i) = MayJoin(q, p, i)
    BY <1>1, MayJoinSame DEF Still
<1>4. CASE MayJoin(e, p, i)
  <2>1. e.at[p] = i
      BY <1>1 DEF Still
  <2>2. Sound(r, on) /\ Kept(e, r) /\ Still(e, r) /\ r.valid = e.valid
      BY <1>1, <1>2, <1>4, <2>1, JoinSound
  <2>3. Kept(q, r)
      BY <1>1, <2>2 DEF Kept, KeptBut, BoundForGood
  <2> QED
      BY <1>1, <2>2, <2>3 DEF Still, r
<1>5. CASE ~MayJoin(e, p, i)
  <2>1. r = q
      BY <1>1, <1>2, <1>3, <1>5
  <2> QED
      BY <2>1, KeptSame DEF Still, Kept, r
<1> QED
    BY <1>4, <1>5

\* Somebody becomes valid, or invalid where he is inside.
LEMMA ValidSound ==
    ASSUME NEW q, NEW on, Sound(q, on), NEW v \in [Player -> BOOLEAN],
           \A p \in Player : ~v[p] => q.at[p] # 0,
           NEW r, r = [q EXCEPT !.valid = v]
    PROVE  /\ Sound(r, on) /\ Still(q, r) /\ r.valid = v /\ r.bind = q.bind
           /\ r.gbind = q.gbind /\ r.saves = q.saves /\ r.char = q.char
<1>1. /\ q \in State /\ on \subseteq Player /\ Placed(q, on) /\ ForGood(q) /\ Heroic(q)
    BY SoundIs DEF Sound
<1>2. r \in State
    BY <1>1 DEF State
<1>3. /\ r.at = q.at /\ r.valid = v /\ r.bind = q.bind /\ r.members = q.members
      /\ r.leader = q.leader /\ r.gbind = q.gbind /\ r.saves = q.saves
      /\ r.maps = q.maps /\ r.char = q.char /\ r.events = q.events /\ r.lastId = q.lastId
    BY <1>1 DEF State
<1>4. Placed(r, on)
    BY <1>1, <1>3 DEF Placed
<1>5. \A p \in Player : BoundForGood(q, p) => r.at[p] \in {0, q.bind[p].id}
    BY <1>1, <1>3 DEF ForGood
<1>6. Sound(r, on)
    BY <1>1, <1>2, <1>3, <1>4, <1>5, SoundMoved DEF Heroic, Sound
<1> QED
    BY <1>3, <1>6 DEF Still

\* Player::CheckInstanceValidity.
LEMMA CheckedSound ==
    ASSUME NEW q, NEW on, Sound(q, on), NEW p \in Player, q.at[p] # 0
    PROVE  LET r == Checked(q, p) IN
           /\ Sound(r, on) /\ Still(q, r) /\ r.bind = q.bind
           /\ r.gbind = q.gbind /\ r.saves = q.saves /\ r.char = q.char
<1> DEFINE b == q.valid[p] /\ CheckInstanceValidity(q, p)
           v == [q.valid EXCEPT ![p] = b]
           r == Checked(q, p)
<1>1. q \in State /\ Placed(q, on) /\ q.valid \in [Player -> BOOLEAN]
    BY SoundIs, Fields DEF Sound
<1>2. r = [q EXCEPT !.valid = v]
    BY <1>1 DEF Checked, State
<1>3. b \in BOOLEAN
    OBVIOUS
<1> HIDE DEF b, r
<1>4. v \in [Player -> BOOLEAN] /\ \A o \in Player : ~v[o] => q.at[o] # 0
    BY <1>1, <1>3 DEF Placed
<1> HIDE DEF v
<1>5. /\ Sound(r, on) /\ Still(q, r) /\ r.valid = v /\ r.bind = q.bind
      /\ r.gbind = q.gbind /\ r.saves = q.saves /\ r.char = q.char
    BY <1>2, <1>4, ValidSound
<1> QED
    BY <1>5 DEF r

\* Who is made valid.
LEMMA MadeValidSound ==
    ASSUME NEW q, NEW on, Sound(q, on), NEW p \in Player
    PROVE  LET r == [q EXCEPT !.valid[p] = TRUE] IN
           /\ Sound(r, on) /\ Still(q, r) /\ r.bind = q.bind /\ r.valid[p]
           /\ r.gbind = q.gbind /\ r.saves = q.saves /\ r.char = q.char
<1> DEFINE v == [q.valid EXCEPT ![p] = TRUE]
           r == [q EXCEPT !.valid[p] = TRUE]
<1>1. q \in State /\ Placed(q, on) /\ q.valid \in [Player -> BOOLEAN]
    BY SoundIs, Fields DEF Sound
<1>2. r = [q EXCEPT !.valid = v]
    BY <1>1 DEF State
<1>3. v[p] /\ v \in [Player -> BOOLEAN] /\ \A o \in Player : ~v[o] => q.at[o] # 0
    BY <1>1 DEF Placed
<1> HIDE DEF v, r
<1>4. /\ Sound(r, on) /\ Still(q, r) /\ r.valid = v /\ r.bind = q.bind
      /\ r.gbind = q.gbind /\ r.saves = q.saves /\ r.char = q.char
    BY <1>2, <1>3, ValidSound
<1> QED
    BY <1>3, <1>4 DEF r

\* Who goes home is valid again.
LEMMA DepartSound ==
    ASSUME NEW q, NEW on, Sound(q, on), NEW p \in on
    PROVE  LET r == Depart(q, p) IN
           /\ Sound(r, on) /\ r.at = [q.at EXCEPT ![p] = 0] /\ r.valid[p]
           /\ r.bind = q.bind /\ r.members = q.members /\ r.leader = q.leader
           /\ r.gbind = q.gbind /\ r.char = q.char
<1> DEFINE e == [q EXCEPT !.valid[p] = TRUE]
           r == Depart(q, p)
<1>1. q \in State /\ p \in Player
    BY SoundIs DEF Sound
<1>2. r = [e EXCEPT !.at[p] = 0]
    BY <1>1 DEF Depart, State
<1>3. /\ Sound(e, on) /\ Still(q, e) /\ e.bind = q.bind /\ e.valid[p]
      /\ e.gbind = q.gbind /\ e.saves = q.saves /\ e.char = q.char
    BY <1>1, MadeValidSound
<1> HIDE DEF e
<1>4. LET u == [e EXCEPT !.at[p] = 0] IN
      /\ Sound(u, on) /\ u.at = [e.at EXCEPT ![p] = 0]
      /\ u.valid = e.valid /\ u.bind = e.bind /\ u.members = e.members
      /\ u.leader = e.leader /\ u.gbind = e.gbind /\ u.saves = e.saves
      /\ u.maps = e.maps /\ u.char = e.char /\ u.lastId = e.lastId
  <2>1. 0 \in {0} \cup e.maps /\ 0 \in {0, e.bind[p].id}
      OBVIOUS
  <2> QED
      BY <1>3, <2>1, PutSound
<1> QED
    BY <1>2, <1>3, <1>4 DEF Still

\* The unload timer, when the last player leaves.
LEMMA StartUnloadTimerSound ==
    ASSUME NEW q, NEW on, Sound(q, on), NEW i \in InstanceId
    PROVE  LET r == StartUnloadTimer(q, i) IN
           /\ Sound(r, on) /\ Still(q, r) /\ r.valid = q.valid /\ r.bind = q.bind
           /\ r.gbind = q.gbind /\ r.saves = q.saves /\ r.char = q.char
<1> DEFINE x == q.expiring \cup {i}
           r == StartUnloadTimer(q, i)
<1>1. q \in State /\ x \in SUBSET InstanceId
    BY SoundIs, Fields DEF Sound
<1>2. r = q \/ r = [q EXCEPT !.expiring = x]
    BY <1>1 DEF StartUnloadTimer, State
<1> HIDE DEF r, x
<1>3. /\ Sound(r, on) /\ Still(q, r) /\ r.valid = q.valid /\ r.bind = q.bind
      /\ r.gbind = q.gbind /\ r.saves = q.saves /\ r.char = q.char
  <2>1. CASE r = q
      BY <2>1 DEF Still
  <2>2. CASE r = [q EXCEPT !.expiring = x]
      BY <1>1, <2>2, ExpiringSound
  <2> QED
      BY <1>2, <2>1, <2>2
<1> QED
    BY <1>3 DEF r

\* InstanceMap::RemovePlayerFromMap.
LEMMA RemovePlayerFromMapSound ==
    ASSUME NEW q, NEW on, Sound(q, on), NEW i \in InstanceId
    PROVE  LET r == RemovePlayerFromMap(q, i) IN
           /\ Sound(r, on) /\ Still(q, r) /\ r.valid = q.valid /\ r.bind = q.bind
           /\ r.gbind = q.gbind /\ r.char = q.char
<1> DEFINE u == StartUnloadTimer(q, i)
           r == RemovePlayerFromMap(q, i)
<1>1. /\ Sound(u, on) /\ Still(q, u) /\ u.valid = q.valid /\ u.bind = q.bind
      /\ u.gbind = q.gbind /\ u.char = q.char
    BY StartUnloadTimerSound
<1>2. r = SetResetSchedule(u, i, TRUE)
    BY DEF RemovePlayerFromMap
<1> HIDE DEF u, r
<1>3. /\ Sound(r, on) /\ Still(u, r) /\ r.bind = u.bind /\ r.valid = u.valid
      /\ r.char = u.char /\ r.gbind = u.gbind
    BY <1>1, <1>2, SetResetScheduleSound
<1> QED
    BY <1>1, <1>3 DEF Still, r

\* He enters, stays where he was, or goes home.
LEMMA ArriveSound ==
    ASSUME NEW q, NEW on, Sound(q, on), NEW p \in on, q.at[p] = 0,
           InstanceFor(q, p, 0) \in InstanceId
    PROVE  LET r == Arrive(q, p) IN
           /\ Sound(r, on) /\ Kept(q, r) /\ r.members = q.members /\ r.leader = q.leader
           /\ \A o \in Player \ {p} : r.at[o] = q.at[o]
<1> DEFINE i == InstanceFor(q, p, 0)
           c == CreateInstanceForPlayer(q, p, 0)
           e == [c EXCEPT !.at[p] = i]
           in == AddPlayerToMap(e, p, i)
           home == [in EXCEPT !.at[p] = 0]
           r == Arrive(q, p)
<1>1. p \in Player /\ i # 0 /\ i \in {0} \cup InstanceId /\ i \in InstanceId
      /\ q.valid[p] /\ q.at \in [Player -> {0} \cup InstanceId]
    BY NotNull, SoundIs, Fields DEF Sound, Placed
<1>2. /\ Sound(c, on) /\ Kept(q, c) /\ c.at = q.at /\ c.valid = q.valid
      /\ c.members = q.members /\ c.leader = q.leader /\ c.gbind = q.gbind
      /\ i \in c.maps
  <2>1. ASSUME NEW login, InstanceFor(q, p, login) \in InstanceId
        PROVE  LET d == CreateInstanceForPlayer(q, p, login) IN
               /\ Sound(d, on) /\ Kept(q, d) /\ d.at = q.at /\ d.valid = q.valid
               /\ d.members = q.members /\ d.leader = q.leader /\ d.gbind = q.gbind
               /\ InstanceFor(q, p, login) \in d.maps
    <3>1. /\ InstanceFor(q, p, login) \in {0} \cup InstanceId
          /\ InstanceFor(q, p, login) # 0
        BY <2>1, NotNull
    <3>2. LET h == InstanceFor(q, p, login)
              d == CreateInstanceForPlayer(q, p, login)
              grouped == /\ ~BoundForGood(q, p) /\ login = 0
                         /\ Grouped(q, p) /\ q.gbind[GroupOf(q, p)] # NULL
          IN /\ Sound(d, on) /\ Kept(q, d)
             /\ d.at = q.at /\ d.valid = q.valid /\ d.members = q.members
             /\ d.leader = q.leader /\ d.gbind = q.gbind
             /\ q.maps \subseteq d.maps
             /\ h = 0 => d = q
             /\ h # 0 => /\ h \in d.maps
                         /\ d.bind = IF grouped THEN [q.bind EXCEPT ![p] = NULL]
                                     ELSE q.bind
        BY <1>1, <3>1, CreateInstanceForPlayerSound
    <3> QED
        BY <3>1, <3>2
  <2> QED
      BY <1>1, <2>1
<1>3. MayJoin(c, p, i) \/ c.saves[i] # NULL
    BY <1>1, MayJoinOrSaved
<1>4. r = IF CannotEnter(c, p, i) THEN c
          ELSE IF MayJoin(AddInstanceSave(c, i, TRUE, FALSE), p, i) THEN Checked(in, p)
          ELSE home
    BY DEF Arrive
<1> HIDE DEF i, c, r
<1>5. CASE CannotEnter(c, p, i)
    BY <1>2, <1>4, <1>5 DEF r
<1>6. CASE ~CannotEnter(c, p, i)
  <2>1. BoundForGood(c, p) => i \in {0, c.bind[p].id}
      BY <1>6 DEF CannotEnter, BoundTo, BoundForGood
  <2>2. /\ Sound(e, on) /\ e.at = [c.at EXCEPT ![p] = i]
        /\ e.valid = c.valid /\ e.bind = c.bind /\ e.members = c.members
        /\ e.leader = c.leader /\ e.gbind = c.gbind /\ e.saves = c.saves
        /\ e.maps = c.maps /\ e.char = c.char
      BY <1>1, <1>2, <2>1, PutSound
  <2> HIDE DEF e
  <2>3. MayJoin(e, p, i) \/ e.saves[i] # NULL
      BY <1>3, <2>2, MayJoinSame
  <2>4. e.at[p] = i /\ \A o \in Player \ {p} : e.at[o] = q.at[o]
      BY <1>1, <1>2, <2>2
  <2>5. i \in InstanceId /\ Sound(e, on) /\ e.at[p] = i
      BY <1>1, <2>2, <2>4
  <2>6. Sound(in, on) /\ Kept(e, in) /\ Still(e, in) /\ in.valid = e.valid
      BY <2>3, <2>5, AddPlayerToMapSound
  <2> HIDE DEF in
  <2>7. Kept(q, in)
      BY <1>2, <2>2, <2>6 DEF Kept, KeptBut, BoundForGood
  <2>8. in.members = q.members /\ in.leader = q.leader /\ in.valid[p] /\ in.at[p] = i
        /\ \A o \in Player \ {p} : in.at[o] = q.at[o]
      BY <1>1, <1>2, <2>2, <2>4, <2>6 DEF Still
  <2>9. CASE r = Checked(in, p)
    <3>1. /\ Sound(r, on) /\ Still(in, r) /\ r.bind = in.bind /\ r.char = in.char
        BY <1>1, <2>6, <2>8, <2>9, CheckedSound
    <3>2. Kept(q, r)
        BY <2>7, <3>1 DEF Kept, KeptBut
    <3> QED
        BY <2>8, <3>1, <3>2 DEF Still, r
  <2>10. CASE r = home
    <3>1. in.at \in [Player -> {0} \cup InstanceId]
        BY <2>6, SoundIs, Fields DEF Sound
    <3>2. 0 \in {0} \cup in.maps /\ 0 \in {0, in.bind[p].id}
        OBVIOUS
    <3>3. /\ Sound(home, on) /\ home.at = [in.at EXCEPT ![p] = 0]
          /\ home.valid = in.valid /\ home.bind = in.bind /\ home.members = in.members
          /\ home.leader = in.leader /\ home.gbind = in.gbind /\ home.saves = in.saves
          /\ home.maps = in.maps /\ home.char = in.char
        BY <2>6, <2>8, <3>2, PutSound
    <3> HIDE DEF home
    <3>4. \A o \in Player \ {p} : home.at[o] = q.at[o]
        BY <2>8, <3>1, <3>3
    <3>5. Kept(q, home)
        BY <2>7, <3>3 DEF Kept, KeptBut
    <3> QED
        BY <2>8, <2>10, <3>3, <3>4, <3>5 DEF r
  <2> QED
      BY <1>4, <1>6, <2>9, <2>10
<1> QED
    BY <1>5, <1>6

----------------------------------------------------------------------------
(* Groups.                                                                 *)

\* Whatever i is.
LEMMA SoundFor ==
    ASSUME NEW q, NEW on, Sound(q, on), NEW i \in InstanceId
    PROVE  SoundBut(q, on, i, {}, {})
<1>1. /\ q \in State /\ on \subseteq Player /\ Listed(q, 0, {}, {}) /\ Needed(q, 0)
      /\ Placed(q, on) /\ ForGood(q) /\ Heroic(q)
    BY SoundIs DEF Sound
<1>2. Listed(q, i, {}, {}) /\ Needed(q, i)
    BY <1>1, NotNull DEF Listed, Needed
<1> QED
    BY <1>1, <1>2 DEF SoundBut

\* The tables only: nothing becomes permanent that may not be.
LEMMA TablesSound ==
    ASSUME NEW q, NEW on, Sound(q, on), NEW r \in State,
           r.at = q.at, r.valid = q.valid, r.bind = q.bind, r.members = q.members,
           r.leader = q.leader, r.gbind = q.gbind, r.saves = q.saves, r.maps = q.maps,
           r.events = q.events,
           \A p \in Player, i \in InstanceId :
              r.char[p][i] = "permanent" => heroic \/ q.char[p][i] = "permanent"
    PROVE  Sound(r, on)
<1>1. /\ q \in State /\ on \subseteq Player /\ Listed(q, 0, {}, {}) /\ Needed(q, 0)
      /\ Placed(q, on) /\ ForGood(q) /\ Heroic(q)
    BY SoundIs DEF Sound
<1>2. Listed(r, 0, {}, {}) /\ Needed(r, 0) /\ Placed(r, on)
    BY <1>1 DEF Listed, Needed, Placed
<1>3. \A p \in Player : BoundForGood(r, p) = BoundForGood(q, p)
    BY DEF BoundForGood
<1>4. ForGood(r)
    BY <1>1, <1>3 DEF ForGood
<1>5. Heroic(r)
    BY <1>1, <1>3 DEF Heroic
<1> QED
    BY <1>1, <1>2, <1>4, <1>5 DEF Sound, SoundBut

\* Group::_homebindIfInstance: only who is inside gets invalid.
LEMMA HomebindIfInstanceSound ==
    ASSUME NEW q, NEW on, Sound(q, on), NEW ps
    PROVE  LET r == HomebindIfInstance(q, ps) IN
           /\ Sound(r, on) /\ Still(q, r) /\ r.bind = q.bind
           /\ r.gbind = q.gbind /\ r.saves = q.saves /\ r.char = q.char
<1> DEFINE sent == {p \in ps \cap online : q.at[p] # 0 /\
                      ~(q.saves[q.at[p]] # NULL /\ BoundForGood(q, p))}
           v == [p \in Player |-> q.valid[p] /\ p \notin sent]
           r == HomebindIfInstance(q, ps)
<1>1. q \in State /\ Placed(q, on) /\ q.valid \in [Player -> BOOLEAN]
    BY SoundIs, Fields DEF Sound
<1>2. r = [q EXCEPT !.valid = v]
    BY <1>1 DEF HomebindIfInstance, State
<1>3. v \in [Player -> BOOLEAN] /\ \A p \in Player : ~v[p] => q.at[p] # 0
    BY <1>1 DEF Placed
<1> HIDE DEF v, r
<1>4. /\ Sound(r, on) /\ Still(q, r) /\ r.valid = v /\ r.bind = q.bind
      /\ r.gbind = q.gbind /\ r.saves = q.saves /\ r.char = q.char
    BY <1>2, <1>3, ValidSound
<1> QED
    BY <1>4 DEF r

\* The rows that become those of a group, and those that are left.
LEMMA CopiedRows ==
    ASSUME NEW rows \in Rows, NEW from \in Rows
    PROVE  /\ Copied(rows, from) \in Rows /\ WithoutTemporary(rows) \in Rows
           /\ \A i \in InstanceId : WithoutTemporary(rows)[i] = "permanent" =>
                 rows[i] = "permanent"
    BY DEF Rows, Status, Copied, WithoutTemporary

\* The bind of a character becomes that of his group; who is bound for good keeps
\* it.
LEMMA ConvertInstancesToGroupSound ==
    ASSUME NEW q, Sound(q, online), NEW g \in Group, q.leader[g] # NULL, NEW p \in Player
    PROVE  LET r == ConvertInstancesToGroup(q, g, p) IN
           Sound(r, online) /\ Kept(q, r) /\ Still(q, r) /\ r.valid = q.valid
<1> DEFINE b == q.bind[p]
           c == BindGroup(q, g, b.id, b.perm, TRUE)
           u == IF b = NULL THEN q
                ELSE IF b.perm THEN c ELSE UnbindPlayer(c, p, TRUE)
           s == IF p \notin online \/ b # NULL
                THEN [u EXCEPT !.grp[p] = Copied(@, q.char[p])] ELSE u
           r == ConvertInstancesToGroup(q, g, p)
           G == [u.grp EXCEPT ![p] = IF p \notin online \/ b # NULL
                                     THEN Copied(u.grp[p], q.char[p]) ELSE u.grp[p]]
           loses == p \notin online \/ (b # NULL /\ ~b.perm)
           C == [u.char EXCEPT ![p] = IF loses THEN WithoutTemporary(u.char[p])
                                      ELSE u.char[p]]
<1>1. /\ q \in State /\ Placed(q, online) /\ Heroic(q)
      /\ q.bind \in [Player -> Bind \cup {NULL}] /\ q.char \in [Player -> Rows]
    BY SoundIs, Fields DEF Sound
<1>2. Sound(u, online) /\ Still(q, u) /\ u.valid = q.valid /\ u.char = q.char
      /\ \A o \in Player : BoundForGood(q, o) => u.bind[o] = q.bind[o]
  <2>1. CASE b = NULL
    <3>1. u = q
        BY <2>1
    <3> QED
        BY <3>1 DEF Still
  <2>2. CASE b # NULL
    <3>1. b.id \in InstanceId /\ b.perm \in BOOLEAN /\ (b.perm => heroic)
        BY <1>1, <2>2, NotNull DEF Heroic, BoundForGood
    <3>2. SoundBut(q, online, b.id, {}, {}) /\ q.saves[b.id] # NULL
        BY <2>2, <3>1, SoundFor, SoundIs DEF Sound, Listed
    <3>3. u = IF b.perm THEN c ELSE UnbindPlayer(c, p, TRUE)
        BY <2>2
    <3> HIDE DEF b, u
    <3>4. /\ Sound(c, online) /\ Still(q, c) /\ c.bind = q.bind
          /\ c.valid = q.valid /\ c.char = q.char
      <4> DEFINE Fine(w) == /\ Sound(w, online) /\ Still(q, w) /\ w.bind = q.bind
                            /\ w.valid = q.valid /\ w.char = q.char
      <4>1. ASSUME NEW i \in InstanceId, i = b.id, NEW perm \in BOOLEAN, perm = b.perm,
                   NEW load \in BOOLEAN
            PROVE  Fine(BindGroup(q, g, i, perm, load))
        <5>1. LET w == BindGroup(q, g, i, perm, load) IN
              /\ Sound(w, online)
              /\ Still(q, w) /\ w.bind = q.bind /\ w.valid = q.valid
              /\ w.char = q.char
              /\ w.gbind = [q.gbind EXCEPT ![g] = [id |-> i, perm |-> perm]]
            BY <3>1, <3>2, <4>1, BindGroupSound
        <5> QED
            BY <5>1
      <4> HIDE DEF Fine
      <4>2. Fine(BindGroup(q, g, b.id, b.perm, TRUE))
          BY <3>1, <4>1
      <4> QED
          BY <4>2 DEF Fine
    <3> HIDE DEF c
    <3>5. CASE b.perm
      <4>1. u = c
          BY <3>3, <3>5
      <4> QED
          BY <3>4, <4>1
    <3>6. CASE ~b.perm
      <4>1. u = UnbindPlayer(c, p, TRUE)
          BY <3>3, <3>6
      <4>2. /\ Sound(u, online) /\ KeptBut(c, u, {p})
            /\ Still(c, u) /\ u.bind = [c.bind EXCEPT ![p] = NULL]
            /\ u.gbind = c.gbind /\ u.valid = c.valid /\ u.char = c.char
          BY <3>4, <4>1, UnbindPlayerSound
      <4>3. \A o \in Player : BoundForGood(q, o) => u.bind[o] = q.bind[o]
          BY <3>4, <3>6, <4>2 DEF KeptBut, BoundForGood, b
      <4> QED
          BY <3>4, <4>2, <4>3 DEF Still
    <3> QED
        BY <3>1, <3>5, <3>6
  <2> QED
      BY <2>1, <2>2
<1>3. r = IF loses THEN [s EXCEPT !.char[p] = WithoutTemporary(@)] ELSE s
    BY DEF ConvertInstancesToGroup
<1> HIDE DEF u
<1>4. u \in State /\ u.char \in [Player -> Rows] /\ u.grp \in [Player -> Rows]
    BY <1>2, SoundIs, Fields DEF Sound
<1>5. s = [u EXCEPT !.grp = G]
  <2>1. CASE p \notin online \/ b # NULL
      BY <1>4, <2>1 DEF State
  <2>2. CASE ~(p \notin online \/ b # NULL)
    <3>1. s = u /\ G = u.grp
        BY <1>4, <2>2
    <3> QED
        BY <1>4, <3>1 DEF State
  <2> QED
      BY <2>1, <2>2
<1>6. G \in [Player -> Rows]
    BY <1>1, <1>4, CopiedRows
<1>7. /\ C \in [Player -> Rows]
      /\ \A o \in Player, i \in InstanceId :
            C[o][i] = "permanent" => u.char[o][i] = "permanent"
      /\ \A o \in Player : BoundForGood(q, o) => C[o] = q.char[o]
  <2> DEFINE rows == IF loses THEN WithoutTemporary(u.char[p]) ELSE u.char[p]
  <2>1. /\ rows \in Rows
        /\ \A i \in InstanceId : rows[i] = "permanent" => u.char[p][i] = "permanent"
        /\ loses \/ rows = u.char[p]
      BY <1>4, CopiedRows
  <2>2. C = [u.char EXCEPT ![p] = rows]
      OBVIOUS
  <2> HIDE DEF rows, C
  <2>3. BoundForGood(q, p) => ~loses
      BY <1>1 DEF Placed, BoundForGood
  <2> HIDE DEF loses
  <2> QED
      BY <1>2, <1>4, <2>1, <2>2, <2>3
<1> HIDE DEF G, s
<1>8. r = [u EXCEPT !.grp = G, !.char = C]
  <2>1. s \in State /\ s.char = u.char
      BY <1>4, <1>5, <1>6 DEF State
  <2>2. CASE loses
    <3>1. r = [s EXCEPT !.char = C]
        BY <1>3, <2>1, <2>2 DEF State
    <3> HIDE DEF C, r
    <3> QED
        BY <1>4, <1>5, <3>1 DEF State
  <2>3. CASE ~loses
    <3>1. r = s /\ C = u.char
        BY <1>3, <1>4, <2>3
    <3> QED
        BY <1>4, <1>5, <3>1 DEF State
  <2> QED
      BY <2>2, <2>3
<1> HIDE DEF C, r, loses
<1>9. r \in State
    BY <1>4, <1>6, <1>7, <1>8 DEF State
<1>10. /\ r.at = u.at /\ r.valid = u.valid /\ r.bind = u.bind /\ r.members = u.members
       /\ r.leader = u.leader /\ r.gbind = u.gbind /\ r.saves = u.saves
       /\ r.maps = u.maps /\ r.events = u.events /\ r.lastId = u.lastId /\ r.char = C
    BY <1>4, <1>8 DEF State
<1>11. Sound(r, online)
    BY <1>2, <1>7, <1>9, <1>10, TablesSound
<1>12. Kept(q, r)
    BY <1>2, <1>7, <1>10 DEF Kept, KeptBut
<1> QED
    BY <1>2, <1>10, <1>11, <1>12 DEF Still, r

\* Who is in which group, and who leads, says nothing of saves.
LEMMA MembersSound ==
    ASSUME NEW q, NEW on, Sound(q, on), NEW r \in State,
           r.at = q.at, r.valid = q.valid, r.bind = q.bind, r.gbind = q.gbind,
           r.saves = q.saves, r.maps = q.maps, r.char = q.char, r.events = q.events,
           \A g \in Group : q.gbind[g] # NULL \/ r.members[g] # <<>> => r.leader[g] # NULL
    PROVE  Sound(r, on)
<1>1. on \subseteq Player /\ Placed(q, on) /\ ForGood(q) /\ Heroic(q)
    BY SoundIs DEF Sound
<1>2. Placed(r, on)
    BY <1>1 DEF Placed
<1>3. \A p \in Player : BoundForGood(q, p) => r.at[p] \in {0, q.bind[p].id}
    BY <1>1 DEF ForGood
<1> QED
    BY <1>1, <1>2, <1>3, SoundMoved DEF Heroic, Sound

\* A group that gets a leader, or loses him when it has neither bind nor members.
LEMMA LeaderSound ==
    ASSUME NEW q, NEW on, Sound(q, on), NEW g \in Group, NEW p \in Player \cup {NULL},
           p = NULL => q.gbind[g] = NULL /\ q.members[g] = <<>>
    PROVE  LET r == [q EXCEPT !.leader[g] = p] IN
           /\ Sound(r, on) /\ r.at = q.at /\ r.bind = q.bind /\ r.gbind = q.gbind
           /\ r.members = q.members /\ r.leader = [q.leader EXCEPT ![g] = p]
           /\ r.char = q.char /\ r.valid = q.valid /\ r.maps = q.maps /\ r.lastId = q.lastId
<1> DEFINE l == [q.leader EXCEPT ![g] = p]
           r == [q EXCEPT !.leader[g] = p]
<1>1. q \in State /\ Placed(q, on) /\ q.leader \in [Group -> Player \cup {NULL}]
    BY SoundIs, Fields DEF Sound
<1>2. r = [q EXCEPT !.leader = l]
    BY <1>1 DEF State
<1>3. /\ l \in [Group -> Player \cup {NULL}] /\ l[g] = p
      /\ \A h \in Group \ {g} : l[h] = q.leader[h]
    BY <1>1
<1> HIDE DEF l, r
<1>4. r \in State
    BY <1>1, <1>2, <1>3 DEF State
<1>5. /\ r.at = q.at /\ r.valid = q.valid /\ r.bind = q.bind /\ r.members = q.members
      /\ r.leader = l /\ r.gbind = q.gbind /\ r.saves = q.saves /\ r.lastId = q.lastId
      /\ r.maps = q.maps /\ r.char = q.char /\ r.events = q.events
    BY <1>1, <1>2 DEF State
<1>6. \A h \in Group : q.gbind[h] # NULL \/ r.members[h] # <<>> => r.leader[h] # NULL
    BY <1>1, <1>3, <1>5 DEF Placed
<1>7. Sound(r, on)
    BY <1>4, <1>5, <1>6, MembersSound
<1> QED
    BY <1>5, <1>7 DEF r, l

\* The old leader's rows become those of the new one, unless they cannot; what
\* happens in memory happens all the same.
LEMMA SetLeaderSound ==
    ASSUME NEW q, Sound(q, online), NEW g \in Group, q.leader[g] # NULL, NEW p \in Player
    PROVE  LET r == SetLeader(q, g, p) IN
           /\ Sound(r, online) /\ Kept(q, r) /\ r.at = q.at /\ r.members = q.members
           /\ r.leader = [q.leader EXCEPT ![g] = p]
<1> DEFINE l == q.leader[g]
           kept == [i \in InstanceId |->
                      IF q.grp[l][i] = "permanent" \/ q.char[p][i] # "none"
                      THEN "none" ELSE q.grp[l][i]]
           u == IF p \in online /\ q.gbind[g] # NULL /\ q.gbind[g].perm
                THEN UnbindGroup(q, g) ELSE q
           taken == [u.grp EXCEPT ![l] = NoRow]
           G == [taken EXCEPT ![p] = Copied(taken[p], kept)]
           moved == [u EXCEPT !.grp = G]
           c == ConvertInstancesToGroup(moved, g, p)
           next == [c EXCEPT !.leader[g] = p]
           back == [next EXCEPT !.char = q.char, !.grp = q.grp]
           r == SetLeader(q, g, p)
<1>1. /\ q \in State /\ Heroic(q) /\ l \in Player
      /\ q.grp \in [Player -> Rows] /\ q.char \in [Player -> Rows]
      /\ q.leader \in [Group -> Player \cup {NULL}]
    BY SoundIs, Fields DEF Sound
<1>2. /\ Sound(u, online) /\ Still(q, u) /\ u.bind = q.bind /\ u.char = q.char
      /\ u.valid = q.valid
  <2>1. CASE u = q
      BY <2>1 DEF Still
  <2>2. CASE u = UnbindGroup(q, g)
    <3> HIDE DEF u
    <3> QED
        BY <2>2, UnbindGroupSound
  <2> QED
      BY <2>1, <2>2
<1>3. r = next \/ r = back
    BY DEF SetLeader
<1> HIDE DEF u
<1>4. u \in State /\ u.grp \in [Player -> Rows]
    BY <1>2, SoundIs, Fields DEF Sound
<1>5. kept \in Rows /\ NoRow \in Rows
    BY <1>1 DEF Rows, Status, NoRow
<1> HIDE DEF kept
<1>6. G \in [Player -> Rows]
  <2>1. taken \in [Player -> Rows]
      BY <1>4, <1>5
  <2> HIDE DEF taken
  <2>2. Copied(taken[p], kept) \in Rows
      BY <1>5, <2>1, CopiedRows
  <2> QED
      BY <2>1, <2>2
<1>7. moved = [u EXCEPT !.grp = G]
    OBVIOUS
<1> HIDE DEF G, moved
<1>8. moved \in State
    BY <1>4, <1>6, <1>7 DEF State
<1>9. /\ moved.at = u.at /\ moved.valid = u.valid /\ moved.bind = u.bind
      /\ moved.members = u.members /\ moved.leader = u.leader /\ moved.gbind = u.gbind
      /\ moved.saves = u.saves /\ moved.maps = u.maps /\ moved.events = u.events
      /\ moved.lastId = u.lastId /\ moved.char = u.char
    BY <1>4, <1>7 DEF State
<1>10. Sound(moved, online)
    BY <1>2, <1>8, <1>9, TablesSound
<1>11. Sound(c, online) /\ Kept(moved, c) /\ Still(moved, c)
  <2>1. moved.leader[g] # NULL
      BY <1>2, <1>9 DEF Still
  <2> QED
      BY <1>10, <2>1, ConvertInstancesToGroupSound
<1>12. Kept(q, c)
    BY <1>2, <1>9, <1>11 DEF Kept, KeptBut, BoundForGood
<1> HIDE DEF c
<1>13. /\ Sound(next, online) /\ next.at = c.at /\ next.bind = c.bind
       /\ next.gbind = c.gbind
       /\ next.members = c.members /\ next.leader = [c.leader EXCEPT ![g] = p]
       /\ next.char = c.char /\ next.valid = c.valid /\ next.maps = c.maps
       /\ next.lastId = c.lastId
  <2>1. p # NULL /\ p \in Player \cup {NULL}
      BY NotNull
  <2> QED
      BY <1>11, <2>1, LeaderSound
<1> HIDE DEF next
<1>14. /\ next.at = q.at /\ next.members = q.members
       /\ next.leader = [q.leader EXCEPT ![g] = p] /\ Kept(q, next)
    BY <1>2, <1>9, <1>11, <1>12, <1>13 DEF Still, Kept, KeptBut
<1>15. CASE r = next
    BY <1>13, <1>14, <1>15
<1>16. CASE r = back
  <2>1. next \in State
      BY <1>13, SoundIs DEF Sound
  <2> HIDE DEF r
  <2>2. r \in State
      BY <1>1, <1>16, <2>1 DEF State
  <2>3. /\ r.at = next.at /\ r.valid = next.valid /\ r.bind = next.bind
        /\ r.members = next.members /\ r.leader = next.leader /\ r.gbind = next.gbind
        /\ r.saves = next.saves /\ r.maps = next.maps /\ r.events = next.events
        /\ r.char = q.char
      BY <1>16, <2>1 DEF State
  <2>4. Sound(r, online)
      BY <1>1, <1>13, <2>2, <2>3, TablesSound DEF Heroic
  <2>5. Kept(q, r)
      BY <1>14, <2>3 DEF Kept, KeptBut
  <2> QED
      BY <1>14, <2>3, <2>4, <2>5 DEF r
<1> QED
    BY <1>3, <1>15, <1>16

\* Group::_addMember.
LEMMA AddToMembersSound ==
    ASSUME NEW q, NEW on, Sound(q, on), NEW g \in Group, q.leader[g] # NULL,
           NEW p \in Player
    PROVE  LET r == AddToMembers(q, g, p) IN
           /\ Sound(r, on) /\ r.at = q.at /\ r.bind = q.bind /\ r.leader = q.leader
           /\ r.gbind = q.gbind /\ r.char = q.char
<1> DEFINE m == [q.members EXCEPT ![g] = Append(@, p)]
           e == [q EXCEPT !.members[g] = Append(@, p)]
           r == AddToMembers(q, g, p)
<1>1. q \in State /\ Placed(q, on) /\ q.members \in [Group -> Seq(Player)]
    BY SoundIs, Fields DEF Sound
<1>2. e = [q EXCEPT !.members = m]
    BY <1>1 DEF State
<1>3. m \in [Group -> Seq(Player)] /\ \A h \in Group \ {g} : m[h] = q.members[h]
  <2>1. Append(q.members[g], p) \in Seq(Player)
      BY <1>1, AppendProperties
  <2> QED
      BY <1>1, <2>1
<1>4. r = e \/ r = [e EXCEPT !.valid[p] = TRUE]
    BY DEF AddToMembers
<1> HIDE DEF m, e, r
<1>5. e \in State
    BY <1>1, <1>2, <1>3 DEF State
<1>6. /\ e.at = q.at /\ e.valid = q.valid /\ e.bind = q.bind /\ e.members = m
      /\ e.leader = q.leader /\ e.gbind = q.gbind /\ e.saves = q.saves
      /\ e.maps = q.maps /\ e.char = q.char /\ e.events = q.events
    BY <1>1, <1>2 DEF State
<1>7. \A h \in Group : q.gbind[h] # NULL \/ e.members[h] # <<>> => e.leader[h] # NULL
    BY <1>1, <1>3, <1>6 DEF Placed
<1>8. Sound(e, on)
    BY <1>5, <1>6, <1>7, MembersSound
<1>9. /\ Sound(r, on) /\ Still(e, r) /\ r.bind = e.bind
      /\ r.gbind = e.gbind /\ r.char = e.char
  <2>1. CASE r = e
      BY <1>8, <2>1 DEF Still
  <2>2. CASE r = [e EXCEPT !.valid[p] = TRUE]
      BY <1>8, <2>2, MadeValidSound
  <2> QED
      BY <1>4, <2>1, <2>2
<1> QED
    BY <1>6, <1>9 DEF Still, r

\* Group::AddMember.
LEMMA AddMemberSound ==
    ASSUME NEW q, NEW on, Sound(q, on), NEW g \in Group, q.leader[g] # NULL,
           NEW p \in Player
    PROVE  LET r == AddMember(q, g, p) IN
           Sound(r, on) /\ Kept(q, r) /\ r.at = q.at /\ r.leader = q.leader
<1> DEFINE e == AddToMembers(q, g, p)
           r == AddMember(q, g, p)
<1>1. /\ Sound(e, on) /\ e.at = q.at /\ e.bind = q.bind /\ e.leader = q.leader
      /\ e.gbind = q.gbind /\ e.char = q.char
    BY AddToMembersSound
<1>2. r = e \/ r = ResetPlayer(e, p, "join")
    BY DEF AddMember
<1> HIDE DEF e, r
<1>3. Sound(r, on) /\ Kept(e, r) /\ Still(e, r)
  <2>1. CASE r = e
      BY <1>1, <2>1, KeptSame DEF Still, Kept
  <2>2. CASE r = ResetPlayer(e, p, "join")
      BY <1>1, <2>2, ResetPlayerSound
  <2> QED
      BY <1>2, <2>1, <2>2
<1>4. Kept(q, r)
    BY <1>1, <1>3 DEF Kept, KeptBut, BoundForGood
<1> QED
    BY <1>1, <1>3, <1>4 DEF Still, r

\* Group::Create.
LEMMA CreateGroupSound ==
    ASSUME NEW q, Sound(q, online), NEW g \in Group, NEW l \in Player
    PROVE  LET r == CreateGroup(q, g, l) IN
           Sound(r, online) /\ Kept(q, r) /\ r.at = q.at /\ r.leader[g] # NULL
<1> DEFINE e == [q EXCEPT !.leader[g] = l]
           c == ConvertInstancesToGroup(e, g, l)
           r == CreateGroup(q, g, l)
<1>1. q.leader \in [Group -> Player \cup {NULL}] /\ l # NULL /\ l \in Player \cup {NULL}
    BY NotNull, SoundIs, Fields DEF Sound
<1>2. /\ Sound(e, online) /\ e.at = q.at /\ e.bind = q.bind /\ e.gbind = q.gbind
      /\ e.members = q.members /\ e.leader = [q.leader EXCEPT ![g] = l]
      /\ e.char = q.char /\ e.valid = q.valid /\ e.maps = q.maps /\ e.lastId = q.lastId
    BY <1>1, LeaderSound
<1>3. r = AddMember(c, g, l)
    BY DEF CreateGroup
<1> HIDE DEF e, r
<1>4. e.leader[g] # NULL
    BY <1>1, <1>2
<1>5. Sound(c, online) /\ Kept(e, c) /\ Still(e, c)
    BY <1>2, <1>4, ConvertInstancesToGroupSound
<1> HIDE DEF c
<1>6. Sound(r, online) /\ Kept(c, r) /\ r.at = c.at /\ r.leader = c.leader
    BY <1>3, <1>4, <1>5, AddMemberSound DEF Still
<1>7. Kept(q, r)
    BY <1>2, <1>5, <1>6 DEF Kept, KeptBut, BoundForGood
<1> QED
    BY <1>2, <1>4, <1>5, <1>6, <1>7 DEF Still, r

\* Group::Disband.
LEMMA DisbandSound ==
    ASSUME NEW q, NEW on, Sound(q, on), NEW g \in Group
    PROVE  LET r == Disband(q, g) IN Sound(r, on) /\ Kept(q, r) /\ r.at = q.at
<1> DEFINE m == [q.members EXCEPT ![g] = <<>>]
           e == [q EXCEPT !.members[g] = <<>>]
           h == HomebindIfInstance(e, ToSet(q.members[g]))
           u == ResetGroup(h, g, "disband")
           r == Disband(q, g)
<1>1. q \in State /\ Placed(q, on) /\ q.members \in [Group -> Seq(Player)]
    BY SoundIs, Fields DEF Sound
<1>2. e = [q EXCEPT !.members = m]
    BY <1>1 DEF State
<1>3. /\ m \in [Group -> Seq(Player)] /\ m[g] = <<>>
      /\ \A k \in Group \ {g} : m[k] = q.members[k]
    BY <1>1, EmptySeq
<1>4. r = [u EXCEPT !.leader[g] = NULL]
    BY DEF Disband
<1> HIDE DEF m, e, r
<1>5. e \in State
    BY <1>1, <1>2, <1>3 DEF State
<1>6. /\ e.at = q.at /\ e.valid = q.valid /\ e.bind = q.bind /\ e.members = m
      /\ e.leader = q.leader /\ e.gbind = q.gbind /\ e.saves = q.saves
      /\ e.maps = q.maps /\ e.char = q.char /\ e.events = q.events
    BY <1>1, <1>2 DEF State
<1>7. \A k \in Group : q.gbind[k] # NULL \/ e.members[k] # <<>> => e.leader[k] # NULL
    BY <1>1, <1>3, <1>6 DEF Placed
<1>8. Sound(e, on)
    BY <1>5, <1>6, <1>7, MembersSound
<1>9. /\ Sound(h, on) /\ Still(e, h) /\ h.bind = e.bind
      /\ h.gbind = e.gbind /\ h.saves = e.saves /\ h.char = e.char
    BY <1>8, HomebindIfInstanceSound
<1> HIDE DEF h
<1>10. Sound(u, on) /\ Kept(h, u) /\ Still(h, u) /\ u.gbind[g] = NULL
    BY <1>9, ResetGroupSound
<1> HIDE DEF u
<1>11. /\ Sound(r, on) /\ r.at = u.at /\ r.bind = u.bind /\ r.char = u.char
  <2>1. u.members[g] = <<>>
      BY <1>3, <1>6, <1>9, <1>10 DEF Still
  <2>2. LET w == [u EXCEPT !.leader[g] = NULL] IN
        /\ Sound(w, on) /\ w.at = u.at /\ w.bind = u.bind /\ w.gbind = u.gbind
        /\ w.members = u.members /\ w.leader = [u.leader EXCEPT ![g] = NULL]
        /\ w.char = u.char /\ w.valid = u.valid /\ w.maps = u.maps /\ w.lastId = u.lastId
      BY <1>10, <2>1, LeaderSound
  <2> QED
      BY <1>4, <2>2
<1>12. Kept(q, r)
    BY <1>6, <1>9, <1>10, <1>11 DEF Kept, KeptBut, BoundForGood
<1> QED
    BY <1>6, <1>9, <1>10, <1>11, <1>12 DEF Still, r

\* A sequence without one of its elements.
LEMMA Shorter ==
    ASSUME NEW S, NEW s \in Seq(S), NEW k \in 1..Len(s)
    PROVE  RemoveAt(s, k) \in Seq(S) /\ Len(RemoveAt(s, k)) = Len(s) - 1
<1> DEFINE a == SubSeq(s, 1, k - 1)
           b == SubSeq(s, k + 1, Len(s))
<1>1. Len(s) \in Nat /\ \A i \in 1..Len(s) : s[i] \in S
    BY LenProperties, ElementOfSeq
<1>2. a \in Seq(S) /\ Len(a) = k - 1
  <2>1. \A i \in 1..(k - 1) : s[i] \in S
      BY <1>1
  <2>2. 1 \in Int /\ k - 1 \in Int
      BY <1>1
  <2>3. a \in Seq(S) /\ Len(a) = IF 1 <= k - 1 THEN k - 1 - 1 + 1 ELSE 0
      BY <2>1, <2>2, SubSeqProperties
  <2> QED
      BY <1>1, <2>3
<1>3. b \in Seq(S) /\ Len(b) = Len(s) - k
  <2>1. \A i \in (k + 1)..Len(s) : s[i] \in S
      BY <1>1
  <2>2. k + 1 \in Int /\ Len(s) \in Int
      BY <1>1
  <2>3. b \in Seq(S)
        /\ Len(b) = IF k + 1 <= Len(s) THEN Len(s) - (k + 1) + 1 ELSE 0
      BY <2>1, <2>2, SubSeqProperties
  <2> QED
      BY <1>1, <2>3
<1>4. RemoveAt(s, k) = a \o b
    BY DEF RemoveAt
<1> HIDE DEF a, b
<1>5. a \o b \in Seq(S) /\ Len(a \o b) = Len(a) + Len(b)
    BY <1>2, <1>3, ConcatProperties
<1> QED
    BY <1>1, <1>2, <1>3, <1>4, <1>5

\* Group::RemoveMember, with the new leader when the old one leaves.
LEMMA RemoveMemberSound ==
    ASSUME NEW q, Sound(q, online), NEW g \in Group, NEW p \in ToSet(q.members[g])
    PROVE  LET r == RemoveMember(q, g, p) IN Sound(r, online) /\ Kept(q, r) /\ r.at = q.at
<1> DEFINE s == q.members[g]
           k == CHOOSE n \in DOMAIN s : s[n] = p
           left == RemoveAt(s, k)
           m == [q.members EXCEPT ![g] = left]
           e == [q EXCEPT !.members[g] = left]
           u == IF q.leader[g] = p THEN SetLeader(e, g, left[1]) ELSE e
           r == RemoveMember(q, g, p)
<1>1. /\ q \in State /\ Placed(q, online) /\ q.members \in [Group -> Seq(Player)]
      /\ s \in Seq(Player)
    BY SoundIs, Fields DEF Sound
<1>2. CASE Len(s) <= 2
  <2>1. r = Disband(q, g)
      BY <1>2 DEF RemoveMember
  <2> HIDE DEF r
  <2>2. Sound(r, online) /\ Kept(q, r) /\ r.at = q.at
      BY <2>1, DisbandSound
  <2> QED
      BY <2>2 DEF r
<1>3. CASE ~(Len(s) <= 2)
  <2>1. r = HomebindIfInstance(u, {p})
      BY <1>3 DEF RemoveMember
  <2>2. k \in DOMAIN s
      BY DEF ToSet
  <2>3. k \in 1..Len(s) /\ Len(s) \in Nat
      BY <1>1, <2>2, LenProperties
  <2> HIDE DEF k
  <2>4. left \in Seq(Player) /\ Len(left) = Len(s) - 1
      BY <1>1, <2>3, Shorter
  <2>5. left[1] \in Player
    <3>1. 1 \in 1..Len(left)
        BY <1>3, <2>3, <2>4
    <3> QED
        BY <2>4, <3>1, ElementOfSeq
  <2> HIDE DEF left
  <2>6. e = [q EXCEPT !.members = m]
      BY <1>1 DEF State
  <2>7. m \in [Group -> Seq(Player)] /\ \A h \in Group \ {g} : m[h] = q.members[h]
      BY <1>1, <2>4
  <2>8. q.leader[g] # NULL
    <3>1. s # <<>>
        BY <2>2
    <3> QED
        BY <1>1, <3>1 DEF Placed
  <2> HIDE DEF m, e, r
  <2>9. e \in State
      BY <1>1, <2>6, <2>7 DEF State
  <2>10. /\ e.at = q.at /\ e.valid = q.valid /\ e.bind = q.bind /\ e.members = m
         /\ e.leader = q.leader /\ e.gbind = q.gbind /\ e.saves = q.saves
         /\ e.maps = q.maps /\ e.char = q.char /\ e.events = q.events
      BY <1>1, <2>6 DEF State
  <2>11. \A h \in Group : q.gbind[h] # NULL \/ e.members[h] # <<>> => e.leader[h] # NULL
      BY <1>1, <2>7, <2>8, <2>10 DEF Placed
  <2>12. Sound(e, online)
      BY <2>9, <2>10, <2>11, MembersSound
  <2>13. Sound(u, online) /\ Kept(e, u) /\ u.at = e.at
    <3>1. CASE u = e
        BY <2>12, <3>1, KeptSame DEF Kept
    <3>2. CASE u = SetLeader(e, g, left[1])
      <4> HIDE DEF u
      <4>1. e.leader[g] # NULL
          BY <2>8, <2>10
      <4>2. /\ Sound(u, online) /\ Kept(e, u) /\ u.at = e.at /\ u.members = e.members
            /\ u.leader = [e.leader EXCEPT ![g] = left[1]]
          BY <2>5, <2>12, <3>2, <4>1, SetLeaderSound
      <4> QED
          BY <4>2
    <3> QED
        BY <3>1, <3>2
  <2> HIDE DEF u
  <2>14. /\ Sound(r, online) /\ Still(u, r) /\ r.bind = u.bind
         /\ r.gbind = u.gbind /\ r.saves = u.saves /\ r.char = u.char
      BY <2>1, <2>13, HomebindIfInstanceSound
  <2>15. Kept(q, r)
      BY <2>10, <2>13, <2>14 DEF Kept, KeptBut, BoundForGood
  <2> QED
      BY <2>10, <2>13, <2>14, <2>15 DEF Still, r
<1> QED
    BY <1>2, <1>3

----------------------------------------------------------------------------
(* Numbers and folds.                                                      *)

\* A set of numbers has a least one.
LEMMA Least ==
    ASSUME NEW T, T \subseteq Nat, T # {}
    PROVE  \E m \in T : \A k \in T : m <= k
<1> DEFINE R == OpToRel(<, Nat)
<1>1. IsWellFoundedOn(R, Nat)
    BY NatLessThanWellFounded
<1>2. \A x, y \in Nat : <<x, y>> \in R <=> x < y
    BY DEF OpToRel
<1> HIDE DEF R
<1>3. PICK x \in T : \A y \in T : ~(<<y, x>> \in R)
    BY <1>1, WFMin
<1>4. ASSUME NEW k \in T PROVE x <= k
  <2>1. x \in Nat /\ k \in Nat /\ ~(k < x)
      BY <1>2, <1>3
  <2> QED
      BY ONLY <2>1
<1> QED
    BY <1>4

\* What a fold keeps at every step holds at its end.
LEMMA KeptBySteps ==
    ASSUME NEW P, NEW n \in Nat, NEW r, r[0] \in P,
           \A k \in 1..n : r[k - 1] \in P => r[k] \in P
    PROVE  \A k \in 0..n : r[k] \in P
<1> DEFINE T == {k \in 0..n : r[k] \notin P}
<1> SUFFICES ASSUME T # {} PROVE FALSE
    OBVIOUS
<1>1. PICK m \in T : \A k \in T : m <= k
  <2>1. T \subseteq Nat
      OBVIOUS
  <2> HIDE DEF T
  <2> QED
      BY <2>1, Least
<1>2. m \in 0..n /\ m # 0 /\ r[m] \notin P
    OBVIOUS
<1>3. m \in 1..n /\ m - 1 \in 0..n /\ ~(m <= m - 1)
    BY <1>2
<1>4. m - 1 \notin T
    BY <1>1, <1>3
<1> QED
    BY <1>2, <1>3, <1>4

\* The fold of functions F[1], ..., F[n] on a set of states exists.
IsFold(P, n, q, F, g) ==
    /\ g \in [0..n -> P]
    /\ g[0] = q
    /\ \A k \in 1..n : g[k] = F[k][g[k - 1]]

HasFold(P, n, q, F) == \E g : IsFold(P, n, q, F, g)

\* There is such a g for any n, by the least one that has none.
LEMMA FoldExists ==
    ASSUME NEW P, NEW n \in Nat, NEW q \in P, NEW F \in [1..n -> [P -> P]]
    PROVE  HasFold(P, n, q, F)
<1> DEFINE T == {m \in 0..n : ~HasFold(P, m, q, F)}
<1> SUFFICES ASSUME T # {} PROVE FALSE
    OBVIOUS
<1>1. PICK m \in T : \A k \in T : m <= k
  <2>1. T \subseteq Nat
      OBVIOUS
  <2> HIDE DEF T
  <2> QED
      BY <2>1, Least
<1>2. m \in 0..n /\ ~HasFold(P, m, q, F)
    OBVIOUS
<1>3. m # 0
  <2> SUFFICES ASSUME m = 0 PROVE FALSE
      OBVIOUS
  <2> DEFINE g == [k \in 0..0 |-> q]
  <2>1. IsFold(P, 0, q, F, g)
      BY DEF IsFold
  <2> QED
      BY <1>2, <2>1 DEF HasFold
<1>4. m \in 1..n /\ m - 1 \in 0..n /\ ~(m <= m - 1) /\ m - 1 \in 0..(m - 1)
    BY <1>2, <1>3
<1>5. PICK g : IsFold(P, m - 1, q, F, g)
  <2>1. m - 1 \notin T
      BY <1>1, <1>4
  <2> QED
      BY <1>4, <2>1 DEF HasFold
<1>6. /\ g \in [0..(m - 1) -> P] /\ g[0] = q
      /\ \A k \in 1..(m - 1) : g[k] = F[k][g[k - 1]]
    BY <1>5 DEF IsFold
<1> DEFINE h == [k \in 0..m |-> IF k = m THEN F[m][g[m - 1]] ELSE g[k]]
<1>7. g[m - 1] \in P /\ F[m][g[m - 1]] \in P
    BY <1>4, <1>6
<1>8. \A k \in 0..m : k # m => k \in 0..(m - 1)
    BY <1>4
<1>9. h \in [0..m -> P]
    BY <1>6, <1>7, <1>8
<1>10. /\ \A k \in 0..(m - 1) : k \in 0..m /\ h[k] = g[k]
       /\ h[m] = F[m][g[m - 1]] /\ 0 \in 0..(m - 1)
    BY <1>4
<1> HIDE DEF h
<1>11. ASSUME NEW k \in 1..m
       PROVE  h[k] = F[k][h[k - 1]]
  <2>1. CASE k = m
      BY <1>4, <1>10, <2>1
  <2>2. CASE k # m
    <3>1. k \in 1..(m - 1) /\ k \in 0..(m - 1) /\ k - 1 \in 0..(m - 1)
        BY <1>4, <2>2
    <3> QED
        BY <1>6, <1>10, <3>1
  <2> QED
      BY <2>1, <2>2
<1>12. IsFold(P, m, q, F, h)
    BY <1>6, <1>9, <1>10, <1>11 DEF IsFold
<1> QED
    BY <1>2, <1>12 DEF HasFold

\* A finite set can be listed.
LEMMA SetAsSequence ==
    ASSUME NEW S, IsFiniteSet(S)
    PROVE  /\ Cardinality(S) \in Nat
           /\ SetToSeq(S) \in [1..Cardinality(S) -> S]
<1> DEFINE n == Cardinality(S)
<1>1. n \in Nat /\ ExistsBijection(1..n, S)
    BY FS_CardinalityType
<1>2. PICK f : f \in Bijection(1..n, S)
    BY <1>1 DEF ExistsBijection
<1>3. f \in [1..n -> S] /\ IsInjective(f)
    BY <1>2 DEF Bijection, Injection, IsInjective
<1>4. SetToSeq(S) \in [1..n -> S] /\ IsInjective(SetToSeq(S))
    BY <1>3 DEF SetToSeq
<1> QED
    BY <1>1, <1>4


----------------------------------------------------------------------------
(* Bosses and login.                                                       *)

\* One of those inside is bound for good, if he is not yet.
LEMMA BindOneSound ==
    ASSUME NEW q, NEW on, Sound(q, on), NEW i \in InstanceId, q.saves[i] # NULL,
           heroic, NEW o \in Player, q.at[o] = i
    PROVE  LET r == IF BoundForGood(q, o) THEN q ELSE BindPlayer(q, o, i, TRUE, FALSE) IN
           Sound(r, on) /\ Kept(q, r) /\ Still(q, r) /\ r.saves[i] # NULL
<1> DEFINE r == IF BoundForGood(q, o) THEN q ELSE BindPlayer(q, o, i, TRUE, FALSE)
<1>1. CASE BoundForGood(q, o)
  <2>1. r = q
      BY <1>1
  <2> QED
      BY <2>1, KeptSame DEF Kept, Still
<1>2. CASE ~BoundForGood(q, o)
  <2>1. r = BindPlayer(q, o, i, TRUE, FALSE)
      BY <1>2
  <2>2. /\ o \in on /\ SoundBut(q, on, i, {}, {})
        /\ q.bind \in [Player -> Bind \cup {NULL}]
      BY NotNull, SoundFor, SoundIs, Fields DEF Sound, Placed
  <2>3. ASSUME NEW perm \in BOOLEAN, NEW load \in BOOLEAN
        PROVE  LET w == BindPlayer(q, o, i, perm, load) IN
               /\ Sound(w, on) /\ KeptBut(q, w, {o}) /\ Still(q, w)
               /\ w.bind[o].id = i /\ w.bind[o] # NULL
    <3>1. perm => heroic /\ q.at[o] \in {0, i}
        OBVIOUS
    <3>2. LET w == BindPlayer(q, o, i, perm, load) IN
          /\ Sound(w, on) /\ KeptBut(q, w, {o})
          /\ Still(q, w) /\ w.gbind = q.gbind /\ w.valid = q.valid
          /\ w.bind = [q.bind EXCEPT ![o] = [id |-> i, perm |-> perm]]
          /\ load => w.char = q.char
        BY <2>2, <3>1, BindPlayerSound
    <3>3. [id |-> i, perm |-> perm] # NULL /\ [id |-> i, perm |-> perm].id = i
        BY NotNull
    <3> QED
        BY <2>2, <3>2, <3>3
  <2> HIDE DEF r
  <2>4. /\ Sound(r, on) /\ KeptBut(q, r, {o}) /\ Still(q, r)
        /\ r.bind[o].id = i /\ r.bind[o] # NULL
      BY <2>1, <2>3
  <2>5. r.saves[i] # NULL
      BY <2>4, SoundIs DEF Sound, Listed
  <2>6. Kept(q, r)
      BY <1>2, <2>4 DEF Kept, KeptBut
  <2> QED
      BY <2>4, <2>5, <2>6 DEF r
<1> QED
    BY <1>1, <1>2

\* All who are inside are bound for good.
LEMMA BindInsideSound ==
    ASSUME NEW q, NEW on, Sound(q, on), NEW i \in InstanceId, q.saves[i] # NULL, heroic
    PROVE  LET r == BindInside(q, i) IN
           Sound(r, on) /\ Kept(q, r) /\ Still(q, r) /\ r.saves[i] # NULL
<1> DEFINE who == SetToSeq(Inside(q, i))
           n == Len(who)
           P == {s \in State :
                   Sound(s, on) /\ Kept(q, s) /\ Still(q, s) /\ s.saves[i] # NULL}
           Next1(s, o) == IF BoundForGood(s, o) THEN s ELSE BindPlayer(s, o, i, TRUE, FALSE)
           F == [k \in 1..n |-> [s \in P |-> Next1(s, who[k])]]
           Step(h) == [k \in 0..n |-> IF k = 0 THEN q
                         ELSE IF BoundForGood(h[k - 1], who[k]) THEN h[k - 1]
                         ELSE BindPlayer(h[k - 1], who[k], i, TRUE, FALSE)]
<1>1. n \in Nat /\ \A k \in 1..n : who[k] \in Player /\ q.at[who[k]] = i
  <2>1. IsFiniteSet(Inside(q, i)) /\ Inside(q, i) \subseteq Player
      BY PlayerAssumption, FS_Subset DEF Inside
  <2>2. /\ Cardinality(Inside(q, i)) \in Nat
        /\ who \in [1..Cardinality(Inside(q, i)) -> Inside(q, i)]
      BY <2>1, SetAsSequence
  <2>3. Len(who) = Cardinality(Inside(q, i))
      BY <2>2, LenProperties
  <2> HIDE DEF who
  <2>4. \A k \in 1..n : who[k] \in Inside(q, i)
      BY <2>2, <2>3
  <2> QED
      BY <2>2, <2>3, <2>4 DEF Inside
<1>2. q \in P
    BY KeptSame, SoundIs DEF Sound, Kept, Still
<1>3. ASSUME NEW s \in P, NEW k \in 1..n
      PROVE  Next1(s, who[k]) \in P
  <2> DEFINE o == who[k]
             r == Next1(s, o)
  <2>1. s \in State /\ Sound(s, on) /\ Kept(q, s) /\ Still(q, s) /\ s.saves[i] # NULL
      OBVIOUS
  <2>2. o \in Player /\ s.at[o] = i
      BY <1>1, <2>1 DEF Still
  <2> HIDE DEF o
  <2>3. Sound(r, on) /\ Kept(s, r) /\ Still(s, r) /\ r.saves[i] # NULL
      BY <2>1, <2>2, BindOneSound
  <2> HIDE DEF r, Next1
  <2>4. Kept(q, r) /\ Still(q, r) /\ r \in State
      BY <2>1, <2>3, KeptTwice, SoundIs DEF Kept, Still, Sound
  <2> QED
      BY <2>3, <2>4 DEF r, o
<1> HIDE DEF n, P, who
<1>4. F \in [1..n -> [P -> P]]
    BY <1>3
<1>5. PICK g : IsFold(P, n, q, F, g)
    BY <1>1, <1>2, <1>4, FoldExists DEF HasFold
<1>6. g = Step(g)
  <2>1. g \in [0..n -> P] /\ g[0] = q /\ \A k \in 1..n : g[k] = F[k][g[k - 1]]
      BY <1>5 DEF IsFold
  <2>2. \A k \in 1..n : k \in 0..n /\ k - 1 \in 0..n
      BY <1>1
  <2>3. \A k \in 1..n : g[k] = IF BoundForGood(g[k - 1], who[k]) THEN g[k - 1]
                               ELSE BindPlayer(g[k - 1], who[k], i, TRUE, FALSE)
      BY <2>1, <2>2
  <2>4. \A k \in 0..n : k = 0 \/ k \in 1..n
      BY <1>1
  <2> HIDE DEF F
  <2> QED
      BY <2>1, <2>3, <2>4
<1> DEFINE h == CHOOSE x : x = Step(x)
<1>7. h = Step(h)
    BY <1>6
<1>8. BindInside(q, i) = h[n]
    BY DEF BindInside, n, who
<1> HIDE DEF h, F
<1>9. h[0] = q /\ \A k \in 1..n : h[k] = Next1(h[k - 1], who[k])
  <2>1. 0 \in 0..n /\ \A k \in 1..n : k \in 0..n /\ k # 0
      BY <1>1
  <2> QED
      BY <1>7, <2>1
<1> HIDE DEF Next1
<1>10. h[n] \in P
  <2>1. \A k \in 0..n : h[k] \in P
      BY <1>1, <1>2, <1>3, <1>9, KeptBySteps
  <2> QED
      BY <1>1, <2>1
<1> QED
    BY <1>8, <1>10 DEF P

\* One more character is online.
LEMMA OnlineSound ==
    ASSUME NEW q, NEW on, Sound(q, on), NEW p \in Player
    PROVE  Sound(q, on \cup {p})
<1>1. q \in State /\ on \subseteq Player /\ Placed(q, on) /\ ForGood(q) /\ Heroic(q)
    BY SoundIs DEF Sound
<1>2. Placed(q, on \cup {p}) /\ on \cup {p} \in SUBSET Player
    BY <1>1 DEF Placed
<1>3. \A o \in Player : BoundForGood(q, o) => q.at[o] \in {0, q.bind[o].id}
    BY <1>1 DEF ForGood
<1> QED
    BY <1>1, <1>2, <1>3, SoundMoved DEF Sound, Heroic

\* What a row becomes at login: a bind, unless the character has a group and the
\* row is not permanent.
Loaded(q, r, on, p) ==
    /\ Sound(r, on) /\ KeptBut(q, r, {p}) /\ Still(q, r)
    /\ Grouped(q, p) => r.bind[p] = NULL \/ BoundForGood(r, p)

\* Player::_LoadBoundInstances, for one row.
LEMMA LoadBindSound ==
    ASSUME NEW q, NEW on, Sound(q, on), NEW i \in InstanceId, NEW p \in on, q.at[p] = 0,
           Grouped(q, p) => q.bind[p] = NULL \/ BoundForGood(q, p)
    PROVE  Loaded(q, LoadBind(q, p, i), on, p)
<1> DEFINE r == LoadBind(q, p, i)
           s == q.char[p][i]
           perm == s = "permanent"
           e == AddInstanceSave(q, i, ~perm, TRUE)
           b == BindPlayer(e, p, i, perm, TRUE)
           rows == [q.char[p] EXCEPT ![i] = "none"]
           C == [q.char EXCEPT ![p] = rows]
           w == [q EXCEPT !.char[p][i] = "none"]
<1>1. /\ q \in State /\ on \subseteq Player /\ Heroic(q) /\ p \in Player
      /\ q.char \in [Player -> Rows] /\ q.char[p] \in [InstanceId -> Status]
    BY SoundIs, Fields DEF Sound, Rows
<1>2. CASE s = "none" \/ i \notin q.inst
  <2>1. r = q
      BY <1>2 DEF LoadBind
  <2> QED
      BY <2>1, KeptSame DEF Loaded, Still
<1>3. CASE ~(s = "none" \/ i \notin q.inst) /\ s = "temporary" /\ Grouped(q, p)
  <2>1. r = w
      BY <1>3 DEF LoadBind
  <2>2. w = [q EXCEPT !.char = C]
      BY <1>1 DEF State
  <2>3. /\ rows \in Rows /\ rows[i] = "none"
        /\ \A j \in InstanceId \ {i} : rows[j] = q.char[p][j]
      BY <1>1 DEF Rows, Status
  <2> HIDE DEF rows, w, r
  <2>4. /\ C \in [Player -> Rows] /\ C[p] = rows
        /\ \A o \in Player \ {p} : C[o] = q.char[o]
      BY <1>1, <2>3
  <2> HIDE DEF C
  <2>5. r \in State
      BY <1>1, <2>1, <2>2, <2>4 DEF State
  <2>6. /\ r.at = q.at /\ r.valid = q.valid /\ r.bind = q.bind /\ r.members = q.members
        /\ r.leader = q.leader /\ r.gbind = q.gbind /\ r.saves = q.saves
        /\ r.maps = q.maps /\ r.events = q.events /\ r.lastId = q.lastId /\ r.char = C
      BY <1>1, <2>1, <2>2 DEF State
  <2>7. \A o \in Player, j \in InstanceId :
          C[o][j] = "permanent" => q.char[o][j] = "permanent"
      BY <2>3, <2>4
  <2>8. Sound(r, on)
      BY <2>5, <2>6, <2>7, TablesSound
  <2>9. KeptBut(q, r, {p}) /\ Still(q, r)
      BY <2>4, <2>6 DEF KeptBut, Still
  <2>10. Grouped(q, p) => r.bind[p] = NULL \/ BoundForGood(r, p)
      BY <2>6 DEF BoundForGood
  <2> QED
      BY <2>8, <2>9, <2>10 DEF Loaded, r
<1>4. CASE ~(s = "none" \/ i \notin q.inst) /\ ~(s = "temporary" /\ Grouped(q, p))
  <2>1. r = b
      BY <1>4 DEF LoadBind
  <2>2. perm \in BOOLEAN /\ (~perm) \in BOOLEAN /\ (perm => heroic)
        /\ (Grouped(q, p) => perm)
      BY <1>1, <1>4 DEF Heroic, Status
  <2>3. ASSUME NEW f \in BOOLEAN, f = perm, NEW can \in BOOLEAN, NEW load \in BOOLEAN
        PROVE  Loaded(q, BindPlayer(AddInstanceSave(q, i, can, load), p, i, f, load), on, p)
    <3> DEFINE d == AddInstanceSave(q, i, can, load)
               u == BindPlayer(d, p, i, f, load)
    <3>1. (f => heroic) /\ (Grouped(q, p) => f)
        BY <2>2, <2>3
    <3>2. /\ SoundBut(d, on, i, {}, {}) /\ d.saves[i] # NULL
          /\ q.saves[i] # NULL => d = q
          /\ Still(q, d) /\ d.bind = q.bind /\ d.gbind = q.gbind
          /\ d.char = q.char /\ d.valid = q.valid
        BY AddInstanceSaveSound
    <3> HIDE DEF d, perm
    <3>3. d.at[p] \in {0, i}
        BY <3>2 DEF Still
    <3>4. f => heroic /\ d.at[p] \in {0, i}
        BY <3>1, <3>3
    <3>5. /\ Sound(u, on) /\ KeptBut(d, u, {p})
          /\ Still(d, u) /\ u.gbind = d.gbind /\ u.valid = d.valid
          /\ u.bind = [d.bind EXCEPT ![p] = [id |-> i, perm |-> f]]
          /\ load => u.char = d.char
        BY <3>2, <3>4, BindPlayerSound
    <3> HIDE DEF u
    <3>6. KeptBut(q, u, {p}) /\ Still(q, u)
        BY <3>2, <3>5 DEF KeptBut, BoundForGood, Still
    <3>7. d.bind \in [Player -> Bind \cup {NULL}]
        BY <3>2, SoundIs, Fields
    <3>8. [id |-> i, perm |-> f] # NULL /\ [id |-> i, perm |-> f].perm = f
        BY NotNull
    <3>9. f => BoundForGood(u, p)
        BY <1>1, <3>5, <3>7, <3>8 DEF BoundForGood
    <3> QED
        BY <3>1, <3>5, <3>6, <3>9 DEF Loaded, u, d
  <2> HIDE DEF perm, r
  <2>4. Loaded(q, r, on, p)
      BY <2>1, <2>2, <2>3
  <2> QED
      BY <2>4 DEF r
<1> QED
    BY <1>2, <1>3, <1>4

\* And for all of them.
LEMMA LoadBindsSound ==
    ASSUME NEW q, NEW on, Sound(q, on), NEW p \in on, q.at[p] = 0, q.bind[p] = NULL
    PROVE  Loaded(q, LoadBinds(q, p), on, p)
<1> DEFINE n == MaxInstanceId
           P == {s \in State : Loaded(q, s, on, p)}
           F == [i \in 1..n |-> [s \in P |-> LoadBind(s, p, i)]]
           Step(h) == [i \in 0..n |-> IF i = 0 THEN q ELSE LoadBind(h[i - 1], p, i)]
<1>1. n \in Nat /\ 1..n = InstanceId
    BY MaxInstanceIdAssumption DEF InstanceId
<1>2. q \in P
  <2>1. Loaded(q, q, on, p)
      BY KeptSame DEF Loaded, Still
  <2>2. q \in State
      BY SoundIs DEF Sound
  <2> QED
      BY <2>1, <2>2
<1>3. ASSUME NEW s \in P, NEW i \in 1..n
      PROVE  LoadBind(s, p, i) \in P
  <2> DEFINE r == LoadBind(s, p, i)
  <2>1. /\ Sound(s, on) /\ KeptBut(q, s, {p}) /\ Still(q, s)
        /\ Grouped(q, p) => s.bind[p] = NULL \/ BoundForGood(s, p)
      BY DEF Loaded
  <2>2. s.at[p] = 0 /\ Grouped(s, p) = Grouped(q, p) /\ i \in InstanceId
      BY <1>1, <2>1, GroupsSame DEF Still
  <2>3. Loaded(s, r, on, p)
      BY <2>1, <2>2, LoadBindSound
  <2> HIDE DEF r
  <2>4. KeptBut(q, r, {p}) /\ Still(q, r)
      BY <2>1, <2>3, KeptTwice DEF Loaded, Still
  <2>5. Loaded(q, r, on, p) /\ r \in State
      BY <2>2, <2>3, <2>4, SoundIs DEF Loaded, Sound
  <2> QED
      BY <2>5 DEF r
<1> HIDE DEF n, P
<1>4. F \in [1..n -> [P -> P]]
    BY <1>3
<1>5. PICK g : IsFold(P, n, q, F, g)
    BY <1>1, <1>2, <1>4, FoldExists DEF HasFold
<1>6. g = Step(g)
  <2>1. g \in [0..n -> P] /\ g[0] = q /\ \A k \in 1..n : g[k] = F[k][g[k - 1]]
      BY <1>5 DEF IsFold
  <2>2. \A k \in 1..n : k \in 0..n /\ k - 1 \in 0..n
      BY <1>1
  <2>3. \A k \in 1..n : g[k] = LoadBind(g[k - 1], p, k)
      BY <2>1, <2>2
  <2>4. \A k \in 0..n : k = 0 \/ k \in 1..n
      BY <1>1
  <2> HIDE DEF F
  <2> QED
      BY <2>1, <2>3, <2>4
<1> DEFINE h == CHOOSE x : x = Step(x)
<1>7. h = Step(h)
    BY <1>6
<1>8. LoadBinds(q, p) = h[n]
    BY DEF LoadBinds, n
<1> HIDE DEF h, F
<1>9. h[0] = q /\ \A k \in 1..n : h[k] = LoadBind(h[k - 1], p, k)
  <2>1. 0 \in 0..n /\ \A k \in 1..n : k \in 0..n /\ k # 0
      BY <1>1
  <2> QED
      BY <1>7, <2>1
<1>10. h[n] \in P
  <2>1. h[0] \in P
      BY <1>2, <1>9
  <2>2. \A k \in 1..n : h[k - 1] \in P => h[k] \in P
      BY <1>3, <1>9
  <2>3. \A k \in 0..n : h[k] \in P
      BY <1>1, <2>1, <2>2, KeptBySteps
  <2> QED
      BY <1>1, <2>3
<1> QED
    BY <1>8, <1>10 DEF P

----------------------------------------------------------------------------
(* The actions.                                                            *)

\* Nothing is taken from those who are bound for good and online.
Stays ==
    \A p \in online : BoundForGood(Dungeon, p) =>
        /\ char'[p][bind[p].id] = char[p][bind[p].id]
        /\ p \in online' => bind'[p] = bind[p]

StepSound ==
    /\ Sound(Dungeon', online') /\ heroic' = heroic
    /\ to' \in [Player -> {"in", "out", "here"}]
    /\ position' \in [Player -> {0} \cup InstanceId]
    /\ \A p \in Player : to'[p] = "in" => at'[p] = 0
    /\ ResetAll \/ Stays

\* The state of the dungeon has the variables as its fields.
LEMMA DungeonIs ==
    /\ Dungeon.at = at /\ Dungeon.valid = valid /\ Dungeon.bind = bind
    /\ Dungeon.members = members /\ Dungeon.leader = leader /\ Dungeon.gbind = gbind
    /\ Dungeon.saves = saves /\ Dungeon.maps = maps /\ Dungeon.expiring = expiring
    /\ Dungeon.events = events /\ Dungeon.inst = inst /\ Dungeon.char = char
    /\ Dungeon.grp = grp /\ Dungeon.lastId = lastId
    BY DEF Dungeon

\* And what it becomes.
LEMMA BecomesIs ==
    ASSUME NEW q \in State, Becomes(q)
    PROVE  Dungeon' = q /\ at' = q.at /\ bind' = q.bind /\ char' = q.char
<1>1. /\ at' = q.at /\ valid' = q.valid /\ bind' = q.bind
      /\ members' = q.members /\ leader' = q.leader /\ gbind' = q.gbind
      /\ saves' = q.saves /\ maps' = q.maps /\ expiring' = q.expiring
      /\ events' = q.events /\ inst' = q.inst /\ char' = q.char
      /\ grp' = q.grp /\ lastId' = q.lastId
    BY DEF Becomes
<1>2. q = [at |-> q.at, valid |-> q.valid, bind |-> q.bind, members |-> q.members,
           leader |-> q.leader, gbind |-> q.gbind, saves |-> q.saves, maps |-> q.maps,
           expiring |-> q.expiring, events |-> q.events, inst |-> q.inst,
           char |-> q.char, grp |-> q.grp, lastId |-> q.lastId]
    BY DEF State
<1> QED
    BY <1>1, <1>2 DEF Dungeon

\* What a step must show.
LEMMA StepIs ==
    ASSUME DungeonInv, NEW q, Becomes(q), Sound(q, online'), heroic' = heroic,
           to' \in [Player -> {"in", "out", "here"}],
           position' \in [Player -> {0} \cup InstanceId],
           \A p \in Player : to'[p] = "in" => q.at[p] = 0,
           ResetAll \/
             \A p \in online : BoundForGood(Dungeon, p) =>
                /\ q.char[p][bind[p].id] = char[p][bind[p].id]
                /\ p \in online' => q.bind[p] = bind[p]
    PROVE  StepSound
<1>1. q \in State
    BY SoundIs DEF Sound
<1>2. Dungeon' = q /\ at' = q.at /\ bind' = q.bind /\ char' = q.char
    BY <1>1, BecomesIs
<1>3. ResetAll \/ Stays
    BY <1>2 DEF Stays
<1> QED
    BY <1>2, <1>3 DEF StepSound

\* A step that keeps the binds for good.
LEMMA KeptStep ==
    ASSUME DungeonInv, NEW q, Becomes(q), Sound(q, online'), Kept(Dungeon, q),
           heroic' = heroic, to' \in [Player -> {"in", "out", "here"}],
           position' \in [Player -> {0} \cup InstanceId],
           \A p \in Player : to'[p] = "in" => q.at[p] = 0
    PROVE  StepSound
<1>1. online \subseteq Player
    BY SoundIs DEF DungeonInv, Sound
<1>2. \A p \in online : BoundForGood(Dungeon, p) =>
        /\ q.char[p][bind[p].id] = char[p][bind[p].id] /\ q.bind[p] = bind[p]
    BY <1>1, DungeonIs DEF Kept, KeptBut
<1> QED
    BY <1>2, StepIs

\* A step in which nobody moves.
LEMMA QuietStep ==
    ASSUME DungeonInv, NEW q, Becomes(q), Sound(q, online), Kept(Dungeon, q), q.at = at,
           UNCHANGED <<heroic, online, to, position>>
    PROVE  StepSound
<1>1. /\ to \in [Player -> {"in", "out", "here"}]
      /\ position \in [Player -> {0} \cup InstanceId]
      /\ \A p \in Player : to[p] = "in" => at[p] = 0
    BY DEF DungeonInv
<1> QED
    BY <1>1, KeptStep

\* Player::TeleportTo the dungeon.
LEMMA TeleportInStep ==
    ASSUME DungeonInv, NEW p \in Player, TeleportIn(p)
    PROVE  StepSound
<1>1. /\ at[p] = 0 /\ to' = [to EXCEPT ![p] = "in"]
      /\ UNCHANGED <<dungeonVars, heroic, online, position>>
    BY DEF TeleportIn
<1>2. Becomes(Dungeon)
    BY <1>1 DEF Becomes, Dungeon, dungeonVars
<1>3. /\ to \in [Player -> {"in", "out", "here"}] /\ Sound(Dungeon, online)
      /\ position \in [Player -> {0} \cup InstanceId]
      /\ \A o \in Player : to[o] = "in" => at[o] = 0
    BY DEF DungeonInv
<1>4. /\ to' \in [Player -> {"in", "out", "here"}]
      /\ \A o \in Player : to'[o] = "in" => Dungeon.at[o] = 0
    BY <1>1, <1>3, DungeonIs
<1>5. Kept(Dungeon, Dungeon)
    BY KeptSame DEF Kept
<1>6. Sound(Dungeon, online') /\ heroic' = heroic
      /\ position' \in [Player -> {0} \cup InstanceId]
    BY <1>1, <1>3
<1> QED
    BY <1>2, <1>4, <1>5, <1>6, KeptStep

\* HandleMoveWorldportAck, in the dungeon.
LEMMA WorldportInStep ==
    ASSUME DungeonInv, NEW p \in Player, WorldportIn(p)
    PROVE  StepSound
<1> DEFINE r == Arrive(Dungeon, p)
<1>1. /\ p \in online /\ to[p] = "in" /\ InstanceFor(Dungeon, p, 0) \in InstanceId
      /\ Becomes(r) /\ to' = [to EXCEPT ![p] = "here"]
      /\ UNCHANGED <<heroic, online, position>>
    BY DEF WorldportIn
<1>2. /\ to \in [Player -> {"in", "out", "here"}] /\ Sound(Dungeon, online)
      /\ position \in [Player -> {0} \cup InstanceId]
      /\ \A o \in Player : to[o] = "in" => at[o] = 0
    BY DEF DungeonInv
<1>3. Dungeon.at[p] = 0
    BY <1>1, <1>2, DungeonIs
<1>4. /\ Sound(r, online) /\ Kept(Dungeon, r)
      /\ \A o \in Player \ {p} : r.at[o] = Dungeon.at[o]
    BY <1>1, <1>2, <1>3, ArriveSound
<1> HIDE DEF r
<1>5. /\ to' \in [Player -> {"in", "out", "here"}]
      /\ \A o \in Player : to'[o] = "in" => r.at[o] = 0
    BY <1>1, <1>2, <1>4, DungeonIs
<1>6. Sound(r, online') /\ heroic' = heroic
      /\ position' \in [Player -> {0} \cup InstanceId]
    BY <1>1, <1>2, <1>4
<1> QED
    BY <1>1, <1>4, <1>5, <1>6, KeptStep

\* Player::TeleportTo a place outside.
LEMMA TeleportOutStep ==
    ASSUME DungeonInv, NEW p \in Player, TeleportOut(p)
    PROVE  StepSound
<1> DEFINE r == RemovePlayerFromMap(Dungeon, at[p])
<1>1. /\ at[p] # 0 /\ Becomes(r) /\ to' = [to EXCEPT ![p] = "out"]
      /\ UNCHANGED <<heroic, online, position>>
    BY DEF TeleportOut
<1>2. /\ to \in [Player -> {"in", "out", "here"}] /\ Sound(Dungeon, online)
      /\ position \in [Player -> {0} \cup InstanceId]
      /\ \A o \in Player : to[o] = "in" => at[o] = 0
    BY DEF DungeonInv
<1>3. at[p] \in InstanceId
    BY <1>1, <1>2, DungeonIs, SoundIs, Fields DEF Sound
<1>4. /\ Sound(r, online) /\ Still(Dungeon, r) /\ r.valid = Dungeon.valid
      /\ r.bind = Dungeon.bind /\ r.gbind = Dungeon.gbind /\ r.char = Dungeon.char
    BY <1>2, <1>3, RemovePlayerFromMapSound
<1> HIDE DEF r
<1>5. /\ to' \in [Player -> {"in", "out", "here"}]
      /\ \A o \in Player : to'[o] = "in" => r.at[o] = 0
    BY <1>1, <1>2, <1>4, DungeonIs DEF Still
<1>6. Sound(r, online') /\ heroic' = heroic /\ Kept(Dungeon, r)
      /\ position' \in [Player -> {0} \cup InstanceId]
    BY <1>1, <1>2, <1>4, KeptUnchanged
<1> QED
    BY <1>1, <1>5, <1>6, KeptStep

\* HandleMoveWorldportAck, outside.
LEMMA WorldportOutStep ==
    ASSUME DungeonInv, NEW p \in Player, WorldportOut(p)
    PROVE  StepSound
<1> DEFINE r == Depart(Dungeon, p)
<1>1. /\ p \in online /\ Becomes(r) /\ to' = [to EXCEPT ![p] = "here"]
      /\ UNCHANGED <<heroic, online, position>>
    BY DEF WorldportOut
<1>2. /\ to \in [Player -> {"in", "out", "here"}] /\ Sound(Dungeon, online)
      /\ position \in [Player -> {0} \cup InstanceId]
      /\ \A o \in Player : to[o] = "in" => at[o] = 0
    BY DEF DungeonInv
<1>3. at \in [Player -> {0} \cup InstanceId]
    BY <1>2, DungeonIs, SoundIs, Fields DEF Sound
<1>4. /\ Sound(r, online) /\ r.at = [at EXCEPT ![p] = 0]
      /\ r.bind = Dungeon.bind /\ r.char = Dungeon.char
    BY <1>1, <1>2, DepartSound, DungeonIs
<1> HIDE DEF r
<1>5. /\ to' \in [Player -> {"in", "out", "here"}]
      /\ \A o \in Player : to'[o] = "in" => r.at[o] = 0
    BY <1>1, <1>2, <1>3, <1>4
<1>6. Sound(r, online') /\ heroic' = heroic /\ Kept(Dungeon, r)
      /\ position' \in [Player -> {0} \cup InstanceId]
    BY <1>1, <1>2, <1>4, KeptUnchanged
<1> QED
    BY <1>1, <1>5, <1>6, KeptStep

\* HandleGroupAccept.
LEMMA GroupAcceptStep ==
    ASSUME DungeonInv, NEW l \in Player, NEW p \in Player, GroupAccept(l, p)
    PROVE  StepSound
<1>1. /\ p \in online /\ UNCHANGED <<heroic, online, to, position>>
      /\ \/ /\ Grouped(Dungeon, l)
            /\ Becomes(AddMember(Dungeon, GroupOf(Dungeon, l), p))
         \/ \E g \in Group : Becomes(AddMember(CreateGroup(Dungeon, g, l), g, p))
    BY DEF GroupAccept
<1>2. Sound(Dungeon, online)
    BY DEF DungeonInv
<1>3. Dungeon \in State /\ Placed(Dungeon, online)
    BY <1>2, SoundIs DEF Sound
<1>4. CASE Grouped(Dungeon, l) /\ Becomes(AddMember(Dungeon, GroupOf(Dungeon, l), p))
  <2> DEFINE g == GroupOf(Dungeon, l)
             r == AddMember(Dungeon, g, p)
  <2>1. g \in Group /\ Dungeon.leader[g] # NULL
      BY <1>3, <1>4, GroupOfIn, NotNull
  <2> HIDE DEF g
  <2>2. Sound(r, online) /\ Kept(Dungeon, r) /\ r.at = Dungeon.at
      BY <1>2, <2>1, AddMemberSound
  <2>3. Becomes(r)
      BY <1>4 DEF g
  <2> HIDE DEF r
  <2> QED
      BY <1>1, <2>2, <2>3, QuietStep, DungeonIs
<1>5. ASSUME NEW g \in Group, Becomes(AddMember(CreateGroup(Dungeon, g, l), g, p))
      PROVE  StepSound
  <2> DEFINE c == CreateGroup(Dungeon, g, l)
             r == AddMember(c, g, p)
  <2>1. /\ Sound(c, online) /\ Kept(Dungeon, c) /\ c.at = Dungeon.at
        /\ c.leader[g] # NULL
      BY <1>2, CreateGroupSound
  <2> HIDE DEF c
  <2>2. Sound(r, online) /\ Kept(c, r) /\ r.at = c.at
      BY <2>1, AddMemberSound
  <2>3. Becomes(r)
      BY <1>5 DEF c
  <2> HIDE DEF r
  <2>4. Kept(Dungeon, r)
      BY <2>1, <2>2, KeptTwice DEF Kept
  <2> QED
      BY <1>1, <2>1, <2>2, <2>3, <2>4, QuietStep, DungeonIs
<1> QED
    BY <1>1, <1>4, <1>5

\* HandleGroupLeave.
LEMMA GroupLeaveStep ==
    ASSUME DungeonInv, NEW p \in Player, GroupLeave(p)
    PROVE  StepSound
<1> DEFINE g == GroupOf(Dungeon, p)
           r == RemoveMember(Dungeon, g, p)
<1>1. /\ Grouped(Dungeon, p) /\ Becomes(r)
      /\ UNCHANGED <<heroic, online, to, position>>
    BY DEF GroupLeave
<1>2. Sound(Dungeon, online)
    BY DEF DungeonInv
<1>3. Dungeon \in State /\ Placed(Dungeon, online)
    BY <1>2, SoundIs DEF Sound
<1>4. g \in Group /\ p \in ToSet(Dungeon.members[g])
    BY <1>1, <1>3, GroupOfIn
<1> HIDE DEF g
<1>5. Sound(r, online) /\ Kept(Dungeon, r) /\ r.at = Dungeon.at
    BY <1>2, <1>4, RemoveMemberSound
<1> HIDE DEF r
<1> QED
    BY <1>1, <1>5, QuietStep, DungeonIs

\* HandleGroupSetLeader.
LEMMA GroupSetLeaderStep ==
    ASSUME DungeonInv, NEW p \in Player, GroupSetLeader(p)
    PROVE  StepSound
<1> DEFINE g == GroupOf(Dungeon, p)
           r == SetLeader(Dungeon, g, p)
<1>1. /\ Grouped(Dungeon, p) /\ Becomes(r)
      /\ UNCHANGED <<heroic, online, to, position>>
    BY DEF GroupSetLeader
<1>2. Sound(Dungeon, online)
    BY DEF DungeonInv
<1>3. Dungeon \in State /\ Placed(Dungeon, online)
    BY <1>2, SoundIs DEF Sound
<1>4. g \in Group /\ Dungeon.leader[g] # NULL
    BY <1>1, <1>3, GroupOfIn, NotNull
<1> HIDE DEF g
<1>5. Sound(r, online) /\ Kept(Dungeon, r) /\ r.at = Dungeon.at
    BY <1>2, <1>4, SetLeaderSound
<1> HIDE DEF r
<1> QED
    BY <1>1, <1>5, QuietStep, DungeonIs

\* InstanceMap::PermBindAllPlayers.
LEMMA KillBossStep ==
    ASSUME DungeonInv, NEW p \in Player, KillBoss(p)
    PROVE  StepSound
<1> DEFINE i == at[p]
           g == GroupOf(Dungeon, p)
           all == BindInside(Dungeon, i)
           both == BindGroup(all, g, i, TRUE, FALSE)
<1>1. /\ heroic /\ i # 0 /\ saves[i] # NULL
      /\ \/ Grouped(Dungeon, p) /\ Becomes(both)
         \/ Becomes(all)
      /\ UNCHANGED <<heroic, online, to, position>>
    BY DEF KillBoss
<1>2. Sound(Dungeon, online)
    BY DEF DungeonInv
<1>3. Dungeon \in State /\ Placed(Dungeon, online)
    BY <1>2, SoundIs DEF Sound
<1>4. i \in InstanceId /\ Dungeon.saves[i] # NULL
    BY <1>1, <1>3, DungeonIs, Fields
<1> HIDE DEF i
<1>5. /\ Sound(all, online) /\ Kept(Dungeon, all) /\ Still(Dungeon, all)
      /\ all.saves[i] # NULL
    BY <1>1, <1>2, <1>4, BindInsideSound
<1>6. all.at = at
    BY <1>5, DungeonIs DEF Still
<1> HIDE DEF all
<1>7. CASE Grouped(Dungeon, p) /\ Becomes(both)
  <2>1. g \in Group /\ Dungeon.leader[g] # NULL
      BY <1>3, <1>7, GroupOfIn, NotNull
  <2>2. all.leader[g] # NULL
      BY <1>5, <2>1 DEF Still
  <2> HIDE DEF g
  <2>3. SoundBut(all, online, i, {}, {})
      BY <1>4, <1>5, SoundFor
  <2>4. ASSUME NEW perm \in BOOLEAN, NEW load \in BOOLEAN
        PROVE  LET r == BindGroup(all, g, i, perm, load) IN
               /\ Sound(r, online)
               /\ Still(all, r) /\ r.bind = all.bind /\ r.valid = all.valid
               /\ r.char = all.char
               /\ r.gbind = [all.gbind EXCEPT ![g] = [id |-> i, perm |-> perm]]
      BY <1>1, <1>4, <1>5, <2>1, <2>2, <2>3, BindGroupSound
  <2>5. /\ Sound(both, online) /\ Still(all, both) /\ both.bind = all.bind
        /\ both.char = all.char
      BY <2>4
  <2> HIDE DEF both
  <2>6. Kept(all, both)
      BY <2>5, KeptUnchanged
  <2>7. Kept(Dungeon, both) /\ both.at = at
      BY <1>5, <1>6, <2>5, <2>6, KeptTwice DEF Kept, Still
  <2> QED
      BY <1>1, <1>7, <2>5, <2>7, QuietStep
<1>8. CASE Becomes(all)
    BY <1>1, <1>5, <1>6, <1>8, QuietStep
<1> QED
    BY <1>1, <1>7, <1>8

\* HandleResetInstances.
LEMMA ResetInstancesStep ==
    ASSUME DungeonInv, NEW p \in Player, ResetInstances(p)
    PROVE  StepSound
<1> DEFINE g == GroupOf(Dungeon, p)
           s == ResetGroup(Dungeon, g, "all")
           t == ResetPlayer(Dungeon, p, "all")
<1>1. /\ \/ Grouped(Dungeon, p) /\ Becomes(s)
         \/ Becomes(t)
      /\ UNCHANGED <<heroic, online, to, position>>
    BY DEF ResetInstances
<1>2. Sound(Dungeon, online)
    BY DEF DungeonInv
<1>3. Dungeon \in State /\ Placed(Dungeon, online)
    BY <1>2, SoundIs DEF Sound
<1>4. CASE Grouped(Dungeon, p) /\ Becomes(s)
  <2>1. g \in Group
      BY <1>3, <1>4, GroupOfIn
  <2> HIDE DEF g
  <2>2. Sound(s, online) /\ Kept(Dungeon, s) /\ Still(Dungeon, s)
      BY <1>2, <2>1, ResetGroupSound
  <2> HIDE DEF s
  <2>3. s.at = at
      BY <2>2, DungeonIs DEF Still
  <2> QED
      BY <1>1, <1>4, <2>2, <2>3, QuietStep
<1>5. CASE Becomes(t)
  <2>1. Sound(t, online) /\ Kept(Dungeon, t) /\ Still(Dungeon, t)
      BY <1>2, ResetPlayerSound
  <2> HIDE DEF t
  <2>2. t.at = at
      BY <2>1, DungeonIs DEF Still
  <2> QED
      BY <1>1, <1>5, <2>1, <2>2, QuietStep
<1> QED
    BY <1>1, <1>4, <1>5

\* InstanceSaveManager::_ResetInstance: only a normal dungeon has events, and nobody
\* is bound to it for good.
LEMMA ResetInstanceStep ==
    ASSUME DungeonInv, NEW i \in InstanceId, ResetInstance(i)
    PROVE  StepSound
<1> DEFINE a == ResetSave(Dungeon, {i})
           b == DeleteInstanceFromDB(a, {i})
           r == ResetMap(b, {i}, "respawn")
<1>1. /\ i \in events /\ UNCHANGED <<heroic, online, to, position>>
      /\ \E left \in {events, events \ {i}} : Becomes([r EXCEPT !.events = left])
    BY DEF ResetInstance
<1>2. Sound(Dungeon, online)
    BY DEF DungeonInv
<1>3. Dungeon \in State /\ Heroic(Dungeon)
    BY <1>2, SoundIs DEF Sound
<1>4. ~heroic /\ \A p \in Player : ~BoundForGood(Dungeon, p)
    BY <1>1, <1>3, DungeonIs DEF Heroic
<1>5. Sound(a, online) /\ Still(Dungeon, a)
  <2>1. {i} \in SUBSET InstanceId
      OBVIOUS
  <2> QED
      BY <1>2, <2>1, ResetSaveSound
<1> HIDE DEF a
<1>6. Sound(b, online) /\ Still(a, b)
    BY <1>5, DeleteInstanceFromDBSound DEF Sound
<1> HIDE DEF b
<1>7. Sound(r, online) /\ Still(b, r)
    BY <1>6, ResetMapSound
<1> HIDE DEF r
<1>8. r.at = at
    BY <1>5, <1>6, <1>7, DungeonIs DEF Still
<1>9. ASSUME NEW left \in {events, events \ {i}}, NEW q, q = [r EXCEPT !.events = left],
             Becomes(q)
      PROVE  StepSound
  <2>1. r \in State /\ online \in SUBSET Player /\ Placed(r, online) /\ ForGood(r)
      BY <1>7, SoundIs DEF Sound
  <2>2. left \subseteq InstanceId
      BY <1>3, <1>9, DungeonIs, Fields
  <2>3. q \in State
      BY <1>9, <2>1, <2>2 DEF State
  <2>4. /\ q.at = r.at /\ q.valid = r.valid /\ q.bind = r.bind /\ q.members = r.members
        /\ q.leader = r.leader /\ q.gbind = r.gbind /\ q.saves = r.saves
        /\ q.maps = r.maps /\ q.char = r.char
      BY <1>9, <2>1 DEF State
  <2>5. Placed(q, online)
      BY <2>1, <2>4 DEF Placed
  <2>6. \A p \in Player : BoundForGood(r, p) => q.at[p] \in {0, r.bind[p].id}
      BY <2>1, <2>4 DEF ForGood
  <2>7. Sound(q, online)
      BY <1>4, <1>7, <2>1, <2>3, <2>4, <2>5, <2>6, SoundMoved DEF Sound
  <2>8. Kept(Dungeon, q)
      BY <1>4 DEF Kept, KeptBut
  <2> QED
      BY <1>1, <1>8, <1>9, <2>4, <2>7, <2>8, QuietStep
<1> QED
    BY <1>1, <1>9

\* InstanceSaveManager::_ResetOrWarnAll, which alone takes binds for good.
LEMMA ResetAllStep ==
    ASSUME DungeonInv, ResetAll
    PROVE  StepSound
<1> DEFINE a == ResetSave(Dungeon, InstanceId)
           b == DeleteInstanceFromDB(a, inst)
           r == ResetMap(b, maps, "global")
<1>1. /\ UNCHANGED <<heroic, online, to, position>> /\ Becomes(r)
    BY DEF ResetAll
<1>2. Sound(Dungeon, online)
    BY DEF DungeonInv
<1>3. Sound(a, online) /\ Still(Dungeon, a)
  <2>1. InstanceId \in SUBSET InstanceId
      OBVIOUS
  <2> QED
      BY <1>2, <2>1, ResetSaveSound
<1> HIDE DEF a
<1>4. Sound(b, online) /\ Still(a, b)
    BY <1>3, DeleteInstanceFromDBSound DEF Sound
<1> HIDE DEF b
<1>5. Sound(r, online) /\ Still(b, r)
    BY <1>4, ResetMapSound
<1> HIDE DEF r
<1>6. r.at = at
    BY <1>3, <1>4, <1>5, DungeonIs DEF Still
<1>7. /\ to' \in [Player -> {"in", "out", "here"}]
      /\ position' \in [Player -> {0} \cup InstanceId]
      /\ \A p \in Player : to'[p] = "in" => r.at[p] = 0
      /\ Sound(r, online') /\ heroic' = heroic
    BY <1>1, <1>5, <1>6 DEF DungeonInv
<1> QED
    BY <1>1, <1>7, StepIs

\* MapInstanced::Update destroys a map with nobody inside.
LEMMA UnloadMapStep ==
    ASSUME DungeonInv, NEW i \in InstanceId, UnloadMap(i)
    PROVE  StepSound
<1> DEFINE q == Dungeon
           r == [q EXCEPT !.maps = q.maps \ {i}, !.expiring = q.expiring \ {i}]
<1>1. /\ ~HavePlayers(q, i) /\ UNCHANGED <<heroic, online, to, position>>
      /\ Becomes(r)
    BY DEF UnloadMap
<1>2. Sound(q, online)
    BY DEF DungeonInv
<1>3. \A p \in Player : q.at[p] # i
    BY <1>1 DEF HavePlayers, Inside
<1> HIDE DEF q
<1>4. /\ q \in State /\ online \in SUBSET Player /\ Placed(q, online) /\ ForGood(q)
      /\ Heroic(q)
    BY <1>2, SoundIs DEF Sound
<1>5. r \in State
    BY <1>4 DEF State
<1>6. /\ r.at = q.at /\ r.valid = q.valid /\ r.bind = q.bind /\ r.members = q.members
      /\ r.leader = q.leader /\ r.gbind = q.gbind /\ r.saves = q.saves
      /\ r.maps = q.maps \ {i} /\ r.char = q.char /\ r.events = q.events
    BY <1>4 DEF State
<1> HIDE DEF r
<1>7. Placed(r, online)
    BY <1>3, <1>4, <1>6 DEF Placed
<1>8. \A p \in Player : BoundForGood(q, p) => r.at[p] \in {0, q.bind[p].id}
    BY <1>4, <1>6 DEF ForGood
<1>9. heroic => r.events = {}
    BY <1>4, <1>6 DEF Heroic
<1>10. Sound(r, online)
    BY <1>2, <1>4, <1>5, <1>6, <1>7, <1>8, <1>9, SoundMoved DEF Sound
<1>11. Kept(q, r)
    BY <1>6, KeptUnchanged DEF Kept
<1> QED
    BY <1>1, <1>6, <1>10, <1>11, QuietStep, DungeonIs DEF q

\* Who logs in is put into the dungeon where he may join, or where there is a save.
LEMMA LoggedInSound ==
    ASSUME NEW q, NEW on, Sound(q, on), NEW p \in on, NEW wanted \in {0} \cup InstanceId,
           wanted # 0 => SaveOf(q, p) \in {0, wanted},
           Grouped(q, p) => q.bind[p] = NULL \/ BoundForGood(q, p),
           InstanceFor(q, p, wanted) \in InstanceId
    PROVE  LET i == InstanceFor(q, p, wanted)
               r == CreateInstanceForPlayer(q, p, wanted)
               joined == AddPlayerToMap(Checked([r EXCEPT !.at[p] = i], p), p, i)
           IN /\ Sound(joined, on) /\ Kept(q, joined)
              /\ \A o \in Player \ {p} : joined.at[o] = q.at[o]
<1> DEFINE i == InstanceFor(q, p, wanted)
           r == CreateInstanceForPlayer(q, p, wanted)
           put == [r EXCEPT !.at[p] = i]
           in == Checked(put, p)
           joined == AddPlayerToMap(in, p, i)
           grouped == /\ ~BoundForGood(q, p) /\ wanted = 0
                      /\ Grouped(q, p) /\ q.gbind[GroupOf(q, p)] # NULL
<1>1. /\ q \in State /\ Placed(q, on) /\ p \in Player
      /\ q.bind \in [Player -> Bind \cup {NULL}] /\ q.gbind \in [Group -> Bind \cup {NULL}]
      /\ q.at \in [Player -> {0} \cup InstanceId]
    BY SoundIs, Fields DEF Sound
<1>2. i \in InstanceId /\ i # 0
    BY NotNull
<1>3. /\ Sound(r, on) /\ Kept(q, r)
      /\ r.at = q.at /\ r.valid = q.valid /\ r.members = q.members
      /\ r.leader = q.leader /\ r.gbind = q.gbind /\ i \in r.maps
      /\ r.bind = IF grouped THEN [q.bind EXCEPT ![p] = NULL] ELSE q.bind
    BY <1>1, <1>2, CreateInstanceForPlayerSound
<1>4. MayJoin(r, p, i) \/ r.saves[i] # NULL
  <2>1. CASE wanted = 0
      BY <1>1, <1>2, <2>1, MayJoinOrSaved
  <2>2. CASE wanted # 0
    <3>1. MayJoin(q, p, i)
      <4>1. CASE BoundForGood(q, p)
          BY <4>1 DEF MayJoin, InstanceFor, BoundTo, BoundForGood
      <4>2. CASE ~BoundForGood(q, p) /\ Grouped(q, p)
        <5>1. q.bind[p] = NULL /\ GroupOf(q, p) \in Group /\ i = wanted
            BY <1>1, <1>2, <2>2, <4>2, GroupOfIn DEF InstanceFor
        <5>2. q.gbind[GroupOf(q, p)] = NULL \/ q.gbind[GroupOf(q, p)].id = i
            BY <1>1, <2>2, <4>2, <5>1, NotNull DEF SaveOf
        <5> QED
            BY <4>2, <5>1, <5>2 DEF MayJoin, BoundTo
      <4>3. CASE ~BoundForGood(q, p) /\ ~Grouped(q, p)
        <5>1. i = wanted
            BY <1>2, <2>2, <4>3 DEF InstanceFor
        <5>2. q.bind[p] = NULL \/ q.bind[p].id = i
            BY <1>1, <2>2, <4>3, <5>1, NotNull DEF SaveOf
        <5> QED
            BY <4>3, <5>2 DEF MayJoin, BoundTo
      <4> QED
          BY <4>1, <4>2, <4>3
    <3>2. r.bind = q.bind
        BY <1>3, <2>2
    <3> HIDE DEF r, i
    <3> QED
        BY <1>3, <3>1, <3>2, MayJoinSame
  <2> QED
      BY <2>1, <2>2
<1>5. BoundForGood(r, p) => i \in {0, r.bind[p].id}
  <2>1. SUFFICES ASSUME BoundForGood(r, p) PROVE i = r.bind[p].id
      OBVIOUS
  <2>2. r.bind = q.bind
      BY <1>1, <1>3, <2>1 DEF BoundForGood
  <2>3. BoundForGood(q, p)
      BY <2>1, <2>2 DEF BoundForGood
  <2> QED
      BY <2>2, <2>3 DEF InstanceFor
<1> HIDE DEF r, i
<1>6. /\ Sound(put, on) /\ put.at = [q.at EXCEPT ![p] = i]
      /\ put.bind = r.bind /\ put.members = r.members
      /\ put.gbind = r.gbind /\ put.saves = r.saves /\ put.char = r.char
  <2>1. Sound(r, on) /\ i \in {0} \cup r.maps /\ r.at = q.at /\ i # 0
      BY <1>2, <1>3
  <2>2. LET s == [r EXCEPT !.at[p] = i] IN
        /\ Sound(s, on) /\ s.at = [r.at EXCEPT ![p] = i]
        /\ s.valid = r.valid /\ s.bind = r.bind /\ s.members = r.members
        /\ s.leader = r.leader /\ s.gbind = r.gbind /\ s.saves = r.saves
        /\ s.maps = r.maps /\ s.char = r.char /\ s.lastId = r.lastId
      BY <1>5, <2>1, PutSound
  <2> HIDE DEF put
  <2> QED
      BY <2>1, <2>2 DEF put
<1>7. put.at[p] = i
    BY <1>1, <1>6
<1> HIDE DEF put
<1>8. /\ Sound(in, on) /\ Still(put, in) /\ in.bind = put.bind
      /\ in.gbind = put.gbind /\ in.saves = put.saves /\ in.char = put.char
    BY <1>1, <1>2, <1>6, <1>7, CheckedSound
<1> HIDE DEF in
<1>9. in.at[p] = i /\ in.members = r.members
    BY <1>6, <1>7, <1>8 DEF Still
<1>10. MayJoin(in, p, i) \/ in.saves[i] # NULL
    BY <1>4, <1>6, <1>8, <1>9, MayJoinSame
<1>11. Sound(joined, on) /\ Kept(in, joined) /\ Still(in, joined)
    BY <1>2, <1>8, <1>9, <1>10, AddPlayerToMapSound
<1> HIDE DEF joined
<1>12. Kept(r, in)
    BY <1>6, <1>8, KeptUnchanged
<1>13. Kept(q, joined)
    BY <1>3, <1>11, <1>12, KeptTwice DEF Kept
<1>14. \A o \in Player \ {p} : joined.at[o] = q.at[o]
    BY <1>1, <1>6, <1>8, <1>11 DEF Still
<1> QED
    BY <1>11, <1>13, <1>14 DEF joined, in, put, r, i

\* Player::LoadFromDB: he was bound to nothing and nowhere before.
LEMMA LoginStep ==
    ASSUME DungeonInv, NEW p \in Player, Login(p)
    PROVE  StepSound
<1> DEFINE v == [Dungeon EXCEPT !.valid[p] = TRUE]
           q == LoadBinds(v, p)
           wanted == IF SaveOf(q, p) \in {0, position[p]} THEN position[p] ELSE 0
           i == InstanceFor(q, p, wanted)
           r == CreateInstanceForPlayer(q, p, wanted)
           in == Checked([r EXCEPT !.at[p] = i], p)
           joined == AddPlayerToMap(in, p, i)
           may == MayJoin(AddInstanceSave(in, i, TRUE, FALSE), p, i)
           on == online \cup {p}
<1>1. /\ p \notin online /\ online' = on /\ heroic' = heroic
      /\ position' = [position EXCEPT ![p] = 0]
      /\ \/ Becomes(q) /\ to' = to
         \/ i = 0 /\ Becomes(r) /\ to' = to
         \/ /\ i \in InstanceId /\ Becomes(joined)
            /\ to' = [to EXCEPT ![p] = IF may THEN "here" ELSE "out"]
    BY DEF Login
<1>2. /\ to \in [Player -> {"in", "out", "here"}] /\ Sound(Dungeon, online)
      /\ position \in [Player -> {0} \cup InstanceId]
      /\ \A o \in Player : to[o] = "in" => at[o] = 0
    BY DEF DungeonInv
<1>3. Dungeon.at[p] = 0 /\ Dungeon.bind[p] = NULL /\ online \subseteq Player
    BY <1>1, <1>2, SoundIs DEF Sound, Placed
<1>4. /\ Sound(v, online) /\ Still(Dungeon, v) /\ v.bind = Dungeon.bind
      /\ v.char = Dungeon.char
    BY <1>2, MadeValidSound
<1> HIDE DEF v
<1>5. Sound(v, on) /\ v.at[p] = 0 /\ v.bind[p] = NULL
    BY <1>3, <1>4, OnlineSound DEF Still
<1>6. p \in on
    OBVIOUS
<1> HIDE DEF on
<1>7. Loaded(v, q, on, p)
    BY <1>5, <1>6, LoadBindsSound
<1> HIDE DEF q
<1>8. /\ Sound(q, on) /\ KeptBut(v, q, {p}) /\ Still(v, q)
      /\ Grouped(q, p) => q.bind[p] = NULL \/ BoundForGood(q, p)
    BY <1>7, GroupsSame DEF Loaded, Still
<1>9. q.at = at
    BY <1>4, <1>8, DungeonIs DEF Still
<1>10. KeptBut(Dungeon, v, {p})
    BY <1>4, KeptUnchanged DEF Kept, KeptBut
<1>11. KeptBut(Dungeon, q, {p})
    BY <1>8, <1>10, KeptTwice
<1>12. position' \in [Player -> {0} \cup InstanceId]
    BY <1>1, <1>2
\* Nobody else is touched.
<1>13. ASSUME NEW s, Becomes(s), Sound(s, on), KeptBut(q, s, {p}),
              to' \in [Player -> {"in", "out", "here"}],
              \A o \in Player : to'[o] = "in" => s.at[o] = 0
       PROVE  StepSound
  <2>1. KeptBut(Dungeon, s, {p})
      BY <1>11, <1>13, KeptTwice
  <2>2. \A o \in online : BoundForGood(Dungeon, o) =>
          s.char[o][bind[o].id] = char[o][bind[o].id] /\ s.bind[o] = bind[o]
      BY <1>1, <1>3, <2>1, DungeonIs DEF KeptBut
  <2>3. Sound(s, online')
      BY <1>1, <1>13
  <2> QED
      BY <1>1, <1>12, <1>13, <2>2, <2>3, StepIs
<1>14. CASE Becomes(q) /\ to' = to
  <2>1. KeptBut(q, q, {p})
      BY KeptSame
  <2> QED
      BY <1>2, <1>8, <1>9, <1>13, <1>14, <2>1
<1>15. CASE i = 0 /\ Becomes(r) /\ to' = to
  <2>1. r = q
      BY <1>15 DEF CreateInstanceForPlayer
  <2> HIDE DEF r
  <2>2. Becomes(q)
      BY <1>15, <2>1
  <2> QED
      BY <1>14, <1>15, <2>2
<1>16. CASE /\ i \in InstanceId /\ Becomes(joined)
            /\ to' = [to EXCEPT ![p] = IF may THEN "here" ELSE "out"]
  <2>1. /\ wanted \in {0} \cup InstanceId
        /\ wanted # 0 => SaveOf(q, p) \in {0, wanted}
      BY <1>2
  <2> HIDE DEF wanted
  <2>2. /\ Sound(joined, on) /\ Kept(q, joined)
        /\ \A o \in Player \ {p} : joined.at[o] = q.at[o]
      BY <1>6, <1>8, <1>16, <2>1, LoggedInSound
  <2> HIDE DEF joined
  <2>3. KeptBut(q, joined, {p})
      BY <2>2 DEF Kept, KeptBut
  <2>4. /\ to' \in [Player -> {"in", "out", "here"}] /\ to'[p] # "in"
        /\ \A o \in Player \ {p} : to'[o] = to[o]
    <3> HIDE DEF may
    <3> QED
        BY <1>2, <1>16
  <2>5. \A o \in Player : to'[o] = "in" => joined.at[o] = 0
      BY <1>2, <1>9, <2>2, <2>4
  <2> QED
      BY <1>13, <1>16, <2>2, <2>3, <2>4, <2>5
<1> QED
    BY <1>1, <1>14, <1>15, <1>16

\* Who leaves is no longer inside, and valid.
LEMMA OutSound ==
    ASSUME NEW q, NEW on, Sound(q, on), NEW p \in on
    PROVE  LET i == q.at[p]
               r == IF i = 0 THEN q ELSE [StartUnloadTimer(q, i) EXCEPT !.at[p] = 0]
               w == [r EXCEPT !.valid[p] = TRUE]
           IN /\ Sound(w, on) /\ w.at = [q.at EXCEPT ![p] = 0]
              /\ w.bind = q.bind /\ w.char = q.char
<1> DEFINE i == q.at[p]
           t == StartUnloadTimer(q, i)
           u == [t EXCEPT !.at[p] = 0]
           r == IF i = 0 THEN q ELSE u
           w == [r EXCEPT !.valid[p] = TRUE]
<1>1. p \in Player /\ q.at \in [Player -> {0} \cup InstanceId]
    BY SoundIs, Fields DEF Sound
<1>2. CASE i = 0
  <2>1. r = q /\ w = [q EXCEPT !.valid[p] = TRUE]
      BY <1>2
  <2>2. LET s == [q EXCEPT !.valid[p] = TRUE] IN
        Sound(s, on) /\ Still(q, s) /\ s.bind = q.bind /\ s.char = q.char
      BY <1>1, MadeValidSound
  <2> HIDE DEF r, w
  <2>3. Sound(w, on) /\ Still(q, w) /\ w.bind = q.bind /\ w.char = q.char
      BY <2>1, <2>2
  <2>4. w.at = [q.at EXCEPT ![p] = 0]
      BY <1>1, <1>2, <2>3 DEF Still
  <2> QED
      BY <2>3, <2>4 DEF w, r
<1>3. CASE i # 0
  <2>1. i \in InstanceId
      BY <1>1, <1>3
  <2>2. r = u /\ w = [u EXCEPT !.valid[p] = TRUE]
      BY <1>3
  <2> HIDE DEF r, w, i
  <2>3. Sound(t, on) /\ Still(q, t) /\ t.bind = q.bind /\ t.char = q.char
      BY <2>1, StartUnloadTimerSound
  <2> HIDE DEF t
  <2>4. t \in State
      BY <2>3, SoundIs DEF Sound
  <2>5. w = Depart(t, p)
      BY <2>2, <2>4 DEF Depart, State
  <2>6. LET s == Depart(t, p) IN
        /\ Sound(s, on) /\ s.at = [t.at EXCEPT ![p] = 0] /\ s.valid[p]
        /\ s.bind = t.bind /\ s.members = t.members /\ s.leader = t.leader
        /\ s.gbind = t.gbind /\ s.char = t.char
      BY <2>3, DepartSound
  <2>7. /\ Sound(w, on) /\ w.at = [t.at EXCEPT ![p] = 0]
        /\ w.bind = t.bind /\ w.char = t.char
      BY <2>5, <2>6
  <2>8. /\ Sound(w, on) /\ w.at = [q.at EXCEPT ![p] = 0]
        /\ w.bind = q.bind /\ w.char = q.char
      BY <2>3, <2>7 DEF Still
  <2> QED
      BY <2>8 DEF w, r, t, i
<1> QED
    BY <1>2, <1>3

\* A character who is neither bound nor inside may be taken from those online.
LEMMA OfflineSound ==
    ASSUME NEW q, NEW on, Sound(q, on), NEW p \in Player, q.bind[p] = NULL, q.at[p] = 0
    PROVE  Sound(q, on \ {p})
<1> DEFINE o == on \ {p}
<1>1. q \in State /\ on \subseteq Player /\ Placed(q, on) /\ ForGood(q) /\ Heroic(q)
    BY SoundIs DEF Sound
<1>2. o \in SUBSET Player /\ Placed(q, o)
    BY <1>1 DEF Placed
<1> HIDE DEF o
<1>3. \A x \in Player : BoundForGood(q, x) => q.at[x] \in {0, q.bind[x].id}
    BY <1>1 DEF ForGood
<1>4. heroic => q.events = {}
    BY <1>1 DEF Heroic
<1>5. Sound(q, o)
    BY <1>1, <1>2, <1>3, <1>4, SoundMoved DEF Sound
<1> QED
    BY <1>5 DEF o

\* WorldSession::LogoutPlayer: he is bound to nothing and nowhere after it.
LEMMA LogoutPlayerStep ==
    ASSUME DungeonInv, NEW p \in Player, LogoutPlayer(p)
    PROVE  StepSound
<1> DEFINE left == IF to[p] = "in" THEN Arrive(Dungeon, p)
                   ELSE IF to[p] = "out" THEN Depart(Dungeon, p)
                   ELSE IF valid[p] THEN Dungeon
                   ELSE Depart(RemovePlayerFromMap(Dungeon, at[p]), p)
           i == left.at[p]
           r == IF i = 0 THEN left
                ELSE [StartUnloadTimer(left, i) EXCEPT !.at[p] = 0]
           w == [r EXCEPT !.valid[p] = TRUE]
           gone == UnbindPlayer(w, p, TRUE)
           f == IF i = 0 THEN gone ELSE SetResetSchedule(gone, i, TRUE)
<1>1. /\ p \in online
      /\ to[p] = "in" => InstanceFor(Dungeon, p, 0) \in InstanceId
      /\ Becomes(f) /\ position' = [position EXCEPT ![p] = i]
      /\ online' = online \ {p} /\ to' = [to EXCEPT ![p] = "here"] /\ heroic' = heroic
    BY DEF LogoutPlayer
<1>2. /\ to \in [Player -> {"in", "out", "here"}] /\ Sound(Dungeon, online)
      /\ position \in [Player -> {0} \cup InstanceId]
      /\ \A o \in Player : to[o] = "in" => at[o] = 0
    BY DEF DungeonInv
<1>3. /\ Dungeon \in State /\ Placed(Dungeon, online)
      /\ at \in [Player -> {0} \cup InstanceId]
    BY <1>2, SoundIs, Fields, DungeonIs DEF Sound
<1>4. /\ Sound(left, online) /\ Kept(Dungeon, left)
      /\ \A o \in Player \ {p} : left.at[o] = at[o]
  <2>1. CASE to[p] = "in"
    <3>1. left = Arrive(Dungeon, p)
        BY <2>1
    <3>2. Dungeon.at[p] = 0
        BY <1>2, <2>1, DungeonIs
    <3> HIDE DEF left
    <3> QED
        BY <1>1, <1>2, <2>1, <3>1, <3>2, ArriveSound, DungeonIs
  <2>2. CASE to[p] = "out"
    <3>1. left = Depart(Dungeon, p)
        BY <2>2
    <3> HIDE DEF left
    <3>2. /\ Sound(left, online) /\ left.at = [at EXCEPT ![p] = 0]
          /\ left.bind = Dungeon.bind /\ left.char = Dungeon.char
        BY <1>1, <1>2, <3>1, DepartSound, DungeonIs
    <3> QED
        BY <1>3, <3>2, KeptUnchanged
  <2>3. CASE to[p] \notin {"in", "out"} /\ valid[p]
    <3>1. left = Dungeon
        BY <2>3
    <3> HIDE DEF left
    <3> QED
        BY <1>2, <3>1, KeptSame, DungeonIs DEF Kept
  <2>4. CASE to[p] \notin {"in", "out"} /\ ~valid[p]
    <3> DEFINE m == RemovePlayerFromMap(Dungeon, at[p])
    <3>1. left = Depart(m, p)
        BY <2>4
    <3> HIDE DEF left
    <3>2. at[p] \in InstanceId
        BY <1>3, <2>4, DungeonIs DEF Placed
    <3>3. /\ Sound(m, online) /\ Still(Dungeon, m)
          /\ m.bind = Dungeon.bind /\ m.char = Dungeon.char
        BY <1>2, <3>2, RemovePlayerFromMapSound
    <3> HIDE DEF m
    <3>4. m.at = at
        BY <3>3, DungeonIs DEF Still
    <3>5. LET s == Depart(m, p) IN
          /\ Sound(s, online) /\ s.at = [m.at EXCEPT ![p] = 0] /\ s.valid[p]
          /\ s.bind = m.bind /\ s.members = m.members /\ s.leader = m.leader
          /\ s.gbind = m.gbind /\ s.char = m.char
        BY <1>1, <3>3, DepartSound
    <3>6. /\ Sound(left, online) /\ left.at = [at EXCEPT ![p] = 0]
          /\ left.bind = m.bind /\ left.char = m.char
        BY <3>1, <3>4, <3>5
    <3> QED
        BY <1>3, <3>3, <3>6, KeptUnchanged
  <2> HIDE DEF left
  <2> QED
      BY <2>1, <2>2, <2>3, <2>4
<1> HIDE DEF left
<1>5. left.at \in [Player -> {0} \cup InstanceId]
    BY <1>4, SoundIs, Fields DEF Sound
<1>6. i \in {0} \cup InstanceId
    BY <1>3, <1>5
<1>7. /\ Sound(w, online) /\ w.at = [left.at EXCEPT ![p] = 0]
      /\ w.bind = left.bind /\ w.char = left.char
  <2>1. LET h == left.at[p]
            s == IF h = 0 THEN left ELSE [StartUnloadTimer(left, h) EXCEPT !.at[p] = 0]
            v == [s EXCEPT !.valid[p] = TRUE]
        IN /\ Sound(v, online) /\ v.at = [left.at EXCEPT ![p] = 0]
           /\ v.bind = left.bind /\ v.char = left.char
      BY <1>1, <1>4, OutSound
  <2> QED
      BY <2>1
<1> HIDE DEF r, w, i
<1>8. w.at[p] = 0 /\ \A o \in Player \ {p} : w.at[o] = at[o]
    BY <1>4, <1>5, <1>7
<1>9. /\ Sound(gone, online) /\ KeptBut(w, gone, {p}) /\ Still(w, gone)
      /\ gone.bind = [w.bind EXCEPT ![p] = NULL] /\ gone.char = w.char
  <2>1. ASSUME NEW unload \in BOOLEAN
        PROVE  LET s == UnbindPlayer(w, p, unload) IN
               /\ Sound(s, online) /\ KeptBut(w, s, {p})
               /\ Still(w, s) /\ s.bind = [w.bind EXCEPT ![p] = NULL]
               /\ s.gbind = w.gbind /\ s.valid = w.valid
               /\ unload => s.char = w.char
      BY <1>7, UnbindPlayerSound
  <2> QED
      BY <2>1
<1> HIDE DEF gone
<1>10. gone.bind \in [Player -> Bind \cup {NULL}] /\ w.bind \in [Player -> Bind \cup {NULL}]
    BY <1>7, <1>9, SoundIs, Fields DEF Sound
<1>11. /\ Sound(f, online) /\ Still(gone, f) /\ f.bind = gone.bind /\ f.char = gone.char
  <2>1. CASE i = 0
      BY <1>9, <2>1 DEF Still
  <2>2. CASE i # 0
    <3>1. i \in InstanceId /\ f = SetResetSchedule(gone, i, TRUE)
        BY <1>6, <2>2
    <3> HIDE DEF f
    <3>2. ASSUME NEW b \in BOOLEAN
          PROVE  LET s == SetResetSchedule(gone, i, b) IN
                 /\ Sound(s, online) /\ Still(gone, s) /\ s.bind = gone.bind
                 /\ s.valid = gone.valid
                 /\ s.char = gone.char /\ s.gbind = gone.gbind /\ s.saves = gone.saves
        BY <1>9, <3>1, SetResetScheduleSound
    <3> QED
        BY <3>1, <3>2
  <2> QED
      BY <2>1, <2>2
<1> HIDE DEF f
<1>12. f.bind[p] = NULL /\ f.at[p] = 0 /\ \A o \in Player \ {p} : f.at[o] = at[o]
    BY <1>8, <1>9, <1>10, <1>11 DEF Still
<1>13. Sound(f, online')
    BY <1>1, <1>11, <1>12, OfflineSound
<1>14. \A o \in online : BoundForGood(Dungeon, o) =>
         /\ f.char[o][bind[o].id] = char[o][bind[o].id]
         /\ o \in online' => f.bind[o] = bind[o]
  <2>1. ASSUME NEW o \in online, BoundForGood(Dungeon, o)
        PROVE  /\ f.char[o][bind[o].id] = char[o][bind[o].id]
               /\ o \in online' => f.bind[o] = bind[o]
    <3>1. o \in Player
        BY <1>2, SoundIs DEF Sound
    <3>2. left.bind[o] = bind[o] /\ left.char[o][bind[o].id] = char[o][bind[o].id]
        BY <1>4, <2>1, <3>1, DungeonIs DEF Kept, KeptBut
    <3>3. f.char = left.char
        BY <1>7, <1>9, <1>11
    <3>4. o # p => f.bind[o] = left.bind[o]
        BY <1>7, <1>9, <1>10, <1>11, <3>1
    <3> QED
        BY <1>1, <3>2, <3>3, <3>4
  <2> QED
      BY <2>1
<1>15. /\ to' \in [Player -> {"in", "out", "here"}]
       /\ position' \in [Player -> {0} \cup InstanceId]
       /\ \A o \in Player : to'[o] = "in" => f.at[o] = 0
    BY <1>1, <1>2, <1>6, <1>12
<1> QED
    BY <1>1, <1>13, <1>14, <1>15, StepIs

----------------------------------------------------------------------------
(* The theorems.                                                           *)

\* Every step is sound.
LEMMA NextStep ==
    ASSUME DungeonInv, Next
    PROVE  StepSound
<1>1. ASSUME NEW p \in Player,
             \/ TeleportIn(p) \/ WorldportIn(p) \/ TeleportOut(p) \/ WorldportOut(p)
             \/ GroupLeave(p) \/ GroupSetLeader(p)
             \/ KillBoss(p) \/ ResetInstances(p)
             \/ Login(p) \/ LogoutPlayer(p)
             \/ \E o \in Player : GroupAccept(o, p)
      PROVE  StepSound
  <2>1. CASE TeleportIn(p) \/ WorldportIn(p) \/ TeleportOut(p) \/ WorldportOut(p)
      BY <2>1, TeleportInStep, WorldportInStep, TeleportOutStep, WorldportOutStep
  <2>2. CASE GroupLeave(p) \/ GroupSetLeader(p) \/ \E o \in Player : GroupAccept(o, p)
      BY <2>2, GroupLeaveStep, GroupSetLeaderStep, GroupAcceptStep
  <2>3. CASE KillBoss(p) \/ ResetInstances(p)
      BY <2>3, KillBossStep, ResetInstancesStep
  <2>4. CASE Login(p) \/ LogoutPlayer(p)
      BY <2>4, LoginStep, LogoutPlayerStep
  <2> QED
      BY <1>1, <2>1, <2>2, <2>3, <2>4
<1>2. ASSUME NEW i \in InstanceId, ResetInstance(i) \/ UnloadMap(i)
      PROVE  StepSound
    BY <1>2, ResetInstanceStep, UnloadMapStep
<1>3. CASE ResetAll
    BY <1>3, ResetAllStep
<1> QED
    BY <1>1, <1>2, <1>3 DEF Next

\* So is the beginning.
LEMMA InitSound ==
    ASSUME Init
    PROVE  DungeonInv
<1>1. /\ heroic \in BOOLEAN /\ online = Player
      /\ at = [p \in Player |-> 0] /\ to = [p \in Player |-> "here"]
      /\ valid = [p \in Player |-> TRUE] /\ bind = [p \in Player |-> NULL]
      /\ members = [g \in Group |-> <<>>] /\ leader = [g \in Group |-> NULL]
      /\ gbind = [g \in Group |-> NULL] /\ saves = [i \in InstanceId |-> NULL]
      /\ maps = {} /\ expiring = {} /\ events = {} /\ inst = {}
      /\ char = [p \in Player |-> NoRow] /\ grp = [p \in Player |-> NoRow]
      /\ position = [p \in Player |-> 0] /\ lastId = 0
    BY DEF Init
<1> DEFINE q == Dungeon
<1>2. /\ q.at = at /\ q.valid = valid /\ q.bind = bind /\ q.members = members
      /\ q.leader = leader /\ q.gbind = gbind /\ q.saves = saves /\ q.maps = maps
      /\ q.events = events /\ q.char = char
    BY DungeonIs
<1>3. NoRow \in Rows /\ \A i \in InstanceId : NoRow[i] = "none"
    BY DEF NoRow, Rows, Status
<1>4. q \in State
  <2>1. <<>> \in Seq(Player)
      OBVIOUS
  <2>2. /\ at \in [Player -> {0} \cup InstanceId] /\ valid \in [Player -> BOOLEAN]
        /\ bind \in [Player -> Bind \cup {NULL}] /\ members \in [Group -> Seq(Player)]
        /\ leader \in [Group -> Player \cup {NULL}] /\ gbind \in [Group -> Bind \cup {NULL}]
        /\ saves \in [InstanceId -> Save \cup {NULL}] /\ maps \in SUBSET InstanceId
        /\ expiring \in SUBSET InstanceId /\ events \in SUBSET InstanceId
        /\ inst \in SUBSET InstanceId /\ char \in [Player -> Rows]
        /\ grp \in [Player -> Rows] /\ lastId \in {0} \cup InstanceId
      BY <1>1, <1>3, <2>1
  <2> QED
      BY <2>2 DEF Dungeon, State
<1> HIDE DEF q
<1>5. Listed(q, 0, {}, {}) /\ Needed(q, 0)
    BY <1>1, <1>2 DEF Listed, Needed
<1>6. Placed(q, online)
    BY <1>1, <1>2 DEF Placed
<1>7. \A p \in Player : ~BoundForGood(q, p)
    BY <1>1, <1>2 DEF BoundForGood
<1>8. ForGood(q) /\ Heroic(q)
    BY <1>1, <1>2, <1>3, <1>7 DEF ForGood, Heroic
<1>9. Sound(q, online)
    BY <1>1, <1>4, <1>5, <1>6, <1>8 DEF Sound, SoundBut
<1> QED
    BY <1>1, <1>9 DEF DungeonInv, q

\* The invariant of the next state is that of what the dungeon becomes.
LEMMA SoundNext ==
    ASSUME heroic' = heroic
    PROVE  Sound(Dungeon, online)' <=> Sound(Dungeon', online')
    BY DEF Sound, SoundBut, Heroic, Listed, Needed, Placed, ForGood, BoundForGood,
           BoundTo, State

\* A step that changes nothing keeps the invariant and takes nothing.
LEMMA Stutter ==
    ASSUME DungeonInv, UNCHANGED vars
    PROVE  DungeonInv' /\ Stays
<1>1. UNCHANGED <<at, valid, bind, members, leader, gbind, saves, maps, expiring,
                  events, inst, char, grp, lastId, heroic, online, to, position>>
    BY DEF vars, dungeonVars
<1>2. Dungeon' = Dungeon
    BY <1>1 DEF Dungeon
<1>3. Sound(Dungeon', online')
    BY <1>1, <1>2 DEF DungeonInv
<1>4. Sound(Dungeon, online)'
    BY <1>1, <1>3, SoundNext
<1>5. DungeonInv'
    BY <1>1, <1>4 DEF DungeonInv
<1> QED
    BY <1>1, <1>5, <1>2 DEF Stays

\* The invariant holds in the next state, and who is bound for good stays so.
LEMMA InvariantKept ==
    ASSUME DungeonInv, [Next]_vars
    PROVE  DungeonInv' /\ (ResetAll \/ Stays)
<1>1. CASE Next
  <2>1. StepSound
      BY <1>1, NextStep
  <2>2. Sound(Dungeon, online)'
      BY <2>1, SoundNext DEF StepSound
  <2> QED
      BY <2>1, <2>2 DEF StepSound, DungeonInv
<1>2. CASE UNCHANGED vars
    BY <1>2, Stutter
<1> QED
    BY <1>1, <1>2

\* The saves, their lists and the binds agree, and the rest of the invariant, at
\* every step of every handler (InstanceSaveMgr.cpp, Group.cpp, Player.cpp).
THEOREM DungeonInvariant == Spec => []DungeonInv
<1>1. Init => DungeonInv
    BY InitSound
<1>2. DungeonInv /\ [Next]_vars => DungeonInv'
    BY InvariantKept
<1> QED
    BY <1>1, <1>2, PTL DEF Spec

\* What the invariant says of the saves, with the lists as sets.
LEMMA InvariantSaves ==
    ASSUME DungeonInv
    PROVE  SavesSound
<1> DEFINE q == Dungeon
<1>1. Sound(q, online)
    BY DEF DungeonInv
<1>2. /\ q.at = at /\ q.valid = valid /\ q.bind = bind
      /\ q.leader = leader /\ q.gbind = gbind /\ q.saves = saves /\ q.maps = maps
    BY DungeonIs
<1> HIDE DEF q
<1>3. q \in State /\ Listed(q, 0, {}, {}) /\ Needed(q, 0) /\ Placed(q, online)
    BY <1>1, SoundIs DEF Sound
<1>4. /\ q.bind \in [Player -> Bind \cup {NULL}] /\ q.gbind \in [Group -> Bind \cup {NULL}]
      /\ q.saves \in [InstanceId -> Save \cup {NULL}]
    BY <1>3, Fields
<1>5. ASSUME NEW i \in InstanceId
      PROVE  LET players == {p \in Player : BoundTo(bind[p], i)}
                 groups == {g \in Group : BoundTo(gbind[g], i)}
             IN IF saves[i] = NULL THEN players = {} /\ groups = {}
                ELSE /\ saves[i].players = players /\ saves[i].groups = groups
                     /\ players # {} \/ groups # {}
  <2> DEFINE P == {p \in Player : BoundTo(bind[p], i)}
             G == {g \in Group : BoundTo(gbind[g], i)}
  <2>1. /\ \A p \in Player : BoundTo(bind[p], i) =>
              saves[i] # NULL /\ p \in saves[i].players
        /\ \A g \in Group : BoundTo(gbind[g], i) =>
              saves[i] # NULL /\ g \in saves[i].groups
      BY <1>2, <1>3 DEF Listed, BoundTo
  <2>2. CASE saves[i] = NULL
    <3>1. P = {} /\ G = {}
        BY <2>1, <2>2
    <3> QED
        BY <2>2, <3>1
  <2>3. CASE saves[i] # NULL
    <3>1. saves[i].players \subseteq Player /\ saves[i].groups \subseteq Group
        BY <1>2, <1>4, <2>3, NotNull
    <3>2. /\ \A p \in saves[i].players : BoundTo(bind[p], i)
          /\ \A g \in saves[i].groups : BoundTo(gbind[g], i)
        BY <1>2, <1>3, <2>3 DEF Listed
    <3>3. saves[i].players = P /\ saves[i].groups = G
        BY <2>1, <3>1, <3>2
    <3>4. saves[i].players # {} \/ saves[i].groups # {}
        BY <1>2, <1>3, <2>3, NotNull DEF Needed
    <3> QED
        BY <2>3, <3>3, <3>4
  <2> QED
      BY <2>2, <2>3
<1>6. /\ \A p \in Player :
           /\ bind[p] # NULL => p \in online
           /\ at[p] # 0 => p \in online /\ at[p] \in maps
           /\ ~valid[p] => at[p] # 0
      /\ \A g \in Group : gbind[g] # NULL => leader[g] # NULL
    BY <1>2, <1>3 DEF Placed
<1> QED
    BY <1>5, <1>6 DEF SavesSound

\* No bind points to a save that was deleted, no save is left without a bind, and
\* the lists of a save are the binds (InstanceSaveMgr.cpp, Player.cpp, Group.cpp).
THEOREM SavesAreSound == Spec => []SavesSound
<1>1. DungeonInv => SavesSound
    BY InvariantSaves
<1> QED
    BY <1>1, DungeonInvariant, PTL

\* Who is bound for good is in no other copy, and his copy cannot be reset by
\* players (Player::BindToInstance, ResetInstances).
THEOREM ForGoodIsSound == Spec => []BoundForGoodSound
<1>1. DungeonInv => BoundForGoodSound
  <2>1. ASSUME DungeonInv PROVE ForGood(Dungeon)
      BY <2>1, SoundIs DEF DungeonInv, Sound
  <2> QED
      BY <2>1, DungeonIs DEF ForGood, BoundForGoodSound
<1> QED
    BY <1>1, DungeonInvariant, PTL

\* Only the reset of the dungeon takes a bind for good from somebody online, and
\* his row stays when he leaves (InstanceSaveManager::_ResetOrWarnAll).
THEOREM ForGoodIsKept == Spec => BindForGoodKept
<1>1. DungeonInv /\ [Next]_vars =>
        [ResetAll \/
         \A p \in online : BoundForGood(Dungeon, p) =>
             /\ char'[p][bind[p].id] = char[p][bind[p].id]
             /\ p \in online' => bind'[p] = bind[p]]_vars
    BY InvariantKept DEF Stays
<1> QED
    BY <1>1, DungeonInvariant, PTL DEF Spec, BindForGoodKept

=============================================================================
