--------------------------- MODULE InstanceSaves ---------------------------
(***************************************************************************)
(* The copies (instances) of one dungeon: the saves that keep a copy while *)
(* it is bound to characters or groups, the binds in memory and in the     *)
(* database, the maps with the characters inside, groups that form, change *)
(* their leader and end, and the resets.                                   *)
(*                                                                         *)
(*   game/Instances/InstanceSaveMgr.cpp   the saves, resets and start      *)
(*   game/Groups/Group.cpp                binds of groups, membership      *)
(*   game/Entities/Player/Player.cpp      binds of characters, login       *)
(*   game/Maps/Map.cpp, MapInstanced.cpp  entering, leaving, unloading     *)
(*                                                                         *)
(* The dungeon is played at one difficulty.  heroic says which: a heroic   *)
(* dungeon binds for good those who kill a boss and is reset at a fixed    *)
(* hour, a normal one is reset by an event of its own.  A handler runs on  *)
(* the main thread and is one action.  The statements it delays are        *)
(* executed in order, and queries wait for them (SqlDelay): the tables are *)
(* what they become when all are executed.  Everybody is online at first   *)
(* and has seen no instance.                                               *)
(***************************************************************************)
EXTENDS Naturals, FiniteSets, Sequences, SequencesExt

CONSTANTS
    Player,         \* characters
    Group,          \* places for groups
    MaxInstanceId,  \* bound: instances with a number
    MaxHandlers,    \* bound: handlers of players that run
    NULL

ASSUME MaxInstanceIdAssumption == MaxInstanceId \in Nat \ {0}
ASSUME MaxHandlersAssumption == MaxHandlers \in Nat
ASSUME PlayerAssumption == IsFiniteSet(Player)

InstanceId == 1..MaxInstanceId

\* InstancePlayerBind or InstanceGroupBind, with the id of its save; InstanceSave.
Bind == [id : InstanceId, perm : BOOLEAN]
Save == [players : SUBSET Player, groups : SUBSET Group, canReset : BOOLEAN]

ASSUME NullAssumption == NULL \notin Player \cup Group \cup Bind \cup Save

VARIABLES
    heroic,     \* IsHeroic of the maps
    online,     \* characters with a Player object
    at,         \* the instance whose m_mapRefManager has him, or 0
    to,         \* where the teleport under way leads: "in", "out", or "here"
    valid,      \* m_InstanceValid
    bind,       \* Player::m_boundInstances, for this dungeon
    members,    \* Group::m_memberSlots
    leader,     \* Group::m_leaderGuid
    gbind,      \* Group::m_boundInstances
    saves,      \* InstanceSaveManager::m_instanceSaveById
    maps,       \* MapInstanced::m_InstancedMaps
    expiring,   \* the maps whose m_unloadTimer runs
    events,     \* the instances with events in m_resetTimeQueue
    inst,       \* table instance
    char,       \* table character_instance
    grp,        \* table group_instance, by leaderGuid
    position,   \* characters.instance_id
    lastId,     \* MapManager::i_MaxInstanceId
    handled     \* how many handlers have run

dungeonVars == <<at, valid, bind, members, leader, gbind, saves, maps, expiring,
                 events, inst, char, grp, lastId>>
vars == <<dungeonVars, heroic, online, to, position, handled>>

\* A row of character_instance or group_instance, and its column permanent.
NoRow == [i \in InstanceId |-> "none"]
Permanent(perm) == IF perm THEN "permanent" ELSE "temporary"

Init ==
    /\ heroic \in BOOLEAN
    /\ online = Player
    /\ at = [p \in Player |-> 0]
    /\ to = [p \in Player |-> "here"]
    /\ valid = [p \in Player |-> TRUE]
    /\ bind = [p \in Player |-> NULL]
    /\ members = [g \in Group |-> <<>>]
    /\ leader = [g \in Group |-> NULL]
    /\ gbind = [g \in Group |-> NULL]
    /\ saves = [i \in InstanceId |-> NULL]
    /\ maps = {} /\ expiring = {} /\ events = {} /\ inst = {}
    /\ char = [p \in Player |-> NoRow]
    /\ grp = [p \in Player |-> NoRow]
    /\ position = [p \in Player |-> 0]
    /\ lastId = 0
    /\ handled = 0

----------------------------------------------------------------------------
(* The functions, which take the state q of the dungeon and give the next. *)

Dungeon == [at |-> at, valid |-> valid, bind |-> bind, members |-> members,
            leader |-> leader, gbind |-> gbind, saves |-> saves, maps |-> maps,
            expiring |-> expiring, events |-> events, inst |-> inst,
            char |-> char, grp |-> grp, lastId |-> lastId]

Becomes(next) ==
    \E q \in {next} :
        /\ at' = q.at /\ valid' = q.valid /\ bind' = q.bind
        /\ members' = q.members /\ leader' = q.leader /\ gbind' = q.gbind
        /\ saves' = q.saves /\ maps' = q.maps /\ expiring' = q.expiring
        /\ events' = q.events /\ inst' = q.inst /\ char' = q.char
        /\ grp' = q.grp /\ lastId' = q.lastId

GroupsOf(q, p) == {g \in Group : p \in ToSet(q.members[g])}
Grouped(q, p) == GroupsOf(q, p) # {}
GroupOf(q, p) == CHOOSE g \in Group : p \in ToSet(q.members[g])

Inside(q, i) == {p \in Player : q.at[p] = i}
HavePlayers(q, i) == Inside(q, i) # {}

BoundTo(b, i) == b # NULL /\ b.id = i

\* What INSERT makes of the rows of one character; a duplicate key fails.
Inserted(rows, i, perm) ==
    IF rows[i] = "none" THEN [rows EXCEPT ![i] = Permanent(perm)] ELSE rows

\* UPDATE of the row of instance j to instance i.
Updated(rows, j, i, perm) ==
    IF rows[j] = "none" \/ (i # j /\ rows[i] # "none") THEN rows
    ELSE [rows EXCEPT ![j] = "none", ![i] = Permanent(perm)]

\* The statement of BindToInstance, when the old bind is old.
Written(rows, old, i, perm) ==
    IF old = NULL THEN Inserted(rows, i, perm)
    ELSE IF old.id = i /\ old.perm = perm THEN rows
    ELSE Updated(rows, old.id, i, perm)

\* The rows of a character without those of these instances.
Without(rows, is) == [i \in InstanceId |-> IF i \in is THEN "none" ELSE rows[i]]

\* For each of these instances.
DeleteInstanceFromDB(q, is) ==
    [q EXCEPT !.inst = @ \ is,
              !.char = [p \in Player |-> Without(@[p], is)],
              !.grp = [p \in Player |-> Without(@[p], is)]]

AddInstanceSave(q, i, canReset, load) ==
    IF q.saves[i] # NULL THEN q
    ELSE [q EXCEPT
            !.saves[i] = [players |-> {}, groups |-> {}, canReset |-> canReset],
            !.inst = IF load THEN @ ELSE @ \cup {i},
            !.events = IF load \/ heroic THEN @ ELSE @ \cup {i}]

UnloadIfEmpty(q, i) ==
    IF q.saves[i].players = {} /\ q.saves[i].groups = {}
    THEN [q EXCEPT !.saves[i] = NULL] ELSE q

RemovePlayer(q, p, i) ==
    UnloadIfEmpty([q EXCEPT !.saves[i].players = @ \ {p}], i)
RemoveGroup(q, g, i) ==
    UnloadIfEmpty([q EXCEPT !.saves[i].groups = @ \ {g}], i)

\* Mutant: a bind for good leaves the save as it was.
BindPlayerResettable(q, p, i, perm, load) ==
    LET old == q.bind[p]
        r == [q EXCEPT !.char[p] = IF load THEN @ ELSE Written(@, old, i, perm),
                       !.bind[p] = [id |-> i, perm |-> perm],
                       !.saves[i].players = @ \cup {p}]
    IN IF old = NULL \/ BoundTo(old, i) THEN r ELSE RemovePlayer(r, p, old.id)

\* Player::BindToInstance.
BindPlayer(q, p, i, perm, load) ==
    LET old == q.bind[p]
        r == [q EXCEPT !.char[p] = IF load THEN @ ELSE Written(@, old, i, perm),
                       !.bind[p] = [id |-> i, perm |-> perm],
                       !.saves[i].players = @ \cup {p},
                       !.saves[i].canReset = @ /\ ~perm]
    IN IF old = NULL \/ BoundTo(old, i) THEN r ELSE RemovePlayer(r, p, old.id)

\* Player::UnbindInstance.
UnbindPlayer(q, p, unload) ==
    IF q.bind[p] = NULL THEN q
    ELSE LET i == q.bind[p].id IN
         RemovePlayer([q EXCEPT !.bind[p] = NULL,
                                !.char[p][i] = IF unload THEN @ ELSE "none"], p, i)

\* Mutant: the save of the old bind keeps the group in its list.
BindGroupKeepsOld(q, g, i, perm, load) ==
    [q EXCEPT !.grp[q.leader[g]] = IF load THEN @ ELSE Written(@, q.gbind[g], i, perm),
              !.gbind[g] = [id |-> i, perm |-> perm],
              !.saves[i].groups = @ \cup {g}]

\* Group::BindToInstance and UnbindInstance.
BindGroup(q, g, i, perm, load) ==
    LET old == q.gbind[g]
        l == q.leader[g]
        r == [q EXCEPT !.grp[l] = IF load THEN @ ELSE Written(@, old, i, perm),
                       !.gbind[g] = [id |-> i, perm |-> perm],
                       !.saves[i].groups = @ \cup {g}]
    IN IF old = NULL \/ BoundTo(old, i) THEN r ELSE RemoveGroup(r, g, old.id)

UnbindGroup(q, g) ==
    IF q.gbind[g] = NULL THEN q
    ELSE RemoveGroup([q EXCEPT !.gbind[g] = NULL], g, q.gbind[g].id)

\* ScheduleReset by InstanceMap::SetResetSchedule.
SetResetSchedule(q, i, on) ==
    IF heroic \/ HavePlayers(q, i) \/ q.saves[i] = NULL THEN q
    ELSE [q EXCEPT !.events = IF on THEN @ \cup {i} ELSE @ \ {i}]

\* InstanceMap::Reset of those of these maps that are loaded; it succeeds where
\* nobody is inside.
ResetMap(q, is, method) ==
    LET loaded == is \cap q.maps IN
    [q EXCEPT !.expiring = @ \cup {i \in loaded : ~HavePlayers(q, i)},
              !.valid = [p \in Player |->
                           @[p] /\ ~(method = "global" /\ q.at[p] \in loaded)]]

\* Player::ResetInstances, for this dungeon.
ResetPlayer(q, p, method) ==
    LET i == q.bind[p].id IN
    IF \/ q.bind[p] = NULL
       \/ ~q.saves[i].canReset
       \/ method = "all" /\ heroic
    THEN q
    ELSE LET r == ResetMap(q, {i}, method) IN
         IF HavePlayers(q, i) THEN r
         ELSE RemovePlayer([DeleteInstanceFromDB(r, {i}) EXCEPT !.bind[p] = NULL], p, i)

\* Mutant: a group that ends deletes its instance, whoever is bound to it.
ResetGroupDeletes(q, g, method) ==
    LET i == q.gbind[g].id IN
    IF \/ q.gbind[g] = NULL
       \/ ~q.saves[i].canReset /\ method # "disband"
       \/ method = "all" /\ heroic
    THEN q
    ELSE LET r == ResetMap(q, {i}, method)
         IN IF HavePlayers(q, i) /\ method # "disband" THEN r
            ELSE RemoveGroup([DeleteInstanceFromDB(r, {i}) EXCEPT !.gbind[g] = NULL], g, i)

\* Group::ResetInstances, for this dungeon.
ResetGroup(q, g, method) ==
    LET i == q.gbind[g].id
        canReset == q.saves[i].canReset
    IN IF \/ q.gbind[g] = NULL
          \/ ~canReset /\ method # "disband"
          \/ method = "all" /\ heroic
       THEN q
       ELSE LET r == IF canReset THEN ResetMap(q, {i}, method) ELSE q
                d == IF canReset THEN DeleteInstanceFromDB(r, {i})
                     ELSE [r EXCEPT !.grp = [p \in Player |-> Without(@[p], {i})]]
            IN IF HavePlayers(q, i) /\ method # "disband" THEN r
               ELSE RemoveGroup([d EXCEPT !.gbind[g] = NULL], g, i)

\* _ResetSave of each of these: all are unbound, in memory only.
ResetSave(q, is) ==
    LET loaded == {i \in is : q.saves[i] # NULL} IN
    [q EXCEPT
       !.bind = [p \in Player |->
                   IF \E i \in loaded : p \in q.saves[i].players THEN NULL ELSE @[p]],
       !.gbind = [g \in Group |->
                    IF \E i \in loaded : g \in q.saves[i].groups THEN NULL ELSE @[g]],
       !.saves = [i \in InstanceId |-> IF i \in is THEN NULL ELSE @[i]]]

----------------------------------------------------------------------------
(* Entering and leaving.                                                   *)

CreateMap(q, i) ==
    IF i \in q.maps THEN q
    ELSE [q EXCEPT !.maps = @ \cup {i}, !.expiring = @ \cup {i}]

BoundForGood(q, p) == q.bind[p] # NULL /\ q.bind[p].perm

\* The instance that MapInstanced::CreateInstanceForPlayer gives; 0 is none.
InstanceFor(q, p, login) ==
    IF BoundForGood(q, p) THEN q.bind[p].id
    ELSE IF login # 0 THEN (IF login \in q.maps THEN login ELSE 0)
    ELSE IF Grouped(q, p) /\ q.gbind[GroupOf(q, p)] # NULL
         THEN q.gbind[GroupOf(q, p)].id
    ELSE IF q.bind[p] # NULL THEN q.bind[p].id
    ELSE q.lastId + 1

CreateInstanceForPlayer(q, p, login) ==
    LET i == InstanceFor(q, p, login)
        r == IF /\ ~BoundForGood(q, p) /\ login = 0
                /\ Grouped(q, p) /\ q.gbind[GroupOf(q, p)] # NULL
             THEN UnbindPlayer(q, p, FALSE) ELSE q
    IN IF i = 0 THEN q
       ELSE CreateMap([r EXCEPT !.lastId = IF i > @ THEN i ELSE @], i)

\* InstanceMap::CannotEnter.
CannotEnter(q, p, i) == BoundForGood(q, p) /\ ~BoundTo(q.bind[p], i)

\* The tests of InstanceMap::AddPlayerToMap.
MayJoin(q, p, i) ==
    IF BoundForGood(q, p) THEN BoundTo(q.bind[p], i)
    ELSE IF Grouped(q, p)
         THEN /\ q.bind[p] = NULL
              /\ q.gbind[GroupOf(q, p)] = NULL \/ BoundTo(q.gbind[GroupOf(q, p)], i)
    ELSE q.bind[p] = NULL \/ BoundTo(q.bind[p], i)

\* InstanceMap::AddPlayerToMap, when he may join.
Join(q, p, i) ==
    LET g == GroupOf(q, p)
        r == IF BoundForGood(q, p) THEN q
             ELSE IF ~Grouped(q, p)
                  THEN (IF q.bind[p] = NULL THEN BindPlayer(q, p, i, FALSE, FALSE) ELSE q)
             ELSE IF q.gbind[g] = NULL THEN BindGroup(q, g, i, FALSE, FALSE)
             ELSE IF q.gbind[g].perm THEN BindPlayer(q, p, i, TRUE, FALSE)
             ELSE q
    IN [SetResetSchedule(r, i, FALSE) EXCEPT !.expiring = @ \ {i}]

AddPlayerToMap(q, p, i) ==
    LET r == AddInstanceSave(q, i, TRUE, FALSE)
    IN IF MayJoin(r, p, i) THEN Join(r, p, i) ELSE r

\* Player::CheckInstanceValidity, for someone inside.
CheckInstanceValidity(q, p) ==
    LET i == q.at[p] IN
    IF Grouped(q, p)
    THEN /\ BoundTo(q.gbind[GroupOf(q, p)], i)
         /\ \A o \in Inside(q, i) : q.valid[o] => GroupsOf(q, o) = GroupsOf(q, p)
    ELSE Inside(q, i) = {p} /\ BoundTo(q.bind[p], i)

Checked(q, p) == [q EXCEPT !.valid[p] = @ /\ CheckInstanceValidity(q, p)]

\* InstanceMap::RemovePlayerFromMap: the last player starts the unload timer.  At
\* a teleport he still counts as inside.
StartUnloadTimer(q, i) ==
    IF Cardinality(Inside(q, i)) = 1 THEN [q EXCEPT !.expiring = @ \cup {i}] ELSE q
RemovePlayerFromMap(q, i) == SetResetSchedule(StartUnloadTimer(q, i), i, TRUE)

----------------------------------------------------------------------------
(* The actions: teleports.                                                 *)

Handled == handled < MaxHandlers /\ handled' = handled + 1

\* TeleportTo with a dungeon as its target, and PlayerCannotEnter.
TeleportIn(p) ==
    /\ Handled /\ p \in online /\ at[p] = 0 /\ to[p] = "here"
    /\ Grouped(Dungeon, p) =>
         LET b == gbind[GroupOf(Dungeon, p)]
         IN b # NULL /\ b.id \in maps => ~CannotEnter(Dungeon, p, b.id)
    /\ to' = [to EXCEPT ![p] = "in"]
    /\ UNCHANGED <<dungeonVars, heroic, online, position>>

\* HandleMoveWorldportAck: he enters, or is sent to his home.
Arrive(q, p) ==
    LET i == InstanceFor(q, p, 0)
        r == CreateInstanceForPlayer(q, p, 0)
        in == AddPlayerToMap([r EXCEPT !.at[p] = i], p, i)
    IN IF CannotEnter(r, p, i) THEN r
       ELSE IF MayJoin(AddInstanceSave(r, i, TRUE, FALSE), p, i) THEN Checked(in, p)
       ELSE [in EXCEPT !.at[p] = 0]

WorldportIn(p) ==
    /\ Handled /\ p \in online /\ to[p] = "in"
    /\ InstanceFor(Dungeon, p, 0) \in InstanceId
    /\ Becomes(Arrive(Dungeon, p))
    /\ to' = [to EXCEPT ![p] = "here"]
    /\ UNCHANGED <<heroic, online, position>>

\* TeleportTo a place outside: by foot, or by UpdateHomebindTime.
TeleportOut(p) ==
    /\ Handled /\ p \in online /\ at[p] # 0 /\ to[p] = "here"
    /\ Becomes(RemovePlayerFromMap(Dungeon, at[p]))
    /\ to' = [to EXCEPT ![p] = "out"]
    /\ UNCHANGED <<heroic, online, position>>

\* Player::ResetMap, and he is valid again.
Depart(q, p) == [q EXCEPT !.at[p] = 0, !.valid[p] = TRUE]

WorldportOut(p) ==
    /\ Handled /\ p \in online /\ to[p] = "out"
    /\ Becomes(Depart(Dungeon, p))
    /\ to' = [to EXCEPT ![p] = "here"]
    /\ UNCHANGED <<heroic, online, position>>

----------------------------------------------------------------------------
(* Groups.                                                                 *)

\* Group::_homebindIfInstance for these, where they are in the world.
HomebindIfInstance(q, ps) ==
    LET sent == {p \in ps \cap online : q.at[p] # 0 /\
                   ~(q.saves[q.at[p]] # NULL /\ BoundForGood(q, p))}
    IN [q EXCEPT !.valid = [p \in Player |-> @[p] /\ p \notin sent]]

RowsOf(rows) == {i \in InstanceId : rows[i] # "none"}

\* INSERT ... SELECT and UPDATE of many rows fail when one key is there already.
Conflict(rows, from) == RowsOf(rows) \cap RowsOf(from) # {}
Copied(rows, from) ==
    IF Conflict(rows, from) THEN rows
    ELSE [i \in InstanceId |-> IF from[i] = "none" THEN rows[i] ELSE from[i]]

WithoutTemporary(rows) ==
    [i \in InstanceId |-> IF rows[i] = "temporary" THEN "none" ELSE rows[i]]

\* Player::ConvertInstancesToGroup.
ConvertInstancesToGroup(q, g, p) ==
    LET b == q.bind[p]
        r == IF b = NULL THEN q
             ELSE LET c == BindGroup(q, g, b.id, b.perm, TRUE)
                  IN IF b.perm THEN c ELSE UnbindPlayer(c, p, TRUE)
        s == IF p \notin online \/ b # NULL
             THEN [r EXCEPT !.grp[p] = Copied(@, q.char[p])] ELSE r
    IN IF p \notin online \/ (b # NULL /\ ~b.perm)
       THEN [s EXCEPT !.char[p] = WithoutTemporary(@)] ELSE s

\* Group::_setLeader.  Its statements are one transaction, which one failure
\* rolls back.
SetLeader(q, g, p) ==
    LET l == q.leader[g]
        kept == [i \in InstanceId |->
                   IF q.grp[l][i] = "permanent" \/ q.char[p][i] # "none"
                   THEN "none" ELSE q.grp[l][i]]
        r == IF p \in online /\ q.gbind[g] # NULL /\ q.gbind[g].perm
             THEN UnbindGroup(q, g) ELSE q
        taken == [r.grp EXCEPT ![l] = NoRow]
        moved == [r EXCEPT !.grp = [taken EXCEPT ![p] = Copied(taken[p], kept)]]
        next == [ConvertInstancesToGroup(moved, g, p) EXCEPT !.leader[g] = p]
        copies == p \notin online \/ q.bind[p] # NULL
    IN IF \/ Conflict(q.grp[p], kept)
          \/ copies /\ Conflict(moved.grp[p], q.char[p])
       THEN [next EXCEPT !.char = q.char, !.grp = q.grp] ELSE next

\* Group::_addMember.
AddToMembers(q, g, p) ==
    LET r == [q EXCEPT !.members[g] = Append(@, p)]
    IN IF to[p] = "here" /\ q.at[p] # 0 /\ BoundTo(q.gbind[g], q.at[p])
       THEN [r EXCEPT !.valid[p] = TRUE] ELSE r

\* Group::AddMember.
AddMember(q, g, p) ==
    LET r == AddToMembers(q, g, p)
    IN IF p = q.leader[g] THEN r ELSE ResetPlayer(r, p, "join")

\* Group::Create, but for the second member.
CreateGroup(q, g, l) ==
    AddMember(ConvertInstancesToGroup([q EXCEPT !.leader[g] = l], g, l), g, l)

\* Group::Disband and the deletion of the group.
Disband(q, g) ==
    LET gone == [q EXCEPT !.members[g] = <<>>]
        home == HomebindIfInstance(gone, ToSet(q.members[g]))
    IN [ResetGroup(home, g, "disband") EXCEPT !.leader[g] = NULL]

\* Group::RemoveMember.
RemoveMember(q, g, p) ==
    IF Len(q.members[g]) <= 2 THEN Disband(q, g)
    ELSE LET left == RemoveAt(q.members[g], CHOOSE k \in DOMAIN q.members[g] :
                                                    q.members[g][k] = p)
             r == [q EXCEPT !.members[g] = left]
             s == IF q.leader[g] = p THEN SetLeader(r, g, left[1]) ELSE r
         IN HomebindIfInstance(s, {p})

\* HandleGroupAccept: the invitation of l, who may have no group yet.  It was made
\* when the two were not in different copies; they may be by now, and who leads a
\* group may have logged out.
GroupAccept(l, p) ==
    /\ Handled /\ l # p /\ p \in online
    /\ ~Grouped(Dungeon, p)
    /\ IF Grouped(Dungeon, l)
       THEN /\ leader[GroupOf(Dungeon, l)] = l
            /\ Becomes(AddMember(Dungeon, GroupOf(Dungeon, l), p))
       ELSE \E g \in Group :
              /\ leader[g] = NULL /\ l \in online
              /\ Becomes(AddMember(CreateGroup(Dungeon, g, l), g, p))
    /\ UNCHANGED <<heroic, online, to, position>>

\* HandleGroupLeave, or HandleGroupUninvite by the leader.
GroupLeave(p) ==
    /\ Handled /\ Grouped(Dungeon, p)
    /\ LET l == leader[GroupOf(Dungeon, p)]
       IN p \in online \/ (p # l /\ l \in online)
    /\ Becomes(RemoveMember(Dungeon, GroupOf(Dungeon, p), p))
    /\ UNCHANGED <<heroic, online, to, position>>

\* HandleGroupSetLeader.
GroupSetLeader(p) ==
    /\ Handled /\ p \in online /\ Grouped(Dungeon, p)
    /\ LET g == GroupOf(Dungeon, p) IN
         /\ leader[g] \in online \ {p}
         /\ Becomes(SetLeader(Dungeon, g, p))
    /\ UNCHANGED <<heroic, online, to, position>>

----------------------------------------------------------------------------
(* Bosses and resets.                                                      *)

\* All who are inside are bound for good, one after the other.
BindInside(q, i) ==
    LET who == SetToSeq(Inside(q, i))
        after[k \in 0..Len(who)] ==
            IF k = 0 THEN q
            ELSE IF BoundForGood(after[k - 1], who[k]) THEN after[k - 1]
            ELSE BindPlayer(after[k - 1], who[k], i, TRUE, FALSE)
    IN after[Len(who)]

\* InstanceMap::PermBindAllPlayers, when p has killed a boss.
KillBoss(p) ==
    LET i == at[p]
        g == GroupOf(Dungeon, p)
        all == BindInside(Dungeon, i)
    IN /\ Handled /\ heroic /\ p \in online /\ i # 0 /\ to[p] = "here"
       /\ saves[i] # NULL
       /\ Becomes(IF Grouped(Dungeon, p) /\ leader[g] \in Inside(Dungeon, i)
                  THEN BindGroup(all, g, i, TRUE, FALSE) ELSE all)
       /\ UNCHANGED <<heroic, online, to, position>>

\* HandleResetInstances.
ResetInstances(p) ==
    /\ Handled /\ p \in online /\ to[p] = "here"
    /\ IF Grouped(Dungeon, p)
       THEN /\ leader[GroupOf(Dungeon, p)] = p
            /\ Becomes(ResetGroup(Dungeon, GroupOf(Dungeon, p), "all"))
       ELSE Becomes(ResetPlayer(Dungeon, p, "all"))
    /\ UNCHANGED <<heroic, online, to, position>>

\* InstanceSaveManager::Update with an event of its own: _ResetInstance.  There
\* may be more events of the same instance.
ResetInstance(i) ==
    /\ i \in events
    /\ \E left \in {events, events \ {i}} :
         LET r == ResetMap(DeleteInstanceFromDB(ResetSave(Dungeon, {i}), {i}),
                      {i}, "respawn")
         IN Becomes([r EXCEPT !.events = left])
    /\ UNCHANGED <<heroic, online, to, position, handled>>

\* InstanceSaveManager::Update with the event of the dungeon: _ResetOrWarnAll.
ResetAll ==
    /\ heroic
    /\ LET deleted == DeleteInstanceFromDB(ResetSave(Dungeon, InstanceId), inst)
       IN Becomes(ResetMap(deleted, maps, "global"))
    /\ UNCHANGED <<heroic, online, to, position, handled>>

\* MapInstanced::Update destroys a map whose time is over.
UnloadMap(i) ==
    /\ i \in maps \cap expiring
    /\ ~HavePlayers(Dungeon, i)
    /\ Becomes([Dungeon EXCEPT !.maps = @ \ {i}, !.expiring = @ \ {i}])
    /\ UNCHANGED <<heroic, online, to, position, handled>>

----------------------------------------------------------------------------
(* Login, logout and restart.                                              *)

\* Player::_LoadBoundInstances, for the row of instance i.
LoadBind(q, p, i) ==
    IF q.char[p][i] = "none" \/ i \notin q.inst THEN q
    ELSE IF q.char[p][i] = "temporary" /\ Grouped(q, p)
         THEN [q EXCEPT !.char[p][i] = "none"]
    ELSE LET perm == q.char[p][i] = "permanent"
         IN BindPlayer(AddInstanceSave(q, i, ~perm, TRUE), p, i, perm, TRUE)

LoadBinds(q, p) ==
    LET after[i \in 0..MaxInstanceId] ==
            IF i = 0 THEN q ELSE LoadBind(after[i - 1], p, i)
    IN after[MaxInstanceId]

\* Player::GetInstanceSave.
SaveOf(q, p) ==
    IF ~BoundForGood(q, p) /\ Grouped(q, p) /\ q.gbind[GroupOf(q, p)] # NULL
    THEN q.gbind[GroupOf(q, p)].id
    ELSE IF q.bind[p] # NULL THEN q.bind[p].id ELSE 0

\* LoadFromDB and AddPlayerToMap; who cannot be put into the dungeon is put before it.
Login(p) ==
    /\ Handled /\ p \notin online
    /\ online' = online \cup {p}
    /\ LET q == LoadBinds([Dungeon EXCEPT !.valid[p] = TRUE], p)
           wanted == IF SaveOf(q, p) \in {0, position[p]} THEN position[p] ELSE 0
           i == InstanceFor(q, p, wanted)
           r == CreateInstanceForPlayer(q, p, wanted)
           in == Checked([r EXCEPT !.at[p] = i], p)
           joined == AddPlayerToMap(in, p, i)
           may == MayJoin(AddInstanceSave(in, i, TRUE, FALSE), p, i)
       IN IF position[p] = 0 THEN Becomes(q) /\ UNCHANGED to
          ELSE IF i = 0 THEN Becomes(r) /\ UNCHANGED to
          ELSE /\ i \in InstanceId
               /\ Becomes(joined)
               /\ to' = [to EXCEPT ![p] = IF may THEN "here" ELSE "out"]
    /\ position' = [position EXCEPT ![p] = 0]
    /\ UNCHANGED heroic

\* LogoutPlayer: a teleport is ended, who is in the wrong place goes home, and
\* the character is deleted before the map asks for the save.
LogoutPlayer(p) ==
    /\ Handled /\ p \in online
    /\ to[p] = "in" => InstanceFor(Dungeon, p, 0) \in InstanceId
    /\ LET left == IF to[p] = "in" THEN Arrive(Dungeon, p)
                   ELSE IF to[p] = "out" THEN Depart(Dungeon, p)
                   ELSE IF valid[p] THEN Dungeon
                   ELSE Depart(RemovePlayerFromMap(Dungeon, at[p]), p)
           i == left.at[p]
           r == IF i = 0 THEN left
                ELSE [StartUnloadTimer(left, i) EXCEPT !.at[p] = 0]
           gone == UnbindPlayer([r EXCEPT !.valid[p] = TRUE], p, TRUE)
       IN /\ Becomes(IF i = 0 THEN gone ELSE SetResetSchedule(gone, i, TRUE))
          /\ position' = [position EXCEPT ![p] = i]
    /\ online' = online \ {p}
    /\ to' = [to EXCEPT ![p] = "here"]
    /\ UNCHANGED heroic

Next ==
    \/ \E p \in Player :
         \/ TeleportIn(p) \/ WorldportIn(p) \/ TeleportOut(p) \/ WorldportOut(p)
         \/ GroupLeave(p) \/ GroupSetLeader(p)
         \/ KillBoss(p) \/ ResetInstances(p)
         \/ Login(p) \/ LogoutPlayer(p)
         \/ \E o \in Player : GroupAccept(o, p)
    \/ \E i \in InstanceId : ResetInstance(i) \/ UnloadMap(i)
    \/ ResetAll

Spec == Init /\ [][Next]_vars

----------------------------------------------------------------------------
(* Properties.                                                             *)

\* A save exists as long as somebody is bound to it, and its lists are the binds:
\* no bind points to a save that was deleted, and no save is left behind.  Who is
\* inside is online and in a map that is loaded, and only there he is invalid.
SavesSound ==
    /\ \A i \in InstanceId :
         LET players == {p \in Player : BoundTo(bind[p], i)}
             groups == {g \in Group : BoundTo(gbind[g], i)}
         IN IF saves[i] = NULL THEN players = {} /\ groups = {}
            ELSE /\ saves[i].players = players /\ saves[i].groups = groups
                 /\ players # {} \/ groups # {}
    /\ \A p \in Player :
         /\ bind[p] # NULL => p \in online
         /\ at[p] # 0 => p \in online /\ at[p] \in maps
         /\ ~valid[p] => at[p] # 0
    /\ \A g \in Group : gbind[g] # NULL => leader[g] # NULL

\* Who is bound for good is inside no other copy, and his copy cannot be reset
\* by players, with whomever he groups and whoever leads.
BoundForGoodSound ==
    \A p \in Player : BoundForGood(Dungeon, p) =>
        /\ at[p] \in {0, bind[p].id}
        /\ ~saves[bind[p].id].canReset

\* Nothing but the reset of the dungeon at its hour takes a bind for good from
\* somebody who is online, and his row stays when he leaves.
BindForGoodKept ==
    [][ResetAll \/
       \A p \in online : BoundForGood(Dungeon, p) =>
           /\ char'[p][bind[p].id] = char[p][bind[p].id]
           /\ p \in online' => bind'[p] = bind[p]]_vars
=============================================================================
