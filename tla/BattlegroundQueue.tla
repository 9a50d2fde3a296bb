------------------------- MODULE BattlegroundQueue --------------------------
(***************************************************************************)
(* The queue of one type of battleground, for one range of levels, and the *)
(* battlegrounds that it fills.  Players join it alone or as a group; when *)
(* enough of both teams wait a battleground is created and groups are      *)
(* invited; who is invited enters, leaves the queue, logs out, or is       *)
(* removed by an event on his own list when his time is over.              *)
(*                                                                         *)
(* A battleground counts who was invited and has not left, queued or       *)
(* inside, and is deleted in the update after the counts became zero.      *)
(*                                                                         *)
(* There is no clock: an event may run, and a battleground start or end,   *)
(* at any time.  Arenas, the test mode, the debuff of deserters and the    *)
(* reminder of an invitation are left out.                                 *)
(***************************************************************************)
EXTENDS Naturals, Sequences, SequencesExt, FiniteSets, FiniteSetsExt

CONSTANTS
    Alliance, Horde,    \* the players of the two teams
    Groups,             \* sets of players who may join as a group
    MinPlayersPerTeam, MaxPlayersPerTeam,
    MaxHandlers,        \* bound on what the clients do
    NULL

Player == Alliance \cup Horde
Team == {"alliance", "horde"}
TeamOf(p) == IF p \in Alliance THEN "alliance" ELSE "horde"
Other(t) == IF t = "alliance" THEN "horde" ELSE "alliance"

Status == {"wait_join", "in_progress", "wait_leave"}
BgRow == [status : Status, invited : [Team -> Nat], players : SUBSET Player,
          deleteThis : BOOLEAN]

ASSUME BattlegroundAssumption ==
    /\ IsFiniteSet(Player) /\ Alliance \cap Horde = {}
    /\ Groups \subseteq (SUBSET Alliance) \cup (SUBSET Horde) /\ {} \notin Groups
    /\ MinPlayersPerTeam \in Nat \ {0} /\ MaxPlayersPerTeam \in Nat
    /\ MinPlayersPerTeam <= MaxPlayersPerTeam /\ MaxHandlers \in Nat
    /\ NULL \notin Nat \cup BgRow

VARIABLES
    sameType,       \* the number of the queue is that of its battlegrounds'
                    \* type: of all but Eye of the Storm
    groups,         \* m_QueuedGroups: players, team and whom they are invited by
    bgs,            \* by instance id, NULL when deleted
    freeSlots,      \* BGFreeSlotQueue, without the template at its end
    slot,           \* m_bgBattlegroundQueueID of a player: NULL if not queued,
                    \* else the instance he is invited to, or 0
    events,         \* the removal events of a player, by instance, in order
    bgId,           \* bgInstanceID of a player, 0 outside
    at,             \* "world", "far" in a far teleport, or "offline"
    handled         \* how many handlers have run

queueVars == <<groups, bgs, freeSlots, slot, events>>
vars == <<queueVars, bgId, at, handled, sameType>>

NewBattleground ==
    [status |-> "wait_join", invited |-> [t \in Team |-> 0], players |-> {},
     deleteThis |-> FALSE]

Init ==
    /\ sameType \in BOOLEAN
    /\ groups = <<>> /\ bgs = <<>> /\ freeSlots = <<>>
    /\ slot = [p \in Player |-> NULL]
    /\ events = [p \in Player |-> <<>>]
    /\ bgId = [p \in Player |-> 0]
    /\ at = [p \in Player |-> "world"]
    /\ handled = 0

Live(i) == i \in DOMAIN bgs /\ bgs[i] # NULL

----------------------------------------------------------------------------
(* The functions of BattlegroundQueue, which take the state q of the queue *)
(* and of its battlegrounds and give the next one.                         *)

Queue == [groups |-> groups, bgs |-> bgs, free |-> freeSlots, slot |-> slot,
          events |-> events]

Becomes(next) ==
    \E q \in {next} :
        /\ groups' = q.groups /\ bgs' = q.bgs /\ freeSlots' = q.free
        /\ slot' = q.slot /\ events' = q.events

Size(g) == Cardinality(g.players)

Members(q, ks) == UNION {q.groups[k].players : k \in ks}

\* Of the groups at the places ks, who is not invited yet.
Uninvited(q, ks) == {k \in ks : q.groups[k].invited = 0}
OfTeam(q, ks, t) == {k \in ks : q.groups[k].team = t}

Marked(q, ks, i) ==
    [k \in DOMAIN q.groups |->
        IF k \in Uninvited(q, ks) THEN [q.groups[k] EXCEPT !.invited = i]
        ELSE q.groups[k]]
Counting(q, ks, i) ==
    [q.bgs[i] EXCEPT !.invited =
       [t \in Team |-> @[t] + Cardinality(Members(q, OfTeam(q, Uninvited(q, ks), t)))]]

\* Mutant: one event for the group, with the one who joined first.
InviteLeaderTimed(q, ks, i) ==
    LET players == Members(q, Uninvited(q, ks))
        timed == {(CHOOSE p \in q.groups[k].players : TRUE) : k \in Uninvited(q, ks)} IN
    [q EXCEPT
        !.groups = Marked(q, ks, i), !.bgs[i] = Counting(q, ks, i),
        !.slot = [p \in Player |-> IF p \in players THEN i ELSE @[p]],
        !.events = [p \in Player |-> IF p \in timed THEN Append(@[p], i) ELSE @[p]]]

\* InviteGroupToBG for the groups at the places ks, and InvitePlayer for each of
\* their players.
InviteGroups(q, ks, i) ==
    LET players == Members(q, Uninvited(q, ks)) IN
    [q EXCEPT
        !.groups = Marked(q, ks, i), !.bgs[i] = Counting(q, ks, i),
        !.slot = [p \in Player |-> IF p \in players THEN i ELSE @[p]],
        !.events = [p \in Player |-> IF p \in players THEN Append(@[p], i) ELSE @[p]]]

InBg(bg, t) == Cardinality({p \in bg.players : TeamOf(p) = t})
Room(bg, t) == MaxPlayersPerTeam - Min({bg.invited[t], MaxPlayersPerTeam})

\* So many may be added to mine, of the two teams.
Lead(mine, others) ==
    IF mine = others THEN 1 ELSE IF others > mine THEN others - mine ELSE 0

\* Mutant: only the room of the team counts in a running battleground.
FreeSlotsRoom(bg, t) ==
    IF bg.status \in {"wait_join", "in_progress"} THEN Room(bg, t) ELSE 0

GetFreeSlotsForTeam(bg, t) ==
    LET inside ==
          IF InBg(bg, t) <= InBg(bg, Other(t))
          THEN Lead(InBg(bg, t), InBg(bg, Other(t)))
          ELSE IF bg.invited[t] <= MinPlayersPerTeam
               THEN (MinPlayersPerTeam - bg.invited[t]) + 1 ELSE 0
    IN CASE bg.status = "wait_join" -> Room(bg, t)
         [] bg.status = "in_progress" ->
              Min({Lead(bg.invited[t], bg.invited[Other(t)]), Room(bg, t), inside})
         [] OTHER -> 0

\* Mutant: a group is invited when one of it fits.
InviteOneFits(q, i) ==
    LET invited[n \in 0..Len(q.groups)] ==
          IF n = 0 THEN q
          ELSE IF GetFreeSlotsForTeam(invited[n - 1].bgs[i], q.groups[n].team) >= 1
               THEN InviteGroups(invited[n - 1], {n}, i) ELSE invited[n - 1]
    IN invited[Len(q.groups)]

\* The groups that fit into battleground i, in the order of the queue.
InviteIfFits(q, k, i) ==
    IF GetFreeSlotsForTeam(q.bgs[i], q.groups[k].team) >= Size(q.groups[k])
    THEN InviteGroups(q, {k}, i) ELSE q
InviteWhoFits(q, i) ==
    LET invited[n \in 0..Len(q.groups)] ==
          IF n = 0 THEN q ELSE InviteIfFits(invited[n - 1], n, i)
    IN invited[Len(q.groups)]

\* RemoveFromBGFreeSlotQueue: a battleground has one place in it.
RemoveFromFree(free, i) ==
    IF i \in ToSet(free) THEN RemoveAt(free, CHOOSE k \in DOMAIN free : free[k] = i)
    ELSE free

FillBattleground(q, i) ==
    IF q.bgs[i].status \notin {"wait_join", "in_progress"} THEN q
    ELSE LET r == InviteWhoFits(q, i) IN
         IF Cardinality(r.bgs[i].players) < 2 * MaxPlayersPerTeam THEN r
         ELSE [r EXCEPT !.free = RemoveFromFree(@, i)]

\* SelectionPool::Build: of the groups of a team, as places in the queue, the
\* first that together are enough.  {} stands for none.
Players(q, ks) == Cardinality(Members(q, ks))
SelectionPool(q, t) ==
    LET eligible == {k \in DOMAIN q.groups :
                       /\ q.groups[k].invited = 0 /\ q.groups[k].team = t
                       /\ Size(q.groups[k]) <= MaxPlayersPerTeam}
        pools == {ks \in (SUBSET eligible) \ {{}} :
                    /\ Players(q, ks) \in MinPlayersPerTeam..MaxPlayersPerTeam
                    /\ Players(q, ks \ {Max(ks)}) < MinPlayersPerTeam}
    IN IF pools = {} THEN {}
       ELSE CHOOSE ks \in pools : \A ls \in pools \ {ks} :
              Min((ks \ ls) \cup (ls \ ks)) \in ks

FirstOf(ks, n) == {k \in ks : Cardinality({l \in ks : l < k}) < n}

\* A new battleground, and invitations for as many groups of each team as
\* there are of the smaller pool; Update returns when Horde has more.
CreateBattleground(q, alliance, horde) ==
    LET i == Len(q.bgs) + 1
        n == Min({Cardinality(alliance), Cardinality(horde)})
        created == [q EXCEPT !.bgs = Append(@, NewBattleground),
                             !.free = <<i>> \o @]
        invited == InviteGroups(created, FirstOf(horde, n), i)
    IN IF Cardinality(horde) > n THEN invited
       ELSE InviteGroups(invited, FirstOf(alliance, n), i)

Fill(q) ==
    LET filled[n \in 0..Len(q.free)] ==
          IF n = 0 THEN q ELSE FillBattleground(filled[n - 1], q.free[n])
    IN filled[Len(q.free)]

Update(q) ==
    LET filled == Fill(q)
        alliance == SelectionPool(filled, "alliance")
        horde == SelectionPool(filled, "horde")
    IN IF alliance # {} /\ horde # {}
       THEN CreateBattleground(filled, alliance, horde) ELSE filled

\* m_SetDeleteThis, with the checks before it.
SetDeleteThis(bg) ==
    [bg EXCEPT !.deleteThis =
       @ \/ (bg.players = {} /\ \A t \in Team : bg.invited[t] = 0)]

\* The last two of AddGroup and AddPlayer.
AddGroup(q, players) ==
    LET t == TeamOf(CHOOSE p \in players : TRUE) IN
    [q EXCEPT !.groups = Append(@, [players |-> players, team |-> t, invited |-> 0]),
              !.slot = [p \in Player |-> IF p \in players THEN 0 ELSE @[p]]]

GroupOf(q, p) == {k \in DOMAIN q.groups : p \in q.groups[k].players}

Without(q, k, p) ==
    IF q.groups[k].players = {p} THEN RemoveAt(q.groups, k)
    ELSE [q.groups EXCEPT ![k].players = @ \ {p}]
Fewer(bg, t) == SetDeleteThis([bg EXCEPT !.invited[t] = @ - 1])

LeaveGroup(q, k, p, decreaseInvitedCount) ==
    LET g == q.groups[k]
        left == [q EXCEPT !.groups = Without(q, k, p)]
    IN IF decreaseInvitedCount /\ g.invited # 0 /\ q.bgs[g.invited] # NULL
       THEN [left EXCEPT !.bgs[g.invited] = Fewer(@, g.team)]
       ELSE left

\* RemovePlayer: nothing if he is in no group.
RemovePlayer(q, p, decreaseInvitedCount) ==
    IF GroupOf(q, p) = {} THEN q
    ELSE LeaveGroup(q, Max(GroupOf(q, p)), p, decreaseInvitedCount)

RemoveBattlegroundQueueId(q, p) == [q EXCEPT !.slot[p] = NULL]

\* The queue without a player who goes, and then offered to the others.
Withdrawing(q, p) == RemovePlayer(RemoveBattlegroundQueueId(q, p), p, TRUE)
Withdraw(q, p) == Update(Withdrawing(q, p))

\* An event, or the end of a match, gives Update the number of the queue for the
\* type; where they differ it finds nothing to fill and nobody to select.
WithdrawInvited(q, p) == IF sameType THEN Withdraw(q, p) ELSE Withdrawing(q, p)

WithdrawAll(q, ps) ==
    LET left[n \in 0..Len(ps)] == IF n = 0 THEN q ELSE WithdrawInvited(left[n - 1], ps[n])
    IN left[Len(ps)]

\* RemovePlayerAtLeave of battleground i; found tells if he is in the world.
RemovePlayerAtLeave(q, p, i, found) ==
    LET bg == q.bgs[i]
        left == Fewer([bg EXCEPT !.players = @ \ {p}], TeamOf(p))
        opened == IF i \in ToSet(q.free) \/ bg.status = "wait_leave"
                  THEN q.free ELSE <<i>> \o q.free
    IN IF p \notin bg.players THEN [q EXCEPT !.bgs[i] = SetDeleteThis(@)]
       ELSE [q EXCEPT !.bgs[i] = left, !.free = opened,
                      !.slot[p] = IF found THEN NULL ELSE @]

----------------------------------------------------------------------------
(* What the clients do.                                                    *)

Handled == handled < MaxHandlers /\ handled' = handled + 1

\* HandleBattlegroundJoinOpcode, of one player or a group; CanJoinBattlegroundQueue.
HandleBattlegroundJoin(players) ==
    /\ Handled
    /\ \A p \in players : at[p] # "offline" /\ slot[p] = NULL
    /\ \E leader \in players : at[leader] = "world" /\ bgId[leader] = 0
    /\ Cardinality(players) <= MaxPlayersPerTeam
    /\ Becomes(Update(AddGroup(Queue, players)))
    /\ UNCHANGED <<bgId, at>>

Queued(p) == GroupOf(Queue, p) # {}
InvitedBy(p) ==
    IF Queued(p) THEN groups[Max(GroupOf(Queue, p))].invited ELSE 0

\* Mutant: who enters is no longer counted as invited.
EnterDecreasing(p) ==
    LET i == InvitedBy(p) IN
    /\ Handled /\ at[p] = "world"
    /\ Live(i) /\ slot[p] \notin {NULL, 0}
    /\ bgId[p] = 0
    /\ Becomes(RemovePlayer(Queue, p, TRUE))
    /\ bgId' = [bgId EXCEPT ![p] = i]
    /\ at' = [at EXCEPT ![p] = "far"]

\* HandleBattlegroundPlayerPortOpcode to enter: he is counted all the time.
HandleBattlegroundEnter(p) ==
    LET i == InvitedBy(p) IN
    /\ Handled /\ at[p] = "world"
    /\ Live(i) /\ slot[p] \notin {NULL, 0}
    /\ bgId[p] = 0
    /\ Becomes(RemovePlayer(Queue, p, FALSE))
    /\ bgId' = [bgId EXCEPT ![p] = i]
    /\ at' = [at EXCEPT ![p] = "far"]

\* HandleBattlegroundPlayerPortOpcode to leave the queue, invited or not.
HandleBattlegroundLeaveQueue(p) ==
    /\ Handled /\ at[p] = "world"
    /\ Queued(p) /\ slot[p] # NULL
    /\ Becomes(Withdraw(Queue, p))
    /\ UNCHANGED <<bgId, at>>

\* LeaveBattleground, by the client or by a far teleport to elsewhere.
LeaveBattleground(p) ==
    /\ IF Live(bgId[p])
       THEN /\ Becomes(RemovePlayerAtLeave(Queue, p, bgId[p], TRUE))
            /\ bgId' = [bgId EXCEPT ![p] = 0]
       ELSE UNCHANGED <<queueVars, bgId>>
    /\ at' = [at EXCEPT ![p] = "far"]

TeleportTo(p) == Handled /\ at[p] = "world" /\ LeaveBattleground(p)

\* HandleMoveWorldportAckOpcode.
Arrive(q, p) ==
    IF at[p] = "far" /\ Live(bgId[p]) /\ slot[p] = bgId[p]
    THEN [q EXCEPT !.bgs[bgId[p]].players = @ \cup {p}] ELSE q

HandleMoveWorldportAck(p) ==
    /\ at[p] = "far"
    /\ Becomes(Arrive(Queue, p))
    /\ at' = [at EXCEPT ![p] = "world"]
    /\ UNCHANGED <<bgId, handled>>

\* Mutant: a player who goes offline stays in the queue.
LogoutQueued(p) ==
    /\ Handled /\ at[p] # "offline"
    /\ Becomes([RemoveBattlegroundQueueId(Arrive(Queue, p), p)
                  EXCEPT !.events[p] = <<>>])
    /\ at' = [at EXCEPT ![p] = "offline"]
    /\ UNCHANGED bgId

\* WorldSession::LogoutPlayer: he arrives, leaves the queue, and stays in his
\* battleground; his events are gone with him.
LogoutPlayer(p) ==
    LET arrived == RemoveBattlegroundQueueId(Arrive(Queue, p), p) IN
    /\ Handled /\ at[p] # "offline"
    /\ Becomes([(IF slot[p] = NULL THEN arrived
                 ELSE RemovePlayer(arrived, p, TRUE)) EXCEPT !.events[p] = <<>>])
    /\ at' = [at EXCEPT ![p] = "offline"]
    /\ UNCHANGED bgId

\* Player::LoadFromDB: back into a battleground that goes on.
LoadFromDB(p) ==
    LET i == bgId[p]
        inside == Live(i) /\ p \in bgs[i].players IN
    /\ Handled /\ at[p] = "offline"
    /\ IF inside /\ bgs[i].status # "wait_leave"
       THEN Becomes([Queue EXCEPT !.slot[p] = i]) /\ UNCHANGED bgId
       ELSE /\ Becomes(IF inside THEN RemovePlayerAtLeave(Queue, p, i, FALSE)
                       ELSE Queue)
            /\ bgId' = [bgId EXCEPT ![p] = 0]
    /\ at' = [at EXCEPT ![p] = "world"]

----------------------------------------------------------------------------
(* What the server does by itself.                                         *)

\* Mutant: whoever is queued is removed.
RemoveEventUnchecked(p) ==
    LET i == Head(events[p])
        rest == [Queue EXCEPT !.events[p] = Tail(@)] IN
    /\ events[p] # <<>> /\ at[p] = "world"
    /\ Becomes(IF Live(i) /\ slot[p] # NULL /\ Queued(p)
               THEN WithdrawInvited(rest, p) ELSE rest)
    /\ UNCHANGED <<bgId, at, handled>>

\* BGQueueRemoveEvent::Execute, when his time is over.
RemoveEvent(p) ==
    LET i == Head(events[p])
        rest == [Queue EXCEPT !.events[p] = Tail(@)] IN
    /\ events[p] # <<>> /\ at[p] = "world"
    /\ Becomes(IF Live(i) /\ slot[p] # NULL /\ Queued(p) /\ InvitedBy(p) = i
               THEN WithdrawInvited(rest, p) ELSE rest)
    /\ UNCHANGED <<bgId, at, handled>>

\* Battleground::Update when the time to prepare is over.
StartMatch(i) ==
    /\ Live(i) /\ bgs[i].status = "wait_join" /\ bgs[i].players # {}
    /\ bgs' = [bgs EXCEPT ![i].status = "in_progress"]
    /\ UNCHANGED <<groups, freeSlots, slot, events, bgId, at, handled>>

\* BGEndedRemoveInvites withdraws the invitations of a group player by player
\* until it meets one who is in a far teleport.
Withdrawn(i) ==
    {ps \in SUBSET {p \in Player : InvitedBy(p) = i /\ at[p] = "world"} :
        \A k \in DOMAIN groups :
            (groups[k].invited = i /\ \A p \in groups[k].players : at[p] = "world")
              => groups[k].players \subseteq ps}

\* EndBattleground of a match, EndNow of one that cannot be set up.
EndBattleground(i) ==
    /\ Live(i) /\ bgs[i].status \in {"wait_join", "in_progress"}
    /\ bgs[i].players # {}
    /\ \E ps \in Withdrawn(i) :
         Becomes(WithdrawAll([Queue EXCEPT !.bgs[i].status = "wait_leave",
                                           !.free = RemoveFromFree(@, i)],
                             SetToSeq(ps)))
    /\ UNCHANGED <<bgId, at, handled>>

\* Battleground::Update removes who is offline for long, and everybody some
\* time after the end.
RemovePlayers(i, p) ==
    /\ Live(i) /\ p \in bgs[i].players
    /\ bgs[i].status = "wait_leave" \/ at[p] = "offline"
    /\ Becomes(RemovePlayerAtLeave(Queue, p, i, at[p] = "world"))
    /\ IF at[p] = "world"
       THEN /\ bgId' = [bgId EXCEPT ![p] = 0]
            /\ at' = [at EXCEPT ![p] = "far"]
       ELSE UNCHANGED <<bgId, at>>
    /\ UNCHANGED handled

\* BattlegroundMgr::Update.
DeleteBattleground(i) ==
    /\ Live(i) /\ bgs[i].deleteThis
    /\ bgs' = [bgs EXCEPT ![i] = NULL]
    /\ freeSlots' = RemoveFromFree(freeSlots, i)
    /\ UNCHANGED <<groups, slot, events, bgId, at, handled>>

----------------------------------------------------------------------------
Clients ==
    \/ \E players \in Groups : HandleBattlegroundJoin(players)
    \/ \E p \in Player :
         \/ HandleBattlegroundEnter(p) \/ HandleBattlegroundLeaveQueue(p)
         \/ TeleportTo(p) \/ LogoutPlayer(p) \/ LoadFromDB(p)

\* What happens without a client's wish and without an end of a match.
Server ==
    \/ \E p \in Player : HandleMoveWorldportAck(p) \/ RemoveEvent(p)
    \/ \E i \in DOMAIN bgs :
         DeleteBattleground(i) \/ \E p \in Player : RemovePlayers(i, p)

Next ==
    /\ \/ Clients \/ Server
       \/ \E i \in DOMAIN bgs : StartMatch(i) \/ EndBattleground(i)
    /\ UNCHANGED sameType

Spec == Init /\ [][Next]_vars

----------------------------------------------------------------------------
(* Properties.                                                             *)

\* Who is counted by battleground i: invited, on the way, or inside.
Counted(i, t) ==
    {p \in Player : TeamOf(p) = t /\
       \/ InvitedBy(p) = i
       \/ p \in bgs[i].players
       \/ at[p] = "far" /\ bgId[p] = i}

\* The counts of a battleground are those of its players and invitees, and when
\* there are none it will be deleted.
InvitedExact ==
    \A i \in DOMAIN bgs : Live(i) =>
        /\ \A t \in Team : bgs[i].invited[t] = Cardinality(Counted(i, t))
        /\ (\A t \in Team : Counted(i, t) = {}) => bgs[i].deleteThis

\* No team is larger than the battleground allows, however groups come and go.
TeamLimit ==
    \A i \in DOMAIN bgs : Live(i) =>
        \A t \in Team : Cardinality(Counted(i, t)) <= MaxPlayersPerTeam

\* A player is queued once, while he is online, as his slots say, and is not
\* in a battleground at the same time.
SlotsAgree ==
    \A p \in Player :
        /\ Cardinality(GroupOf(Queue, p)) <= 1
        /\ Queued(p) => /\ at[p] # "offline" /\ slot[p] = InvitedBy(p)
                        /\ bgId[p] = 0
        /\ ~Queued(p) /\ slot[p] # NULL => bgId[p] = slot[p]
        /\ Cardinality({i \in DOMAIN bgs : Live(i) /\ p \in bgs[i].players}) <= 1

\* In a running battleground an invitation gives no team a lead of more than
\* one player.
FairTeams ==
    [][\A i \in DOMAIN bgs, t \in Team :
         (/\ Live(i) /\ bgs[i].status = "in_progress" /\ bgs'[i] # NULL
          /\ bgs'[i].invited[t] > bgs[i].invited[t]) =>
             bgs'[i].invited[t] <= bgs'[i].invited[Other(t)] + 1]_vars

\* Nobody who waits loses his place but by his own doing, not by the event of
\* an invitation that he had before.
StaysQueued ==
    [][\A p \in Player : Queued(p) /\ InvitedBy(p) = 0 /\ handled' = handled =>
         slot'[p] # NULL]_vars

\* Who is invited and does not answer has an event before him that ends the
\* invitation: a place is never held for ever by somebody who is away.
InvitationEnds ==
    \A p \in Player :
        Live(InvitedBy(p)) => InvitedBy(p) \in ToSet(events[p])

\* "if no players left AND no invitees left, set this bg to delete": nobody is
\* invited by a battleground that was deleted.
InvitedByLive == \A p \in Player : InvitedBy(p) # 0 => Live(InvitedBy(p))
=============================================================================
