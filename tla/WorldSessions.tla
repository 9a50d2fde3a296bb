--------------------------- MODULE WorldSessions ---------------------------
(***************************************************************************)
(* The session table of the world server and its login queue, as the main  *)
(* thread drives them (World::UpdateSessions, World::AddSession_,          *)
(* World::RemoveQueuedPlayer, WorldSession::Update), with the two parties  *)
(* that act beside it: the network threads, which authenticate clients and *)
(* close sockets at any moment, and the database thread, whose answers to  *)
(* character logins come back in a later phase of the tick.                *)
(*                                                                         *)
(* Session is the set of heap addresses a WorldSession may occupy; sess    *)
(* maps an address to the object there, or to NULL when it holds none, so  *)
(* that a pointer to a deleted session is visible as a pointer to NULL.    *)
(*                                                                         *)
(* Left out: packets other than the character login and the logout, the    *)
(* Warden, statistics (m_maxActiveSessionCount), and all database writes.  *)
(* uint32 arithmetic is left unbounded: ActiveCount never goes below zero  *)
(* (QueueSound), and a negative m_playerLimit cast to uint32 is above      *)
(* every session count, which Accepts states directly.                     *)
(***************************************************************************)
EXTENDS Integers, Sequences, SequencesExt, FiniteSets

CONSTANTS
    Account,        \* account ids
    Session,        \* addresses of WorldSession objects
    GMs,            \* the accounts whose security is above SEC_PLAYER
    Limits,         \* the values PlayerLimit has in the configuration file
    Tolerance,      \* is DisconnectToleranceInterval non-zero?
    MaxLogins,      \* bound on the character logins under way at once
    NULL

\* A session: told is the queue position last sent to its client (0: may play),
\* players counts the Player objects it put in the world (2: a second one
\* replaced the first).  Two are history: exempt, that it was let in above the
\* limit because its account had disconnected, and unread, that the login
\* packet for which it is loading could not be read.
SessionRec == [account: Account, inQueue: BOOLEAN, loading: BOOLEAN,
               players: 0..2, closed: BOOLEAN, told: Nat, exempt: BOOLEAN,
               unread: BOOLEAN]

ASSUME WorldSessionsAssumption ==
    /\ IsFiniteSet(Account) /\ IsFiniteSet(Session)
    /\ NULL \notin Account \cup Session \cup SessionRec
    /\ GMs \subseteq Account
    /\ Limits \subseteq Int /\ Limits # {}
    /\ Tolerance \in BOOLEAN
    /\ MaxLogins \in Nat

VARIABLES
    sess,           \* the heap: address -> session object or NULL
    m_sessions,     \* account -> its listed session or NULL
    addSessQueue,   \* sessions handed over by the network threads
    m_QueuedPlayer, \* the login queue
    m_disconnects,  \* account -> when its session was last dropped
    m_playerLimit,
    logins,         \* accounts whose LoginQueryHolder is not yet answered
    phase,          \* where the main thread is in World::Update
    todo, cur,      \* the iteration over m_sessions
    stopping        \* the main loop is left, Master::Run shuts down

vars == <<sess, m_sessions, addSessQueue, m_QueuedPlayer, m_disconnects,
          m_playerLimit, logins, phase, todo, cur, stopping>>
queueVars == <<m_sessions, m_QueuedPlayer, m_disconnects>>
loopVars == <<phase, todo, cur, stopping>>

----------------------------------------------------------------------------
NewSession(a) == [account |-> a, inQueue |-> FALSE, loading |-> FALSE,
                  players |-> 0, closed |-> FALSE, told |-> 0,
                  exempt |-> FALSE, unread |-> FALSE]

Phases == {"accept", "update", "results", "cli", "kickall", "stopped"}

ListedIn(table) == {a \in Account : table[a] # NULL}

\* GetActiveAndQueuedSessionCount and GetActiveSessionCount.
NumSessions(table) == Cardinality(ListedIn(table))
ActiveCount == NumSessions(m_sessions) - Len(m_QueuedPlayer)

Init ==
    /\ sess = [s \in Session |-> NULL]
    /\ m_sessions = [a \in Account |-> NULL]
    /\ addSessQueue = <<>>
    /\ m_QueuedPlayer = <<>>
    /\ m_disconnects = [a \in Account |-> "never"]
    /\ m_playerLimit \in Limits
    /\ logins = <<>>
    /\ phase = "accept" /\ todo = {} /\ cur = NULL /\ stopping = FALSE

----------------------------------------------------------------------------
(* The network threads.                                                    *)

\* WorldSocket::HandleAuthSession makes a session and World::AddSession
\* hands it to the main thread.
AuthSession(s, a) ==
    /\ phase # "stopped"
    /\ sess[s] = NULL
    /\ sess' = [sess EXCEPT ![s] = NewSession(a)]
    /\ addSessQueue' = Append(addSessQueue, s)
    /\ UNCHANGED <<queueVars, m_playerLimit, logins, loopVars>>

\* The peer goes away, or the socket fails.
SocketClosed(s) ==
    /\ sess[s] # NULL /\ ~sess[s].closed
    /\ sess' = [sess EXCEPT ![s].closed = TRUE]
    /\ UNCHANGED <<addSessQueue, queueVars, m_playerLimit, logins, loopVars>>

----------------------------------------------------------------------------
(* The login queue.                                                        *)

QueuePos(q, s) == {i \in 1..Len(q) : q[i] = s}
Found(q, s) == QueuePos(q, s) # {}

\* The queue without s, and the index of the first session behind s.
Behind(q, s) == IF Found(q, s) THEN CHOOSE i \in QueuePos(q, s) : TRUE
                               ELSE Len(q) + 1
\* Mutant: RemoveQueuedPlayer does not erase.
WithoutKept(q, s) == q
Without(q, s) == IF Found(q, s) THEN RemoveAt(q, Behind(q, s)) ELSE q

\* Mutants: the session that leaves still counts; one too many is let in.
AcceptsUncounted(q, s) ==
    (m_playerLimit <= 0 \/ ActiveCount < m_playerLimit) /\ Without(q, s) # <<>>
AcceptsOneMore(q, s) ==
    LET others == IF Found(q, s) \/ ActiveCount = 0 THEN ActiveCount
                                                    ELSE ActiveCount - 1
    IN  (m_playerLimit <= 0 \/ others <= m_playerLimit) /\ Without(q, s) # <<>>

\* May the first of the queue enter once s is gone?  A session that was not
\* queued stops counting as active; a queued one never counted.
Accepts(q, s) ==
    LET others == IF Found(q, s) \/ ActiveCount = 0 THEN ActiveCount
                                                    ELSE ActiveCount - 1
    IN  (m_playerLimit <= 0 \/ others < m_playerLimit) /\ Without(q, s) # <<>>

\* SMSG_AUTH_RESPONSE with the position, to the sessions from index k on.
SendPositions(heap, q, k) ==
    [x \in Session |->
        IF \E i \in k..Len(q) : q[i] = x
        THEN [heap[x] EXCEPT !.told = CHOOSE i \in k..Len(q) : q[i] = x]
        ELSE heap[x]]

Admit(heap, x) == [heap EXCEPT ![x].inQueue = FALSE, ![x].told = 0]

\* World::RemoveQueuedPlayer(s): the queue and the heap it leaves.
QueueAfter(q, s) == IF Accepts(q, s) THEN Tail(Without(q, s))
                                     ELSE Without(q, s)
\* Mutant: the iterator is not reset after the first was admitted.
HeapAfterStaleIterator(q, s) ==
    LET heap == IF Found(q, s) THEN [sess EXCEPT ![s].inQueue = FALSE] ELSE sess
    IN  IF Accepts(q, s)
        THEN SendPositions(Admit(heap, Head(Without(q, s))),
                           QueueAfter(q, s), Behind(q, s))
        ELSE SendPositions(heap, QueueAfter(q, s), Behind(q, s))
HeapAfter(q, s) ==
    LET heap == IF Found(q, s) THEN [sess EXCEPT ![s].inQueue = FALSE] ELSE sess
    IN  IF Accepts(q, s)
        THEN SendPositions(Admit(heap, Head(Without(q, s))), QueueAfter(q, s), 1)
        ELSE SendPositions(heap, QueueAfter(q, s), Behind(q, s))

\* delete of the WorldSession.
Delete(heap, s) == [heap EXCEPT ![s] = NULL]

----------------------------------------------------------------------------
(* World::UpdateSessions, first part: take over the sessions the network   *)
(* threads made.                                                           *)

\* The loop compares difftime(then, now), which is never positive, with the
\* tolerance: an entry of m_disconnects counts as recent however old it is.
HasRecentlyDisconnected(a) == Tolerance /\ m_disconnects[a] # "never"

\* Mutant: the session in the table is deleted instead of the newcomer.
RejectSessionDeletesOld(s, old) ==
    /\ old # NULL /\ sess[old].loading
    /\ sess' = Delete(sess, old)
    /\ UNCHANGED queueVars

\* World::AddSession_ when the account is already listed and its character
\* is being loaded: RemoveSession refuses and the newcomer is deleted.
RejectSession(s, old) ==
    /\ old # NULL /\ sess[old].loading
    /\ sess' = Delete(sess, s)
    /\ UNCHANGED queueVars

\* The sessions that count against the limit when s has been listed: not s
\* itself, unless it takes over from a session that waited in the queue.
CountedSessions(a, s, old) ==
    NumSessions([m_sessions EXCEPT ![a] = s])
        - (IF old # NULL /\ Found(m_QueuedPlayer, old) THEN 0 ELSE 1)

MustWait(a, n) ==
    /\ m_playerLimit > 0 /\ n >= m_playerLimit
    /\ a \notin GMs
    /\ ~HasRecentlyDisconnected(a)

\* Mutant: the newcomer is put first.
EnqueueFirst(heap, q, s) ==
    /\ m_QueuedPlayer' = <<s>> \o q
    /\ sess' = SendPositions([heap EXCEPT ![s].inQueue = TRUE], <<s>> \o q, 1)

Enqueue(heap, q, s) ==
    /\ m_QueuedPlayer' = Append(q, s)
    /\ sess' = [heap EXCEPT ![s].inQueue = TRUE, ![s].told = Len(q) + 1]

Enter(heap, q, s, n) ==
    /\ m_QueuedPlayer' = q
    /\ sess' = [heap EXCEPT ![s].told = 0,
                            ![s].exempt = /\ m_playerLimit > 0
                                          /\ n >= m_playerLimit
                                          /\ sess[s].account \notin GMs
                                          /\ HasRecentlyDisconnected(sess[s].account)]

\* World::AddSession_ otherwise: an older session of the account is kicked,
\* taken out of the queue and deleted, and the newcomer enters or waits.
ListSession(s, old) ==
    /\ old # NULL => ~sess[old].loading
    /\ LET a    == sess[s].account
           heap == IF old = NULL THEN sess
                   ELSE Delete(HeapAfter(m_QueuedPlayer, old), old)
           q    == IF old = NULL THEN m_QueuedPlayer
                   ELSE QueueAfter(m_QueuedPlayer, old)
           n    == CountedSessions(a, s, old)
       IN  /\ m_sessions' = [m_sessions EXCEPT ![a] = s]
           /\ IF MustWait(a, n) THEN Enqueue(heap, q, s) ELSE Enter(heap, q, s, n)
    /\ UNCHANGED m_disconnects

AddSession_ ==
    /\ phase = "accept" /\ addSessQueue # <<>>
    /\ addSessQueue' = Tail(addSessQueue)
    /\ LET s   == Head(addSessQueue)
           old == m_sessions[sess[s].account]
       IN  RejectSession(s, old) \/ ListSession(s, old)
    /\ UNCHANGED <<m_playerLimit, logins, loopVars>>

AllAdded ==
    /\ phase = "accept" /\ addSessQueue = <<>>
    /\ phase' = "update"
    /\ todo' = ListedIn(m_sessions)
    /\ UNCHANGED <<sess, addSessQueue, queueVars, m_playerLimit, logins,
                   cur, stopping>>

----------------------------------------------------------------------------
(* World::UpdateSessions, second part: WorldSession::Update of each listed *)
(* session, in the arbitrary order of the hash table.                      *)

\* The start of WorldSession::Update.  A session that waits in the queue is
\* never idle; any other may have used up its time-out.
BeginUpdate(a) ==
    /\ phase = "update" /\ cur = NULL /\ a \in todo
    /\ cur' = a /\ todo' = todo \ {a}
    /\ \/ UNCHANGED sess
       \/ /\ ~sess[m_sessions[a]].inQueue
          /\ sess' = [sess EXCEPT ![m_sessions[a]].closed = TRUE]
    /\ UNCHANGED <<addSessQueue, queueVars, m_playerLimit, logins,
                   phase, stopping>>

\* CMSG_PLAYER_LOGIN: an STATUS_AUTHED opcode, refused while in the queue.
\* m_playerLoading is set first, and stays set, without a login under way, when
\* the packet is too short, which throws ByteBufferException, and when
\* the character may not log in, for which the session is kicked.  A failed
\* ownership query kicks, but the character is loaded all the same.
HandlePlayerLoginOpcode ==
    /\ phase = "update" /\ cur # NULL
    /\ LET s == m_sessions[cur]
           Load(kick, short) ==
               sess' = [sess EXCEPT ![s].loading = TRUE, ![s].closed = kick,
                                    ![s].unread = short]
       IN  /\ ~sess[s].closed /\ ~sess[s].inQueue
           /\ IF sess[s].loading \/ sess[s].players > 0
              THEN sess' = [sess EXCEPT ![s].closed = TRUE] /\ UNCHANGED logins
              ELSE \/ Load(FALSE, TRUE) /\ UNCHANGED logins
                   \/ Load(TRUE, FALSE) /\ UNCHANGED logins
                   \/ \E kick \in BOOLEAN :
                         /\ Load(kick, FALSE) /\ Len(logins) < MaxLogins
                         /\ logins' = Append(logins, cur)
    /\ UNCHANGED <<addSessQueue, queueVars, m_playerLimit, loopVars>>

\* LogoutPlayer, from a logout packet or when the logout time is up.
LogoutPlayer ==
    /\ phase = "update" /\ cur # NULL
    /\ LET s == m_sessions[cur]
       IN  /\ sess[s].players > 0 /\ ~sess[s].loading
           /\ sess' = [sess EXCEPT ![s].players = 0]
    /\ UNCHANGED <<addSessQueue, queueVars, m_playerLimit, logins, loopVars>>

\* The end of WorldSession::Update and what UpdateSessions does with its
\* result: a session whose socket is closed leaves the queue and the table.
EndUpdate ==
    /\ phase = "update" /\ cur # NULL
    /\ cur' = NULL
    /\ LET s == m_sessions[cur]
       IN  IF sess[s].closed
           THEN /\ m_QueuedPlayer' = QueueAfter(m_QueuedPlayer, s)
                /\ m_disconnects' =
                     IF ~Found(m_QueuedPlayer, s) /\ Tolerance
                     THEN [m_disconnects EXCEPT ![cur] = "recent"]
                     ELSE m_disconnects
                /\ sess' = Delete(HeapAfter(m_QueuedPlayer, s), s)
                /\ m_sessions' = [m_sessions EXCEPT ![cur] = NULL]
           ELSE UNCHANGED <<sess, queueVars>>
    /\ UNCHANGED <<addSessQueue, m_playerLimit, logins, phase, todo, stopping>>

AllUpdated ==
    /\ phase = "update" /\ cur = NULL /\ todo = {}
    /\ phase' = IF stopping THEN "stopped" ELSE "results"
    /\ UNCHANGED <<sess, addSessQueue, queueVars, m_playerLimit, logins,
                   todo, cur, stopping>>

----------------------------------------------------------------------------
(* The later phases of World::Update, and the shutdown in Master::Run.     *)

\* Mutant: m_playerLoading is not reset once the character is in.
HandlePlayerLoginCallbackNoReset ==
    /\ phase = "results" /\ logins # <<>>
    /\ logins' = Tail(logins)
    /\ LET s == m_sessions[Head(logins)]
       IN  IF s = NULL THEN UNCHANGED sess
           ELSE sess' = [sess EXCEPT
                  ![s].players = IF sess[s].players = 0 THEN 1 ELSE 2]
    /\ UNCHANGED <<addSessQueue, queueVars, m_playerLimit, loopVars>>

\* UpdateResultQueue runs CharacterHandler::HandlePlayerLoginCallback: it
\* knows the account only, and takes whatever session is listed for it now.
\* LoadFromDB may refuse the character.
HandlePlayerLoginCallback ==
    /\ phase = "results" /\ logins # <<>>
    /\ logins' = Tail(logins)
    /\ LET s == m_sessions[Head(logins)]
       IN  IF s = NULL THEN UNCHANGED sess
           ELSE \/ sess' = [sess EXCEPT
                     ![s].players = IF sess[s].players = 0 THEN 1 ELSE 2,
                     ![s].loading = FALSE]
                \/ sess' = [sess EXCEPT ![s].closed = TRUE,
                                        ![s].loading = FALSE]
    /\ UNCHANGED <<addSessQueue, queueVars, m_playerLimit, loopVars>>

AllResults ==
    /\ phase = "results"
    /\ phase' = "cli"
    /\ UNCHANGED <<sess, addSessQueue, queueVars, m_playerLimit, logins,
                   todo, cur, stopping>>

\* World::KickPlayer by name: only a character in the world is found.
KickPlayer(a) ==
    /\ phase = "cli" /\ m_sessions[a] # NULL
    /\ sess[m_sessions[a]].players > 0 /\ ~sess[m_sessions[a]].closed
    /\ sess' = [sess EXCEPT ![m_sessions[a]].closed = TRUE]
    /\ UNCHANGED <<addSessQueue, queueVars, m_playerLimit, logins, loopVars>>

\* LoadConfigSettings(true), from the console or from the chat command of a
\* game master, assigns the limit; nobody is admitted or kicked.
ReloadConfig(limit) ==
    /\ \/ phase = "cli"
       \/ /\ phase = "update" /\ cur \in GMs
          /\ sess[m_sessions[cur]].players > 0
          /\ ~sess[m_sessions[cur]].closed
    /\ m_playerLimit' = limit
    /\ UNCHANGED <<sess, addSessQueue, queueVars, logins, loopVars>>

\* The main loop goes round, or ends.
NextTick ==
    /\ phase = "cli"
    /\ phase' \in {"accept", "kickall"}
    /\ UNCHANGED <<sess, addSessQueue, queueVars, m_playerLimit, logins,
                   todo, cur, stopping>>

\* World::KickAll: the queue is emptied without a word to its members, and
\* every listed session is kicked.  One more UpdateSessions follows.
KickAll ==
    /\ phase = "kickall"
    /\ m_QueuedPlayer' = <<>>
    /\ sess' = [s \in Session |->
                  IF \E a \in Account : m_sessions[a] = s
                  THEN [sess[s] EXCEPT !.closed = TRUE] ELSE sess[s]]
    /\ phase' = "accept" /\ stopping' = TRUE
    /\ UNCHANGED <<m_sessions, addSessQueue, m_disconnects, m_playerLimit,
                   logins, todo, cur>>

\* Time passes: a disconnection becomes older than the tolerance interval.
ToleranceElapses(a) ==
    /\ m_disconnects[a] = "recent"
    /\ m_disconnects' = [m_disconnects EXCEPT ![a] = "old"]
    /\ UNCHANGED <<sess, m_sessions, addSessQueue, m_QueuedPlayer,
                   m_playerLimit, logins, loopVars>>

Stopped == phase = "stopped" /\ UNCHANGED vars

----------------------------------------------------------------------------
Network ==
    \/ \E s \in Session : \/ SocketClosed(s)
                          \/ \E a \in Account : AuthSession(s, a)
MainThread ==
    \/ AddSession_ \/ AllAdded
    \/ \E a \in Account : BeginUpdate(a)
    \/ HandlePlayerLoginOpcode \/ LogoutPlayer \/ EndUpdate \/ AllUpdated
    \/ HandlePlayerLoginCallback \/ AllResults
    \/ \E a \in Account : KickPlayer(a)
    \/ \E limit \in Limits : ReloadConfig(limit)
    \/ NextTick \/ KickAll

Next == Network \/ MainThread \/ (\E a \in Account : ToleranceElapses(a)) \/ Stopped

Spec == Init /\ [][Next]_vars

----------------------------------------------------------------------------
(* Properties.                                                             *)

Listed == {m_sessions[a] : a \in ListedIn(m_sessions)}
Pending == ToSet(addSessQueue)
Waiting == ToSet(m_QueuedPlayer)

\* Every variable has its type.
TypeOK ==
    /\ sess \in [Session -> SessionRec \cup {NULL}]
    /\ m_sessions \in [Account -> Session \cup {NULL}]
    /\ addSessQueue \in Seq(Session)
    /\ m_QueuedPlayer \in Seq(Session)
    /\ m_disconnects \in [Account -> {"never", "recent", "old"}]
    /\ m_playerLimit \in Limits
    /\ logins \in Seq(Account)
    /\ phase \in Phases
    /\ todo \in SUBSET Account /\ cur \in Account \cup {NULL}
    /\ stopping \in BOOLEAN

\* A session object exists exactly as long as World knows it, in one place:
\* no pointer in m_sessions or addSessQueue outlives its session, none is
\* deleted twice (AddSession_ deletes the one it replaces, UpdateSessions the
\* one that closed), none is lost, and the table keys agree with the sessions.
\* When Master::Run goes on to unload the maps, after KickAll and one last
\* UpdateSessions, no session holds a character any more.
TableSound ==
    /\ \A s \in Session : sess[s] # NULL <=> s \in Listed \cup Pending
    /\ Listed \cap Pending = {}
    /\ \A a \in ListedIn(m_sessions) : sess[m_sessions[a]].account = a
    /\ IsInjective(addSessQueue)
    /\ phase = "stopped" => \A s \in Listed : sess[s].players = 0

\* m_QueuedPlayer holds listed sessions only, each once, and m_inQueue, which
\* gates every packet of a waiting client, says the same; after KickAll the
\* flag survives on sessions that are closed.
QueueSound ==
    /\ TypeOK
    /\ Waiting \subseteq Listed
    /\ IsInjective(m_QueuedPlayer)
    /\ \A s \in Listed : sess[s].inQueue <=>
          \/ s \in Waiting
          \/ stopping /\ sess[s].inQueue /\ sess[s].closed

\* The position a waiting client was last told is its position in the queue,
\* whoever left or entered since (RemoveQueuedPlayer sends only the positions
\* it believes changed), and a client that is in was told so.
PositionsTold ==
    /\ \A i \in 1..Len(m_QueuedPlayer) : sess[m_QueuedPlayer[i]].told = i
    /\ \A s \in Listed \ Waiting : sess[s].told = 0 \/ stopping

\* Nobody waits while there is room as the code counts it: as long as the limit
\* is not reloaded, a non-empty queue means that the limit is reached.  Each
\* place where a slot becomes free admits at most one session, and this shows
\* one is enough.  The code counts game masters too; the configuration file
\* describes another limit, see WorkConservingAsDocumented.
WorkConserving ==
    m_QueuedPlayer # <<>> => m_playerLimit > 0 /\ ActiveCount >= m_playerLimit

\* Nobody waits while there is room as oregoncore.conf.dist says, for which
\* PlayerLimit is the "Maximum number of players in the world. Excluding Mods,
\* GMs and Admins".  GetActiveAndQueuedSessionCount includes them: this does
\* not hold.
WorkConservingAsDocumented ==
    m_QueuedPlayer # <<>> =>
        LET inside == Listed \ Waiting IN
        Cardinality({s \in inside : sess[s].account \notin GMs}) >= m_playerLimit

\* No more players than PlayerLimit are in, besides game masters and those
\* let in again after a disconnection.
Playing == {s \in Listed \ Waiting : /\ sess[s].account \notin GMs
                                      /\ ~sess[s].exempt}
Capacity ==
    m_playerLimit > 0 /\ ~stopping => Cardinality(Playing) <= m_playerLimit

\* Sessions leave the queue in the order they came: no step reorders two that
\* stay, a newcomer goes behind them, and who is admitted had nobody before it.
Before(q, s, t) == \E i, j \in 1..Len(q) : i < j /\ q[i] = s /\ q[j] = t
FirstComeFirstServed ==
    [][\A s, t \in Session :
          s \in Waiting \cap ToSet(m_QueuedPlayer')
            => /\ t \in ToSet(m_QueuedPlayer') \ Waiting
                     => Before(m_QueuedPlayer', s, t)
               /\ Before(m_QueuedPlayer, s, t)
                     => t \in ToSet(m_QueuedPlayer') \/ sess'[t] = NULL
               /\ Before(m_QueuedPlayer, s, t) /\ t \in ToSet(m_QueuedPlayer')
                     => Before(m_QueuedPlayer', s, t)]_vars

\* m_playerLoading, for which RemoveSession turns away every new connection of
\* the account, has a reason: a login of the account is under way, the session
\* was kicked and goes with the next Update, or its packet could not be read.
\* No answer that comes late, to another session of the account, after a kick
\* or beside a second login, leaves an open session behind with the flag set.
LoadingHasReason ==
    \A a \in ListedIn(m_sessions) :
        LET s == m_sessions[a] IN
        sess[s].loading =>
            a \in ToSet(logins) \/ sess[s].closed \/ sess[s].unread
============================================================================
