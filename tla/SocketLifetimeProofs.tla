------------------------ MODULE SocketLifetimeProofs ------------------------
(***************************************************************************)
(* What holds of SocketLifetime for any number of sessions made by one     *)
(* socket: the reference count is exact, and neither the network thread    *)
(* nor the main thread follows a pointer to what is gone.                  *)
(***************************************************************************)
EXTENDS SocketLifetime, FiniteSetTheorems, TLAPS

USE SocketLifetimeAssumption DEF SocketLifetimeAssumption

----------------------------------------------------------------------------
(* The inductive invariant: what the place a thread has reached says of    *)
(* the containers, the pointers and the close flag.                        *)

Upcall == {"auth", "auth1", "auth2", "pktLock", "pktUse", "catch", "catchUse",
           "updR", "lenR", "outR", "hc1", "hc2", "hc3"}
Loop == {"updS", "lenS", "outS", "failS", "close1", "close2", "dropS"}
Living == {"made", "handed", "listed"}

\* A socket that open has not registered yet has no session, and one that
\* others may write to has a buffer or keeps them off with m_OutActive.
AcceptorPlace ==
    /\ acc \in {"open", "add"} => ~inNew /\ ~inSockets
    /\ ~(inNew /\ inSockets)
    /\ acc \notin {"drop", "done"} =>
          ~registered /\ \A s \in Sessions : session[s] = "none"
    /\ acc # "open" => outActive \/ outBuffer
    /\ (acc \in {"challenge", "register", "drop"} \/ registered) => outBuffer

\* An upcall is for a registered socket, the loop of svc for one in m_Sockets.
NetPlace ==
    /\ net \in Upcall => registered
    /\ net \in Loop => inSockets
    /\ net \in {"close1", "close2"} => ret.net = "dropS"
    /\ net \in {"hc2", "hc3", "close2"} => closing
    /\ sessLock = "net" <=> net = "pktUse"

\* The main thread works on a session it has listed; a session lets its socket
\* go only once that is closed, and is then on its way to be deleted.
WorldPlace ==
    /\ world # "idle" => session[target] = "listed"
    /\ world \in {"close1", "close2", "release"} => hasSocket[target]
    /\ world \in {"close2", "release", "free"} => closing
    /\ world = "free" => ~hasSocket[target]
    /\ \A s \in Sessions :
          /\ session[s] = "deleted" => closing
          /\ hasSocket[s] => session[s] \in Living
          /\ session[s] \in Living /\ ~hasSocket[s] =>
                closing /\ s = target /\ world \in {"delete", "free"}

\* While the socket is open it has had one session at most, to which m_Session
\* points.  CloseSocket therefore clears the pointer to the very session it
\* was called for, or handle_close has done so before.
ClosedOnce ==
    /\ ~closing => \A s \in Sessions : session[s] # "none" => s = mSession
    /\ net = "auth1" => mSession = 0
    /\ ~(net = "close2" /\ world = "close2")
    /\ world = "close2" => mSession = target \/ net = "hc3" \/ ~registered
    /\ net \in {"pktLock", "pktUse"} /\ closing /\ mSession # 0 =>
          world = "close2" /\ mSession = target

Places == AcceptorPlace /\ NetPlace /\ WorldPlace /\ ClosedOnce
Safe == SessionAlive /\ BufferReady

SocketInv == RefsAccounted /\ Places /\ Safe

\* The part of TypeOK about what is TRUE or FALSE.
Flags ==
    /\ closing \in BOOLEAN /\ outActive \in BOOLEAN /\ outBuffer \in BOOLEAN
    /\ inNew \in BOOLEAN /\ inSockets \in BOOLEAN /\ registered \in BOOLEAN
    /\ hasSocket \in [Sessions -> BOOLEAN]

\* At the start only open holds the socket, and nobody points to anything.
LEMMA InitSocket == Init => SocketInv
  <1> SUFFICES ASSUME Init PROVE SocketInv
    OBVIOUS
  <1>1. Flags
    BY Zenon DEF Init, Flags
  <1>2. TypeOK /\ {s \in Sessions : hasSocket[s]} = {}
    BY <1>1 DEF Init, TypeOK, Flags, Sessions
  <1>3. RefsAccounted
    BY <1>2, FS_EmptySet DEF Init, RefsAccounted, Count
  <1>4. Places
    BY DEF Init, Places, AcceptorPlace, NetPlace, WorldPlace, ClosedOnce,
           Upcall, Loop, Living
  <1>5. Safe
    BY DEF Init, Safe, SessionAlive, BufferReady
  <1> QED
    BY <1>3, <1>4, <1>5 DEF SocketInv

----------------------------------------------------------------------------
(* The places of the threads, the pointers and the buffer.                 *)

\* WorldSocket::open registers a socket only with its buffer in place, and
\* makes no session.
LEMMA AcceptorPlaces ==
  ASSUME SocketInv, Acceptor
  PROVE  Places' /\ Safe'
  <1> USE DEF SocketInv, RefsAccounted, TypeOK, Places, Safe, AcceptorPlace,
              NetPlace, WorldPlace, ClosedOnce, SessionAlive, BufferReady,
              Upcall, Loop, socketVars, holders
  <1>1. CASE Open
    BY <1>1 DEF Open
  <1>2. CASE AddSocket
    BY <1>2 DEF AddSocket
  <1>3. CASE AllocateBuffer
    BY <1>3 DEF AllocateBuffer
  <1>4. CASE SendChallenge
    BY <1>4 DEF SendChallenge
  <1>5. CASE Register
    BY <1>5 DEF Register
  <1>6. CASE DropOwn
    BY <1>6 DEF DropOwn
  <1>7. CASE CloseFailed
    BY <1>7 DEF CloseFailed
  <1> QED
    BY <1>1, <1>2, <1>3, <1>4, <1>5, <1>6, <1>7 DEF Acceptor

\* The upcall handle_input.  A session is made only when m_Session is NULL,
\* which no CloseSocket still under way then clears; under the lock m_Session
\* points to a session that is not deleted.
LEMMA NetInputPlaces ==
  ASSUME SocketInv, NetInput
  PROVE  Places' /\ Safe'
  <1> USE DEF SocketInv, RefsAccounted, TypeOK, Places, Safe, AcceptorPlace,
              NetPlace, WorldPlace, ClosedOnce, SessionAlive, BufferReady,
              Upcall, Loop, Living, socketVars, holders, netFrame, NetStep
  <1>1. CASE HandleInput
    BY <1>1 DEF HandleInput
  <1>2. CASE ProcessAuth
    BY <1>2 DEF ProcessAuth
  <1>3. CASE MakeSession
    <2>1. registered /\ mSession = 0 /\ world # "close2"
      BY <1>3 DEF MakeSession, Sessions
    <2>2. CASE net' = "hc1"
      BY <1>3, <2>2 DEF MakeSession
    <2>3. CASE net' = "auth2"
      <3>1. PICK s \in Sessions :
               /\ net = "auth1" /\ session[s] = "none"
               /\ \A r \in 1..(s - 1) : session[r] # "none"
               /\ session' = [session EXCEPT ![s] = "made"]
               /\ hasSocket' = [hasSocket EXCEPT ![s] = TRUE]
               /\ mSession' = s
        BY <1>3, <2>3 DEF MakeSession
      <3>2. AcceptorPlace' /\ NetPlace' /\ Safe'
        BY <1>3, <2>3, <3>1 DEF MakeSession, Sessions
      <3>3. WorldPlace'
        BY <1>3, <2>3, <3>1 DEF MakeSession
      <3>4. ClosedOnce'
        BY <1>3, <2>1, <2>3, <3>1 DEF MakeSession, Sessions
      <3> QED
        BY <3>2, <3>3, <3>4
    <2> QED
      BY <1>3, <2>2, <2>3 DEF MakeSession
  <1>4. CASE HandSession
    BY <1>4 DEF HandSession, Sessions
  <1>5. CASE LockSession
    <2>1. \A s \in Sessions : session[s] = "deleted" => closing
      OBVIOUS
    <2>2. mSession # 0 => mSession \in Sessions /\ session[mSession] # "deleted"
      BY <1>5, <2>1 DEF LockSession, Sessions
    <2> QED
      BY <1>5, <2>2 DEF LockSession
  <1>6. CASE UseSession
    BY <1>6 DEF UseSession
  <1>7. CASE CatchTest
    BY <1>7 DEF CatchTest
  <1>8. CASE CatchUse
    BY <1>8 DEF CatchUse
  <1>9. CASE Update("updR", "lenR", "hc1", "run")
    BY <1>9 DEF Update
  <1>10. CASE BufferLength("lenR", "outR", "run")
    BY <1>10 DEF BufferLength
  <1> QED
    BY <1>1, <1>2, <1>3, <1>4, <1>5, <1>6, <1>7, <1>8, <1>9, <1>10 DEF NetInput

\* The upcalls handle_output and handle_close.
LEMMA NetOutputPlaces ==
  ASSUME SocketInv, NetOutput \/ NetClose
  PROVE  Places' /\ Safe'
  <1> USE DEF SocketInv, RefsAccounted, TypeOK, Places, Safe, AcceptorPlace,
              NetPlace, WorldPlace, ClosedOnce, SessionAlive, BufferReady,
              Upcall, Loop, socketVars, holders, netFrame, NetStep
  <1>1. CASE DispatchOutput
    BY <1>1 DEF DispatchOutput
  <1>2. CASE HandleOutput("outR", "hc1", "run")
    BY <1>2 DEF HandleOutput
  <1>3. CASE HandleOutput("outS", "failS", "run")
    BY <1>3 DEF HandleOutput
  <1>4. CASE CloseHandler1
    BY <1>4 DEF CloseHandler1
  <1>5. CASE CloseHandler2
    BY <1>5 DEF CloseHandler2
  <1>6. CASE RemoveHandler
    BY <1>6 DEF RemoveHandler
  <1> QED
    BY <1>1, <1>2, <1>3, <1>4, <1>5, <1>6 DEF NetOutput, NetClose

\* The loop of svc: a socket is taken over from m_NewSockets, updated, closed
\* by CloseSocket when that fails, and dropped.
LEMMA NetLoopPlaces ==
  ASSUME SocketInv, NetLoop
  PROVE  Places' /\ Safe'
  <1> USE DEF SocketInv, RefsAccounted, TypeOK, Places, Safe, AcceptorPlace,
              NetPlace, WorldPlace, ClosedOnce, SessionAlive, BufferReady,
              Upcall, Loop, socketVars, holders, netFrame, NetStep
  <1>1. CASE AddNewSockets
    BY <1>1 DEF AddNewSockets
  <1>2. CASE Update("updS", "lenS", "failS", "run")
    BY <1>2 DEF Update
  <1>3. CASE BufferLength("lenS", "outS", "run")
    BY <1>3 DEF BufferLength
  <1>4. CASE UpdateFailed
    BY <1>4 DEF UpdateFailed
  <1>5. CASE DropSocket
    BY <1>5 DEF DropSocket
  <1>6. CASE CloseSocket1(net, "net")
    BY <1>6 DEF CloseSocket1
  <1>7. CASE CloseSocket2(net, "net")
    BY <1>7 DEF CloseSocket2
  <1> QED
    BY <1>1, <1>2, <1>3, <1>4, <1>5, <1>6, <1>7 DEF NetLoop

\* The main thread.  CloseSocket waits for m_SessionLock before it clears
\* m_Session, and a session is deleted only after that.
LEMMA MainPlaces ==
  ASSUME SocketInv, MainThread
  PROVE  Places' /\ Safe'
  <1> USE DEF SocketInv, RefsAccounted, TypeOK, Places, Safe, AcceptorPlace,
              NetPlace, WorldPlace, ClosedOnce, SessionAlive, BufferReady,
              Upcall, Loop, Living, socketVars, holders, worldFrame
  <1>1. ASSUME NEW s \in Sessions, TakeSession(s) PROVE Places' /\ Safe'
    BY <1>1 DEF TakeSession, Sessions
  <1>2. ASSUME NEW s \in Sessions, Kick(s) PROVE Places' /\ Safe'
    BY <1>2 DEF Kick, Sessions
  <1>3. ASSUME NEW s \in Sessions, Replace(s) PROVE Places' /\ Safe'
    BY <1>3 DEF Replace, Sessions
  <1>4. ASSUME NEW s \in Sessions, EndUpdate(s) PROVE Places' /\ Safe'
    BY <1>4 DEF EndUpdate, Sessions
  <1>5. CASE KickReplaced
    BY <1>5 DEF KickReplaced
  <1>6. CASE Destroy
    BY <1>6 DEF Destroy
  <1>7. CASE Release
    BY <1>7 DEF Release
  <1>8. CASE Free
    <2>1. closing /\ world # "close2" /\ ~hasSocket[target]
      BY <1>8 DEF Free
    <2>2. ~(net = "pktUse" /\ mSession = target)
      BY <2>1 DEF Sessions
    <2> QED
      BY <1>8, <2>1, <2>2 DEF Free
  <1>9. CASE CloseSocket1(world, "world")
    BY <1>9 DEF CloseSocket1, Sessions
  <1>10. CASE CloseSocket2(world, "world")
    <2>1. closing /\ world = "close2" /\ session[target] = "listed"
      BY <1>10 DEF CloseSocket2
    <2>2. net \notin {"auth2", "pktUse"}
      BY <1>10, <2>1 DEF CloseSocket2
    <2> QED
      BY <1>10, <2>1, <2>2 DEF CloseSocket2
  <1> QED
    BY <1>1, <1>2, <1>3, <1>4, <1>5, <1>6, <1>7, <1>8, <1>9, <1>10
       DEF MainThread

----------------------------------------------------------------------------
(* The reference count.                                                    *)

\* The sessions that hold a reference to the socket.
Holding == {s \in Sessions : hasSocket[s]}

\* Finitely many sessions hold the socket, so they can be counted.
LEMMA HoldingFinite ==
  /\ IsFiniteSet(Holding) /\ Cardinality(Holding) \in Nat
  /\ Cardinality(Holding') \in Nat
  <1>1. IsFiniteSet(Sessions)
    BY FS_Interval DEF Sessions
  <1>2. Holding \in SUBSET Sessions /\ Holding' \in SUBSET Sessions
    BY DEF Holding
  <1> QED
    BY <1>1, <1>2, FS_Subset, FS_CardinalityType

\* HandleAuthSession makes a session, whose constructor takes a reference.
LEMMA SessionTakes ==
  ASSUME TypeOK, NEW s \in Sessions, ~hasSocket[s],
         hasSocket' = [hasSocket EXCEPT ![s] = TRUE]
  PROVE  Cardinality(Holding') = Cardinality(Holding) + 1
  <1>1. Holding' = Holding \cup {s} /\ s \notin Holding
    BY DEF Holding, TypeOK
  <1> QED
    BY <1>1, HoldingFinite, FS_AddElement

\* WorldSession::Update or the destructor gives the reference back.
LEMMA SessionReleases ==
  ASSUME TypeOK, NEW s \in Sessions, hasSocket[s],
         hasSocket' = [hasSocket EXCEPT ![s] = FALSE]
  PROVE  Cardinality(Holding') = Cardinality(Holding) - 1
  <1>1. Holding' = Holding \ {s} /\ s \in Holding
    BY DEF Holding, TypeOK
  <1> QED
    BY <1>1, HoldingFinite, FS_RemoveElement

\* The number of parties that hold the socket.
Held == Count(acc # "done") + Count(inNew) + Count(inSockets)
        + Count(registered) + Cardinality(Holding)

\* It is a natural number before and after a step, and positive if there is
\* a party.
LEMMA HeldNat ==
  /\ Held \in Nat /\ Held' \in Nat
  /\ (acc # "done" \/ inNew \/ inSockets \/ registered \/ Holding # {})
        => Held > 0
  <1>1. Holding # {} => Cardinality(Holding) # 0
    BY HoldingFinite, FS_EmptySet
  <1> QED
    BY <1>1, HoldingFinite DEF Held, Count

\* The steps that change neither the count nor a holder.
LEMMA HeldKept ==
  ASSUME refs = Held, UNCHANGED <<refs, holders>>,
         acc' # "done" <=> acc # "done"
  PROVE  refs' = Held'
  BY DEF Held, Holding, Count, holders

\* Every reference that a step takes or releases is that of a party that begins
\* or ceases to hold the socket.
LEMMA NextHeld ==
  ASSUME SocketInv, Next
  PROVE  refs' = Held'
  <1>1. /\ TypeOK /\ refs = Held /\ Cardinality(Holding) \in Nat
        /\ AcceptorPlace /\ NetPlace /\ WorldPlace
    BY HoldingFinite DEF SocketInv, RefsAccounted, Places, Held, Holding
  <1>2. CASE Acceptor
    <2>1. CASE Open \/ AllocateBuffer \/ SendChallenge
      BY <2>1, <1>1, HeldKept
         DEF Open, AllocateBuffer, SendChallenge, socketVars
    <2>2. CASE AddSocket
      BY <2>2, <1>1 DEF AddSocket, AcceptorPlace, Held, Holding, Count, TypeOK
    <2>3. CASE Register
      BY <2>3, <1>1 DEF Register, AcceptorPlace, Held, Holding, Count, TypeOK
    <2>4. CASE DropOwn \/ CloseFailed
      BY <2>4, <1>1
         DEF DropOwn, CloseFailed, holders, Held, Holding, Count, TypeOK
    <2> QED
      BY <1>2, <2>1, <2>2, <2>3, <2>4 DEF Acceptor
  <1>3. CASE NetInput
    <2>1. CASE MakeSession
      <3>1. CASE UNCHANGED <<refs, hasSocket>>
        BY <2>1, <3>1, <1>1, HeldKept DEF MakeSession, netFrame, holders
      <3>2. ASSUME NEW s \in Sessions, session[s] = "none", refs' = refs + 1,
                   hasSocket' = [hasSocket EXCEPT ![s] = TRUE]
            PROVE  refs' = Held'
        <4>1. ~hasSocket[s]
          BY <3>2, <1>1 DEF WorldPlace, Living
        <4>2. Cardinality(Holding') = Cardinality(Holding) + 1
          BY <4>1, <3>2, <1>1, SessionTakes
        <4> QED
          BY <2>1, <3>2, <4>2, <1>1
             DEF MakeSession, netFrame, Held, Count, TypeOK
      <3> QED
        BY <2>1, <3>1, <3>2 DEF MakeSession
    <2>2. CASE ~MakeSession
      BY <1>3, <2>2, <1>1, HeldKept
         DEF NetInput, HandleInput, ProcessAuth, HandSession, LockSession,
             UseSession, CatchTest, CatchUse, Update, BufferLength, netFrame
    <2> QED
      BY <2>1, <2>2
  <1>4. CASE NetOutput
    BY <1>4, <1>1, HeldKept
       DEF NetOutput, DispatchOutput, HandleOutput, netFrame
  <1>5. CASE NetClose
    <2>1. CASE CloseHandler1 \/ CloseHandler2
      BY <2>1, <1>1, HeldKept DEF CloseHandler1, CloseHandler2, netFrame
    <2>2. CASE RemoveHandler
      BY <2>2, <1>1
         DEF RemoveHandler, NetStep, NetPlace, Upcall, netFrame, Held,
                        Holding, Count, TypeOK
    <2> QED
      BY <1>5, <2>1, <2>2 DEF NetClose
  <1>6. CASE NetLoop
    <2>1. CASE AddNewSockets
      BY <2>1, <1>1 DEF AddNewSockets, AcceptorPlace, netFrame, Held, Holding,
                        Count, TypeOK
    <2>2. CASE DropSocket
      BY <2>2, <1>1 DEF DropSocket, NetStep, NetPlace, Loop, netFrame, Held,
                        Holding, Count, TypeOK
    <2>3. CASE ~AddNewSockets /\ ~DropSocket
      BY <1>6, <2>3, <1>1, HeldKept
         DEF NetLoop, Update, BufferLength, UpdateFailed, CloseSocket1,
             CloseSocket2, netFrame
    <2> QED
      BY <2>1, <2>2, <2>3
  <1>7. CASE MainThread
    <2>1. ASSUME NEW s \in Sessions, EndUpdate(s) PROVE refs' = Held'
      <3>1. Cardinality(Holding') = Cardinality(Holding) - 1
        BY <2>1, <1>1, SessionReleases DEF EndUpdate
      <3> QED
        BY <2>1, <3>1, <1>1 DEF EndUpdate, worldFrame, Held, Count, TypeOK
    <2>2. CASE Release
      <3>1. hasSocket[target] /\ target \in Sessions
        BY <2>2, <1>1 DEF Release, WorldPlace, TypeOK
      <3>2. Cardinality(Holding') = Cardinality(Holding) - 1
        BY <2>2, <3>1, <1>1, SessionReleases DEF Release
      <3> QED
        BY <2>2, <3>2, <1>1 DEF Release, worldFrame, Held, Count, TypeOK
    <2>3. ASSUME NEW s \in Sessions, TakeSession(s) \/ Kick(s) \/ Replace(s)
          PROVE  refs' = Held'
      BY <2>3, <1>1, HeldKept DEF TakeSession, Kick, Replace, worldFrame
    <2>4. CASE \/ KickReplaced \/ Destroy \/ Free
               \/ CloseSocket1(world, "world") \/ CloseSocket2(world, "world")
      BY <2>4, <1>1, HeldKept
         DEF KickReplaced, Destroy, Free, CloseSocket1, CloseSocket2,
         worldFrame
    <2> QED
      BY <1>7, <2>1, <2>2, <2>3, <2>4 DEF MainThread
  <1> QED
    BY <1>2, <1>3, <1>4, <1>5, <1>6, <1>7 DEF Next

----------------------------------------------------------------------------
(* Type correctness, with the count as a natural number.                   *)

\* The steps of every thread keep what is TRUE or FALSE so.
LEMMA NextFlags ==
  ASSUME Flags, Next
  PROVE  Flags'
  <1> USE DEF Flags, socketVars, holders
  <1>1. CASE Acceptor
    BY <1>1, Zenon
       DEF Acceptor, Open, AddSocket, AllocateBuffer, SendChallenge,
                       Register, DropOwn, CloseFailed
  <1>2. CASE NetInput
    BY <1>2, Zenon
       DEF NetInput, HandleInput, ProcessAuth, MakeSession, HandSession,
           LockSession, UseSession, CatchTest, CatchUse, Update, BufferLength,
           NetStep, netFrame
  <1>3. CASE NetOutput
    BY <1>3, Zenon
       DEF NetOutput, DispatchOutput, HandleOutput, NetStep, netFrame
  <1>4. CASE NetClose
    BY <1>4, Zenon DEF NetClose, CloseHandler1, CloseHandler2, RemoveHandler,
                       NetStep, netFrame
  <1>5. CASE NetLoop
    BY <1>5, Zenon DEF NetLoop, AddNewSockets, Update, BufferLength,
                       UpdateFailed, DropSocket, CloseSocket1, CloseSocket2,
                       NetStep, netFrame
  <1>6. CASE MainThread
    <2>1. ASSUME NEW s \in Sessions, TakeSession(s) \/ Kick(s)
          PROVE  Flags'
      BY <2>1, Zenon DEF TakeSession, Kick, worldFrame
    <2>2. ASSUME NEW s \in Sessions, Replace(s) \/ EndUpdate(s)
          PROVE  Flags'
      BY <2>2, Zenon DEF Replace, EndUpdate, worldFrame
    <2>3. CASE KickReplaced \/ Destroy \/ Release \/ Free
      BY <2>3, Zenon DEF KickReplaced, Destroy, Release, Free, worldFrame
    <2>4. CASE CloseSocket1(world, "world") \/ CloseSocket2(world, "world")
      BY <2>4, Zenon DEF CloseSocket1, CloseSocket2, worldFrame
    <2> QED
      BY <1>6, <2>1, <2>2, <2>3, <2>4 DEF MainThread
  <1> QED
    BY <1>1, <1>2, <1>3, <1>4, <1>5, <1>6 DEF Next

\* The steps of every thread keep the types, given that refs stays natural.
LEMMA NextTyped ==
  ASSUME SocketInv, Next, refs' \in Nat
  PROVE  TypeOK'
  <1>1. TypeOK /\ NetPlace
    BY DEF SocketInv, RefsAccounted, Places
  <1>2. Flags'
    BY <1>1, NextFlags DEF Flags, TypeOK
  <1> USE <1>1, <1>2 DEF Flags, TypeOK, socketVars, holders
  <1>3. CASE Acceptor
    BY <1>3 DEF Acceptor, Open, AddSocket, AllocateBuffer, SendChallenge,
                Register, DropOwn, CloseFailed
  <1>4. CASE NetInput
    <2>1. CASE MakeSession
      BY <2>1 DEF MakeSession, NetStep, netFrame, Sessions
    <2>2. CASE ~MakeSession
      BY <1>4, <2>2
         DEF NetInput, HandleInput, ProcessAuth, HandSession, LockSession,
             UseSession, CatchTest, CatchUse, Update, BufferLength, NetStep,
             netFrame
    <2> QED
      BY <2>1, <2>2
  <1>5. CASE NetOutput
    BY <1>5 DEF NetOutput, DispatchOutput, HandleOutput, NetStep, netFrame
  <1>6. CASE NetClose
    BY <1>6 DEF NetClose, CloseHandler1, CloseHandler2, RemoveHandler, NetStep,
                netFrame
  <1>7. CASE NetLoop
    BY <1>7 DEF NetLoop, AddNewSockets, Update, BufferLength, UpdateFailed,
                DropSocket, CloseSocket1, CloseSocket2, NetPlace, NetStep,
                netFrame
  <1>8. CASE MainThread
    BY <1>8
       DEF MainThread, TakeSession, Kick, Replace, EndUpdate, KickReplaced,
                Destroy, Release, Free, CloseSocket1, CloseSocket2, worldFrame
  <1> QED
    BY <1>3, <1>4, <1>5, <1>6, <1>7, <1>8 DEF Next

----------------------------------------------------------------------------
(* The theorems.                                                           *)

\* Every step of the three threads preserves the invariant.
LEMMA NextSocket == SocketInv /\ [Next]_vars => SocketInv'
  <1> SUFFICES ASSUME SocketInv, [Next]_vars PROVE SocketInv'
    OBVIOUS
  <1>1. CASE Next
    <2>1. refs' = Held' /\ refs' \in Nat
      BY <1>1, NextHeld, HeldNat
    <2>2. TypeOK'
      BY <1>1, <2>1, NextTyped
    <2>3. RefsAccounted'
      BY <2>1, <2>2 DEF RefsAccounted, Held, Holding
    <2>4. Places' /\ Safe'
      BY <1>1, AcceptorPlaces, NetInputPlaces, NetOutputPlaces, NetLoopPlaces,
         MainPlaces DEF Next
    <2> QED
      BY <2>3, <2>4 DEF SocketInv
  <1>2. CASE UNCHANGED vars
    BY <1>2 DEF vars, SocketInv, RefsAccounted, TypeOK, Places, Safe,
                AcceptorPlace, NetPlace, WorldPlace, ClosedOnce, SessionAlive,
                BufferReady
  <1> QED
    BY <1>1, <1>2

\* The invariant holds in every reachable state.
LEMMA SocketInvariant == Spec => []SocketInv
  BY InitSocket, NextSocket, PTL DEF Spec

\* WorldSocket's count of references is at all times the number of parties
\* that hold it: no path through open, handle_close, svc and the session's
\* destructor forgets a release or releases twice.
THEOREM RefsExact == Spec => []RefsAccounted
  <1>1. SocketInv => RefsAccounted
    BY DEF SocketInv
  <1> QED
    BY <1>1, SocketInvariant, PTL

\* Who is at work on the socket holds a reference or works for one who does,
\* so it finds the socket alive.
LEMMA WorkerFindsIt == SocketInv => SocketAlive
  <1> SUFFICES ASSUME SocketInv PROVE SocketAlive
    OBVIOUS
  <1>1. refs = Held /\ TypeOK /\ NetPlace /\ WorldPlace
    BY DEF SocketInv, RefsAccounted, Places, Held, Holding
  <1>2. net # "run" => registered \/ inSockets
    BY <1>1 DEF TypeOK, NetPlace, Upcall, Loop
  <1>3. world \in {"close1", "close2"} => Holding # {}
    BY <1>1 DEF TypeOK, WorldPlace, Holding
  <1>4. (\E s \in Sessions : hasSocket[s]) => Holding # {}
    BY DEF Holding
  <1> QED
    BY <1>1, <1>2, <1>3, <1>4, HeldNat DEF SocketAlive

\* No thread uses the socket, a session or the output buffer before it is made
\* or after it is freed, the catch block of ProcessIncoming excepted.
THEOREM PointersSafe == Spec => []NothingDangles
  <1>1. SocketInv => NothingDangles
    BY WorkerFindsIt DEF SocketInv, Safe, NothingDangles
  <1> QED
    BY <1>1, SocketInvariant, PTL
=============================================================================
