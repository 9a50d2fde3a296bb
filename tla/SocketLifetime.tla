--------------------------- MODULE SocketLifetime ---------------------------
(***************************************************************************)
(* One client connection: the WorldSocket, which is reference counted and  *)
(* belongs to a network thread, and the WorldSessions it makes, which are  *)
(* deleted by the main thread.  Each points to the other.  Three threads   *)
(* act on them:                                                            *)
(*   acceptor  runs WorldSocket::open,                                     *)
(*   net       runs ReactorRunnable::svc and the handle_* upcalls,         *)
(*   world     runs World::UpdateSessions and what kicks sessions.         *)
(* A step is what a thread does between two moments at which another one   *)
(* can see or change what it uses.  A critical section of m_OutBufferLock  *)
(* is one step, since all it guards is changed under the lock; the lock    *)
(* m_SessionLock is explicit, because m_Session is used without it too.    *)
(*                                                                         *)
(* Deletion of the socket is refs = 0.  Sessions are numbered in the order *)
(* they are made; mSession is the socket's m_Session (0: NULL).            *)
(* Left out: contents and buffers of packets (module SocketOutput), and    *)
(* WorldSocketMgr::StopNetwork.                                            *)
(***************************************************************************)
EXTENDS Naturals, FiniteSets

CONSTANT
    MaxSessions     \* bound on the sessions made by one socket

ASSUME SocketLifetimeAssumption == MaxSessions \in Nat \ {0}

Sessions == 1..MaxSessions

VARIABLES
    closing, mSession, sessLock, refs, outActive, outBuffer,
    inNew, inSockets,       \* membership in m_NewSockets, m_Sockets
    registered,             \* the reactor has the socket as a handler
    session,                \* "none", "made", "handed", "listed", "deleted"
    hasSocket,              \* is the session's m_Socket non-NULL?
    acc, net, world,        \* program counters
    ret,                    \* where CloseSocket returns to, per thread
    caught,                 \* the m_Session that the catch block read
    target                  \* the session the main thread works on

socketVars == <<closing, mSession, sessLock, outActive, outBuffer>>
holders == <<inNew, inSockets, registered, hasSocket>>
vars == <<closing, mSession, sessLock, refs, outActive, outBuffer, inNew,
          inSockets, registered, session, hasSocket, acc, net, world, ret,
          caught, target>>

Init ==
    /\ closing = FALSE /\ mSession = 0 /\ sessLock = "free" /\ refs = 1
    /\ outActive = FALSE /\ outBuffer = FALSE
    /\ inNew = FALSE /\ inSockets = FALSE /\ registered = FALSE
    /\ session = [s \in Sessions |-> "none"]
    /\ hasSocket = [s \in Sessions |-> FALSE]
    /\ acc = "open" /\ net = "run" /\ world = "idle"
    /\ ret = [net |-> "run", world |-> "idle"] /\ target = 1 /\ caught = 0

----------------------------------------------------------------------------
(* The acceptor thread: WorldSocket::open.                                 *)

\* m_OutActive keeps Update away from the buffer that is not there yet.
\* OnSocketOpen may fail on a socket option, before AddSocket.
Open ==
    /\ acc = "open"
    /\ outActive' = TRUE
    /\ acc' \in {"add", "close"}
    /\ UNCHANGED <<closing, mSession, sessLock, refs, outBuffer, holders,
                   session, net, world, ret, caught, target>>

AddSocket ==
    /\ acc = "add"
    /\ refs' = refs + 1 /\ inNew' = TRUE
    /\ acc' = "alloc"
    /\ UNCHANGED <<socketVars, inSockets, registered, hasSocket, session,
                   net, world, ret, caught, target>>

\* The peer may be gone when its address is asked for.
AllocateBuffer ==
    /\ acc = "alloc"
    /\ outBuffer' = TRUE
    /\ acc' \in {"challenge", "close"}
    /\ UNCHANGED <<closing, mSession, sessLock, refs, outActive, holders,
                   session, net, world, ret, caught, target>>

SendChallenge ==
    /\ acc = "challenge"
    /\ acc' = IF closing THEN "close" ELSE "register"
    /\ UNCHANGED <<socketVars, refs, holders, session, net, world, ret, caught, target>>

Register ==
    /\ acc = "register"
    /\ \/ /\ registered' = TRUE /\ refs' = refs + 1 /\ acc' = "drop"
       \/ /\ UNCHANGED <<registered, refs>> /\ acc' = "close"
    /\ UNCHANGED <<socketVars, inNew, inSockets, hasSocket, session, net,
                   world, ret, caught, target>>

\* Mutant: open keeps its reference.
DropOwnForgotten ==
    /\ acc = "drop" /\ acc' = "done"
    /\ UNCHANGED <<socketVars, refs, holders, session, net, world, ret, caught, target>>

\* The reactor takes care of the socket from now on.
DropOwn ==
    /\ acc = "drop"
    /\ refs' = refs - 1 /\ acc' = "done"
    /\ UNCHANGED <<socketVars, holders, session, net, world, ret, caught, target>>

\* WorldSocket::close, called by the acceptor when open fails.
CloseFailed ==
    /\ acc = "close"
    /\ closing' = TRUE /\ refs' = refs - 1 /\ acc' = "done"
    /\ UNCHANGED <<mSession, sessLock, outActive, outBuffer, holders, session,
                   net, world, ret, caught, target>>

----------------------------------------------------------------------------
(* The network thread: upcalls of the reactor.                             *)

NetStep(from, to) == net = from /\ net' = to
netFrame == <<acc, world, target, caught>>

\* Data has come, or the peer has gone: handle_input, up to ProcessIncoming's
\* switch.  Errors, malformed headers and a closed socket end in handle_close,
\* a CMSG_PING too short to be read in the catch block.
HandleInput ==
    /\ registered /\ net = "run"
    /\ net' \in IF closing THEN {"hc1"}
                ELSE {"hc1", "auth", "pktLock", "catch"}
    /\ UNCHANGED <<socketVars, refs, holders, session, ret, netFrame>>

\* CMSG_AUTH_SESSION: m_Session is looked at without its lock.
ProcessAuth ==
    /\ net = "auth"
    /\ net' = IF mSession # 0 THEN "hc1" ELSE "auth1"
    /\ UNCHANGED <<socketVars, refs, holders, session, ret, netFrame>>

\* HandleAuthSession refuses, or makes a session, which takes a reference.
MakeSession ==
    /\ \/ NetStep("auth1", "hc1") /\ UNCHANGED <<mSession, refs, hasSocket, session>>
       \/ \E s \in Sessions :
            /\ NetStep("auth1", "auth2")
            /\ session[s] = "none" /\ \A r \in 1..(s - 1) : session[r] # "none"
            /\ session' = [session EXCEPT ![s] = "made"]
            /\ hasSocket' = [hasSocket EXCEPT ![s] = TRUE]
            /\ refs' = refs + 1
            /\ mSession' = s
    /\ UNCHANGED <<closing, sessLock, outActive, outBuffer, inNew, inSockets,
                   registered, ret, netFrame>>

\* InitWarden, the sleep, and World::AddSession(m_Session).
HandSession ==
    /\ net = "auth2" /\ net' \in {"updR", "run"}
    /\ session' = [session EXCEPT ![mSession] = "handed"]
    /\ UNCHANGED <<socketVars, refs, holders, ret, netFrame>>

\* Mutant: no guard.
LockSessionUnguarded ==
    /\ net = "pktLock"
    /\ net' = IF mSession = 0 THEN "hc1" ELSE "pktUse"
    /\ UNCHANGED <<socketVars, refs, holders, session, ret, netFrame>>

\* Other packets, CMSG_PING among them: m_Session is used under its lock.
LockSession ==
    /\ net = "pktLock" /\ sessLock = "free"
    /\ IF mSession = 0 THEN net' = "hc1" /\ UNCHANGED sessLock
                       ELSE net' = "pktUse" /\ sessLock' = "net"
    /\ UNCHANGED <<closing, mSession, outActive, outBuffer, refs, holders,
                   session, ret, netFrame>>

\* QueuePacket, or SetLatency and the PONG, which a closed socket refuses.
UseSession ==
    /\ net = "pktUse"
    /\ sessLock' = "free"
    /\ net' \in {"updR", "run"} \cup (IF closing THEN {"hc1"} ELSE {})
    /\ UNCHANGED <<closing, mSession, outActive, outBuffer, refs, holders,
                   session, ret, netFrame>>

\* ProcessIncoming's catch block logs m_Session->GetAccountId(): it tests the
\* pointer and uses it, without the lock.
CatchTest ==
    /\ net = "catch"
    /\ net' = IF mSession = 0 THEN "hc1" ELSE "catchUse"
    /\ caught' = mSession
    /\ UNCHANGED <<socketVars, refs, holders, session, ret, acc, world, target>>
CatchUse ==
    /\ NetStep("catchUse", "hc1")
    /\ UNCHANGED <<socketVars, refs, holders, session, ret, netFrame>>

\* Update, at the end of handle_input if no more data waits (R: a failure
\* closes the handler) and in the loop of svc (S: it calls CloseSocket).
Update(from, len, fail, done) ==
    /\ net = from
    /\ net' = IF closing THEN fail ELSE IF outActive THEN done ELSE len
    /\ UNCHANGED <<socketVars, refs, holders, session, ret, netFrame>>

BufferLength(from, out, done) ==
    /\ net = from
    /\ net' \in {out, done}
    /\ UNCHANGED <<socketVars, refs, holders, session, ret, netFrame>>

\* handle_output: send fails, or the wakeup is scheduled or cancelled.
HandleOutput(from, fail, done) ==
    /\ net = from
    /\ \/ net' = fail /\ UNCHANGED outActive
       \/ ~closing /\ net' = done /\ outActive' \in BOOLEAN
    /\ UNCHANGED <<closing, mSession, sessLock, outBuffer, refs, holders,
                   session, ret, netFrame>>

DispatchOutput ==
    /\ registered /\ outActive /\ NetStep("run", "outR")
    /\ UNCHANGED <<socketVars, refs, holders, session, ret, netFrame>>

\* handle_close: two critical sections, then remove_handler.
CloseHandler1 ==
    /\ NetStep("hc1", "hc2")
    /\ closing' = TRUE
    /\ UNCHANGED <<mSession, sessLock, outActive, outBuffer, refs, holders,
                   session, ret, netFrame>>
CloseHandler2 ==
    /\ NetStep("hc2", "hc3") /\ sessLock = "free"
    /\ mSession' = 0
    /\ UNCHANGED <<closing, sessLock, outActive, outBuffer, refs, holders,
                   session, ret, netFrame>>
RemoveHandler ==
    /\ NetStep("hc3", "run")
    /\ registered' = FALSE /\ refs' = refs - 1
    /\ UNCHANGED <<socketVars, inNew, inSockets, hasSocket, session, ret,
                   netFrame>>

(* The network thread: the loop of ReactorRunnable::svc.                   *)

\* Mutant: a socket already closed is forgotten, not released.
AddNewSocketsForgets ==
    /\ net = "run"
    /\ net' = IF inSockets \/ (inNew /\ ~closing) THEN "updS" ELSE "run"
    /\ inNew' = FALSE
    /\ inSockets' = (inSockets \/ (inNew /\ ~closing))
    /\ UNCHANGED <<socketVars, refs, registered, hasSocket, session, ret, netFrame>>

AddNewSockets ==
    /\ net = "run"
    /\ net' = IF inSockets \/ (inNew /\ ~closing) THEN "updS" ELSE "run"
    /\ inNew' = FALSE
    /\ IF inNew /\ closing THEN refs' = refs - 1 /\ UNCHANGED inSockets
       ELSE inSockets' = (inSockets \/ inNew) /\ UNCHANGED refs
    /\ UNCHANGED <<socketVars, registered, hasSocket, session, ret, netFrame>>

UpdateFailed ==
    /\ NetStep("failS", "close1")
    /\ ret' = [ret EXCEPT !.net = "dropS"]
    /\ UNCHANGED <<socketVars, refs, holders, session, netFrame>>

DropSocket ==
    /\ NetStep("dropS", "run")
    /\ inSockets' = FALSE /\ refs' = refs - 1
    /\ ret' = [ret EXCEPT !.net = "run"]
    /\ UNCHANGED <<socketVars, inNew, registered, hasSocket, session, netFrame>>

----------------------------------------------------------------------------
(* WorldSocket::CloseSocket, in the network and in the main thread.        *)

CloseSocket1(pc, t) ==
    /\ pc = "close1"
    /\ closing' = TRUE
    /\ IF t = "net"
       THEN net' = (IF closing THEN ret.net ELSE "close2") /\ UNCHANGED world
       ELSE world' = (IF closing THEN ret.world ELSE "close2") /\ UNCHANGED net
    /\ UNCHANGED <<mSession, sessLock, outActive, outBuffer, refs, holders,
                   session, acc, ret, caught, target>>

CloseSocket2(pc, t) ==
    /\ pc = "close2" /\ sessLock = "free"
    /\ mSession' = 0
    /\ IF t = "net" THEN net' = ret.net /\ UNCHANGED world
                    ELSE world' = ret.world /\ UNCHANGED net
    /\ UNCHANGED <<closing, sessLock, outActive, outBuffer, refs, holders,
                   session, acc, ret, caught, target>>

----------------------------------------------------------------------------
(* The main thread.                                                        *)

worldFrame == <<acc, net, caught>>

\* UpdateSessions takes a session over; AddSession_ may delete it at once.
TakeSession(s) ==
    /\ world = "idle" /\ session[s] = "handed"
    /\ session' = [session EXCEPT ![s] = "listed"]
    /\ target' = s /\ world' \in {"idle", "replace"}
    /\ UNCHANGED <<socketVars, refs, holders, ret, worldFrame>>

\* KickPlayer, and the replacement by a newer session of the same account,
\* which kicks and deletes.
Kick(s) ==
    /\ world = "idle" /\ session[s] = "listed" /\ hasSocket[s] /\ ~closing
    /\ target' = s /\ world' = "close1"
    /\ ret' = [ret EXCEPT !.world = "idle"]
    /\ UNCHANGED <<socketVars, refs, holders, session, worldFrame>>

Replace(s) ==
    /\ world = "idle" /\ session[s] = "listed"
    /\ target' = s /\ world' = "replace"
    /\ UNCHANGED <<socketVars, refs, holders, session, ret, worldFrame>>

KickReplaced ==
    /\ world = "replace"
    /\ IF hasSocket[target] /\ ~closing
       THEN world' = "close1" /\ ret' = [ret EXCEPT !.world = "delete"]
       ELSE world' = "delete" /\ UNCHANGED ret
    /\ UNCHANGED <<socketVars, refs, holders, session, target, worldFrame>>

\* The end of WorldSession::Update on a closed socket.
EndUpdate(s) ==
    /\ world = "idle" /\ session[s] = "listed" /\ hasSocket[s] /\ closing
    /\ refs' = refs - 1
    /\ hasSocket' = [hasSocket EXCEPT ![s] = FALSE]
    /\ target' = s /\ world' = "delete"
    /\ UNCHANGED <<socketVars, inNew, inSockets, registered, session, ret,
                   worldFrame>>

\* The destructor closes the socket it still has, and lets it go.
Destroy ==
    /\ world = "delete"
    /\ IF hasSocket[target]
       THEN world' = "close1" /\ ret' = [ret EXCEPT !.world = "release"]
       ELSE world' = "free" /\ UNCHANGED ret
    /\ UNCHANGED <<socketVars, refs, holders, session, target, worldFrame>>
Release ==
    /\ world = "release"
    /\ refs' = refs - 1
    /\ hasSocket' = [hasSocket EXCEPT ![target] = FALSE]
    /\ world' = "free"
    /\ UNCHANGED <<socketVars, inNew, inSockets, registered, session, ret,
                   target, worldFrame>>
Free ==
    /\ world = "free"
    /\ session' = [session EXCEPT ![target] = "deleted"]
    /\ world' = "idle"
    /\ UNCHANGED <<socketVars, refs, holders, ret, target, worldFrame>>

----------------------------------------------------------------------------
Acceptor == \/ Open \/ AddSocket \/ AllocateBuffer \/ SendChallenge
            \/ Register \/ DropOwn \/ CloseFailed

NetInput == \/ HandleInput \/ ProcessAuth \/ MakeSession \/ HandSession
            \/ LockSession \/ UseSession \/ CatchTest \/ CatchUse
            \/ Update("updR", "lenR", "hc1", "run")
            \/ BufferLength("lenR", "outR", "run")

NetOutput == \/ DispatchOutput
             \/ HandleOutput("outR", "hc1", "run")
             \/ HandleOutput("outS", "failS", "run")

NetClose == \/ CloseHandler1 \/ CloseHandler2 \/ RemoveHandler

NetLoop == \/ AddNewSockets
           \/ Update("updS", "lenS", "failS", "run")
           \/ BufferLength("lenS", "outS", "run")
           \/ UpdateFailed \/ DropSocket
           \/ CloseSocket1(net, "net") \/ CloseSocket2(net, "net")

MainThread == \/ \E s \in Sessions : TakeSession(s) \/ Kick(s) \/ Replace(s)
                                        \/ EndUpdate(s)
              \/ KickReplaced \/ Destroy \/ Release \/ Free
              \/ CloseSocket1(world, "world") \/ CloseSocket2(world, "world")

Next == Acceptor \/ NetInput \/ NetOutput \/ NetClose \/ NetLoop \/ MainThread

Spec == Init /\ [][Next]_vars

\* Every thread goes on.  The reactor reports the end of a half-closed
\* connection, so the peer is assumed to close its side in the end.
Fairness ==
    /\ WF_vars(Acceptor)
    /\ WF_vars(net # "run" /\ (NetInput \/ NetOutput \/ NetClose \/ NetLoop))
    /\ SF_vars(AddNewSockets)
    /\ SF_vars(closing /\ HandleInput)
    /\ WF_vars(world # "idle" /\ MainThread)
    /\ \A s \in Sessions : WF_vars(TakeSession(s)) /\ WF_vars(EndUpdate(s))

FairSpec == Spec /\ Fairness

----------------------------------------------------------------------------
(* Properties.                                                             *)

TypeOK ==
    /\ closing \in BOOLEAN /\ outActive \in BOOLEAN /\ outBuffer \in BOOLEAN
    /\ mSession \in 0..MaxSessions /\ caught \in 0..MaxSessions
    /\ target \in Sessions /\ refs \in Nat
    /\ sessLock \in {"free", "net"}
    /\ inNew \in BOOLEAN /\ inSockets \in BOOLEAN /\ registered \in BOOLEAN
    /\ session \in [Sessions -> {"none", "made", "handed", "listed", "deleted"}]
    /\ hasSocket \in [Sessions -> BOOLEAN]
    /\ acc \in {"open", "add", "alloc", "challenge", "register", "drop",
                "close", "done"}
    /\ net \in {"run", "auth", "auth1", "auth2", "pktLock", "pktUse", "catch",
                "catchUse", "updR", "lenR", "outR", "hc1", "hc2", "hc3",
                "updS", "lenS", "outS", "failS", "close1", "close2", "dropS"}
    /\ world \in {"idle", "replace", "close1", "close2", "delete", "release",
                  "free"}
    /\ ret \in [net : {"run", "dropS"},
                world : {"idle", "delete", "release"}]

Count(b) == IF b THEN 1 ELSE 0

\* The reference count is the number of parties that hold the socket: no
\* release is forgotten or done twice on any path through open, handle_close,
\* svc and the session's destructor.
RefsAccounted ==
    /\ TypeOK
    /\ refs = Count(acc # "done") + Count(inNew) + Count(inSockets)
              + Count(registered) + Cardinality({s \in Sessions : hasSocket[s]})

\* Whoever is about to use the socket finds it alive.
SocketAlive ==
    (\/ acc # "done" \/ net # "run"
     \/ world \in {"close1", "close2"}
     \/ \E s \in Sessions : hasSocket[s]) => refs > 0

\* Whenever the network thread follows the socket's pointer to a session, in
\* HandleAuthSession or under m_SessionLock, the main thread has not deleted
\* that session.
SessionAlive ==
    /\ net = "auth2" => mSession # 0 /\ session[mSession] = "made"
    /\ net = "pktUse" => mSession # 0 /\ session[mSession] # "deleted"

\* The network thread, which owns the socket before open has finished, does
\* not touch m_OutBuffer before it is allocated.
BufferReady == net \in {"lenR", "lenS", "outR", "outS"} => outBuffer

\* No thread follows a pointer to what another has freed or not yet made; the
\* catch block of ProcessIncoming, which follows m_Session without its lock
\* (CatchUse), is excepted.
NothingDangles == SocketAlive /\ SessionAlive /\ BufferReady

\* A closed socket is freed and its sessions are deleted.
ClosedIsFreed ==
    closing ~> /\ refs = 0
               /\ \A s \in Sessions : session[s] \in {"none", "deleted"}
=============================================================================
