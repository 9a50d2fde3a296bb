---------------------------- MODULE SocketOutput ----------------------------
(***************************************************************************)
(* The output side of a WorldSocket: SendPacket copies a packet into the   *)
(* fixed m_OutBuffer when it has room, and puts it into m_PacketQueue      *)
(* otherwise; the network thread sends from the buffer and refills it from *)
(* the queue.  Every access is under m_OutBufferLock, so a call is a step, *)
(* but the lock is released before the reactor is told whether the socket  *)
(* waits for output.                                                       *)
(*                                                                         *)
(* Packets are numbered in the order of the SendPacket calls; the buffer   *)
(* holds, unit by unit, the packet a unit belongs to.  header and payload  *)
(* are not told apart, nor is the length check of m_OutBuffer in Update,   *)
(* made without the lock, from a call that comes a little later.           *)
(***************************************************************************)
EXTENDS Naturals, Sequences, SequencesExt, FiniteSets

CONSTANTS
    Capacity,       \* Network.OutUBuff, in units
    Sizes,          \* the sizes of packets with their header, in units
    MaxPackets      \* bound on the packets sent over the connection

ASSUME SocketOutputAssumption ==
    /\ Capacity \in Nat \ {0}
    /\ Sizes \subseteq Nat \ {0} /\ Sizes # {}
    /\ MaxPackets \in Nat

VARIABLES
    closing_,
    m_OutBuffer,    \* the unsent units
    m_PacketQueue,
    m_OutActive,
    writeMask,      \* does the reactor wait for the socket to be writable?
    net,            \* "idle", or the call to the reactor that is to follow
    size,           \* of the packets sent so far
    wire,           \* the packets that left completely, in order
    delayed         \* the packets that went through m_PacketQueue

vars == <<closing_, m_OutBuffer, m_PacketQueue, m_OutActive, writeMask, net,
          size, wire, delayed>>

Packets == 1..MaxPackets

Init ==
    /\ closing_ = FALSE
    /\ m_OutBuffer = <<>> /\ m_PacketQueue = <<>>
    /\ m_OutActive = TRUE /\ writeMask = TRUE /\ net = "idle"
    /\ size = <<>> /\ wire = <<>> /\ delayed = {}

Space(buffer) == Capacity - Len(buffer)
Copy(buffer, p, z) == buffer \o [i \in 1..z |-> p]

\* The packets of which the first k units of the buffer hold the last one.
Completed(k) ==
    LET Ends(i) == /\ i <= k
                   /\ \/ i = Len(m_OutBuffer)
                      \/ m_OutBuffer[i + 1] # m_OutBuffer[i]
        ends == {i \in 1..Len(m_OutBuffer) : Ends(i)}
    IN  [j \in 1..Cardinality(ends) |->
            m_OutBuffer[CHOOSE i \in ends :
                            Cardinality({e \in ends : e <= i}) = j]]

----------------------------------------------------------------------------
\* WorldSocket::SendPacket, by whatever thread; a closed socket refuses.
SendPacket(z) ==
    /\ ~closing_ /\ Len(size) < MaxPackets
    /\ size' = Append(size, z)
    /\ LET p == Len(size) + 1
       IN  IF Space(m_OutBuffer) >= z
           THEN /\ m_OutBuffer' = Copy(m_OutBuffer, p, z)
                /\ UNCHANGED <<m_PacketQueue, delayed>>
           ELSE /\ m_PacketQueue' = Append(m_PacketQueue, p)
                /\ delayed' = delayed \cup {p}
                /\ UNCHANGED m_OutBuffer
    /\ UNCHANGED <<closing_, m_OutActive, writeMask, net, wire>>

\* The units that the first n packets of the queue take.
Total[n \in 0..Len(m_PacketQueue)] ==
    IF n = 0 THEN 0 ELSE Total[n - 1] + size[m_PacketQueue[n]]

\* How many of them iFlushPacketQueue moves to an empty buffer: it stops at
\* the first that does not fit, which stays at the head.
Flushed ==
    CHOOSE n \in 0..Len(m_PacketQueue) :
        /\ Total[n] <= Capacity
        /\ n < Len(m_PacketQueue) => Total[n + 1] > Capacity

\* The buffer then: one packet after the other.
Refilled ==
    [i \in 1..Total[Flushed] |->
        m_PacketQueue[CHOOSE n \in 1..Flushed :
                          Total[n - 1] < i /\ i <= Total[n]]]

CancelWakeup ==
    /\ m_OutActive' = FALSE
    /\ net' = IF m_OutActive THEN "cancel" ELSE "idle"
ScheduleWakeup ==
    /\ m_OutActive' = TRUE
    /\ net' = IF m_OutActive THEN "idle" ELSE "schedule"

\* What handle_output does when the kernel takes k units.
NothingToSend == m_OutBuffer = <<>> /\ CancelWakeup
                 /\ UNCHANGED <<m_OutBuffer, m_PacketQueue, wire>>
WouldBlock == m_OutBuffer # <<>> /\ ScheduleWakeup
              /\ UNCHANGED <<m_OutBuffer, m_PacketQueue, wire>>
SendPart(k) ==
    /\ k \in 1..(Len(m_OutBuffer) - 1)
    /\ wire' = wire \o Completed(k)
    /\ m_OutBuffer' = SubSeq(m_OutBuffer, k + 1, Len(m_OutBuffer))
    /\ ScheduleWakeup /\ UNCHANGED m_PacketQueue
\* Mutants: the buffer is not refilled; the packet that did not fit is dropped;
\* it is put back at the tail.
SendAllNoRefill ==
    /\ m_OutBuffer # <<>>
    /\ wire' = wire \o Completed(Len(m_OutBuffer))
    /\ m_OutBuffer' = <<>>
    /\ UNCHANGED m_PacketQueue /\ CancelWakeup
SendAllDropsHead ==
    /\ m_OutBuffer # <<>>
    /\ wire' = wire \o Completed(Len(m_OutBuffer))
    /\ m_OutBuffer' = Refilled
    /\ m_PacketQueue' = SubSeq(m_PacketQueue, Flushed + 2, Len(m_PacketQueue))
    /\ IF Flushed > 0 THEN ScheduleWakeup ELSE CancelWakeup
SendAllToTail ==
    /\ m_OutBuffer # <<>>
    /\ wire' = wire \o Completed(Len(m_OutBuffer))
    /\ m_OutBuffer' = Refilled
    /\ m_PacketQueue' = SubSeq(m_PacketQueue, Flushed + 2, Len(m_PacketQueue))
                         \o SubSeq(m_PacketQueue, Flushed + 1,
                                   IF Flushed < Len(m_PacketQueue) THEN Flushed + 1
                                                                   ELSE Flushed)
    /\ IF Flushed > 0 THEN ScheduleWakeup ELSE CancelWakeup
SendAll ==
    /\ m_OutBuffer # <<>>
    /\ wire' = wire \o Completed(Len(m_OutBuffer))
    /\ m_OutBuffer' = Refilled
    /\ m_PacketQueue' = SubSeq(m_PacketQueue, Flushed + 1, Len(m_PacketQueue))
    /\ IF Flushed > 0 THEN ScheduleWakeup ELSE CancelWakeup

handle_output ==
    /\ ~closing_
    /\ \/ NothingToSend \/ WouldBlock \/ SendAll
       \/ \E k \in 1..Capacity : SendPart(k)
    /\ UNCHANGED <<closing_, writeMask, size, delayed>>

\* The reactor calls handle_output when the socket is writable; the loop of
\* ReactorRunnable::svc calls Update, which does when nobody waits for that.
\* (Mutant UpdateWrongWay: m_OutActive is tested the wrong way round.)
DispatchOutput == net = "idle" /\ writeMask /\ handle_output
UpdateWrongWay ==
    net = "idle" /\ m_OutActive /\ m_OutBuffer # <<>> /\ handle_output
Update == net = "idle" /\ ~m_OutActive /\ m_OutBuffer # <<>> /\ handle_output

\* The lock is released; the reactor is told.
TellReactor ==
    /\ net # "idle"
    /\ writeMask' = (net = "schedule") /\ net' = "idle"
    /\ UNCHANGED <<closing_, m_OutBuffer, m_PacketQueue, m_OutActive, size,
                   wire, delayed>>

\* CloseSocket, handle_close, or a send that fails.
Close ==
    /\ ~closing_ /\ closing_' = TRUE
    /\ UNCHANGED <<m_OutBuffer, m_PacketQueue, m_OutActive, writeMask, net,
                   size, wire, delayed>>

Next == \/ \E z \in Sizes : SendPacket(z)
        \/ DispatchOutput \/ Update \/ TellReactor \/ Close

Spec == Init /\ [][Next]_vars

\* The network thread goes on, and time and again the kernel takes all of it:
\* the peer reads.
Fairness ==
    /\ WF_vars(TellReactor)
    /\ WF_vars(DispatchOutput) /\ WF_vars(Update)
    /\ SF_vars((DispatchOutput \/ Update) /\ SendAll)

FairSpec == Spec /\ Fairness

----------------------------------------------------------------------------
(* Properties.                                                             *)

TypeOK ==
    /\ closing_ \in BOOLEAN /\ m_OutActive \in BOOLEAN /\ writeMask \in BOOLEAN
    /\ m_OutBuffer \in Seq(Packets) /\ Len(m_OutBuffer) <= Capacity
    /\ m_PacketQueue \in Seq(Packets)
    /\ net \in {"idle", "cancel", "schedule"}
    /\ size \in Seq(Sizes) /\ wire \in Seq(Packets)
    /\ delayed \subseteq Packets

\* A packet waits in m_PacketQueue only behind a buffer that is yet to be sent:
\* the queue is refilled from nowhere but handle_output, which does nothing on
\* an empty buffer.
NotStranded == m_PacketQueue # <<>> => m_OutBuffer # <<>>

\* Nothing is lost, nothing is sent twice.
AllAccountedFor ==
    /\ TypeOK
    /\ ToSet(wire) \cup ToSet(m_OutBuffer) \cup ToSet(m_PacketQueue) =
         1..Len(size)
    /\ ToSet(wire) \cap ToSet(m_OutBuffer) = {}
    /\ ToSet(m_PacketQueue) \cap (ToSet(wire) \cup ToSet(m_OutBuffer)) = {}
    /\ IsInjective(wire)

\* Packets may overtake, but only one that found no room when it was sent, and
\* never one delayed packet another.
OvertakesDelayedOnly ==
    \A i, j \in DOMAIN wire :
        i < j /\ wire[i] > wire[j] =>
            wire[j] \in delayed /\ wire[i] \notin delayed

\* Every packet is sent in the end if the connection stays.
AllSent ==
    \A p \in Packets :
        (p <= Len(size)) ~> (closing_ \/ \E i \in DOMAIN wire : wire[i] = p)
=============================================================================
