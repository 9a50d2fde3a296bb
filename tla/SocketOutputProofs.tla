------------------------- MODULE SocketOutputProofs -------------------------
(***************************************************************************)
(* What holds of SocketOutput for any buffer, any sizes and any number of  *)
(* packets: none is lost or sent twice, only delayed packets are           *)
(* overtaken, and none waits behind an empty buffer if every packet fits.  *)
(* The argument orders wire, buffer and queue as one line: a packet goes   *)
(* before another if it was sent before, or if the other was delayed.      *)
(***************************************************************************)
EXTENDS SocketOutput, FiniteSetTheorems, SequenceTheorems,
        WellFoundedInduction, TLAPS

USE SocketOutputAssumption DEF SocketOutputAssumption

----------------------------------------------------------------------------
(* The inductive invariant.                                                *)

\* x may precede y: it was sent before, or overtakes one that was delayed.
Before(x, y) == x # y /\ (x > y => y \in delayed /\ x \notin delayed)

\* Everything is a packet sent; the queue holds delayed ones.
Numbered ==
    /\ Len(size) <= MaxPackets
    /\ wire \in Seq(1..Len(size)) /\ m_OutBuffer \in Seq(1..Len(size))
    /\ m_PacketQueue \in Seq(1..Len(size))
    /\ delayed \subseteq 1..Len(size)
    /\ \A i \in 1..Len(m_PacketQueue) : m_PacketQueue[i] \in delayed

\* In the buffer the units of a packet are together.
BufferInRuns ==
    \A i, j, k \in 1..Len(m_OutBuffer) :
        i < j /\ j < k /\ m_OutBuffer[i] = m_OutBuffer[k]
            => m_OutBuffer[j] = m_OutBuffer[i]

\* The packets of wire, the buffer and the queue come in this order.
WireInOrder ==
    /\ \A i, j \in 1..Len(wire) : i < j => Before(wire[i], wire[j])
    /\ \A i \in 1..Len(wire), j \in 1..Len(m_OutBuffer) :
          Before(wire[i], m_OutBuffer[j])
BufferInOrder ==
    \A i, j \in 1..Len(m_OutBuffer) :
        i < j /\ m_OutBuffer[i] # m_OutBuffer[j]
            => Before(m_OutBuffer[i], m_OutBuffer[j])
QueueInOrder ==
    \A i, j \in 1..Len(m_PacketQueue) :
        i < j => m_PacketQueue[i] < m_PacketQueue[j]
QueueLast ==
    \A j \in 1..Len(m_PacketQueue) :
        /\ \A i \in 1..Len(wire) : Before(wire[i], m_PacketQueue[j])
        /\ \A i \in 1..Len(m_OutBuffer) :
             Before(m_OutBuffer[i], m_PacketQueue[j])

\* No packet is lost.
Kept ==
    \A p \in 1..Len(size) :
        \/ \E i \in 1..Len(wire) : wire[i] = p
        \/ \E i \in 1..Len(m_OutBuffer) : m_OutBuffer[i] = p
        \/ \E i \in 1..Len(m_PacketQueue) : m_PacketQueue[i] = p

\* Taken together.
OutputInv ==
    TypeOK /\ Numbered /\ BufferInRuns /\ WireInOrder /\ BufferInOrder
    /\ QueueInOrder /\ QueueLast /\ Kept

----------------------------------------------------------------------------
(* Numbers and sequences.                                                  *)

\* A set of numbers has a least one.
LEMMA Least ==
    ASSUME NEW T, T \subseteq Nat, T # {}
    PROVE  \E m \in T : \A k \in T : m <= k
<1> DEFINE R == OpToRel(<, Nat)
<1>1. IsWellFoundedOn(R, Nat)
    BY NatLessThanWellFounded
<1>2. \A x, y \in Nat : <<x, y>> \in R <=> x < y
    BY DEF OpToRel
<1> HIDE DEF R
<1>3. \E x \in T : \A y \in T : ~(<<y, x>> \in R)
    BY <1>1, WFMin
<1>4. PICK x \in T : \A y \in T : ~(<<y, x>> \in R)
    BY <1>3
<1>5. ASSUME NEW k \in T PROVE x <= k
    <2>1. ~(k < x)
        BY <1>2, <1>4
    <2> QED
        BY <2>1
<1> QED
    BY <1>4, <1>5

\* A bounded one has a greatest.
LEMMA Greatest ==
    ASSUME NEW T, T # {}, NEW n \in Nat, T \subseteq 0..n
    PROVE  \E m \in T : \A k \in T : k <= m
<1> DEFINE U == {n - k : k \in T}
<1>1. U \subseteq Nat /\ U # {}
    <2>1. \A k \in T : n - k \in Nat
        OBVIOUS
    <2> QED BY <2>1
<1>2. PICK m \in U : \A k \in U : m <= k
    <2> HIDE DEF U
    <2> QED BY <1>1, Least
<1>3. PICK t \in T : m = n - t
    BY <1>2
<1>4. ASSUME NEW k \in T PROVE k <= t
    <2>1. n - k \in U
        OBVIOUS
    <2>2. m <= n - k
        BY <1>2, <2>1
    <2> QED
        BY <2>2, <1>3
<1> QED
    BY <1>4

\* A sum over a sequence of numbers is what its recursion says.
SumOf(s, n, f) ==
    f = [i \in 0..n |-> IF i = 0 THEN 0 ELSE f[i - 1] + s[i]]

\* There is such a sum.
LEMMA SumExists ==
    ASSUME NEW L \in Nat, NEW s
    PROVE  \E f : SumOf(s, L, f)
<1> DEFINE T == {n \in Nat : ~\E f : SumOf(s, n, f)}
<1>1. SUFFICES ASSUME T # {} PROVE FALSE
    OBVIOUS
<1>2. PICK m \in T : \A k \in T : m <= k
    <2>1. T \subseteq Nat
        OBVIOUS
    <2> HIDE DEF T
    <2> QED BY <1>1, <2>1, Least
<1>3. CASE m = 0
    <2>1. SumOf(s, 0, [i \in 0..0 |-> 0])
        BY DEF SumOf
    <2> QED BY <2>1, <1>3, <1>2
<1>4. CASE m # 0
    <2>1. m - 1 \in Nat /\ m - 1 \notin T
        BY <1>2, <1>4
    <2>2. PICK g : SumOf(s, m - 1, g)
        BY <2>1
    <2> DEFINE h == [i \in 0..m |-> IF i = m THEN g[m - 1] + s[m] ELSE g[i]]
    <2>3. ASSUME NEW i \in 0..m
          PROVE  h[i] = IF i = 0 THEN 0 ELSE h[i - 1] + s[i]
        <3>1. CASE i = 0
            BY <3>1, <1>4, <2>2 DEF SumOf
        <3>2. CASE i # 0 /\ i # m
            <4>1. i \in 0..(m - 1) /\ i - 1 \in 0..m /\ i - 1 # m
                BY <3>2, <1>2
            <4>2. h[i] = g[i] /\ h[i - 1] = g[i - 1]
                BY <4>1, <3>2
            <4>3. g[i] = g[i - 1] + s[i]
                BY <4>1, <3>2, <2>2 DEF SumOf
            <4> HIDE DEF h
            <4> QED BY <4>2, <4>3, <3>2
        <3>3. CASE i = m
            <4>1. m - 1 \in 0..m /\ m - 1 # m
                BY <1>2, <1>4
            <4>2. h[m] = g[m - 1] + s[m] /\ h[m - 1] = g[m - 1]
                BY <4>1, <1>2
            <4> HIDE DEF h
            <4> QED BY <4>2, <3>3, <1>4
        <3> QED BY <3>1, <3>2, <3>3
    <2>4. SumOf(s, m, h)
        <3>1. h = [i \in 0..m |-> h[i]]
            OBVIOUS
        <3> HIDE DEF h
        <3>2. [i \in 0..m |-> h[i]]
               = [i \in 0..m |-> IF i = 0 THEN 0 ELSE h[i - 1] + s[i]]
            BY <2>3
        <3> QED BY <3>1, <3>2 DEF SumOf
    <2> QED BY <2>4, <1>2
<1> QED BY <1>3, <1>4

\* The numbers of a finite set can be listed by their ranks.
LEMMA Enumeration ==
    ASSUME NEW n \in Nat, NEW E, E \subseteq 1..n
    PROVE  /\ Cardinality(E) \in Nat
           /\ \E at \in [1..Cardinality(E) -> E] :
                 /\ \A j \in 1..Cardinality(E) :
                       at[j] = CHOOSE i \in E :
                                   Cardinality({e \in E : e <= i}) = j
                 /\ \A i, j \in 1..Cardinality(E) : i < j => at[i] < at[j]
                 /\ \A e \in E : \E j \in 1..Cardinality(E) : at[j] = e
<1> DEFINE C == Cardinality(E)
           Upto(i) == {e \in E : e <= i}
           rank == [i \in E |-> Cardinality(Upto(i))]
           at == [j \in 1..C |-> CHOOSE i \in E : rank[i] = j]
<1>1. \A e \in E : e \in Nat
    OBVIOUS
<1>2. IsFiniteSet(E) /\ C \in Nat
    <2>1. IsFiniteSet(1..n)
        BY FS_Interval
    <2>2. IsFiniteSet(E)
        BY <2>1, FS_Subset
    <2> QED BY <2>2, FS_CardinalityType
<1>3. ASSUME NEW i \in E
      PROVE  /\ IsFiniteSet(Upto(i)) /\ Upto(i) \in SUBSET E
             /\ rank[i] = Cardinality(Upto(i)) /\ rank[i] \in 1..C
    <2>1. Upto(i) \in SUBSET E /\ i \in Upto(i)
        OBVIOUS
    <2>2. IsFiniteSet(Upto(i)) /\ Cardinality(Upto(i)) <= C
        <3> HIDE DEF Upto
        <3> QED BY <2>1, <1>2, FS_Subset
    <2>3. Cardinality(Upto(i)) \in Nat /\ Cardinality(Upto(i)) # 0
        <3> HIDE DEF Upto
        <3>1. Cardinality(Upto(i)) \in Nat
            BY <2>2, FS_CardinalityType
        <3>2. Upto(i) # {}
            BY <2>1
        <3> QED BY <3>1, <3>2, <2>2, FS_EmptySet
    <2>4. rank[i] = Cardinality(Upto(i))
        OBVIOUS
    <2> HIDE DEF Upto, rank, C
    <2> QED BY <2>1, <2>2, <2>3, <2>4, <1>2
<1>4. ASSUME NEW i \in E, NEW j \in E, i < j PROVE rank[i] < rank[j]
    <2>1. Upto(i) \in SUBSET Upto(j) /\ j \in Upto(j) /\ j \notin Upto(i)
        <3>1. i \in Nat /\ j \in Nat /\ ~(j <= i) /\ j <= j
            BY <1>1, <1>4
        <3>2. \A e \in E : e <= i => e <= j
            BY <1>1, <1>4
        <3> QED BY <3>1, <3>2
    <2> HIDE DEF Upto, rank, C
    <2>2. Upto(i) # Upto(j)
        BY <2>1
    <2>3. /\ Cardinality(Upto(i)) <= Cardinality(Upto(j))
          /\ Cardinality(Upto(j)) # Cardinality(Upto(i))
        BY ONLY <2>1, <2>2, <1>3, FS_Subset
    <2>4. /\ rank[i] = Cardinality(Upto(i)) /\ rank[j] = Cardinality(Upto(j))
          /\ rank[i] \in 1..C /\ rank[j] \in 1..C
        BY <1>3
    <2> QED BY <2>3, <2>4, <1>2
<1>5. \A j \in 1..C : at[j] = CHOOSE i \in E :
        Cardinality({e \in E : e <= i}) = j
    OBVIOUS
<1>6. \A j \in 1..C : \E i \in E : rank[i] = j
    <2>1. rank = [i \in E |-> rank[i]]
        OBVIOUS
    <2> HIDE DEF rank, Upto, C
    <2>2. rank \in [E -> 1..C]
        BY <2>1, <1>3
    <2>3. \A i, j \in E : rank[i] = rank[j] => i = j
        <3> SUFFICES ASSUME NEW i \in E, NEW j \in E, rank[i] = rank[j], i # j
                     PROVE  FALSE
            OBVIOUS
        <3>1. i < j \/ j < i
            OBVIOUS
        <3>2. rank[i] \in 1..C /\ rank[j] \in 1..C
            BY <1>3
        <3> QED BY <3>1, <3>2, <1>4, <1>2
    <2>4. rank \in Injection(E, 1..C)
        BY <2>2, <2>3 DEF Injection, IsInjective
    <2>5. IsFiniteSet(1..C) /\ Cardinality(1..C) = C
        BY <1>2, FS_Interval
    <2>6. Cardinality(E) = Cardinality(1..C)
        BY <2>5 DEF C
    <2>7. rank \in Surjection(E, 1..C)
        BY ONLY <2>4, <2>5, <2>6, FS_Injection
    <2> QED BY <2>7 DEF Surjection
<1>7. \A j \in 1..C : at[j] \in E /\ rank[at[j]] = j
    <2> HIDE DEF rank, C
    <2> QED BY <1>6
<1>8. at \in [1..C -> E]
    <2> HIDE DEF rank, C
    <2>1. at = [j \in 1..C |-> at[j]]
        OBVIOUS
    <2> HIDE DEF at, C
    <2> QED BY <2>1, <1>7
<1>9. \A i, j \in 1..C : i < j => at[i] < at[j]
    <2> HIDE DEF at, rank, C
    <2> SUFFICES ASSUME NEW i \in 1..C, NEW j \in 1..C, i < j, ~(at[i] < at[j])
                 PROVE  FALSE
        OBVIOUS
    <2>1. at[i] \in E /\ at[j] \in E /\ rank[at[i]] = i /\ rank[at[j]] = j
        BY <1>7
    <2>2. at[i] \in Nat /\ at[j] \in Nat
        BY <2>1, <1>1
    <2>3. at[i] = at[j] \/ at[j] < at[i]
        BY <2>2
    <2>4. j < i
        <3>1. CASE at[i] = at[j]
            BY <3>1, <2>1
        <3>2. CASE at[j] < at[i]
            BY ONLY <3>2, <2>1, <1>4
        <3> QED BY <3>1, <3>2, <2>3
    <2> QED BY <2>4, <1>2
<1>10. \A e \in E : \E j \in 1..C : at[j] = e
    <2> HIDE DEF at, rank, C
    <2> SUFFICES ASSUME NEW e \in E PROVE \E j \in 1..C : at[j] = e
        OBVIOUS
    <2>1. rank[e] \in 1..C
        BY <1>3
    <2>2. at[rank[e]] \in E /\ rank[at[rank[e]]] = rank[e]
        BY <2>1, <1>7
    <2>3. at[rank[e]] = e
        <3> SUFFICES ASSUME at[rank[e]] # e PROVE FALSE
            OBVIOUS
        <3>1. at[rank[e]] < e \/ e < at[rank[e]]
            <4>1. at[rank[e]] \in Nat /\ e \in Nat
                BY <2>2, <1>1
            <4> QED BY <4>1
        <3>2. rank[at[rank[e]]] < rank[e] \/ rank[e] < rank[at[rank[e]]]
            BY ONLY <3>1, <2>2, <1>4, e \in E
        <3>3. rank[e] \in Nat
            BY <2>1, <1>2
        <3> QED BY <3>2, <3>3, <2>2
    <2> QED BY <2>1, <2>3
<1> HIDE DEF at
<1> QED BY <1>2, <1>5, <1>8, <1>9, <1>10

\* A sequence over a set is one over a larger set.
LEMMA SeqOfMore ==
    ASSUME NEW A, NEW B, A \subseteq B, NEW s \in Seq(A)
    PROVE  s \in Seq(B)
<1>1. Len(s) \in Nat /\ \A i \in 1..Len(s) : s[i] \in B
    OBVIOUS
<1>2. s = [i \in 1..Len(s) |-> s[i]]
    OBVIOUS
<1> QED BY <1>1, <1>2

----------------------------------------------------------------------------
(* iFlushPacketQueue.                                                      *)

\* The units the queue takes.
QueueTyped ==
    /\ size \in Seq(Sizes)
    /\ m_PacketQueue \in Seq(1..Len(size))

\* Total is what its definition says.
LEMMA TotalSteps ==
    ASSUME QueueTyped
    PROVE  /\ Total[0] = 0
           /\ \A n \in 1..Len(m_PacketQueue) :
                 Total[n] = Total[n - 1] + size[m_PacketQueue[n]]
<1> DEFINE L == Len(m_PacketQueue)
           s == [n \in 1..L |-> size[m_PacketQueue[n]]]
<1>1. L \in Nat
    BY DEF QueueTyped
<1>2. PICK f : SumOf(s, L, f)
    <2> HIDE DEF s, L
    <2> QED BY <1>1, SumExists
<1>3. f = [n \in 0..L |-> IF n = 0 THEN 0
                          ELSE f[n - 1] + size[m_PacketQueue[n]]]
    <2>1. \A n \in 0..L : n # 0 => s[n] = size[m_PacketQueue[n]]
        BY <1>1
    <2>2. f = [n \in 0..L |-> IF n = 0 THEN 0 ELSE f[n - 1] + s[n]]
        BY <1>2 DEF SumOf
    <2> HIDE DEF s, L
    <2> QED BY <2>1, <2>2
<1>4. Total = [n \in 0..L |-> IF n = 0 THEN 0
                          ELSE Total[n - 1] + size[m_PacketQueue[n]]]
    BY <1>3 DEF Total
<1>5. \A n \in 1..L : n \in 0..L /\ n # 0
    BY <1>1
<1>6. 0 \in 0..L
    BY <1>1
<1> HIDE DEF L
<1>7. Total[0] = 0
    BY <1>4, <1>6
<1>8. \A n \in 1..L : Total[n] = Total[n - 1] + size[m_PacketQueue[n]]
    BY <1>4, <1>5
<1> QED BY <1>7, <1>8 DEF L

\* It grows with every packet.
LEMMA TotalGrows ==
    ASSUME QueueTyped
    PROVE  /\ \A n \in 0..Len(m_PacketQueue) : Total[n] \in Nat
           /\ \A m, n \in 0..Len(m_PacketQueue) : m < n => Total[m] < Total[n]
<1> DEFINE L == Len(m_PacketQueue)
<1>1. L \in Nat
    BY DEF QueueTyped
<1>2. \A n \in 1..L : size[m_PacketQueue[n]] \in Nat \ {0}
    <2>1. \A n \in 1..L : m_PacketQueue[n] \in 1..Len(size)
        BY DEF QueueTyped
    <2>2. \A p \in 1..Len(size) : size[p] \in Sizes
        BY DEF QueueTyped
    <2> HIDE DEF L
    <2> QED BY <2>1, <2>2
<1>3. \A n \in 1..L : Total[n] = Total[n - 1] + size[m_PacketQueue[n]]
    BY TotalSteps
<1>4. Total[0] = 0
    BY TotalSteps
<1> HIDE DEF L
<1>5. \A n \in 0..L : Total[n] \in Nat
    <2> DEFINE T == {n \in 0..L : Total[n] \notin Nat}
    <2>1. SUFFICES ASSUME T # {} PROVE FALSE
        OBVIOUS
    <2>2. T \subseteq Nat
        BY <1>1
    <2>3. PICK m \in T : \A k \in T : m <= k
        <3> HIDE DEF T
        <3> QED BY <2>1, <2>2, Least
    <2>4. m # 0 /\ m \in 1..L /\ m - 1 \in 0..L /\ ~(m <= m - 1)
        BY <2>3, <1>4, <1>1
    <2>5. Total[m - 1] \in Nat
        BY <2>3, <2>4
    <2>6. Total[m] \in Nat
        BY <2>5, <2>4, <1>3, <1>2
    <2> QED BY <2>6, <2>3
<1>6. \A m, n \in 0..L : m < n => Total[m] < Total[n]
    <2> SUFFICES ASSUME NEW m \in 0..L,
                        \E n \in 0..L : m < n /\ ~(Total[m] < Total[n])
                 PROVE  FALSE
        OBVIOUS
    <2> DEFINE T == {n \in 0..L : m < n /\ ~(Total[m] < Total[n])}
    <2>1. T # {} /\ T \subseteq Nat
        BY <1>1
    <2>2. PICK n \in T : \A k \in T : n <= k
        <3> HIDE DEF T
        <3> QED BY <2>1, Least
    <2>3. n \in 1..L /\ n - 1 \in 0..L /\ ~(n <= n - 1) /\ m < n
        BY <2>2, <1>1
    <2>4. /\ Total[n] = Total[n - 1] + size[m_PacketQueue[n]]
          /\ size[m_PacketQueue[n]] \in Nat \ {0}
          /\ Total[n - 1] \in Nat /\ Total[n] \in Nat /\ Total[m] \in Nat
        BY <2>3, <1>3, <1>2, <1>5
    <2>5. Total[m] <= Total[n - 1]
        <3>1. CASE m = n - 1
            BY <3>1, <2>4
        <3>2. CASE m # n - 1
            <4>1. n - 1 \notin T /\ m < n - 1
                BY <2>2, <2>3, <3>2
            <4> QED BY <4>1, <2>3, <2>4
        <3> QED BY <3>1, <3>2
    <2>6. Total[m] < Total[n]
        BY <2>4, <2>5
    <2> QED BY <2>6, <2>2
<1> QED BY <1>5, <1>6 DEF L

\* What fits is defined.
LEMMA FlushedFits ==
    ASSUME QueueTyped
    PROVE  /\ Flushed \in 0..Len(m_PacketQueue)
           /\ Total[Flushed] \in 0..Capacity
           /\ Flushed < Len(m_PacketQueue) => Total[Flushed + 1] > Capacity
<1> DEFINE L == Len(m_PacketQueue)
           T == {n \in 0..L : Total[n] <= Capacity}
<1>1. L \in Nat
    BY DEF QueueTyped
<1>2. T # {} /\ T \subseteq 0..L
    BY TotalSteps, <1>1
<1>3. PICK m \in T : \A k \in T : k <= m
    <2> HIDE DEF T, L
    <2> QED BY <1>1, <1>2, Greatest
<1>4. m < L => Total[m + 1] > Capacity
    <2> SUFFICES ASSUME m < L PROVE Total[m + 1] > Capacity
        OBVIOUS
    <2>1. m \in 0..L /\ m + 1 \in 0..L /\ ~(m + 1 <= m)
        BY <1>1, <1>3
    <2>2. m + 1 \notin T
        BY <2>1, <1>3
    <2>3. Total[m + 1] \in Nat
        BY <2>1, TotalGrows
    <2> QED BY <2>1, <2>2, <2>3
<1>5. /\ Flushed \in 0..L /\ Total[Flushed] <= Capacity
      /\ Flushed < L => Total[Flushed + 1] > Capacity
    <2>1. m \in 0..L /\ Total[m] <= Capacity
        BY <1>3
    <2> QED BY <2>1, <1>4 DEF Flushed
<1>6. Total[Flushed] \in Nat
    BY <1>5, TotalGrows
<1> QED BY <1>5, <1>6

\* The buffer is then filled with the packets that fit, in their order.
LEMMA RefilledUnits ==
    ASSUME QueueTyped
    PROVE  /\ Len(Refilled) = Total[Flushed]
           /\ Refilled \in Seq(1..Len(size))
           /\ \E of \in [1..Total[Flushed] -> 1..Flushed] :
                 /\ \A i \in 1..Total[Flushed] :
                       Refilled[i] = m_PacketQueue[of[i]]
                 /\ \A i, j \in 1..Total[Flushed] : i < j => of[i] <= of[j]
                 /\ \A n \in 1..Flushed : \E i \in 1..Total[Flushed] :
                      of[i] = n
<1> DEFINE F == Flushed
           S == Total[F]
           In(n, i) == Total[n - 1] < i /\ i <= Total[n]
           of == [i \in 1..S |-> CHOOSE n \in 1..F : In(n, i)]
<1>1. /\ F \in 0..Len(m_PacketQueue) /\ S \in Nat
      /\ Len(m_PacketQueue) \in Nat
    BY FlushedFits DEF QueueTyped
<1>2. /\ Total[0] = 0
      /\ \A n \in 0..F : Total[n] \in Nat
      /\ \A m, n \in 0..F : m < n => Total[m] < Total[n]
    <2>1. \A n \in 0..F : n \in 0..Len(m_PacketQueue)
        BY <1>1
    <2> HIDE DEF F
    <2> QED BY <2>1, TotalSteps, TotalGrows
<1> HIDE DEF F
<1>3. ASSUME NEW i \in 1..S PROVE \E n \in 1..F : In(n, i)
    <2> DEFINE T == {n \in 0..F : i <= Total[n]}
    <2>1. T # {} /\ T \subseteq Nat
        BY <1>1, <1>2
    <2>2. PICK n \in T : \A k \in T : n <= k
        <3> HIDE DEF T
        <3> QED BY <2>1, Least
    <2>3. n \in 1..F /\ n - 1 \in 0..F /\ ~(n <= n - 1)
        BY <2>2, <1>1, <1>2
    <2>4. n - 1 \notin T /\ Total[n - 1] \in Nat
        BY <2>2, <2>3, <1>2
    <2> QED BY <2>2, <2>3, <2>4
<1>4. \A i \in 1..S : of[i] \in 1..F /\ In(of[i], i)
    BY <1>3
<1>5. \A i \in 1..S : Refilled[i] = m_PacketQueue[of[i]]
    BY DEF Refilled, F
<1>6. Refilled = [i \in 1..S |-> m_PacketQueue[of[i]]]
    BY DEF Refilled, F
<1> HIDE DEF of
<1>7. \A i \in 1..S : m_PacketQueue[of[i]] \in 1..Len(size)
    BY <1>4, <1>1 DEF QueueTyped
<1>8. Len(Refilled) = S /\ Refilled \in Seq(1..Len(size))
    <2>1. \A g \in [1..S -> 1..Len(size)] : g \in Seq(1..Len(size)) /\ Len(g) = S
        <3>1. S \in Nat
            BY <1>1
        <3> HIDE DEF S
        <3> QED BY ONLY <3>1
    <2>2. Refilled \in [1..S -> 1..Len(size)]
        BY ONLY <1>6, <1>7
    <2> QED BY ONLY <2>1, <2>2
<1>9. ASSUME NEW i \in 1..S, NEW j \in 1..S, i < j PROVE of[i] <= of[j]
    <2>1. SUFFICES ASSUME of[j] < of[i] PROVE FALSE
        BY <1>4, <1>1
    <2>2. of[j] \in 0..F /\ of[i] - 1 \in 0..F /\ of[j] <= of[i] - 1
        BY <2>1, <1>4, <1>1
    <2>3. Total[of[j]] <= Total[of[i] - 1]
        BY <2>2, <1>2
    <2>4. Total[of[i] - 1] < i /\ j <= Total[of[j]]
        BY <1>4
    <2> QED BY <2>2, <2>3, <2>4, <1>2, <1>9
<1>10. ASSUME NEW n \in 1..F PROVE \E i \in 1..S : of[i] = n
    <2>1. n \in 0..F /\ n - 1 \in 0..F /\ F \in 0..F /\ n - 1 < n
        BY <1>1
    <2>2. Total[n - 1] < Total[n] /\ Total[n] <= Total[F] /\ Total[n] \in Nat
          /\ Total[n - 1] \in Nat
        <3>1. Total[n] <= Total[F]
            <4>1. CASE n = F
                BY <4>1, <1>2, <2>1
            <4>2. CASE n # F
                BY <4>2, <1>2, <2>1
            <4> QED BY <4>1, <4>2
        <3> QED BY <3>1, <1>2, <2>1
    <2>3. Total[n] \in 1..S
        BY <2>2, <1>1
    <2> DEFINE m == of[Total[n]]
    <2>4. m \in 1..F /\ Total[m - 1] < Total[n] /\ Total[n] <= Total[m]
        BY <2>3, <1>4
    <2> HIDE DEF m
    <2>5. m = n
        <3>1. m \in 0..F /\ m - 1 \in 0..F
            BY <2>4, <1>1
        <3>2. CASE m < n
            <4>1. Total[m] < Total[n]
                BY <3>1, <3>2, <1>2, <2>1
            <4> QED BY <4>1, <2>4, <1>2, <3>1, <2>1
        <3>3. CASE n < m
            <4>1. n = m - 1 \/ n < m - 1
                BY <3>3, <2>4, <1>1
            <4>2. Total[n] <= Total[m - 1]
                BY <4>1, <1>2, <3>1, <2>1
            <4> QED BY <4>2, <2>4, <1>2, <3>1, <2>1
        <3> QED BY <3>2, <3>3, <2>4, <1>1
    <2> QED BY <2>3, <2>5 DEF m
<1>11. of \in [1..S -> 1..F]
    <2>1. of = [i \in 1..S |-> of[i]]
        BY DEF of
    <2> QED BY <2>1, <1>4
<1> QED
    BY <1>5, <1>8, <1>9, <1>10, <1>11 DEF F

----------------------------------------------------------------------------
(* What the kernel takes.                                                  *)

\* What is completed comes in the order of the buffer; a packet is completed
\* once, and when none of its units remains.
LEMMA CompletedPackets ==
    ASSUME m_OutBuffer \in Seq(1..Len(size)), BufferInRuns,
           NEW k \in 1..Len(m_OutBuffer)
    PROVE  /\ Completed(k) \in Seq(1..Len(size))
           /\ \A i \in DOMAIN Completed(k) :
                 /\ \E u \in 1..k : Completed(k)[i] = m_OutBuffer[u]
                 /\ \A u \in (k + 1)..Len(m_OutBuffer) :
                       Completed(k)[i] # m_OutBuffer[u]
           /\ \A i, j \in DOMAIN Completed(k) : i < j =>
                 \E u, v \in 1..k : /\ u < v
                                    /\ Completed(k)[i] = m_OutBuffer[u]
                                    /\ Completed(k)[j] = m_OutBuffer[v]
                                    /\ m_OutBuffer[u] # m_OutBuffer[v]
           /\ \A u \in 1..k :
                 \/ \E i \in DOMAIN Completed(k) :
                      Completed(k)[i] = m_OutBuffer[u]
                 \/ \E v \in (k + 1)..Len(m_OutBuffer) :
                       m_OutBuffer[v] = m_OutBuffer[u]
<1> DEFINE N == 1..Len(size)
           b == m_OutBuffer
           L == Len(m_OutBuffer)
           E == {i \in 1..L : i <= k /\ (i = L \/ b[i + 1] # b[i])}
           C == Cardinality(E)
<1>1. L \in Nat /\ \A i \in 1..L : b[i] \in N
    OBVIOUS
<1>2. E \subseteq 1..L /\ \A e \in E : e \in 1..k
    BY <1>1
<1>3. /\ C \in Nat
      /\ \E at \in [1..C -> E] :
            /\ \A j \in 1..C : at[j] = CHOOSE i \in E :
                                         Cardinality({e \in E : e <= i}) = j
            /\ \A i, j \in 1..C : i < j => at[i] < at[j]
            /\ \A e \in E : \E j \in 1..C : at[j] = e
    <2> HIDE DEF E, L
    <2> QED BY <1>1, <1>2, Enumeration
<1>4. PICK at \in [1..C -> E] :
            /\ \A j \in 1..C : at[j] = CHOOSE i \in E :
                                         Cardinality({e \in E : e <= i}) = j
            /\ \A i, j \in 1..C : i < j => at[i] < at[j]
            /\ \A e \in E : \E j \in 1..C : at[j] = e
    BY <1>3
<1>5. Completed(k) = [j \in 1..C |-> b[CHOOSE i \in E :
                                         Cardinality({e \in E : e <= i}) = j]]
    BY DEF Completed
<1>6. Completed(k) = [j \in 1..C |-> b[at[j]]]
    <2> HIDE DEF E, b, C
    <2> QED BY <1>4, <1>5
<1>7. ASSUME NEW e \in E, NEW u \in (e + 1)..L PROVE b[e] # b[u]
    <2>1. e \in 1..L /\ (e = L \/ b[e + 1] # b[e])
        OBVIOUS
    <2>2. e + 1 \in 1..L /\ b[e + 1] # b[e] /\ u \in 1..L
        BY <2>1, <1>1
    <2>3. CASE u = e + 1
        BY <2>2, <2>3
    <2>4. CASE u # e + 1
        <3>1. e < e + 1 /\ e + 1 < u
            BY <2>4, <2>2, <2>1
        <3> HIDE DEF E
        <3> QED BY <3>1, <2>1, <2>2 DEF BufferInRuns
    <2> QED BY <2>3, <2>4
<1>8. ASSUME NEW u \in 1..k, \A v \in (k + 1)..L : b[v] # b[u]
      PROVE  \E e \in E : b[e] = b[u]
    <2> DEFINE T == {v \in 1..L : b[v] = b[u]}
    <2>1. u \in T /\ T \subseteq 0..L
        BY <1>1
    <2>2. PICK m \in T : \A v \in T : v <= m
        <3> HIDE DEF T, L
        <3> QED BY <2>1, <1>1, Greatest
    <2>3. m \in 1..L /\ b[m] = b[u]
        BY <2>2
    <2>4. m <= k
        BY <2>3, <1>8, <1>1
    <2>5. m = L \/ b[m + 1] # b[m]
        <3> SUFFICES ASSUME m # L, b[m + 1] = b[m] PROVE FALSE
            OBVIOUS
        <3>1. m + 1 \in T
            BY <2>3, <1>1
        <3> QED BY <3>1, <2>2, <2>3, <1>1
    <2> QED BY <2>3, <2>4, <2>5
<1> HIDE DEF E, C, b, L, N
<1>9. DOMAIN Completed(k) = 1..C /\ \A i \in 1..C : Completed(k)[i] = b[at[i]]
    BY <1>6
<1>10. \A i \in 1..C : at[i] \in E /\ at[i] \in 1..L /\ at[i] \in 1..k
    BY <1>2, <1>4
<1>11. Completed(k) \in Seq(N)
    <2>1. \A j \in 1..C : b[at[j]] \in N
        BY <1>10, <1>1
    <2> QED BY ONLY <2>1, <1>6, <1>3
<1>12. ASSUME NEW i \in DOMAIN Completed(k)
       PROVE  /\ \E u \in 1..k : Completed(k)[i] = b[u]
              /\ \A u \in (k + 1)..L : Completed(k)[i] # b[u]
    <2>1. at[i] \in E /\ at[i] \in 1..k /\ Completed(k)[i] = b[at[i]]
        BY <1>9, <1>10
    <2>2. \A u \in (k + 1)..L : u \in (at[i] + 1)..L
        BY <2>1, <1>1
    <2> QED BY <2>1, <2>2, <1>7
<1>13. ASSUME NEW i \in DOMAIN Completed(k), NEW j \in DOMAIN Completed(k),
              i < j
       PROVE  \E u, v \in 1..k : /\ u < v
                                 /\ Completed(k)[i] = b[u]
                                 /\ Completed(k)[j] = b[v]
                                 /\ b[u] # b[v]
    <2>1. /\ at[i] \in E /\ at[i] \in 1..k /\ Completed(k)[i] = b[at[i]]
          /\ at[j] \in E /\ at[j] \in 1..k /\ Completed(k)[j] = b[at[j]]
          /\ at[i] < at[j] /\ at[j] \in 1..L
        BY <1>9, <1>10, <1>4, <1>13
    <2>2. at[j] \in (at[i] + 1)..L
        BY <2>1, <1>1
    <2> QED BY <2>1, <2>2, <1>7
<1>14. ASSUME NEW u \in 1..k
       PROVE  \/ \E i \in DOMAIN Completed(k) : Completed(k)[i] = b[u]
              \/ \E v \in (k + 1)..L : b[v] = b[u]
    <2> SUFFICES ASSUME \A v \in (k + 1)..L : b[v] # b[u]
                 PROVE  \E i \in DOMAIN Completed(k) : Completed(k)[i] = b[u]
        OBVIOUS
    <2>1. PICK e \in E : b[e] = b[u]
        BY <1>8
    <2>2. PICK j \in 1..C : at[j] = e
        BY <1>4
    <2> QED BY <2>1, <2>2, <1>9
<1> QED BY <1>11, <1>12, <1>13, <1>14 DEF b, L, N

\* What has gone out, W, when the kernel has taken k units of the buffer.
GoneOut(W, k) ==
    /\ W \in Seq(1..Len(size))
    /\ \A i, j \in 1..Len(W) : i < j => Before(W[i], W[j])
    /\ \A i \in 1..Len(W), u \in (k + 1)..Len(m_OutBuffer) :
          Before(W[i], m_OutBuffer[u])
    /\ \A i \in 1..Len(W) : \/ \E j \in 1..Len(wire) : W[i] = wire[j]
                            \/ \E u \in 1..k : W[i] = m_OutBuffer[u]
    /\ \A j \in 1..Len(wire) : \E i \in 1..Len(W) : W[i] = wire[j]
    /\ \A u \in 1..k :
          \/ \E i \in 1..Len(W) : W[i] = m_OutBuffer[u]
          \/ \E v \in (k + 1)..Len(m_OutBuffer) :
               m_OutBuffer[v] = m_OutBuffer[u]

\* What goes out keeps the order.
LEMMA SentInOrder ==
    ASSUME OutputInv, NEW k \in 1..Len(m_OutBuffer)
    PROVE  GoneOut(wire \o Completed(k), k)
<1>1. /\ Completed(k) \in Seq(1..Len(size))
      /\ \A i \in DOMAIN Completed(k) :
            /\ \E u \in 1..k : Completed(k)[i] = m_OutBuffer[u]
            /\ \A u \in (k + 1)..Len(m_OutBuffer) :
                  Completed(k)[i] # m_OutBuffer[u]
      /\ \A i, j \in DOMAIN Completed(k) : i < j =>
            \E u, v \in 1..k : /\ u < v
                               /\ Completed(k)[i] = m_OutBuffer[u]
                               /\ Completed(k)[j] = m_OutBuffer[v]
                               /\ m_OutBuffer[u] # m_OutBuffer[v]
      /\ \A u \in 1..k :
            \/ \E i \in DOMAIN Completed(k) : Completed(k)[i] = m_OutBuffer[u]
            \/ \E v \in (k + 1)..Len(m_OutBuffer) :
                  m_OutBuffer[v] = m_OutBuffer[u]
    <2>1. m_OutBuffer \in Seq(1..Len(size)) /\ BufferInRuns
        BY DEF OutputInv, Numbered
    <2> QED BY ONLY <2>1, k \in 1..Len(m_OutBuffer), CompletedPackets, Zenon
<1> DEFINE W == wire \o Completed(k)
           N == 1..Len(size)
           b == m_OutBuffer
           L == Len(m_OutBuffer)
           C == Completed(k)
           w == Len(wire)
<1>2. /\ b \in Seq(N) /\ wire \in Seq(N) /\ L \in Nat /\ w \in Nat
      /\ BufferInRuns /\ WireInOrder /\ BufferInOrder
    BY DEF OutputInv, Numbered
<1>3. /\ C \in Seq(N)
      /\ \A i \in DOMAIN C :
            /\ \E u \in 1..k : C[i] = b[u]
            /\ \A u \in (k + 1)..L : C[i] # b[u]
      /\ \A i, j \in DOMAIN C : i < j =>
            \E u, v \in 1..k :
              u < v /\ C[i] = b[u] /\ C[j] = b[v] /\ b[u] # b[v]
      /\ \A u \in 1..k : \/ \E i \in DOMAIN C : C[i] = b[u]
                         \/ \E v \in (k + 1)..L : b[v] = b[u]
    BY <1>1
<1>4. \A u \in 1..k : u \in 1..L
    BY <1>2
<1>3a. W = wire \o C
    OBVIOUS
<1> HIDE DEF N, b, C, L, w, W
<1>5. /\ Len(W) = w + Len(C) /\ Len(C) \in Nat /\ W \in Seq(N)
      /\ \A i \in 1..w : W[i] = wire[i]
      /\ \A i \in 1..Len(C) : W[w + i] = C[i]
    BY <1>2, <1>3, <1>3a DEF w
<1>6. DOMAIN C = 1..Len(C)
    BY <1>3
<1>7. ASSUME NEW i \in 1..Len(W), ~(i \in 1..w)
      PROVE  i - w \in DOMAIN C /\ W[i] = C[i - w]
    <2>1. i - w \in 1..Len(C) /\ i = w + (i - w)
        BY <1>5, <1>7, <1>2
    <2> QED BY <2>1, <1>5, <1>6
<1>8. ASSUME NEW i \in DOMAIN C
      PROVE  w + i \in 1..Len(W) /\ W[w + i] = C[i]
    BY <1>5, <1>6, <1>2
<1>9. ASSUME NEW i \in 1..Len(W)
      PROVE  \/ \E j \in 1..w : W[i] = wire[j]
             \/ \E u \in 1..k : W[i] = b[u]
    <2>1. CASE i \in 1..w
        BY ONLY <2>1, <1>5, <1>9
    <2>2. CASE ~(i \in 1..w)
        <3>1. i - w \in DOMAIN C /\ W[i] = C[i - w]
            BY <2>2, <1>7
        <3> QED BY ONLY <3>1, <1>3
    <2> QED BY <2>1, <2>2
<1>10. ASSUME NEW i \in 1..Len(W), NEW j \in 1..Len(W), i < j
       PROVE  Before(W[i], W[j])
    <2>1. CASE i \in 1..w /\ j \in 1..w
        BY <2>1, <1>10, <1>5, <1>2 DEF WireInOrder, w
    <2>2. CASE i \in 1..w /\ ~(j \in 1..w)
        <3>1. PICK u \in 1..k : W[j] = b[u]
            BY <2>2, <1>7, <1>3
        <3>2. W[i] = wire[i] /\ u \in 1..L
            BY <2>2, <1>5, <1>4
        <3> QED BY <3>1, <3>2, <2>2, <1>2 DEF WireInOrder, w, L, b
    <2>3. CASE ~(i \in 1..w)
        <3>1. ~(j \in 1..w) /\ i - w < j - w
            BY <2>3, <1>10, <1>2, <1>5
        <3>2. PICK u \in 1..k, v \in 1..k :
                 u < v /\ W[i] = b[u] /\ W[j] = b[v] /\ b[u] # b[v]
            <4>1. i - w \in DOMAIN C /\ W[i] = C[i - w]
                BY <2>3, <1>7
            <4>2. j - w \in DOMAIN C /\ W[j] = C[j - w]
                BY <3>1, <1>7
            <4>3. PICK ii \in DOMAIN C, jj \in DOMAIN C :
                     ii < jj /\ W[i] = C[ii] /\ W[j] = C[jj]
                BY ONLY <4>1, <4>2, <3>1
            <4> QED BY ONLY <4>3, <1>3
        <3> QED BY <3>2, <1>2, <1>4 DEF BufferInOrder, b, L
    <2> QED BY <2>1, <2>2, <2>3
<1>11. ASSUME NEW i \in 1..Len(W), NEW u \in (k + 1)..L
       PROVE  Before(W[i], b[u])
    <2>1. u \in 1..L
        BY <1>2
    <2>2. CASE i \in 1..w
        <3>1. W[i] = wire[i]
            BY <2>2, <1>5
        <3> QED BY <3>1, <2>2, <2>1, <1>2 DEF WireInOrder, w, L, b
    <2>3. CASE ~(i \in 1..w)
        <3>1. i - w \in DOMAIN C /\ W[i] = C[i - w]
            BY ONLY <2>3, <1>7, i \in 1..Len(W)
        <3>2. PICK v \in 1..k : W[i] = b[v] /\ W[i] # b[u]
            BY ONLY <3>1, <1>3, u \in (k + 1)..L
        <3>3. v < u /\ v \in 1..L
            BY <1>4, <1>2
        <3> QED BY <3>2, <3>3, <2>1, <1>2 DEF BufferInOrder, b, L
    <2> QED BY <2>2, <2>3
<1>12. ASSUME NEW j \in 1..w PROVE \E i \in 1..Len(W) : W[i] = wire[j]
    <2>1. j \in 1..Len(W) /\ W[j] = wire[j]
        BY <1>5, <1>2
    <2> QED BY <2>1
<1>13. ASSUME NEW u \in 1..k
       PROVE  \/ \E i \in 1..Len(W) : W[i] = b[u]
              \/ \E v \in (k + 1)..L : b[v] = b[u]
    <2>1. CASE \E i \in DOMAIN C : C[i] = b[u]
        <3>1. PICK i \in DOMAIN C : C[i] = b[u]
            BY <2>1
        <3>2. w + i \in 1..Len(W) /\ W[w + i] = C[i]
            BY <1>8
        <3> QED BY <3>1, <3>2
    <2> QED BY ONLY <2>1, <1>3, u \in 1..k
<1> QED BY <1>5, <1>9, <1>10, <1>11, <1>12, <1>13 DEF GoneOut, N, b, L, w, W

----------------------------------------------------------------------------
(* The steps.                                                              *)

\* An opened socket has nothing to send.
LEMMA InitOutput == Init => OutputInv
<1> SUFFICES ASSUME Init PROVE OutputInv
    OBVIOUS
<1> USE DEF Init
<1>1. /\ \A S : <<>> \in Seq(S)
      /\ Len(<<>>) = 0 /\ \A i : i \notin 1..0
    OBVIOUS
<1>2. TypeOK
    <2>1. closing_ \in BOOLEAN /\ m_OutActive \in BOOLEAN
            /\ writeMask \in BOOLEAN
        BY Zenon
    <2>2. Len(m_OutBuffer) <= Capacity
        BY <1>1
    <2> QED BY <2>1, <2>2, <1>1 DEF TypeOK
<1>3. Numbered
    <2>1. Len(size) = 0 /\ Len(m_PacketQueue) = 0
        BY <1>1
    <2>2. /\ wire \in Seq(1..Len(size)) /\ m_OutBuffer \in Seq(1..Len(size))
          /\ m_PacketQueue \in Seq(1..Len(size))
        <3> DEFINE N == 1..Len(size)
        <3> HIDE DEF N
        <3>1. <<>> \in Seq(N)
            BY <1>1
        <3> QED BY <3>1 DEF N
    <2> QED BY <2>1, <2>2, <1>1 DEF Numbered
<1>4. BufferInRuns /\ BufferInOrder
    BY DEF BufferInRuns, BufferInOrder
<1>5. WireInOrder /\ QueueInOrder /\ QueueLast
    BY DEF WireInOrder, QueueInOrder, QueueLast
<1>6. Kept
    BY DEF Kept
<1> QED BY <1>2, <1>3, <1>4, <1>5, <1>6 DEF OutputInv

\* A packet sent finds its place after all others, or is delayed.
LEMMA SendPacketOutput ==
    ASSUME OutputInv, NEW z \in Sizes, SendPacket(z)
    PROVE  OutputInv'
<1> DEFINE p == Len(size) + 1
           L == Len(m_OutBuffer)
           Q == Len(m_PacketQueue)
           w == Len(wire)
<1>1. /\ size \in Seq(Sizes) /\ Len(size) \in Nat /\ Len(size) <= MaxPackets
      /\ wire \in Seq(1..Len(size)) /\ m_OutBuffer \in Seq(1..Len(size))
      /\ m_PacketQueue \in Seq(1..Len(size))
      /\ delayed \subseteq 1..Len(size)
      /\ L \in Nat /\ Q \in Nat /\ w \in Nat
      /\ L <= Capacity /\ z \in Nat \ {0}
    <2>1. /\ size \in Seq(Sizes) /\ L <= Capacity
          /\ m_OutBuffer \in Seq(Packets)
          /\ m_PacketQueue \in Seq(Packets) /\ wire \in Seq(Packets)
        BY DEF OutputInv, TypeOK
    <2>2. Len(size) \in Nat /\ L \in Nat /\ Q \in Nat /\ w \in Nat
        BY <2>1
    <2>3. z \in Nat \ {0}
        OBVIOUS
    <2> QED BY <2>1, <2>2, <2>3 DEF OutputInv, Numbered
<1>2. /\ size' = Append(size, z) /\ Len(size) < MaxPackets
      /\ wire' = wire
      /\ UNCHANGED <<closing_, m_OutActive, writeMask, net, wire>>
    BY DEF SendPacket
<1>3. /\ size' \in Seq(Sizes) /\ Len(size') = p /\ p \in 1..MaxPackets
      /\ p \in Nat
    <2>1. size' \in Seq(Sizes) /\ Len(size') = p
        BY <1>1, <1>2
    <2> QED BY <2>1, <1>1, <1>2
<1>4. /\ \A i \in 1..w : wire[i] \in 1..Len(size)
      /\ \A i \in 1..L : m_OutBuffer[i] \in 1..Len(size)
      /\ \A i \in 1..Q : m_PacketQueue[i] \in 1..Len(size)
      /\ \A q \in 1..Len(size) : q < p /\ q \in 1..p /\ p # q
      /\ p \notin delayed
    <2>1. /\ \A i \in 1..w : wire[i] \in 1..Len(size)
          /\ \A i \in 1..L : m_OutBuffer[i] \in 1..Len(size)
          /\ \A i \in 1..Q : m_PacketQueue[i] \in 1..Len(size)
        BY ONLY <1>1, ElementOfSeq
    <2>2. \A q \in 1..Len(size) : q < p /\ q \in 1..p /\ p # q
        BY ONLY Len(size) \in Nat
    <2>3. p \notin 1..Len(size)
        BY ONLY Len(size) \in Nat
    <2> QED BY <2>1, <2>2, <2>3, <1>1
<1>5. /\ 1..Len(size) \subseteq 1..p /\ 1..p \subseteq Packets
    <2>1. 1..Len(size) \subseteq 1..p
        BY <1>1
    <2>2. 1..p \subseteq Packets
        BY <1>3 DEF Packets
    <2> QED BY <2>1, <2>2
<1>6. /\ wire' \in Seq(1..p)
      /\ m_OutBuffer \in Seq(1..p) /\ m_PacketQueue \in Seq(1..p)
    <2> HIDE DEF p
    <2> QED BY <1>1, <1>2, <1>5, SeqOfMore
<1>7. BufferInRuns /\ WireInOrder /\ BufferInOrder /\ QueueInOrder /\ QueueLast
      /\ Kept /\ Numbered /\ TypeOK
    BY DEF OutputInv
<1>8. CASE Space(m_OutBuffer) >= z
    <2>1. /\ m_OutBuffer' = Copy(m_OutBuffer, p, z)
          /\ m_PacketQueue' = m_PacketQueue /\ delayed' = delayed
        BY <1>8 DEF SendPacket
    <2>2. /\ m_OutBuffer' \in Seq(1..p) /\ Len(m_OutBuffer') = L + z
          /\ \A i \in 1..L : m_OutBuffer'[i] = m_OutBuffer[i]
          /\ \A i \in (L + 1)..(L + z) : m_OutBuffer'[i] = p
        <3> DEFINE t == [i \in 1..z |-> p]
        <3>1. t \in Seq(1..p) /\ Len(t) = z /\ \A i \in 1..z : t[i] = p
            BY <1>1, <1>3
        <3>2. m_OutBuffer' = m_OutBuffer \o t
            BY <2>1 DEF Copy
        <3> HIDE DEF t, p
        <3>3. m_OutBuffer' \in Seq(1..p) /\ Len(m_OutBuffer') = L + z
            <4>1. z \in Nat /\ L = Len(m_OutBuffer)
                BY <1>1
            <4> DEFINE N == 1..p
            <4>2. m_OutBuffer \in Seq(N) /\ t \in Seq(N)
                BY <3>1, <1>6
            <4> HIDE DEF N
            <4>3. m_OutBuffer' \in Seq(N) /\ Len(m_OutBuffer') = L + z
                <5>1. Len(m_OutBuffer') = L + z
                    <6>1. Len(m_OutBuffer \o t) = Len(m_OutBuffer) + Len(t)
                        BY ONLY <4>2, ConcatProperties
                    <6> QED BY <6>1, <4>1, <3>1, <3>2
                <5>2. m_OutBuffer \o t \in Seq(N)
                    BY ONLY <4>2, ConcatProperties
                <5> QED BY <5>1, <5>2, <3>2
            <4> QED BY <4>3 DEF N
        <3>4. \A i \in 1..L : m_OutBuffer'[i] = m_OutBuffer[i]
            BY <3>1, <3>2, <1>1
        <3>5. ASSUME NEW i \in (L + 1)..(L + z) PROVE m_OutBuffer'[i] = p
            <4>1. i - L \in 1..z /\ i = L + (i - L)
                BY <1>1
            <4>2. m_OutBuffer'[i] = t[i - L]
                BY <4>1, <3>1, <3>2, <1>1
            <4> QED BY <4>1, <4>2, <3>1
        <3> QED BY <3>3, <3>4, <3>5
    <2>3. \A i \in 1..(L + z) : i \in 1..L \/ i \in (L + 1)..(L + z)
        BY <1>1
    <2> HIDE DEF p
    <2>4. TypeOK'
        <3>1. /\ closing_' \in BOOLEAN /\ m_OutActive' \in BOOLEAN
              /\ writeMask' \in BOOLEAN
              /\ net' \in {"idle", "cancel", "schedule"}
            BY <1>7, <1>2 DEF TypeOK
        <3>2. /\ m_OutBuffer' \in Seq(Packets)
              /\ m_PacketQueue' \in Seq(Packets)
              /\ wire' \in Seq(Packets)
            BY <2>1, <2>2, <1>5, <1>6, SeqOfMore
        <3>3. Len(m_OutBuffer') <= Capacity
            <4>1. Capacity - L >= z /\ Len(m_OutBuffer') = L + z
                BY <2>2, <1>8 DEF Space
            <4> QED BY <4>1, <1>1
        <3>4. delayed' \subseteq Packets
            BY <2>1, <1>7 DEF TypeOK
        <3> QED BY <3>1, <3>2, <3>3, <3>4, <1>3 DEF TypeOK
    <2>5. Numbered'
        <3>1. delayed' \subseteq 1..p
            BY <2>1, <1>1, <1>5
        <3>2. \A i \in 1..Len(m_PacketQueue') : m_PacketQueue'[i] \in delayed'
            BY <2>1, <1>7 DEF Numbered
        <3> QED BY <3>1, <3>2, <2>1, <2>2, <1>3, <1>6 DEF Numbered
    <2>6. BufferInRuns'
        <3> SUFFICES ASSUME NEW i \in 1..(L + z), NEW j \in 1..(L + z),
                            NEW k \in 1..(L + z), i < j, j < k,
                            m_OutBuffer'[i] = m_OutBuffer'[k]
                     PROVE  m_OutBuffer'[j] = m_OutBuffer'[i]
            BY <2>2 DEF BufferInRuns
        <3>1. CASE k \in 1..L
            <4>1. i \in 1..L /\ j \in 1..L
                BY <3>1, <1>1
            <4> QED BY <4>1, <3>1, <2>2, <1>7 DEF BufferInRuns
        <3>2. CASE k \in (L + 1)..(L + z)
            <4>1. i \in (L + 1)..(L + z)
                BY <3>2, <2>2, <1>4, <2>3
            <4>2. j \in (L + 1)..(L + z)
                BY <4>1, <1>1
            <4> QED BY <4>1, <4>2, <2>2
        <3> QED BY <3>1, <3>2, <2>3
    <2>7. WireInOrder'
        <3>1. ASSUME NEW i \in 1..w, NEW j \in 1..w, i < j
              PROVE  Before(wire[i], wire[j])'
            BY <3>1, <1>7, <1>2, <2>1 DEF WireInOrder, Before
        <3>2. ASSUME NEW i \in 1..w, NEW j \in 1..(L + z)
              PROVE  Before(wire[i], m_OutBuffer[j])'
            <4>1. CASE j \in 1..L
                <5>1. Before(wire[i], m_OutBuffer[j])
                    BY <4>1, <1>7 DEF WireInOrder
                <5> QED BY <5>1, <4>1, <2>2, <2>1, <1>2 DEF Before
            <4>2. CASE j \in (L + 1)..(L + z)
                <5>1. wire[i] < p /\ wire[i] # p /\ wire[i] \in Nat
                    BY <1>4
                <5> QED BY <5>1, <4>2, <2>2, <1>2, <1>3 DEF Before
            <4> QED BY <4>1, <4>2, <2>3
        <3> QED BY <3>1, <3>2, <1>2, <2>2 DEF WireInOrder
    <2>8. BufferInOrder'
        <3> SUFFICES ASSUME NEW i \in 1..(L + z), NEW j \in 1..(L + z), i < j,
                            m_OutBuffer'[i] # m_OutBuffer'[j]
                     PROVE  Before(m_OutBuffer[i], m_OutBuffer[j])'
            BY <2>2 DEF BufferInOrder
        <3>1. CASE i \in 1..L /\ j \in 1..L
            <4>1. Before(m_OutBuffer[i], m_OutBuffer[j])
                BY <3>1, <1>7, <2>2 DEF BufferInOrder
            <4> QED BY <4>1, <3>1, <2>2, <2>1 DEF Before
        <3>2. CASE i \in 1..L /\ j \in (L + 1)..(L + z)
            <4>1. m_OutBuffer[i] < p /\ m_OutBuffer[i] # p
                    /\ m_OutBuffer[i] \in Nat
                BY <1>4, <3>2
            <4> QED BY <4>1, <3>2, <2>2, <1>3 DEF Before
        <3>3. CASE i \in (L + 1)..(L + z)
            <4>1. j \in (L + 1)..(L + z)
                BY <3>3, <1>1
            <4> QED BY <4>1, <3>3, <2>2
        <3> QED BY <3>1, <3>2, <3>3, <2>3
    <2>9. QueueInOrder'
        BY <2>1, <1>7 DEF QueueInOrder
    <2>10. QueueLast'
        <3>1. ASSUME NEW j \in 1..Q, NEW i \in 1..w
              PROVE  Before(wire[i], m_PacketQueue[j])'
            BY <1>7, <1>2, <2>1 DEF QueueLast, Before
        <3>2. ASSUME NEW j \in 1..Q, NEW i \in 1..(L + z)
              PROVE  Before(m_OutBuffer[i], m_PacketQueue[j])'
            <4>1. CASE i \in 1..L
                <5>1. Before(m_OutBuffer[i], m_PacketQueue[j])
                    BY <4>1, <1>7 DEF QueueLast
                <5> QED BY <5>1, <4>1, <2>2, <2>1 DEF Before
            <4>2. CASE i \in (L + 1)..(L + z)
                <5>1. m_PacketQueue[j] # p /\ m_PacketQueue[j] \in delayed
                    BY <1>4, <1>7 DEF Numbered
                <5> QED BY <5>1, <4>2, <2>2, <2>1, <1>4 DEF Before
            <4> QED BY <4>1, <4>2, <2>3
        <3> QED BY <3>1, <3>2, <1>2, <2>1, <2>2 DEF QueueLast
    <2>11. Kept'
        <3>1. /\ Len(size') = p /\ Len(m_OutBuffer') = L + z
              /\ Len(m_PacketQueue') = Q /\ Len(wire') = w
            BY ONLY <1>2, <1>3, <2>1, <2>2
        <3>2. ASSUME NEW q \in 1..p
              PROVE  \/ \E i \in 1..w : wire'[i] = q
                     \/ \E i \in 1..(L + z) : m_OutBuffer'[i] = q
                     \/ \E i \in 1..Q : m_PacketQueue'[i] = q
            <4>1. CASE q = p
                <5>1. L + z \in (L + 1)..(L + z) /\ L + z \in 1..(L + z)
                    BY <1>1
                <5> QED BY <4>1, <5>1, <2>2
            <4>2. CASE q # p
                <5>1. q \in 1..Len(size)
                    BY <4>2, <1>3, <1>1 DEF p
                <5>2. \A i \in 1..L : i \in 1..(L + z)
                    BY <1>1
                <5>3. \/ \E i \in 1..w : wire[i] = q
                      \/ \E i \in 1..L : m_OutBuffer[i] = q
                      \/ \E i \in 1..Q : m_PacketQueue[i] = q
                    BY <5>1, <1>7 DEF Kept
                <5> QED BY <5>2, <5>3, <1>2, <2>1, <2>2
            <4> QED BY <4>1, <4>2
        <3> QED BY ONLY <3>1, <3>2 DEF Kept
    <2> QED BY <2>4, <2>5, <2>6, <2>7, <2>8, <2>9, <2>10, <2>11 DEF OutputInv
<1>9. CASE ~(Space(m_OutBuffer) >= z)
    <2>1. /\ m_PacketQueue' = Append(m_PacketQueue, p)
          /\ delayed' = delayed \cup {p} /\ m_OutBuffer' = m_OutBuffer
        BY <1>9 DEF SendPacket
    <2> HIDE DEF p
    <2>2. /\ m_PacketQueue' \in Seq(1..p) /\ Len(m_PacketQueue') = Q + 1
          /\ \A i \in 1..Q : m_PacketQueue'[i] = m_PacketQueue[i]
          /\ m_PacketQueue'[Q + 1] = p
        <3>1. p \in 1..p
            BY <1>3
        <3>2. m_PacketQueue \in Seq(1..p) /\ Q = Len(m_PacketQueue)
            BY <1>6
        <3> QED BY ONLY <3>1, <3>2, <2>1, AppendProperties
    <2>3. \A i \in 1..(Q + 1) : i \in 1..Q \/ i = Q + 1
        BY ONLY Q \in Nat, <1>1
    <2>4. TypeOK'
        <3>1. /\ closing_' \in BOOLEAN /\ m_OutActive' \in BOOLEAN
              /\ writeMask' \in BOOLEAN
              /\ net' \in {"idle", "cancel", "schedule"}
            BY <1>7, <1>2 DEF TypeOK
        <3>2. /\ m_OutBuffer' \in Seq(Packets)
              /\ m_PacketQueue' \in Seq(Packets)
              /\ wire' \in Seq(Packets)
            BY <2>1, <2>2, <1>5, <1>6, SeqOfMore
        <3>3. Len(m_OutBuffer') <= Capacity
            BY <2>1, <1>1
        <3>4. delayed' \subseteq Packets
            BY <2>1, <1>7, <1>3 DEF TypeOK, Packets
        <3> QED BY <3>1, <3>2, <3>3, <3>4, <1>3 DEF TypeOK
    <2>5. Numbered'
        <3>1. delayed' \subseteq 1..p
            <4>1. delayed \subseteq 1..p
                BY <1>1, <1>5
            <4>2. p \in 1..p
                BY <1>3
            <4> QED BY <4>1, <4>2, <2>1
        <3>2. \A i \in 1..(Q + 1) : m_PacketQueue'[i] \in delayed'
            BY <2>1, <2>2, <2>3, <1>7 DEF Numbered
        <3> QED BY <3>1, <3>2, <2>1, <2>2, <1>3, <1>6 DEF Numbered
    <2>6. BufferInRuns'
        BY <2>1, <1>7 DEF BufferInRuns
    <2>7. ASSUME NEW x \in 1..Len(size), NEW y \in 1..Len(size), Before(x, y)
          PROVE  x # y /\ (x > y => y \in delayed' /\ x \notin delayed')
        BY <2>7, <2>1, <1>4 DEF Before
    <2>8. WireInOrder'
        <3>1. ASSUME NEW i \in 1..w, NEW j \in 1..w, i < j
              PROVE  Before(wire[i], wire[j])'
            <4>1. Before(wire[i], wire[j])
                BY <3>1, <1>7 DEF WireInOrder
            <4> QED BY <4>1, <1>2, <2>7, <1>4 DEF Before
        <3>2. ASSUME NEW i \in 1..w, NEW j \in 1..L
              PROVE  Before(wire[i], m_OutBuffer[j])'
            <4>1. Before(wire[i], m_OutBuffer[j])
                BY <1>7 DEF WireInOrder
            <4> QED BY <4>1, <1>2, <2>1, <2>7, <1>4 DEF Before
        <3> QED BY <3>1, <3>2, <1>2, <2>1 DEF WireInOrder
    <2>9. BufferInOrder'
        <3> SUFFICES ASSUME NEW i \in 1..L, NEW j \in 1..L, i < j,
                            m_OutBuffer[i] # m_OutBuffer[j]
                     PROVE  Before(m_OutBuffer[i], m_OutBuffer[j])'
            BY <2>1 DEF BufferInOrder
        <3>1. Before(m_OutBuffer[i], m_OutBuffer[j])
            BY <1>7 DEF BufferInOrder
        <3> QED BY <3>1, <2>1, <2>7, <1>4 DEF Before
    <2>10. QueueInOrder'
        <3> SUFFICES ASSUME NEW i \in 1..(Q + 1), NEW j \in 1..(Q + 1), i < j
                     PROVE  m_PacketQueue'[i] < m_PacketQueue'[j]
            BY <2>2 DEF QueueInOrder
        <3>1. CASE j \in 1..Q
            <4>1. i \in 1..Q
                BY <3>1, <1>1
            <4> QED BY <4>1, <3>1, <2>2, <1>7 DEF QueueInOrder
        <3>2. CASE j = Q + 1
            <4>1. i \in 1..Q
                BY <3>2, <1>1
            <4> QED BY <4>1, <3>2, <2>2, <1>4
        <3> QED BY <3>1, <3>2, <2>3
    <2>11. QueueLast'
        <3>1. ASSUME NEW j \in 1..(Q + 1), NEW i \in 1..w
              PROVE  Before(wire[i], m_PacketQueue[j])'
            <4>1. CASE j \in 1..Q
                <5>1. Before(wire[i], m_PacketQueue[j])
                    BY <4>1, <1>7 DEF QueueLast
                <5> QED BY <5>1, <4>1, <1>2, <2>2, <2>7, <1>4 DEF Before
            <4>2. CASE j = Q + 1
                <5>1. wire[i] < p /\ wire[i] # p /\ wire[i] \in Nat
                    BY <1>4
                <5> QED BY <5>1, <4>2, <2>2, <1>2, <1>3 DEF Before
            <4> QED BY <4>1, <4>2, <2>3
        <3>2. ASSUME NEW j \in 1..(Q + 1), NEW i \in 1..L
              PROVE  Before(m_OutBuffer[i], m_PacketQueue[j])'
            <4>1. CASE j \in 1..Q
                <5>1. Before(m_OutBuffer[i], m_PacketQueue[j])
                    BY <4>1, <1>7 DEF QueueLast
                <5> QED BY <5>1, <4>1, <2>1, <2>2, <2>7, <1>4 DEF Before
            <4>2. CASE j = Q + 1
                <5>1. m_OutBuffer[i] < p /\ m_OutBuffer[i] # p
                      /\ m_OutBuffer[i] \in Nat
                    BY <1>4
                <5> QED BY <5>1, <4>2, <2>2, <2>1, <1>3 DEF Before
            <4> QED BY <4>1, <4>2, <2>3
        <3> QED BY <3>1, <3>2, <1>2, <2>1, <2>2 DEF QueueLast
    <2>12. Kept'
        <3> SUFFICES ASSUME NEW q \in 1..p
                     PROVE  \/ \E i \in 1..w : wire'[i] = q
                            \/ \E i \in 1..L : m_OutBuffer'[i] = q
                            \/ \E i \in 1..(Q + 1) : m_PacketQueue'[i] = q
            BY <1>2, <1>3, <2>1, <2>2 DEF Kept
        <3>1. Q + 1 \in 1..(Q + 1) /\ \A i \in 1..Q : i \in 1..(Q + 1)
            BY <1>1
        <3>2. CASE q = p
            BY <3>2, <3>1, <2>2
        <3>3. CASE q # p
            <4>1. q \in 1..Len(size)
                BY <3>3, <1>3, <1>1 DEF p
            <4>2. \/ \E i \in 1..w : wire[i] = q
                  \/ \E i \in 1..L : m_OutBuffer[i] = q
                  \/ \E i \in 1..Q : m_PacketQueue[i] = q
                BY <4>1, <1>7 DEF Kept
            <4> QED BY <4>2, <3>1, <1>2, <2>1, <2>2
        <3> QED BY <3>2, <3>3
    <2> QED BY <2>4, <2>5, <2>6, <2>8, <2>9, <2>10, <2>11, <2>12 DEF OutputInv
<1> QED BY <1>8, <1>9

\* The kernel takes some of the buffer.
LEMMA SendPartOutput ==
    ASSUME OutputInv, NEW k \in Nat, SendPart(k),
           UNCHANGED <<closing_, writeMask, size, delayed>>
    PROVE  OutputInv'
<1> DEFINE b == m_OutBuffer
           L == Len(m_OutBuffer)
           N == 1..Len(size)
<1>1. /\ k \in 1..L /\ k + 1 \in 1..L /\ L \in Nat
      /\ b \in Seq(N) /\ m_PacketQueue \in Seq(N)
      /\ Len(size) \in Nat /\ Len(m_PacketQueue) \in Nat
    <2>1. b \in Seq(N) /\ m_PacketQueue \in Seq(N) /\ L \in Nat
          /\ Len(m_PacketQueue) \in Nat
        BY DEF OutputInv, Numbered
    <2>2. Len(size) \in Nat
        BY DEF OutputInv, TypeOK
    <2>3. k \in 1..(L - 1)
        BY DEF SendPart
    <2> QED BY <2>1, <2>2, <2>3
<1>2. /\ wire' = wire \o Completed(k)
      /\ b' = SubSeq(b, k + 1, L) /\ m_PacketQueue' = m_PacketQueue
      /\ size' = size /\ delayed' = delayed
    BY DEF SendPart
<1>3. /\ b' \in Seq(N) /\ Len(b') = L - k
      /\ \A i \in 1..(L - k) : b'[i] = b[k + i] /\ k + i \in 1..L
                               /\ k + i \in (k + 1)..L
    <2> HIDE DEF N
    <2> QED BY <1>1, <1>2
<1>4. /\ wire' \in Seq(N)
      /\ \A i, j \in 1..Len(wire') : i < j => Before(wire'[i], wire'[j])
      /\ \A i \in 1..Len(wire'), u \in (k + 1)..L : Before(wire'[i], b[u])
      /\ \A i \in 1..Len(wire') : \/ \E j \in 1..Len(wire) : wire'[i] = wire[j]
                                  \/ \E u \in 1..k : wire'[i] = b[u]
      /\ \A j \in 1..Len(wire) : \E i \in 1..Len(wire') : wire'[i] = wire[j]
      /\ \A u \in 1..k :
            \/ \E i \in 1..Len(wire') : wire'[i] = b[u]
            \/ \E v \in (k + 1)..L : b[v] = b[u]
    <2>1. k \in 1..Len(m_OutBuffer)
        BY <1>1
    <2>2. wire' = wire \o Completed(k)
        BY <1>2
    <2>3. GoneOut(wire', k)
        BY <2>1, <2>2, SentInOrder
    <2> QED BY <2>3 DEF GoneOut
<1>5. BufferInRuns /\ WireInOrder /\ BufferInOrder /\ QueueInOrder /\ QueueLast
      /\ Kept /\ Numbered /\ TypeOK
    BY DEF OutputInv
<1>6. N \subseteq Packets
    BY <1>5 DEF Numbered, Packets
<1>7. \A x, y : Before(x, y) => Before(x, y)'
    BY <1>2 DEF Before
<1>8. TypeOK'
    <2>1. closing_' \in BOOLEAN /\ writeMask' \in BOOLEAN
            /\ delayed' \subseteq Packets
          /\ size' \in Seq(Sizes)
        BY <1>2, <1>5 DEF TypeOK
    <2>2. m_OutActive' \in BOOLEAN /\ net' \in {"idle", "cancel", "schedule"}
        BY DEF SendPart, ScheduleWakeup
    <2>3. /\ m_OutBuffer' \in Seq(Packets) /\ m_PacketQueue' \in Seq(Packets)
          /\ wire' \in Seq(Packets)
        <3> HIDE DEF N
        <3> QED BY <1>1, <1>2, <1>3, <1>4, <1>6, SeqOfMore
    <2>4. Len(m_OutBuffer') <= Capacity
        <3>1. L <= Capacity
            BY <1>5 DEF TypeOK
        <3> QED BY <3>1, <1>3, <1>1
    <2> QED BY <2>1, <2>2, <2>3, <2>4 DEF TypeOK
<1>9. Numbered'
    BY <1>2, <1>3, <1>4, <1>5 DEF Numbered
<1>10. BufferInRuns'
    <2> SUFFICES ASSUME NEW i \in 1..(L - k), NEW j \in 1..(L - k),
                        NEW m \in 1..(L - k), i < j, j < m, b'[i] = b'[m]
                 PROVE  b'[j] = b'[i]
        BY <1>3 DEF BufferInRuns
    <2>1. /\ b'[i] = b[k + i] /\ b'[j] = b[k + j] /\ b'[m] = b[k + m]
          /\ k + i \in 1..L /\ k + j \in 1..L /\ k + m \in 1..L
        BY <1>3
    <2>2. k + i < k + j /\ k + j < k + m
        BY <1>1
    <2> QED BY <2>1, <2>2, <1>5 DEF BufferInRuns
<1>11. WireInOrder'
    <2>1. ASSUME NEW i \in 1..Len(wire'), NEW j \in 1..(L - k)
          PROVE  Before(wire'[i], b'[j])
        BY <1>3, <1>4
    <2> QED BY <2>1, <1>3, <1>4, <1>7 DEF WireInOrder
<1>12. BufferInOrder'
    <2> SUFFICES ASSUME NEW i \in 1..(L - k), NEW j \in 1..(L - k), i < j,
                        b'[i] # b'[j]
                 PROVE  Before(b[i], b[j])'
        BY <1>3 DEF BufferInOrder
    <2>1. /\ b'[i] = b[k + i] /\ b'[j] = b[k + j]
          /\ k + i \in 1..L /\ k + j \in 1..L /\ k + i < k + j
        <3>1. k + i < k + j
            BY <1>1
        <3> QED BY <3>1, <1>3
    <2> QED BY <2>1, <1>5, <1>7 DEF BufferInOrder
<1>13. QueueInOrder'
    BY <1>2, <1>5 DEF QueueInOrder
<1>14. QueueLast'
    <2>1. ASSUME NEW j \in 1..Len(m_PacketQueue), NEW i \in 1..Len(wire')
          PROVE  Before(wire'[i], m_PacketQueue[j])
        <3>1. CASE \E l \in 1..Len(wire) : wire'[i] = wire[l]
            BY <3>1, <1>5 DEF QueueLast
        <3>2. CASE \E u \in 1..k : wire'[i] = b[u]
            <4>1. \A u \in 1..k : u \in 1..L
                BY <1>1
            <4> QED BY <3>2, <4>1, <1>5 DEF QueueLast
        <3> QED BY <3>1, <3>2, <1>4
    <2>2. ASSUME NEW j \in 1..Len(m_PacketQueue), NEW i \in 1..(L - k)
          PROVE  Before(b'[i], m_PacketQueue[j])
        BY <1>3, <1>5 DEF QueueLast
    <2> QED BY <2>1, <2>2, <1>2, <1>3, <1>7 DEF QueueLast
<1>15. Kept'
    <2>1. ASSUME NEW v \in (k + 1)..L PROVE \E i \in 1..(L - k) : b'[i] = b[v]
        <3>1. v - k \in 1..(L - k) /\ k + (v - k) = v
            BY <1>1
        <3> QED BY <3>1, <1>3
    <2> SUFFICES ASSUME NEW p \in N
                 PROVE  \/ \E i \in 1..Len(wire') : wire'[i] = p
                        \/ \E i \in 1..(L - k) : b'[i] = p
                        \/ \E i \in 1..Len(m_PacketQueue) :
                             m_PacketQueue[i] = p
        BY <1>2, <1>3 DEF Kept
    <2>2. \A u \in 1..L : u \in 1..k \/ u \in (k + 1)..L
        BY <1>1
    <2>3. CASE \E i \in 1..Len(wire) : wire[i] = p
        BY <2>3, <1>4
    <2>4. CASE \E u \in 1..L : b[u] = p
        <3>1. PICK u \in 1..L : b[u] = p
            BY <2>4
        <3>2. CASE u \in (k + 1)..L
            BY <3>1, <3>2, <2>1
        <3>3. CASE u \in 1..k
            <4>1. \/ \E i \in 1..Len(wire') : wire'[i] = b[u]
                  \/ \E v \in (k + 1)..L : b[v] = b[u]
                BY <3>3, <1>4
            <4> QED BY <4>1, <3>1, <2>1
        <3> QED BY <3>2, <3>3, <2>2
    <2>5. CASE \E i \in 1..Len(m_PacketQueue) : m_PacketQueue[i] = p
        BY <2>5
    <2> QED BY <2>3, <2>4, <2>5, <1>5 DEF Kept
<1> QED BY <1>8, <1>9, <1>10, <1>11, <1>12, <1>13, <1>14, <1>15 DEF OutputInv

\* The kernel takes all of it, and the buffer is refilled.
LEMMA SendAllOutput ==
    ASSUME OutputInv, SendAll, UNCHANGED <<closing_, writeMask, size, delayed>>
    PROVE  OutputInv'
<1> DEFINE b == m_OutBuffer
           L == Len(m_OutBuffer)
           N == 1..Len(size)
           q == m_PacketQueue
           Q == Len(m_PacketQueue)
           F == Flushed
           T == Total[Flushed]
<1>1. /\ L \in Nat /\ L \in 1..L /\ b \in Seq(N) /\ q \in Seq(N)
      /\ Len(size) \in Nat /\ Q \in Nat
    <2>1. b \in Seq(N) /\ q \in Seq(N) /\ L \in Nat /\ Q \in Nat
        BY DEF OutputInv, Numbered
    <2>2. Len(size) \in Nat
        BY DEF OutputInv, TypeOK
    <2>3. b # <<>>
        BY DEF SendAll
    <2>4. L # 0
        <3> HIDE DEF N
        <3> QED BY <2>1, <2>3
    <2> QED BY <2>1, <2>2, <2>4
<1>2. /\ wire' = wire \o Completed(L)
      /\ b' = Refilled /\ q' = SubSeq(q, F + 1, Q)
      /\ size' = size /\ delayed' = delayed
    BY DEF SendAll
<1>3. QueueTyped
    BY DEF OutputInv, TypeOK, Numbered, QueueTyped
<1>4. F \in 0..Q /\ T \in 0..Capacity
    BY <1>3, FlushedFits
<1>5. /\ Len(b') = T /\ b' \in Seq(N)
      /\ \E of \in [1..T -> 1..F] :
            /\ \A i \in 1..T : b'[i] = q[of[i]]
            /\ \A i, j \in 1..T : i < j => of[i] <= of[j]
            /\ \A n \in 1..F : \E i \in 1..T : of[i] = n
    BY <1>3, <1>2, RefilledUnits
<1>6. PICK of \in [1..T -> 1..F] :
         /\ \A i \in 1..T : b'[i] = q[of[i]]
         /\ \A i, j \in 1..T : i < j => of[i] <= of[j]
         /\ \A n \in 1..F : \E i \in 1..T : of[i] = n
    BY <1>5
<1> HIDE DEF F, T
<1>7. /\ q' \in Seq(N) /\ Len(q') = Q - F
      /\ \A j \in 1..(Q - F) : /\ q'[j] = q[F + j] /\ F + j \in 1..Q
                               /\ F + j \in (F + 1)..Q
    <2> HIDE DEF N
    <2>1. F \in 0..Q /\ Q \in Nat
        BY <1>1, <1>4
    <2>2. \A j \in 1..(Q - F) : F + j \in 1..Q /\ F + j \in (F + 1)..Q
        BY ONLY <2>1
    <2>3. \A i \in (F + 1)..Q : q[i] \in N
        BY ONLY <2>1, <1>1, ElementOfSeq
    <2>4. /\ q' \in Seq(N)
          /\ Len(q') = IF F + 1 <= Q THEN Q - (F + 1) + 1 ELSE 0
          /\ \A i \in 1..(Q - (F + 1) + 1) : q'[i] = q[(F + 1) + i - 1]
        BY ONLY <2>1, <2>3, <1>2, SubSeqProperties
    <2> QED BY ONLY <2>1, <2>2, <2>4
<1>8. \A i \in 1..T : of[i] \in 1..F /\ of[i] \in 1..Q /\ of[i] \in Nat
    BY <1>4, <1>6
<1>9. /\ wire' \in Seq(N)
      /\ \A i, j \in 1..Len(wire') : i < j => Before(wire'[i], wire'[j])
      /\ \A i \in 1..Len(wire') : \/ \E j \in 1..Len(wire) : wire'[i] = wire[j]
                                  \/ \E u \in 1..L : wire'[i] = b[u]
      /\ \A j \in 1..Len(wire) : \E i \in 1..Len(wire') : wire'[i] = wire[j]
      /\ \A u \in 1..L : \E i \in 1..Len(wire') : wire'[i] = b[u]
    <2>1. L \in 1..Len(m_OutBuffer) /\ wire' = wire \o Completed(L)
        BY <1>1, <1>2
    <2>2. GoneOut(wire', L)
        BY <2>1, SentInOrder
    <2>3. \A v : v \notin (L + 1)..L
        BY <1>1
    <2> QED BY <2>2, <2>3 DEF GoneOut
<1>10. BufferInRuns /\ WireInOrder /\ BufferInOrder /\ QueueInOrder
         /\ QueueLast
       /\ Kept /\ Numbered /\ TypeOK
    BY DEF OutputInv
<1>11. N \subseteq Packets
    BY <1>10 DEF Numbered, Packets
<1>12. \A x, y : Before(x, y) => Before(x, y)'
    BY <1>2 DEF Before
<1>13. ASSUME NEW m \in 1..Q, NEW n \in 1..Q, m < n
       PROVE  q[m] < q[n] /\ Before(q[m], q[n])
    <2>1. q[m] < q[n] /\ q[m] \in Nat /\ q[n] \in Nat
        BY <1>13, <1>10, <1>1 DEF QueueInOrder
    <2> QED BY <2>1 DEF Before
<1>14. ASSUME NEW i \in 1..Len(wire'), NEW j \in 1..Q
       PROVE  Before(wire'[i], q[j])
    BY <1>9, <1>10 DEF QueueLast
<1>15. TypeOK'
    <2>1. closing_' \in BOOLEAN /\ writeMask' \in BOOLEAN
            /\ delayed' \subseteq Packets
          /\ size' \in Seq(Sizes)
        BY <1>2, <1>10 DEF TypeOK
    <2>2. m_OutActive' \in BOOLEAN /\ net' \in {"idle", "cancel", "schedule"}
        <3>1. CASE ScheduleWakeup
            BY <3>1 DEF ScheduleWakeup
        <3>2. CASE CancelWakeup
            BY <3>2 DEF CancelWakeup
        <3> QED BY <3>1, <3>2 DEF SendAll
    <2>3. /\ m_OutBuffer' \in Seq(Packets) /\ m_PacketQueue' \in Seq(Packets)
          /\ wire' \in Seq(Packets)
        <3> HIDE DEF N
        <3> QED BY <1>5, <1>7, <1>9, <1>11, SeqOfMore
    <2>4. Len(m_OutBuffer') <= Capacity
        BY <1>4, <1>5
    <2> QED BY <2>1, <2>2, <2>3, <2>4 DEF TypeOK
<1>16. Numbered'
    <2>1. \A j \in 1..Len(q') : q'[j] \in delayed
        BY <1>7, <1>10 DEF Numbered
    <2> QED BY <2>1, <1>2, <1>5, <1>7, <1>9, <1>10 DEF Numbered
<1>17. BufferInRuns'
    <2> SUFFICES ASSUME NEW i \in 1..T, NEW j \in 1..T, NEW k \in 1..T,
                        i < j, j < k, b'[i] = b'[k]
                 PROVE  b'[j] = b'[i]
        BY <1>5 DEF BufferInRuns
    <2>1. of[i] <= of[j] /\ of[j] <= of[k] /\ q[of[i]] = q[of[k]]
        BY <1>6
    <2>2. of[i] = of[k]
        <3> SUFFICES ASSUME of[i] # of[k] PROVE FALSE
            OBVIOUS
        <3>1. of[i] < of[k] /\ of[i] \in 1..Q /\ of[k] \in 1..Q
            BY <2>1, <1>8
        <3>2. q[of[i]] < q[of[k]] /\ q[of[i]] \in Nat
            BY <3>1, <1>13, <1>1
        <3> QED BY <3>2, <2>1
    <2>3. of[j] = of[i]
        BY <2>1, <2>2, <1>8
    <2> QED BY <2>3, <1>6
<1>18. WireInOrder'
    <2>1. ASSUME NEW i \in 1..Len(wire'), NEW j \in 1..T
          PROVE  Before(wire'[i], b'[j])
        BY <1>6, <1>8, <1>14
    <2> QED BY <2>1, <1>5, <1>9, <1>12 DEF WireInOrder
<1>19. BufferInOrder'
    <2> SUFFICES ASSUME NEW i \in 1..T, NEW j \in 1..T, i < j, b'[i] # b'[j]
                 PROVE  Before(b[i], b[j])'
        BY <1>5 DEF BufferInOrder
    <2>1. of[i] <= of[j] /\ b'[i] = q[of[i]] /\ b'[j] = q[of[j]]
        BY <1>6
    <2>2. of[i] < of[j] /\ of[i] \in 1..Q /\ of[j] \in 1..Q
        BY <2>1, <1>8
    <2>3. Before(q[of[i]], q[of[j]])
        BY <2>2, <1>13
    <2> QED BY <2>1, <2>3, <1>12
<1>20. QueueInOrder'
    <2> SUFFICES ASSUME NEW i \in 1..(Q - F), NEW j \in 1..(Q - F), i < j
                 PROVE  q'[i] < q'[j]
        BY <1>7 DEF QueueInOrder
    <2>1. F + i < F + j
        BY <1>4, <1>1
    <2> QED BY <2>1, <1>7, <1>13
<1>21. QueueLast'
    <2>1. ASSUME NEW j \in 1..(Q - F), NEW i \in 1..Len(wire')
          PROVE  Before(wire'[i], q'[j])
        BY <1>7, <1>14
    <2>2. ASSUME NEW j \in 1..(Q - F), NEW i \in 1..T
          PROVE  Before(b'[i], q'[j])
        <3>1. of[i] < F + j /\ of[i] \in 1..Q /\ F + j \in 1..Q
            BY <1>8, <1>7, <1>4
        <3> QED BY <3>1, <1>13, <1>6, <1>7
    <2> QED BY <2>1, <2>2, <1>5, <1>7, <1>12 DEF QueueLast
<1>22. Kept'
    <2> SUFFICES ASSUME NEW p \in N
                 PROVE  \/ \E i \in 1..Len(wire') : wire'[i] = p
                        \/ \E i \in 1..T : b'[i] = p
                        \/ \E i \in 1..(Q - F) : q'[i] = p
        <3>1. Len(b') = T /\ Len(q') = Q - F /\ size' = size
            BY <1>2, <1>5, <1>7
        <3> QED BY <3>1 DEF Kept
    <2>1. CASE \E i \in 1..Len(wire) : wire[i] = p
        BY <2>1, <1>9
    <2>2. CASE \E u \in 1..L : b[u] = p
        BY <2>2, <1>9
    <2>3. CASE \E n \in 1..Q : q[n] = p
        <3>1. PICK n \in 1..Q : q[n] = p
            BY <2>3
        <3>2. CASE n \in 1..F
            BY <3>1, <3>2, <1>6
        <3>3. CASE ~(n \in 1..F)
            <4>1. n - F \in 1..(Q - F) /\ F + (n - F) = n
                BY <3>3, <1>4, <1>1
            <4> QED BY <4>1, <3>1, <1>7
        <3> QED BY <3>2, <3>3
    <2> QED BY <2>1, <2>2, <2>3, <1>10 DEF Kept
<1> QED BY <1>15, <1>16, <1>17, <1>18, <1>19, <1>20, <1>21, <1>22 DEF OutputInv

\* What changes no packet.
LEMMA QuietOutput ==
    ASSUME OutputInv, TypeOK',
           UNCHANGED <<m_OutBuffer, m_PacketQueue, size, wire, delayed>>
    PROVE  OutputInv'
<1>1. Numbered' /\ BufferInRuns' /\ WireInOrder' /\ BufferInOrder'
      /\ QueueInOrder' /\ QueueLast' /\ Kept'
    BY DEF OutputInv, Numbered, BufferInRuns, WireInOrder, BufferInOrder,
           QueueInOrder, QueueLast, Kept, Before
<1> QED BY <1>1 DEF OutputInv

\* Whatever the threads and the reactor do.
LEMMA OutputStep == OutputInv /\ [Next]_vars => OutputInv'
<1> SUFFICES ASSUME OutputInv, [Next]_vars PROVE OutputInv'
    OBVIOUS
<1>1. TypeOK
    BY DEF OutputInv
<1>2. ASSUME NEW z \in Sizes, SendPacket(z) PROVE OutputInv'
    BY <1>2, SendPacketOutput
<1>3. CASE handle_output
    <2>1. UNCHANGED <<closing_, writeMask, size, delayed>>
        BY <1>3 DEF handle_output
    <2>2. CASE NothingToSend
        <3>1. UNCHANGED <<m_OutBuffer, m_PacketQueue, wire>>
            BY <2>2 DEF NothingToSend
        <3>2. m_OutActive' \in BOOLEAN
                /\ net' \in {"idle", "cancel", "schedule"}
            BY <2>2 DEF NothingToSend, CancelWakeup
        <3>3. TypeOK'
            BY <3>1, <3>2, <2>1, <1>1 DEF TypeOK
        <3> QED BY <3>1, <3>3, <2>1, QuietOutput
    <2>3. CASE WouldBlock
        <3>1. UNCHANGED <<m_OutBuffer, m_PacketQueue, wire>>
            BY <2>3 DEF WouldBlock
        <3>2. m_OutActive' \in BOOLEAN
                /\ net' \in {"idle", "cancel", "schedule"}
            BY <2>3 DEF WouldBlock, ScheduleWakeup
        <3>3. TypeOK'
            BY <3>1, <3>2, <2>1, <1>1 DEF TypeOK
        <3> QED BY <3>1, <3>3, <2>1, QuietOutput
    <2>4. CASE SendAll
        BY <2>1, <2>4, SendAllOutput
    <2>5. ASSUME NEW k \in 1..Capacity, SendPart(k) PROVE OutputInv'
        <3>1. k \in Nat
            OBVIOUS
        <3> QED BY <3>1, <2>1, <2>5, SendPartOutput
    <2> QED BY <1>3, <2>2, <2>3, <2>4, <2>5 DEF handle_output
<1>4. CASE DispatchOutput
    BY <1>3, <1>4 DEF DispatchOutput
<1>5. CASE Update
    BY <1>3, <1>5 DEF Update
<1>6. CASE TellReactor
    <2>1. writeMask' \in BOOLEAN /\ net' \in {"idle", "cancel", "schedule"}
        BY <1>6 DEF TellReactor
    <2>2. UNCHANGED <<closing_, m_OutBuffer, m_PacketQueue, m_OutActive, size,
                      wire, delayed>>
        BY <1>6 DEF TellReactor
    <2>3. TypeOK'
        BY <2>1, <2>2, <1>1 DEF TypeOK
    <2> QED BY <2>2, <2>3, QuietOutput
<1>7. CASE Close
    <2>1. closing_' \in BOOLEAN
        BY <1>7, Zenon DEF Close
    <2>2. UNCHANGED <<m_OutBuffer, m_PacketQueue, m_OutActive, writeMask, net,
                      size, wire, delayed>>
        BY <1>7 DEF Close
    <2>3. TypeOK'
        BY <2>1, <2>2, <1>1 DEF TypeOK
    <2> QED BY <2>2, <2>3, QuietOutput
<1>8. CASE UNCHANGED vars
    <2>1. TypeOK'
        BY <1>8, <1>1 DEF TypeOK, vars
    <2> QED BY <1>8, <2>1, QuietOutput DEF vars
<1> QED BY <1>2, <1>4, <1>5, <1>6, <1>7, <1>8 DEF Next

----------------------------------------------------------------------------
(* The theorems.                                                           *)

\* In every reachable state of a socket the line is in order: SendPacket and
\* handle_output keep it.
THEOREM OutputInvariant == Spec => []OutputInv
<1> QED BY InitOutput, OutputStep, PTL DEF Spec

\* Nothing is lost, and nothing goes out twice.
THEOREM NothingIsLost == Spec => []AllAccountedFor
<1>1. OutputInv => AllAccountedFor
    <2> SUFFICES ASSUME OutputInv PROVE AllAccountedFor
        OBVIOUS
    <2>1. /\ TypeOK /\ Numbered /\ Kept /\ WireInOrder /\ QueueLast
        BY DEF OutputInv
    <2>2. /\ DOMAIN wire = 1..Len(wire) /\ Len(wire) \in Nat
          /\ DOMAIN m_OutBuffer = 1..Len(m_OutBuffer)
          /\ DOMAIN m_PacketQueue = 1..Len(m_PacketQueue)
          /\ \A i \in 1..Len(wire) : wire[i] \in 1..Len(size)
          /\ \A i \in 1..Len(m_OutBuffer) : m_OutBuffer[i] \in 1..Len(size)
          /\ \A i \in 1..Len(m_PacketQueue) : m_PacketQueue[i] \in 1..Len(size)
        BY <2>1 DEF Numbered
    <2>3. 1..Len(size) \subseteq
             ToSet(wire) \cup ToSet(m_OutBuffer) \cup ToSet(m_PacketQueue)
        BY <2>1, <2>2 DEF Kept, ToSet
    <2>4. ToSet(wire) \cup ToSet(m_OutBuffer) \cup ToSet(m_PacketQueue)
             \subseteq 1..Len(size)
        BY <2>2 DEF ToSet
    <2>5. ToSet(wire) \cap ToSet(m_OutBuffer) = {}
        BY <2>1, <2>2 DEF ToSet, WireInOrder, Before
    <2>6. ToSet(m_PacketQueue) \cap (ToSet(wire) \cup ToSet(m_OutBuffer)) = {}
        BY <2>1, <2>2 DEF ToSet, QueueLast, Before
    <2>7. IsInjective(wire)
        <3> SUFFICES ASSUME NEW i \in 1..Len(wire), NEW j \in 1..Len(wire),
                            wire[i] = wire[j], i # j
                     PROVE  FALSE
            BY <2>2 DEF IsInjective
        <3>1. i < j \/ j < i
            BY <2>2
        <3> QED BY <3>1, <2>1 DEF WireInOrder, Before
    <2> QED BY <2>1, <2>3, <2>4, <2>5, <2>6, <2>7 DEF AllAccountedFor
<1> QED BY <1>1, OutputInvariant, PTL

\* Only a delayed packet is overtaken, and never by a delayed one.
THEOREM OnlyDelayedAreOvertaken == Spec => []OvertakesDelayedOnly
<1>1. OutputInv => OvertakesDelayedOnly
    <2> SUFFICES ASSUME OutputInv PROVE OvertakesDelayedOnly
        OBVIOUS
    <2>1. WireInOrder /\ DOMAIN wire = 1..Len(wire)
        BY DEF OutputInv, Numbered
    <2> QED BY <2>1 DEF OvertakesDelayedOnly, WireInOrder, Before
<1> QED BY <1>1, OutputInvariant, PTL

\* If every packet fits, none waits in m_PacketQueue behind an empty buffer: what
\* handle_output leaves in the queue waits for what it has put into the buffer.
THEOREM NobodyIsStranded ==
    ASSUME \A z \in Sizes : z <= Capacity
    PROVE  Spec => []NotStranded
<1>1. Init => NotStranded
    BY DEF Init, NotStranded
<1>2. OutputInv /\ NotStranded /\ [Next]_vars => NotStranded'
    <2> SUFFICES ASSUME OutputInv, NotStranded, [Next]_vars,
                        m_OutBuffer' = <<>>, m_PacketQueue' # <<>>
                 PROVE  FALSE
        BY DEF NotStranded
    <2>1. /\ m_OutBuffer \in Seq(Packets) /\ m_PacketQueue \in Seq(Packets)
          /\ Len(m_OutBuffer) \in Nat /\ Len(m_PacketQueue) \in Nat
        BY DEF OutputInv, TypeOK
    <2>2. ASSUME UNCHANGED <<m_OutBuffer, m_PacketQueue>> PROVE FALSE
        BY <2>2 DEF NotStranded
    <2>3. ASSUME NEW z \in Sizes, SendPacket(z) PROVE FALSE
        <3>1. z \in Nat \ {0} /\ z <= Capacity
            OBVIOUS
        <3>2. CASE Space(m_OutBuffer) >= z
            <4> DEFINE t == [i \in 1..z |-> Len(size) + 1]
            <4>1. m_OutBuffer' = m_OutBuffer \o t
                BY <2>3, <3>2 DEF SendPacket, Copy
            <4>2. Len(t) = z /\ t \in Seq(Nat)
                <5>1. Len(size) \in Nat
                    BY DEF OutputInv, TypeOK
                <5> QED BY <5>1, <3>1
            <4>3. Len(m_OutBuffer \o t) = Len(m_OutBuffer) + z
                BY <4>2, <2>1
            <4> HIDE DEF t
            <4> QED BY <4>1, <4>3, <3>1, <2>1
        <3>3. CASE ~(Space(m_OutBuffer) >= z)
            <4>1. m_OutBuffer = <<>>
                BY <2>3, <3>3 DEF SendPacket
            <4>2. Space(m_OutBuffer) = Capacity
                BY <4>1 DEF Space
            <4> QED BY <4>2, <3>3, <3>1
        <3> QED BY <3>2, <3>3
    <2>4. ASSUME NEW k \in 1..Capacity, SendPart(k) PROVE FALSE
        <3>1. k \in 1..(Len(m_OutBuffer) - 1)
              /\ m_OutBuffer' = SubSeq(m_OutBuffer, k + 1, Len(m_OutBuffer))
            BY <2>4 DEF SendPart
        <3>2. Len(SubSeq(m_OutBuffer, k + 1, Len(m_OutBuffer)))
                 = Len(m_OutBuffer) - k
            BY <3>1, <2>1
        <3>3. Len(m_OutBuffer') = 0
            OBVIOUS
        <3>4. Len(m_OutBuffer) - k > 0
            BY <3>1, <2>1
        <3>5. Len(m_OutBuffer') = Len(m_OutBuffer) - k
            BY ONLY <3>1, <3>2
        <3> QED BY ONLY <3>3, <3>4, <3>5
    <2>5. ASSUME SendAll PROVE FALSE
        <3>1. QueueTyped
            BY DEF OutputInv, TypeOK, Numbered, QueueTyped
        <3>2. /\ Refilled = <<>>
              /\ SubSeq(m_PacketQueue, Flushed + 1, Len(m_PacketQueue)) # <<>>
            BY <2>5 DEF SendAll
        <3>3. /\ Flushed \in 0..Len(m_PacketQueue)
              /\ Flushed < Len(m_PacketQueue) => Total[Flushed + 1] > Capacity
            BY <3>1, FlushedFits
        <3>4. Total[Flushed] = 0
            BY <3>1, <3>2, RefilledUnits
        <3>5. Flushed = 0
            <4>1. 0 \in 0..Len(m_PacketQueue) /\ Total[0] = 0
                BY <3>1, <2>1, TotalSteps
            <4> HIDE DEF Total, Flushed
            <4> QED BY <4>1, <3>1, <3>3, <3>4, <2>1, TotalGrows
        <3>6. Len(m_PacketQueue) # 0
            BY <3>2, <3>5, <2>1
        <3>7. Total[1] > Capacity /\ 1 \in 1..Len(m_PacketQueue)
            BY <3>3, <3>5, <3>6, <2>1
        <3>8. Total[1] = Total[1 - 1] + size[m_PacketQueue[1]] /\ Total[0] = 0
            BY <3>1, <3>7, TotalSteps
        <3>9. size[m_PacketQueue[1]] \in Sizes
            <4>1. m_PacketQueue[1] \in 1..Len(size)
                BY <3>1, <3>7 DEF QueueTyped
            <4> QED BY <4>1, <3>1 DEF QueueTyped
        <3>10. size[m_PacketQueue[1]] <= Capacity
                 /\ size[m_PacketQueue[1]] \in Nat
            BY <3>9
        <3> QED BY <3>7, <3>8, <3>10
    <2>6. ASSUME handle_output PROVE FALSE
        BY <2>6, <2>2, <2>4, <2>5 DEF handle_output, NothingToSend, WouldBlock
    <2> QED BY <2>2, <2>3, <2>6 DEF Next, DispatchOutput, Update, TellReactor,
                                     Close, vars
<1> QED BY <1>1, <1>2, OutputInvariant, PTL DEF Spec
=============================================================================
