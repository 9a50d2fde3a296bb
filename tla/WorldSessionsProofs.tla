------------------------- MODULE WorldSessionsProofs -------------------------
(***************************************************************************)
(* Proofs about the session table and the login queue.  The inductive      *)
(* invariant SessionsInv is TypeOK with two parts:                         *)
(*                                                                         *)
(*   Structure  each session object is known in one place, and the queue,  *)
(*              the m_inQueue flags and the positions told agree;          *)
(*   Places     sessions that are not listed yet neither wait nor play,    *)
(*              the iteration over m_sessions visits listed sessions only, *)
(*              and after KickAll whoever still has a character is closed  *)
(*              and will be visited.                                       *)
(*                                                                         *)
(* Steps are proved in three groups: those that change one session and no  *)
(* container (Touches), those of the phases, and those that list a session *)
(* or delete one, which all go through what World::RemoveQueuedPlayer      *)
(* leaves behind (Left).                                                   *)
(***************************************************************************)
EXTENDS WorldSessions, FiniteSetTheorems, SequenceTheorems, TLAPS

USE WorldSessionsAssumption DEF WorldSessionsAssumption

----------------------------------------------------------------------------
(* Sequences without repetition, which the queue is.                       *)

\* The elements of a sequence, and what is not to be found in it.
LEMMA InQueue ==
  ASSUME NEW S, NEW q \in Seq(S)
  PROVE  /\ ToSet(q) = {q[i] : i \in 1..Len(q)} /\ ToSet(q) \subseteq S
         /\ \A s : Found(q, s) <=> s \in ToSet(q)
         /\ ToSet(q) = {} <=> q = <<>>
  <1>1. DOMAIN q = 1..Len(q) /\ \A i \in 1..Len(q) : q[i] \in S
    BY LenProperties, ElementOfSeq
  <1>2. q = <<>> <=> Len(q) = 0
    BY EmptySeq
  <1>3. Len(q) \in Nat
    BY LenProperties
  <1>4. Len(q) # 0 => 1 \in 1..Len(q)
    BY <1>3
  <1>5. ToSet(q) = {q[i] : i \in 1..Len(q)}
    BY ONLY <1>1 DEF ToSet
  <1>6. ToSet(q) \subseteq S
    BY ONLY <1>1, <1>5
  <1>7. \A s : Found(q, s) <=> s \in ToSet(q)
    BY ONLY <1>1, <1>5 DEF Found, QueuePos
  <1>8. ToSet(q) = {} <=> 1..Len(q) = {}
    BY ONLY <1>5
  <1>9. 1..Len(q) = {} <=> Len(q) = 0
    BY ONLY <1>3, <1>4
  <1> QED
    BY ONLY <1>2, <1>5, <1>6, <1>7, <1>8, <1>9

\* Behind(q, s) is the place of s.
LEMMA PlaceFound ==
  ASSUME NEW S, NEW q \in Seq(S), NEW s
  PROVE  /\ Found(q, s) => Behind(q, s) \in 1..Len(q) /\ q[Behind(q, s)] = s
         /\ ~Found(q, s) => Behind(q, s) = Len(q) + 1
  <1> DEFINE P == QueuePos(q, s)
  <1>1. P # {} => (CHOOSE i \in P : TRUE) \in P
    OBVIOUS
  <1> QED
    BY <1>1 DEF Found, Behind, QueuePos

\* Erasing the element at i moves those behind it by one.
LEMMA Erased ==
  ASSUME NEW S, NEW q \in Seq(S), NEW k \in 1..Len(q)
  PROVE  /\ RemoveAt(q, k) \in Seq(S)
         /\ Len(RemoveAt(q, k)) = Len(q) - 1
         /\ \A i \in 1..(Len(q) - 1) :
               RemoveAt(q, k)[i] = IF i < k THEN q[i] ELSE q[i + 1]
  <1> DEFINE a == SubSeq(q, 1, k - 1)
             b == SubSeq(q, k + 1, Len(q))
  <1>1. Len(q) \in Nat /\ \A i \in 1..Len(q) : q[i] \in S
    BY LenProperties, ElementOfSeq
  <1>2. /\ a \in Seq(S) /\ Len(a) = k - 1
        /\ \A i \in 1..(k - 1) : a[i] = q[i]
    <2>1. \A i \in 1..(k - 1) : q[i] \in S
      BY <1>1
    <2>2. 1 \in Int /\ k - 1 \in Int
      BY <1>1
    <2>3. /\ a \in Seq(S) /\ Len(a) = IF 1 <= k - 1 THEN k - 1 - 1 + 1 ELSE 0
          /\ \A i \in 1..(k - 1 - 1 + 1) : a[i] = q[1 + i - 1]
      BY <2>1, <2>2, SubSeqProperties
    <2> QED
      BY <1>1, <2>3
  <1>3. /\ b \in Seq(S) /\ Len(b) = Len(q) - k
        /\ \A i \in 1..(Len(q) - k) : b[i] = q[i + k]
    <2>1. \A i \in (k + 1)..Len(q) : q[i] \in S
      BY <1>1
    <2>2. k + 1 \in Int /\ Len(q) \in Int
      BY <1>1
    <2>3. /\ b \in Seq(S)
          /\ Len(b) = IF k + 1 <= Len(q) THEN Len(q) - (k + 1) + 1 ELSE 0
          /\ \A i \in 1..(Len(q) - (k + 1) + 1) : b[i] = q[k + 1 + i - 1]
      BY <2>1, <2>2, SubSeqProperties
    <2> QED
      BY <1>1, <2>3
  <1>4. /\ a \o b \in Seq(S) /\ Len(a \o b) = Len(q) - 1
        /\ \A i \in 1..(Len(q) - 1) :
              (a \o b)[i] = IF i <= k - 1 THEN a[i] ELSE b[i - (k - 1)]
    <2> HIDE DEF a, b
    <2>1. /\ a \o b \in Seq(S) /\ Len(a \o b) = Len(a) + Len(b)
          /\ \A i \in 1..(Len(a) + Len(b)) :
                (a \o b)[i] = IF i <= Len(a) THEN a[i] ELSE b[i - Len(a)]
      <3>1. a \in Seq(S) /\ b \in Seq(S)
        BY ONLY <1>2, <1>3
      <3> QED
        BY ONLY <3>1, ConcatProperties
    <2> QED
      BY <2>1, <1>1, <1>2, <1>3
  <1>5. RemoveAt(q, k) = a \o b
    BY DEF RemoveAt
  <1> HIDE DEF a, b
  <1>6. ASSUME NEW i \in 1..(Len(q) - 1)
        PROVE  (a \o b)[i] = IF i < k THEN q[i] ELSE q[i + 1]
    <2>1. CASE i < k
      BY <1>1, <1>2, <1>4, <2>1
    <2>2. CASE ~(i < k)
      <3>1. i - (k - 1) \in 1..(Len(q) - k) /\ (i - (k - 1)) + k = i + 1
        BY <1>1, <2>2
      <3>2. b[i - (k - 1)] = q[i + 1]
        BY <1>3, <3>1
      <3>3. ~(i <= k - 1)
        BY <1>1, <2>2
      <3> QED
        BY <1>4, <2>2, <3>2, <3>3
    <2> QED
      BY <2>1, <2>2
  <1> QED
    BY <1>4, <1>5, <1>6

\* What is left of a queue when some have left: f gives the place that each
\* had, in the same order.
Shrinks(q, r, f) ==
    /\ f \in [1..Len(r) -> 1..Len(q)]
    /\ \A i \in 1..Len(r) : r[i] = q[f[i]]
    /\ \A i, j \in 1..Len(r) : i < j => f[i] < f[j]

\* Nobody is then in the queue twice, and who stays keeps his order.
LEMMA ShrunkSound ==
  ASSUME NEW S, NEW q \in Seq(S), NEW r \in Seq(S), IsInjective(q), NEW f,
         Shrinks(q, r, f)
  PROVE  /\ IsInjective(r)
         /\ \A x, y \in ToSet(r) : Before(q, x, y) => Before(r, x, y)
  <1>1. /\ Len(q) \in Nat /\ DOMAIN q = 1..Len(q)
        /\ Len(r) \in Nat /\ DOMAIN r = 1..Len(r)
    BY LenProperties
  <1>2. \A i, j \in 1..Len(r) : r[i] = r[j] => i = j
    <2> SUFFICES ASSUME NEW i \in 1..Len(r), NEW j \in 1..Len(r), r[i] = r[j]
                 PROVE  i = j
      OBVIOUS
    <2>1. f[i] = f[j] /\ f[i] \in 1..Len(q)
      BY <1>1 DEF Shrinks, IsInjective
    <2>2. ~(i < j) /\ ~(j < i)
      BY <1>1, <2>1 DEF Shrinks
    <2> QED
      BY <1>1, <2>2
  <1>3. ASSUME NEW i \in 1..Len(r), NEW j \in 1..Len(r),
               Before(q, r[i], r[j])
        PROVE  i < j
    <2>1. PICK a, b \in 1..Len(q) : a < b /\ q[a] = r[i] /\ q[b] = r[j]
      BY <1>3 DEF Before
    <2>2. a = f[i] /\ b = f[j]
      <3>1. /\ f[i] \in DOMAIN q /\ f[j] \in DOMAIN q
            /\ r[i] = q[f[i]] /\ r[j] = q[f[j]]
        BY ONLY <1>1, Shrinks(q, r, f), i \in 1..Len(r), j \in 1..Len(r)
           DEF Shrinks
      <3>2. a \in DOMAIN q /\ b \in DOMAIN q
        BY ONLY <1>1, <2>1
      <3> QED
        BY ONLY <2>1, <3>1, <3>2, IsInjective(q) DEF IsInjective
    <2>3. i # j /\ ~(j < i)
      BY <1>1, <2>1, <2>2 DEF Shrinks
    <2> QED
      BY <1>1, <2>3
  <1> QED
    BY <1>1, <1>2, <1>3 DEF IsInjective, ToSet, Before

\* Who is erased from a queue without repetition is not in it any more, and
\* those behind him move up by one.
LEMMA WithoutSound ==
  ASSUME NEW S, NEW q \in Seq(S), IsInjective(q), NEW s
  PROVE  LET w == Without(q, s)
         IN  /\ w \in Seq(S) /\ IsInjective(w)
             /\ ToSet(w) = ToSet(q) \ {s}
             /\ Len(w) = IF Found(q, s) THEN Len(q) - 1 ELSE Len(q)
             /\ \A i \in 1..Len(w) :
                   w[i] = IF i < Behind(q, s) THEN q[i] ELSE q[i + 1]
             /\ \A x, y \in ToSet(w) : Before(q, x, y) => Before(w, x, y)
  <1> DEFINE w == Without(q, s)
             k == Behind(q, s)
  <1>1. Len(q) \in Nat /\ DOMAIN q = 1..Len(q)
    BY LenProperties
  <1>2. CASE Found(q, s)
    <2>1. k \in 1..Len(q) /\ q[k] = s
      BY <1>2, PlaceFound
    <2>2. /\ w \in Seq(S) /\ Len(w) = Len(q) - 1
          /\ \A i \in 1..(Len(q) - 1) :
                w[i] = IF i < k THEN q[i] ELSE q[i + 1]
      BY <1>2, <2>1, Erased DEF Without
    <2>3. DOMAIN w = 1..(Len(q) - 1)
      BY <2>2, LenProperties
    <2> HIDE DEF w, k
    <2> DEFINE f == [i \in 1..Len(w) |-> IF i < k THEN i ELSE i + 1]
    <2>4. Shrinks(q, w, f)
      BY <1>1, <2>1, <2>2 DEF Shrinks
    <2> HIDE DEF f
    <2>5. /\ IsInjective(w)
          /\ \A x, y \in ToSet(w) : Before(q, x, y) => Before(w, x, y)
      BY <2>2, <2>4, ShrunkSound
    <2>6. ToSet(w) \subseteq ToSet(q) \ {s}
      BY <1>1, <2>1, <2>2, <2>3 DEF IsInjective, ToSet
    <2>7. ASSUME NEW j \in 1..Len(q), q[j] # s
          PROVE  q[j] \in ToSet(w)
      <3>1. j # k
        BY <2>1, <2>7
      <3>2. CASE j < k
        BY <1>1, <2>1, <2>2, <2>3, <3>2 DEF ToSet
      <3>3. CASE j > k
        <4>1. j - 1 \in 1..(Len(q) - 1) /\ ~(j - 1 < k) /\ (j - 1) + 1 = j
          BY <1>1, <2>1, <3>3
        <4>2. w[j - 1] = q[j]
          BY <2>2, <4>1
        <4> QED
          BY <2>3, <4>1, <4>2 DEF ToSet
      <3> QED
        BY <1>1, <2>1, <3>1, <3>2, <3>3
    <2>8. ToSet(w) = ToSet(q) \ {s}
      BY <1>1, <2>6, <2>7 DEF ToSet
    <2> QED
      BY <1>2, <2>2, <2>5, <2>8 DEF w, k
  <1>3. CASE ~Found(q, s)
    <2>1. w = q /\ k = Len(q) + 1
      BY <1>3, PlaceFound DEF Without
    <2>2. s \notin ToSet(q)
      BY <1>3, InQueue
    <2> QED
      BY <1>1, <1>3, <2>1, <2>2
  <1> QED
    BY <1>2, <1>3

\* Whom RemoveQueuedPlayer lets in when s leaves.
Admitted(q, s) == IF Accepts(q, s) THEN {Head(Without(q, s))} ELSE {}

\* The first of a queue without repetition, and the rest.
LEMMA TailSound ==
  ASSUME NEW S, NEW q \in Seq(S), IsInjective(q), q # <<>>
  PROVE  /\ Tail(q) \in Seq(S) /\ IsInjective(Tail(q))
         /\ Head(q) \in ToSet(q) /\ ToSet(Tail(q)) = ToSet(q) \ {Head(q)}
         /\ Len(Tail(q)) = Len(q) - 1
         /\ \A x, y \in ToSet(Tail(q)) : Before(q, x, y) =>
              Before(Tail(q), x, y)
         /\ \A x \in ToSet(Tail(q)) : ~Before(q, x, Head(q))
  <1> DEFINE t == Tail(q)
  <1>1. Len(q) \in Nat \ {0} /\ DOMAIN q = 1..Len(q)
    BY LenProperties, EmptySeq
  <1>2. /\ t \in Seq(S) /\ Len(t) = Len(q) - 1
        /\ \A i \in 1..Len(t) : t[i] = q[i + 1]
    BY HeadTailProperties
  <1>3. Head(q) = q[1]
    OBVIOUS
  <1>4. DOMAIN t = 1..Len(t)
    BY <1>2, LenProperties
  <1> HIDE DEF t
  <1> DEFINE f == [i \in 1..Len(t) |-> i + 1]
  <1>5. Shrinks(q, t, f)
    BY <1>1, <1>2 DEF Shrinks
  <1> HIDE DEF f
  <1>6. /\ IsInjective(t)
        /\ \A x, y \in ToSet(t) : Before(q, x, y) => Before(t, x, y)
    BY <1>2, <1>5, ShrunkSound
  <1>7. ToSet(t) \subseteq ToSet(q) \ {Head(q)}
    BY <1>1, <1>2, <1>3, <1>4 DEF IsInjective, ToSet
  <1>8. ASSUME NEW j \in 1..Len(q), q[j] # q[1]
        PROVE  q[j] \in ToSet(t)
    <2>1. j - 1 \in 1..Len(t) /\ (j - 1) + 1 = j
      BY <1>1, <1>2, <1>8
    <2>2. t[j - 1] = q[j]
      BY <1>2, <2>1
    <2> QED
      BY <1>4, <2>1, <2>2 DEF ToSet
  <1>9. ToSet(t) = ToSet(q) \ {Head(q)}
    BY <1>1, <1>3, <1>7, <1>8 DEF ToSet
  <1>10. \A x : ~Before(q, x, q[1])
    BY <1>1 DEF Before, IsInjective
  <1>11. Head(q) \in ToSet(q)
    BY <1>1, <1>3 DEF ToSet
  <1> QED
    BY <1>2, <1>3, <1>6, <1>9, <1>10, <1>11 DEF t

\* The queue that RemoveQueuedPlayer leaves.
LEMMA QueueAfterSound ==
  ASSUME NEW S, NEW q \in Seq(S), IsInjective(q), NEW s
  PROVE  LET r == QueueAfter(q, s)
         IN  /\ r \in Seq(S) /\ IsInjective(r)
             /\ Admitted(q, s) \subseteq ToSet(q) \ {s}
             /\ ToSet(r) = ToSet(q) \ ({s} \cup Admitted(q, s))
             /\ Len(r) = Len(q) - (IF Found(q, s) THEN 1 ELSE 0)
                              - (IF Accepts(q, s) THEN 1 ELSE 0)
             /\ \A x \in ToSet(r) : \A y :
                   Before(q, x, y) => y \in ToSet(r) \cup {s}
             /\ \A x, y \in ToSet(r) : Before(q, x, y) => Before(r, x, y)
  <1> DEFINE w == Without(q, s)
             r == QueueAfter(q, s)
  <1>1. /\ w \in Seq(S) /\ IsInjective(w) /\ ToSet(w) = ToSet(q) \ {s}
        /\ Len(w) = IF Found(q, s) THEN Len(q) - 1 ELSE Len(q)
        /\ \A x, y \in ToSet(w) : Before(q, x, y) => Before(w, x, y)
    BY WithoutSound
  <1>2. Len(q) \in Nat /\ DOMAIN q = 1..Len(q)
    BY LenProperties
  <1>3. \A x, y : Before(q, x, y) => y \in ToSet(q)
    BY <1>2 DEF Before, ToSet
  <1>4. CASE Accepts(q, s)
    <2>1. w # <<>> /\ r = Tail(w) /\ Admitted(q, s) = {Head(w)}
      BY <1>4 DEF Accepts, QueueAfter, Admitted
    <2> HIDE DEF w, r
    <2>2. /\ r \in Seq(S) /\ IsInjective(r)
          /\ Head(w) \in ToSet(w) /\ ToSet(r) = ToSet(w) \ {Head(w)}
          /\ Len(r) = Len(w) - 1
          /\ \A x, y \in ToSet(r) : Before(w, x, y) => Before(r, x, y)
          /\ \A x \in ToSet(r) : ~Before(w, x, Head(w))
      BY <1>1, <2>1, TailSound
    <2>3. \A x \in ToSet(r) : \A y : Before(q, x, y) => y \in ToSet(r) \cup {s}
      BY <1>1, <1>3, <2>2
    <2>4. Len(r) = Len(q) - (IF Found(q, s) THEN 1 ELSE 0)
                          - (IF Accepts(q, s) THEN 1 ELSE 0)
      <3>1. CASE Found(q, s)
        BY <1>1, <1>2, <1>4, <2>2, <3>1
      <3>2. CASE ~Found(q, s)
        BY <1>1, <1>2, <1>4, <2>2, <3>2
      <3> QED
        BY <3>1, <3>2
    <2> QED
      BY <1>1, <2>1, <2>2, <2>3, <2>4 DEF w, r
  <1>5. CASE ~Accepts(q, s)
    <2>1. r = w /\ Admitted(q, s) = {}
      BY <1>5 DEF QueueAfter, Admitted
    <2> HIDE DEF w, r
    <2>2. Len(r) = Len(q) - (IF Found(q, s) THEN 1 ELSE 0)
                          - (IF Accepts(q, s) THEN 1 ELSE 0)
      <3>1. CASE Found(q, s)
        BY <1>1, <1>2, <1>5, <2>1, <3>1
      <3>2. CASE ~Found(q, s)
        BY <1>1, <1>2, <1>5, <2>1, <3>2
      <3> QED
        BY <3>1, <3>2
    <2>3. \A x \in ToSet(r) : \A y : Before(q, x, y) => y \in ToSet(r) \cup {s}
      BY <1>1, <1>3, <2>1
    <2>4. ToSet(r) = ToSet(q) \ ({s} \cup Admitted(q, s))
      BY <1>1, <2>1
    <2>5. /\ r \in Seq(S) /\ IsInjective(r)
          /\ Admitted(q, s) \subseteq ToSet(q) \ {s}
          /\ \A x, y \in ToSet(r) : Before(q, x, y) => Before(r, x, y)
      BY <1>1, <2>1
    <2> QED
      BY <2>2, <2>3, <2>4, <2>5 DEF r
  <1> QED
    BY <1>4, <1>5

----------------------------------------------------------------------------
(* What RemoveQueuedPlayer leaves.                                         *)

Heap == [Session -> SessionRec \cup {NULL}]

\* A session that was told another position, or let in, is otherwise the same.
SameBut(r, o) ==
    /\ r \in SessionRec
    /\ r.account = o.account /\ r.loading = o.loading
    /\ r.players = o.players /\ r.closed = o.closed /\ r.exempt = o.exempt

\* The heap and the queue when the sessions of gone have been deleted: those
\* in the queue know their positions, and who left it was let in.
Left(heap, q, gone) ==
    /\ heap \in Heap
    /\ q \in Seq(Session) /\ IsInjective(q)
    /\ ToSet(q) \subseteq Waiting \ gone
    /\ \A x \in gone : heap[x] = NULL
    /\ \A x \in Session \ (gone \cup Waiting) : heap[x] = sess[x]
    /\ \A x \in Waiting \ gone :
          /\ SameBut(heap[x], sess[x])
          /\ heap[x].inQueue <=> x \in ToSet(q)
          /\ x \notin ToSet(q) => heap[x].told = 0
    /\ \A i \in 1..Len(q) : heap[q[i]].told = i

\* A change to one session keeps the heap a heap, and the others as they are.
LEMMA HeapChange ==
  ASSUME NEW heap \in Heap, NEW s \in Session, NEW r \in SessionRec \cup {NULL}
  PROVE  /\ [heap EXCEPT ![s] = r] \in Heap
         /\ [heap EXCEPT ![s] = r][s] = r
         /\ \A x \in Session \ {s} : [heap EXCEPT ![s] = r][x] = heap[x]
  BY DEF Heap

\* A session that is told a position.
LEMMA ToldPosition ==
  ASSUME NEW o \in SessionRec, NEW i \in Nat
  PROVE  LET r == [o EXCEPT !.told = i]
         IN  SameBut(r, o) /\ r.told = i /\ r.inQueue = o.inQueue
  BY DEF SameBut, SessionRec

\* A session that is let in.
LEMMA LetIn ==
  ASSUME NEW o \in SessionRec
  PROVE  LET r == [o EXCEPT !.inQueue = FALSE, !.told = 0]
         IN  SameBut(r, o) /\ r.told = 0 /\ ~r.inQueue
  BY DEF SameBut, SessionRec

\* A session that has left the queue.
LEMMA NotQueued ==
  ASSUME NEW o \in SessionRec
  PROVE  [o EXCEPT !.inQueue = FALSE] \in SessionRec
  BY DEF SessionRec

\* SendPositions tells those from k on their places, and nobody else.
LEMMA PositionsSent ==
  ASSUME NEW heap \in Heap, NEW q \in Seq(Session),
         IsInjective(q), NEW k \in Nat \ {0}
  PROVE  LET h == SendPositions(heap, q, k)
         IN  /\ DOMAIN h = Session
             /\ \A i \in 1..Len(q) :
                  i >= k => h[q[i]] = [heap[q[i]] EXCEPT !.told = i]
             /\ \A i \in 1..Len(q) : i < k => h[q[i]] = heap[q[i]]
             /\ \A x \in Session \ ToSet(q) : h[x] = heap[x]
  <1> DEFINE h == SendPositions(heap, q, k)
  <1>1. /\ Len(q) \in Nat /\ DOMAIN q = 1..Len(q)
        /\ \A i \in 1..Len(q) : q[i] \in Session
    BY LenProperties, ElementOfSeq
  <1>2. DOMAIN h = Session
    BY DEF SendPositions
  <1>3. ASSUME NEW i \in 1..Len(q), i >= k
        PROVE  h[q[i]] = [heap[q[i]] EXCEPT !.told = i]
    <2>1. \A j \in k..Len(q) : q[j] = q[i] => j = i
      BY <1>1 DEF IsInjective
    <2>2. i \in k..Len(q)
      BY <1>1, <1>3
    <2>3. (CHOOSE j \in k..Len(q) : q[j] = q[i]) = i
      BY <2>1, <2>2
    <2> QED
      BY <1>1, <2>2, <2>3 DEF SendPositions
  <1>4. ASSUME NEW x \in Session, \A i \in k..Len(q) : q[i] # x
        PROVE  h[x] = heap[x]
    BY <1>4 DEF SendPositions
  <1>5. ASSUME NEW i \in 1..Len(q), i < k
        PROVE  h[q[i]] = heap[q[i]]
    <2>1. \A j \in k..Len(q) : q[j] # q[i]
      BY <1>1, <1>5 DEF IsInjective
    <2> QED
      BY <1>1, <1>4, <2>1
  <1>6. ASSUME NEW x \in Session \ ToSet(q)
        PROVE  h[x] = heap[x]
    <2>1. \A j \in k..Len(q) : q[j] # x
      BY <1>1, <1>6 DEF ToSet
    <2> QED
      BY <1>4, <2>1
  <1> QED
    BY <1>2, <1>3, <1>5, <1>6

\* What RemoveQueuedPlayer and delete leave when s goes.
LEMMA RemovedSound ==
  ASSUME TypeOK, IsInjective(m_QueuedPlayer), NEW s \in Session,
         \A x \in Waiting : sess[x] # NULL /\ sess[x].inQueue,
         \A i \in 1..Len(m_QueuedPlayer) : sess[m_QueuedPlayer[i]].told = i,
         sess[s] # NULL
  PROVE  Left(Delete(HeapAfter(m_QueuedPlayer, s), s),
              QueueAfter(m_QueuedPlayer, s), {s})
  <1> DEFINE q == m_QueuedPlayer
             w == Without(q, s)
             r == QueueAfter(q, s)
             k == Behind(q, s)
             base == IF Found(q, s) THEN [sess EXCEPT ![s].inQueue = FALSE]
                                    ELSE sess
             h == HeapAfter(q, s)
             d == Delete(h, s)
  <1>1. /\ q \in Seq(Session) /\ Len(q) \in Nat /\ DOMAIN q = 1..Len(q)
        /\ sess \in Heap /\ DOMAIN sess = Session /\ Waiting \subseteq Session
        /\ Waiting = ToSet(q)
        /\ \A x \in Waiting : sess[x] \in SessionRec
    BY LenProperties, InQueue DEF TypeOK, Heap, Waiting
  <1>2. /\ w \in Seq(Session) /\ IsInjective(w) /\ ToSet(w) = Waiting \ {s}
        /\ Len(w) = IF Found(q, s) THEN Len(q) - 1 ELSE Len(q)
        /\ \A i \in 1..Len(w) : w[i] = IF i < k THEN q[i] ELSE q[i + 1]
    BY <1>1, WithoutSound
  <1>3. /\ r \in Seq(Session) /\ IsInjective(r)
        /\ Admitted(q, s) \subseteq Waiting \ {s}
        /\ ToSet(r) = Waiting \ ({s} \cup Admitted(q, s))
    BY <1>1, QueueAfterSound
  <1>4. k \in Nat \ {0}
    BY <1>1, PlaceFound
  <1>5. base \in Heap /\ \A x \in Session \ {s} : base[x] = sess[x]
    <2>1. sess[s] \in SessionRec
      BY <1>1 DEF Heap
    <2>2. [sess[s] EXCEPT !.inQueue = FALSE] \in SessionRec
      BY <2>1, NotQueued
    <2>3. CASE Found(q, s)
      BY <1>1, <2>2, <2>3, HeapChange
    <2>4. CASE ~Found(q, s)
      BY <1>1, <2>4
    <2> QED
      BY <2>3, <2>4
  <1>6. CASE Accepts(q, s)
    <2> DEFINE y == Head(w)
               adm == Admit(base, y)
    <2>1. Admitted(q, s) = {y} /\ y \in Waiting \ {s}
      BY <1>3, <1>6 DEF Admitted
    <2>2. /\ adm \in Heap /\ \A x \in Session \ {s, y} : adm[x] = sess[x]
          /\ adm[y] = [sess[y] EXCEPT !.inQueue = FALSE, !.told = 0]
      <3> DEFINE e == [sess[y] EXCEPT !.inQueue = FALSE, !.told = 0]
      <3>1. e \in SessionRec
        BY <1>1, <2>1, LetIn DEF SameBut
      <3>2. adm = [base EXCEPT ![y] = e]
        BY <1>1, <1>5, <2>1 DEF Admit, Heap
      <3> HIDE DEF e, adm, base, y
      <3>3. base \in Heap /\ y \in Session /\ e \in SessionRec \cup {NULL}
        BY <1>1, <1>5, <2>1, <3>1
      <3>4. LET new == [base EXCEPT ![y] = e]
            IN  new \in Heap /\ new[y] = e
                  /\ \A x \in Session \ {y} : new[x] = base[x]
        BY ONLY <3>3, HeapChange
      <3>5. adm \in Heap /\ adm[y] = e
              /\ \A x \in Session \ {y} : adm[x] = base[x]
        BY <3>2, <3>4
      <3> QED
        BY <1>5, <3>5 DEF e
    <2>3. h = SendPositions(adm, r, 1)
      BY <1>6 DEF HeapAfter
    <2> HIDE DEF base, adm, r, w, y
    <2>4. /\ DOMAIN h = Session
          /\ \A i \in 1..Len(r) :
                i >= 1 => h[r[i]] = [adm[r[i]] EXCEPT !.told = i]
          /\ \A x \in Session \ ToSet(r) : h[x] = adm[x]
      <3>1. adm \in Heap /\ 1 \in Nat \ {0}
        BY <2>2
      <3> QED
        BY <1>3, <2>3, <3>1, PositionsSent
    <2>5. Len(r) \in Nat /\ DOMAIN r = 1..Len(r)
      BY <1>3, LenProperties
    <2>6. /\ DOMAIN d = Session /\ d[s] = NULL
          /\ \A x \in Session \ {s} : d[x] = h[x]
      BY <2>4 DEF Delete
    <2>7. \A i \in 1..Len(r) : /\ d[r[i]] = [sess[r[i]] EXCEPT !.told = i]
                               /\ r[i] \in Waiting \ {s}
      <3> SUFFICES ASSUME NEW i \in 1..Len(r)
                   PROVE  d[r[i]] = [sess[r[i]] EXCEPT !.told = i]
                            /\ r[i] \in Waiting \ {s}
        OBVIOUS
      <3>1. r[i] \in ToSet(r) /\ i >= 1
        BY <2>5 DEF ToSet
      <3>2. r[i] \in Waiting \ {s} /\ r[i] # y
        BY <1>3, <2>1, <3>1
      <3>3. d[r[i]] = h[r[i]] /\ adm[r[i]] = sess[r[i]]
        BY <1>1, <2>2, <2>6, <3>2
      <3> QED
        BY <2>4, <3>1, <3>2, <3>3
    <2>8. d[y] = [sess[y] EXCEPT !.inQueue = FALSE, !.told = 0]
      BY <1>1, <1>3, <2>1, <2>2, <2>4, <2>6
    <2>9. \A x \in Session \ ({s} \cup Waiting) : d[x] = sess[x]
      BY <1>1, <1>3, <2>1, <2>2, <2>4, <2>6
    <2> HIDE DEF d, h
    <2>10. \A i \in 1..Len(r) :
              SameBut(d[r[i]], sess[r[i]]) /\ d[r[i]].inQueue
              /\ d[r[i]].told = i
      <3> SUFFICES ASSUME NEW i \in 1..Len(r)
                   PROVE  SameBut(d[r[i]], sess[r[i]]) /\ d[r[i]].inQueue
                            /\ d[r[i]].told = i
        OBVIOUS
      <3> DEFINE o == sess[r[i]]
      <3>1. r[i] \in Waiting /\ d[r[i]] = [o EXCEPT !.told = i]
        BY <2>7
      <3>2. o \in SessionRec /\ o.inQueue /\ i \in Nat
        BY <1>1, <2>5, <3>1
      <3> HIDE DEF o
      <3>3. LET e == [o EXCEPT !.told = i]
            IN  SameBut(e, o) /\ e.told = i /\ e.inQueue = o.inQueue
        BY <3>2, ToldPosition
      <3>4. SameBut(d[r[i]], o) /\ d[r[i]].inQueue /\ d[r[i]].told = i
        BY <3>1, <3>2, <3>3
      <3> QED
        BY <3>4 DEF o
    <2>11. SameBut(d[y], sess[y]) /\ ~d[y].inQueue /\ d[y].told = 0
      <3>1. sess[y] \in SessionRec
        BY <1>1, <2>1
      <3> QED
        BY <2>8, <3>1, LetIn
    <2>12. \A x \in ToSet(r) : SameBut(d[x], sess[x]) /\ d[x].inQueue
      BY <2>5, <2>10 DEF ToSet
    <2>13. \A x \in Waiting \ {s} : x \in ToSet(r) \/ x = y
      BY <1>3, <2>1
    <2>14. d \in Heap
      <3>1. \A x \in Session : d[x] \in SessionRec \cup {NULL}
        BY <1>1, <2>6, <2>9, <2>11, <2>12, <2>13 DEF Heap, SameBut
      <3>2. d = [x \in Session |-> d[x]]
        BY <2>6 DEF d, Delete
      <3> QED
        BY <3>1, <3>2 DEF Heap
    <2>15. \A x \in Waiting \ {s} :
             /\ SameBut(d[x], sess[x])
             /\ d[x].inQueue <=> x \in ToSet(r)
             /\ x \notin ToSet(r) => d[x].told = 0
      BY <1>3, <2>1, <2>11, <2>12, <2>13
    <2>16. Left(d, r, {s})
      BY <1>3, <2>6, <2>9, <2>10, <2>14, <2>15 DEF Left
    <2> QED
      BY <2>16 DEF d, h, r
  <1>7. CASE ~Accepts(q, s)
    <2>1. r = w /\ h = SendPositions(base, r, k)
      BY <1>7 DEF HeapAfter, QueueAfter
    <2>2. ToSet(r) = Waiting \ {s}
      BY <1>2, <2>1
    <2> HIDE DEF base, r, w, k
    <2>3. /\ DOMAIN h = Session
          /\ \A i \in 1..Len(r) :
                i >= k => h[r[i]] = [base[r[i]] EXCEPT !.told = i]
          /\ \A i \in 1..Len(r) : i < k => h[r[i]] = base[r[i]]
          /\ \A x \in Session \ ToSet(r) : h[x] = base[x]
      BY <1>3, <1>4, <1>5, <2>1, PositionsSent
    <2>4. Len(r) \in Nat /\ DOMAIN r = 1..Len(r)
      BY <1>3, LenProperties
    <2>5. /\ DOMAIN d = Session /\ d[s] = NULL
          /\ \A x \in Session \ {s} : d[x] = h[x]
      BY <2>3 DEF Delete
    <2>6. \A i \in 1..Len(r) : r[i] \in Waiting \ {s}
      BY <2>2, <2>4 DEF ToSet
    <2>7. ASSUME NEW i \in 1..Len(r)
          PROVE  SameBut(d[r[i]], sess[r[i]]) /\ d[r[i]].inQueue
                   /\ d[r[i]].told = i
      <3>1. d[r[i]] = h[r[i]] /\ base[r[i]] = sess[r[i]]
              /\ sess[r[i]] \in SessionRec /\ sess[r[i]].inQueue
        BY <1>1, <1>5, <2>5, <2>6
      <3>2. CASE i >= k
        <4>1. d[r[i]] = [sess[r[i]] EXCEPT !.told = i]
          BY <2>3, <3>1, <3>2
        <4> HIDE DEF d
        <4> QED
          BY <2>4, <3>1, <4>1 DEF SameBut, SessionRec
      <3>3. CASE i < k
        <4>1. d[r[i]] = sess[r[i]]
          BY <2>3, <3>1, <3>3
        <4>2. r[i] = q[i] /\ i \in 1..Len(q)
          <5>1. i \in 1..Len(w)
            BY <2>1
          <5>2. CASE Found(q, s)
            BY <1>1, <1>2, <2>1, <3>3, <5>1, <5>2
          <5>3. CASE ~Found(q, s)
            BY <1>1, <1>2, <2>1, <3>3, <5>1, <5>3
          <5> QED
            BY <5>2, <5>3
        <4>3. sess[r[i]].told = i
          BY <4>2
        <4> HIDE DEF d
        <4> QED
          BY <3>1, <4>1, <4>3 DEF SameBut
      <3> QED
        BY <1>4, <2>4, <3>2, <3>3
    <2>8. \A x \in Session \ ({s} \cup Waiting) : d[x] = sess[x]
      BY <1>1, <1>5, <2>2, <2>3, <2>5
    <2> HIDE DEF d, h
    <2>9. \A x \in Waiting \ {s} : \E i \in 1..Len(r) : x = r[i]
      BY <2>2, <2>4 DEF ToSet
    <2>10. d \in Heap
      <3>1. \A x \in Session : d[x] \in SessionRec \cup {NULL}
        BY <1>1, <2>5, <2>7, <2>8, <2>9 DEF Heap, SameBut
      <3>2. d = [x \in Session |-> d[x]]
        BY <2>5 DEF d, Delete
      <3> QED
        BY <3>1, <3>2 DEF Heap
    <2>11. \A x \in Waiting \ {s} :
             /\ SameBut(d[x], sess[x])
             /\ d[x].inQueue <=> x \in ToSet(r)
             /\ x \notin ToSet(r) => d[x].told = 0
      BY <2>2, <2>7, <2>9
    <2>12. Left(d, r, {s})
      BY <1>3, <2>2, <2>5, <2>7, <2>8, <2>10, <2>11 DEF Left
    <2> QED
      BY <2>12 DEF d, h, r
  <1> QED
    BY <1>6, <1>7

----------------------------------------------------------------------------
(* The inductive invariant.                                                *)

\* Each session object is known in one place, under its own account.
Placed ==
    /\ \A s \in Session : sess[s] # NULL <=> s \in Listed \cup Pending
    /\ Listed \cap Pending = {}
    /\ \A a \in ListedIn(m_sessions) : sess[m_sessions[a]].account = a
    /\ IsInjective(addSessQueue)

\* The queue, the flags and the positions say the same.
LineSound ==
    /\ Waiting \subseteq Listed
    /\ IsInjective(m_QueuedPlayer)
    /\ \A s \in Listed : sess[s].inQueue <=>
          \/ s \in Waiting
          \/ stopping /\ sess[s].inQueue /\ sess[s].closed
    /\ PositionsTold

\* A session that is not listed yet neither waits nor plays.
Fresh == \A s \in Pending : ~sess[s].inQueue /\ sess[s].players = 0

\* The iteration over m_sessions visits listed sessions, each once.
LoopPlace ==
    /\ phase # "update" => todo = {} /\ cur = NULL
    /\ todo \subseteq ListedIn(m_sessions)
    /\ cur # NULL => cur \in ListedIn(m_sessions) \ todo

\* After KickAll nobody logs in, and who has a character in the world is
\* closed and will be visited by the last UpdateSessions.
Kicked ==
    /\ phase = "stopped" => stopping
    /\ stopping =>
          /\ phase \in {"accept", "update", "stopped"}
          /\ \A a \in ListedIn(m_sessions) :
                sess[m_sessions[a]].players > 0 =>
                  /\ sess[m_sessions[a]].closed
                  /\ phase = "accept" \/ a \in todo \/ a = cur

Structure == Placed /\ LineSound
Places == Fresh /\ LoopPlace /\ Kicked
SessionsInv == TypeOK /\ Structure /\ Places

\* What TypeOK says of the containers.
LEMMA Containers ==
  ASSUME TypeOK
  PROVE  /\ sess \in Heap /\ DOMAIN sess = Session
         /\ Listed \subseteq Session /\ Pending \subseteq Session
         /\ Waiting \subseteq Session
         /\ \A a \in ListedIn(m_sessions) :
               m_sessions[a] \in Session /\ m_sessions[a] \in Listed
         /\ m_QueuedPlayer \in Seq(Session) /\ addSessQueue \in Seq(Session)
         /\ Len(m_QueuedPlayer) \in Nat
         /\ DOMAIN m_QueuedPlayer = 1..Len(m_QueuedPlayer)
         /\ \A i \in 1..Len(m_QueuedPlayer) : m_QueuedPlayer[i] \in Waiting
  <1>1. m_QueuedPlayer \in Seq(Session) /\ addSessQueue \in Seq(Session)
    BY DEF TypeOK
  <1>2. Pending \subseteq Session /\ Waiting \subseteq Session
    BY <1>1, InQueue DEF Pending, Waiting
  <1>3. sess \in Heap /\ m_sessions \in [Account -> Session \cup {NULL}]
    BY DEF TypeOK, Heap
  <1>4. /\ Len(m_QueuedPlayer) \in Nat
        /\ DOMAIN m_QueuedPlayer = 1..Len(m_QueuedPlayer)
    BY <1>1, LenProperties
  <1> QED
    BY <1>1, <1>2, <1>3, <1>4 DEF Heap, Listed, ListedIn, Waiting, ToSet

\* A session object is listed under one account at most.
LEMMA OneAccount ==
  ASSUME TypeOK, Placed
  PROVE  /\ \A a, b \in ListedIn(m_sessions) :
               m_sessions[a] = m_sessions[b] => a = b
         /\ \A s \in Listed \cup Pending : sess[s] \in SessionRec
  BY Containers DEF Placed, Heap

\* Nobody is there at the start.
LEMMA InitSessions == Init => SessionsInv
  <1> SUFFICES ASSUME Init PROVE SessionsInv
    OBVIOUS
  <1>1. TypeOK
    BY EmptySeq DEF Init, TypeOK, Phases
  <1>2. Pending = {} /\ Waiting = {} /\ Listed = {}
          /\ ListedIn(m_sessions) = {}
    BY DEF Init, Pending, Waiting, Listed, ListedIn, ToSet
  <1>3. DOMAIN m_QueuedPlayer = {} /\ DOMAIN addSessQueue = {}
          /\ Len(m_QueuedPlayer) = 0
    BY DEF Init
  <1>4. Placed
    BY <1>2, <1>3 DEF Init, Placed, IsInjective
  <1>5. LineSound
    BY <1>2, <1>3 DEF LineSound, PositionsTold, IsInjective
  <1>6. Places
    BY <1>2 DEF Init, Places, Fresh, LoopPlace, Kicked
  <1> QED
    BY <1>1, <1>4, <1>5, <1>6 DEF SessionsInv, Structure

----------------------------------------------------------------------------
(* Steps that change one session, and none of the containers.              *)

\* A session closes, loads a character or has one in the world: it stays who
\* and where it is, and a socket that is closed is not opened again.
Touches(o, n) ==
    /\ n \in SessionRec
    /\ n.account = o.account /\ n.inQueue = o.inQueue /\ n.told = o.told
    /\ n.exempt = o.exempt /\ (o.closed => n.closed)

\* What the handlers do to a session, each way.
LEMMA TouchKinds ==
  ASSUME NEW o \in SessionRec
  PROVE  /\ LET n == [o EXCEPT !.closed = TRUE]
            IN  Touches(o, n) /\ n.players = o.players
         /\ LET n == [o EXCEPT !.players = 0]
            IN  Touches(o, n) /\ n.players = 0
         /\ LET n == [o EXCEPT !.closed = TRUE, !.loading = FALSE]
            IN  Touches(o, n) /\ n.players = o.players
         /\ \A p \in 0..2 : Touches(o, [o EXCEPT !.players = p,
                                                 !.loading = FALSE])
         /\ \A kick, short \in BOOLEAN :
              LET n == [o EXCEPT !.loading = TRUE, !.closed = kick,
                                 !.unread = short]
              IN  ~o.closed => Touches(o, n) /\ n.players = o.players
  <1>1. LET n == [o EXCEPT !.closed = TRUE]
        IN  Touches(o, n) /\ n.players = o.players
    BY DEF Touches, SessionRec
  <1>2. LET n == [o EXCEPT !.players = 0]
        IN  Touches(o, n) /\ n.players = 0
    BY DEF Touches, SessionRec
  <1>3. LET n == [o EXCEPT !.closed = TRUE, !.loading = FALSE]
        IN  Touches(o, n) /\ n.players = o.players
    BY DEF Touches, SessionRec
  <1>4. \A p \in 0..2 : Touches(o, [o EXCEPT !.players = p, !.loading = FALSE])
    BY DEF Touches, SessionRec
  <1>5. ASSUME NEW kick \in BOOLEAN, NEW short \in BOOLEAN, ~o.closed
        PROVE  LET n == [o EXCEPT !.loading = TRUE, !.closed = kick,
                                  !.unread = short]
               IN  Touches(o, n) /\ n.players = o.players
    BY <1>5 DEF Touches, SessionRec
  <1> QED
    BY <1>1, <1>2, <1>3, <1>4, <1>5

\* Such a step keeps the structure.
LEMMA TouchedSound ==
  ASSUME TypeOK, Structure, NEW s \in Session, sess[s] # NULL,
         NEW n, Touches(sess[s], n), sess' = [sess EXCEPT ![s] = n],
         UNCHANGED <<m_sessions, addSessQueue, m_QueuedPlayer, stopping>>
  PROVE  /\ sess' \in Heap /\ sess'[s] = n
         /\ \A x \in Session \ {s} : sess'[x] = sess[x]
         /\ Structure'
  <1>1. n \in SessionRec /\ n # NULL /\ sess[s] \in SessionRec
    BY Containers DEF Touches, Heap
  <1>2. /\ sess' \in Heap /\ sess'[s] = n
        /\ \A x \in Session \ {s} : sess'[x] = sess[x]
    BY <1>1, Containers, HeapChange
  <1>3. Listed' = Listed /\ Pending' = Pending /\ Waiting' = Waiting
          /\ ListedIn(m_sessions)' = ListedIn(m_sessions)
    BY DEF Listed, Pending, Waiting
  <1>4. \A x \in Session : sess[x] # NULL => Touches(sess[x], sess'[x])
    BY <1>2, Containers DEF Touches, Heap
  <1>5. \A x \in Session : sess[x] = NULL <=> sess'[x] = NULL
    BY <1>1, <1>2
  <1>6. \A x \in Listed : sess[x] # NULL /\ x \in Session
    BY Containers DEF Structure, Placed
  <1>7. Placed'
    BY <1>3, <1>4, <1>5, <1>6, Containers DEF Structure, Placed, Touches
  <1>8. PositionsTold'
    BY <1>3, <1>4, <1>6, Containers
       DEF Structure, LineSound, PositionsTold, Touches
  <1>9. \A x \in Listed : sess'[x].inQueue <=>
           \/ x \in Waiting
           \/ stopping /\ sess'[x].inQueue /\ sess'[x].closed
    BY <1>4, <1>6 DEF Structure, LineSound, Touches
  <1>10. LineSound'
    BY <1>3, <1>8, <1>9 DEF Structure, LineSound
  <1> QED
    BY <1>2, <1>7, <1>10 DEF Structure

\* A listed session, as the handlers of its packets find it.
LEMMA ListedSession ==
  ASSUME SessionsInv, NEW a \in ListedIn(m_sessions)
  PROVE  LET s == m_sessions[a]
         IN  /\ s \in Session /\ s \in Listed /\ s \notin Pending
             /\ sess[s] # NULL /\ sess[s] \in SessionRec
             /\ \A b \in ListedIn(m_sessions) : m_sessions[b] = s => b = a
  BY Containers, OneAccount DEF SessionsInv, Structure, Placed

\* A step that touches the listed session of a and leaves it with a character
\* only where it may have one keeps the invariant.
LEMMA ListedTouched ==
  ASSUME SessionsInv, NEW a \in ListedIn(m_sessions), NEW n,
         Touches(sess[m_sessions[a]], n),
         sess' = [sess EXCEPT ![m_sessions[a]] = n],
         UNCHANGED <<m_sessions, addSessQueue, m_QueuedPlayer, m_disconnects,
                     m_playerLimit, phase, stopping>>,
         logins' \in Seq(Account), todo' \in SUBSET Account,
         cur' \in Account \cup {NULL}, LoopPlace',
         todo' \cup {cur'} = todo \cup {cur}
           \/ todo' \cup {cur'} = (todo \cup {cur}) \ {NULL},
         n.players > 0 /\ stopping => sess[m_sessions[a]].players > 0
  PROVE  SessionsInv'
  <1> DEFINE s == m_sessions[a]
  <1>1. s \in Session /\ s \notin Pending /\ sess[s] # NULL
          /\ \A b \in ListedIn(m_sessions) : m_sessions[b] = s => b = a
    BY ListedSession
  <1>2. TypeOK /\ Structure /\ Places
    BY DEF SessionsInv
  <1> HIDE DEF s
  <1>3. /\ sess' \in Heap /\ sess'[s] = n
        /\ \A x \in Session \ {s} : sess'[x] = sess[x]
        /\ Structure'
    BY <1>1, <1>2, TouchedSound DEF s
  <1>4. Pending' = Pending /\ ListedIn(m_sessions)' = ListedIn(m_sessions)
    BY DEF Pending
  <1>5. Fresh'
    BY <1>1, <1>2, <1>3, <1>4, Containers DEF Places, Fresh
  <1>6. \A b \in ListedIn(m_sessions) : m_sessions[b] \in Session
    BY <1>2, Containers
  <1>7. Kicked'
    <2>1. phase' = phase /\ stopping' = stopping /\ m_sessions' = m_sessions
      OBVIOUS
    <2>2. phase = "stopped" => stopping
      BY <1>2 DEF Places, Kicked
    <2>3. ASSUME stopping, NEW b \in ListedIn(m_sessions),
                 sess'[m_sessions[b]].players > 0
          PROVE  /\ sess'[m_sessions[b]].closed
                 /\ phase = "accept" \/ b \in todo' \/ b = cur'
      <3>1. sess[m_sessions[b]].players > 0
        BY <1>3, <1>6, <2>3 DEF s
      <3>2. /\ sess[m_sessions[b]].closed
            /\ phase = "accept" \/ b \in todo \/ b = cur
        BY <1>2, <2>3, <3>1 DEF Places, Kicked
      <3>3. sess'[m_sessions[b]].closed
        BY <1>3, <1>6, <3>2 DEF s, Touches
      <3>4. b # NULL
        BY DEF ListedIn
      <3> QED
        BY <3>2, <3>3, <3>4
    <2>4. stopping => phase \in {"accept", "update", "stopped"}
      BY <1>2 DEF Places, Kicked
    <2> QED
      BY <1>4, <2>1, <2>2, <2>3, <2>4 DEF Kicked
  <1>8. TypeOK'
    BY <1>2, <1>3 DEF TypeOK, Heap
  <1> QED
    BY <1>3, <1>5, <1>7, <1>8 DEF SessionsInv, Places

\* WorldSession::Update, the answers to logins and the kicks change one
\* listed session at a time.
LEMMA UpdateKeeps ==
  ASSUME SessionsInv,
         \/ \E a \in Account : BeginUpdate(a) /\ ~UNCHANGED sess
         \/ HandlePlayerLoginOpcode \/ LogoutPlayer
         \/ HandlePlayerLoginCallback /\ m_sessions[Head(logins)] # NULL
         \/ \E a \in Account : KickPlayer(a)
  PROVE  SessionsInv'
  <1>1. TypeOK /\ LoopPlace /\ Kicked
    BY DEF SessionsInv, Places
  <1> DEFINE At(a) == sess[m_sessions[a]]
  <1>2. ASSUME NEW a \in Account, BeginUpdate(a), ~UNCHANGED sess
        PROVE  SessionsInv'
    <2>1. a \in ListedIn(m_sessions) /\ a \in todo /\ cur = NULL
      BY <1>1, <1>2 DEF BeginUpdate, LoopPlace
    <2> DEFINE n == [At(a) EXCEPT !.closed = TRUE]
    <2>2. At(a) \in SessionRec
      BY <2>1, ListedSession
    <2>3. Touches(At(a), n) /\ n.players = At(a).players
      BY <2>2, TouchKinds
    <2>4. sess' = [sess EXCEPT ![m_sessions[a]] = n]
      BY <1>2 DEF BeginUpdate
    <2> HIDE DEF n
    <2>5. /\ UNCHANGED <<m_sessions, addSessQueue, m_QueuedPlayer,
                         m_disconnects, m_playerLimit, phase, stopping,
                         logins>>
          /\ todo' = todo \ {a} /\ cur' = a /\ phase = "update"
      BY <1>2 DEF BeginUpdate, queueVars
    <2>6. LoopPlace'
      BY <1>1, <2>1, <2>5 DEF LoopPlace
    <2>7. todo' \cup {cur'} = (todo \cup {cur}) \ {NULL}
      BY <1>1, <2>1, <2>5 DEF TypeOK
    <2>8. logins' \in Seq(Account) /\ todo' \in SUBSET Account
            /\ cur' \in Account
      BY <1>1, <2>5 DEF TypeOK
    <2> QED
      BY <2>1, <2>3, <2>4, <2>5, <2>6, <2>7, <2>8, ListedTouched
  <1>3. ASSUME HandlePlayerLoginOpcode
        PROVE  SessionsInv'
    <2>1. cur \in ListedIn(m_sessions) /\ cur \in Account
      BY <1>1, <1>3 DEF HandlePlayerLoginOpcode, LoopPlace, ListedIn
    <2>2. At(cur) \in SessionRec /\ ~At(cur).closed
      BY <1>3, <2>1, ListedSession DEF HandlePlayerLoginOpcode
    <2>3. \E n : /\ Touches(At(cur), n) /\ n.players = At(cur).players
                 /\ sess' = [sess EXCEPT ![m_sessions[cur]] = n]
      <3> DEFINE c == [At(cur) EXCEPT !.closed = TRUE]
                 l(kick, short) == [At(cur) EXCEPT !.loading = TRUE,
                                        !.closed = kick, !.unread = short]
      <3>1. Touches(At(cur), c) /\ c.players = At(cur).players
        BY <2>2, TouchKinds
      <3>2. \A kick, short \in BOOLEAN :
               /\ Touches(At(cur), l(kick, short))
               /\ l(kick, short).players = At(cur).players
        BY <2>2, TouchKinds
      <3>3. \/ sess' = [sess EXCEPT ![m_sessions[cur]] = c]
            \/ \E kick, short \in BOOLEAN :
                  sess' = [sess EXCEPT ![m_sessions[cur]] = l(kick, short)]
        BY <1>3 DEF HandlePlayerLoginOpcode
      <3> HIDE DEF c, l
      <3> QED
        BY <3>1, <3>2, <3>3
    <2>4. /\ UNCHANGED <<m_sessions, addSessQueue, m_QueuedPlayer,
                         m_disconnects, m_playerLimit, phase, stopping,
                         todo, cur>>
          /\ logins' = logins \/ logins' = Append(logins, cur)
      BY <1>3 DEF HandlePlayerLoginOpcode, queueVars, loopVars
    <2>5. logins' \in Seq(Account)
      <3>1. logins \in Seq(Account)
        BY <1>1 DEF TypeOK
      <3>2. Append(logins, cur) \in Seq(Account)
        BY <2>1, <3>1, AppendProperties
      <3> QED
        BY <2>4, <3>1, <3>2
    <2>6. LoopPlace' /\ todo' \in SUBSET Account /\ cur' \in Account
      BY <1>1, <2>1, <2>4 DEF LoopPlace, TypeOK
    <2> QED
      BY <2>1, <2>3, <2>4, <2>5, <2>6, ListedTouched
  <1>4. ASSUME LogoutPlayer
        PROVE  SessionsInv'
    <2>1. cur \in ListedIn(m_sessions) /\ cur \in Account
      BY <1>1, <1>4 DEF LogoutPlayer, LoopPlace, ListedIn
    <2> DEFINE n == [At(cur) EXCEPT !.players = 0]
    <2>2. At(cur) \in SessionRec
      BY <2>1, ListedSession
    <2>3. Touches(At(cur), n) /\ n.players = 0
      BY <2>2, TouchKinds
    <2>4. sess' = [sess EXCEPT ![m_sessions[cur]] = n]
      BY <1>4 DEF LogoutPlayer
    <2> HIDE DEF n
    <2>5. UNCHANGED <<m_sessions, addSessQueue, m_QueuedPlayer, m_disconnects,
                      m_playerLimit, phase, stopping, todo, cur, logins>>
      BY <1>4 DEF LogoutPlayer, queueVars, loopVars
    <2>6. LoopPlace' /\ todo' \in SUBSET Account /\ cur' \in Account
            /\ logins' \in Seq(Account)
      BY <1>1, <2>1, <2>5 DEF LoopPlace, TypeOK
    <2>7. ~(n.players > 0)
      BY <2>3
    <2> QED
      BY <2>1, <2>3, <2>4, <2>5, <2>6, <2>7, ListedTouched
  <1>5. ASSUME HandlePlayerLoginCallback, m_sessions[Head(logins)] # NULL
        PROVE  SessionsInv'
    <2> DEFINE a == Head(logins)
    <2>1. a \in Account /\ Tail(logins) \in Seq(Account)
      BY <1>1, <1>5, HeadTailProperties DEF HandlePlayerLoginCallback, TypeOK
    <2>2. a \in ListedIn(m_sessions)
      BY <1>5, <2>1 DEF ListedIn
    <2>3. At(a) \in SessionRec
      BY <2>2, ListedSession
    <2>4. \E n : /\ Touches(At(a), n)
                 /\ sess' = [sess EXCEPT ![m_sessions[a]] = n]
      <3> DEFINE c == [At(a) EXCEPT !.closed = TRUE, !.loading = FALSE]
                 l(p) == [At(a) EXCEPT !.players = p, !.loading = FALSE]
      <3>1. Touches(At(a), c)
        BY <2>3, TouchKinds
      <3>2. \A p \in 0..2 : Touches(At(a), l(p))
        BY <2>3, TouchKinds
      <3>3. \/ sess' = [sess EXCEPT ![m_sessions[a]] = c]
            \/ \E p \in 0..2 : sess' = [sess EXCEPT ![m_sessions[a]] = l(p)]
        <4> DEFINE p == IF At(a).players = 0 THEN 1 ELSE 2
        <4>1. p \in 0..2
          OBVIOUS
        <4>2. \/ sess' = [sess EXCEPT ![m_sessions[a]].closed = TRUE,
                                    ![m_sessions[a]].loading = FALSE]
              \/ sess' = [sess EXCEPT ![m_sessions[a]].players = p,
                                    ![m_sessions[a]].loading = FALSE]
          BY <1>5 DEF HandlePlayerLoginCallback
        <4> HIDE DEF p
        <4>3. [sess EXCEPT ![m_sessions[a]].players = p,
                           ![m_sessions[a]].loading = FALSE]
                = [sess EXCEPT ![m_sessions[a]] = l(p)]
          BY DEF HandlePlayerLoginCallback
        <4> QED
          BY <4>1, <4>2, <4>3
      <3> HIDE DEF c, l
      <3> QED
        BY <3>1, <3>2, <3>3
    <2>5. /\ UNCHANGED <<m_sessions, addSessQueue, m_QueuedPlayer,
                         m_disconnects, m_playerLimit, phase, stopping, todo,
                         cur>>
          /\ logins' = Tail(logins) /\ phase = "results"
      BY <1>5 DEF HandlePlayerLoginCallback, queueVars, loopVars
    <2>6. LoopPlace' /\ todo' \in SUBSET Account
            /\ cur' \in Account \cup {NULL}
      BY <1>1, <2>5 DEF LoopPlace, TypeOK
    <2>7. ~stopping
      BY <1>1, <2>5 DEF Kicked
    <2> HIDE DEF a
    <2> QED
      BY <2>1, <2>2, <2>4, <2>5, <2>6, <2>7, ListedTouched DEF a
  <1>6. ASSUME NEW a \in Account, KickPlayer(a)
        PROVE  SessionsInv'
    <2>1. a \in ListedIn(m_sessions)
      BY <1>6 DEF KickPlayer, ListedIn
    <2> DEFINE n == [At(a) EXCEPT !.closed = TRUE]
    <2>2. At(a) \in SessionRec
      BY <2>1, ListedSession
    <2>3. Touches(At(a), n) /\ n.players = At(a).players
      BY <2>2, TouchKinds
    <2>4. sess' = [sess EXCEPT ![m_sessions[a]] = n]
      BY <1>6 DEF KickPlayer
    <2> HIDE DEF n
    <2>5. UNCHANGED <<m_sessions, addSessQueue, m_QueuedPlayer, m_disconnects,
                      m_playerLimit, phase, stopping, todo, cur, logins>>
      BY <1>6 DEF KickPlayer, queueVars, loopVars
    <2>6. LoopPlace' /\ todo' \in SUBSET Account
            /\ cur' \in Account \cup {NULL}
            /\ logins' \in Seq(Account)
      BY <1>1, <2>5 DEF LoopPlace, TypeOK
    <2> QED
      BY <2>1, <2>3, <2>4, <2>5, <2>6, ListedTouched
  <1> QED
    BY <1>2, <1>3, <1>4, <1>5, <1>6

\* A socket may close at any time, also that of a session not yet listed.
LEMMA CloseKeeps ==
  ASSUME SessionsInv, NEW s \in Session, SocketClosed(s)
  PROVE  SessionsInv'
  <1> DEFINE n == [sess[s] EXCEPT !.closed = TRUE]
  <1>1. TypeOK /\ Structure /\ Places
    BY DEF SessionsInv
  <1>2. sess[s] \in SessionRec /\ sess[s] # NULL
    BY <1>1, Containers DEF SocketClosed, Heap
  <1>3. Touches(sess[s], n) /\ n.players = sess[s].players
    BY <1>2, TouchKinds
  <1>4. sess' = [sess EXCEPT ![s] = n]
    BY DEF SocketClosed
  <1> HIDE DEF n
  <1>5. UNCHANGED <<m_sessions, addSessQueue, m_QueuedPlayer, m_disconnects,
                    m_playerLimit, phase, stopping, todo, cur, logins>>
    BY DEF SocketClosed, queueVars, loopVars
  <1>6. /\ sess' \in Heap /\ sess'[s] = n
        /\ \A x \in Session \ {s} : sess'[x] = sess[x]
        /\ Structure'
    BY <1>1, <1>2, <1>3, <1>4, <1>5, TouchedSound
  <1>7. Pending' = Pending /\ ListedIn(m_sessions)' = ListedIn(m_sessions)
    BY <1>5 DEF Pending
  <1>8. \A x \in Session : /\ sess'[x].players = sess[x].players
                           /\ sess'[x].inQueue = sess[x].inQueue
                           /\ sess[x].closed => sess'[x].closed
    BY <1>3, <1>6 DEF Touches
  <1>9. Fresh'
    BY <1>1, <1>7, <1>8, Containers DEF Places, Fresh
  <1>10. Kicked'
    BY <1>1, <1>5, <1>7, <1>8, Containers DEF Places, Kicked
  <1>11. LoopPlace'
    BY <1>1, <1>5, <1>7 DEF Places, LoopPlace
  <1>12. TypeOK'
    BY <1>1, <1>5, <1>6 DEF TypeOK, Heap
  <1> QED
    BY <1>6, <1>9, <1>10, <1>11, <1>12 DEF SessionsInv, Places

\* The phases of a tick change no session.
LEMMA PhasesKeep ==
  ASSUME SessionsInv,
         \/ \E a \in Account : BeginUpdate(a) /\ UNCHANGED sess
         \/ AllAdded \/ AllUpdated \/ AllResults \/ NextTick
         \/ \E limit \in Limits : ReloadConfig(limit)
         \/ \E a \in Account : ToleranceElapses(a)
         \/ HandlePlayerLoginCallback /\ m_sessions[Head(logins)] = NULL
         \/ UNCHANGED vars
  PROVE  SessionsInv'
  <1>1. TypeOK /\ Structure /\ Fresh /\ LoopPlace /\ Kicked
    BY DEF SessionsInv, Places
  <1>2. UNCHANGED <<sess, m_sessions, addSessQueue, m_QueuedPlayer, stopping>>
    BY DEF BeginUpdate, AllAdded, AllUpdated, AllResults, NextTick, vars,
           ReloadConfig, ToleranceElapses, HandlePlayerLoginCallback,
           queueVars, loopVars
  <1>3. Structure' /\ Fresh'
    <2>1. Listed' = Listed /\ Pending' = Pending /\ Waiting' = Waiting
            /\ ListedIn(m_sessions)' = ListedIn(m_sessions)
      BY <1>2 DEF Listed, Pending, Waiting
    <2> QED
      BY <1>1, <1>2, <2>1
         DEF Structure, Placed, LineSound, PositionsTold, Fresh
  <1>4. ListedIn(m_sessions)' = ListedIn(m_sessions)
    BY <1>2
  <1>5. TypeOK'
    <2>1. m_disconnects' \in [Account -> {"never", "recent", "old"}]
      BY <1>1
         DEF BeginUpdate, AllAdded, AllUpdated, AllResults, NextTick, vars,
             ReloadConfig, ToleranceElapses, HandlePlayerLoginCallback,
             queueVars, loopVars, TypeOK
    <2>2. m_playerLimit' \in Limits
      BY <1>1
         DEF BeginUpdate, AllAdded, AllUpdated, AllResults, NextTick, vars,
             ReloadConfig, ToleranceElapses, HandlePlayerLoginCallback,
             queueVars, loopVars, TypeOK
    <2>3. logins' \in Seq(Account)
      <3>1. logins \in Seq(Account)
        BY <1>1 DEF TypeOK
      <3>2. logins # <<>> => Tail(logins) \in Seq(Account)
        BY <3>1, HeadTailProperties
      <3> QED
        BY <3>1, <3>2
           DEF BeginUpdate, AllAdded, AllUpdated, AllResults, NextTick, vars,
               ReloadConfig, ToleranceElapses, HandlePlayerLoginCallback,
               queueVars, loopVars
    <2>4. phase' \in Phases
      BY <1>1
         DEF BeginUpdate, AllAdded, AllUpdated, AllResults, NextTick, vars,
             ReloadConfig, ToleranceElapses, HandlePlayerLoginCallback,
             queueVars, loopVars, TypeOK, Phases
    <2>5. todo' \in SUBSET Account /\ cur' \in Account \cup {NULL}
      BY <1>1
         DEF BeginUpdate, AllAdded, AllUpdated, AllResults, NextTick, vars,
             ReloadConfig, ToleranceElapses, HandlePlayerLoginCallback,
             queueVars, loopVars, TypeOK, ListedIn
    <2> QED
      BY <1>1, <1>2, <2>1, <2>2, <2>3, <2>4, <2>5 DEF TypeOK
  <1>6. LoopPlace'
    BY <1>1, <1>4
       DEF BeginUpdate, AllAdded, AllUpdated, AllResults, NextTick, vars,
           ReloadConfig, ToleranceElapses, HandlePlayerLoginCallback,
           queueVars, loopVars, LoopPlace
  <1>7. Kicked'
    <2>1. CASE AllAdded
      BY <1>1, <1>2, <1>4, <2>1 DEF AllAdded, Kicked, LoopPlace
    <2>2. CASE AllUpdated
      BY <1>1, <1>2, <1>4, <2>2 DEF AllUpdated, Kicked
    <2>3. CASE \E a \in Account : BeginUpdate(a)
      <3>1. PICK a \in Account : BeginUpdate(a)
        BY <2>3
      <3>2. phase' = phase /\ cur = NULL /\ cur' = a /\ todo' = todo \ {a}
        BY <3>1 DEF BeginUpdate
      <3>3. \A b \in ListedIn(m_sessions) : b # NULL
        BY DEF ListedIn
      <3> QED
        BY <1>1, <1>2, <1>4, <3>2, <3>3 DEF Kicked
    <2>4. CASE NextTick \/ AllResults
      BY <1>1, <1>2, <2>4 DEF NextTick, AllResults, Kicked
    <2>5. CASE UNCHANGED <<phase, todo, cur>>
      BY <1>1, <1>2, <1>4, <2>5 DEF Kicked
    <2> QED
      BY <2>1, <2>2, <2>3, <2>4, <2>5
         DEF vars, ReloadConfig, ToleranceElapses, HandlePlayerLoginCallback,
             loopVars
  <1> QED
    BY <1>3, <1>5, <1>6, <1>7 DEF SessionsInv, Places

\* World::KickAll closes every listed session, so that the flags that stay
\* set belong to sessions on their way out.
LEMMA KickAllKeeps ==
  ASSUME SessionsInv, KickAll
  PROVE  SessionsInv'
  <1>1. TypeOK /\ Structure /\ Fresh /\ LoopPlace /\ Kicked
    BY DEF SessionsInv, Places
  <1>2. /\ UNCHANGED <<m_sessions, addSessQueue, m_disconnects,
                       m_playerLimit, logins, todo, cur>>
        /\ phase = "kickall" /\ phase' = "accept" /\ stopping' = TRUE
        /\ m_QueuedPlayer' = <<>>
    BY DEF KickAll
  <1>3. /\ Listed' = Listed /\ Pending' = Pending
        /\ ListedIn(m_sessions)' = ListedIn(m_sessions)
        /\ Waiting' = {}
    BY <1>2 DEF Listed, Pending, Waiting, ToSet
  <1>4. /\ \A x \in Listed : sess'[x] = [sess[x] EXCEPT !.closed = TRUE]
        /\ \A x \in Session \ Listed : sess'[x] = sess[x]
        /\ DOMAIN sess' = Session
    <2>1. \A x \in Session : x \in Listed =>
            \E a \in Account : m_sessions[a] = x
      BY DEF Listed, ListedIn
    <2>2. \A x \in Session : (\E a \in Account : m_sessions[a] = x) =>
            x \in Listed
      BY DEF Listed, ListedIn
    <2> QED
      BY <1>1, <2>1, <2>2, Containers DEF KickAll
  <1>5. \A x \in Listed : sess[x] \in SessionRec /\ sess[x] # NULL
    BY <1>1, Containers, OneAccount DEF Structure, Placed
  <1>6. \A x \in Listed : Touches(sess[x], sess'[x]) /\ sess'[x].closed
    <2> SUFFICES ASSUME NEW x \in Listed
                 PROVE  Touches(sess[x], sess'[x]) /\ sess'[x].closed
      OBVIOUS
    <2>1. [sess[x] EXCEPT !.closed = TRUE].closed
      BY <1>5 DEF SessionRec
    <2> QED
      BY <1>4, <1>5, <2>1, TouchKinds
  <1>7. sess' \in Heap
    <2>1. \A x \in Session : sess'[x] \in SessionRec \cup {NULL}
      BY <1>1, <1>4, <1>6, Containers DEF Touches, Heap
    <2>2. sess' = [x \in Session |-> sess'[x]]
      BY DEF KickAll
    <2> QED
      BY <2>1, <2>2 DEF Heap
  <1>8. TypeOK'
    BY <1>1, <1>2, <1>7, EmptySeq DEF TypeOK, Heap, Phases
  <1>9. Placed'
    <2>1. \A x \in Session : sess'[x] # NULL <=> x \in Listed \cup Pending
      BY <1>1, <1>4, <1>5, <1>6 DEF Structure, Placed, Touches
    <2>2. \A a \in ListedIn(m_sessions) : sess'[m_sessions[a]].account = a
      BY <1>1, <1>6, Containers DEF Structure, Placed, Touches
    <2> QED
      BY <1>1, <1>2, <1>3, <2>1, <2>2 DEF Structure, Placed
  <1>10. LineSound'
    <2>1. DOMAIN m_QueuedPlayer' = {} /\ Len(m_QueuedPlayer') = 0
      BY <1>2
    <2> QED
      BY <1>2, <1>3, <1>6, <2>1 DEF LineSound, PositionsTold, IsInjective
  <1>11. Fresh'
    BY <1>1, <1>3, <1>4, Containers DEF Fresh, Structure, Placed
  <1>12. LoopPlace' /\ Kicked'
    BY <1>1, <1>2, <1>3, <1>6, Containers DEF LoopPlace, Kicked
  <1> QED
    BY <1>8, <1>9, <1>10, <1>11, <1>12 DEF SessionsInv, Structure, Places

\* A network thread makes a session where none is, and hands it over.
LEMMA AuthKeeps ==
  ASSUME SessionsInv, NEW s \in Session, NEW a \in Account, AuthSession(s, a)
  PROVE  SessionsInv'
  <1>1. TypeOK /\ Structure /\ Fresh /\ LoopPlace /\ Kicked
    BY DEF SessionsInv, Places
  <1>2. /\ UNCHANGED <<m_sessions, m_QueuedPlayer, m_disconnects,
                       m_playerLimit, logins, phase, todo, cur, stopping>>
        /\ sess[s] = NULL /\ sess' = [sess EXCEPT ![s] = NewSession(a)]
        /\ addSessQueue' = Append(addSessQueue, s)
    BY DEF AuthSession, queueVars, loopVars
  <1>3. NewSession(a) \in SessionRec /\ NewSession(a) # NULL
          /\ ~NewSession(a).inQueue /\ NewSession(a).players = 0
    <2>1. NewSession(a) \in SessionRec
      <3>1. FALSE \in BOOLEAN /\ 0 \in Nat
        OBVIOUS
      <3>2. 0 \in 0..2
        OBVIOUS
      <3> QED
        BY <3>1, <3>2, ZenonT(60) DEF NewSession, SessionRec
    <2>2. ~NewSession(a).inQueue /\ NewSession(a).players = 0
      BY DEF NewSession
    <2> QED
      BY <2>1, <2>2
  <1>4. /\ sess' \in Heap /\ sess'[s] = NewSession(a)
        /\ \A x \in Session \ {s} : sess'[x] = sess[x]
    BY <1>1, <1>2, <1>3, Containers, HeapChange
  <1>5. s \notin Listed /\ s \notin Pending
    BY <1>1, <1>2 DEF Structure, Placed
  <1>6. /\ addSessQueue' \in Seq(Session) /\ Pending' = Pending \cup {s}
        /\ IsInjective(addSessQueue')
    <2> DEFINE q == addSessQueue
    <2>1. /\ q \in Seq(Session) /\ Len(q) \in Nat /\ DOMAIN q = 1..Len(q)
          /\ IsInjective(q) /\ Pending = ToSet(q)
      BY <1>1, Containers, LenProperties DEF Structure, Placed, Pending
    <2>2. /\ Append(q, s) \in Seq(Session)
          /\ Len(Append(q, s)) = Len(q) + 1
          /\ \A i \in 1..Len(q) : Append(q, s)[i] = q[i]
          /\ Append(q, s)[Len(q) + 1] = s
      BY <2>1, AppendProperties
    <2> DEFINE r == Append(q, s)
    <2> HIDE DEF r
    <2>3. DOMAIN r = 1..(Len(q) + 1)
      BY <2>2, LenProperties DEF r
    <2>4. ToSet(r) = ToSet(q) \cup {s}
      BY <2>1, <2>2, <2>3 DEF ToSet, r
    <2>5. \A i \in 1..Len(q) : q[i] # s
      BY <1>5, <2>1 DEF ToSet
    <2>6. IsInjective(r)
      BY <2>1, <2>2, <2>3, <2>5 DEF IsInjective, r
    <2> QED
      BY <1>2, <2>1, <2>2, <2>4, <2>6 DEF Pending, r
  <1>7. Listed' = Listed /\ Waiting' = Waiting
          /\ ListedIn(m_sessions)' = ListedIn(m_sessions)
    BY <1>2 DEF Listed, Waiting
  <1>8. \A x \in Listed : x \in Session /\ sess'[x] = sess[x]
    BY <1>1, <1>4, <1>5, Containers
  <1>9. TypeOK'
    BY <1>1, <1>2, <1>4, <1>6 DEF TypeOK, Heap
  <1>10. Placed'
    BY <1>1, <1>2, <1>3, <1>4, <1>5, <1>6, <1>7, <1>8, Containers
       DEF Structure, Placed
  <1>11. LineSound'
    BY <1>1, <1>2, <1>7, <1>8, Containers
       DEF Structure, LineSound, PositionsTold
  <1>12. Fresh'
    BY <1>1, <1>3, <1>4, <1>5, <1>6, Containers DEF Fresh
  <1>13. LoopPlace' /\ Kicked'
    BY <1>1, <1>2, <1>7, <1>8, Containers DEF LoopPlace, Kicked
  <1> QED
    BY <1>9, <1>10, <1>11, <1>12, <1>13 DEF SessionsInv, Structure, Places

----------------------------------------------------------------------------
(* Steps that list a session or delete one.                                *)

\* What is left of the sessions is as sound as it was.
LEMMA LeftSound ==
  ASSUME SessionsInv, NEW heap, NEW q, NEW gone \in SUBSET Listed,
         Left(heap, q, gone)
  PROVE  /\ \A x \in Session \ gone :
              /\ heap[x] = NULL <=> sess[x] = NULL
              /\ sess[x] # NULL => /\ heap[x].account = sess[x].account
                                   /\ heap[x].players = sess[x].players
                                   /\ heap[x].closed = sess[x].closed
                                   /\ heap[x].exempt = sess[x].exempt
         /\ \A x \in Listed \ gone :
              /\ heap[x].inQueue <=>
                    \/ x \in ToSet(q)
                    \/ stopping /\ heap[x].inQueue /\ heap[x].closed
              /\ x \notin ToSet(q) => heap[x].told = 0 \/ stopping
         /\ \A x \in Pending : heap[x] = sess[x]
  <1>1. TypeOK /\ Placed /\ LineSound
    BY DEF SessionsInv, Structure
  <1>2. /\ Waiting \subseteq Listed /\ Listed \subseteq Session
        /\ Pending \subseteq Session /\ Listed \cap Pending = {}
        /\ \A x \in Listed : sess[x] # NULL
        /\ \A x \in Waiting \ gone : SameBut(heap[x], sess[x])
        /\ \A x \in Session \ (gone \cup Waiting) : heap[x] = sess[x]
    BY <1>1, Containers DEF LineSound, Placed, Left
  <1>3. ASSUME NEW x \in Session \ gone
        PROVE  /\ heap[x] = NULL <=> sess[x] = NULL
               /\ sess[x] # NULL => /\ heap[x].account = sess[x].account
                                    /\ heap[x].players = sess[x].players
                                    /\ heap[x].closed = sess[x].closed
                                    /\ heap[x].exempt = sess[x].exempt
    <2>1. CASE x \in Waiting
      BY <1>2, <2>1 DEF SameBut
    <2>2. CASE x \notin Waiting
      BY <1>2, <2>2
    <2> QED
      BY <2>1, <2>2
  <1>4. ASSUME NEW x \in Listed \ gone
        PROVE  /\ heap[x].inQueue <=>
                     \/ x \in ToSet(q)
                     \/ stopping /\ heap[x].inQueue /\ heap[x].closed
               /\ x \notin ToSet(q) => heap[x].told = 0 \/ stopping
    <2>1. CASE x \in Waiting
      BY <2>1 DEF Left
    <2>2. CASE x \notin Waiting
      <3>1. heap[x] = sess[x] /\ x \notin ToSet(q)
        BY <1>2, <2>2 DEF Left
      <3>2. sess[x].inQueue <=> stopping /\ sess[x].inQueue /\ sess[x].closed
        BY <1>1, <2>2 DEF LineSound
      <3>3. sess[x].told = 0 \/ stopping
        BY <1>1, <2>2 DEF LineSound, PositionsTold
      <3> QED
        BY <3>1, <3>2, <3>3
    <2> QED
      BY <2>1, <2>2
  <1> QED
    BY <1>2, <1>3, <1>4

\* When nobody goes, all is left.
LEMMA LeftAll ==
  ASSUME SessionsInv
  PROVE  Left(sess, m_QueuedPlayer, {})
  <1>1. TypeOK /\ Placed /\ LineSound
    BY DEF SessionsInv, Structure
  <1>2. \A x \in Waiting : sess[x] \in SessionRec /\ sess[x].inQueue
    BY <1>1, OneAccount DEF LineSound
  <1> QED
    BY <1>1, <1>2, Containers
       DEF Left, SameBut, LineSound, PositionsTold, Waiting

\* When a listed session goes, this is what is left.
LEMMA LeftOthers ==
  ASSUME SessionsInv, NEW s \in Listed
  PROVE  Left(Delete(HeapAfter(m_QueuedPlayer, s), s),
              QueueAfter(m_QueuedPlayer, s), {s})
  <1>1. TypeOK /\ Placed /\ LineSound
    BY DEF SessionsInv, Structure
  <1>2. \A x \in Waiting : sess[x] # NULL /\ sess[x].inQueue
    BY <1>1, Containers DEF LineSound, Placed
  <1>3. s \in Session /\ sess[s] # NULL
    BY <1>1, Containers DEF Placed
  <1>4. \A i \in 1..Len(m_QueuedPlayer) : sess[m_QueuedPlayer[i]].told = i
    BY <1>1 DEF LineSound, PositionsTold
  <1> QED
    BY <1>1, <1>2, <1>3, <1>4, RemovedSound DEF LineSound

\* The main thread takes the first session that was handed over.
LEMMA FirstPending ==
  ASSUME SessionsInv, addSessQueue # <<>>
  PROVE  LET s == Head(addSessQueue)
         IN  /\ s \in Pending /\ s \in Session /\ sess[s] \in SessionRec
             /\ sess[s] # NULL /\ s \notin Listed /\ s \notin Waiting
             /\ sess[s].account \in Account
             /\ ~sess[s].inQueue /\ sess[s].players = 0
             /\ Tail(addSessQueue) \in Seq(Session)
             /\ IsInjective(Tail(addSessQueue))
             /\ ToSet(Tail(addSessQueue)) = Pending \ {s}
  <1>1. TypeOK /\ Placed /\ LineSound /\ Fresh
    BY DEF SessionsInv, Structure, Places
  <1>2. addSessQueue \in Seq(Session) /\ IsInjective(addSessQueue)
    BY <1>1 DEF TypeOK, Placed
  <1>3. /\ Tail(addSessQueue) \in Seq(Session)
        /\ IsInjective(Tail(addSessQueue))
        /\ Head(addSessQueue) \in Pending
        /\ ToSet(Tail(addSessQueue)) = Pending \ {Head(addSessQueue)}
    BY <1>2, TailSound DEF Pending
  <1>4. \A x \in Pending : x \in Session /\ x \notin Listed /\ x \notin Waiting
    BY <1>1, Containers DEF Placed, LineSound
  <1>5. \A x \in Pending : sess[x] \in SessionRec /\ sess[x] # NULL
    BY <1>1, <1>4, OneAccount DEF Placed
  <1>6. \A r \in SessionRec : r.account \in Account
    BY DEF SessionRec
  <1> QED
    BY <1>1, <1>3, <1>4, <1>5, <1>6 DEF Fresh

\* AddSession_ turns a newcomer away.
LEMMA RejectKeeps ==
  ASSUME SessionsInv, phase = "accept", addSessQueue # <<>>,
         addSessQueue' = Tail(addSessQueue),
         sess' = Delete(sess, Head(addSessQueue)),
         UNCHANGED <<queueVars, m_playerLimit, logins, loopVars>>
  PROVE  SessionsInv'
  <1> DEFINE s == Head(addSessQueue)
  <1>1. TypeOK /\ Placed /\ LineSound /\ Fresh /\ LoopPlace /\ Kicked
    BY DEF SessionsInv, Structure, Places
  <1>2. /\ s \in Pending /\ s \in Session /\ s \notin Listed
        /\ addSessQueue' \in Seq(Session) /\ IsInjective(addSessQueue')
        /\ Pending' = Pending \ {s}
    BY FirstPending DEF Pending
  <1>3. UNCHANGED <<m_sessions, m_QueuedPlayer, m_disconnects, m_playerLimit,
                    logins, phase, todo, cur, stopping>>
    BY DEF queueVars, loopVars
  <1>4. sess' = [sess EXCEPT ![s] = NULL]
    BY DEF Delete
  <1> HIDE DEF s
  <1>5. /\ sess' \in Heap /\ sess'[s] = NULL
        /\ \A x \in Session \ {s} : sess'[x] = sess[x]
    BY <1>1, <1>2, <1>4, Containers, HeapChange
  <1>6. Listed' = Listed /\ Waiting' = Waiting
          /\ ListedIn(m_sessions)' = ListedIn(m_sessions)
    BY <1>3 DEF Listed, Waiting
  <1>7. \A x \in Listed : x \in Session /\ sess'[x] = sess[x]
    BY <1>1, <1>2, <1>5, Containers
  <1>8. TypeOK'
    BY <1>1, <1>2, <1>3, <1>5 DEF TypeOK, Heap
  <1>9. Placed'
    BY <1>1, <1>2, <1>3, <1>5, <1>6, <1>7, Containers DEF Placed
  <1>10. LineSound'
    BY <1>1, <1>3, <1>6, <1>7, Containers DEF LineSound, PositionsTold
  <1>11. Fresh'
    BY <1>1, <1>2, <1>5, Containers DEF Fresh
  <1>12. LoopPlace' /\ Kicked'
    BY <1>1, <1>3, <1>6, <1>7, Containers DEF LoopPlace, Kicked
  <1> QED
    BY <1>8, <1>9, <1>10, <1>11, <1>12 DEF SessionsInv, Structure, Places

\* The newcomer as it is listed: it waits at the end of the queue, or is in.
Joins(q, s, n) ==
    /\ n \in SessionRec /\ n.account = sess[s].account /\ n.players = 0
    /\ \/ m_QueuedPlayer' = Append(q, s) /\ n.inQueue /\ n.told = Len(q) + 1
       \/ m_QueuedPlayer' = q /\ ~n.inQueue /\ n.told = 0

\* A newcomer put behind the queue or let in (the end of World::AddSession_)
\* joins it in one of these two ways.
LEMMA JoinKinds ==
  ASSUME NEW heap \in Heap, NEW q \in Seq(Session), NEW s \in Session,
         heap[s] = sess[s], sess[s] \in SessionRec, ~sess[s].inQueue,
         sess[s].players = 0,
         Enqueue(heap, q, s) \/ \E n \in Int : Enter(heap, q, s, n)
  PROVE  \E n : Joins(q, s, n) /\ sess' = [heap EXCEPT ![s] = n]
  <1> DEFINE o == sess[s]
  <1>1. Len(q) + 1 \in Nat
    BY LenProperties
  <1>2. CASE Enqueue(heap, q, s)
    <2> DEFINE n == [o EXCEPT !.inQueue = TRUE, !.told = Len(q) + 1]
    <2>1. sess' = [heap EXCEPT ![s] = n] /\ m_QueuedPlayer' = Append(q, s)
      BY <1>2 DEF Enqueue, Heap
    <2>2. /\ n \in SessionRec /\ n.account = o.account /\ n.players = o.players
          /\ n.inQueue /\ n.told = Len(q) + 1
      BY <1>1 DEF SessionRec
    <2> HIDE DEF n
    <2>3. Joins(q, s, n)
      BY <2>1, <2>2 DEF Joins
    <2> QED
      BY <2>1, <2>3
  <1>3. CASE \E k \in Int : Enter(heap, q, s, k)
    <2>1. PICK k \in Int : Enter(heap, q, s, k)
      BY <1>3
    <2> DEFINE e == /\ m_playerLimit > 0
                    /\ k >= m_playerLimit
                    /\ sess[s].account \notin GMs
                    /\ HasRecentlyDisconnected(sess[s].account)
               n == [o EXCEPT !.told = 0, !.exempt = e]
    <2>2. sess' = [heap EXCEPT ![s] = n] /\ m_QueuedPlayer' = q
      BY <2>1 DEF Enter, Heap
    <2>3. e \in BOOLEAN
      OBVIOUS
    <2> HIDE DEF e
    <2>4. /\ n \in SessionRec /\ n.account = o.account /\ n.players = o.players
          /\ n.inQueue = o.inQueue /\ n.told = 0
      BY <2>3 DEF SessionRec
    <2> HIDE DEF n
    <2>5. Joins(q, s, n)
      BY <2>2, <2>4 DEF Joins
    <2> QED
      BY <2>2, <2>5
  <1> QED
    BY <1>2, <1>3

\* What ListSession does to the heap, the queue and the table.
Lists(s, old) ==
    \E heap, q, n :
        /\ Left(heap, q, {old} \ {NULL}) /\ Joins(q, s, n)
        /\ sess' = [heap EXCEPT ![s] = n]
        /\ m_sessions' = [m_sessions EXCEPT ![sess[s].account] = s]
        /\ m_disconnects' = m_disconnects

\* It does, with and without an older session.
LEMMA ListSteps ==
  ASSUME SessionsInv, phase = "accept", addSessQueue # <<>>,
         NEW s, s = Head(addSessQueue), NEW old,
         old = m_sessions[sess[s].account], ListSession(s, old)
  PROVE  Lists(s, old)
  <1> DEFINE a == sess[s].account
             heap == IF old = NULL THEN sess
                     ELSE Delete(HeapAfter(m_QueuedPlayer, old), old)
             q == IF old = NULL THEN m_QueuedPlayer
                  ELSE QueueAfter(m_QueuedPlayer, old)
             k == CountedSessions(a, s, old)
  <1>1. /\ s \in Session /\ s \notin Listed /\ s \notin Waiting
        /\ sess[s] \in SessionRec /\ a \in Account
        /\ ~sess[s].inQueue /\ sess[s].players = 0
    BY FirstPending
  <1>2. TypeOK /\ Placed /\ LineSound
    BY DEF SessionsInv, Structure
  <1>3. old # NULL => old \in Listed
    BY <1>1 DEF Listed, ListedIn
  <1>4. Left(heap, q, {old} \ {NULL})
    <2>1. CASE old = NULL
      BY <2>1, LeftAll
    <2>2. CASE old # NULL
      BY <1>3, <2>2, LeftOthers
    <2> QED
      BY <2>1, <2>2
  <1>5. /\ Enqueue(heap, q, s) \/ Enter(heap, q, s, k)
        /\ m_sessions' = [m_sessions EXCEPT ![a] = s]
        /\ m_disconnects' = m_disconnects
    BY DEF ListSession
  <1>6. k \in Int
    <2>1. IsFiniteSet(ListedIn([m_sessions EXCEPT ![a] = s]))
      BY FS_Subset DEF ListedIn
    <2> QED
      BY <2>1, FS_CardinalityType DEF CountedSessions, NumSessions
  <1> HIDE DEF heap, q, k
  <1>7. heap[s] = sess[s] /\ heap \in Heap /\ q \in Seq(Session)
    BY <1>1, <1>3, <1>4 DEF Left
  <1>8. \E n : Joins(q, s, n) /\ sess' = [heap EXCEPT ![s] = n]
    BY <1>1, <1>5, <1>6, <1>7, JoinKinds
  <1> QED
    BY ONLY <1>4, <1>5, <1>8 DEF Lists

\* A newcomer joins a queue.
LEMMA JoinedQueue ==
  ASSUME NEW q \in Seq(Session), IsInjective(q), NEW s \in Session,
         s \notin ToSet(q), NEW n, Joins(q, s, n)
  PROVE  /\ m_QueuedPlayer' \in Seq(Session) /\ IsInjective(m_QueuedPlayer')
         /\ Waiting' = ToSet(q) \cup (IF n.inQueue THEN {s} ELSE {})
         /\ \A i \in 1..Len(m_QueuedPlayer') :
               \/ i \in 1..Len(q) /\ m_QueuedPlayer'[i] = q[i] /\ q[i] # s
               \/ i = Len(q) + 1 /\ m_QueuedPlayer'[i] = s /\ n.told = i
  <1>1. /\ Len(q) \in Nat /\ DOMAIN q = 1..Len(q)
        /\ \A i \in 1..Len(q) : q[i] # s
    BY LenProperties DEF ToSet
  <1>2. CASE m_QueuedPlayer' = Append(q, s) /\ n.inQueue /\ n.told = Len(q) + 1
    <2> DEFINE r == m_QueuedPlayer'
    <2>1. /\ r \in Seq(Session) /\ Len(r) = Len(q) + 1
          /\ \A i \in 1..Len(q) : r[i] = q[i]
          /\ r[Len(q) + 1] = s
      BY <1>2, AppendProperties
    <2>2. DOMAIN r = 1..(Len(q) + 1)
      BY <2>1, LenProperties
    <2> HIDE DEF r
    <2>3. ToSet(r) = ToSet(q) \cup {s}
      BY <1>1, <2>1, <2>2 DEF ToSet
    <2>4. IsInjective(r)
      BY <1>1, <2>1, <2>2 DEF IsInjective
    <2>5. \A i \in 1..Len(r) :
             \/ i \in 1..Len(q) /\ r[i] = q[i] /\ q[i] # s
             \/ i = Len(q) + 1 /\ r[i] = s /\ n.told = i
      BY <1>1, <1>2, <2>1
    <2> QED
      BY <1>2, <2>1, <2>3, <2>4, <2>5 DEF r, Waiting
  <1>3. CASE m_QueuedPlayer' = q /\ ~n.inQueue
    BY <1>1, <1>3 DEF Waiting
  <1> QED
    BY <1>2, <1>3 DEF Joins

\* AddSession_ lists a newcomer, in the place of an older session or not.
LEMMA ListKeeps ==
  ASSUME SessionsInv, phase = "accept", addSessQueue # <<>>,
         addSessQueue' = Tail(addSessQueue),
         UNCHANGED <<m_playerLimit, logins, loopVars>>,
         NEW s, s = Head(addSessQueue), NEW old,
         old = m_sessions[sess[s].account], ListSession(s, old)
  PROVE  SessionsInv'
  <1> DEFINE a == sess[s].account
             gone == {old} \ {NULL}
  <1>1. TypeOK /\ Placed /\ LineSound /\ Fresh /\ LoopPlace /\ Kicked
    BY DEF SessionsInv, Structure, Places
  <1>2. /\ s \in Pending /\ s \in Session /\ s \notin Listed
        /\ sess[s] # NULL /\ s # NULL
        /\ s \notin Waiting /\ sess[s] \in SessionRec /\ a \in Account
        /\ addSessQueue' \in Seq(Session) /\ IsInjective(addSessQueue')
        /\ Pending' = Pending \ {s}
    <2>1. /\ s \in Pending /\ s \in Session /\ s \notin Listed
          /\ sess[s] # NULL /\ s \notin Waiting /\ sess[s] \in SessionRec
          /\ a \in Account
          /\ Tail(addSessQueue) \in Seq(Session)
          /\ IsInjective(Tail(addSessQueue))
          /\ ToSet(Tail(addSessQueue)) = Pending \ {s}
      BY FirstPending
    <2>2. s # NULL
      BY ONLY <2>1, WorldSessionsAssumption DEF WorldSessionsAssumption
    <2>3. Pending' = Pending \ {s}
      BY ONLY <2>1, addSessQueue' = Tail(addSessQueue) DEF Pending
    <2> QED
      BY ONLY <2>1, <2>2, <2>3, addSessQueue' = Tail(addSessQueue)
  <1>3. PICK heap, q, n :
            /\ Left(heap, q, gone) /\ Joins(q, s, n)
            /\ sess' = [heap EXCEPT ![s] = n]
            /\ m_sessions' = [m_sessions EXCEPT ![a] = s]
            /\ m_disconnects' = m_disconnects
    <2>1. Lists(s, old)
      BY ListSteps
    <2> QED
      BY ONLY <2>1 DEF Lists
  <1>4. UNCHANGED <<m_playerLimit, logins, phase, todo, cur, stopping>>
    BY DEF loopVars
  <1>5. /\ gone \subseteq Listed /\ ListedIn(m_sessions) \subseteq Account
        /\ \A b \in ListedIn(m_sessions) : m_sessions[b] \in gone <=> b = a
    BY <1>1, <1>2, OneAccount DEF Listed, ListedIn
  <1> HIDE DEF a, gone
  <1>6. /\ heap \in Heap /\ q \in Seq(Session) /\ IsInjective(q)
        /\ ToSet(q) \subseteq Waiting \ gone
        /\ \A x \in gone : heap[x] = NULL
        /\ \A i \in 1..Len(q) : heap[q[i]].told = i /\ q[i] \in ToSet(q)
    BY <1>3, InQueue DEF Left
  <1>7. n \in SessionRec /\ n # NULL /\ n.account = a /\ n.players = 0
    BY <1>3 DEF Joins, a
  <1>8. /\ sess' \in Heap /\ sess'[s] = n
        /\ \A x \in Session \ {s} : sess'[x] = heap[x]
    <2>1. LET new == [heap EXCEPT ![s] = n]
          IN  new \in Heap /\ new[s] = n
                /\ \A x \in Session \ {s} : new[x] = heap[x]
      BY ONLY <1>2, <1>6, <1>7, HeapChange
    <2> QED
      BY <1>3, <2>1
  <1>9. /\ m_QueuedPlayer' \in Seq(Session) /\ IsInjective(m_QueuedPlayer')
        /\ Waiting' = ToSet(q) \cup (IF n.inQueue THEN {s} ELSE {})
        /\ \A i \in 1..Len(m_QueuedPlayer') :
              \/ i \in 1..Len(q) /\ m_QueuedPlayer'[i] = q[i] /\ q[i] # s
              \/ i = Len(q) + 1 /\ m_QueuedPlayer'[i] = s /\ n.told = i
    <2>1. s \notin ToSet(q)
      BY <1>2, <1>6
    <2> QED
      BY <1>2, <1>3, <1>6, <2>1, JoinedQueue
  <1>10. /\ m_sessions' \in [Account -> Session \cup {NULL}]
         /\ m_sessions'[a] = s
         /\ \A b \in Account \ {a} : m_sessions'[b] = m_sessions[b]
    BY <1>1, <1>2, <1>3 DEF TypeOK, a
  <1>11. /\ ListedIn(m_sessions)' = ListedIn(m_sessions) \cup {a}
         /\ Listed' = (Listed \ gone) \cup {s}
    <2>1. ListedIn(m_sessions)' = ListedIn(m_sessions) \cup {a}
      BY <1>2, <1>10 DEF ListedIn, a
    <2>2. Listed' = {m_sessions'[b] : b \in ListedIn(m_sessions) \cup {a}}
      BY <2>1 DEF Listed
    <2>3. \A b \in ListedIn(m_sessions) : b # a =>
            m_sessions'[b] = m_sessions[b]
      BY <1>5, <1>10
    <2>4. \A x \in Listed \ gone :
            \E b \in ListedIn(m_sessions) : b # a /\ m_sessions[b] = x
      BY <1>5 DEF Listed
    <2>5. \A b \in ListedIn(m_sessions) : b # a =>
            m_sessions[b] \in Listed \ gone
      BY <1>5 DEF Listed
    <2> QED
      BY <1>10, <2>1, <2>2, <2>3, <2>4, <2>5
  <1>12. /\ \A x \in Session \ gone :
              /\ heap[x] = NULL <=> sess[x] = NULL
              /\ sess[x] # NULL => /\ heap[x].account = sess[x].account
                                   /\ heap[x].players = sess[x].players
                                   /\ heap[x].closed = sess[x].closed
         /\ \A x \in Listed \ gone :
              /\ heap[x].inQueue <=>
                    \/ x \in ToSet(q)
                    \/ stopping /\ heap[x].inQueue /\ heap[x].closed
              /\ x \notin ToSet(q) => heap[x].told = 0 \/ stopping
         /\ \A x \in Pending : heap[x] = sess[x]
    BY <1>3, <1>5, LeftSound
  <1>13. /\ Listed \subseteq Session /\ Pending \subseteq Session
         /\ Waiting \subseteq Listed /\ Listed \cap Pending = {}
    BY <1>1, Containers DEF Placed, LineSound
  <1>14. TypeOK'
    BY <1>1, <1>2, <1>3, <1>4, <1>8, <1>9, <1>10 DEF TypeOK, Heap
  <1>15. Placed'
    <2>1. \A x \in Session : sess'[x] # NULL <=> x \in Listed' \cup Pending'
      BY <1>1, <1>2, <1>5, <1>6, <1>7, <1>8, <1>11, <1>12, <1>13 DEF Placed
    <2>2. \A b \in ListedIn(m_sessions)' : sess'[m_sessions'[b]].account = b
      <3> SUFFICES ASSUME NEW b \in ListedIn(m_sessions)
                   PROVE  b # a => sess'[m_sessions'[b]].account = b
        BY <1>7, <1>8, <1>10, <1>11
      <3>1. b # a => /\ m_sessions'[b] = m_sessions[b]
                     /\ m_sessions[b] \in Listed \ gone
        BY <1>5, <1>10 DEF Listed
      <3>2. sess[m_sessions[b]].account = b /\ sess[m_sessions[b]] # NULL
        BY <1>1, Containers DEF Placed
      <3> QED
        BY <1>2, <1>8, <1>12, <1>13, <3>1, <3>2
    <2>3. Listed' \cap Pending' = {}
      BY <1>2, <1>11, <1>13
    <2> QED
      BY <1>2, <2>1, <2>2, <2>3 DEF Placed
  <1>16. LineSound'
    <2>1. Waiting' \subseteq Listed'
      BY <1>6, <1>9, <1>11, <1>13
    <2>2. \A x \in Listed' : sess'[x].inQueue <=>
             \/ x \in Waiting'
             \/ stopping' /\ sess'[x].inQueue /\ sess'[x].closed
      <3> SUFFICES ASSUME NEW x \in Listed'
                   PROVE  sess'[x].inQueue <=>
                            \/ x \in Waiting'
                            \/ stopping /\ sess'[x].inQueue /\ sess'[x].closed
        BY <1>4
      <3>1. CASE x = s
        BY <1>2, <1>6, <1>8, <1>9, <3>1
      <3>2. CASE x # s
        <4>1. x \in Listed \ gone /\ sess'[x] = heap[x]
          BY <1>8, <1>11, <1>13, <3>2
        <4>2. x \in Waiting' <=> x \in ToSet(q)
          BY <1>9, <3>2
        <4> QED
          BY <1>12, <4>1, <4>2
      <3> QED
        BY <3>1, <3>2
    <2>3. PositionsTold'
      <3>1. ASSUME NEW i \in 1..Len(m_QueuedPlayer')
            PROVE  sess'[m_QueuedPlayer'[i]].told = i
        BY <1>6, <1>8, <1>9, <1>13
      <3>2. ASSUME NEW x \in Listed' \ Waiting'
            PROVE  sess'[x].told = 0 \/ stopping'
        <4>1. CASE x = s
          BY <1>3, <1>8, <1>9, <3>2, <4>1 DEF Joins
        <4>2. CASE x # s
          BY <1>4, <1>8, <1>9, <1>11, <1>12, <1>13, <3>2, <4>2
        <4> QED
          BY <4>1, <4>2
      <3> QED
        BY <3>1, <3>2 DEF PositionsTold
    <2> QED
      BY <1>9, <2>1, <2>2, <2>3 DEF LineSound
  <1>17. Fresh'
    BY <1>1, <1>2, <1>8, <1>12, <1>13 DEF Fresh
  <1>18. LoopPlace'
    BY <1>1, <1>4, <1>11 DEF LoopPlace
  <1>19. Kicked'
    <2>1. ASSUME stopping, NEW b \in ListedIn(m_sessions)',
                 sess'[m_sessions'[b]].players > 0
          PROVE  sess'[m_sessions'[b]].closed
      <3>1. b # a /\ b \in ListedIn(m_sessions)
        BY <1>7, <1>8, <1>10, <1>11, <2>1
      <3>2. m_sessions'[b] = m_sessions[b] /\ m_sessions[b] \in Listed \ gone
        BY <1>5, <1>10, <3>1 DEF Listed
      <3>3. sess[m_sessions[b]] # NULL
        BY <1>1, <1>13, <3>2 DEF Placed
      <3> QED
        BY <1>1, <1>2, <1>8, <1>12, <1>13, <2>1, <3>1, <3>2, <3>3 DEF Kicked
    <2> QED
      BY <1>1, <1>4, <2>1 DEF Kicked
  <1> QED
    BY <1>14, <1>15, <1>16, <1>17, <1>18, <1>19
       DEF SessionsInv, Structure, Places

\* UpdateSessions lets the session it has updated go on, or takes it out of
\* the queue and the table and deletes it.
LEMMA EndKeeps ==
  ASSUME SessionsInv, EndUpdate
  PROVE  SessionsInv'
  <1> DEFINE s == m_sessions[cur]
             heap == Delete(HeapAfter(m_QueuedPlayer, s), s)
             q == QueueAfter(m_QueuedPlayer, s)
  <1>1. TypeOK /\ Placed /\ LineSound /\ Fresh /\ LoopPlace /\ Kicked
    BY DEF SessionsInv, Structure, Places
  <1>2. /\ UNCHANGED <<addSessQueue, m_playerLimit, logins, phase, todo,
                       stopping>>
        /\ phase = "update" /\ cur' = NULL
    BY DEF EndUpdate
  <1>3. /\ cur \in ListedIn(m_sessions) /\ cur \in Account /\ cur \notin todo
        /\ s \in Session /\ s \in Listed /\ s # NULL
        /\ \A b \in ListedIn(m_sessions) : m_sessions[b] = s <=> b = cur
    BY <1>1, ListedSession DEF EndUpdate, LoopPlace, ListedIn
  <1>4. Pending' = Pending
    BY <1>2 DEF Pending
  <1>5. CASE sess[s].closed
    <2>1. /\ m_QueuedPlayer' = q /\ sess' = heap
          /\ m_sessions' = [m_sessions EXCEPT ![cur] = NULL]
          /\ m_disconnects' \in [Account -> {"never", "recent", "old"}]
      BY <1>1, <1>3, <1>5 DEF EndUpdate, TypeOK
    <2>2. Left(heap, q, {s})
      BY <1>3, LeftOthers
    <2> HIDE DEF s, heap, q
    <2>3. /\ sess' \in Heap /\ q \in Seq(Session) /\ IsInjective(q)
          /\ ToSet(q) \subseteq Waiting \ {s} /\ sess'[s] = NULL
          /\ \A i \in 1..Len(q) : sess'[q[i]].told = i
      BY <2>1, <2>2 DEF Left
    <2>4. /\ \A x \in Session \ {s} :
               /\ sess'[x] = NULL <=> sess[x] = NULL
               /\ sess[x] # NULL => /\ sess'[x].account = sess[x].account
                                    /\ sess'[x].players = sess[x].players
                                    /\ sess'[x].closed = sess[x].closed
          /\ \A x \in Listed \ {s} :
               /\ sess'[x].inQueue <=>
                     \/ x \in ToSet(q)
                     \/ stopping /\ sess'[x].inQueue /\ sess'[x].closed
               /\ x \notin ToSet(q) => sess'[x].told = 0 \/ stopping
          /\ \A x \in Pending : sess'[x] = sess[x]
      <3>1. {s} \in SUBSET Listed
        BY <1>3
      <3> QED
        BY <2>1, <2>2, <3>1, LeftSound
    <2>5. /\ m_sessions' \in [Account -> Session \cup {NULL}]
          /\ m_sessions'[cur] = NULL
          /\ \A b \in Account \ {cur} : m_sessions'[b] = m_sessions[b]
      BY <1>1, <1>3, <2>1 DEF TypeOK
    <2>6. /\ ListedIn(m_sessions)' = ListedIn(m_sessions) \ {cur}
          /\ Listed' = Listed \ {s} /\ Waiting' = ToSet(q)
      <3>1. ListedIn(m_sessions)' = ListedIn(m_sessions) \ {cur}
        BY <2>5 DEF ListedIn
      <3>2. \A b \in ListedIn(m_sessions) \ {cur} :
              m_sessions'[b] = m_sessions[b]
        BY <2>5 DEF ListedIn
      <3>3. Listed' = {m_sessions'[b] : b \in ListedIn(m_sessions) \ {cur}}
        BY <3>1 DEF Listed
      <3>4. \A x \in Listed \ {s} :
              \E b \in ListedIn(m_sessions) \ {cur} : m_sessions[b] = x
        BY <1>3 DEF Listed
      <3>5. \A b \in ListedIn(m_sessions) \ {cur} :
              m_sessions[b] \in Listed \ {s}
        BY <1>3 DEF Listed
      <3>6. Listed' \subseteq Listed \ {s}
        BY <3>2, <3>3, <3>5
      <3>7. \A x \in Listed \ {s} : x \in Listed'
        BY <3>2, <3>3, <3>4
      <3>8. Listed' = Listed \ {s}
        BY <3>6, <3>7
      <3>9. Waiting' = ToSet(q)
        BY <2>1 DEF Waiting
      <3> QED
        BY <3>1, <3>8, <3>9
    <2>7. /\ Listed \subseteq Session /\ Pending \subseteq Session
          /\ Waiting \subseteq Listed /\ Listed \cap Pending = {}
          /\ \A x \in Listed : sess[x] # NULL
      BY <1>1, Containers DEF Placed, LineSound
    <2>8. \A b \in ListedIn(m_sessions)' :
             /\ b \in ListedIn(m_sessions) /\ b # cur
             /\ m_sessions'[b] = m_sessions[b]
             /\ m_sessions[b] \in Listed \ {s}
      BY <1>3, <2>5, <2>6 DEF Listed, ListedIn
    <2>9. TypeOK'
      BY <1>1, <1>2, <2>1, <2>3, <2>5 DEF TypeOK, Heap
    <2>10. Placed'
      <3>1. \A x \in Session : sess'[x] # NULL <=> x \in Listed' \cup Pending'
        BY <1>1, <1>3, <1>4, <2>3, <2>4, <2>6, <2>7 DEF Placed
      <3>2. \A b \in ListedIn(m_sessions)' : sess'[m_sessions'[b]].account = b
        BY <1>1, <2>4, <2>7, <2>8 DEF Placed
      <3> QED
        BY <1>1, <1>2, <1>4, <2>6, <2>7, <3>1, <3>2 DEF Placed
    <2>11. LineSound'
      <3>1. PositionsTold'
        BY <1>2, <2>1, <2>3, <2>4, <2>6 DEF PositionsTold
      <3> QED
        BY <1>2, <2>1, <2>3, <2>4, <2>6, <2>7, <3>1 DEF LineSound
    <2>12. Fresh'
      BY <1>1, <1>4, <2>4 DEF Fresh
    <2>13. LoopPlace'
      BY <1>1, <1>2, <1>3, <2>6 DEF LoopPlace
    <2>14. Kicked'
      <3>1. ASSUME stopping, NEW b \in ListedIn(m_sessions)',
                   sess'[m_sessions'[b]].players > 0
            PROVE  sess'[m_sessions'[b]].closed /\ b \in todo
        BY <1>1, <1>2, <2>4, <2>7, <2>8, <3>1 DEF Kicked
      <3> QED
        BY <1>1, <1>2, <3>1 DEF Kicked
    <2> QED
      BY <2>9, <2>10, <2>11, <2>12, <2>13, <2>14
         DEF SessionsInv, Structure, Places
  <1>6. CASE ~sess[s].closed
    <2>1. UNCHANGED <<sess, m_sessions, m_QueuedPlayer, m_disconnects>>
      BY <1>6 DEF EndUpdate, queueVars
    <2>2. Listed' = Listed /\ Waiting' = Waiting
            /\ ListedIn(m_sessions)' = ListedIn(m_sessions)
      BY <2>1 DEF Listed, Waiting
    <2>3. Structure' /\ Fresh'
      BY <1>1, <1>2, <1>4, <2>1, <2>2
         DEF Structure, Placed, LineSound, PositionsTold, Fresh
    <2>4. TypeOK' /\ LoopPlace'
      BY <1>1, <1>2, <2>1, <2>2 DEF TypeOK, LoopPlace
    <2>5. Kicked'
      BY <1>1, <1>2, <1>6, <2>1, <2>2 DEF Kicked
    <2> QED
      BY <2>3, <2>4, <2>5 DEF SessionsInv, Places
  <1> QED
    BY <1>5, <1>6

\* Every step keeps the invariant.
LEMMA NextKeeps == SessionsInv /\ [Next]_vars => SessionsInv'
  <1> SUFFICES ASSUME SessionsInv, [Next]_vars PROVE SessionsInv'
    OBVIOUS
  <1>1. CASE Network
    BY <1>1, CloseKeeps, AuthKeeps DEF Network
  <1>2. CASE AddSession_
    <2> DEFINE s == Head(addSessQueue)
               old == m_sessions[sess[s].account]
    <2>1. /\ phase = "accept" /\ addSessQueue # <<>>
          /\ addSessQueue' = Tail(addSessQueue)
          /\ UNCHANGED <<m_playerLimit, logins, loopVars>>
          /\ RejectSession(s, old) \/ ListSession(s, old)
      BY <1>2 DEF AddSession_
    <2>2. CASE RejectSession(s, old)
      BY <2>1, <2>2, RejectKeeps DEF RejectSession
    <2>3. CASE ListSession(s, old)
      BY <2>1, <2>3, ListKeeps
    <2> QED
      BY <2>1, <2>2, <2>3
  <1>3. CASE AllAdded \/ AllUpdated \/ AllResults \/ NextTick
    BY <1>3, PhasesKeep
  <1>4. CASE \E a \in Account : BeginUpdate(a)
    BY <1>4, UpdateKeeps, PhasesKeep
  <1>5. CASE \/ HandlePlayerLoginOpcode \/ LogoutPlayer
             \/ \E a \in Account : KickPlayer(a)
    BY <1>5, UpdateKeeps
  <1>6. CASE EndUpdate
    BY <1>6, EndKeeps
  <1>7. CASE HandlePlayerLoginCallback
    BY <1>7, UpdateKeeps, PhasesKeep
  <1>8. CASE \E limit \in Limits : ReloadConfig(limit)
    BY <1>8, PhasesKeep
  <1>9. CASE KickAll
    BY <1>9, KickAllKeeps
  <1>10. CASE \E a \in Account : ToleranceElapses(a)
    BY <1>10, PhasesKeep
  <1>11. CASE Stopped \/ UNCHANGED vars
    BY <1>11, PhasesKeep DEF Stopped
  <1> QED
    BY <1>1, <1>2, <1>3, <1>4, <1>5, <1>6, <1>7, <1>8, <1>9, <1>10, <1>11
       DEF Next, MainThread

\* What the session table, the login queue and the iteration of
\* UpdateSessions promise each other holds in every state.
THEOREM SessionsInvariant == Spec => []SessionsInv
  BY InitSessions, NextKeeps, PTL DEF Spec

\* A WorldSession exists exactly as long as m_sessions or addSessQueue points
\* to it, whoever is replaced, turned away, closed or kicked, and none holds
\* a character when Master::Run goes on to unload the maps.
THEOREM TableIsSound == Spec => []TableSound
  <1>1. SessionsInv => TableSound
    <2> SUFFICES ASSUME SessionsInv PROVE TableSound
      OBVIOUS
    <2>1. TypeOK /\ Placed /\ LoopPlace /\ Kicked
      BY DEF SessionsInv, Structure, Places
    <2>2. ASSUME phase = "stopped", NEW s \in Listed
          PROVE  sess[s].players = 0
      <3>1. PICK a \in ListedIn(m_sessions) : m_sessions[a] = s
        BY DEF Listed
      <3>2. s \in Session /\ sess[s] \in SessionRec
        BY <2>1, <2>2, Containers, OneAccount
      <3>3. sess[s].players \in 0..2
        BY <3>2 DEF SessionRec
      <3>4. a # NULL
        BY DEF ListedIn
      <3>5. ~(sess[s].players > 0)
        BY <2>1, <2>2, <3>1, <3>4 DEF LoopPlace, Kicked
      <3> QED
        BY <3>3, <3>5
    <2> QED
      BY <2>1, <2>2 DEF TableSound, Placed
  <1> QED
    BY <1>1, SessionsInvariant, PTL

\* m_QueuedPlayer holds listed sessions, each once, and m_inQueue says so.
THEOREM QueueIsSound == Spec => []QueueSound
  <1>1. SessionsInv => QueueSound
    BY DEF SessionsInv, Structure, LineSound, QueueSound
  <1> QED
    BY <1>1, SessionsInvariant, PTL

\* RemoveQueuedPlayer and AddQueuedPlayer tell every client that waits its
\* position, although only those behind the gap are sent a new one.
THEOREM PositionsAreTold == Spec => []PositionsTold
  <1>1. SessionsInv => PositionsTold
    BY DEF SessionsInv, Structure, LineSound
  <1> QED
    BY <1>1, SessionsInvariant, PTL

----------------------------------------------------------------------------
(* The order of the queue.                                                 *)

\* What FirstComeFirstServed says of a step.
InTurn ==
    \A s, t \in Session :
        s \in Waiting \cap ToSet(m_QueuedPlayer') =>
          /\ t \in ToSet(m_QueuedPlayer') \ Waiting =>
                Before(m_QueuedPlayer', s, t)
          /\ Before(m_QueuedPlayer, s, t) =>
                t \in ToSet(m_QueuedPlayer') \/ sess'[t] = NULL
          /\ Before(m_QueuedPlayer, s, t) /\ t \in ToSet(m_QueuedPlayer') =>
                Before(m_QueuedPlayer', s, t)

\* Those who stay keep their order, and nobody who left was behind one of
\* them, unless it was deleted.
KeepsOrder(q, gone) ==
    /\ \A x \in ToSet(q) : \A y :
          Before(m_QueuedPlayer, x, y) => y \in ToSet(q) \cup gone
    /\ \A x, y \in ToSet(q) :
          Before(m_QueuedPlayer, x, y) => Before(q, x, y)

\* Then the step is in turn, whether somebody joins or not.
LEMMA OrderIsTurn ==
  ASSUME SessionsInv, NEW q \in Seq(Session), NEW gone, KeepsOrder(q, gone),
         ToSet(q) \subseteq Waiting, \A x \in gone : sess'[x] = NULL,
         NEW s \in Session \ Waiting,
         m_QueuedPlayer' = q \/ m_QueuedPlayer' = Append(q, s)
  PROVE  InTurn
  <1>1. CASE m_QueuedPlayer' = q
    BY <1>1 DEF InTurn, KeepsOrder
  <1>2. CASE m_QueuedPlayer' = Append(q, s)
    <2> DEFINE r == Append(q, s)
    <2>1. /\ r \in Seq(Session) /\ Len(r) = Len(q) + 1
          /\ \A i \in 1..Len(q) : r[i] = q[i]
          /\ r[Len(q) + 1] = s
      BY AppendProperties
    <2>2. DOMAIN r = 1..(Len(q) + 1) /\ DOMAIN q = 1..Len(q) /\ Len(q) \in Nat
      BY <2>1, LenProperties
    <2> HIDE DEF r
    <2>3. ToSet(r) = ToSet(q) \cup {s}
      BY <2>1, <2>2 DEF ToSet
    <2>4. \A x, y : Before(q, x, y) => Before(r, x, y)
      BY <2>1, <2>2 DEF Before
    <2>5. \A x \in ToSet(q) : Before(r, x, s)
      <3> SUFFICES ASSUME NEW i \in 1..Len(q)
                   PROVE  Before(r, q[i], s)
        BY <2>2 DEF ToSet
      <3>1. i \in 1..Len(r) /\ Len(q) + 1 \in 1..Len(r) /\ i < Len(q) + 1
        BY <2>1, <2>2
      <3>2. r[i] = q[i] /\ r[Len(q) + 1] = s
        BY <2>1
      <3> QED
        BY <3>1, <3>2 DEF Before
    <2>6. m_QueuedPlayer' = r
      BY <1>2 DEF r
    <2>7. \A x, y : Before(m_QueuedPlayer, x, y) => y \in Waiting
      <3>1. DOMAIN m_QueuedPlayer = 1..Len(m_QueuedPlayer)
        BY Containers DEF SessionsInv
      <3> QED
        BY <3>1 DEF Before, Waiting, ToSet
    <2> QED
      BY <2>3, <2>4, <2>5, <2>6, <2>7 DEF InTurn, KeepsOrder
  <1> QED
    BY <1>1, <1>2

\* RemoveQueuedPlayer keeps the order.
LEMMA RemovedInOrder ==
  ASSUME SessionsInv, NEW s
  PROVE  LET q == QueueAfter(m_QueuedPlayer, s)
         IN  /\ q \in Seq(Session) /\ ToSet(q) \subseteq Waiting
             /\ KeepsOrder(q, {s})
  <1>1. m_QueuedPlayer \in Seq(Session) /\ IsInjective(m_QueuedPlayer)
    BY DEF SessionsInv, TypeOK, Structure, LineSound
  <1> DEFINE q == QueueAfter(m_QueuedPlayer, s)
  <1>2. /\ q \in Seq(Session)
        /\ ToSet(q) = Waiting \ ({s} \cup Admitted(m_QueuedPlayer, s))
        /\ \A x \in ToSet(q) : \A y :
              Before(m_QueuedPlayer, x, y) => y \in ToSet(q) \cup {s}
        /\ \A x, y \in ToSet(q) :
              Before(m_QueuedPlayer, x, y) => Before(q, x, y)
    BY <1>1, QueueAfterSound DEF Waiting
  <1> HIDE DEF q
  <1>3. ToSet(q) \subseteq Waiting /\ KeepsOrder(q, {s})
    BY <1>2 DEF KeepsOrder
  <1> QED
    BY <1>2, <1>3 DEF q

\* A queue that nobody leaves is in order.
LEMMA SameInOrder ==
  ASSUME SessionsInv
  PROVE  KeepsOrder(m_QueuedPlayer, {})
  <1>1. DOMAIN m_QueuedPlayer = 1..Len(m_QueuedPlayer)
    BY Containers DEF SessionsInv
  <1> QED
    BY <1>1 DEF KeepsOrder, Before, ToSet

\* Every step takes the queue in turn: only EndUpdate, AddSession_ and KickAll
\* change it.
LEMMA NextInTurn == SessionsInv /\ [Next]_vars => InTurn
  <1> SUFFICES ASSUME SessionsInv, [Next]_vars PROVE InTurn
    OBVIOUS
  <1>1. TypeOK /\ Placed /\ LineSound
    BY DEF SessionsInv, Structure
  <1>2. /\ m_QueuedPlayer \in Seq(Session)
        /\ DOMAIN m_QueuedPlayer = 1..Len(m_QueuedPlayer)
    BY <1>1, Containers
  <1>3. CASE UNCHANGED m_QueuedPlayer
    <2>1. ToSet(m_QueuedPlayer') = Waiting
      BY <1>3 DEF Waiting
    <2>2. \A x, y : Before(m_QueuedPlayer, x, y) => y \in Waiting
      BY <1>2 DEF Before, Waiting, ToSet
    <2> QED
      BY <1>3, <2>1, <2>2 DEF InTurn
  <1>4. CASE KickAll
    <2>1. ToSet(m_QueuedPlayer') = {}
      BY <1>4 DEF KickAll, ToSet
    <2> QED
      BY <2>1 DEF InTurn
  <1>5. CASE EndUpdate /\ ~UNCHANGED m_QueuedPlayer
    <2> DEFINE s == m_sessions[cur]
               heap == HeapAfter(m_QueuedPlayer, s)
    <2>1. /\ m_QueuedPlayer' = QueueAfter(m_QueuedPlayer, s)
          /\ sess' = Delete(heap, s)
      BY <1>5 DEF EndUpdate, queueVars
    <2>2. s \in Listed
      BY <1>5, ListedSession DEF EndUpdate, SessionsInv, Places, LoopPlace
    <2>3. sess'[s] = NULL
      BY <2>1, <2>2, LeftOthers DEF Left
    <2>4. /\ QueueAfter(m_QueuedPlayer, s) \in Seq(Session)
          /\ ToSet(QueueAfter(m_QueuedPlayer, s)) \subseteq Waiting
          /\ KeepsOrder(QueueAfter(m_QueuedPlayer, s), {s})
      BY RemovedInOrder
    <2> HIDE DEF s
    <2>5. CASE \E x \in Session : x \notin Waiting
      BY <2>1, <2>3, <2>4, <2>5, OrderIsTurn
    <2>6. CASE \A x \in Session : x \in Waiting
      BY <2>1, <2>3, <2>4, <2>6 DEF InTurn, KeepsOrder
    <2> QED
      BY <2>5, <2>6
  <1>6. CASE AddSession_ /\ ~UNCHANGED m_QueuedPlayer
    <2> DEFINE s == Head(addSessQueue)
               old == m_sessions[sess[s].account]
               q == IF old = NULL THEN m_QueuedPlayer
                    ELSE QueueAfter(m_QueuedPlayer, old)
    <2>1. addSessQueue # <<>> /\ ListSession(s, old)
      BY <1>6 DEF AddSession_, RejectSession, queueVars
    <2>2. s \in Session \ Waiting /\ s \notin Listed
            /\ sess[s].account \in Account
      BY <2>1, FirstPending
    <2>3. m_QueuedPlayer' = q \/ m_QueuedPlayer' = Append(q, s)
      BY <2>1 DEF ListSession, Enqueue, Enter
    <2>4. CASE old = NULL
      BY <1>2, <2>2, <2>3, <2>4, SameInOrder, OrderIsTurn DEF Waiting
    <2>5. CASE old # NULL
      <3>1. old \in Listed /\ old # s
        BY <2>2, <2>5 DEF Listed, ListedIn
      <3>2. phase = "accept" /\ old \in Session
        BY <1>1, <1>6, <3>1, Containers DEF AddSession_
      <3>3. PICK h, p, n : Left(h, p, {old} \ {NULL})
                            /\ sess' = [h EXCEPT ![s] = n]
        <4>1. \A z, o : z = s /\ o = old =>
                \E h, p, n : Left(h, p, {o} \ {NULL})
                               /\ sess' = [h EXCEPT ![z] = n]
          <5> SUFFICES ASSUME NEW z, NEW o, z = s, o = old
                       PROVE  \E h, p, n : Left(h, p, {o} \ {NULL})
                                            /\ sess' = [h EXCEPT ![z] = n]
            OBVIOUS
          <5>1. z = Head(addSessQueue) /\ o = m_sessions[sess[z].account]
                  /\ ListSession(z, o)
            BY <2>1
          <5>2. phase = "accept" /\ addSessQueue # <<>>
            BY <2>1, <3>2
          <5> HIDE DEF s, old
          <5>3. Lists(z, o)
            BY ONLY SessionsInv, <5>1, <5>2, ListSteps
          <5> QED
            BY ONLY <5>3 DEF Lists
        <4> QED
          BY <4>1
      <3>4. sess'[old] = NULL
        BY <2>5, <3>1, <3>2, <3>3 DEF Left, Heap
      <3>5. q \in Seq(Session) /\ ToSet(q) \subseteq Waiting
              /\ KeepsOrder(q, {old})
        BY <2>5, RemovedInOrder
      <3> HIDE DEF q, old, s
      <3> QED
        BY <2>2, <2>3, <3>4, <3>5, OrderIsTurn
    <2> QED
      BY <2>4, <2>5
  <1> QED
    BY <1>3, <1>4, <1>5, <1>6
       DEF Next, Network, MainThread, SocketClosed, AuthSession, AllAdded,
           BeginUpdate, HandlePlayerLoginOpcode, LogoutPlayer, AllUpdated,
           HandlePlayerLoginCallback, AllResults, KickPlayer, ReloadConfig,
           NextTick, ToleranceElapses, Stopped, vars, queueVars, loopVars

\* Nobody overtakes in the login queue: World::AddSession_ puts a newcomer
\* last, and RemoveQueuedPlayer lets in the first or takes out the one that
\* left.
THEOREM FirstComesFirst == Spec => FirstComeFirstServed
  <1>1. SessionsInv /\ [Next]_vars => [InTurn]_vars
    BY NextInTurn
  <1> QED
    BY <1>1, SessionsInvariant, PTL DEF Spec, FirstComeFirstServed, InTurn

----------------------------------------------------------------------------
(* The limit.  RemoveQueuedPlayer lets in at most one session, and does so *)
(* exactly when the session that leaves was in and the limit was met.      *)

\* The sessions that are in, counted as GetActiveSessionCount does.
LEMMA Counted ==
  ASSUME NEW table \in [Account -> Session \cup {NULL}],
         \A a, b \in ListedIn(table) : table[a] = table[b] => a = b,
         NEW q \in Seq(Session), IsInjective(q),
         ToSet(q) \subseteq {table[a] : a \in ListedIn(table)}
  PROVE  LET L == {table[a] : a \in ListedIn(table)}
         IN  /\ IsFiniteSet(L \ ToSet(q)) /\ NumSessions(table) \in Nat
             /\ Cardinality(L \ ToSet(q)) = NumSessions(table) - Len(q)
             /\ Cardinality(L \ ToSet(q)) \in Nat
  <1> DEFINE L == {table[a] : a \in ListedIn(table)}
             W == ToSet(q)
             f == [a \in ListedIn(table) |-> table[a]]
  <1>1. IsFiniteSet(ListedIn(table)) /\ NumSessions(table) \in Nat
    BY FS_Subset, FS_CardinalityType DEF ListedIn, NumSessions
  <1>2. f \in Surjection(ListedIn(table), L)
          /\ f \in Injection(ListedIn(table), L)
    BY DEF Surjection, Injection, IsInjective
  <1> HIDE DEF f
  <1>3. IsFiniteSet(L) /\ Cardinality(L) = NumSessions(table)
    BY <1>1, <1>2, FS_Surjection DEF NumSessions
  <1>4. Len(q) \in Nat /\ DOMAIN q = 1..Len(q) /\ W = {q[i] : i \in 1..Len(q)}
    BY LenProperties, InQueue
  <1>5. IsFiniteSet(1..Len(q)) /\ Cardinality(1..Len(q)) = Len(q)
    BY <1>4, FS_Interval
  <1>6. q \in [1..Len(q) -> W]
    BY <1>4, LenProperties
  <1>7. q \in Surjection(1..Len(q), W) /\ q \in Injection(1..Len(q), W)
    BY <1>4, <1>6 DEF Surjection, Injection
  <1>8. Cardinality(W) = Len(q)
    BY <1>5, <1>7, FS_Surjection
  <1>9. L \cap W = W
    OBVIOUS
  <1> HIDE DEF L, W
  <1>10. /\ IsFiniteSet(L \ W)
         /\ Cardinality(L \ W) = Cardinality(L) - Cardinality(L \cap W)
         /\ Cardinality(L \ W) \in Nat
    BY <1>3, FS_Difference, FS_CardinalityType
  <1> QED
    BY <1>1, <1>3, <1>8, <1>9, <1>10 DEF L, W

\* The sessions that are in.
In == Listed \ Waiting

\* GetActiveSessionCount is the number of sessions that are in.
LEMMA ActiveCounted ==
  ASSUME SessionsInv
  PROVE  /\ IsFiniteSet(In) /\ Cardinality(In) = ActiveCount
         /\ ActiveCount \in Nat /\ NumSessions(m_sessions) \in Nat
         /\ m_playerLimit \in Int
  <1>1. TypeOK /\ Placed /\ LineSound
    BY DEF SessionsInv, Structure
  <1>2. /\ m_sessions \in [Account -> Session \cup {NULL}]
        /\ m_QueuedPlayer \in Seq(Session) /\ IsInjective(m_QueuedPlayer)
        /\ m_playerLimit \in Int
    BY <1>1 DEF TypeOK, LineSound
  <1>3. ToSet(m_QueuedPlayer) \subseteq
           {m_sessions[a] : a \in ListedIn(m_sessions)}
    BY <1>1 DEF LineSound, Waiting, Listed
  <1> QED
    BY <1>1, <1>2, <1>3, OneAccount, Counted
       DEF In, ActiveCount, Listed, Waiting

\* The same as a formula, to be stated of the next state.
LEMMA CountedNow ==
  SessionsInv => /\ IsFiniteSet(In) /\ Cardinality(In) = ActiveCount
                 /\ ActiveCount \in Nat /\ NumSessions(m_sessions) \in Nat
                 /\ m_playerLimit \in Int
  BY ActiveCounted

\* After a step too.
LEMMA CountedNext ==
  SessionsInv' => /\ IsFiniteSet(In)' /\ (Cardinality(In) = ActiveCount)'
                  /\ (ActiveCount \in Nat)'
                  /\ (NumSessions(m_sessions) \in Nat)'
                  /\ (m_playerLimit \in Int)'
  BY CountedNow, PTL

\* When a listed session leaves while nobody waits without reason, the first
\* of the queue takes its place exactly if it was in and the limit was met.
LEMMA AcceptsExactly ==
  ASSUME SessionsInv, WorkConserving, NEW s \in Listed
  PROVE  /\ Found(m_QueuedPlayer, s) =>
              /\ ~Accepts(m_QueuedPlayer, s)
              /\ Len(m_QueuedPlayer) > 0 /\ s \in Waiting
         /\ ~Found(m_QueuedPlayer, s) =>
              /\ s \in In /\ ActiveCount > 0
              /\ Accepts(m_QueuedPlayer, s) <=>
                    Len(m_QueuedPlayer) > 0 /\ ActiveCount = m_playerLimit
  <1> DEFINE q == m_QueuedPlayer
             w == Without(q, s)
  <1>1. /\ q \in Seq(Session) /\ IsInjective(q) /\ Len(q) \in Nat
        /\ m_playerLimit \in Int /\ ActiveCount \in Nat
        /\ IsFiniteSet(In) /\ Cardinality(In) = ActiveCount
    BY ActiveCounted, Containers DEF SessionsInv, Structure, LineSound
  <1>2. /\ Found(q, s) <=> s \in Waiting
        /\ Waiting = {} <=> q = <<>>
        /\ q = <<>> <=> Len(q) = 0
    BY <1>1, InQueue, EmptySeq DEF Waiting
  <1>3. /\ w \in Seq(Session)
        /\ Len(w) = IF Found(q, s) THEN Len(q) - 1 ELSE Len(q)
    BY <1>1, WithoutSound
  <1>4. w = <<>> <=> Len(w) = 0
    BY <1>3, EmptySeq
  <1> HIDE DEF w
  <1>5. CASE Found(q, s)
    <2>1. Len(q) > 0 /\ m_playerLimit > 0 /\ ActiveCount >= m_playerLimit
      BY <1>1, <1>2, <1>5 DEF WorkConserving
    <2>2. ~Accepts(q, s)
      BY <1>1, <1>5, <2>1 DEF Accepts
    <2> QED
      BY <1>2, <1>5, <2>1, <2>2
  <1>6. CASE ~Found(q, s)
    <2>1. s \in In
      BY <1>2, <1>6 DEF In
    <2>2. ActiveCount > 0
      BY <1>1, <2>1, FS_EmptySet
    <2>3. Accepts(q, s) <=>
            /\ m_playerLimit <= 0 \/ ActiveCount - 1 < m_playerLimit
            /\ Len(q) > 0
      BY <1>1, <1>3, <1>4, <1>6, <2>2 DEF Accepts, w
    <2>4. Len(q) > 0 => m_playerLimit > 0 /\ ActiveCount >= m_playerLimit
      BY <1>2 DEF WorkConserving
    <2> QED
      BY <1>1, <1>6, <2>1, <2>2, <2>3, <2>4
  <1> QED
    BY <1>5, <1>6

\* The number of sessions when the entry of one account changes.
LEMMA TableCount ==
  ASSUME NEW table \in [Account -> Session \cup {NULL}], NEW a \in Account,
         NEW s \in Session \cup {NULL}
  PROVE  LET new == [table EXCEPT ![a] = s]
         IN  /\ NumSessions(table) \in Nat
             /\ s # NULL =>
                  NumSessions(new) = NumSessions(table)
                                       + (IF table[a] = NULL THEN 1 ELSE 0)
             /\ s = NULL /\ table[a] # NULL =>
                  NumSessions(new) = NumSessions(table) - 1
  <1> DEFINE new == [table EXCEPT ![a] = s]
             T == ListedIn(table)
  <1>1. IsFiniteSet(T) /\ Cardinality(T) \in Nat
    BY FS_Subset, FS_CardinalityType DEF ListedIn
  <1>2. a \in T <=> table[a] # NULL
    BY DEF ListedIn
  <1>3. s # NULL => ListedIn(new) = T \cup {a}
    BY DEF ListedIn
  <1>4. s = NULL => ListedIn(new) = T \ {a}
    BY DEF ListedIn
  <1> HIDE DEF T, new
  <1>5. /\ Cardinality(T \cup {a}) =
              IF a \in T THEN Cardinality(T) ELSE Cardinality(T) + 1
        /\ Cardinality(T \ {a}) =
              IF a \in T THEN Cardinality(T) - 1 ELSE Cardinality(T)
    BY <1>1, FS_AddElement, FS_RemoveElement
  <1>6. NumSessions(table) = Cardinality(T)
          /\ NumSessions(new) = Cardinality(ListedIn(new))
    BY DEF NumSessions, T
  <1>7. s # NULL => NumSessions(new) = NumSessions(table)
                                       + (IF table[a] = NULL THEN 1 ELSE 0)
    <2>1. CASE a \in T
      <3>1. table[a] # NULL /\ Cardinality(T \cup {a}) = Cardinality(T)
        BY <1>2, <1>5, <2>1
      <3>2. s # NULL => NumSessions(new) = NumSessions(table)
        BY <1>3, <1>6, <3>1
      <3>3. (IF table[a] = NULL THEN 1 ELSE 0) = 0
        BY <3>1
      <3>4. NumSessions(table) \in Nat
        BY <1>1, <1>6
      <3> QED
        BY <3>2, <3>3, <3>4
    <2>2. CASE a \notin T
      BY <1>1, <1>2, <1>3, <1>5, <1>6, <2>2
    <2> QED
      BY <2>1, <2>2
  <1>8. s = NULL /\ table[a] # NULL =>
          NumSessions(new) = NumSessions(table) - 1
    BY <1>1, <1>2, <1>4, <1>5, <1>6
  <1> QED
    BY <1>1, <1>6, <1>7, <1>8 DEF new

\* The sizes of the table and the queue, which are all that the limit is about.
N == NumSessions(m_sessions)
Q == Len(m_QueuedPlayer)

\* The table and the queue in numbers, and WorkConserving in those numbers.
LEMMA Sizes ==
  ASSUME SessionsInv
  PROVE  /\ N \in Nat /\ Q \in Nat /\ m_playerLimit \in Int
         /\ ActiveCount = N - Q /\ N - Q \in Nat
         /\ IsFiniteSet(In) /\ Cardinality(In) = N - Q
         /\ WorkConserving <=>
              (Q > 0 => m_playerLimit > 0 /\ N - Q >= m_playerLimit)
  <1>1. m_QueuedPlayer \in Seq(Session) /\ Q \in Nat
    BY Containers DEF SessionsInv, Q
  <1>2. m_QueuedPlayer # <<>> <=> Q > 0
    BY <1>1, EmptySeq DEF Q
  <1> QED
    BY <1>1, <1>2, ActiveCounted DEF ActiveCount, N, Q, WorkConserving

\* The same as a formula, to be stated of the next state.
LEMMA SizesNow ==
  SessionsInv =>
    /\ N \in Nat /\ Q \in Nat /\ m_playerLimit \in Int
    /\ IsFiniteSet(In) /\ Cardinality(In) = N - Q
    /\ WorkConserving <=>
         (Q > 0 => m_playerLimit > 0 /\ N - Q >= m_playerLimit)
  BY Sizes

\* After a step too.
LEMMA SizesNext ==
  SessionsInv' =>
    /\ N' \in Nat /\ Q' \in Nat
    /\ IsFiniteSet(In') /\ Cardinality(In') = N' - Q'
    /\ WorkConserving' <=>
         (Q' > 0 => m_playerLimit' > 0 /\ N' - Q' >= m_playerLimit')
  <1>1. SessionsInv' =>
          /\ (N \in Nat)' /\ (Q \in Nat)'
          /\ IsFiniteSet(In)' /\ (Cardinality(In) = N - Q)'
          /\ (WorkConserving <=>
                (Q > 0 => m_playerLimit > 0 /\ N - Q >= m_playerLimit))'
    BY SizesNow, PTL
  <1> QED
    BY <1>1

\* UpdateSessions drops the session it has updated: its place is given to the
\* first of the queue exactly when there is room for it.
LEMMA EndCounts ==
  ASSUME SessionsInv, WorkConserving, EndUpdate, ~UNCHANGED sess
  PROVE  LET s == m_sessions[cur]
             q == m_QueuedPlayer
         IN  /\ s \in Listed
             /\ m_QueuedPlayer' = QueueAfter(q, s)
             /\ sess' = Delete(HeapAfter(q, s), s)
             /\ m_sessions' = [m_sessions EXCEPT ![cur] = NULL]
             /\ N' = N - 1
             /\ Q' = Q - (IF Found(q, s) THEN 1 ELSE 0)
                       - (IF Accepts(q, s) THEN 1 ELSE 0)
             /\ Found(q, s) => ~Accepts(q, s) /\ Q > 0
             /\ ~Found(q, s) =>
                  (Accepts(q, s) <=> Q > 0 /\ N - Q = m_playerLimit)
  <1> DEFINE s == m_sessions[cur]
             q == m_QueuedPlayer
  <1>1. cur \in ListedIn(m_sessions) /\ cur \in Account /\ s # NULL
    BY DEF EndUpdate, SessionsInv, Places, LoopPlace, ListedIn
  <1>2. s \in Listed
    BY <1>1, ListedSession
  <1>3. /\ q' = QueueAfter(q, s) /\ sess' = Delete(HeapAfter(q, s), s)
        /\ m_sessions' = [m_sessions EXCEPT ![cur] = NULL]
    BY DEF EndUpdate, queueVars
  <1>4. N' = N - 1
    <2>1. m_sessions \in [Account -> Session \cup {NULL}]
      BY DEF SessionsInv, TypeOK
    <2> QED
      BY <1>1, <1>3, <2>1, TableCount DEF N
  <1>5. Q' = Q - (IF Found(q, s) THEN 1 ELSE 0)
               - (IF Accepts(q, s) THEN 1 ELSE 0)
    <2>1. q \in Seq(Session) /\ IsInjective(q)
      BY Containers DEF SessionsInv, Structure, LineSound
    <2>2. Len(QueueAfter(q, s)) = Len(q) - (IF Found(q, s) THEN 1 ELSE 0)
                                         - (IF Accepts(q, s) THEN 1 ELSE 0)
      BY ONLY <2>1, QueueAfterSound
    <2> QED
      BY ONLY <1>3, <2>2 DEF Q
  <1>6. /\ Found(q, s) => ~Accepts(q, s) /\ Len(q) > 0
        /\ ~Found(q, s) => (Accepts(q, s) <=>
                              Len(q) > 0 /\ ActiveCount = m_playerLimit)
    BY <1>2, AcceptsExactly
  <1> QED
    BY <1>2, <1>3, <1>4, <1>5, <1>6 DEF ActiveCount, N, Q

\* AddSession_ lists a newcomer: what that does to the sizes, and n, the
\* number of sessions it compares with the limit.
LEMMA ListCounts ==
  ASSUME SessionsInv, WorkConserving, phase = "accept", addSessQueue # <<>>,
         NEW s, s = Head(addSessQueue), NEW old,
         old = m_sessions[sess[s].account], ListSession(s, old)
  PROVE  LET n      == CountedSessions(sess[s].account, s, old)
             found  == old # NULL /\ Found(m_QueuedPlayer, old)
             enters == old # NULL /\ Accepts(m_QueuedPlayer, old)
             left   == Q - (IF found THEN 1 ELSE 0) - (IF enters THEN 1 ELSE 0)
         IN  /\ N' = N + (IF old = NULL THEN 1 ELSE 0)
             /\ n = N' - (IF found THEN 0 ELSE 1)
             /\ found => ~enters /\ Q > 0
             /\ ~found /\ old # NULL =>
                  (enters <=> Q > 0 /\ N - Q = m_playerLimit)
             /\ IF MustWait(sess[s].account, n) THEN Q' = left + 1 ELSE Q' =
                  left
  <1> DEFINE a == sess[s].account
             n == CountedSessions(a, s, old)
             q == IF old = NULL THEN m_QueuedPlayer
                  ELSE QueueAfter(m_QueuedPlayer, old)
             found  == old # NULL /\ Found(m_QueuedPlayer, old)
             enters == old # NULL /\ Accepts(m_QueuedPlayer, old)
             left   == Q - (IF found THEN 1 ELSE 0) - (IF enters THEN 1 ELSE 0)
  <1>1. s \in Session /\ s # NULL /\ s \notin Listed /\ a \in Account
    BY FirstPending
  <1>2. old # NULL => old \in Listed
    BY <1>1 DEF Listed, ListedIn
  <1>3. /\ m_sessions' = [m_sessions EXCEPT ![a] = s]
        /\ IF MustWait(a, n) THEN m_QueuedPlayer' = Append(q, s)
                             ELSE m_QueuedPlayer' = q
    BY DEF ListSession, Enqueue, Enter
  <1>4. NumSessions(m_sessions') = N + (IF old = NULL THEN 1 ELSE 0)
    <2>1. m_sessions \in [Account -> Session \cup {NULL}]
      BY DEF SessionsInv, TypeOK
    <2> QED
      BY <1>1, <1>3, <2>1, TableCount DEF N
  <1>5. n = NumSessions(m_sessions') - (IF found THEN 0 ELSE 1)
    BY <1>3 DEF CountedSessions
  <1>6. /\ found => ~enters /\ Q > 0
        /\ ~found /\ old # NULL => (enters <=> Q > 0 /\ N - Q = m_playerLimit)
    BY <1>2, AcceptsExactly DEF ActiveCount, N, Q
  <1>7. q \in Seq(Session) /\ Len(q) = left
    <2>1. m_QueuedPlayer \in Seq(Session) /\ IsInjective(m_QueuedPlayer)
            /\ Q \in Nat
      BY Containers DEF SessionsInv, Structure, LineSound, Q
    <2>2. CASE old = NULL
      BY <2>1, <2>2 DEF Q
    <2>3. CASE old # NULL
      <3> DEFINE r == QueueAfter(m_QueuedPlayer, old)
      <3>1. r \in Seq(Session)
              /\ Len(r) = Len(m_QueuedPlayer)
                            - (IF Found(m_QueuedPlayer, old) THEN 1 ELSE 0)
                            - (IF Accepts(m_QueuedPlayer, old) THEN 1 ELSE 0)
        <4>1. m_QueuedPlayer \in Seq(Session) /\ IsInjective(m_QueuedPlayer)
          BY <2>1
        <4> QED
          BY ONLY <4>1, QueueAfterSound
      <3> HIDE DEF r
      <3>2. q = r /\ (found <=> Found(m_QueuedPlayer, old))
              /\ (enters <=> Accepts(m_QueuedPlayer, old))
        BY <2>3 DEF r
      <3> QED
        BY <3>1, <3>2 DEF Q
    <2> QED
      BY <2>2, <2>3
  <1>8. IF MustWait(a, n) THEN Q' = left + 1 ELSE Q' = left
    <2> HIDE DEF q, left, n
    <2>1. Len(Append(q, s)) = Len(q) + 1
      BY <1>1, <1>7, AppendProperties
    <2> QED
      BY <1>3, <1>7, <2>1 DEF Q
  <1> QED
    BY <1>4, <1>5, <1>6, <1>8 DEF N

\* A listing or a session that goes: the only steps about the limit.
Moves ==
    \/ /\ phase = "accept" /\ addSessQueue # <<>>
       /\ ListSession(Head(addSessQueue),
                      m_sessions[sess[Head(addSessQueue)].account])
    \/ EndUpdate /\ ~UNCHANGED sess

\* Every other step leaves the table, the queue and the accounts as they are,
\* or empties the queue for the shutdown.
LEMMA OtherSteps ==
  ASSUME SessionsInv, [Next]_vars, ~Moves
  PROVE  /\ m_sessions' = m_sessions
         /\ \/ m_QueuedPlayer' = m_QueuedPlayer
            \/ m_QueuedPlayer' = <<>> /\ stopping'
         /\ stopping => stopping'
  <1>1. ASSUME AddSession_
        PROVE  UNCHANGED <<m_sessions, m_QueuedPlayer, stopping>>
    BY <1>1 DEF AddSession_, Moves, RejectSession, queueVars, loopVars
  <1>2. ASSUME EndUpdate
        PROVE  UNCHANGED <<m_sessions, m_QueuedPlayer, stopping>>
    <2> DEFINE s == m_sessions[cur]
    <2>1. sess' = sess
      BY <1>2 DEF Moves
    <2>2. cur \in ListedIn(m_sessions)
      BY <1>2 DEF EndUpdate, SessionsInv, Places, LoopPlace
    <2>3. s \in Listed /\ sess[s] # NULL
      BY <2>2, ListedSession
    <2>4. ~sess[s].closed
      <3>1. ASSUME sess[s].closed PROVE FALSE
        <4>1. sess' = Delete(HeapAfter(m_QueuedPlayer, s), s)
          BY <1>2, <3>1 DEF EndUpdate
        <4>2. sess'[s] = NULL
          BY <2>3, <4>1, LeftOthers DEF Left
        <4> QED
          BY <2>1, <2>3, <4>2
      <3> QED
        BY <3>1
    <2> QED
      BY <1>2, <2>4 DEF EndUpdate, queueVars
  <1>3. ASSUME KickAll
        PROVE  m_sessions' = m_sessions /\ m_QueuedPlayer' = <<>> /\ stopping'
    BY <1>3 DEF KickAll
  <1>4. ASSUME Next, ~AddSession_, ~EndUpdate, ~KickAll
        PROVE  UNCHANGED <<m_sessions, m_QueuedPlayer, stopping>>
    BY <1>4
       DEF Next, Network, MainThread, SocketClosed, AuthSession, AllAdded,
           BeginUpdate, HandlePlayerLoginOpcode, LogoutPlayer, AllUpdated,
           HandlePlayerLoginCallback, AllResults, KickPlayer, ReloadConfig,
           NextTick, ToleranceElapses, Stopped, vars, queueVars, loopVars
  <1>5. ASSUME UNCHANGED vars
        PROVE  UNCHANGED <<m_sessions, m_QueuedPlayer, stopping>>
    BY <1>5 DEF vars
  <1>6. \/ UNCHANGED <<m_sessions, m_QueuedPlayer, stopping>>
        \/ m_sessions' = m_sessions /\ m_QueuedPlayer' = <<>> /\ stopping'
    BY <1>1, <1>2, <1>3, <1>4, <1>5
  <1>7. UNCHANGED <<m_sessions, m_QueuedPlayer, stopping>> =>
          /\ m_sessions' = m_sessions /\ m_QueuedPlayer' = m_QueuedPlayer
          /\ stopping' = stopping
    OBVIOUS
  <1>8. stopping' = stopping => (stopping => stopping')
    BY Zenon
  <1> QED
    BY <1>6, <1>7, <1>8

\* Nobody waits while there is room: whoever goes makes room for one, and
\* RemoveQueuedPlayer lets in one; a newcomer waits only if there is none.
LEMMA RoomKept ==
  SessionsInv /\ SessionsInv' /\ WorkConserving /\ [Next]_vars
    /\ m_playerLimit' = m_playerLimit => WorkConserving'
  <1> SUFFICES ASSUME SessionsInv, SessionsInv', WorkConserving, [Next]_vars,
                      m_playerLimit' = m_playerLimit
               PROVE  WorkConserving'
    OBVIOUS
  <1> DEFINE L == m_playerLimit
  <1>1. /\ N \in Nat /\ Q \in Nat /\ L \in Int /\ N - Q \in Nat
        /\ Q > 0 => L > 0 /\ N - Q >= L
    BY Sizes
  <1>2. SUFFICES Q' > 0 => L > 0 /\ N' - Q' >= L
    BY SizesNext
  <1>3. CASE EndUpdate /\ ~UNCHANGED sess
    <2> DEFINE found  == Found(m_QueuedPlayer, m_sessions[cur])
               enters == Accepts(m_QueuedPlayer, m_sessions[cur])
    <2>1. /\ N' = N - 1
          /\ Q' = Q - (IF found THEN 1 ELSE 0) - (IF enters THEN 1 ELSE 0)
          /\ found => ~enters /\ Q > 0
          /\ ~found => (enters <=> Q > 0 /\ N - Q = L)
      BY <1>3, EndCounts
    <2> HIDE DEF found, enters
    <2>2. CASE found
      BY <1>1, <2>1, <2>2
    <2>3. CASE ~found /\ enters
      BY <1>1, <2>1, <2>3
    <2>4. CASE ~found /\ ~enters
      BY <1>1, <2>1, <2>4
    <2> QED
      BY <2>2, <2>3, <2>4
  <1>4. CASE /\ phase = "accept" /\ addSessQueue # <<>>
             /\ ListSession(Head(addSessQueue),
                            m_sessions[sess[Head(addSessQueue)].account])
    <2>1. PICK s, old :
             /\ s = Head(addSessQueue) /\ old = m_sessions[sess[s].account]
             /\ ListSession(s, old)
      BY <1>4
    <2> DEFINE a      == sess[s].account
               n      == CountedSessions(a, s, old)
               found  == old # NULL /\ Found(m_QueuedPlayer, old)
               enters == old # NULL /\ Accepts(m_QueuedPlayer, old)
               left   == Q - (IF found THEN 1 ELSE 0)
                           - (IF enters THEN 1 ELSE 0)
               waits  == MustWait(a, n)
    <2>2. /\ N' = N + (IF old = NULL THEN 1 ELSE 0)
          /\ n = N' - (IF found THEN 0 ELSE 1)
          /\ found => ~enters /\ Q > 0
          /\ ~found /\ old # NULL => (enters <=> Q > 0 /\ N - Q = L)
          /\ IF waits THEN Q' = left + 1 ELSE Q' = left
      BY <1>4, <2>1, ListCounts
    <2>3. waits => L > 0 /\ n >= L
      BY DEF MustWait
    <2>4. old = NULL => ~found /\ ~enters
      OBVIOUS
    <2> HIDE DEF found, enters, waits, n
    <2>5. CASE waits
      <3>1. CASE old = NULL
        BY <1>1, <2>2, <2>3, <2>4, <2>5, <3>1
      <3>2. CASE old # NULL /\ found
        BY <1>1, <2>2, <2>3, <2>5, <3>2
      <3>3. CASE old # NULL /\ ~found /\ enters
        BY <1>1, <2>2, <2>3, <2>5, <3>3
      <3>4. CASE old # NULL /\ ~found /\ ~enters
        BY <1>1, <2>2, <2>3, <2>5, <3>4
      <3> QED
        BY <3>1, <3>2, <3>3, <3>4
    <2>6. CASE ~waits
      <3>1. CASE old = NULL
        BY <1>1, <2>2, <2>4, <2>6, <3>1
      <3>2. CASE old # NULL /\ found
        BY <1>1, <2>2, <2>6, <3>2
      <3>3. CASE old # NULL /\ ~found /\ enters
        BY <1>1, <2>2, <2>6, <3>3
      <3>4. CASE old # NULL /\ ~found /\ ~enters
        BY <1>1, <2>2, <2>6, <3>4
      <3> QED
        BY <3>1, <3>2, <3>3, <3>4
    <2> QED
      BY <2>5, <2>6
  <1>5. CASE ~Moves
    <2>1. /\ m_sessions' = m_sessions
          /\ m_QueuedPlayer' = m_QueuedPlayer \/ m_QueuedPlayer' = <<>>
      BY <1>5, OtherSteps
    <2>2. N' = N /\ (Q' = Q \/ Q' = 0)
      BY <2>1 DEF N, Q
    <2> QED
      BY <1>1, <2>2
  <1> QED
    BY <1>3, <1>4, <1>5 DEF Moves

\* As long as the limit is not reloaded, nobody waits while there is room.
THEOREM NobodyWaitsForRoom ==
  Spec /\ [][UNCHANGED m_playerLimit]_vars => []WorkConserving
  <1>1. Init => WorkConserving
    BY DEF Init, WorkConserving
  <1>2. SessionsInv /\ SessionsInv' /\ WorkConserving /\ [Next]_vars
          /\ [UNCHANGED m_playerLimit]_vars => WorkConserving'
    BY RoomKept DEF vars
  <1> QED
    BY <1>1, <1>2, SessionsInvariant, PTL DEF Spec

\* Who plays is in; so there are no more players than sessions that are in.
LEMMA PlayersIn ==
  SessionsInv => /\ IsFiniteSet(Playing) /\ Playing \subseteq In
                 /\ Cardinality(Playing) \in Nat
                 /\ Cardinality(Playing) <= N - Q
  <1> SUFFICES ASSUME SessionsInv
               PROVE  /\ IsFiniteSet(Playing) /\ Playing \subseteq In
                      /\ Cardinality(Playing) \in Nat
                      /\ Cardinality(Playing) <= N - Q
    OBVIOUS
  <1>1. Playing \subseteq In
    BY DEF Playing, In
  <1>2. IsFiniteSet(In) /\ Cardinality(In) = N - Q
    BY Sizes
  <1> QED
    BY <1>1, <1>2, FS_Subset, FS_CardinalityType

\* After a step too.
LEMMA PlayersInNext ==
  SessionsInv' => /\ IsFiniteSet(Playing') /\ Playing' \subseteq In'
                  /\ Cardinality(Playing') \in Nat
                  /\ Cardinality(Playing') <= N' - Q'
  <1>1. SessionsInv' => /\ IsFiniteSet(Playing)' /\ (Playing \subseteq In)'
                        /\ (Cardinality(Playing) \in Nat)'
                        /\ (Cardinality(Playing) <= N - Q)'
    BY PlayersIn, PTL
  <1> QED
    BY <1>1

\* If nobody begins to play, there are no more players than there were.
LEMMA FewerPlay ==
  ASSUME SessionsInv, SessionsInv', Capacity, m_playerLimit > 0, ~stopping,
         Playing' \subseteq Playing
  PROVE  Cardinality(Playing') <= m_playerLimit
  <1>1. /\ IsFiniteSet(Playing) /\ Cardinality(Playing) \in Nat
        /\ Cardinality(Playing') \in Nat
    BY PlayersIn, PlayersInNext
  <1>2. Cardinality(Playing') <= Cardinality(Playing)
    BY <1>1, FS_Subset
  <1>3. Cardinality(Playing) <= m_playerLimit /\ m_playerLimit \in Int
    BY Sizes DEF Capacity
  <1> QED
    BY <1>1, <1>2, <1>3

\* What the handlers of a session, and the network threads, leave alone.
LEMMA OthersStay ==
  ASSUME SessionsInv, [Next]_vars, ~Moves, ~stopping'
  PROVE  Playing' \subseteq Playing
  <1>1. /\ m_sessions' = m_sessions /\ ~stopping
        /\ m_QueuedPlayer' = m_QueuedPlayer
    BY OtherSteps, Zenon
  <1>2. Listed' = Listed /\ Waiting' = Waiting
    BY <1>1 DEF Listed, Waiting
  <1>3. /\ Listed \subseteq Session /\ DOMAIN sess = Session
        /\ \A x \in Listed : sess[x] # NULL /\ x \notin Pending
    BY Containers DEF SessionsInv, Structure, Placed
  <1>4. \A x \in Listed : sess[x] \in SessionRec
    BY OneAccount DEF SessionsInv, Structure
  <1>5. \A x \in Listed : /\ sess'[x].account = sess[x].account
                          /\ sess'[x].exempt = sess[x].exempt
    <2>1. CASE UNCHANGED sess
      BY <2>1
    <2>2. CASE AddSession_
      <3>1. addSessQueue # <<>> /\ sess' = Delete(sess, Head(addSessQueue))
        BY <2>2 DEF AddSession_, RejectSession, Moves
      <3>2. Head(addSessQueue) \in Pending
        BY <3>1, FirstPending
      <3> QED
        BY <1>3, <3>1, <3>2 DEF Delete
    <2>3. CASE \E s \in Session : SocketClosed(s)
      BY <1>3, <2>3 DEF SocketClosed
    <2>4. CASE \E s \in Session, a \in Account : AuthSession(s, a)
      BY <1>3, <2>4 DEF AuthSession
    <2>5. CASE \E a \in Account : BeginUpdate(a)
      <3>1. PICK a \in Account : BeginUpdate(a)
        BY <2>5
      <3> DEFINE s == m_sessions[a]
      <3>2. UNCHANGED sess \/ sess' = [sess EXCEPT ![s].closed = TRUE]
        BY <3>1 DEF BeginUpdate
      <3> HIDE DEF s
      <3>3. CASE sess' = [sess EXCEPT ![s].closed = TRUE]
        BY <1>3, <1>4, <3>3 DEF SessionRec
      <3> QED
        BY <2>1, <3>2, <3>3
    <2>6. CASE HandlePlayerLoginOpcode
      <3> DEFINE s == m_sessions[cur]
      <3>1. \/ sess' = [sess EXCEPT ![s].closed = TRUE]
            \/ \E k, u \in BOOLEAN :
                 sess' = [sess EXCEPT ![s].loading = TRUE, ![s].closed = k,
                                      ![s].unread = u]
        BY <2>6 DEF HandlePlayerLoginOpcode
      <3> HIDE DEF s
      <3>2. CASE sess' = [sess EXCEPT ![s].closed = TRUE]
        BY <1>3, <1>4, <3>2 DEF SessionRec
      <3>3. ASSUME NEW k \in BOOLEAN, NEW u \in BOOLEAN,
                   sess' = [sess EXCEPT ![s].loading = TRUE, ![s].closed = k,
                                        ![s].unread = u]
            PROVE  \A x \in Listed : /\ sess'[x].account = sess[x].account
                                     /\ sess'[x].exempt = sess[x].exempt
        BY <1>3, <1>4, <3>3 DEF SessionRec
      <3> QED
        BY <3>1, <3>2, <3>3
    <2>7. CASE LogoutPlayer
      BY <1>3, <2>7 DEF LogoutPlayer
    <2>8. CASE HandlePlayerLoginCallback
      <3> DEFINE s == m_sessions[Head(logins)]
      <3>1. \/ UNCHANGED sess
            \/ \E p : sess' = [sess EXCEPT ![s].players = p,
                                           ![s].loading = FALSE]
            \/ sess' = [sess EXCEPT ![s].closed = TRUE, ![s].loading = FALSE]
        BY <2>8 DEF HandlePlayerLoginCallback
      <3> HIDE DEF s
      <3>2. CASE sess' = [sess EXCEPT ![s].closed = TRUE, ![s].loading = FALSE]
        BY <1>3, <1>4, <3>2 DEF SessionRec
      <3>3. ASSUME NEW p,
                   sess' = [sess EXCEPT ![s].players = p, ![s].loading = FALSE]
            PROVE  \A x \in Listed : /\ sess'[x].account = sess[x].account
                                     /\ sess'[x].exempt = sess[x].exempt
        BY <1>3, <1>4, <3>3 DEF SessionRec
      <3> QED
        BY <2>1, <3>1, <3>2, <3>3
    <2>9. CASE \E a \in Account : KickPlayer(a)
      BY <1>3, <2>9 DEF KickPlayer
    <2>10. ~KickAll
      BY Zenon DEF KickAll
    <2>11. CASE EndUpdate
      BY <2>1, <2>11 DEF Moves
    <2> QED
      BY <2>1, <2>2, <2>3, <2>4, <2>5, <2>6, <2>7, <2>8, <2>9, <2>10, <2>11
         DEF Next, Network, MainThread, AllAdded, AllUpdated, AllResults,
             ReloadConfig, NextTick, ToleranceElapses, Stopped, vars
  <1> QED
    BY <1>2, <1>5 DEF Playing

\* A session that goes takes nobody in, or the one whose place it was.
LEMMA EndCapacity ==
  ASSUME SessionsInv, SessionsInv', WorkConserving, Capacity, EndUpdate,
         ~UNCHANGED sess, m_playerLimit > 0, ~stopping
  PROVE  Cardinality(Playing') <= m_playerLimit
  <1> DEFINE s == m_sessions[cur]
             q == m_QueuedPlayer
             heap == Delete(HeapAfter(q, s), s)
             r == QueueAfter(q, s)
  <1>1. /\ s \in Listed /\ q' = r /\ sess' = heap
        /\ m_sessions' = [m_sessions EXCEPT ![cur] = NULL]
        /\ N' = N - 1
        /\ Q' = Q - (IF Found(q, s) THEN 1 ELSE 0)
                  - (IF Accepts(q, s) THEN 1 ELSE 0)
        /\ Found(q, s) => ~Accepts(q, s)
        /\ ~Found(q, s) => (Accepts(q, s) <=> Q > 0 /\ N - Q = m_playerLimit)
    BY EndCounts
  <1>2. N \in Nat /\ Q \in Nat /\ m_playerLimit \in Int
    BY Sizes
  <1>3. CASE Accepts(q, s)
    <2>1. ~Found(q, s) /\ N - Q = m_playerLimit /\ Q' = Q - 1
      BY <1>1, <1>2, <1>3
    <2>2. N' - Q' = m_playerLimit
      BY <1>1, <1>2, <2>1
    <2> QED
      BY <2>2, PlayersInNext
  <1>4. CASE ~Accepts(q, s)
    <2>1. q \in Seq(Session) /\ IsInjective(q)
      BY Containers DEF SessionsInv, Structure, LineSound
    <2>2. ToSet(r) = Waiting \ ({s} \cup Admitted(q, s))
      <3> HIDE DEF q, s
      <3> QED
        BY ONLY <2>1, QueueAfterSound DEF Waiting, q, r
    <2>3. Waiting' = Waiting \ {s}
      BY <1>1, <1>4, <2>2 DEF Waiting, Admitted
    <2>4. Left(heap, r, {s})
      BY <1>1, LeftOthers
    <2>5. {s} \in SUBSET Listed
      BY <1>1
    <2> HIDE DEF s, heap, r, q
    <2>6. \A x \in Session \ {s} :
             sess[x] # NULL => /\ heap[x].account = sess[x].account
                               /\ heap[x].exempt = sess[x].exempt
      BY <2>4, <2>5, LeftSound
    <2>7. Listed' \subseteq Listed \ {s}
      <3>1. /\ cur \in ListedIn(m_sessions) /\ s = m_sessions[cur]
            /\ m_sessions \in [Account -> Session \cup {NULL}]
        BY DEF EndUpdate, SessionsInv, Places, LoopPlace, TypeOK, s
      <3>2. \A b \in ListedIn(m_sessions) : m_sessions[b] = s => b = cur
        BY <3>1, ListedSession
      <3>3. \A b \in ListedIn(m_sessions)' :
              /\ b \in ListedIn(m_sessions) /\ b # cur
              /\ m_sessions'[b] = m_sessions[b]
        BY <1>1, <3>1 DEF ListedIn
      <3> QED
        BY <3>2, <3>3 DEF Listed
    <2>8. \A x \in Listed : x \in Session /\ sess[x] # NULL
      BY Containers DEF SessionsInv, Structure, Placed
    <2>9. Playing' \subseteq Playing
      BY <1>1, <2>3, <2>6, <2>7, <2>8 DEF Playing
    <2> QED
      BY <2>9, FewerPlay
  <1> QED
    BY <1>3, <1>4

\* A newcomer that is let in, and is neither a game master nor exempt, found
\* fewer sessions than the limit.
LEMMA EntersBelow ==
  ASSUME SessionsInv, phase = "accept", addSessQueue # <<>>,
         m_playerLimit > 0,
         NEW s, s = Head(addSessQueue), NEW old,
         old = m_sessions[sess[s].account], ListSession(s, old),
         s \in Playing'
  PROVE  LET n == CountedSessions(sess[s].account, s, old)
         IN  ~MustWait(sess[s].account, n) /\ ~(n >= m_playerLimit)
  <1> DEFINE a == sess[s].account
             heap == IF old = NULL THEN sess
                     ELSE Delete(HeapAfter(m_QueuedPlayer, old), old)
             q == IF old = NULL THEN m_QueuedPlayer
                  ELSE QueueAfter(m_QueuedPlayer, old)
             n == CountedSessions(a, s, old)
  <1>1. /\ s \in Session /\ s \notin Listed /\ s \in Pending
        /\ sess[s] \in SessionRec /\ a \in Account
    BY FirstPending
  <1>2. heap[s] = sess[s] /\ DOMAIN heap = Session /\ q \in Seq(Session)
    <2>1. CASE old = NULL
      BY <2>1, Containers DEF SessionsInv
    <2>2. CASE old # NULL
      <3>1. old \in Listed
        BY <1>1, <2>2 DEF Listed, ListedIn
      <3>2. Left(heap, q, {old})
        BY <2>2, <3>1, LeftOthers
      <3>3. {old} \in SUBSET Listed
        BY <3>1
      <3> HIDE DEF heap, q
      <3>4. heap[s] = sess[s]
        BY <1>1, <3>2, <3>3, LeftSound
      <3> QED
        BY <3>2, <3>4 DEF Left, Heap
    <2> QED
      BY <2>1, <2>2
  <1>3. IF MustWait(a, n) THEN Enqueue(heap, q, s) ELSE Enter(heap, q, s, n)
    BY DEF ListSession
  <1>4. s \notin Waiting' /\ sess'[s].account \notin GMs /\ ~sess'[s].exempt
    BY DEF Playing
  <1> HIDE DEF heap, q, n
  <1>5. ~MustWait(a, n)
    <2>1. ASSUME MustWait(a, n) PROVE FALSE
      <3>1. m_QueuedPlayer' = Append(q, s)
        BY <1>3, <2>1 DEF Enqueue
      <3>2. /\ Append(q, s) \in Seq(Session)
            /\ Append(q, s)[Len(q) + 1] = s /\ Len(q) \in Nat
            /\ Len(Append(q, s)) = Len(q) + 1
        BY <1>1, <1>2, AppendProperties, LenProperties
      <3>3. DOMAIN Append(q, s) = 1..(Len(q) + 1)
        BY <3>2, LenProperties
      <3>4. Len(q) + 1 \in 1..(Len(q) + 1)
        BY <3>2
      <3>5. s \in ToSet(Append(q, s))
        BY <3>2, <3>3, <3>4 DEF ToSet
      <3> QED
        BY <1>4, <3>1, <3>5 DEF Waiting
    <2> QED
      BY <2>1
  <1>6. ~(n >= m_playerLimit)
    <2>1. ASSUME n >= m_playerLimit PROVE FALSE
      <3> DEFINE e == /\ m_playerLimit > 0 /\ n >= m_playerLimit
                      /\ a \notin GMs /\ HasRecentlyDisconnected(a)
      <3>1. sess' = [heap EXCEPT ![s].told = 0, ![s].exempt = e]
        BY <1>3, <1>5 DEF Enter
      <3>2. sess'[s] = [sess[s] EXCEPT !.told = 0, !.exempt = e]
        <4> HIDE DEF e, a
        <4> QED
          BY <1>1, <1>2, <3>1
      <3>3. sess'[s].account = a /\ sess'[s].exempt = e
        <4> HIDE DEF e
        <4> QED
          BY <1>1, <3>2 DEF SessionRec
      <3>4. ~e
        BY <1>4, <3>3, Zenon
      <3>5. a \notin GMs
        BY <1>4, <3>3
      <3>6. MustWait(a, n)
        BY <2>1, <3>4, <3>5 DEF MustWait
      <3> QED
        BY <1>5, <3>6
    <2> QED
      BY <2>1
  <1> QED
    BY <1>5, <1>6 DEF n

\* Besides the newcomer, those who play did so before, unless the one whose
\* place it takes made room for somebody.
LEMMA ListPlaying ==
  ASSUME SessionsInv, phase = "accept", addSessQueue # <<>>,
         NEW s, s = Head(addSessQueue), NEW old,
         old = m_sessions[sess[s].account], ListSession(s, old),
         ~(old # NULL /\ Accepts(m_QueuedPlayer, old))
  PROVE  Playing' \subseteq Playing \cup {s}
  <1> DEFINE a == sess[s].account
             gone == {old} \ {NULL}
             heap == IF old = NULL THEN sess
                     ELSE Delete(HeapAfter(m_QueuedPlayer, old), old)
             q == IF old = NULL THEN m_QueuedPlayer
                  ELSE QueueAfter(m_QueuedPlayer, old)
             n == CountedSessions(a, s, old)
  <1>1. s \in Session /\ s \notin Listed /\ a \in Account
    BY FirstPending
  <1>2. old # NULL => old \in Listed
    BY <1>1 DEF Listed, ListedIn
  <1>3. /\ m_QueuedPlayer \in Seq(Session) /\ IsInjective(m_QueuedPlayer)
        /\ \A x \in Listed : x \in Session /\ sess[x] # NULL
        /\ m_sessions \in [Account -> Session \cup {NULL}]
    BY Containers DEF SessionsInv, Structure, LineSound, Placed, TypeOK
  <1>4. q \in Seq(Session) /\ ToSet(q) = Waiting \ gone
          /\ Left(heap, q, gone)
    <2>1. CASE old = NULL
      BY <1>3, <2>1, LeftAll DEF Waiting
    <2>2. CASE old # NULL
      <3>1. LET r == QueueAfter(m_QueuedPlayer, old)
            IN  /\ r \in Seq(Session)
                /\ ToSet(r) = ToSet(m_QueuedPlayer)
                                 \ ({old} \cup Admitted(m_QueuedPlayer, old))
        <4>1. m_QueuedPlayer \in Seq(Session) /\ IsInjective(m_QueuedPlayer)
          BY <1>3
        <4> QED
          BY ONLY <4>1, QueueAfterSound
      <3>2. Admitted(m_QueuedPlayer, old) = {}
        BY <2>2 DEF Admitted
      <3>3. Left(heap, q, {old})
        BY <1>2, <2>2, LeftOthers
      <3> QED
        BY <2>2, <3>1, <3>2, <3>3 DEF Waiting
    <2> QED
      BY <2>1, <2>2
  <1>5. /\ m_sessions' = [m_sessions EXCEPT ![a] = s]
        /\ Enqueue(heap, q, s) \/ Enter(heap, q, s, n)
    BY DEF ListSession
  <1>6. gone \in SUBSET Listed
    BY <1>2
  <1> HIDE DEF heap, q, n, gone
  <1>7. /\ m_QueuedPlayer' = q \/ m_QueuedPlayer' = Append(q, s)
        /\ \A x \in Session \ {s} : sess'[x] = heap[x]
    <2>1. DOMAIN heap = Session
      BY <1>4 DEF Left, Heap
    <2> QED
      BY <1>5, <2>1 DEF Enqueue, Enter
  <1>8. \A x \in Session \ gone :
           sess[x] # NULL => /\ heap[x].account = sess[x].account
                             /\ heap[x].exempt = sess[x].exempt
    BY <1>4, <1>6, LeftSound
  <1>9. ToSet(q) \subseteq Waiting'
    <2>1. ToSet(q) \subseteq ToSet(Append(q, s))
      BY <1>1, <1>4, AppendProperties, LenProperties DEF ToSet
    <2> QED
      BY <1>7, <2>1 DEF Waiting
  <1>10. Listed' \subseteq (Listed \ gone) \cup {s}
    <2>1. \A b \in ListedIn(m_sessions)' \ {a} :
            b \in ListedIn(m_sessions) /\ m_sessions'[b] = m_sessions[b]
      BY <1>1, <1>3, <1>5 DEF ListedIn
    <2>2. \A b \in ListedIn(m_sessions) \ {a} : m_sessions[b] \notin gone
      <3> SUFFICES ASSUME NEW b \in ListedIn(m_sessions), m_sessions[b] = old,
                          old # NULL
                   PROVE  b = a
        BY DEF gone
      <3>1. a \in ListedIn(m_sessions)
        BY <1>1 DEF ListedIn
      <3> QED
        BY <3>1, ListedSession
    <2>3. m_sessions'[a] = s
      BY <1>1, <1>3, <1>5
    <2> QED
      BY <2>1, <2>2, <2>3 DEF Listed
  <1>11. \A x \in Playing' : x # s => x \in Playing
    <2> SUFFICES ASSUME NEW x \in Playing', x # s PROVE x \in Playing
      OBVIOUS
    <2>1. x \in Listed' /\ x \notin Waiting' /\ sess'[x].account \notin GMs
            /\ ~sess'[x].exempt
      BY DEF Playing
    <2>2. x \in Listed /\ x \notin gone /\ x \notin Waiting
      BY <1>4, <1>9, <1>10, <2>1
    <2>3. sess'[x] = heap[x] /\ heap[x].account = sess[x].account
            /\ heap[x].exempt = sess[x].exempt
      BY <1>3, <1>7, <1>8, <2>2
    <2> QED
      BY <2>1, <2>2, <2>3 DEF Playing
  <1> QED
    BY <1>11

\* A newcomer is let in below the limit, or is not counted among the players.
LEMMA ListCapacity ==
  ASSUME SessionsInv, SessionsInv', WorkConserving, Capacity,
         phase = "accept", addSessQueue # <<>>,
         m_playerLimit > 0, ~stopping,
         NEW s, s = Head(addSessQueue), NEW old,
         old = m_sessions[sess[s].account], ListSession(s, old)
  PROVE  Cardinality(Playing') <= m_playerLimit
  <1> DEFINE L      == m_playerLimit
             a      == sess[s].account
             n      == CountedSessions(a, s, old)
             found  == old # NULL /\ Found(m_QueuedPlayer, old)
             enters == old # NULL /\ Accepts(m_QueuedPlayer, old)
             left   == Q - (IF found THEN 1 ELSE 0)
                         - (IF enters THEN 1 ELSE 0)
             waits  == MustWait(a, n)
  <1>1. /\ N' = N + (IF old = NULL THEN 1 ELSE 0)
        /\ n = N' - (IF found THEN 0 ELSE 1)
        /\ found => ~enters /\ Q > 0
        /\ ~found /\ old # NULL => (enters <=> Q > 0 /\ N - Q = L)
        /\ IF waits THEN Q' = left + 1 ELSE Q' = left
    BY ListCounts
  <1>2. /\ N \in Nat /\ Q \in Nat /\ L \in Int /\ N - Q \in Nat
        /\ Q > 0 => L > 0 /\ N - Q >= L
    BY Sizes
  <1>3. s \in Playing' => ~waits /\ ~(n >= L)
    BY EntersBelow
  <1>4. ~enters => Playing' \subseteq Playing \cup {s}
    BY ListPlaying
  <1>5. old = NULL => ~found /\ ~enters
    OBVIOUS
  <1> HIDE DEF n, found, enters, waits
  <1>6. /\ IsFiniteSet(Playing') /\ Playing' \subseteq In'
        /\ Cardinality(Playing') \in Nat
        /\ Cardinality(Playing') <= N' - Q' /\ N' \in Nat /\ Q' \in Nat
        /\ IsFiniteSet(In') /\ Cardinality(In') = N' - Q'
    BY PlayersInNext, SizesNext
  <1>7. CASE s \in Playing'
    <2>1. N' - Q' <= L
      <3>1. CASE old = NULL
        BY <1>1, <1>2, <1>3, <1>5, <1>7, <3>1
      <3>2. CASE old # NULL /\ found
        BY <1>1, <1>2, <1>3, <1>7, <3>2
      <3>3. CASE old # NULL /\ ~found /\ enters
        BY <1>1, <1>2, <1>3, <1>7, <3>3
      <3>4. CASE old # NULL /\ ~found /\ ~enters
        BY <1>1, <1>2, <1>3, <1>7, <3>4
      <3> QED
        BY <3>1, <3>2, <3>3, <3>4
    <2> QED
      BY <1>2, <1>6, <2>1
  <1>8. CASE s \notin Playing' /\ ~enters
    BY <1>4, <1>8, FewerPlay
  <1>9. CASE s \notin Playing' /\ enters
    <2>1. old # NULL /\ ~found /\ N - Q = L /\ Q > 0
      BY <1>1, <1>5, <1>9
    <2>2. CASE waits
      BY <1>1, <1>2, <1>6, <1>9, <2>1, <2>2
    <2>3. CASE ~waits
      <3>1. N' - Q' = L + 1
        BY <1>1, <1>2, <1>9, <2>1, <2>3
      <3>2. s \in In'
        <4>1. s \in Session /\ s \notin Listed /\ s \notin Waiting
                /\ a \in Account /\ s # NULL
          BY FirstPending
        <4>2. /\ m_sessions' = [m_sessions EXCEPT ![a] = s]
              /\ m_QueuedPlayer' = QueueAfter(m_QueuedPlayer, old)
          BY <2>1, <2>3 DEF ListSession, Enter, waits, n
        <4>3. ToSet(QueueAfter(m_QueuedPlayer, old)) \subseteq Waiting
          BY RemovedInOrder
        <4>4. s \in Listed'
          <5>1. m_sessions \in [Account -> Session \cup {NULL}]
            BY DEF SessionsInv, TypeOK
          <5>2. m_sessions'[a] = s /\ a \in ListedIn(m_sessions)'
            BY <4>1, <4>2, <5>1 DEF ListedIn
          <5> QED
            BY <5>2 DEF Listed
        <4>5. s \notin Waiting'
          BY <4>1, <4>2, <4>3 DEF Waiting
        <4> QED
          BY <4>4, <4>5 DEF In
      <3>3. IsFiniteSet(In' \ {s}) /\ Cardinality(In' \ {s}) = L
        <4> DEFINE I == In'
        <4>1. IsFiniteSet(I) /\ s \in I /\ Cardinality(I) = L + 1
          BY <1>6, <3>1, <3>2
        <4> HIDE DEF I
        <4>2. /\ IsFiniteSet(I \ {s})
              /\ Cardinality(I \ {s}) = IF s \in I THEN Cardinality(I) - 1
                                                  ELSE Cardinality(I)
          BY <4>1, FS_RemoveElement
        <4>3. Cardinality(I \ {s}) = L
          BY <1>2, <4>1, <4>2
        <4> QED
          BY <4>2, <4>3 DEF I
      <3>4. Playing' \subseteq In' \ {s}
        BY <1>6, <1>9
      <3>5. Cardinality(Playing') <= Cardinality(In' \ {s})
        BY <3>3, <3>4, FS_Subset
      <3> QED
        BY <3>3, <3>5
    <2> QED
      BY <2>2, <2>3
  <1> QED
    BY <1>7, <1>8, <1>9

\* No step lets in more players than the limit.
LEMMA CapacityKept ==
  SessionsInv /\ SessionsInv' /\ WorkConserving /\ Capacity /\ [Next]_vars
    /\ m_playerLimit' = m_playerLimit => Capacity'
  <1> SUFFICES ASSUME SessionsInv, SessionsInv', WorkConserving, Capacity,
                      [Next]_vars, m_playerLimit' = m_playerLimit,
                      m_playerLimit > 0, ~stopping'
               PROVE  Cardinality(Playing') <= m_playerLimit
    BY DEF Capacity
  <1>1. stopping' = stopping \/ stopping' = TRUE
    BY DEF Next, Network, MainThread, SocketClosed, AuthSession, AddSession_,
           AllAdded, BeginUpdate, HandlePlayerLoginOpcode, LogoutPlayer,
           EndUpdate, AllUpdated, HandlePlayerLoginCallback, AllResults,
           KickPlayer, ReloadConfig, NextTick, KickAll, ToleranceElapses,
           Stopped, vars, loopVars
  <1>2. ~stopping
    BY <1>1, Zenon
  <1>3. CASE EndUpdate /\ ~UNCHANGED sess
    BY <1>3, <1>2, EndCapacity
  <1>4. CASE /\ phase = "accept" /\ addSessQueue # <<>>
             /\ ListSession(Head(addSessQueue),
                            m_sessions[sess[Head(addSessQueue)].account])
    BY <1>4, <1>2, ListCapacity
  <1>5. CASE ~Moves
    <2>1. Playing' \subseteq Playing
      BY <1>5, OthersStay
    <2> QED
      BY <1>2, <2>1, FewerPlay
  <1> QED
    BY <1>3, <1>4, <1>5 DEF Moves

\* As long as the limit is not reloaded, no more players than PlayerLimit are
\* in, besides game masters and those let in again after a disconnection.
THEOREM LimitIsKept ==
  Spec /\ [][UNCHANGED m_playerLimit]_vars => []Capacity
  <1>1. Init => Capacity
    <2> SUFFICES ASSUME Init, m_playerLimit > 0
                 PROVE  Cardinality(Playing) <= m_playerLimit
      BY DEF Capacity
    <2>1. Playing = {}
      BY DEF Init, Playing, Listed, ListedIn
    <2>2. m_playerLimit \in Int
      BY DEF Init
    <2> QED
      BY <2>1, <2>2, FS_EmptySet
  <1>2. SessionsInv /\ SessionsInv' /\ WorkConserving /\ Capacity
          /\ [Next]_vars
          /\ [UNCHANGED m_playerLimit]_vars => Capacity'
    BY CapacityKept DEF vars
  <1> QED
    BY <1>1, <1>2, SessionsInvariant, NobodyWaitsForRoom, PTL DEF Spec
=============================================================================
