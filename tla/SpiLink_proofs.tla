---------------------------- MODULE SpiLink_proofs ----------------------------
(***************************************************************************)
(* Proofs about SpiLink for every number of packets and every size of the queues:    *)
(* that no edge of the two lines is lost, and that each class and direction is a      *)
(* FIFO channel.                                                               *)
(***************************************************************************)
EXTENDS SpiLink, Integers, SequenceTheorems, TLAPS

-----------------------------------------------------------------------------
(* The lines.  While the handlers are installed, both lines high means that        *)
(* esp_spi_work is queued: whichever line rises last queues it, and the work item    *)
(* itself only gives up when one of them is low.                                 *)

LinesServed ==
    ~ reclock => /\ irqs /\ rpc = "idle"
                 /\ handshake /\ data_ready => spi_work

LEMMA LinesInit == Init => LinesServed
BY DEF Init, LinesServed

LEMMA LinesStep == LinesServed /\ [Next]_vars => LinesServed'
<1> SUFFICES ASSUME LinesServed, [Next]_vars
             PROVE  LinesServed'
  OBVIOUS
<1>1. CASE UNCHANGED << handshake, data_ready, spi_work, rpc, path >>
  BY <1>1 DEF LinesServed, path
<1>2. ASSUME NEW c \in Classes,
             Produce(c) \/ SendTaskTakes(c) \/ NextTxBuffer(c) \/ QueueEmpty(c)
      PROVE  UNCHANGED << handshake, data_ready, spi_work, rpc, path >>
  BY <1>2, Zenon DEF Produce, SendTaskTakes, NextTxBuffer, QueueEmpty, spiWork, hostRx
<1>3. SendTaskQueues \/ TakeResult \/ ProcessRx \/ RecvTask \/ ProcessRxBuf \/ UNCHANGED vars
          => UNCHANGED << handshake, data_ready, spi_work, rpc, path >>
  BY Zenon DEF SendTaskQueues, TakeResult, ProcessRx, RecvTask, ProcessRxBuf, vars, spiWork, hostRx
<1>4. CASE SendTaskSignals
  BY <1>4 DEF SendTaskSignals, LinesServed, Edge, path, hostRx
<1>5. CASE ClearReady
  BY <1>5 DEF ClearReady, LinesServed, path, hostRx
<1>6. CASE Arm
  BY <1>6 DEF Arm, LinesServed, Edge, path, hostRx
<1>7. CASE HostWrites \/ Exchange \/ NoExchange
  BY <1>7 DEF HostWrites, Exchange, NoExchange, LinesServed, path, hostRx
<1>8. CASE RxWork
  BY <1>8 DEF RxWork, LinesServed, path, spiWork
<1>9. CASE Reinit
  BY <1>9 DEF Reinit, ReinitStep, LinesServed
<1>10. QED
  BY <1>1, <1>2, <1>3, <1>4, <1>5, <1>6, <1>7, <1>8, <1>9
     DEF Next, SendTask, PostProcess, SpiWork

\* Whatever the size of the queues and the order of the tasks, the work item and the
\* two interrupts: unless a reinit removes the handlers, the link never stands still
\* with a transaction armed and data-ready high (spi_post_setup_cb, esp_spi_work).
THEOREM EveryEdgeIsServed == Spec => []SignalledIsServed
<1>1. LinesServed => SignalledIsServed
  BY DEF LinesServed, SignalledIsServed, Idle
<1>2. QED
  BY <1>1, LinesInit, LinesStep, PTL DEF Spec

-----------------------------------------------------------------------------
(* Sequences of numbers. *)

NumSeq == Seq(Nat)

LEMMA Concat ==
    ASSUME NEW s \in NumSeq, NEW t \in NumSeq
    PROVE  /\ s \o t \in NumSeq /\ << >> \in NumSeq
           /\ s \o << >> = s /\ << >> \o s = s
BY ConcatProperties, ConcatEmptySeq DEF NumSeq

LEMMA Regroup == \A s, t, u \in NumSeq : (s \o t) \o u = s \o (t \o u)
BY ConcatAssociative DEF NumSeq

LEMMA SameNumbers ==
    ASSUME NEW s \in NumSeq, NEW t \in NumSeq, Len(s) = Len(t), \A k \in 1 .. Len(s) : s[k] = t[k]
    PROVE  s = t
BY SeqEqual DEF NumSeq

LEMMA AppendNumber ==
    ASSUME NEW s \in NumSeq, NEW n \in Nat
    PROVE  /\ Append(s, n) \in NumSeq /\ Len(Append(s, n)) = Len(s) + 1 /\ Len(s) \in Nat
           /\ \A k \in 1 .. Len(s) : Append(s, n)[k] = s[k]
           /\ Append(s, n)[Len(s) + 1] = n
           /\ Append(s, n) = s \o << n >>
<1>1. Append(s, n) = s \o << n >>
  BY AppendIsConcat DEF NumSeq
<1>2. QED
  BY <1>1 DEF NumSeq

LEMMA TailNumber ==
    ASSUME NEW s \in NumSeq, s # << >>
    PROVE  /\ Tail(s) \in NumSeq /\ Len(Tail(s)) = Len(s) - 1 /\ Len(s) \in Nat \ {0}
           /\ \A k \in 1 .. Len(s) - 1 : Tail(s)[k] = s[k + 1]
           /\ Head(s) = s[1] /\ Head(s) \in Nat
           /\ s = << Head(s) >> \o Tail(s)
BY DEF NumSeq

LEMMA NumbersType ==
    ASSUME NEW C, NEW q \in Seq(C \X Nat)
    PROVE  Numbers(q) \in NumSeq /\ Len(Numbers(q)) = Len(q)
           /\ \A k \in 1 .. Len(q) : Numbers(q)[k] = q[k][2]
BY DEF Numbers, NumSeq

LEMMA NumbersEmpty == Numbers(<< >>) = << >>
BY DEF Numbers

LEMMA NumbersAppend ==
    \A C : \A q \in Seq(C \X Nat), p \in C \X Nat :
        Numbers(Append(q, p)) = Append(Numbers(q), p[2])
<1> TAKE C
<1> TAKE q \in Seq(C \X Nat), p \in C \X Nat
<1> DEFINE w == Append(q, p)
           N == Numbers(w)
           A == Append(Numbers(q), p[2])
<1>1. /\ w \in Seq(C \X Nat) /\ Len(w) = Len(q) + 1 /\ Len(q) \in Nat
      /\ \A k \in 1 .. Len(q) : w[k] = q[k]
      /\ w[Len(q) + 1] = p
  OBVIOUS
<1>2. N \in NumSeq /\ Len(N) = Len(w) /\ \A k \in 1 .. Len(w) : N[k] = w[k][2]
  <2> HIDE DEF w
  <2>1. QED
    BY <1>1, NumbersType
<1>3. p[2] \in Nat
  OBVIOUS
<1>4. Numbers(q) \in NumSeq /\ Len(Numbers(q)) = Len(q) /\ \A k \in 1 .. Len(q) : Numbers(q)[k] = q[k][2]
  BY NumbersType
<1>5. /\ A \in NumSeq /\ Len(A) = Len(q) + 1
      /\ \A k \in 1 .. Len(q) : A[k] = q[k][2]
      /\ A[Len(q) + 1] = p[2]
  <2> DEFINE s == Numbers(q)
             n == p[2]
  <2>1. s \in NumSeq /\ n \in Nat /\ Len(s) = Len(q)
    BY <1>3, <1>4
  <2>2. \A k \in 1 .. Len(q) : s[k] = q[k][2]
    BY <1>4
  <2> HIDE DEF s, n
  <2>3. /\ Append(s, n) \in NumSeq /\ Len(Append(s, n)) = Len(s) + 1
        /\ \A k \in 1 .. Len(s) : Append(s, n)[k] = s[k]
        /\ Append(s, n)[Len(s) + 1] = n
    BY <2>1, AppendNumber, Zenon
  <2>4. QED
    BY <2>1, <2>2, <2>3 DEF s, n
<1> HIDE DEF w, N, A
<1>6. N = A
  <2>1. ASSUME NEW k \in 1 .. Len(N)
        PROVE  N[k] = A[k]
    <3>1. k \in 1 .. Len(w) /\ (k \in 1 .. Len(q) \/ k = Len(q) + 1)
      BY <1>1, <1>2
    <3>2. N[k] = w[k][2]
      BY <1>2, <3>1
    <3>3. CASE k \in 1 .. Len(q)
      BY <1>1, <1>5, <3>2, <3>3
    <3>4. CASE k = Len(q) + 1
      BY <1>1, <1>5, <3>2, <3>4
    <3>5. QED
      BY <3>1, <3>3, <3>4
  <2>2. Len(N) = Len(A)
    BY <1>1, <1>2, <1>5
  <2>3. QED
    BY <1>2, <1>5, <2>1, <2>2, SameNumbers
<1>7. QED
  BY <1>6 DEF N, A, w

LEMMA NumbersTake ==
    ASSUME NEW C, NEW q \in Seq(C \X Nat), q # << >>
    PROVE  /\ Head(q) \in C \X Nat /\ Tail(q) \in Seq(C \X Nat)
           /\ Numbers(q) # << >> /\ Head(Numbers(q)) = Head(q)[2]
           /\ Tail(Numbers(q)) = Numbers(Tail(q))
           /\ Numbers(q) = << Head(q)[2] >> \o Numbers(Tail(q))
<1> DEFINE w == Tail(q)
           N == Numbers(w)
           M == Numbers(q)
<1>1. /\ Head(q) \in C \X Nat /\ w \in Seq(C \X Nat) /\ Len(q) \in Nat /\ Len(q) >= 1
      /\ Len(w) = Len(q) - 1 /\ Head(q) = q[1]
      /\ \A k \in 1 .. Len(q) - 1 : w[k] = q[k + 1]
  OBVIOUS
<1>2. N \in NumSeq /\ Len(N) = Len(w) /\ \A k \in 1 .. Len(w) : N[k] = w[k][2]
  <2> HIDE DEF w
  <2>1. QED
    BY <1>1, NumbersType
<1>3. M \in NumSeq /\ Len(M) = Len(q) /\ \A k \in 1 .. Len(q) : M[k] = q[k][2]
  BY NumbersType
<1> HIDE DEF w, N, M
<1>4. M # << >> /\ Len(M) \in Nat
  BY <1>1, <1>3
<1>5. /\ Tail(M) \in NumSeq /\ Len(Tail(M)) = Len(M) - 1 /\ Head(M) = M[1]
      /\ \A k \in 1 .. Len(M) - 1 : Tail(M)[k] = M[k + 1]
      /\ M = << Head(M) >> \o Tail(M)
  BY <1>3, <1>4, TailNumber
<1>6. Head(M) = Head(q)[2]
  <2>1. 1 \in 1 .. Len(q)
    BY <1>1
  <2>2. M[1] = q[1][2]
    BY <1>3, <2>1
  <2>3. QED
    BY <1>1, <1>5, <2>2
<1>7. Tail(M) = N
  <2>1. ASSUME NEW k \in 1 .. Len(Tail(M))
        PROVE  Tail(M)[k] = N[k]
    <3> DEFINE n == Len(q)
    <3>0. n \in Nat /\ Len(w) = n - 1 /\ Len(M) = n /\ Len(Tail(M)) = n - 1
      BY <1>1, <1>3, <1>5
    <3> HIDE DEF n
    <3>1. k \in 1 .. Len(w) /\ k \in 1 .. Len(M) - 1 /\ k + 1 \in 1 .. n /\ k \in 1 .. n - 1
      BY <3>0
    <3> USE DEF n
    <3>2. Tail(M)[k] = q[k + 1][2]
      BY <1>3, <1>5, <3>1
    <3>3. N[k] = w[k][2] /\ w[k] = q[k + 1]
      BY <1>1, <1>2, <3>1
    <3>4. QED
      BY <3>2, <3>3
  <2>2. Len(Tail(M)) = Len(N)
    BY <1>1, <1>2, <1>3, <1>5
  <2>3. QED
    BY <1>2, <1>5, <2>1, <2>2, SameNumbers
<1>8. QED
  BY <1>1, <1>4, <1>5, <1>6, <1>7 DEF M, N, w

\* The head of a chain of two is that of its first part, unless it is empty.
LEMMA TakeFirst ==
    ASSUME NEW s \in NumSeq, NEW t \in NumSeq, s # << >>
    PROVE  s \o t # << >> /\ Head(s \o t) = Head(s) /\ Tail(s \o t) = Tail(s) \o t
           /\ Tail(s) \in NumSeq
BY DEF NumSeq

LEMMA AppendLast ==
    ASSUME NEW s \in NumSeq, NEW t \in NumSeq, NEW n \in Nat
    PROVE  s \o Append(t, n) = Append(s \o t, n) /\ Append(t, n) \in NumSeq
BY DEF NumSeq

\* What is left without the i-th element, as SequencesExt has it.
WithoutAt(s, k) == SubSeq(s, 1, k - 1) \o SubSeq(s, k + 1, Len(s))

LEMMA DropOne ==
    ASSUME NEW s \in NumSeq, NEW t \in NumSeq, NEW n \in Nat
    PROVE  /\ Len(s) + 1 \in DOMAIN ((s \o << n >>) \o t)
           /\ WithoutAt((s \o << n >>) \o t, Len(s) + 1) = s \o t
<1> DEFINE w == (s \o << n >>) \o t
           a == SubSeq(w, 1, Len(s))
           b == SubSeq(w, Len(s) + 2, Len(w))
<1>1. << n >> \in NumSeq /\ Len(<< n >>) = 1 /\ Len(s) \in Nat /\ Len(t) \in Nat
  BY DEF NumSeq
<1>2. /\ s \o << n >> \in NumSeq /\ Len(s \o << n >>) = Len(s) + 1
      /\ \A k \in 1 .. Len(s) : (s \o << n >>)[k] = s[k]
  BY <1>1, ConcatProperties DEF NumSeq
<1>3. /\ w \in NumSeq /\ Len(w) = Len(s) + 1 + Len(t)
      /\ \A k \in 1 .. Len(s) : w[k] = s[k]
      /\ \A k \in 1 .. Len(t) : w[Len(s) + 1 + k] = t[k]
  BY <1>1, <1>2, ConcatProperties DEF NumSeq
<1> HIDE DEF w
<1>4. a \in NumSeq /\ Len(a) = Len(s) /\ \A k \in 1 .. Len(s) : a[k] = s[k]
  <2> DEFINE n2 == Len(s)
  <2>1. n2 \in Nat /\ 1 \in Int /\ n2 \in Int /\ \A k \in 1 .. n2 : 1 + k - 1 = k
    BY <1>1
  <2>2. \A k \in 1 .. n2 : w[k] \in Nat
    BY <1>3 DEF NumSeq
  <2> HIDE DEF n2
  <2>3. /\ SubSeq(w, 1, n2) \in Seq(Nat)
        /\ Len(SubSeq(w, 1, n2)) = IF 1 <= n2 THEN n2 - 1 + 1 ELSE 0
        /\ \A k \in 1 .. n2 - 1 + 1 : SubSeq(w, 1, n2)[k] = w[1 + k - 1]
    BY <2>1, <2>2, SubSeqProperties
  <2>4. Len(SubSeq(w, 1, n2)) = n2
    BY <2>1, <2>3
  <2>5. \A k \in 1 .. n2 : SubSeq(w, 1, n2)[k] = w[k]
    BY <2>1, <2>3
  <2>6. QED
    BY <1>3, <2>3, <2>4, <2>5 DEF NumSeq, n2
<1>5. b \in NumSeq /\ Len(b) = Len(t) /\ \A k \in 1 .. Len(t) : b[k] = t[k]
  <2> DEFINE m == Len(s) + 2
             n2 == Len(w)
  <2>1. m \in Int /\ n2 \in Int /\ n2 - m + 1 = Len(t) /\ (m <= n2 <=> Len(t) >= 1)
        /\ \A k \in 1 .. Len(t) : m + k - 1 = Len(s) + 1 + k
    BY <1>1, <1>3
  <2>2. \A k \in m .. n2 : w[k] \in Nat
    BY <1>1, <1>3 DEF NumSeq
  <2> HIDE DEF m, n2
  <2>3. /\ SubSeq(w, m, n2) \in Seq(Nat)
        /\ Len(SubSeq(w, m, n2)) = IF m <= n2 THEN n2 - m + 1 ELSE 0
        /\ \A k \in 1 .. n2 - m + 1 : SubSeq(w, m, n2)[k] = w[m + k - 1]
    BY <2>1, <2>2, SubSeqProperties
  <2>4. Len(SubSeq(w, m, n2)) = Len(t)
    BY <1>1, <2>1, <2>3
  <2>5. \A k \in 1 .. Len(t) : SubSeq(w, m, n2)[k] = t[k]
    BY <1>3, <2>1, <2>3
  <2>6. QED
    BY <2>3, <2>4, <2>5 DEF NumSeq, m, n2
<1> HIDE DEF a, b
<1>6. a = s /\ b = t
  BY <1>4, <1>5, SameNumbers
<1>7. WithoutAt(w, Len(s) + 1) = a \o b
  <2>1. (Len(s) + 1) - 1 = Len(s) /\ (Len(s) + 1) + 1 = Len(s) + 2
    BY <1>1
  <2>2. QED
    BY <2>1 DEF WithoutAt, a, b
<1>8. Len(s) + 1 \in DOMAIN w
  BY <1>1, <1>3 DEF NumSeq
<1>9. QED
  BY <1>6, <1>7, <1>8 DEF w

-----------------------------------------------------------------------------
(* The provers unfold \o wherever they meet it; ++ is the same operator, unfolded where  *)
(* a proof says so.                                                             *)

s ++ t == s \o t

LEMMA GlueAlgebra ==
    /\ \A s, t \in NumSeq : s ++ t \in NumSeq
    /\ \A s, t, u \in NumSeq : (s ++ t) ++ u = s ++ (t ++ u)
    /\ << >> \in NumSeq
    /\ \A s \in NumSeq : s ++ << >> = s /\ << >> ++ s = s
<1>1. \A s, t \in NumSeq : s ++ t \in NumSeq
  BY Concat DEF ++
<1>2. \A s, t, u \in NumSeq : (s ++ t) ++ u = s ++ (t ++ u)
  BY Regroup DEF ++
<1>3. << >> \in NumSeq
  BY DEF NumSeq
<1>4. \A s \in NumSeq : s ++ << >> = s /\ << >> ++ s = s
  BY Concat DEF ++
<1>5. QED
  BY <1>1, <1>2, <1>3, <1>4

LEMMA GlueMove ==
    ASSUME NEW s \in NumSeq, NEW t \in NumSeq, NEW u \in NumSeq, NEW x \in NumSeq, NEW y \in NumSeq,
           t ++ u = x ++ y
    PROVE  (s ++ t) ++ u = (s ++ x) ++ y
BY GlueAlgebra

(* A path of seven places, from the oldest packet to the youngest.  ToHost has seven  *)
(* places, ToSlave four.                                                        *)

Path(a, b, c, d, e, f, g) == a ++ b ++ c ++ d ++ e ++ f ++ g

OnPath(a, b, c, d, e, f, g) ==
    a \in NumSeq /\ b \in NumSeq /\ c \in NumSeq /\ d \in NumSeq /\ e \in NumSeq /\ f \in NumSeq /\ g \in NumSeq

\* A packet that moves from a place to the one before it leaves the path as it was.
LEMMA PathMoves ==
    \A a, b, c, d, e, f, g, x, y :
        OnPath(a, b, c, d, e, f, g) =>
        /\ OnPath(x, y, c, d, e, f, g) /\ a ++ b = x ++ y => Path(a, b, c, d, e, f, g) = Path(x, y, c, d, e, f, g)
        /\ OnPath(a, x, y, d, e, f, g) /\ b ++ c = x ++ y => Path(a, b, c, d, e, f, g) = Path(a, x, y, d, e, f, g)
        /\ OnPath(a, b, x, y, e, f, g) /\ c ++ d = x ++ y => Path(a, b, c, d, e, f, g) = Path(a, b, x, y, e, f, g)
        /\ OnPath(a, b, c, x, y, f, g) /\ d ++ e = x ++ y => Path(a, b, c, d, e, f, g) = Path(a, b, c, x, y, f, g)
        /\ OnPath(a, b, c, d, x, y, g) /\ e ++ f = x ++ y => Path(a, b, c, d, e, f, g) = Path(a, b, c, d, x, y, g)
        /\ OnPath(a, b, c, d, e, x, y) /\ f ++ g = x ++ y => Path(a, b, c, d, e, f, g) = Path(a, b, c, d, e, x, y)
<1> TAKE a, b, c, d, e, f, g, x, y
<1> HAVE OnPath(a, b, c, d, e, f, g)
<1>0. a \in NumSeq /\ b \in NumSeq /\ c \in NumSeq /\ d \in NumSeq /\ e \in NumSeq /\ f \in NumSeq /\ g \in NumSeq
  BY DEF OnPath
<1> DEFINE ab == a ++ b
           abc == ab ++ c
           abcd == abc ++ d
           abcde == abcd ++ e
<1>1. ab \in NumSeq
  BY <1>0, GlueAlgebra
<1> HIDE DEF ab
<1>2. abc \in NumSeq
  BY <1>0, <1>1, GlueAlgebra
<1> HIDE DEF abc
<1>3. abcd \in NumSeq
  BY <1>0, <1>2, GlueAlgebra
<1> HIDE DEF abcd
<1>4. abcde \in NumSeq
  BY <1>0, <1>3, GlueAlgebra
<1> HIDE DEF abcde
<1>5. ASSUME NEW h \in NumSeq, NEW s \in NumSeq, NEW t \in NumSeq, x \in NumSeq, y \in NumSeq, s ++ t = x ++ y
      PROVE  (h ++ s) ++ t = (h ++ x) ++ y
  BY <1>5, GlueMove
<1>6. OnPath(a, x, y, d, e, f, g) /\ b ++ c = x ++ y => (a ++ b) ++ c = (a ++ x) ++ y
  <2>1. OnPath(a, x, y, d, e, f, g) => x \in NumSeq /\ y \in NumSeq
    BY DEF OnPath
  <2>2. QED
    BY <1>0, <1>5, <2>1
<1>7. OnPath(a, b, x, y, e, f, g) /\ c ++ d = x ++ y => (ab ++ c) ++ d = (ab ++ x) ++ y
  <2>1. OnPath(a, b, x, y, e, f, g) => x \in NumSeq /\ y \in NumSeq
    BY DEF OnPath
  <2>2. QED
    BY <1>0, <1>1, <1>5, <2>1
<1>8. OnPath(a, b, c, x, y, f, g) /\ d ++ e = x ++ y => (abc ++ d) ++ e = (abc ++ x) ++ y
  <2>1. OnPath(a, b, c, x, y, f, g) => x \in NumSeq /\ y \in NumSeq
    BY DEF OnPath
  <2>2. QED
    BY <1>0, <1>2, <1>5, <2>1
<1>9. OnPath(a, b, c, d, x, y, g) /\ e ++ f = x ++ y => (abcd ++ e) ++ f = (abcd ++ x) ++ y
  <2>1. OnPath(a, b, c, d, x, y, g) => x \in NumSeq /\ y \in NumSeq
    BY DEF OnPath
  <2>2. QED
    BY <1>0, <1>3, <1>5, <2>1
<1>10. OnPath(a, b, c, d, e, x, y) /\ f ++ g = x ++ y => (abcde ++ f) ++ g = (abcde ++ x) ++ y
  <2>1. OnPath(a, b, c, d, e, x, y) => x \in NumSeq /\ y \in NumSeq
    BY DEF OnPath
  <2>2. QED
    BY <1>0, <1>4, <1>5, <2>1
<1>11. QED
  BY <1>6, <1>7, <1>8, <1>9, <1>10 DEF Path, ab, abc, abcd, abcde

LEMMA MoveFromFifth ==
    \A a, b, c, d, e, f, g, x, y :
        OnPath(a, b, c, d, e, f, g) /\ OnPath(a, b, c, x, y, f, g) /\ d ++ e = x ++ y
        => Path(a, b, c, d, e, f, g) = Path(a, b, c, x, y, f, g)
BY PathMoves

LEMMA MoveFromSeventh ==
    \A a, b, c, d, e, f, g, x, y :
        OnPath(a, b, c, d, e, f, g) /\ OnPath(a, b, c, d, e, x, y) /\ f ++ g = x ++ y
        => Path(a, b, c, d, e, f, g) = Path(a, b, c, d, e, x, y)
BY PathMoves

\* What happens at the ends of a path: a packet enters, a packet leaves, and the packet in
\* the second place is dropped.
Enters(a, b, c, d, e, f, g, n) ==
    Path(a, b, c, d, e, f, Append(g, n)) = Append(Path(a, b, c, d, e, f, g), n)

Leaves(a, b, c, d, e, f, g) ==
    a # << >> => /\ Path(a, b, c, d, e, f, g) # << >>
                 /\ Head(Path(a, b, c, d, e, f, g)) = Head(a)
                 /\ Tail(Path(a, b, c, d, e, f, g)) = Path(Tail(a), b, c, d, e, f, g)

Drops(a, c, d, e, f, g, n) ==
    \E i \in DOMAIN Path(a, << n >>, c, d, e, f, g) :
       Path(a, << >>, c, d, e, f, g) = WithoutAt(Path(a, << n >>, c, d, e, f, g), i)

LEMMA PathEnds ==
    \A a, b, c, d, e, f, g, n :
        OnPath(a, b, c, d, e, f, g) /\ n \in Nat =>
        /\ Path(a, b, c, d, e, f, g) \in NumSeq
        /\ Enters(a, b, c, d, e, f, g, n)
        /\ Leaves(a, b, c, d, e, f, g)
        /\ Drops(a, c, d, e, f, g, n)
<1> TAKE a, b, c, d, e, f, g, n
<1> HAVE OnPath(a, b, c, d, e, f, g) /\ n \in Nat
<1>0. /\ a \in NumSeq /\ b \in NumSeq /\ c \in NumSeq /\ d \in NumSeq /\ e \in NumSeq /\ f \in NumSeq
      /\ g \in NumSeq /\ n \in Nat
  BY DEF OnPath
<1> DEFINE r == (((c ++ d) ++ e) ++ f) ++ g
           R(x) == ((((x ++ c) ++ d) ++ e) ++ f) ++ g
<1>1. r \in NumSeq
  <2>1. c ++ d \in NumSeq
    BY <1>0, GlueAlgebra
  <2>2. (c ++ d) ++ e \in NumSeq
    BY <1>0, <2>1, GlueAlgebra
  <2>3. ((c ++ d) ++ e) ++ f \in NumSeq
    BY <1>0, <2>2, GlueAlgebra
  <2>4. QED
    BY <1>0, <2>3, GlueAlgebra
<1>2. ASSUME NEW x \in NumSeq
      PROVE  R(x) = x ++ r
  <2>1. (x ++ c) ++ d = x ++ (c ++ d) /\ c ++ d \in NumSeq
    BY <1>0, GlueAlgebra
  <2>2. (x ++ (c ++ d)) ++ e = x ++ ((c ++ d) ++ e) /\ (c ++ d) ++ e \in NumSeq
    BY <1>0, <2>1, GlueAlgebra
  <2>3. (x ++ ((c ++ d) ++ e)) ++ f = x ++ (((c ++ d) ++ e) ++ f) /\ ((c ++ d) ++ e) ++ f \in NumSeq
    BY <1>0, <2>2, GlueAlgebra
  <2>4. (x ++ (((c ++ d) ++ e) ++ f)) ++ g = x ++ r
    BY <1>0, <2>3, GlueAlgebra
  <2>5. QED
    BY <2>1, <2>2, <2>3, <2>4
<1>3. ASSUME NEW x \in NumSeq, NEW y \in NumSeq
      PROVE  /\ Path(x, y, c, d, e, f, g) = (x ++ y) ++ r
             /\ x ++ y \in NumSeq /\ y ++ r \in NumSeq
             /\ Path(x, y, c, d, e, f, g) = x ++ (y ++ r)
  <2>1. x ++ y \in NumSeq /\ y ++ r \in NumSeq
    BY <1>1, GlueAlgebra
  <2>2. Path(x, y, c, d, e, f, g) = R(x ++ y)
    BY DEF Path
  <2>3. R(x ++ y) = (x ++ y) ++ r
    BY <1>2, <2>1
  <2>4. (x ++ y) ++ r = x ++ (y ++ r)
    BY <1>1, GlueAlgebra
  <2>5. QED
    BY <2>1, <2>2, <2>3, <2>4
<1>4. Path(a, b, c, d, e, f, g) \in NumSeq
  <2> HIDE DEF r
  <2>1. QED
    BY <1>0, <1>1, <1>3, GlueAlgebra
<1>5. Path(a, b, c, d, e, f, Append(g, n)) = Append(Path(a, b, c, d, e, f, g), n)
  <2> DEFINE h == ((((a ++ b) ++ c) ++ d) ++ e) ++ f
  <2>1. a ++ b \in NumSeq
    BY <1>0, GlueAlgebra
  <2>2. (a ++ b) ++ c \in NumSeq
    BY <1>0, <2>1, GlueAlgebra
  <2>3. ((a ++ b) ++ c) ++ d \in NumSeq
    BY <1>0, <2>2, GlueAlgebra
  <2>4. (((a ++ b) ++ c) ++ d) ++ e \in NumSeq
    BY <1>0, <2>3, GlueAlgebra
  <2>5. h \in NumSeq
    BY <1>0, <2>4, GlueAlgebra
  <2> HIDE DEF h
  <2>6. h ++ Append(g, n) = Append(h ++ g, n)
    BY <1>0, <2>5, AppendLast DEF ++
  <2>7. QED
    BY <2>6 DEF h, Path
<1>6. a # << >> => /\ Path(a, b, c, d, e, f, g) # << >>
                   /\ Head(Path(a, b, c, d, e, f, g)) = Head(a)
                   /\ Tail(Path(a, b, c, d, e, f, g)) = Path(Tail(a), b, c, d, e, f, g)
  <2> SUFFICES ASSUME a # << >>
               PROVE  /\ Path(a, b, c, d, e, f, g) # << >>
                      /\ Head(Path(a, b, c, d, e, f, g)) = Head(a)
                      /\ Tail(Path(a, b, c, d, e, f, g)) = Path(Tail(a), b, c, d, e, f, g)
    OBVIOUS
  <2> DEFINE t == b ++ r
  <2>1. t \in NumSeq /\ Path(a, b, c, d, e, f, g) = a ++ t
    BY <1>0, <1>3
  <2> HIDE DEF t
  <2>2. a ++ t # << >> /\ Head(a ++ t) = Head(a) /\ Tail(a ++ t) = Tail(a) ++ t /\ Tail(a) \in NumSeq
    BY <1>0, <2>1, TakeFirst DEF ++
  <2>3. Path(Tail(a), b, c, d, e, f, g) = Tail(a) ++ t
    BY <1>0, <1>3, <2>2 DEF t
  <2>4. QED
    BY <2>1, <2>2, <2>3
<1>7. \E i \in DOMAIN Path(a, << n >>, c, d, e, f, g) :
         Path(a, << >>, c, d, e, f, g) = WithoutAt(Path(a, << n >>, c, d, e, f, g), i)
  <2>1. << n >> \in NumSeq /\ << >> \in NumSeq /\ a ++ << >> = a
    <3>1. << n >> \in NumSeq
      BY <1>0 DEF NumSeq
    <3>2. << >> \in NumSeq /\ a ++ << >> = a
      BY <1>0, GlueAlgebra, Zenon
    <3>3. QED
      BY <3>1, <3>2, Zenon
  <2>2. Path(a, << n >>, c, d, e, f, g) = (a ++ << n >>) ++ r
    BY <1>0, <1>3, <2>1
  <2>3. Path(a, << >>, c, d, e, f, g) = a ++ r
    <3>1. Path(a, << >>, c, d, e, f, g) = (a ++ << >>) ++ r
      BY <1>0, <1>3, <2>1
    <3>2. QED
      BY <2>1, <3>1
  <2> HIDE DEF r
  <2>4. /\ Len(a) + 1 \in DOMAIN ((a ++ << n >>) ++ r)
        /\ WithoutAt((a ++ << n >>) ++ r, Len(a) + 1) = a ++ r
    BY <1>0, <1>1, DropOne DEF ++
  <2>5. QED
    BY <2>2, <2>3, <2>4
<1>8. QED
  BY <1>4, <1>5, <1>6, <1>7, Zenon DEF Enters, Leaves, Drops

-----------------------------------------------------------------------------
(* The places.  Every queue holds packets of its class only, and each buffer is       *)
(* filled exactly while the task that fills it has not passed it on.                 *)

Pkt == Classes \X Nat
HostPkt == {"others"} \X Nat

IsQueues(q) == /\ q = [c \in Classes |-> q[c]]
               /\ \A c \in Classes : q[c] \in Seq({c} \X Nat)

Places ==
    /\ produced \in [Classes -> Nat] /\ to_network \in [Classes -> Nat]
    /\ written \in Nat /\ to_lwip \in Nat
    /\ IsQueues(to_host_queue) /\ IsQueues(spi_tx_queue) /\ IsQueues(rx_q)
    /\ tx_q \in Seq(HostPkt) /\ spi_rx_queue \in Seq(HostPkt)
    /\ sending \in Pkt \cup {NoPacket}
    /\ next \in Pkt \cup {NoPacket, Dummy}
    /\ armed \in Pkt \cup {NoPacket, Dummy}
    /\ rx_skb \in Pkt \cup {NoPacket, Dummy}
    /\ result \in HostPkt \cup {NoPacket, Dummy}
    /\ taken \in HostPkt \cup {NoPacket, Dummy}

Filled ==
    /\ sending # NoPacket <=> spc = "write"
    /\ rx_skb # NoPacket <=> kpc = "received"
    /\ next # NoPacket <=> ppc = "arm"
    /\ taken = NoPacket <=> ppc = "wait"
    /\ armed # NoPacket <=> handshake
    /\ armed = NoPacket \/ result = NoPacket
    /\ ppc \in {"others", "bt", "clear", "arm"} => armed = NoPacket /\ result = NoPacket

PathOpen == ~ reclock => data_path /\ rpc = "idle"

LinkInv == Places /\ Filled /\ PathOpen

LEMMA PacketFacts ==
    /\ NoPacket \notin Pkt /\ Dummy \notin Pkt /\ NoPacket # Dummy
    /\ HostPkt \subseteq Pkt
    /\ \A c \in Classes : {c} \X Nat \subseteq Pkt
    /\ \A p \in Pkt : p[1] \in Classes /\ p[2] \in Nat /\ p \in {p[1]} \X Nat /\ p = << p[1], p[2] >>
    /\ InitEvent \in Pkt /\ InitEvent \in HostPkt
    /\ Classes = {"others", "bt"} /\ "others" # "bt"
BY DEF NoPacket, Dummy, Pkt, HostPkt, Classes, InitEvent

LEMMA HeldFacts ==
    ASSUME NEW c \in Classes
    PROVE  /\ Held(NoPacket, c) = << >> /\ Held(Dummy, c) = << >>
           /\ \A p \in Pkt : /\ Held(p, c) \in NumSeq
                             /\ p[1] = c => Held(p, c) = << p[2] >>
                             /\ p[1] # c => Held(p, c) = << >>
           /\ << >> \in NumSeq
BY DEF NoPacket, Dummy, Pkt, Classes, Held, NumSeq

\* A packet put into a queue of its class ...
Put(q, k, p, w) == /\ IsQueues(q) /\ k \in Classes /\ p \in {k} \X Nat
                   /\ w = [q EXCEPT ![k] = Append(@, p)]

HasPut(q, k, p, w) == /\ \A c \in Classes : c # k => w[c] = q[c]
                      /\ Numbers(w[k]) = Numbers(q[k]) ++ << p[2] >>
                      /\ Numbers(w[k]) = Append(Numbers(q[k]), p[2])

LEMMA QueuePut ==
    \A q, k, p, w : Put(q, k, p, w) => IsQueues(w) /\ HasPut(q, k, p, w)
<1> TAKE q, k, p, w
<1> HAVE Put(q, k, p, w)
<1> USE DEF Put
<1>1. /\ w[k] = Append(q[k], p) /\ \A c \in Classes : c # k => w[c] = q[c]
      /\ w = [c \in Classes |-> w[c]]
  BY DEF IsQueues
<1>2. q[k] \in Seq({k} \X Nat)
  BY DEF IsQueues
<1>3. /\ Append(q[k], p) \in Seq({k} \X Nat)
      /\ Numbers(Append(q[k], p)) = Numbers(q[k]) \o << p[2] >>
      /\ Numbers(Append(q[k], p)) = Append(Numbers(q[k]), p[2])
  <2>1. Append(q[k], p) \in Seq({k} \X Nat)
    BY <1>2
  <2>2. Numbers(Append(q[k], p)) = Append(Numbers(q[k]), p[2])
    BY <1>2, NumbersAppend, Zenon
  <2>3. Numbers(q[k]) \in NumSeq /\ p[2] \in Nat
    BY <1>2, NumbersType
  <2>4. Append(Numbers(q[k]), p[2]) = Numbers(q[k]) \o << p[2] >>
    BY <2>3, AppendNumber, Zenon
  <2>5. QED
    BY <2>1, <2>2, <2>4
<1>4. IsQueues(w)
  BY <1>1, <1>3 DEF IsQueues
<1>5. QED
  BY <1>1, <1>3, <1>4, Zenon DEF ++, HasPut

\* ... and the first packet of a queue taken out.
Get(q, k, w) == /\ IsQueues(q) /\ k \in Classes /\ q[k] # << >>
                /\ w = [q EXCEPT ![k] = Tail(@)]

HasGot(q, k, w) == /\ \A c \in Classes : c # k => w[c] = q[c]
                   /\ Numbers(q[k]) = << Head(q[k])[2] >> ++ Numbers(w[k])
                   /\ Numbers(q[k]) # << >> /\ Head(Numbers(q[k])) = Head(q[k])[2]
                   /\ Numbers(w[k]) = Tail(Numbers(q[k]))

LEMMA QueueGet ==
    \A q, k, w : Get(q, k, w) => IsQueues(w) /\ Head(q[k]) \in {k} \X Nat /\ HasGot(q, k, w)
<1> TAKE q, k, w
<1> HAVE Get(q, k, w)
<1> USE DEF Get
<1>1. /\ w[k] = Tail(q[k]) /\ \A c \in Classes : c # k => w[c] = q[c]
      /\ w = [c \in Classes |-> w[c]]
  BY DEF IsQueues
<1>2. q[k] \in Seq({k} \X Nat)
  BY DEF IsQueues
<1>3. /\ Head(q[k]) \in {k} \X Nat /\ Tail(q[k]) \in Seq({k} \X Nat)
      /\ Numbers(q[k]) # << >> /\ Head(Numbers(q[k])) = Head(q[k])[2]
      /\ Tail(Numbers(q[k])) = Numbers(Tail(q[k]))
      /\ Numbers(q[k]) = << Head(q[k])[2] >> \o Numbers(Tail(q[k]))
  BY <1>2, NumbersTake
<1>4. IsQueues(w)
  BY <1>1, <1>3 DEF IsQueues
<1>5. QED
  BY <1>1, <1>3, <1>4, Zenon DEF ++, HasGot

LEMMA QueueNumbers ==
    ASSUME NEW q, IsQueues(q), NEW c \in Classes
    PROVE  Numbers(q[c]) \in NumSeq
BY NumbersType DEF IsQueues

-----------------------------------------------------------------------------
(* LinkInv is inductive. *)

LEMMA LinkInit == Init => LinkInv
<1> SUFFICES ASSUME Init
             PROVE  LinkInv
  OBVIOUS
<1>1. IsQueues(PerClass(<< >>))
  BY DEF IsQueues, PerClass
<1>2. Places
  BY <1>1, PacketFacts DEF Init, Places, PerClass, Classes
<1>3. Filled /\ PathOpen
  BY PacketFacts DEF Init, Filled, PathOpen, InitEvent, NoPacket
<1>4. QED
  BY <1>2, <1>3 DEF LinkInv

LEMMA PlacesStep == LinkInv /\ [Next]_vars => Places'
<1> SUFFICES ASSUME LinkInv, [Next]_vars
             PROVE  Places'
  OBVIOUS
<1> USE PacketFacts
<1>0. Places /\ Filled
  BY DEF LinkInv
<1>1. ASSUME NEW c \in Classes, Produce(c)
      PROVE  Places'
  <2>1. produced' \in [Classes -> Nat] /\ produced'[c] = produced[c] + 1 /\ produced[c] \in Nat
    <3>1. produced \in [Classes -> Nat]
      BY <1>0 DEF Places
    <3>2. produced' = [produced EXCEPT ![c] = @ + 1]
      BY <1>1, Zenon DEF Produce
    <3>3. QED
      BY <3>1, <3>2
  <2>2. << c, produced'[c] >> \in {c} \X Nat
    BY <2>1
  <2>3. to_host_queue' = [to_host_queue EXCEPT ![c] = Append(@, << c, produced'[c] >>)]
    BY <1>1 DEF Produce
  <2>4. Put(to_host_queue, c, << c, produced'[c] >>, to_host_queue')
    BY <1>0, <2>2, <2>3 DEF Places, Put
  <2>5. QED
    BY <1>0, <1>1, <2>1, <2>4, QueuePut, Zenon DEF Places, Produce, slaveRx, post, hostTx, hostRx, spiWork, path
<1>2. ASSUME NEW c \in Classes, SendTaskTakes(c)
      PROVE  Places'
  <2>1. to_host_queue[c] # << >> /\ to_host_queue' = [to_host_queue EXCEPT ![c] = Tail(@)]
        /\ sending' = Head(to_host_queue[c])
    BY <1>2 DEF SendTaskTakes, Served
  <2>2. IsQueues(to_host_queue') /\ sending' \in Pkt
    <3>1. Get(to_host_queue, c, to_host_queue')
      BY <1>0, <2>1 DEF Places, Get
    <3>2. QED
      BY <2>1, <3>1, QueueGet
  <2>3. QED
    BY <1>0, <1>2, <2>2, Zenon DEF Places, SendTaskTakes, slaveRx, post, hostTx, hostRx, spiWork, path
<1>3. CASE SendTaskQueues
  <2>1. sending \in Pkt /\ spi_tx_queue' = [spi_tx_queue EXCEPT ![sending[1]] = Append(@, sending)]
    BY <1>0, <1>3 DEF Places, Filled, SendTaskQueues
  <2>2. IsQueues(spi_tx_queue')
    <3>1. sending[1] \in Classes /\ sending \in {sending[1]} \X Nat
      BY <2>1
    <3>2. Put(spi_tx_queue, sending[1], sending, spi_tx_queue')
      BY <1>0, <2>1, <3>1 DEF Places, Put
    <3>3. QED
      BY <3>2, QueuePut
  <2>3. QED
    BY <1>0, <1>3, <2>2, Zenon DEF Places, SendTaskQueues, slaveRx, post, hostTx, hostRx, spiWork, path
<1>4. CASE SendTaskSignals
  BY <1>0, <1>4, Zenon DEF Places, SendTaskSignals, slaveRx, post, hostTx, hostRx, path
<1>5. CASE TakeResult
  BY <1>0, <1>5 DEF Places, TakeResult, slaveTx, slaveRx, hostTx, hostRx, spiWork, path
<1>6. ASSUME NEW c \in Classes, NextTxBuffer(c)
      PROVE  Places'
  <2>1. spi_tx_queue[c] # << >> /\ spi_tx_queue' = [spi_tx_queue EXCEPT ![c] = Tail(@)]
        /\ next' = Head(spi_tx_queue[c])
    BY <1>6 DEF NextTxBuffer, Received
  <2>2. IsQueues(spi_tx_queue') /\ next' \in Pkt
    <3>1. Get(spi_tx_queue, c, spi_tx_queue')
      BY <1>0, <2>1 DEF Places, Get
    <3>2. QED
      BY <2>1, <3>1, QueueGet
  <2>3. QED
    BY <1>0, <1>6, <2>2, Zenon DEF Places, NextTxBuffer, slaveTx, slaveRx, post, hostTx, hostRx, spiWork, path
<1>7. ASSUME NEW c \in Classes, QueueEmpty(c)
      PROVE  Places'
  BY <1>0, <1>7, Zenon DEF Places, QueueEmpty, slaveTx, slaveRx, hostTx, hostRx, spiWork, path
<1>8. CASE ClearReady
  BY <1>0, <1>8 DEF Places, ClearReady, slaveTx, slaveRx, hostTx, hostRx, spiWork, path
<1>9. CASE Arm
  BY <1>0, <1>9 DEF Places, Arm, slaveTx, slaveRx, hostTx, hostRx, path
<1>10. CASE ProcessRx
  <2>1. taken' = NoPacket /\ taken # NoPacket
    BY <1>0, <1>10 DEF Filled, ProcessRx
  <2>2. spi_rx_queue' \in Seq(HostPkt)
    <3>1. CASE taken = Dummy
      BY <1>0, <1>10, <3>1 DEF Places, ProcessRx
    <3>2. CASE taken # Dummy
      <4>1. taken \in HostPkt /\ spi_rx_queue' = Append(spi_rx_queue, taken)
        BY <1>0, <1>10, <2>1, <3>2 DEF Places, ProcessRx
      <4>2. QED
        BY <1>0, <4>1 DEF Places, HostPkt
    <3>3. QED
      BY <3>1, <3>2
  <2>3. QED
    BY <1>0, <1>10, <2>1, <2>2 DEF Places, ProcessRx, slaveTx, hostTx, hostRx, spiWork, path
<1>11. CASE RecvTask
  <2>1. spi_rx_queue # << >> /\ spi_rx_queue' = Tail(spi_rx_queue) /\ to_lwip' = Head(spi_rx_queue)[2]
    BY <1>11 DEF RecvTask
  <2>2. spi_rx_queue' \in Seq(HostPkt) /\ Head(spi_rx_queue) \in HostPkt
    BY <1>0, <2>1, NumbersTake DEF Places, HostPkt
  <2>3. to_lwip' \in Nat
    BY <2>1, <2>2
  <2>4. QED
    BY <1>0, <1>11, <2>2, <2>3, Zenon DEF Places, RecvTask, slaveTx, post, hostTx, hostRx, spiWork, path
<1>12. CASE HostWrites
  <2>1. written' \in Nat /\ << "others", written' >> \in HostPkt
        /\ tx_q' = Append(tx_q, << "others", written' >>)
    BY <1>0, <1>12 DEF Places, HostWrites, HostPkt
  <2>2. tx_q' \in Seq(HostPkt)
    BY <1>0, <2>1 DEF Places, HostPkt
  <2>3. QED
    BY <1>0, <1>12, <2>1, <2>2, Zenon DEF Places, HostWrites, slaveTx, slaveRx, post, hostRx, path
<1>13. CASE Exchange
  <2>1. tx_q' \in Seq(HostPkt) /\ result' \in HostPkt \cup {NoPacket, Dummy}
    <3>1. CASE HasTx
      <4>1. tx_q # << >> /\ tx_q' = Tail(tx_q) /\ result' = Head(tx_q)
        BY <1>13, <3>1 DEF Exchange, HasTx
      <4>2. QED
        BY <1>0, <4>1, NumbersTake DEF Places, HostPkt
    <3>2. CASE ~ HasTx
      BY <1>0, <1>13, <3>2 DEF Places, Exchange
    <3>3. QED
      BY <3>1, <3>2
  <2>2. QED
    BY <1>0, <1>13, <2>1 DEF Places, Exchange, slaveTx, slaveRx, post, hostRx, path
<1>14. CASE NoExchange
  BY <1>0, <1>14, Zenon DEF Places, NoExchange, slaveTx, slaveRx, post, hostTx, hostRx, path
<1>15. CASE ProcessRxBuf
  <2>1. rx_skb # NoPacket /\ rx_skb' = NoPacket
    BY <1>0, <1>15 DEF Filled, ProcessRxBuf
  <2>2. IsQueues(rx_q')
    <3>1. CASE rx_skb # Dummy /\ data_path
      <4>1. rx_skb \in Pkt /\ rx_q' = [rx_q EXCEPT ![rx_skb[1]] = Append(@, rx_skb)]
        BY <1>0, <1>15, <2>1, <3>1 DEF Places, ProcessRxBuf, SkbQueued
      <4>2. rx_skb[1] \in Classes /\ rx_skb \in {rx_skb[1]} \X Nat
        BY <4>1
      <4>3. Put(rx_q, rx_skb[1], rx_skb, rx_q')
        BY <1>0, <4>1, <4>2 DEF Places, Put
      <4>4. QED
        BY <4>3, QueuePut
    <3>2. CASE ~ (rx_skb # Dummy /\ data_path)
      BY <1>0, <1>15, <3>2 DEF Places, ProcessRxBuf
    <3>3. QED
      BY <3>1, <3>2
  <2>3. QED
    BY <1>0, <1>15, <2>1, <2>2 DEF Places, ProcessRxBuf, slaveTx, slaveRx, post, hostTx, path
<1>16. CASE RxWork
  <2>1. IsQueues(rx_q') /\ to_network' \in [Classes -> Nat]
    <3>1. CASE data_path /\ rx_q["others"] # << >>
      <4>1. /\ rx_q' = [rx_q EXCEPT !["others"] = Tail(@)]
            /\ to_network' = [to_network EXCEPT ![Head(rx_q["others"])[1]] = Head(rx_q["others"])[2]]
        BY <1>16, <3>1 DEF RxWork, Delivered
      <4>2. IsQueues(rx_q') /\ Head(rx_q["others"]) \in {"others"} \X Nat
        <5>1. Get(rx_q, "others", rx_q')
          BY <1>0, <3>1, <4>1 DEF Places, Get
        <5>2. QED
          BY <5>1, QueueGet
      <4>3. Head(rx_q["others"])[2] \in Nat
        BY <4>2
      <4>4. QED
        BY <1>0, <4>1, <4>2, <4>3 DEF Places
    <3>2. CASE ~ (data_path /\ rx_q["others"] # << >>)
      BY <1>0, <1>16, <3>2 DEF Places, RxWork
    <3>3. QED
      BY <3>1, <3>2
  <2>2. QED
    BY <1>0, <1>16, <2>1, Zenon DEF Places, RxWork, slaveTx, slaveRx, post, hostTx, spiWork, path
<1>17. CASE Reinit
  BY <1>0, <1>17, Zenon DEF Places, Reinit, ReinitStep, slaveTx, slaveRx, post, hostTx, spiWork
<1>18. CASE UNCHANGED vars
  BY <1>0, <1>18, Zenon DEF Places, vars, slaveTx, slaveRx, post, hostTx, spiWork, hostRx
<1>19. QED
  BY <1>1, <1>2, <1>3, <1>4, <1>5, <1>6, <1>7, <1>8, <1>9, <1>10, <1>11, <1>12, <1>13, <1>14,
     <1>15, <1>16, <1>17, <1>18, Zenon DEF Next, SendTask, PostProcess, SpiWork

LEMMA FilledStep == LinkInv /\ [Next]_vars => Filled'
<1> SUFFICES ASSUME LinkInv, [Next]_vars
             PROVE  Filled'
  OBVIOUS
<1> USE PacketFacts
<1>0. Places /\ Filled
  BY DEF LinkInv
<1>1. CASE UNCHANGED << spc, sending, kpc, rx_skb, ppc, next, taken, armed, result, handshake >>
  BY <1>0, <1>1 DEF Filled
<1>2. \/ \E c \in Classes : Produce(c)
      \/ RecvTask \/ HostWrites \/ NoExchange \/ RxWork \/ Reinit \/ UNCHANGED vars
      => UNCHANGED << spc, sending, kpc, rx_skb, ppc, next, taken, armed, result, handshake >>
  BY Zenon DEF Produce, RecvTask, HostWrites, NoExchange, RxWork, Reinit, ReinitStep, vars, slaveTx, post, spiWork
<1>3. ASSUME NEW c \in Classes, SendTaskTakes(c)
      PROVE  Filled'
  <2>1. to_host_queue[c] # << >> /\ sending' = Head(to_host_queue[c]) /\ to_host_queue[c] \in Seq({c} \X Nat)
    BY <1>0, <1>3 DEF SendTaskTakes, Served, Places, IsQueues
  <2>2. sending' # NoPacket
    BY <2>1, NumbersTake
  <2>3. QED
    BY <1>0, <1>3, <2>2 DEF Filled, SendTaskTakes, post, spiWork
<1>4. CASE SendTaskQueues \/ SendTaskSignals
  BY <1>0, <1>4 DEF Filled, SendTaskQueues, SendTaskSignals, post, spiWork
<1>5. CASE TakeResult
  BY <1>0, <1>5 DEF Filled, TakeResult, slaveTx, spiWork
<1>6. ASSUME NEW c \in Classes, NextTxBuffer(c)
      PROVE  Filled'
  <2>1. spi_tx_queue[c] # << >> /\ next' = Head(spi_tx_queue[c]) /\ spi_tx_queue[c] \in Seq({c} \X Nat)
    BY <1>0, <1>6 DEF NextTxBuffer, Places, IsQueues
  <2>2. next' # NoPacket
    BY <2>1, NumbersTake
  <2>3. QED
    BY <1>0, <1>6, <2>2 DEF Filled, NextTxBuffer, slaveTx, spiWork
<1>7. ASSUME NEW c \in Classes, QueueEmpty(c)
      PROVE  Filled'
  BY <1>0, <1>7 DEF Filled, QueueEmpty, slaveTx, spiWork
<1>8. CASE ClearReady
  BY <1>0, <1>8 DEF Filled, ClearReady, slaveTx, spiWork
<1>9. CASE Arm
  BY <1>0, <1>9 DEF Filled, Arm, slaveTx
<1>10. CASE ProcessRx
  BY <1>0, <1>10 DEF Filled, ProcessRx, slaveTx, spiWork
<1>11. CASE Exchange
  BY <1>0, <1>11 DEF Filled, Exchange, slaveTx, post
<1>12. CASE ProcessRxBuf
  BY <1>0, <1>12 DEF Filled, ProcessRxBuf, slaveTx, post
<1>13. QED
  BY <1>1, <1>2, <1>3, <1>4, <1>5, <1>6, <1>7, <1>8, <1>9, <1>10, <1>11, <1>12, Zenon
     DEF Next, SendTask, PostProcess, SpiWork

LEMMA PathOpenStep == LinkInv /\ [Next]_vars => PathOpen' /\ reclock' = reclock
<1> SUFFICES ASSUME LinkInv, [Next]_vars
             PROVE  PathOpen' /\ reclock' = reclock
  OBVIOUS
<1>0. PathOpen
  BY DEF LinkInv
<1>1. CASE RxWork
  BY <1>0, <1>1 DEF RxWork, PathOpen, path
<1>2. CASE Reinit
  BY <1>0, <1>2 DEF Reinit, ReinitStep, PathOpen
<1>3. \/ \E c \in Classes : Produce(c)
      \/ SendTask \/ PostProcess \/ RecvTask \/ HostWrites \/ SpiWork \/ UNCHANGED vars
      => UNCHANGED << data_path, rpc, reclock >>
  BY Zenon DEF Produce, SendTask, SendTaskTakes, SendTaskQueues, SendTaskSignals, PostProcess, TakeResult,
     NextTxBuffer, QueueEmpty, ClearReady, Arm, ProcessRx, RecvTask, HostWrites, SpiWork, Exchange,
     NoExchange, ProcessRxBuf, vars, path, hostRx
<1>4. CASE UNCHANGED << data_path, rpc, reclock >>
  BY <1>0, <1>4 DEF PathOpen
<1>5. QED
  BY <1>1, <1>2, <1>3, <1>4 DEF Next

LEMMA LinkStep == LinkInv /\ [Next]_vars => LinkInv'
BY PlacesStep, FilledStep, PathOpenStep DEF LinkInv

LEMMA LinkInvariant == Spec => []LinkInv
BY LinkInit, LinkStep, PTL DEF Spec

-----------------------------------------------------------------------------
(* What a step does to the packets of one class between the two stacks.               *)

PacketSent(c) == /\ produced'[c] = produced[c] + 1
                 /\ ToHost(c)' = Append(ToHost(c), produced[c] + 1)
                 /\ to_network'[c] = to_network[c]

PacketReceived(c) == /\ ToHost(c) # << >>
                     /\ to_network'[c] = Head(ToHost(c))
                     /\ ToHost(c)' = Tail(ToHost(c))
                     /\ produced'[c] = produced[c]

PacketLost(c) == /\ reclock
                 /\ \E i \in DOMAIN ToHost(c) : ToHost(c)' = WithoutAt(ToHost(c), i)
                 /\ produced'[c] = produced[c] /\ to_network'[c] = to_network[c]

PacketsKept(c) == /\ ToHost(c)' = ToHost(c)
                  /\ produced'[c] = produced[c] /\ to_network'[c] = to_network[c]

LEMMA ToHostStep ==
    ASSUME LinkInv, [Next]_vars, NEW c \in Classes
    PROVE  PacketSent(c) \/ PacketReceived(c) \/ PacketLost(c) \/ PacketsKept(c)
<1> DEFINE a == Numbers(rx_q[c])
           b == Held(rx_skb, c)
           z == Held(armed, c)
           d == Held(next, c)
           e == Numbers(spi_tx_queue[c])
           f == Held(sending, c)
           g == Numbers(to_host_queue[c])
           a2 == Numbers(rx_q'[c])
           b2 == Held(rx_skb', c)
           z2 == Held(armed', c)
           d2 == Held(next', c)
           e2 == Numbers(spi_tx_queue'[c])
           f2 == Held(sending', c)
           g2 == Numbers(to_host_queue'[c])
           Same == produced'[c] = produced[c] /\ to_network'[c] = to_network[c]
<1> USE PacketFacts
<1>0. Places /\ Filled /\ PathOpen /\ Places'
  BY PlacesStep DEF LinkInv
<1>1. ToHost(c) = Path(a, b, z, d, e, f, g) /\ ToHost(c)' = Path(a2, b2, z2, d2, e2, f2, g2)
  BY Zenon DEF ToHost, Path, ++
<1>2. a \in NumSeq /\ e \in NumSeq /\ g \in NumSeq /\ a2 \in NumSeq /\ e2 \in NumSeq /\ g2 \in NumSeq
  BY <1>0, QueueNumbers DEF Places
<1>3. /\ \A p \in Pkt \cup {NoPacket, Dummy} : Held(p, c) \in NumSeq
      /\ b \in NumSeq /\ z \in NumSeq /\ d \in NumSeq /\ f \in NumSeq
      /\ b2 \in NumSeq /\ z2 \in NumSeq /\ d2 \in NumSeq /\ f2 \in NumSeq
      /\ << >> \in NumSeq
  <2>1. \A p \in Pkt \cup {NoPacket, Dummy} : Held(p, c) \in NumSeq
    BY HeldFacts
  <2>2. /\ rx_skb \in Pkt \cup {NoPacket, Dummy} /\ armed \in Pkt \cup {NoPacket, Dummy}
        /\ next \in Pkt \cup {NoPacket, Dummy} /\ sending \in Pkt \cup {NoPacket, Dummy}
        /\ rx_skb' \in Pkt \cup {NoPacket, Dummy} /\ armed' \in Pkt \cup {NoPacket, Dummy}
        /\ next' \in Pkt \cup {NoPacket, Dummy} /\ sending' \in Pkt \cup {NoPacket, Dummy}
    BY <1>0 DEF Places
  <2>3. << >> \in NumSeq
    BY HeldFacts
  <2>4. QED
    BY <2>1, <2>2, <2>3, Zenon
<1>on. OnPath(a, b, z, d, e, f, g) /\ OnPath(a2, b2, z2, d2, e2, f2, g2)
  BY <1>2, <1>3, Zenon DEF OnPath
<1>4. /\ \A s \in NumSeq : s ++ << >> = s /\ << >> ++ s = s
      /\ Held(NoPacket, c) = << >> /\ Held(Dummy, c) = << >>
  BY GlueAlgebra, HeldFacts
<1>5. ASSUME NEW k \in Classes, Produce(k)
      PROVE  PacketSent(c) \/ PacketsKept(c)
  <2>1. UNCHANGED << rx_q, rx_skb, armed, next, spi_tx_queue, sending, to_network >>
    BY <1>5, Zenon DEF Produce, post, spiWork, hostRx
  <2>2. produced' = [produced EXCEPT ![k] = @ + 1]
        /\ to_host_queue' = [to_host_queue EXCEPT ![k] = Append(@, << k, produced'[k] >>)]
    BY <1>5, Zenon DEF Produce
  <2>3. produced \in [Classes -> Nat] /\ IsQueues(to_host_queue)
    BY <1>0 DEF Places
  <2>4. produced'[k] = produced[k] + 1 /\ produced[k] + 1 \in Nat /\ (c # k => produced'[c] = produced[c])
    BY <2>2, <2>3
  <2>5. << k, produced'[k] >> \in {k} \X Nat /\ << k, produced'[k] >>[2] = produced'[k]
    BY <2>4
  <2>6. /\ \A x \in Classes : x # k => to_host_queue'[x] = to_host_queue[x]
        /\ Numbers(to_host_queue'[k]) = Append(Numbers(to_host_queue[k]), << k, produced'[k] >>[2])
    <3>1. Put(to_host_queue, k, << k, produced'[k] >>, to_host_queue')
      BY <2>2, <2>3, <2>5 DEF Put
    <3>2. HasPut(to_host_queue, k, << k, produced'[k] >>, to_host_queue')
      BY <3>1, QueuePut, Zenon
    <3>3. QED
      BY <3>2, Zenon DEF HasPut
  <2>7. CASE c = k
    <3>1. g2 = Append(g, produced[c] + 1)
      BY <2>4, <2>5, <2>6, <2>7, Zenon
    <3>2. a2 = a /\ b2 = b /\ z2 = z /\ d2 = d /\ e2 = e /\ f2 = f
      BY <2>1, Zenon
    <3> HIDE DEF a, b, z, d, e, f, g, a2, b2, z2, d2, e2, f2, g2
    <3>3. Path(a, b, z, d, e, f, Append(g, produced[c] + 1)) = Append(Path(a, b, z, d, e, f, g), produced[c] + 1)
      <4>1. produced[c] + 1 \in Nat
        BY <2>4, <2>7, Zenon
      <4>2. Enters(a, b, z, d, e, f, g, produced[c] + 1)
        BY <1>on, <4>1, PathEnds, Zenon
      <4>3. QED
        BY <4>2, Zenon DEF Enters
    <3>4. ToHost(c)' = Append(ToHost(c), produced[c] + 1)
      BY <1>1, <3>1, <3>2, <3>3, Zenon
    <3>5. QED
      BY <2>1, <2>4, <2>7, <3>4, Zenon DEF PacketSent
  <2>8. CASE c # k
    <3>1. g2 = g /\ a2 = a /\ b2 = b /\ z2 = z /\ d2 = d /\ e2 = e /\ f2 = f
      BY <2>1, <2>6, <2>8, Zenon
    <3> HIDE DEF a, b, z, d, e, f, g, a2, b2, z2, d2, e2, f2, g2
    <3>2. QED
      BY <1>1, <2>1, <2>4, <2>8, <3>1, Zenon DEF PacketsKept
  <2>9. QED
    BY <2>7, <2>8
\* The moves: the packet leaves a place for the one before it.
<1>6. CASE Same /\ UNCHANGED << rx_q, rx_skb, armed, next, spi_tx_queue, sending, to_host_queue >>
  BY <1>6, <1>1, Zenon DEF PacketsKept
<1>7. ASSUME NEW k \in Classes, SendTaskTakes(k)
      PROVE  PacketsKept(c)
  <2>1. to_host_queue' = [to_host_queue EXCEPT ![k] = Tail(@)] /\ to_host_queue[k] # << >>
        /\ sending' = Head(to_host_queue[k]) /\ sending = NoPacket
    BY <1>0, <1>7 DEF SendTaskTakes, Served, Filled
  <2>2. IsQueues(to_host_queue)
    BY <1>0 DEF Places
  <2>3. /\ \A x \in Classes : x # k => to_host_queue'[x] = to_host_queue[x]
        /\ sending' \in {k} \X Nat
        /\ Numbers(to_host_queue[k]) = << sending'[2] >> ++ Numbers(to_host_queue'[k])
    <3>1. Get(to_host_queue, k, to_host_queue')
      BY <2>1, <2>2 DEF Get
    <3>2. HasGot(to_host_queue, k, to_host_queue') /\ Head(to_host_queue[k]) \in {k} \X Nat
      BY <3>1, QueueGet, Zenon
    <3>3. QED
      BY <2>1, <3>2, Zenon DEF HasGot
  <2>4. f = << >> /\ sending' \in Pkt /\ sending'[1] = k
    BY <1>4, <2>1, <2>3
  <2>5. f ++ g = f2 ++ g2
    <3>1. CASE c = k
      BY <1>2, <1>4, <2>3, <2>4, <3>1, HeldFacts, Zenon
    <3>2. CASE c # k
      <4>1. f2 = << >>
        BY <2>4, <3>2, HeldFacts
      <4>2. g2 = g
        BY <2>3, <3>2, Zenon
      <4>3. QED
        BY <2>4, <4>1, <4>2, Zenon
    <3>3. QED
      BY <3>1, <3>2
  <2>6. Same /\ a2 = a /\ b2 = b /\ z2 = z /\ d2 = d /\ e2 = e
    BY <1>7, Zenon DEF SendTaskTakes, post, spiWork, hostRx
  <2> HIDE DEF a, b, z, d, e, f, g, a2, b2, z2, d2, e2, f2, g2
  <2>7. Path(a, b, z, d, e, f, g) = Path(a2, b2, z2, d2, e2, f2, g2)
    <3>1. OnPath(a, b, z, d, e, f2, g2)
      BY <1>on, <2>6, Zenon
    <3>2. Path(a, b, z, d, e, f, g) = Path(a, b, z, d, e, f2, g2)
      BY <1>on, <2>5, <3>1, MoveFromSeventh
    <3>3. QED
      BY <2>6, <3>2, Zenon
  <2>8. QED
    BY <1>1, <2>6, <2>7, Zenon DEF PacketsKept
<1>8. CASE SendTaskQueues
  <2>1. sending \in Pkt /\ spi_tx_queue' = [spi_tx_queue EXCEPT ![sending[1]] = Append(@, sending)]
        /\ sending' = NoPacket
    BY <1>0, <1>8 DEF Places, Filled, SendTaskQueues
  <2>2. IsQueues(spi_tx_queue)
    BY <1>0 DEF Places
  <2>3. sending[1] \in Classes /\ sending \in {sending[1]} \X Nat
    BY <2>1
  <2>4. /\ \A x \in Classes : x # sending[1] => spi_tx_queue'[x] = spi_tx_queue[x]
        /\ Numbers(spi_tx_queue'[sending[1]]) = Numbers(spi_tx_queue[sending[1]]) ++ << sending[2] >>
    <3>1. Put(spi_tx_queue, sending[1], sending, spi_tx_queue')
      BY <2>1, <2>2, <2>3 DEF Put
    <3>2. HasPut(spi_tx_queue, sending[1], sending, spi_tx_queue')
      BY <3>1, QueuePut, Zenon
    <3>3. QED
      BY <3>2, Zenon DEF HasPut
  <2>5. f2 = << >>
    BY <1>4, <2>1
  <2>6. e ++ f = e2 ++ f2
    <3>1. CASE c = sending[1]
      BY <1>2, <1>4, <2>1, <2>4, <2>5, <3>1, HeldFacts, Zenon
    <3>2. CASE c # sending[1]
      <4>1. f = << >>
        BY <2>1, <3>2, HeldFacts
      <4>2. e2 = e
        BY <2>4, <3>2, Zenon
      <4>3. QED
        BY <2>5, <4>1, <4>2, Zenon
    <3>3. QED
      BY <3>1, <3>2
  <2>7. Same /\ a2 = a /\ b2 = b /\ z2 = z /\ d2 = d /\ g2 = g
    BY <1>8, Zenon DEF SendTaskQueues, post, spiWork, hostRx
  <2> HIDE DEF a, b, z, d, e, f, g, a2, b2, z2, d2, e2, f2, g2
  <2>8. Path(a, b, z, d, e, f, g) = Path(a2, b2, z2, d2, e2, f2, g2)
    BY <1>on, <2>6, <2>7, PathMoves
  <2>9. QED
    BY <1>1, <2>7, <2>8, Zenon DEF PacketsKept
<1>9. ASSUME NEW k \in Classes, NextTxBuffer(k)
      PROVE  PacketsKept(c)
  <2>1. spi_tx_queue' = [spi_tx_queue EXCEPT ![k] = Tail(@)] /\ spi_tx_queue[k] # << >>
        /\ next' = Head(spi_tx_queue[k]) /\ next = NoPacket
    BY <1>0, <1>9 DEF NextTxBuffer, Received, Filled, Classes
  <2>2. IsQueues(spi_tx_queue)
    BY <1>0 DEF Places
  <2>3. /\ \A x \in Classes : x # k => spi_tx_queue'[x] = spi_tx_queue[x]
        /\ next' \in {k} \X Nat
        /\ Numbers(spi_tx_queue[k]) = << next'[2] >> ++ Numbers(spi_tx_queue'[k])
    <3>1. Get(spi_tx_queue, k, spi_tx_queue')
      BY <2>1, <2>2 DEF Get
    <3>2. HasGot(spi_tx_queue, k, spi_tx_queue') /\ Head(spi_tx_queue[k]) \in {k} \X Nat
      BY <3>1, QueueGet, Zenon
    <3>3. QED
      BY <2>1, <3>2, Zenon DEF HasGot
  <2>4. d = << >> /\ next' \in Pkt /\ next'[1] = k
    BY <1>4, <2>1, <2>3
  <2>5. d ++ e = d2 ++ e2
    <3>1. CASE c = k
      BY <1>2, <1>4, <2>3, <2>4, <3>1, HeldFacts, Zenon
    <3>2. CASE c # k
      <4>1. d2 = << >>
        BY <2>4, <3>2, HeldFacts
      <4>2. e2 = e
        BY <2>3, <3>2, Zenon
      <4>3. QED
        BY <2>4, <4>1, <4>2, Zenon
    <3>3. QED
      BY <3>1, <3>2
  <2>6. Same /\ a2 = a /\ b2 = b /\ z2 = z /\ f2 = f /\ g2 = g
    BY <1>9, Zenon DEF NextTxBuffer, slaveTx, spiWork, hostRx
  <2> HIDE DEF a, b, z, d, e, f, g, a2, b2, z2, d2, e2, f2, g2
  <2>7. Path(a, b, z, d, e, f, g) = Path(a2, b2, z2, d2, e2, f2, g2)
    <3>1. OnPath(a, b, z, d2, e2, f, g)
      BY <1>on, <2>6, Zenon
    <3>2. Path(a, b, z, d, e, f, g) = Path(a, b, z, d2, e2, f, g)
      BY <1>on, <2>5, <3>1, MoveFromFifth
    <3>3. QED
      BY <2>6, <3>2, Zenon
  <2>8. QED
    BY <1>1, <2>6, <2>7, Zenon DEF PacketsKept
<1>10. CASE ClearReady
  <2>1. next = NoPacket /\ next' = Dummy
    BY <1>0, <1>10 DEF ClearReady, Filled
  <2>2. Same /\ a2 = a /\ b2 = b /\ z2 = z /\ e2 = e /\ f2 = f /\ g2 = g
    BY <1>10, Zenon DEF ClearReady, slaveTx, spiWork, hostRx
  <2>3. d2 = d
    BY <1>4, <2>1, Zenon
  <2>4. QED
    BY <1>1, <2>2, <2>3, Zenon DEF PacketsKept
<1>11. CASE Arm
  <2>1. armed = NoPacket /\ armed' = next /\ next' = NoPacket
    BY <1>0, <1>11 DEF Arm, Filled
  <2>2. z = << >> /\ d2 = << >> /\ z2 = d
    BY <1>4, <2>1
  <2>3. Same /\ a2 = a /\ b2 = b /\ e2 = e /\ f2 = f /\ g2 = g
    BY <1>11, Zenon DEF Arm, slaveTx, hostRx
  <2> HIDE DEF a, b, z, d, e, f, g, a2, b2, z2, d2, e2, f2, g2
  <2>4. z ++ d = z2 ++ d2
    BY <1>3, <1>4, <2>2
  <2>5. Path(a, b, z, d, e, f, g) = Path(a2, b2, z2, d2, e2, f2, g2)
    BY <1>on, <2>3, <2>4, PathMoves
  <2>6. QED
    BY <1>1, <2>3, <2>5, Zenon DEF PacketsKept
<1>12. CASE Exchange
  <2>1. rx_skb = NoPacket /\ rx_skb' = armed /\ armed' = NoPacket
    BY <1>0, <1>12 DEF Exchange, Filled
  <2>2. b = << >> /\ z2 = << >> /\ b2 = z
    BY <1>4, <2>1
  <2>3. Same /\ a2 = a /\ d2 = d /\ e2 = e /\ f2 = f /\ g2 = g
    BY <1>12, Zenon DEF Exchange, slaveTx, post, hostRx
  <2> HIDE DEF a, b, z, d, e, f, g, a2, b2, z2, d2, e2, f2, g2
  <2>4. b ++ z = b2 ++ z2
    BY <1>3, <1>4, <2>2
  <2>5. Path(a, b, z, d, e, f, g) = Path(a2, b2, z2, d2, e2, f2, g2)
    BY <1>on, <2>3, <2>4, PathMoves
  <2>6. QED
    BY <1>1, <2>3, <2>5, Zenon DEF PacketsKept
\* The host keeps the packet, drops a dummy, or loses the packet while the path is closed.
<1>13. CASE ProcessRxBuf
  <2>1. rx_skb \in Pkt \cup {Dummy} /\ rx_skb' = NoPacket
    BY <1>0, <1>13 DEF ProcessRxBuf, Filled, Places
  <2>2. b2 = << >>
    BY <1>4, <2>1
  <2>3. Same /\ z2 = z /\ d2 = d /\ e2 = e /\ f2 = f /\ g2 = g
    BY <1>13, Zenon DEF ProcessRxBuf, slaveTx, post
  <2>4. CASE rx_skb # Dummy /\ data_path
    <3>1. rx_skb \in Pkt /\ rx_q' = [rx_q EXCEPT ![rx_skb[1]] = Append(@, rx_skb)]
      BY <1>13, <2>1, <2>4 DEF ProcessRxBuf, SkbQueued
    <3>2. IsQueues(rx_q)
      BY <1>0 DEF Places
    <3>3. rx_skb[1] \in Classes /\ rx_skb \in {rx_skb[1]} \X Nat
      BY <3>1
    <3>4. /\ \A x \in Classes : x # rx_skb[1] => rx_q'[x] = rx_q[x]
          /\ Numbers(rx_q'[rx_skb[1]]) = Numbers(rx_q[rx_skb[1]]) ++ << rx_skb[2] >>
      <4>1. Put(rx_q, rx_skb[1], rx_skb, rx_q')
        BY <3>1, <3>2, <3>3 DEF Put
      <4>2. HasPut(rx_q, rx_skb[1], rx_skb, rx_q')
        BY <4>1, QueuePut, Zenon
      <4>3. QED
        BY <4>2, Zenon DEF HasPut
    <3>5. a ++ b = a2 ++ b2
      <4>1. CASE c = rx_skb[1]
        BY <1>2, <1>4, <2>2, <3>1, <3>4, <4>1, HeldFacts, Zenon
      <4>2. CASE c # rx_skb[1]
        <5>1. b = << >>
          BY <3>1, <4>2, HeldFacts
        <5>2. a2 = a
          BY <3>4, <4>2, Zenon
        <5>3. QED
          BY <2>2, <5>1, <5>2, Zenon
      <4>3. QED
        BY <4>1, <4>2
    <3> HIDE DEF a, b, z, d, e, f, g, a2, b2, z2, d2, e2, f2, g2
    <3>6. Path(a, b, z, d, e, f, g) = Path(a2, b2, z2, d2, e2, f2, g2)
      BY <1>on, <2>3, <3>5, PathMoves
    <3>7. QED
      BY <1>1, <2>3, <3>6, Zenon DEF PacketsKept
  <2>5. CASE ~ (rx_skb # Dummy /\ data_path)
    <3>1. a2 = a
      BY <1>13, <2>5, Zenon DEF ProcessRxBuf
    <3>2. CASE b = << >>
      <4> HIDE DEF a, b, z, d, e, f, g, a2, b2, z2, d2, e2, f2, g2
      <4>1. QED
        BY <1>1, <2>2, <2>3, <3>1, <3>2, Zenon DEF PacketsKept
    <3>3. CASE b # << >>
      <4>1. rx_skb # Dummy /\ rx_skb \in Pkt /\ reclock
        BY <1>0, <1>4, <2>1, <2>5, <3>3 DEF PathOpen
      <4>2. PICK n \in Nat : b = << n >>
        BY <3>3, <4>1, HeldFacts
      <4> HIDE DEF a, b, z, d, e, f, g, a2, b2, z2, d2, e2, f2, g2
      <4>3. \E i \in DOMAIN Path(a, << n >>, z, d, e, f, g) :
               Path(a, << >>, z, d, e, f, g) = WithoutAt(Path(a, << n >>, z, d, e, f, g), i)
        <5>1. Drops(a, z, d, e, f, g, n)
          BY <1>on, PathEnds, Zenon
        <5>2. QED
          BY <5>1, Zenon DEF Drops
      <4>4. ToHost(c) = Path(a, << n >>, z, d, e, f, g) /\ ToHost(c)' = Path(a, << >>, z, d, e, f, g)
        BY <1>1, <2>2, <2>3, <3>1, <4>2, Zenon
      <4>5. QED
        BY <2>3, <4>1, <4>3, <4>4, Zenon DEF PacketLost
    <3>4. QED
      BY <3>2, <3>3
  <2>6. QED
    BY <2>4, <2>5
<1>14. CASE RxWork
  <2>1. b2 = b /\ z2 = z /\ d2 = d /\ e2 = e /\ f2 = f /\ g2 = g /\ produced' = produced
    BY <1>14, Zenon DEF RxWork, slaveTx, post, spiWork
  <2>2. CASE data_path /\ rx_q["others"] # << >>
    <3>1. /\ rx_q' = [rx_q EXCEPT !["others"] = Tail(@)]
          /\ to_network' = [to_network EXCEPT ![Head(rx_q["others"])[1]] = Head(rx_q["others"])[2]]
      BY <1>14, <2>2 DEF RxWork, Delivered
    <3>2. IsQueues(rx_q) /\ to_network \in [Classes -> Nat]
      BY <1>0 DEF Places
    <3>3. /\ \A x \in Classes : x # "others" => rx_q'[x] = rx_q[x]
          /\ Head(rx_q["others"]) \in {"others"} \X Nat
          /\ Numbers(rx_q["others"]) # << >> /\ Head(Numbers(rx_q["others"])) = Head(rx_q["others"])[2]
          /\ Numbers(rx_q'["others"]) = Tail(Numbers(rx_q["others"]))
      <4>1. Get(rx_q, "others", rx_q')
        BY <2>2, <3>1, <3>2 DEF Get
      <4>2. HasGot(rx_q, "others", rx_q') /\ Head(rx_q["others"]) \in {"others"} \X Nat
        BY <4>1, QueueGet, Zenon
      <4>3. QED
        BY <4>2, Zenon DEF HasGot
    <3>4. Head(rx_q["others"])[1] = "others"
      BY <3>3
    <3>5. to_network'["others"] = Head(rx_q["others"])[2] /\ (c # "others" => to_network'[c] = to_network[c])
      BY <3>1, <3>2, <3>4
    <3>6. CASE c = "others"
      <4>1. a # << >> /\ Head(a) = to_network'[c] /\ a2 = Tail(a)
        BY <3>3, <3>5, <3>6, Zenon
      <4> HIDE DEF a, b, z, d, e, f, g, a2, b2, z2, d2, e2, f2, g2
      <4>0. 0 \in Nat
        OBVIOUS
      <4>2. /\ Path(a, b, z, d, e, f, g) # << >>
            /\ Head(Path(a, b, z, d, e, f, g)) = Head(a)
            /\ Tail(Path(a, b, z, d, e, f, g)) = Path(Tail(a), b, z, d, e, f, g)
        <5>1. Leaves(a, b, z, d, e, f, g)
          BY <1>on, <4>0, PathEnds, Zenon
        <5>2. QED
          BY <4>1, <5>1, Zenon DEF Leaves
      <4>3. QED
        BY <1>1, <2>1, <4>1, <4>2, Zenon DEF PacketReceived
    <3>7. CASE c # "others"
      <4>1. a2 = a
        BY <3>3, <3>7, Zenon
      <4> HIDE DEF a, b, z, d, e, f, g, a2, b2, z2, d2, e2, f2, g2
      <4>2. QED
        BY <1>1, <2>1, <3>5, <3>7, <4>1, Zenon DEF PacketsKept
    <3>8. QED
      BY <3>6, <3>7
  <2>3. CASE ~ (data_path /\ rx_q["others"] # << >>)
    <3>1. a2 = a /\ to_network' = to_network
      BY <1>14, <2>3, Zenon DEF RxWork
    <3>2. QED
      BY <1>1, <2>1, <3>1, Zenon DEF PacketsKept
  <2>4. QED
    BY <2>2, <2>3
<1>15. \/ SendTaskSignals \/ TakeResult \/ (\E k \in Classes : QueueEmpty(k)) \/ ProcessRx
       \/ RecvTask \/ HostWrites \/ NoExchange \/ Reinit \/ UNCHANGED vars
       => Same /\ UNCHANGED << rx_q, rx_skb, armed, next, spi_tx_queue, sending, to_host_queue >>
  BY Zenon DEF SendTaskSignals, TakeResult, QueueEmpty, ProcessRx, RecvTask, HostWrites, NoExchange,
     Reinit, ReinitStep, vars, slaveTx, post, spiWork, hostRx
<1>16. QED
  BY <1>5, <1>6, <1>7, <1>8, <1>9, <1>10, <1>11, <1>12, <1>13, <1>14, <1>15, Zenon
     DEF Next, SendTask, PostProcess, SpiWork

LEMMA HostQueuePut ==
    \A q \in Seq(HostPkt), p \in HostPkt : /\ Numbers(Append(q, p)) = Numbers(q) ++ << p[2] >>
                                          /\ Numbers(Append(q, p)) = Append(Numbers(q), p[2])
<1> TAKE q \in Seq(HostPkt), p \in HostPkt
<1>1. Numbers(Append(q, p)) = Append(Numbers(q), p[2])
  BY NumbersAppend, Zenon DEF HostPkt
<1>2. Numbers(q) \in NumSeq /\ p[2] \in Nat
  BY NumbersType DEF HostPkt
<1>3. Append(Numbers(q), p[2]) = Numbers(q) ++ << p[2] >>
  BY <1>2, AppendNumber, Zenon DEF ++
<1>4. QED
  BY <1>1, <1>3, Zenon

HasTaken(q) == /\ Head(q) \in HostPkt
               /\ Numbers(q) = << Head(q)[2] >> ++ Numbers(Tail(q))
               /\ Numbers(q) # << >> /\ Head(Numbers(q)) = Head(q)[2]
               /\ Numbers(Tail(q)) = Tail(Numbers(q))

LEMMA HostQueueTake == \A q \in Seq(HostPkt) : q # << >> => HasTaken(q)
<1> TAKE q \in Seq(HostPkt)
<1> HAVE q # << >>
<1>1. q \in Seq({"others"} \X Nat)
  BY DEF HostPkt
<1>2. /\ Head(q) \in {"others"} \X Nat
      /\ Numbers(q) # << >> /\ Head(Numbers(q)) = Head(q)[2]
      /\ Tail(Numbers(q)) = Numbers(Tail(q))
      /\ Numbers(q) = << Head(q)[2] >> \o Numbers(Tail(q))
  BY <1>1, NumbersTake
<1>3. QED
  BY <1>2, Zenon DEF HasTaken, HostPkt, ++

\* A path of four places is one of seven whose last three are empty.
LEMMA FourPlaces ==
    \A s, t, u, v, w :
        OnPath(s, t, u, v, w, w, w) /\ w = << >> => /\ Path(s, t, u, v, w, w, w) = ((s ++ t) ++ u) ++ v
                                                    /\ (s ++ t) ++ u \in NumSeq
<1> TAKE s, t, u, v, w
<1> HAVE OnPath(s, t, u, v, w, w, w) /\ w = << >>
<1>1. s \in NumSeq /\ t \in NumSeq /\ u \in NumSeq /\ v \in NumSeq
  BY DEF OnPath
<1>2. (s ++ t) ++ u \in NumSeq /\ ((s ++ t) ++ u) ++ v \in NumSeq
  BY <1>1, GlueAlgebra
<1>3. ((s ++ t) ++ u) ++ v ++ w = ((s ++ t) ++ u) ++ v
  BY <1>2, GlueAlgebra, Zenon
<1>4. QED
  BY <1>2, <1>3, Zenon DEF Path

-----------------------------------------------------------------------------
(* What a step does to the packets between the host's stack and the slave's.           *)

HostPacketStep ==
    \/ /\ written' = written + 1 /\ ToSlave' = Append(ToSlave, written + 1)
       /\ to_lwip' = to_lwip
    \/ /\ ToSlave # << >> /\ to_lwip' = Head(ToSlave) /\ ToSlave' = Tail(ToSlave)
       /\ written' = written
    \/ ToSlave' = ToSlave /\ written' = written /\ to_lwip' = to_lwip

LEMMA ToSlaveStep ==
    ASSUME LinkInv, [Next]_vars
    PROVE  HostPacketStep
<1> DEFINE a == Numbers(spi_rx_queue)
           b == Held(taken, "others")
           z == Held(result, "others")
           g == Numbers(tx_q)
           a2 == Numbers(spi_rx_queue')
           b2 == Held(taken', "others")
           z2 == Held(result', "others")
           g2 == Numbers(tx_q')
           w == << >>
           Same == written' = written /\ to_lwip' = to_lwip
<1>a. /\ NoPacket # Dummy /\ NoPacket \notin HostPkt /\ Dummy \notin HostPkt
      /\ \A p \in HostPkt : p \in Pkt /\ p[1] = "others" /\ p[2] \in Nat
      /\ "others" \in Classes
  BY PacketFacts DEF HostPkt
<1>b. Places /\ Filled /\ Places'
  BY PlacesStep DEF LinkInv
<1>c. /\ Held(NoPacket, "others") = << >> /\ Held(Dummy, "others") = << >>
      /\ \A p \in HostPkt : Held(p, "others") = << p[2] >> /\ Held(p, "others") \in NumSeq
      /\ << >> \in NumSeq
  BY <1>a, HeldFacts
<1>d. a \in NumSeq /\ g \in NumSeq /\ a2 \in NumSeq /\ g2 \in NumSeq
  BY <1>b, NumbersType DEF Places, HostPkt
<1>e. b \in NumSeq /\ z \in NumSeq /\ b2 \in NumSeq /\ z2 \in NumSeq
  <2>1. /\ taken \in HostPkt \cup {NoPacket, Dummy} /\ result \in HostPkt \cup {NoPacket, Dummy}
        /\ taken' \in HostPkt \cup {NoPacket, Dummy} /\ result' \in HostPkt \cup {NoPacket, Dummy}
    BY <1>b DEF Places
  <2>2. QED
    BY <1>c, <2>1
<1>f. OnPath(a, b, z, g, w, w, w) /\ OnPath(a2, b2, z2, g2, w, w, w)
  BY <1>c, <1>d, <1>e, Zenon DEF OnPath
<1>g. /\ Path(a, b, z, g, w, w, w) = ((a ++ b) ++ z) ++ g
      /\ Path(a2, b2, z2, g2, w, w, w) = ((a2 ++ b2) ++ z2) ++ g2
      /\ (a ++ b) ++ z \in NumSeq
  <2> HIDE DEF a, b, z, g, a2, b2, z2, g2
  <2>1. QED
    BY <1>f, FourPlaces
<1>h. /\ ToSlave = Path(a, b, z, g, w, w, w)
      /\ ToSlave' = Path(a2, b2, z2, g2, w, w, w)
  <2>1. ToSlave = ((a ++ b) ++ z) ++ g /\ ToSlave' = ((a2 ++ b2) ++ z2) ++ g2
    BY Zenon DEF ToSlave, ++
  <2> HIDE DEF a, b, z, g, a2, b2, z2, g2, w
  <2>2. QED
    BY <1>g, <2>1, Zenon
<1>i. \A s \in NumSeq : s ++ << >> = s /\ << >> ++ s = s
  BY GlueAlgebra
<1>1. CASE HostWrites
  <2>1. /\ written \in Nat /\ tx_q \in Seq(HostPkt) /\ << "others", written + 1 >> \in HostPkt
        /\ << "others", written + 1 >>[2] = written + 1
    BY <1>b DEF Places, HostPkt
  <2>2. written' = written + 1 /\ tx_q' = Append(tx_q, << "others", written + 1 >>)
    BY <1>1, Zenon DEF HostWrites
  <2>3. Numbers(tx_q') = Append(Numbers(tx_q), << "others", written + 1 >>[2])
    BY <2>1, <2>2, HostQueuePut, Zenon
  <2>4. g2 = Append(g, written + 1)
    BY <2>1, <2>3, Zenon
  <2>5. to_lwip' = to_lwip /\ a2 = a /\ b2 = b /\ z2 = z
    BY <1>1, Zenon DEF HostWrites, slaveRx, post
  <2>6. written + 1 \in Nat
    BY <2>1
  <2> HIDE DEF a, b, z, g, a2, b2, z2, g2, w
  <2> DEFINE h == (a ++ b) ++ z
  <2>7. h \in NumSeq /\ ToSlave = h ++ g /\ ToSlave' = h ++ g2
    BY <1>g, <1>h, <2>5, Zenon
  <2> HIDE DEF h
  <2>8. h ++ Append(g, written + 1) = Append(h ++ g, written + 1)
    BY <1>d, <2>6, <2>7, AppendLast, Zenon DEF ++
  <2>9. ToSlave' = Append(ToSlave, written + 1)
    BY <2>4, <2>7, <2>8, Zenon
  <2>10. QED
    BY <2>2, <2>5, <2>9, Zenon DEF HostPacketStep
<1>2. CASE Exchange
  <2>1. result = NoPacket /\ tx_q \in Seq(HostPkt)
    BY <1>b, <1>2 DEF Exchange, Filled, Places
  <2>2. Same /\ a2 = a /\ b2 = b
    BY <1>2, Zenon DEF Exchange, slaveRx, post
  <2>3. z ++ g = z2 ++ g2
    <3>1. CASE HasTx
      <4>1. tx_q # << >> /\ tx_q' = Tail(tx_q) /\ result' = Head(tx_q)
        BY <1>2, <3>1 DEF Exchange, HasTx
      <4>2. HasTaken(tx_q)
        BY <2>1, <4>1, HostQueueTake, Zenon
      <4>3. result' \in HostPkt /\ g = << result'[2] >> ++ g2
        BY <4>1, <4>2, Zenon DEF HasTaken
      <4>4. z2 = << result'[2] >> /\ z = << >>
        BY <1>c, <2>1, <4>3, Zenon
      <4> HIDE DEF a, b, z, g, a2, b2, z2, g2
      <4>5. QED
        BY <1>d, <1>i, <4>3, <4>4, Zenon
    <3>2. CASE ~ HasTx
      <4>1. tx_q' = tx_q /\ result' = Dummy
        BY <1>2, <3>2 DEF Exchange
      <4>2. QED
        BY <1>c, <2>1, <4>1, Zenon
    <3>3. QED
      BY <3>1, <3>2
  <2> HIDE DEF a, b, z, g, a2, b2, z2, g2, w
  <2>4. Path(a, b, z, g, w, w, w) = Path(a2, b2, z2, g2, w, w, w)
    BY <1>f, <2>2, <2>3, PathMoves
  <2>5. QED
    BY <1>h, <2>2, <2>4, Zenon DEF HostPacketStep
<1>3. CASE TakeResult
  <2>1. taken = NoPacket /\ taken' = result /\ result' = NoPacket
    BY <1>b, <1>3 DEF TakeResult, Filled
  <2>2. b = << >> /\ z2 = << >> /\ b2 = z
    BY <1>c, <2>1
  <2>3. Same /\ a2 = a /\ g2 = g
    BY <1>3, Zenon DEF TakeResult, slaveRx, hostTx
  <2> HIDE DEF a, b, z, g, a2, b2, z2, g2, w
  <2>4. b ++ z = b2 ++ z2
    BY <1>e, <1>i, <2>2, Zenon
  <2>5. Path(a, b, z, g, w, w, w) = Path(a2, b2, z2, g2, w, w, w)
    BY <1>f, <2>3, <2>4, PathMoves
  <2>6. QED
    BY <1>h, <2>3, <2>5, Zenon DEF HostPacketStep
<1>4. CASE ProcessRx
  <2>1. taken \in HostPkt \cup {Dummy} /\ taken' = NoPacket /\ spi_rx_queue \in Seq(HostPkt)
    BY <1>b, <1>4 DEF ProcessRx, Filled, Places
  <2>2. Same /\ z2 = z /\ g2 = g
    BY <1>4, Zenon DEF ProcessRx, hostTx
  <2>3. a ++ b = a2 ++ b2
    <3>1. CASE taken = Dummy
      <4>1. spi_rx_queue' = spi_rx_queue
        BY <1>4, <3>1, Zenon DEF ProcessRx
      <4>2. QED
        BY <1>c, <2>1, <3>1, <4>1, Zenon
    <3>2. CASE taken # Dummy
      <4>1. taken \in HostPkt /\ spi_rx_queue' = Append(spi_rx_queue, taken)
        BY <1>4, <2>1, <3>2 DEF ProcessRx
      <4>2. a2 = a ++ << taken[2] >>
        BY <2>1, <4>1, HostQueuePut, Zenon
      <4>3. b = << taken[2] >> /\ b2 = << >>
        BY <1>c, <2>1, <4>1, Zenon
      <4> HIDE DEF a, b, z, g, a2, b2, z2, g2
      <4>4. QED
        BY <1>d, <1>i, <4>2, <4>3, Zenon
    <3>3. QED
      BY <3>1, <3>2
  <2> HIDE DEF a, b, z, g, a2, b2, z2, g2, w
  <2>4. Path(a, b, z, g, w, w, w) = Path(a2, b2, z2, g2, w, w, w)
    BY <1>f, <2>2, <2>3, PathMoves
  <2>5. QED
    BY <1>h, <2>2, <2>4, Zenon DEF HostPacketStep
<1>5. CASE RecvTask
  <2>1. /\ spi_rx_queue # << >> /\ spi_rx_queue \in Seq(HostPkt)
        /\ spi_rx_queue' = Tail(spi_rx_queue) /\ to_lwip' = Head(spi_rx_queue)[2]
    BY <1>b, <1>5 DEF RecvTask, Places
  <2>2. HasTaken(spi_rx_queue)
    BY <2>1, HostQueueTake, Zenon
  <2>3. a # << >> /\ Head(a) = to_lwip' /\ a2 = Tail(a)
    BY <2>1, <2>2, Zenon DEF HasTaken
  <2>4. written' = written /\ b2 = b /\ z2 = z /\ g2 = g
    BY <1>5, Zenon DEF RecvTask, post, hostTx
  <2>5. 0 \in Nat
    OBVIOUS
  <2> HIDE DEF a, b, z, g, a2, b2, z2, g2, w
  <2>6. Leaves(a, b, z, g, w, w, w)
    BY <1>f, <2>5, PathEnds, Zenon
  <2>7. /\ Path(a, b, z, g, w, w, w) # << >>
        /\ Head(Path(a, b, z, g, w, w, w)) = Head(a)
        /\ Tail(Path(a, b, z, g, w, w, w)) = Path(Tail(a), b, z, g, w, w, w)
    BY <2>3, <2>6, Zenon DEF Leaves
  <2>8. QED
    BY <1>h, <2>3, <2>4, <2>7, Zenon DEF HostPacketStep
<1>6. \/ (\E k \in Classes : Produce(k) \/ SendTaskTakes(k) \/ NextTxBuffer(k) \/ QueueEmpty(k))
      \/ SendTaskQueues \/ SendTaskSignals \/ ClearReady \/ Arm \/ NoExchange \/ ProcessRxBuf
      \/ RxWork \/ Reinit \/ UNCHANGED vars
      => Same /\ UNCHANGED << spi_rx_queue, taken, result, tx_q >>
  BY Zenon DEF Produce, SendTaskTakes, NextTxBuffer, QueueEmpty, SendTaskQueues, SendTaskSignals,
     ClearReady, Arm, NoExchange, ProcessRxBuf, RxWork, Reinit, ReinitStep, vars, slaveRx, post, hostTx
<1>7. CASE Same /\ UNCHANGED << spi_rx_queue, taken, result, tx_q >>
  BY <1>7, <1>h, Zenon DEF HostPacketStep
<1>8. QED
  BY <1>1, <1>2, <1>3, <1>4, <1>5, <1>6, <1>7, Zenon DEF Next, SendTask, PostProcess, SpiWork

LEMMA OthersStep == LinkInv /\ [Next]_vars => [OthersLink!Next]_(OthersLink!vars)
<1> SUFFICES ASSUME LinkInv, [Next]_vars
             PROVE  OthersLink!Next \/ UNCHANGED OthersLink!vars
  OBVIOUS
<1>1. "others" \in Classes
  BY DEF Classes
<1>2. reclock' = reclock
  BY PathOpenStep
<1>3. PacketSent("others") \/ PacketReceived("others") \/ PacketLost("others") \/ PacketsKept("others")
  BY <1>1, ToHostStep, Zenon
<1>4. CASE PacketSent("others")
  BY <1>2, <1>4, Zenon DEF PacketSent, OthersLink!Next, OthersLink!Send
<1>5. CASE PacketReceived("others")
  BY <1>2, <1>5, Zenon DEF PacketReceived, OthersLink!Next, OthersLink!Receive
<1>6. CASE PacketLost("others")
  BY <1>2, <1>6, Zenon DEF PacketLost, WithoutAt, OthersLink!Next, OthersLink!Lose, OthersLink!RemoveAt
<1>7. CASE PacketsKept("others")
  BY <1>2, <1>7, Zenon DEF PacketsKept, OthersLink!vars
<1>8. QED
  BY <1>3, <1>4, <1>5, <1>6, <1>7

LEMMA BtStep == LinkInv /\ [Next]_vars => [BtLink!Next]_(BtLink!vars)
<1> SUFFICES ASSUME LinkInv, [Next]_vars
             PROVE  BtLink!Next \/ UNCHANGED BtLink!vars
  OBVIOUS
<1>1. "bt" \in Classes
  BY DEF Classes
<1>2. reclock' = reclock
  BY PathOpenStep
<1>3. PacketSent("bt") \/ PacketReceived("bt") \/ PacketLost("bt") \/ PacketsKept("bt")
  BY <1>1, ToHostStep, Zenon
<1>4. CASE PacketSent("bt")
  BY <1>2, <1>4, Zenon DEF PacketSent, BtLink!Next, BtLink!Send
<1>5. CASE PacketReceived("bt")
  BY <1>2, <1>5, Zenon DEF PacketReceived, BtLink!Next, BtLink!Receive
<1>6. CASE PacketLost("bt")
  BY <1>2, <1>6, Zenon DEF PacketLost, WithoutAt, BtLink!Next, BtLink!Lose, BtLink!RemoveAt
<1>7. CASE PacketsKept("bt")
  BY <1>2, <1>7, Zenon DEF PacketsKept, BtLink!vars
<1>8. QED
  BY <1>3, <1>4, <1>5, <1>6, <1>7

LEMMA HostStep == LinkInv /\ [Next]_vars => [HostLink!Next]_(HostLink!vars)
<1> SUFFICES ASSUME LinkInv, [Next]_vars
             PROVE  HostLink!Next \/ UNCHANGED HostLink!vars
  OBVIOUS
<1>1. HostPacketStep
  BY ToSlaveStep
<1>2. QED
  BY <1>1, Zenon DEF HostPacketStep, HostLink!Next, HostLink!Send, HostLink!Receive, HostLink!vars

LEMMA ChannelsInit == Init => OthersLink!Init /\ BtLink!Init /\ HostLink!Init
<1> SUFFICES ASSUME Init
             PROVE  OthersLink!Init /\ BtLink!Init /\ HostLink!Init
  OBVIOUS
<1>1. /\ rx_q["others"] = << >> /\ rx_q["bt"] = << >> /\ spi_tx_queue["others"] = << >>
      /\ spi_tx_queue["bt"] = << >> /\ to_host_queue["others"] = << >> /\ to_host_queue["bt"] = << >>
      /\ spi_rx_queue = << >> /\ tx_q = << >>
      /\ rx_skb = NoPacket /\ next = NoPacket /\ sending = NoPacket /\ taken = NoPacket /\ result = NoPacket
      /\ armed = InitEvent
      /\ produced["others"] = 1 /\ produced["bt"] = 0
      /\ to_network["others"] = 0 /\ to_network["bt"] = 0 /\ written = 0 /\ to_lwip = 0
      /\ reclock \in BOOLEAN
  BY DEF Init, PerClass, Classes
<1>2. /\ Held(NoPacket, "others") = << >> /\ Held(NoPacket, "bt") = << >>
      /\ Held(InitEvent, "others") = << 1 >> /\ Held(InitEvent, "bt") = << >>
      /\ Numbers(<< >>) = << >>
  BY NumbersEmpty DEF Held, NoPacket, InitEvent
<1>3. << >> \o << >> = << >> /\ << >> \o << 1 >> = << 1 >> /\ << 1 >> \o << >> = << 1 >>
  <2>1. << >> \in NumSeq /\ << 1 >> \in NumSeq
    BY DEF NumSeq
  <2>2. QED
    BY <2>1, Concat, Zenon
<1>4. ToHost("others") = << 1 >> /\ ToHost("bt") = << >> /\ ToSlave = << >>
  BY <1>1, <1>2, <1>3, Zenon DEF ToHost, ToSlave
<1>5. [i \in 1 .. 1 |-> i] = << 1 >> /\ [i \in 1 .. 0 |-> i] = << >>
  OBVIOUS
<1>6. QED
  BY <1>1, <1>4, <1>5, Zenon DEF OthersLink!Init, BtLink!Init, HostLink!Init

\* Each class of packets to the host, and the packets to the slave, go through a FIFO channel:
\* numbered on entry, they come out in order, each at most once, and none is skipped
\* unless a reinit closes the data path under it (send_task, get_next_tx_buffer,
\* esp_spi_work, process_rx_buf, esp_if_rx_work; process_spi_rx, recv_task).
THEOREM LinkIsFifo == Spec => InOrder
<1>1. Spec => []LinkInv
  BY LinkInvariant
<1>2. Spec => OthersInOrder
  BY <1>1, ChannelsInit, OthersStep, PTL DEF Spec, OthersInOrder, OthersLink!Spec
<1>3. Spec => BtInOrder
  BY <1>1, ChannelsInit, BtStep, PTL DEF Spec, BtInOrder, BtLink!Spec
<1>4. Spec => HostInOrder
  BY <1>1, ChannelsInit, HostStep, PTL DEF Spec, HostInOrder, HostLink!Spec
<1>5. QED
  BY <1>2, <1>3, <1>4 DEF InOrder
=============================================================================
