----------------------------- MODULE Host_proofs -----------------------------
(***************************************************************************)
(* Proofs about the parts of the host driver that MCHost puts side by side: the   *)
(* transmit path (SpiHostTx) for every set of writers and every threshold, where  *)
(* a writer between two steps of write_packet is counted with the packet it has   *)
(* appended or is about to append, so that every step moves one unit from one      *)
(* term to another; the slave's receive path (SlaveAdapter); the writes of the     *)
(* serial device (SerialWrite); and the life of the card over both buses           *)
(* (HostCard).  A step of MCHost is a step of each part or leaves it alone.        *)
(***************************************************************************)
EXTENDS MCHost, Sequences, FiniteSetTheorems, TLAPS

-----------------------------------------------------------------------------
(* The transmit path (SpiHostTx) *)

LEMMA WritersFinite ==
    /\ IsFiniteSet(Writers)
    /\ Cardinality(Writers) \in Nat
<1>1. IsFiniteSet(NetDevs)
  <2>1. IsFiniteSet({} \cup {0})
    BY FS_EmptySet, FS_AddElement
  <2>2. IsFiniteSet(({} \cup {0}) \cup {1})
    BY <2>1, FS_AddElement
  <2>3. QED
    BY <2>2 DEF NetDevs
<1>2. IsFiniteSet(Users)
  BY UsersAssumption
<1>3. IsFiniteSet(Writers)
  BY <1>1, <1>2, FS_Union DEF Writers
<1>4. QED
  BY <1>3, FS_CardinalityType

LEMMA CountType ==
    ASSUME NEW f, NEW pc
    PROVE  LET S == { w \in Writers : f[w] = pc }
           IN  IsFiniteSet(S) /\ Cardinality(S) \in Nat
<1> DEFINE S == { w \in Writers : f[w] = pc }
<1>1. S \in SUBSET Writers
  OBVIOUS
<1>2. IsFiniteSet(S)
  BY <1>1, WritersFinite, FS_Subset
<1>3. QED
  BY <1>2, FS_CardinalityType

\* Two places of write_packet never hold more writers than there are.
LEMMA TwoPlaces ==
    ASSUME NEW A \in SUBSET Writers, NEW B \in SUBSET Writers, A \cap B = {}
    PROVE  Cardinality(A) + Cardinality(B) <= Cardinality(Writers)
<1>1. /\ IsFiniteSet(A) /\ Cardinality(A) \in Nat
      /\ IsFiniteSet(B) /\ Cardinality(B) \in Nat
  BY WritersFinite, FS_Subset, FS_CardinalityType
<1>2. Cardinality(A \cup B) = Cardinality(A) + Cardinality(B)
  BY <1>1, FS_Union, FS_EmptySet
<1>3. A \cup B \in SUBSET Writers
  OBVIOUS
<1>4. QED
  BY <1>2, <1>3, WritersFinite, FS_Subset

\* A step of one writer moves it from one place to another.
LEMMA OneMoves ==
    ASSUME wpc \in [Writers -> WriterPC],
           NEW w \in Writers, NEW to \in WriterPC, Goto(w, to), NEW pc
    PROVE  Count(pc)' = Count(pc) + (IF to = pc THEN 1 ELSE 0)
                                  - (IF wpc[w] = pc THEN 1 ELSE 0)
<1>1. IsFiniteSet(At(pc)) /\ Count(pc) \in Nat
  BY CountType DEF At, Count
<1>2. CASE to = pc
  <2>1. At(pc)' = At(pc) \cup {w}
    BY <1>2 DEF At, Goto
  <2>2. w \in At(pc) <=> wpc[w] = pc
    BY DEF At
  <2>3. QED
    BY <1>1, <1>2, <2>1, <2>2, FS_AddElement DEF Count
<1>3. CASE to # pc
  <2>1. At(pc)' = At(pc) \ {w}
    BY <1>3 DEF At, Goto
  <2>2. w \in At(pc) <=> wpc[w] = pc
    BY DEF At
  <2>3. Cardinality(At(pc) \ {w}) = IF w \in At(pc) THEN Count(pc) - 1 ELSE Count(pc)
    BY <1>1, FS_RemoveElement DEF Count
  <2>4. QED
    BY <1>1, <1>3, <2>1, <2>2, <2>3 DEF Count
<1>4. QED
  BY <1>2, <1>3

LEMMA NobodyMoves ==
    ASSUME UNCHANGED wpc, NEW pc
    PROVE  Count(pc)' = Count(pc)
BY DEF Count, At

-----------------------------------------------------------------------------

\* The counter of the reinits is incremented by a reinit that was allowed to begin.
ReinitCounted == rpc = "closed" => reinits < MaxReinit

TypeInv == TypeOK /\ ReinitCounted

LEMMA TypeInit == Init => TypeInv
<1> SUFFICES ASSUME Init
             PROVE  TypeInv
  OBVIOUS
<1>1. /\ tx_pending \in Nat
      /\ txq \in Nat
      /\ btq \in 0 .. MaxHci
      /\ reinits \in 0 .. MaxReinit
      /\ fails \in 0 .. MaxFail
      /\ ReinitCounted
  BY BoundsAssumption DEF Init, ReinitCounted
<1>2. /\ wpc \in [Writers -> WriterPC]
      /\ stopped \subseteq NetDevs
      /\ kpc \in WorkPC
      /\ rpc \in ReinitPC
  BY DEF Init, WriterPC, WorkPC, ReinitPC
<1>3. {data_path, work, handshake, irqs, smp} \subseteq BOOLEAN
  BY Zenon DEF Init
<1>4. QED
  BY <1>1, <1>2, <1>3 DEF TypeInv, TypeOK

LEMMA TypeStep == TypeInv /\ [Next]_vars => TypeInv'
<1> SUFFICES ASSUME TypeInv, [Next]_vars
             PROVE  TypeInv'
  OBVIOUS
<1> USE DEF TypeInv, TypeOK, ReinitCounted, WriterPC, WorkPC, ReinitPC
<1>1. ASSUME NEW w \in Writers, EnterWrite(w)
      PROVE  TypeInv'
  BY <1>1 DEF EnterWrite, Goto
<1>2. ASSUME NEW w \in Writers, RejectClosed(w)
      PROVE  TypeInv'
  BY <1>2 DEF RejectClosed, Goto
<1>3. ASSUME NEW w \in Writers, CheckPending(w)
      PROVE  TypeInv'
  BY <1>3 DEF CheckPending, Goto
<1>4. ASSUME NEW w \in Writers, EnqueueHci(w)
      PROVE  TypeInv'
  BY <1>4, BoundsAssumption DEF EnqueueHci, Goto
<1>5. ASSUME NEW w \in Writers, Enqueue(w)
      PROVE  TypeInv'
  BY <1>5 DEF Enqueue, Goto
<1>6. ASSUME NEW w \in Writers, IncPending(w)
      PROVE  TypeInv'
  BY <1>6 DEF IncPending, Incremented, Goto
<1>7. ASSUME NEW w \in Writers, Pause(w)
      PROVE  TypeInv'
  BY <1>7 DEF Pause, PauseDev, Goto, NetDevs
<1>8. ASSUME NEW w \in Writers, Kick(w)
      PROVE  TypeInv'
  BY <1>8 DEF Kick, Goto
<1>9. CASE Dequeue
  <2>1. /\ txq > 0 /\ txq' = txq - 1
        /\ kpc' = "dequeued" /\ work' = FALSE
        /\ UNCHANGED << data_path, tx_pending, btq, stopped, wpc,
                        handshake, irqs, rpc, reinits, fails, smp >>
    BY <1>9, Zenon DEF Dequeue
  <2>2. txq' \in Nat
    BY <2>1
  <2>3. {data_path', work', handshake', irqs', smp'} \subseteq BOOLEAN
    BY <2>1, Zenon
  <2>4. QED
    BY <2>1, <2>2, <2>3
<1>10. ASSUME NEW rr \in BOOLEAN, NothingToSend(rr)
       PROVE  TypeInv'
  <2>1. kpc' \in {"transfer", "idle"}
    BY <1>10, Zenon DEF NothingToSend
  <2>2. /\ work' = FALSE
        /\ UNCHANGED << data_path, tx_pending, txq, btq, stopped, wpc,
                        handshake, irqs, rpc, reinits, fails, smp >>
    BY <1>10 DEF NothingToSend
  <2>3. QED
    BY <2>1, <2>2
<1>11. CASE DecPending
  BY <1>11 DEF DecPending, CountedDown
<1>12. CASE DecideResume
  BY <1>12 DEF DecideResume, BelowResume
<1>13. CASE Wake
  BY <1>13 DEF Wake, WakeDev, Woken
<1>14. CASE Transfer
  BY <1>14 DEF Transfer
<1>15. CASE TransferFails
  BY <1>15, BoundsAssumption DEF TransferFails
<1>16. CASE SlaveReady
  BY <1>16 DEF SlaveReady, HandshakeEdge
<1>17. CASE ReinitClose
  BY <1>17 DEF ReinitClose
<1>18. CASE ReinitReset
  BY <1>18, BoundsAssumption DEF ReinitReset
<1>19. CASE ReinitOpen
  BY <1>19 DEF ReinitOpen
<1>20. CASE UNCHANGED vars
  BY <1>20 DEF vars
<1>21. QED
  BY <1>1, <1>2, <1>3, <1>4, <1>5, <1>6, <1>7, <1>8, <1>9, <1>10, <1>11,
     <1>12, <1>13, <1>14, <1>15, <1>16, <1>17, <1>18, <1>19, <1>20
     DEF Next, WriterStep, WorkStep, ReinitStep

\* Type correctness: every variable keeps its type under every interleaving of
\* write_packet, esp_spi_work and spi_reinit_spidev; in particular tx_pending
\* never becomes negative.
THEOREM TypeCorrect == Spec => []TypeOK
<1>1. Init => TypeInv
  BY TypeInit
<1>2. TypeInv /\ [Next]_vars => TypeInv'
  BY TypeStep
<1>3. TypeInv => TypeOK
  BY DEF TypeInv
<1>4. QED
  BY <1>1, <1>2, <1>3, PTL DEF Spec

-----------------------------------------------------------------------------
(* The counting invariant *)

CountInv ==
    /\ TypeInv
    /\ CounterBounded
    /\ CounterCovers

LEMMA CapType == Cap \in Nat
BY WritersFinite, ThresholdAssumption DEF Cap

\* A reinit forgets at most one full counter.
LEMMA OneMoreCap == \A n \in Nat : (n + 1) * Cap = n * Cap + Cap /\ n * Cap \in Nat
BY CapType

LEMMA CountInit == Init => CountInv
<1> SUFFICES ASSUME Init
             PROVE  CountInv
  OBVIOUS
<1>1. TypeInv
  BY TypeInit
<1>2. At("checked") = {} /\ At("queued") = {}
  BY DEF Init, At
<1>3. Count("checked") = 0 /\ Count("queued") = 0
  BY <1>2, FS_EmptySet DEF Count
<1>4. tx_pending = 0 /\ txq = 0 /\ InHand = 0 /\ reinits = 0
  BY DEF Init, InHand
<1>5. CounterBounded /\ CounterCovers
  BY <1>3, <1>4, CapType DEF CounterBounded, CounterCovers
<1>6. QED
  BY <1>1, <1>5 DEF CountInv

LEMMA CountStep == CountInv /\ TypeInv' /\ [Next]_vars => CountInv'
<1> SUFFICES ASSUME CountInv, TypeInv', [Next]_vars
             PROVE  (CounterBounded /\ CounterCovers)'
  BY DEF CountInv
<1>c. /\ Count("checked") \in Nat /\ Count("queued") \in Nat
      /\ Count("checked")' \in Nat /\ Count("queued")' \in Nat
      /\ Cap \in Nat /\ reinits * Cap \in Nat
      /\ tx_pending \in Nat /\ txq \in Nat
      /\ InHand \in {0, 1}
      /\ reinits \in Nat
  <2>1. reinits \in Nat /\ tx_pending \in Nat /\ txq \in Nat
    BY DEF CountInv, TypeInv, TypeOK
  <2>2. Count("checked")' \in Nat /\ Count("queued")' \in Nat
    BY CountType DEF Count, At
  <2>3. Count("checked") \in Nat /\ Count("queued") \in Nat
    BY CountType DEF Count, At
  <2>4. QED
    BY <2>1, <2>2, <2>3, CapType, OneMoreCap DEF InHand
<1>t. /\ wpc \in [Writers -> WriterPC]
      /\ tx_pending + Count("checked") + Count("queued") <= Cap
      /\ txq + InHand <= tx_pending + Count("queued") + reinits * Cap
  BY DEF CountInv, TypeInv, TypeOK, CounterBounded, CounterCovers
<1> DEFINE Moved(w, to) ==
         \A pc : Count(pc)' = Count(pc) + (IF to = pc THEN 1 ELSE 0)
                                      - (IF wpc[w] = pc THEN 1 ELSE 0)
<1>m. ASSUME NEW w \in Writers, NEW to \in WriterPC, Goto(w, to)
      PROVE  Moved(w, to)
  BY <1>m, <1>t, OneMoves
<1>n. ASSUME UNCHANGED wpc
      PROVE  /\ Count("checked")' = Count("checked")
             /\ Count("queued")' = Count("queued")
  BY <1>n, NobodyMoves
<1>1. ASSUME NEW w \in Writers, EnterWrite(w) \/ RejectClosed(w) \/ EnqueueHci(w)
                                \/ Pause(w) \/ Kick(w)
      PROVE  (CounterBounded /\ CounterCovers)'
  \* the writer is not, and will not be, between the check and the increment
  <2>1. PICK to \in {"entered", "idle", "kick", "pause1"} : Goto(w, to)
    BY <1>1 DEF EnterWrite, RejectClosed, EnqueueHci, Pause, PauseDev, Kick
  <2>2. wpc[w] \notin {"checked", "queued"}
    BY <1>1 DEF EnterWrite, RejectClosed, EnqueueHci, Pause, PauseDev, Kick
  <2>3. Moved(w, to)
    BY <1>m, <2>1 DEF WriterPC
  <2>4. Count("checked")' = Count("checked") /\ Count("queued")' = Count("queued")
    BY <2>1, <2>2, <2>3, <1>c
  <2>5. UNCHANGED << tx_pending, txq, kpc, reinits >>
    BY <1>1 DEF EnterWrite, RejectClosed, EnqueueHci, Pause, PauseDev, Kick
  <2>6. QED
    BY <2>4, <2>5, <1>t DEF CounterBounded, CounterCovers, InHand, Cap
<1>2. ASSUME NEW w \in Writers, CheckPending(w)
      PROVE  (CounterBounded /\ CounterCovers)'
  <2>1. UNCHANGED << tx_pending, txq, kpc, reinits >> /\ wpc[w] = "entered"
    BY <1>2 DEF CheckPending, Full
  <2>2. CASE Full
    <3>1. Moved(w, "pause0")
      BY <1>m, <1>2, <2>2 DEF CheckPending, Full, WriterPC
    <3>2. Count("checked")' = Count("checked") /\ Count("queued")' = Count("queued")
      BY <3>1, <2>1, <1>c
    <3>3. QED
      BY <3>2, <2>1, <1>t DEF CounterBounded, CounterCovers, InHand, Cap
  <2>3. CASE ~ Full
    <3>1. Moved(w, "checked")
      BY <1>m, <1>2, <2>3 DEF CheckPending, Full, WriterPC
    <3>2. Count("checked")' = Count("checked") + 1 /\ Count("queued")' = Count("queued")
      BY <3>1, <2>1, <1>c
    <3>3. Count("checked")' + Count("queued")' <= Cardinality(Writers)
      <4>1. /\ At("checked")' \in SUBSET Writers
            /\ At("queued")' \in SUBSET Writers
            /\ At("checked")' \cap At("queued")' = {}
        BY DEF At
      <4>2. QED
        BY <4>1, TwoPlaces DEF Count
    <3>4. tx_pending' <= MAX - 1
      BY <2>1, <2>3, <1>c, ThresholdAssumption DEF Full
    <3>5. CounterBounded'
      BY <3>3, <3>4, <2>1, <1>c, WritersFinite, ThresholdAssumption
         DEF CounterBounded, Cap
    <3>6. QED
      BY <3>2, <3>5, <2>1, <1>t DEF CounterCovers, InHand, Cap
  <2>4. QED
    BY <2>2, <2>3
<1>3. ASSUME NEW w \in Writers, Enqueue(w)
      PROVE  (CounterBounded /\ CounterCovers)'
  <2>1. Moved(w, "queued") /\ wpc[w] = "checked"
    BY <1>m, <1>3 DEF Enqueue, WriterPC
  <2>2. /\ Count("checked")' = Count("checked") - 1
        /\ Count("queued")' = Count("queued") + 1
    BY <2>1, <1>c
  <2>3. txq' = txq + 1 /\ UNCHANGED << tx_pending, kpc, reinits >>
    BY <1>3 DEF Enqueue
  <2>4. QED
    BY <2>2, <2>3, <1>t, <1>c DEF CounterBounded, CounterCovers, InHand, Cap
<1>4. ASSUME NEW w \in Writers, IncPending(w)
      PROVE  (CounterBounded /\ CounterCovers)'
  <2>1. Moved(w, "kick") /\ wpc[w] = "queued"
    BY <1>m, <1>4 DEF IncPending, WriterPC
  <2>2. /\ Count("checked")' = Count("checked")
        /\ Count("queued")' = Count("queued") - 1
    BY <2>1, <1>c
  <2>3. tx_pending' = tx_pending + 1 /\ UNCHANGED << txq, kpc, reinits >>
    BY <1>4 DEF IncPending, Incremented
  <2>4. QED
    BY <2>2, <2>3, <1>t, <1>c DEF CounterBounded, CounterCovers, InHand, Cap
<1>5. CASE Dequeue
  <2>1. /\ txq' = txq - 1 /\ kpc = "idle" /\ kpc' = "dequeued"
        /\ UNCHANGED << tx_pending, reinits, wpc >>
    BY <1>5 DEF Dequeue
  <2>2. QED
    BY <2>1, <1>n, <1>t, <1>c DEF CounterBounded, CounterCovers, InHand, Cap
<1>6. CASE DecPending
  <2>1. /\ tx_pending' = IF tx_pending > 0 THEN tx_pending - 1 ELSE tx_pending
        /\ kpc = "dequeued" /\ kpc' = "counted"
        /\ UNCHANGED << txq, reinits, wpc >>
    BY <1>6 DEF DecPending, CountedDown
  <2>2. QED
    BY <2>1, <1>n, <1>t, <1>c DEF CounterBounded, CounterCovers, InHand, Cap
<1>7. CASE \/ \E rr \in BOOLEAN : NothingToSend(rr)
           \/ DecideResume \/ Wake \/ Transfer \/ TransferFails
  <2>1. kpc # "dequeued" /\ kpc' # "dequeued"
    BY <1>7 DEF NothingToSend, DecideResume, Wake, WakeDev, Transfer, TransferFails
  <2>2. UNCHANGED << tx_pending, txq, wpc, reinits >>
    BY <1>7 DEF NothingToSend, DecideResume, Wake, WakeDev, Transfer, TransferFails
  <2>3. QED
    BY <2>1, <2>2, <1>n, <1>t DEF CounterBounded, CounterCovers, InHand, Cap
<1>8. CASE SlaveReady \/ ReinitClose \/ ReinitOpen \/ UNCHANGED vars
  <2>1. UNCHANGED << tx_pending, txq, wpc, reinits, kpc >>
    BY <1>8 DEF SlaveReady, ReinitClose, ReinitOpen, vars
  <2>2. QED
    BY <2>1, <1>n, <1>t DEF CounterBounded, CounterCovers, InHand, Cap
<1>9. CASE ReinitReset
  <2>1. /\ tx_pending' = 0 /\ reinits' = reinits + 1
        /\ UNCHANGED << txq, wpc, kpc >>
    BY <1>9 DEF ReinitReset
  <2>2. reinits' * Cap = reinits * Cap + Cap
    BY <2>1, <1>c, OneMoreCap
  <2>3. tx_pending <= Cap
    BY <1>t, <1>c
  <2>4. CounterBounded'
    BY <2>1, <1>n, <1>t, <1>c DEF CounterBounded, Cap
  <2>5. CounterCovers'
    BY <2>1, <2>2, <2>3, <1>n, <1>t, <1>c DEF CounterCovers, InHand, Cap
  <2>6. QED
    BY <2>4, <2>5
<1>10. QED
  BY <1>1, <1>2, <1>3, <1>4, <1>5, <1>6, <1>7, <1>8, <1>9
     DEF Next, WriterStep, WorkStep, ReinitStep

\* The counting invariant, for the specification.
THEOREM Counting == Spec => []CountInv
<1>1. Init => CountInv
  BY CountInit
<1>2. TypeInv /\ [Next]_vars => TypeInv'
  BY TypeStep
<1>3. CountInv => TypeInv
  BY DEF CountInv
<1>4. CountInv /\ TypeInv' /\ [Next]_vars => CountInv'
  BY CountStep
<1>5. QED
  BY <1>1, <1>2, <1>3, <1>4, PTL DEF Spec

\* write_packet: tx_pending exceeds TX_MAX_PENDING_COUNT only by the writers
\* that raced past the check.
THEOREM PendingBounded == Spec => []CounterBounded
<1>1. CountInv => CounterBounded
  BY DEF CountInv
<1>2. QED
  BY <1>1, Counting, PTL

\* tx_pending never undercounts the packets that were queued since the last
\* reset of open_data_path.
THEOREM PendingCovers == Spec => []CounterCovers
<1>1. CountInv => CounterCovers
  BY DEF CountInv
<1>2. QED
  BY <1>1, Counting, PTL

\* The transmit queue is bounded, for every number of writers and every
\* interleaving: one full counter for the first opening of the data path and
\* one for every reinit.
THEOREM TxQueueBounded == Spec => []QueueBounded
<1>1. CountInv => QueueBounded
  <2> SUFFICES ASSUME CountInv
               PROVE  txq <= (reinits + 1) * Cap
    BY DEF QueueBounded
  <2>1. /\ reinits \in Nat /\ tx_pending \in Nat /\ txq \in Nat
        /\ Cap \in Nat /\ InHand \in {0, 1}
    BY CapType DEF CountInv, TypeInv, TypeOK, InHand
  <2>2. Count("checked") \in Nat /\ Count("queued") \in Nat
    BY CountType DEF Count, At
  <2>3. (reinits + 1) * Cap = reinits * Cap + Cap /\ reinits * Cap \in Nat
    BY <2>1, OneMoreCap
  <2>4. /\ tx_pending + Count("checked") + Count("queued") <= Cap
        /\ txq + InHand <= tx_pending + Count("queued") + reinits * Cap
    BY DEF CountInv, CounterBounded, CounterCovers
  <2>5. QED
    BY <2>1, <2>2, <2>3, <2>4
<1>2. QED
  BY <1>1, Counting, PTL

\* esp_spi_work: the decision to wake the network queues is never taken above
\* the threshold by more than the writers in flight.
THEOREM ResumeSound == Spec => ResumeDecisionSound
<1>1. CountInv /\ [Next]_vars
        => [(kpc = "counted" /\ kpc' = "wake0" /\ reinits = 0)
              => txq <= RESUME - 1 + Count("queued")]_vars
  <2> SUFFICES ASSUME CountInv, Next, kpc = "counted", kpc' = "wake0", reinits = 0
               PROVE  txq <= RESUME - 1 + Count("queued")
    BY DEF vars
  <2>1. tx_pending < RESUME
    BY DEF Next, WriterStep, WorkStep, ReinitStep, EnterWrite, RejectClosed,
           CheckPending, EnqueueHci, Enqueue, IncPending, Pause, PauseDev, Kick,
           Dequeue, NothingToSend, DecPending, DecideResume, BelowResume, Wake,
           WakeDev, Transfer, TransferFails, SlaveReady, ReinitClose, ReinitReset, ReinitOpen
  <2>2. /\ tx_pending \in Nat /\ txq \in Nat /\ RESUME \in Nat
        /\ InHand \in {0, 1} /\ Cap \in Nat /\ Count("queued") \in Nat
    <3>1. tx_pending \in Nat /\ txq \in Nat
      BY Zenon DEF CountInv, TypeInv, TypeOK
    <3>2. RESUME \in Nat /\ InHand \in {0, 1}
      BY ThresholdAssumption DEF InHand
    <3>3. Count("queued") \in Nat
      BY CountType DEF Count, At
    <3>4. QED
      BY <3>1, <3>2, <3>3, CapType
  <2>3. txq + InHand <= tx_pending + Count("queued") + 0 * Cap
    BY DEF CountInv, CounterCovers
  <2>4. QED
    BY <2>1, <2>2, <2>3
<1>2. QED
  BY <1>1, Counting, PTL DEF Spec, ResumeDecisionSound

-----------------------------------------------------------------------------
(* One CPU: no writer is interleaved with the work item, until a reinit *)

Exact == tx_pending + Count("queued") = txq + InHand

\* A writer in esp_tx_pause has seen a full counter, and nobody has counted
\* down since.
PauseFull == \A w \in Writers : wpc[w] \in {"pause0", "pause1"} => tx_pending >= MAX

\* Between the two wake-ups of esp_tx_resume the first queue is running, unless
\* the writers have filled the counter again.
WakeOrder == (kpc = "wake1" /\ 0 \in stopped) => tx_pending >= RESUME

Backlog == stopped # {} => \/ tx_pending >= RESUME
                           \/ kpc \in {"counted", "wake0", "wake1"}

OneCpuInv == (~ smp /\ reinits = 0) => Exact /\ PauseFull /\ WakeOrder /\ Backlog

LEMMA OneCpuInit == Init => OneCpuInv
<1> SUFFICES ASSUME Init
             PROVE  Exact /\ PauseFull /\ WakeOrder /\ Backlog
  BY DEF OneCpuInv
<1>1. At("queued") = {} /\ PauseFull
  BY DEF Init, At, PauseFull
<1>2. Count("queued") = 0
  BY <1>1, FS_EmptySet DEF Count
<1>3. tx_pending = 0 /\ txq = 0 /\ kpc = "idle" /\ stopped = {}
  BY DEF Init
<1>4. QED
  BY <1>1, <1>2, <1>3 DEF Exact, InHand, WakeOrder, Backlog

LEMMA OneCpuStep == TypeInv /\ TypeInv' /\ OneCpuInv /\ [Next]_vars => OneCpuInv'
<1> SUFFICES ASSUME TypeInv, TypeInv', OneCpuInv, [Next]_vars, ~ smp', reinits' = 0
             PROVE  (Exact /\ PauseFull /\ WakeOrder /\ Backlog)'
  BY DEF OneCpuInv
<1>y. ~ smp
  BY Zenon DEF Next, WriterStep, WorkStep, ReinitStep, EnterWrite, RejectClosed,
           CheckPending, EnqueueHci, Enqueue, IncPending, Pause, PauseDev, Kick,
           Dequeue, NothingToSend, DecPending, DecideResume, Wake, WakeDev,
           Transfer, TransferFails, SlaveReady, ReinitClose, ReinitReset,
           ReinitOpen, vars
<1>z. reinits = 0 /\ ~ ReinitReset
  <2>1. reinits' = reinits \/ reinits' = reinits + 1
    BY DEF Next, WriterStep, WorkStep, ReinitStep, EnterWrite, RejectClosed,
           CheckPending, EnqueueHci, Enqueue, IncPending, Pause, PauseDev, Kick,
           Dequeue, NothingToSend, DecPending, DecideResume, BelowResume, Wake,
           WakeDev, Transfer, TransferFails, SlaveReady, ReinitClose, ReinitReset,
           ReinitOpen, vars
  <2>2. reinits \in Nat
    BY DEF TypeInv, TypeOK
  <2>3. ReinitReset => reinits' = reinits + 1
    BY DEF ReinitReset
  <2>4. QED
    BY <2>1, <2>2, <2>3
<1>i. Exact /\ PauseFull /\ WakeOrder /\ Backlog
  BY <1>y, <1>z DEF OneCpuInv
<1>c. /\ tx_pending \in Nat /\ txq \in Nat /\ Count("queued") \in Nat
      /\ MAX \in Nat /\ RESUME \in Nat /\ RESUME <= MAX /\ InHand \in {0, 1}
      /\ wpc \in [Writers -> WriterPC]
  <2>1. Count("queued") \in Nat
    BY CountType DEF Count, At
  <2>2. InHand \in {0, 1}
    BY DEF InHand
  <2>3. QED
    BY <2>1, <2>2, ThresholdAssumption DEF TypeInv, TypeOK
<1>m. ASSUME NEW w \in Writers, NEW to \in WriterPC, Goto(w, to)
      PROVE  Count("queued")' = Count("queued") + (IF to = "queued" THEN 1 ELSE 0)
                                   - (IF wpc[w] = "queued" THEN 1 ELSE 0)
  BY <1>m, <1>c, OneMoves
<1>n. UNCHANGED wpc => Count("queued")' = Count("queued")
  BY NobodyMoves
\* A step of esp_spi_work finds no writer inside write_packet.
<1>k. ThreadMayRun => At("queued") = {} /\ \A w \in Writers : wpc[w] = "idle"
  BY <1>y DEF ThreadMayRun, WritersIdle, At
<1>1. ASSUME NEW w \in Writers, EnterWrite(w) \/ RejectClosed(w) \/ EnqueueHci(w)
                                \/ Kick(w)
      PROVE  (Exact /\ PauseFull /\ WakeOrder /\ Backlog)'
  <2>1. PICK to \in {"entered", "idle", "kick"} : Goto(w, to)
    BY <1>1 DEF EnterWrite, RejectClosed, EnqueueHci, Kick
  <2>2. wpc[w] # "queued"
    BY <1>1 DEF EnterWrite, RejectClosed, EnqueueHci, Kick
  <2>3. UNCHANGED << tx_pending, txq, kpc, stopped >>
    BY <1>1 DEF EnterWrite, RejectClosed, EnqueueHci, Kick
  <2>4. Count("queued")' = Count("queued")
    BY <1>m, <2>1, <2>2, <1>c DEF WriterPC
  <2>5. PauseFull'
    BY <1>i, <1>c, <2>1, <2>3 DEF PauseFull, Goto
  <2>6. QED
    BY <1>i, <2>3, <2>4, <2>5 DEF Exact, InHand, WakeOrder, Backlog
<1>2. ASSUME NEW w \in Writers, CheckPending(w)
      PROVE  (Exact /\ PauseFull /\ WakeOrder /\ Backlog)'
  <2>1. /\ UNCHANGED << tx_pending, txq, kpc, stopped >> /\ wpc[w] = "entered"
        /\ \/ tx_pending >= MAX /\ Goto(w, "pause0")
           \/ Goto(w, "checked")
    BY <1>2 DEF CheckPending, Full
  <2>2. Count("queued")' = Count("queued")
    BY <1>m, <2>1, <1>c DEF WriterPC
  <2>3. PauseFull'
    BY <1>i, <1>c, <2>1 DEF PauseFull, Goto
  <2>4. QED
    BY <1>i, <2>1, <2>2, <2>3 DEF Exact, InHand, WakeOrder, Backlog
<1>3. ASSUME NEW w \in Writers, Enqueue(w)
      PROVE  (Exact /\ PauseFull /\ WakeOrder /\ Backlog)'
  <2>1. /\ wpc[w] = "checked" /\ Goto(w, "queued") /\ txq' = txq + 1
        /\ UNCHANGED << tx_pending, kpc, stopped >>
    BY <1>3 DEF Enqueue
  <2>2. Count("queued")' = Count("queued") + 1
    BY <1>m, <2>1, <1>c DEF WriterPC
  <2>3. PauseFull'
    BY <1>i, <1>c, <2>1 DEF PauseFull, Goto
  <2>4. QED
    BY <1>i, <1>c, <2>1, <2>2, <2>3 DEF Exact, InHand, WakeOrder, Backlog
<1>4. ASSUME NEW w \in Writers, IncPending(w)
      PROVE  (Exact /\ PauseFull /\ WakeOrder /\ Backlog)'
  <2>1. /\ wpc[w] = "queued" /\ Goto(w, "kick") /\ tx_pending' = tx_pending + 1
        /\ UNCHANGED << txq, kpc, stopped >>
    BY <1>4 DEF IncPending, Incremented
  <2>2. Count("queued")' = Count("queued") - 1
    BY <1>m, <2>1, <1>c DEF WriterPC
  <2>3. PauseFull'
    BY <1>i, <1>c, <2>1 DEF PauseFull, Goto
  <2>4. QED
    BY <1>i, <1>c, <2>1, <2>2, <2>3 DEF Exact, InHand, WakeOrder, Backlog
<1>5. ASSUME NEW w \in Writers, Pause(w)
      PROVE  (Exact /\ PauseFull /\ WakeOrder /\ Backlog)'
  <2>1. /\ wpc[w] \in {"pause0", "pause1"}
        /\ Goto(w, "pause1") \/ Goto(w, "kick")
        /\ UNCHANGED << tx_pending, txq, kpc >>
    BY <1>5 DEF Pause, PauseDev
  <2>2. Count("queued")' = Count("queued")
    BY <1>m, <2>1, <1>c DEF WriterPC
  <2>3. tx_pending' >= RESUME
    BY <1>i, <1>c, <2>1 DEF PauseFull
  <2>4. PauseFull'
    BY <1>i, <1>c, <2>1 DEF PauseFull, Goto
  <2>5. QED
    BY <1>i, <1>c, <2>1, <2>2, <2>3, <2>4 DEF Exact, InHand, WakeOrder, Backlog
<1>6. CASE Dequeue
  <2>1. /\ txq' = txq - 1 /\ kpc = "idle" /\ kpc' = "dequeued"
        /\ UNCHANGED << tx_pending, stopped, wpc >>
    BY <1>6 DEF Dequeue
  <2>2. QED
    BY <2>1, <1>i, <1>n, <1>c DEF Exact, InHand, PauseFull, WakeOrder, Backlog
<1>7. CASE DecPending
  <2>1. /\ tx_pending' = IF tx_pending > 0 THEN tx_pending - 1 ELSE tx_pending
        /\ kpc = "dequeued" /\ kpc' = "counted"
        /\ UNCHANGED << txq, stopped, wpc >>
        /\ ThreadMayRun
    BY <1>7 DEF DecPending, CountedDown
  <2>2. Count("queued") = 0
    BY <2>1, <1>k, FS_EmptySet DEF Count
  <2>3. PauseFull'
    BY <2>1, <1>k DEF PauseFull
  <2>4. QED
    BY <2>1, <2>2, <2>3, <1>i, <1>n, <1>c DEF Exact, InHand, WakeOrder, Backlog
<1>8. CASE \E rr \in BOOLEAN : NothingToSend(rr)
  <2>1. /\ kpc = "idle" /\ kpc' \in {"idle", "transfer"}
        /\ UNCHANGED << tx_pending, txq, stopped, wpc >>
    BY <1>8 DEF NothingToSend
  <2>2. QED
    BY <2>1, <1>i, <1>n DEF Exact, InHand, PauseFull, WakeOrder, Backlog
<1>9. CASE DecideResume
  <2>1. /\ kpc = "counted"
        /\ kpc' = IF tx_pending < RESUME THEN "wake0" ELSE "transfer"
        /\ UNCHANGED << tx_pending, txq, stopped, wpc >>
    BY <1>9 DEF DecideResume, BelowResume
  <2>2. QED
    BY <2>1, <1>i, <1>n, <1>c DEF Exact, InHand, PauseFull, WakeOrder, Backlog
<1>10. CASE Wake
  <2>1. /\ \/ kpc = "wake0" /\ kpc' = "wake1" /\ stopped' = stopped \ {0}
           \/ kpc = "wake1" /\ kpc' = "transfer" /\ stopped' = stopped \ {1}
        /\ UNCHANGED << tx_pending, txq, wpc >>
    BY <1>10 DEF Wake, WakeDev, Woken
  <2>2. stopped \subseteq {0, 1}
    BY DEF TypeInv, TypeOK, NetDevs
  <2>3. QED
    BY <2>1, <2>2, <1>i, <1>n DEF Exact, InHand, PauseFull, WakeOrder, Backlog
<1>11. CASE Transfer \/ TransferFails
  <2>1. /\ kpc = "transfer" /\ kpc' = "idle"
        /\ UNCHANGED << tx_pending, txq, stopped, wpc >>
    BY <1>11 DEF Transfer, TransferFails
  <2>2. QED
    BY <2>1, <1>i, <1>n DEF Exact, InHand, PauseFull, WakeOrder, Backlog
<1>12. CASE SlaveReady \/ ReinitClose \/ ReinitOpen \/ UNCHANGED vars
  <2>1. UNCHANGED << tx_pending, txq, stopped, wpc, kpc >>
    BY <1>12 DEF SlaveReady, ReinitClose, ReinitOpen, vars
  <2>2. QED
    BY <2>1, <1>i, <1>n DEF Exact, InHand, PauseFull, WakeOrder, Backlog
<1>13. QED
  BY <1>z, <1>1, <1>2, <1>3, <1>4, <1>5, <1>6, <1>7, <1>8, <1>9, <1>10, <1>11,
     <1>12 DEF Next, WriterStep, WorkStep, ReinitStep

THEOREM OneCpu == Spec => []OneCpuInv
<1>1. Init => TypeInv /\ OneCpuInv
  BY TypeInit, OneCpuInit
<1>2. TypeInv /\ [Next]_vars => TypeInv'
  BY TypeStep
<1>3. TypeInv /\ TypeInv' /\ OneCpuInv /\ [Next]_vars => OneCpuInv'
  BY OneCpuStep
<1>4. QED
  BY <1>1, <1>2, <1>3, PTL DEF Spec

\* On one CPU tx_pending equals the length of the queue until the first reinit.
THEOREM CounterIsExact == Spec => []CounterExact
<1>1. OneCpuInv => CounterExact
  BY DEF OneCpuInv, Exact, CounterExact
<1>2. QED
  BY <1>1, OneCpu, PTL

\* On one CPU a stopped network queue always has enough packets queued behind it
\* for esp_spi_work to reach the threshold that wakes it.
THEOREM StoppedIsCovered == Spec => []StoppedHasBacklog
<1>1. OneCpuInv => StoppedHasBacklog
  BY DEF OneCpuInv, Backlog, StoppedHasBacklog
<1>2. QED
  BY <1>1, OneCpu, PTL

\* Both facts together: what esp_tx_pause and esp_tx_resume rely on, on one CPU.
THEOREM CountersAreSound == Spec => []CountersSound
<1>1. CounterExact /\ StoppedHasBacklog => CountersSound
  BY DEF CountersSound
<1>2. QED
  BY <1>1, CounterIsExact, StoppedIsCovered, PTL

-----------------------------------------------------------------------------
(* No kick is lost *)

\* Before the first reinit the interrupt handlers are there and the path is open.
PathOpen == /\ reinits = 0 /\ rpc = "idle" => irqs /\ data_path
            /\ rpc = "reset" => reinits # 0

\* Whoever will see to the packets in the queue: the work item, the slave's next edge, or
\* a writer that has not kicked yet.
Minded ==
    \/ txq = 0 \/ work \/ kpc # "idle" \/ ~ handshake
    \/ \E w \in Writers : wpc[w] \in {"queued", "kick"}

KickInv == PathOpen /\ (reinits = 0 /\ fails = 0 /\ rpc = "idle" => Minded)

LEMMA KickInit == Init => KickInv
  BY Zenon DEF Init, KickInv, PathOpen, Minded

LEMMA KickStep == TypeInv /\ KickInv /\ [Next]_vars => KickInv'
<1> SUFFICES ASSUME TypeInv, KickInv, [Next]_vars
             PROVE  KickInv'
  OBVIOUS
<1>t. wpc \in [Writers -> WriterPC] /\ reinits \in Nat /\ fails \in Nat
  BY BoundsAssumption DEF TypeInv, TypeOK
<1>1. ASSUME NEW w \in Writers, NEW pc, Goto(w, pc),
             UNCHANGED << data_path, irqs, reinits, fails, rpc, txq, work, kpc, handshake >>,
             wpc[w] \in {"queued", "kick"} => pc \in {"queued", "kick"}
      PROVE  KickInv'
  <2>1. (\E v \in Writers : wpc[v] \in {"queued", "kick"})
           => \E v \in Writers : wpc'[v] \in {"queued", "kick"}
    BY <1>t, <1>1 DEF Goto
  <2>2. QED
    BY <1>1, <2>1, Zenon DEF KickInv, PathOpen, Minded
\* A packet in the queue is the business of the writer until the kick.
<1>2. ASSUME NEW w \in Writers,
             EnterWrite(w) \/ RejectClosed(w) \/ CheckPending(w) \/ Pause(w)
      PROVE  KickInv'
  <2>1. /\ UNCHANGED << data_path, irqs, reinits, fails, rpc, txq, work, kpc, handshake >>
        /\ wpc[w] \in {"idle", "entered", "pause0", "pause1"}
        /\ \E pc : Goto(w, pc)
    BY <1>2 DEF EnterWrite, RejectClosed, CheckPending, Pause, PauseDev
  <2>2. QED
    BY <1>1, <2>1
<1>3. ASSUME NEW w \in Writers, EnqueueHci(w) \/ Enqueue(w) \/ IncPending(w)
      PROVE  KickInv'
  <2>1. /\ UNCHANGED << data_path, irqs, reinits, fails, rpc >>
        /\ Goto(w, "kick") \/ Goto(w, "queued")
    BY <1>3, Zenon DEF EnqueueHci, Enqueue, IncPending
  <2>2. wpc'[w] \in {"queued", "kick"}
    BY <1>t, <2>1 DEF Goto
  <2>3. QED
    BY <2>1, <2>2, Zenon DEF KickInv, PathOpen, Minded
<1>4. ASSUME NEW w \in Writers, Kick(w)
      PROVE  KickInv'
  BY <1>4, Zenon DEF Kick, KickInv, PathOpen, Minded
<1>5. CASE Dequeue
  <2>1. kpc' # "idle" /\ UNCHANGED << data_path, irqs, reinits, fails, rpc >>
    BY <1>5 DEF Dequeue
  <2>2. QED
    BY <2>1, Zenon DEF KickInv, PathOpen, Minded
\* The work item finds nothing, or finds the slave not ready.
<1>6. ASSUME NEW rr \in BOOLEAN, NothingToSend(rr)
      PROVE  KickInv'
  <2>1. /\ UNCHANGED << data_path, irqs, reinits, fails, rpc, txq, handshake >>
        /\ ~ (handshake /\ data_path /\ txq > 0)
    BY <1>6, Zenon DEF NothingToSend
  <2>2. txq = 0 \/ txq > 0
    BY DEF TypeInv, TypeOK
  <2>3. QED
    BY <2>1, <2>2, Zenon DEF KickInv, PathOpen, Minded
<1>7. CASE DecPending \/ DecideResume \/ Wake
  <2>1. kpc' # "idle" /\ UNCHANGED << data_path, irqs, reinits, fails, rpc >>
    BY <1>7 DEF DecPending, DecideResume, Wake, WakeDev
  <2>2. QED
    BY <2>1, Zenon DEF KickInv, PathOpen, Minded
<1>8. CASE Transfer
  BY <1>8, Zenon DEF Transfer, KickInv, PathOpen, Minded
<1>9. CASE TransferFails
  <2>1. fails' # 0 /\ UNCHANGED << data_path, irqs, reinits, rpc >>
    BY <1>t, <1>9 DEF TransferFails
  <2>2. QED
    BY <2>1, Zenon DEF KickInv, PathOpen
<1>10. CASE SlaveReady
  BY <1>10, Zenon DEF SlaveReady, HandshakeEdge, KickInv, PathOpen, Minded
<1>11. CASE ReinitClose
  <2>1. rpc' \notin {"idle", "reset"}
    BY <1>11 DEF ReinitClose
  <2>2. QED
    BY <2>1, Zenon DEF KickInv, PathOpen
<1>12. CASE ReinitReset
  <2>1. rpc' # "idle" /\ reinits' # 0
    BY <1>t, <1>12 DEF ReinitReset
  <2>2. QED
    BY <2>1, Zenon DEF KickInv, PathOpen
\* The reset before it has been counted.
<1>13. CASE ReinitOpen
  BY <1>13, Zenon DEF ReinitOpen, KickInv, PathOpen
<1>14. CASE UNCHANGED vars
  BY <1>14, Zenon DEF vars, KickInv, PathOpen, Minded
<1>15. QED
  BY <1>2, <1>3, <1>4, <1>5, <1>6, <1>7, <1>8, <1>9, <1>10, <1>11, <1>12, <1>13, <1>14, Zenon
     DEF Next, WriterStep, WorkStep, ReinitStep

\* When nothing runs or is queued to run any more, no packet is left in tx_q: queue_work,
\* the coalescing of spi_work and the handshake edges never lose the last kick, for any set
\* of writers, until the first reinit or failed transfer.
THEOREM NoKickIsLost == Spec => []NoLostKick
<1>1. Init => TypeInv /\ KickInv
  BY TypeInit, KickInit
<1>2. TypeInv /\ KickInv /\ [Next]_vars => TypeInv' /\ KickInv'
  BY TypeStep, KickStep
<1>3. KickInv => NoLostKick
  <2> SUFFICES ASSUME KickInv, Quiet, reinits = 0, fails = 0
               PROVE  txq = 0
    BY DEF NoLostKick
  <2>1. \A w \in Writers : wpc[w] \notin {"queued", "kick"}
    BY DEF Quiet, WritersIdle
  <2>2. QED
    BY <2>1, Zenon DEF KickInv, Minded, Quiet
<1>4. QED
  BY <1>1, <1>2, <1>3, PTL DEF Spec

-----------------------------------------------------------------------------
(* The receive path of the slave (SlaveAdapter) *)

SlaveInv ==
    /\ loaded \in Nat /\ filled \in Seq(Slave!Interfaces)
    /\ recv = [pc |-> recv.pc, pkt |-> recv.pkt]
    /\ sending \in {"idle", "queued", "finished", "lost"}
    /\ vhci_send_sem \in {0, 1} /\ inController \in {0, 1}
    /\ Slave!ReceivePathSound

LEMMA SlaveInit == Slave!AdapterAssumption /\ Slave!Init => SlaveInv
  BY DEF Slave!AdapterAssumption, Slave!Init, SlaveInv, Slave!Nothing, Slave!ReceivePathSound, Slave!InHand, Slave!Taken

LEMMA SlaveStep == Slave!AdapterAssumption /\ SlaveInv /\ [Slave!Next]_slaveVars => SlaveInv'
<1> SUFFICES ASSUME Slave!AdapterAssumption, SlaveInv, [Slave!Next]_slaveVars
             PROVE  SlaveInv'
  OBVIOUS
<1> USE DEF SlaveInv, Slave!AdapterAssumption, Slave!ReceivePathSound, Slave!InHand, Slave!Taken, Slave!Nothing,
           Slave!uart, Slave!out, Slave!Flushed
<1>0. Len(filled) \in Nat /\ (filled # << >> => Tail(filled) \in Seq(Slave!Interfaces) /\ Len(Tail(filled)) = Len(filled) - 1)
  OBVIOUS
<1>1. CASE Slave!OpenDataPath \/ Slave!CloseDataPath \/ UNCHANGED slaveVars
  BY <1>1 DEF Slave!OpenDataPath, Slave!CloseDataPath, slaveVars
<1>2. CASE Slave!ResetFails
  BY <1>2 DEF Slave!ResetFails
<1>11. CASE Slave!StartFails \/ Slave!Reset
  <2>1. loaded' + Len(filled') + Slave!InHand' = BUFFER_NUM + Slave!Taken'
    BY <1>0, <1>11 DEF Slave!StartFails, Slave!Reset
  <2>2. loaded' \in Nat /\ filled' = << >> /\ sending' \in {"idle", "queued", "finished", "lost"}
    BY <1>0, <1>11 DEF Slave!StartFails, Slave!Reset
  <2>3. UNCHANGED << recv, vhci_send_sem, inController, armed, moving >>
    BY <1>11 DEF Slave!StartFails, Slave!Reset
  <2>4. QED
    BY <2>1, <2>2, <2>3
<1>12. CASE Slave!ResetAborts
  BY <1>12 DEF Slave!ResetAborts
<1>13. CASE Slave!sdio_write \/ Slave!HostReads \/ Slave!TransmitReturns
  BY <1>13 DEF Slave!sdio_write, Slave!HostReads, Slave!TransmitReturns
<1>3. ASSUME NEW p \in Slave!Interfaces, Slave!HostSends(p)
      PROVE  SlaveInv'
  <2>1. Append(filled, p) \in Seq(Slave!Interfaces) /\ Len(Append(filled, p)) = Len(filled) + 1
    OBVIOUS
  <2>2. QED
    BY <1>0, <1>3, <2>1 DEF Slave!HostSends
<1>4. CASE Slave!RecvBegins
  BY <1>4 DEF Slave!RecvBegins
<1>5. CASE Slave!sdio_read
  BY <1>0, <1>5 DEF Slave!sdio_read, Slave!GivenBackAtOnce
<1>6. CASE Slave!Process
  BY <1>0, <1>6 DEF Slave!Process
<1>7. CASE Slave!VhciSend
  BY <1>0, <1>7 DEF Slave!VhciSend, Slave!MaySend
<1>8. CASE Slave!VhciTimeout
  BY <1>0, <1>8 DEF Slave!VhciTimeout
<1>9. CASE Slave!ControllerReady
  BY <1>9 DEF Slave!ControllerReady
<1>10. ASSUME NEW d \in Slave!Directions, Slave!Arm(d) \/ Slave!StartDma(d) \/ Slave!EofCallback(d)
       PROVE  SlaveInv'
  BY <1>10 DEF Slave!Arm, Slave!StartDma, Slave!Armed, Slave!EofCallback
<1>14. QED
  BY <1>1, <1>2, <1>3, <1>4, <1>5, <1>6, <1>7, <1>8, <1>9, <1>10, <1>11, <1>12, <1>13 DEF Slave!Next

-----------------------------------------------------------------------------
(* Writing to the serial device (SerialWrite) *)

\* The number that d counts after a would be, as long as they do not come round to it.
Later(a, d) == IF a + d < Numbers THEN a + d ELSE a + d - Numbers

LEMMA NextNumber ==
    ASSUME Numbers \in Nat \ {0}, NEW a \in 0 .. Numbers - 1, NEW d \in Nat, NEW n \in 0 .. Numbers - 1,
           d < Numbers => n = Later(a, d), d + 1 < Numbers
    PROVE  (n + 1) % Numbers = Later(a, d + 1)
<1>1. n = Later(a, d)
  OBVIOUS
<1>2. CASE n + 1 = Numbers
  <2>1. (n + 1) % Numbers = 0
    BY <1>2
  <2>2. QED
    BY <1>1, <1>2, <2>1 DEF Later
<1>3. CASE n + 1 # Numbers
  <2>1. n + 1 \in 0 .. Numbers - 1
    BY <1>3
  <2>2. (n + 1) % Numbers = n + 1
    BY <2>1
  <2>3. QED
    BY <1>1, <1>3, <2>2 DEF Later
<1>4. QED
  BY <1>2, <1>3

WritePC == {"rest", "count", "store", "header", "send"}
Writing == [pc : WritePC, msg : Nat, left : Nat, num : 0 .. Numbers - 1]
Fragments == [msg : Nat, num : 0 .. Numbers - 1, more : BOOLEAN]

WriteTypeInv ==
    /\ seq_num \in 0 .. Numbers - 1
    /\ writing \in [SerialTasks -> Writing]
    /\ sent \in Seq(Fragments)
    /\ messages \in Nat

\* Tasks that write at the same time write different messages, which overlap.
TaskInv ==
    /\ \A t \in Writes!Busy : writing[t].msg \in 1 .. messages /\ writing[t].left >= 1
    /\ \A t \in Writes!Busy : writing[t].msg \notin overlapped => writing[t].msg = messages
    /\ \A t, u \in Writes!Busy : t # u => writing[t].msg # writing[u].msg /\ writing[t].msg \in overlapped
    /\ \A i \in 1 .. Len(sent) : sent[i].msg \in 1 .. messages
    /\ \A t \in Writes!Busy :
          writing[t].msg \notin overlapped /\ writing[t].pc \in {"store", "send"} => writing[t].num = seq_num

\* Tasks that have a message that they have not counted.
Counters == {t \in SerialTasks : writing[t].pc \in {"count", "store"}}

\* n is what seq_num is after d of the messages that follow f.
After(f, n, d) == d + Cardinality(Counters) <= messages - f.msg /\ (d < Numbers => n = Later(f.num, d))

\* What is known of the last fragment, of a message that nothing overlaps.
LastInv(f) ==
    /\ f.more /\ f.msg \notin cut => \E t \in Writes!Busy : writing[t].msg = f.msg
    /\ \A t \in Writes!Busy : writing[t].msg = f.msg => f.more /\ f.num = seq_num /\ writing[t].pc \in {"header", "send"}
    /\ \E d \in Nat :
          /\ After(f, seq_num, d)
          /\ \A t \in Writes!Busy : writing[t].pc \in {"header", "send"} /\ writing[t].msg \notin overlapped
                                    /\ writing[t].msg # f.msg => d >= 1
    /\ \A t \in SerialTasks : writing[t].pc = "store" => \E d \in Nat : After(f, writing[t].num, d)

WriteInv ==
    /\ WriteTypeInv /\ TaskInv /\ Writes!MessagesApart
    /\ Len(sent) > 0 /\ sent[Len(sent)].msg \notin overlapped => LastInv(sent[Len(sent)])

LEMMA CountersFinite == Writes!WriteAssumption => IsFiniteSet(Counters) /\ Cardinality(Counters) \in Nat
<1> SUFFICES ASSUME Writes!WriteAssumption
             PROVE  IsFiniteSet(Counters) /\ Cardinality(Counters) \in Nat
  OBVIOUS
<1>1. IsFiniteSet(SerialTasks)
  BY DEF Writes!WriteAssumption, Writes!IsFiniteSet, IsFiniteSet
<1>2. Counters \in SUBSET SerialTasks
  BY DEF Counters
<1>3. QED
  BY <1>1, <1>2, FS_Subset, FS_CardinalityType

\* One task moves.
LEMMA CountersMoves ==
    ASSUME Writes!WriteAssumption, NEW t \in SerialTasks,
           \A u \in SerialTasks : u # t => writing'[u] = writing[u]
    PROVE  /\ Cardinality(Counters) \in Nat /\ Cardinality(Counters') \in Nat
           /\ Cardinality(Counters') = Cardinality(Counters)
                 + (IF writing'[t].pc \in {"count", "store"} THEN 1 ELSE 0)
                 - (IF writing[t].pc \in {"count", "store"} THEN 1 ELSE 0)
<1>1. IsFiniteSet(Counters) /\ Cardinality(Counters) \in Nat
  BY CountersFinite
<1>2. t \in Counters <=> writing[t].pc \in {"count", "store"}
  BY DEF Counters
<1>3. CASE writing'[t].pc \in {"count", "store"} /\ t \notin Counters
  <2>1. Counters' = Counters \cup {t}
    BY <1>3 DEF Counters
  <2>2. Cardinality(Counters \cup {t}) = Cardinality(Counters) + 1
    BY <1>1, <1>3, FS_AddElement
  <2>3. QED
    BY <1>1, <1>2, <1>3, <2>1, <2>2
<1>4. CASE ~(writing'[t].pc \in {"count", "store"}) /\ t \in Counters
  <2>1. Counters' = Counters \ {t}
    BY <1>4 DEF Counters
  <2>2. Cardinality(Counters \ {t}) = Cardinality(Counters) - 1 /\ IsFiniteSet(Counters \ {t})
    BY <1>1, <1>4, FS_RemoveElement
  <2>3. Cardinality(Counters \ {t}) \in Nat
    BY <2>2, FS_CardinalityType
  <2>4. QED
    BY <1>1, <1>2, <1>4, <2>1, <2>2, <2>3
<1>5. CASE writing'[t].pc \in {"count", "store"} <=> t \in Counters
  <2>1. Counters' = Counters
    BY <1>5 DEF Counters
  <2>2. QED
    BY <1>1, <1>2, <1>5, <2>1
<1>6. QED
  BY <1>3, <1>4, <1>5

LEMMA WriteInit == Writes!WriteAssumption /\ Writes!Init => WriteInv
<1> SUFFICES ASSUME Writes!WriteAssumption, Writes!Init
             PROVE  WriteInv
  OBVIOUS
<1>1. /\ seq_num = 0 /\ sent = << >> /\ messages = 0
      /\ writing = [t \in SerialTasks |-> [pc |-> "rest", msg |-> 0, left |-> 0, num |-> 0]]
  BY DEF Writes!Init, Writes!NotWriting
<1>2. 0 \in 0 .. Numbers - 1
  BY DEF Writes!WriteAssumption
<1>3. WriteTypeInv /\ Writes!Busy = {}
  BY <1>1, <1>2 DEF WriteTypeInv, Writing, WritePC, Writes!Busy
<1>4. Len(sent) = 0
  BY <1>1
<1>5. QED
  BY <1>3, <1>4 DEF WriteInv, TaskInv, Writes!MessagesApart

\* The pairs of fragments that were sent stay as they were.
LEMMA ApartKept == Writes!MessagesApart /\ UNCHANGED sent /\ overlapped \subseteq overlapped' /\ cut \subseteq cut'
                      => Writes!MessagesApart'
  BY DEF Writes!MessagesApart

\* One task goes on.
Becomes(t, w) ==
    /\ writing' \in [SerialTasks -> Writing]
    /\ writing'[t] = w
    /\ \A u \in SerialTasks : u # t => writing'[u] = writing[u]

LEMMA WritingFields ==
    ASSUME Writes!WriteAssumption, WriteTypeInv, NEW t \in SerialTasks, NEW p \in WritePC, NEW n \in 0 .. Numbers - 1
    PROVE  /\ writing' = [writing EXCEPT ![t].pc = p, ![t].num = n]
                => Becomes(t, [pc |-> p, msg |-> writing[t].msg, left |-> writing[t].left, num |-> n])
           /\ writing' = [writing EXCEPT ![t].pc = p]
                => Becomes(t, [pc |-> p, msg |-> writing[t].msg, left |-> writing[t].left, num |-> writing[t].num])
           /\ \A w \in Writing : writing' = [writing EXCEPT ![t] = w] => Becomes(t, w)
<1>1. writing \in [SerialTasks -> Writing] /\ writing[t] \in Writing
  BY DEF WriteTypeInv
<1>2. \A w \in Writing : writing' = [writing EXCEPT ![t] = w] => Becomes(t, w)
  BY <1>1 DEF Becomes
<1>3. ASSUME NEW m \in 0 .. Numbers - 1
      PROVE  [pc |-> p, msg |-> writing[t].msg, left |-> writing[t].left, num |-> m] \in Writing
  BY <1>1 DEF Writing
<1>4. [writing[t] EXCEPT !.pc = p] = [pc |-> p, msg |-> writing[t].msg, left |-> writing[t].left, num |-> writing[t].num]
  BY <1>1 DEF Writing
<1>5. [[writing[t] EXCEPT !.pc = p] EXCEPT !.num = n] = [pc |-> p, msg |-> writing[t].msg, left |-> writing[t].left, num |-> n]
  <2>1. PICK r : r = [pc |-> p, msg |-> writing[t].msg, left |-> writing[t].left, num |-> writing[t].num]
    OBVIOUS
  <2>2. [r EXCEPT !.num = n] = [pc |-> p, msg |-> writing[t].msg, left |-> writing[t].left, num |-> n]
    BY <2>1
  <2>3. QED
    BY <1>4, <2>1, <2>2
<1>6. writing[t].num \in 0 .. Numbers - 1
  BY <1>1 DEF Writing
<1>7. writing' = [writing EXCEPT ![t].pc = p]
          => Becomes(t, [pc |-> p, msg |-> writing[t].msg, left |-> writing[t].left, num |-> writing[t].num])
  BY <1>1, <1>2, <1>3, <1>4, <1>6
<1>8. writing' = [writing EXCEPT ![t].pc = p, ![t].num = n]
          => Becomes(t, [pc |-> p, msg |-> writing[t].msg, left |-> writing[t].left, num |-> n])
  <2>1. [writing EXCEPT ![t].pc = p, ![t].num = n] = [writing EXCEPT ![t] = [[writing[t] EXCEPT !.pc = p] EXCEPT !.num = n]]
    BY <1>1
  <2>2. QED
    BY <1>2, <1>3, <1>5, <2>1
<1>9. QED
  BY <1>2, <1>7, <1>8

\* A task goes to another place with the same message.
LEMMA TaskGoes ==
    ASSUME Writes!WriteAssumption, WriteInv, NEW t \in SerialTasks, NEW w \in Writing,
           writing[t].pc # "rest", Becomes(t, w), UNCHANGED << sent, messages, overlapped >>,
           cut \subseteq cut', seq_num' \in 0 .. Numbers - 1,
           w.pc = "rest" \/ (w.msg = writing[t].msg /\ w.left = writing[t].left),
           \A u \in Writes!Busy \ {t} : writing[u].pc \in {"store", "send"} /\ writing[u].msg \notin overlapped => seq_num' = seq_num,
           w.pc \in {"store", "send"} => w.num = seq_num'
    PROVE  WriteTypeInv' /\ TaskInv' /\ Writes!MessagesApart'
<1>1. writing'[t] = w /\ \A u \in SerialTasks : u # t => writing'[u] = writing[u]
  BY DEF Becomes
<1>2. WriteTypeInv'
  BY DEF WriteInv, WriteTypeInv, Becomes
<1>3. Writes!MessagesApart'
  BY ApartKept DEF WriteInv
<1>4. Writes!Busy' = IF w.pc = "rest" THEN Writes!Busy \ {t} ELSE Writes!Busy
  BY <1>1 DEF Writes!Busy
<1>5. t \in Writes!Busy
  BY DEF Writes!Busy
<1>6. \A u \in Writes!Busy' : /\ u \in Writes!Busy /\ writing'[u].msg = writing[u].msg /\ writing'[u].left = writing[u].left
                              /\ (u # t => writing'[u] = writing[u])
  BY <1>1, <1>4, <1>5 DEF Writes!Busy
<1>7. TaskInv'
  BY <1>1, <1>5, <1>6 DEF WriteInv, TaskInv
<1>8. QED
  BY <1>1, <1>2, <1>3, <1>7

LEMMA StepWrite == ASSUME Writes!WriteAssumption, WriteInv, NEW t \in SerialTasks, NEW n \in 1 .. MaxFragments, Writes!Write(t, n)
                   PROVE  WriteInv'
<1> DEFINE w == [pc |-> "count", msg |-> messages + 1, left |-> n, num |-> 0]
<1>1. /\ t \notin Writes!Busy /\ messages' = messages + 1 /\ writing' = [writing EXCEPT ![t] = w]
      /\ overlapped' = IF Writes!Busy = {} THEN overlapped
                       ELSE overlapped \cup {messages + 1} \cup {writing[u].msg : u \in Writes!Busy}
      /\ UNCHANGED << seq_num, sent, cut >>
  BY DEF Writes!Write
<1>2. w \in Writing /\ messages \in Nat
  BY DEF Writing, WritePC, WriteInv, WriteTypeInv, Writes!WriteAssumption
<1>3. writing'[t] = w /\ writing[t].pc = "rest" /\ \A u \in SerialTasks : u # t => writing'[u] = writing[u]
  BY <1>1, <1>2 DEF WriteInv, WriteTypeInv, Writes!Busy
<1>4. Writes!Busy' = Writes!Busy \cup {t}
  BY <1>3 DEF Writes!Busy
<1>5. WriteTypeInv' /\ Writes!MessagesApart'
  <2>1. overlapped \subseteq overlapped'
    BY <1>1
  <2>2. QED
    BY <1>1, <1>2, <2>1, ApartKept DEF WriteInv, WriteTypeInv
<1>6. TaskInv'
  <2>1. \A u \in Writes!Busy : writing[u].msg \in 1 .. messages /\ writing[u].msg \in overlapped' /\ writing[u].left >= 1
    BY <1>1 DEF WriteInv, TaskInv
  <2>2. Writes!Busy # {} => messages + 1 \in overlapped'
    BY <1>1
  <2>3. w.msg = messages + 1 /\ w.left >= 1 /\ w.pc = "count"
    BY <1>2
  <2>4. \A i \in 1 .. Len(sent) : sent[i].msg \in 1 .. messages
    BY DEF WriteInv, TaskInv
  <2>. HIDE DEF w
  <2>5. \A u \in Writes!Busy' : u = t \/ (u # t /\ u \in Writes!Busy /\ writing'[u] = writing[u])
    BY <1>3, <1>4 DEF Writes!Busy
  <2>6. /\ \A u \in Writes!Busy' : writing'[u].msg \in 1 .. messages' /\ writing'[u].left >= 1
        /\ \A i \in 1 .. Len(sent') : sent'[i].msg \in 1 .. messages'
    <3>1. 1 .. messages \subseteq 1 .. messages + 1 /\ messages + 1 \in 1 .. messages + 1
      BY <1>2
    <3>2. QED
      BY <1>1, <1>3, <2>1, <2>3, <2>4, <2>5, <3>1
  <2>7. \A u \in Writes!Busy' : writing'[u].msg \notin overlapped' => u = t
    BY <2>1, <2>5
  <2>8. ASSUME NEW u \in Writes!Busy', NEW v \in Writes!Busy', u # v
        PROVE  writing'[u].msg # writing'[v].msg /\ writing'[u].msg \in overlapped'
    <3>1. CASE u = t
      BY <1>2, <1>3, <2>1, <2>2, <2>3, <2>5, <2>8, <3>1
    <3>2. CASE v = t
      BY <1>2, <1>3, <2>1, <2>2, <2>3, <2>5, <2>8, <3>2
    <3>3. CASE u # t /\ v # t
      BY <2>1, <2>5, <2>8, <3>3 DEF WriteInv, TaskInv
    <3>4. QED
      BY <3>1, <3>2, <3>3
  <2>9. QED
    BY <1>1, <1>3, <2>3, <2>6, <2>7, <2>8 DEF TaskInv
<1>7. ASSUME Len(sent) > 0, sent[Len(sent)].msg \notin overlapped'
      PROVE  LastInv(sent[Len(sent)])'
  <2>1. PICK f : f = sent[Len(sent)]
    OBVIOUS
  <2>2. f.msg \notin overlapped /\ LastInv(f) /\ f.msg \in 1 .. messages
    <3>1. Len(sent) \in 1 .. Len(sent)
      BY <1>7 DEF WriteInv, WriteTypeInv
    <3>2. QED
      BY <1>1, <1>7, <2>1, <3>1 DEF WriteInv, TaskInv
  <2>3. \A u \in Writes!Busy : writing[u].msg # f.msg
    BY <1>1, <1>7, <2>1
  <2>4. /\ Cardinality(Counters) \in Nat /\ Cardinality(Counters') = Cardinality(Counters) + 1
    <3>1. writing'[t].pc = "count"
      BY <1>3
    <3>2. QED
      BY <1>3, <3>1, CountersMoves
  <2>5. \A m, d \in Nat : After(f, m, d) => After(f, m, d)'
    BY <1>1, <1>2, <2>2, <2>4 DEF After, Later
  <2>6. \A u \in Writes!Busy' : (u \in Writes!Busy /\ writing'[u] = writing[u]) \/ (writing'[u].pc = "count" /\ writing'[u].msg # f.msg)
    BY <1>2, <1>3, <1>4, <2>2 DEF Writes!Busy
  <2>7. f.more => f.msg \in cut
    BY <2>2, <2>3 DEF LastInv
  <2>8. PICK d \in Nat : /\ After(f, seq_num, d)
                         /\ \A u \in Writes!Busy : writing[u].pc \in {"header", "send"} /\ writing[u].msg \notin overlapped
                                                   /\ writing[u].msg # f.msg => d >= 1
    BY <2>2 DEF LastInv
  <2>9. /\ After(f, seq_num, d)'
        /\ \A u \in Writes!Busy' : writing'[u].pc \in {"header", "send"} /\ writing'[u].msg \notin overlapped'
                                   /\ writing'[u].msg # f.msg => d >= 1
    <3>1. After(f, seq_num, d)'
      BY <1>1, <1>2, <2>2, <2>4, <2>8 DEF After, Later
    <3>2. overlapped \subseteq overlapped'
      BY <1>1
    <3>3. QED
      BY <2>6, <2>8, <3>1, <3>2
  <2>10. ASSUME NEW u \in SerialTasks, writing'[u].pc = "store"
         PROVE  \E e \in Nat : After(f, writing[u].num, e)'
    <3>1. u # t /\ writing'[u] = writing[u]
      BY <1>3, <2>10
    <3>2. PICK e \in Nat : After(f, writing[u].num, e)
      BY <2>2, <2>10, <3>1 DEF LastInv
    <3>3. After(f, writing[u].num, e)'
      BY <1>1, <1>2, <2>2, <2>4, <3>1, <3>2 DEF After, Later
    <3>4. QED
      BY <3>3
  <2>11. \A u \in Writes!Busy' : writing'[u].msg # f.msg
    BY <2>3, <2>6
  <2>12. LastInv(f)'
    BY <1>1, <2>7, <2>9, <2>10, <2>11 DEF LastInv
  <2>13. QED
    BY <1>1, <2>1, <2>12
<1>8. QED
  BY <1>1, <1>5, <1>6, <1>7 DEF WriteInv

\* The last fragment is the same, and so is what it says of the tasks.
LEMMA LastKept ==
    ASSUME WriteInv, UNCHANGED << sent, overlapped >>, WriteTypeInv', TaskInv', Writes!MessagesApart',
           \A f \in Fragments : f.msg \notin overlapped /\ f.msg \in 1 .. messages /\ LastInv(f) => LastInv(f)'
    PROVE  WriteInv'
<1>1. ASSUME Len(sent) > 0, sent[Len(sent)].msg \notin overlapped
      PROVE  LastInv(sent[Len(sent)])'
  <2>1. PICK f : f = sent[Len(sent)]
    OBVIOUS
  <2>2. f \in Fragments /\ f.msg \in 1 .. messages /\ f.msg \notin overlapped /\ LastInv(f)
    <3>1. Len(sent) \in 1 .. Len(sent)
      BY <1>1 DEF WriteInv, WriteTypeInv
    <3>2. QED
      BY <1>1, <2>1, <3>1 DEF WriteInv, WriteTypeInv, TaskInv
  <2>3. LastInv(f)'
    BY <2>2
  <2>4. QED
    BY <2>1, <2>3
<1>2. QED
  BY <1>1 DEF WriteInv

LEMMA StepCount == ASSUME Writes!WriteAssumption, WriteInv, NEW t \in SerialTasks, Writes!Count(t)
                   PROVE  WriteInv'
<1>1. /\ writing[t].pc = "count" /\ writing' = [writing EXCEPT ![t].pc = "store", ![t].num = seq_num]
      /\ UNCHANGED << seq_num, sent, messages, cut, overlapped >>
  BY DEF Writes!Count
<1>2. /\ WriteTypeInv /\ seq_num \in 0 .. Numbers - 1 /\ "store" \in WritePC /\ messages \in Nat
      /\ writing[t].msg \in Nat /\ writing[t].left \in Nat
  BY DEF WriteInv, WriteTypeInv, WritePC, Writing
<1>3. PICK w : w = [pc |-> "store", msg |-> writing[t].msg, left |-> writing[t].left, num |-> seq_num]
  OBVIOUS
<1>4. Becomes(t, w)
  BY <1>1, <1>2, <1>3, WritingFields
<1>5. w \in Writing
  BY <1>2, <1>3 DEF Writing
<1>6. WriteTypeInv' /\ TaskInv' /\ Writes!MessagesApart'
  BY <1>1, <1>2, <1>3, <1>4, <1>5, TaskGoes
<1>7. /\ writing'[t] = w /\ \A u \in SerialTasks : u # t => writing'[u] = writing[u]
      /\ writing'[t].pc = "store" /\ writing'[t].num = seq_num /\ writing'[t].msg = writing[t].msg
  BY <1>3, <1>4 DEF Becomes
<1>8. Cardinality(Counters') = Cardinality(Counters) /\ Cardinality(Counters) \in Nat
  <2>1. writing'[t].pc \in {"count", "store"} /\ writing[t].pc \in {"count", "store"}
    BY <1>1, <1>7
  <2>2. QED
    BY <1>7, <2>1, CountersMoves
<1>9. Writes!Busy' = Writes!Busy /\ t \in Writes!Busy /\ Writes!Busy \subseteq SerialTasks
  BY <1>1, <1>7 DEF Writes!Busy
<1>10. ASSUME NEW f \in Fragments, f.msg \notin overlapped, f.msg \in 1 .. messages, LastInv(f)
       PROVE  LastInv(f)'
  <2>1. \A n, d : After(f, n, d)' <=> After(f, n, d)
    BY <1>1, <1>8 DEF After
  <2>2. writing[t].msg # f.msg
    BY <1>1, <1>9, <1>10 DEF LastInv
  <2>3. PICK d \in Nat : /\ After(f, seq_num, d)
                         /\ \A u \in Writes!Busy : writing[u].pc \in {"header", "send"} /\ writing[u].msg \notin overlapped
                                                   /\ writing[u].msg # f.msg => d >= 1
    BY <1>10 DEF LastInv
  <2>4. /\ After(f, seq_num, d)'
        /\ \A u \in Writes!Busy' : writing'[u].pc \in {"header", "send"} /\ writing'[u].msg \notin overlapped'
                                   /\ writing'[u].msg # f.msg => d >= 1
    <3>1. After(f, seq_num, d)'
      BY <1>1, <1>8, <2>3 DEF After
    <3>2. ASSUME NEW u \in Writes!Busy', writing'[u].pc \in {"header", "send"}, writing'[u].msg \notin overlapped',
                 writing'[u].msg # f.msg
          PROVE  d >= 1
      <4>1. u # t
        BY <1>7, <3>2
      <4>2. u \in Writes!Busy /\ writing'[u] = writing[u]
        BY <1>7, <1>9, <3>2, <4>1
      <4>3. writing[u].pc \in {"header", "send"} /\ writing[u].msg \notin overlapped /\ writing[u].msg # f.msg
        BY <1>1, <3>2, <4>2
      <4>4. QED
        BY <2>3, <4>2, <4>3
    <3>3. QED
      BY <3>1, <3>2
  <2>5. \A u \in SerialTasks : writing'[u].pc = "store" => \E e \in Nat : After(f, writing[u].num, e)'
    <3>1. ASSUME NEW u \in SerialTasks, writing'[u].pc = "store"
          PROVE  \E e \in Nat : After(f, writing'[u].num, e)
      BY <1>7, <1>10, <2>3, <3>1 DEF LastInv
    <3>2. \A u \in SerialTasks : \A e : After(f, writing[u].num, e)' <=> After(f, writing'[u].num, e)
      BY <1>1, <1>8 DEF After
    <3>3. QED
      BY <3>1, <3>2
  <2>6. \A u \in Writes!Busy' : writing'[u].msg = f.msg => f.more /\ f.num = seq_num /\ writing'[u].pc \in {"header", "send"}
    BY <1>7, <1>9, <1>10, <2>2 DEF LastInv, Writes!Busy
  <2>7. f.more /\ f.msg \notin cut => \E u \in Writes!Busy' : writing'[u].msg = f.msg
    BY <1>7, <1>9, <1>10, <2>2 DEF LastInv, Writes!Busy
  <2>8. QED
    BY <1>1, <2>4, <2>5, <2>6, <2>7 DEF LastInv
<1>11. QED
  BY <1>1, <1>6, <1>10, LastKept

LEMMA StepStore == ASSUME Writes!WriteAssumption, WriteInv, NEW t \in SerialTasks, Writes!Store(t)
                   PROVE  WriteInv'
<1>1. /\ writing[t].pc = "store" /\ writing' = [writing EXCEPT ![t].pc = "header"]
      /\ seq_num' = (writing[t].num + 1) % Numbers
      /\ UNCHANGED << sent, messages, cut, overlapped >>
  BY DEF Writes!Store, Writes!Goes
<1>2. /\ WriteTypeInv /\ seq_num \in 0 .. Numbers - 1 /\ "header" \in WritePC /\ messages \in Nat
      /\ writing[t].msg \in Nat /\ writing[t].left \in Nat /\ writing[t].num \in 0 .. Numbers - 1
  BY DEF WriteInv, WriteTypeInv, WritePC, Writing
<1>3. PICK w : w = [pc |-> "header", msg |-> writing[t].msg, left |-> writing[t].left, num |-> writing[t].num]
  OBVIOUS
<1>4. Becomes(t, w)
  BY <1>1, <1>2, <1>3, WritingFields
<1>5. w \in Writing /\ seq_num' \in 0 .. Numbers - 1
  BY <1>1, <1>2, <1>3 DEF Writing, Writes!WriteAssumption
<1>6. t \in Writes!Busy /\ Writes!Busy \subseteq SerialTasks
  BY <1>1 DEF Writes!Busy
<1>7. \A u \in Writes!Busy \ {t} : writing[u].msg \in overlapped
  BY <1>6 DEF WriteInv, TaskInv
<1>8. WriteTypeInv' /\ TaskInv' /\ Writes!MessagesApart'
  BY <1>1, <1>2, <1>3, <1>4, <1>5, <1>7, TaskGoes
<1>9. /\ writing'[t] = w /\ \A u \in SerialTasks : u # t => writing'[u] = writing[u]
      /\ writing'[t].pc = "header" /\ writing'[t].msg = writing[t].msg
  BY <1>3, <1>4 DEF Becomes
<1>10. Cardinality(Counters') = Cardinality(Counters) - 1 /\ Cardinality(Counters) \in Nat /\ Cardinality(Counters') \in Nat
  <2>1. ~(writing'[t].pc \in {"count", "store"}) /\ writing[t].pc \in {"count", "store"}
    BY <1>1, <1>9
  <2>2. QED
    BY <1>9, <2>1, CountersMoves
<1>11. Writes!Busy' = Writes!Busy
  BY <1>1, <1>9 DEF Writes!Busy
<1>12. ASSUME NEW f \in Fragments, f.msg \notin overlapped, f.msg \in 1 .. messages, LastInv(f)
       PROVE  LastInv(f)'
  <2>2. \A u \in Writes!Busy : writing[u].msg # f.msg
    BY <1>1, <1>6, <1>7, <1>12 DEF LastInv
  <2>3. f.more => f.msg \in cut
    BY <1>12, <2>2 DEF LastInv
  <2>4. PICK d \in Nat : After(f, writing[t].num, d)
    BY <1>1, <1>12 DEF LastInv
  <2>5. d + 1 \in Nat /\ After(f, seq_num, d + 1)'
    <3>1. d + 1 + Cardinality(Counters') <= messages - f.msg
      BY <1>2, <1>10, <1>12, <2>4 DEF After
    <3>2. f.num \in 0 .. Numbers - 1
      BY <1>12 DEF Fragments
    <3>3. d + 1 < Numbers => seq_num' = Later(f.num, d + 1)
      BY <1>1, <1>2, <2>4, <3>2, NextNumber DEF After, Writes!WriteAssumption
    <3>4. QED
      BY <1>1, <3>1, <3>3 DEF After
  <2>6. \A u \in SerialTasks : writing'[u].pc = "store" => \E e \in Nat : After(f, writing[u].num, e)'
    <3>1. ASSUME NEW u \in SerialTasks, writing'[u].pc = "store"
          PROVE  \E e \in Nat : After(f, writing[u].num, e) /\ writing'[u].num = writing[u].num
      BY <1>9, <1>12, <3>1 DEF LastInv
    <3>2. ASSUME NEW u \in SerialTasks, NEW e \in Nat, After(f, writing[u].num, e), writing'[u].num = writing[u].num
          PROVE  After(f, writing[u].num, e)'
      BY <1>1, <1>2, <1>10, <1>12, <3>2 DEF After
    <3>3. QED
      BY <3>1, <3>2
  <2>7. \A u \in Writes!Busy' : writing'[u].msg # f.msg
    BY <1>6, <1>9, <1>11, <2>2
  <2>8. \A u \in Writes!Busy' : writing'[u].pc \in {"header", "send"} /\ writing'[u].msg \notin overlapped'
                                 /\ writing'[u].msg # f.msg => d + 1 >= 1
    BY <2>4
  <2>9. QED
    BY <1>1, <2>3, <2>5, <2>6, <2>7, <2>8 DEF LastInv
<1>13. QED
  BY <1>1, <1>8, <1>12, LastKept

LEMMA StepHeader == ASSUME Writes!WriteAssumption, WriteInv, NEW t \in SerialTasks, Writes!Header(t)
                    PROVE  WriteInv'
<1>1. /\ writing[t].pc = "header" /\ writing' = [writing EXCEPT ![t].pc = "send", ![t].num = seq_num]
      /\ UNCHANGED << seq_num, sent, messages, cut, overlapped >>
  BY DEF Writes!Header
<1>2. /\ WriteTypeInv /\ seq_num \in 0 .. Numbers - 1 /\ "send" \in WritePC /\ messages \in Nat
      /\ writing[t].msg \in Nat /\ writing[t].left \in Nat
  BY DEF WriteInv, WriteTypeInv, WritePC, Writing
<1>3. PICK w : w = [pc |-> "send", msg |-> writing[t].msg, left |-> writing[t].left, num |-> seq_num]
  OBVIOUS
<1>4. Becomes(t, w)
  BY <1>1, <1>2, <1>3, WritingFields
<1>5. w \in Writing
  BY <1>2, <1>3 DEF Writing
<1>6. WriteTypeInv' /\ TaskInv' /\ Writes!MessagesApart'
  BY <1>1, <1>2, <1>3, <1>4, <1>5, TaskGoes
<1>7. /\ writing'[t] = w /\ \A u \in SerialTasks : u # t => writing'[u] = writing[u]
      /\ writing'[t].pc = "send" /\ writing'[t].msg = writing[t].msg
  BY <1>3, <1>4 DEF Becomes
<1>8. Cardinality(Counters') = Cardinality(Counters) /\ Cardinality(Counters) \in Nat
  <2>1. ~(writing'[t].pc \in {"count", "store"}) /\ ~(writing[t].pc \in {"count", "store"})
    BY <1>1, <1>7
  <2>2. QED
    BY <1>7, <2>1, CountersMoves
<1>9. Writes!Busy' = Writes!Busy /\ Writes!Busy \subseteq SerialTasks
  BY <1>1, <1>7 DEF Writes!Busy
<1>10. \A u \in SerialTasks : /\ writing'[u].msg = writing[u].msg
                               /\ (writing'[u].pc \in {"header", "send"} <=> writing[u].pc \in {"header", "send"})
                               /\ (writing'[u].pc = "store" => writing[u].pc = "store" /\ writing'[u].num = writing[u].num)
  BY <1>1, <1>7
<1>11. ASSUME NEW f \in Fragments, f.msg \notin overlapped, f.msg \in 1 .. messages, LastInv(f)
       PROVE  LastInv(f)'
  <2>1. PICK d \in Nat : /\ After(f, seq_num, d)
                         /\ \A u \in Writes!Busy : writing[u].pc \in {"header", "send"} /\ writing[u].msg \notin overlapped
                                                   /\ writing[u].msg # f.msg => d >= 1
    BY <1>11 DEF LastInv
  <2>2. After(f, seq_num, d)'
    BY <1>1, <1>8, <2>1 DEF After
  <2>3. \A u \in Writes!Busy' : writing'[u].pc \in {"header", "send"} /\ writing'[u].msg \notin overlapped'
                                 /\ writing'[u].msg # f.msg => d >= 1
    BY <1>1, <1>9, <1>10, <2>1
  <2>4. ASSUME NEW u \in SerialTasks, writing'[u].pc = "store"
        PROVE  \E e \in Nat : After(f, writing[u].num, e)'
    <3>1. PICK e \in Nat : After(f, writing[u].num, e)
      BY <1>10, <1>11, <2>4 DEF LastInv
    <3>2. After(f, writing[u].num, e)'
      BY <1>1, <1>8, <1>10, <2>4, <3>1 DEF After
    <3>3. QED
      BY <3>2
  <2>5. \A u \in Writes!Busy' : writing'[u].msg = f.msg => f.more /\ f.num = seq_num /\ writing'[u].pc \in {"header", "send"}
    BY <1>9, <1>10, <1>11 DEF LastInv
  <2>6. f.more /\ f.msg \notin cut => \E u \in Writes!Busy' : writing'[u].msg = f.msg
    BY <1>9, <1>10, <1>11 DEF LastInv
  <2>7. QED
    BY <1>1, <2>2, <2>3, <2>4, <2>5, <2>6 DEF LastInv
<1>12. QED
  BY <1>1, <1>6, <1>11, LastKept

LEMMA StepFails == ASSUME Writes!WriteAssumption, WriteInv, NEW t \in SerialTasks, Writes!Fails(t)
                   PROVE  WriteInv'
<1>1. /\ writing[t].pc \in {"header", "send"} /\ writing' = [writing EXCEPT ![t] = Writes!NotWriting]
      /\ cut' = cut \cup {writing[t].msg}
      /\ UNCHANGED << seq_num, sent, messages, overlapped >>
  BY DEF Writes!Fails
<1>2. /\ WriteTypeInv /\ seq_num \in 0 .. Numbers - 1 /\ messages \in Nat
      /\ Writes!NotWriting \in Writing /\ Writes!NotWriting.pc = "rest" /\ 0 \in 0 .. Numbers - 1 /\ "rest" \in WritePC
  BY DEF WriteInv, WriteTypeInv, WritePC, Writing, Writes!NotWriting, Writes!WriteAssumption
<1>3. Becomes(t, Writes!NotWriting)
  BY <1>1, <1>2, WritingFields
<1>4. WriteTypeInv' /\ TaskInv' /\ Writes!MessagesApart'
  BY <1>1, <1>2, <1>3, TaskGoes
<1>5. /\ writing'[t].pc = "rest" /\ \A u \in SerialTasks : u # t => writing'[u] = writing[u]
  BY <1>2, <1>3 DEF Becomes
<1>6. Cardinality(Counters') = Cardinality(Counters) /\ Cardinality(Counters) \in Nat
  <2>1. ~(writing'[t].pc \in {"count", "store"}) /\ ~(writing[t].pc \in {"count", "store"})
    BY <1>1, <1>5
  <2>2. QED
    BY <1>5, <2>1, CountersMoves
<1>7. Writes!Busy' = Writes!Busy \ {t} /\ Writes!Busy \subseteq SerialTasks
  BY <1>5 DEF Writes!Busy
<1>8. ASSUME NEW f \in Fragments, f.msg \notin overlapped, f.msg \in 1 .. messages, LastInv(f)
      PROVE  LastInv(f)'
  <2>1. PICK d \in Nat : /\ After(f, seq_num, d)
                         /\ \A u \in Writes!Busy : writing[u].pc \in {"header", "send"} /\ writing[u].msg \notin overlapped
                                                   /\ writing[u].msg # f.msg => d >= 1
    BY <1>8 DEF LastInv
  <2>2. After(f, seq_num, d)'
    BY <1>1, <1>6, <2>1 DEF After
  <2>3. \A u \in Writes!Busy' : u \in Writes!Busy /\ u \in SerialTasks /\ writing'[u] = writing[u]
    BY <1>5, <1>7
  <2>4. ASSUME NEW u \in SerialTasks, writing'[u].pc = "store"
        PROVE  \E e \in Nat : After(f, writing[u].num, e)'
    <3>1. writing'[u] = writing[u]
      BY <1>5, <2>4
    <3>2. PICK e \in Nat : After(f, writing[u].num, e)
      BY <1>8, <2>4, <3>1 DEF LastInv
    <3>3. After(f, writing[u].num, e)'
      BY <1>1, <1>6, <3>1, <3>2 DEF After
    <3>4. QED
      BY <3>3
  <2>5. \A u \in Writes!Busy' : writing'[u].msg = f.msg => f.more /\ f.num = seq_num /\ writing'[u].pc \in {"header", "send"}
    BY <1>8, <2>3 DEF LastInv
  <2>6. f.more /\ f.msg \notin cut' => \E u \in Writes!Busy' : writing'[u].msg = f.msg
    <3>1. SUFFICES ASSUME f.more, f.msg \notin cut, f.msg # writing[t].msg
                   PROVE  \E u \in Writes!Busy' : writing'[u].msg = f.msg
      BY <1>1
    <3>2. PICK u \in Writes!Busy : writing[u].msg = f.msg
      BY <1>8, <3>1 DEF LastInv
    <3>3. u \in Writes!Busy' /\ writing'[u] = writing[u]
      BY <1>5, <1>7, <3>1, <3>2
    <3>4. QED
      BY <3>2, <3>3
  <2>7. \A u \in Writes!Busy' : writing'[u].pc \in {"header", "send"} /\ writing'[u].msg \notin overlapped'
                                 /\ writing'[u].msg # f.msg => d >= 1
    BY <1>1, <2>1, <2>3
  <2>8. QED
    BY <1>1, <2>2, <2>4, <2>5, <2>6, <2>7 DEF LastInv
<1>9. QED
  BY <1>1, <1>4, <1>8, LastKept

\* A fragment is sent after f: what is known of f tells the two apart.
LEMMA ToldApart ==
    ASSUME Writes!WriteAssumption, WriteInv, NEW t \in SerialTasks, writing[t].pc = "send",
           NEW f \in Fragments, f.msg \notin overlapped, LastInv(f), writing[t].msg \notin overlapped,
           Writes!Busy = {t}
    PROVE  /\ writing[t].msg - f.msg < Numbers => (f.num = writing[t].num <=> f.msg = writing[t].msg)
           /\ f.more /\ f.msg \notin cut => f.msg = writing[t].msg
           /\ ~f.more => f.msg # writing[t].msg
<1>1. t \in Writes!Busy /\ writing[t].num = seq_num /\ writing[t].msg = messages
  BY DEF WriteInv, TaskInv
<1>2. f.more /\ f.msg \notin cut => f.msg = writing[t].msg
  BY DEF LastInv
<1>3. f.msg = writing[t].msg => f.more /\ f.num = seq_num
  BY <1>1 DEF LastInv
<1>4. ASSUME writing[t].msg - f.msg < Numbers, f.msg # writing[t].msg
      PROVE  f.num # seq_num
  <2>1. PICK d \in Nat : After(f, seq_num, d) /\ d >= 1
    BY <1>1, <1>4 DEF LastInv
  <2>2. Cardinality(Counters) \in Nat
    BY CountersFinite
  <2>3. f.msg \in Nat /\ f.num \in 0 .. Numbers - 1 /\ messages \in Nat /\ Numbers \in Nat
    BY DEF Fragments, WriteInv, WriteTypeInv, Writes!WriteAssumption
  <2>4. d < Numbers
    BY <1>1, <1>4, <2>1, <2>2, <2>3 DEF After
  <2>5. seq_num = Later(f.num, d)
    BY <2>1, <2>4 DEF After
  <2>6. QED
    BY <2>1, <2>3, <2>4, <2>5 DEF Later
<1>5. QED
  BY <1>1, <1>2, <1>3, <1>4

LEMMA StepSend == ASSUME Writes!WriteAssumption, WriteInv, NEW t \in SerialTasks, Writes!Send(t)
                  PROVE  WriteInv'
<1>1. PICK g : g = [msg |-> writing[t].msg, num |-> writing[t].num, more |-> writing[t].left > 1]
  OBVIOUS
<1>2. PICK w : w = IF writing[t].left > 1
                   THEN [pc |-> "header", msg |-> writing[t].msg, left |-> writing[t].left - 1, num |-> writing[t].num]
                   ELSE Writes!NotWriting
  OBVIOUS
<1>3. /\ WriteTypeInv /\ seq_num \in 0 .. Numbers - 1 /\ messages \in Nat /\ writing[t] \in Writing
      /\ writing[t].msg \in Nat /\ writing[t].left \in Nat /\ writing[t].num \in 0 .. Numbers - 1
      /\ writing[t].pc \in WritePC /\ Numbers \in Nat \ {0}
  BY DEF WriteInv, WriteTypeInv, Writing, Writes!WriteAssumption
<1>4. /\ writing[t].pc = "send" /\ sent' = Append(sent, g) /\ writing' = [writing EXCEPT ![t] = w]
      /\ UNCHANGED << seq_num, messages, cut, overlapped >>
  <2>1. [writing[t] EXCEPT !.pc = "header", !.left = writing[t].left - 1]
           = [pc |-> "header", msg |-> writing[t].msg, left |-> writing[t].left - 1, num |-> writing[t].num]
    <3>1. PICK r : r = writing[t]
      OBVIOUS
    <3>2. r \in [pc : WritePC, msg : Nat, left : Nat, num : 0 .. Numbers - 1]
      BY <1>3, <3>1 DEF Writing
    <3>3. [r EXCEPT !.pc = "header"] = [pc |-> "header", msg |-> r.msg, left |-> r.left, num |-> r.num]
      BY <3>2
    <3>4. PICK q : q = [pc |-> "header", msg |-> r.msg, left |-> r.left, num |-> r.num]
      OBVIOUS
    <3>5. [q EXCEPT !.left = r.left - 1] = [pc |-> "header", msg |-> r.msg, left |-> r.left - 1, num |-> r.num]
      BY <3>4
    <3>6. [r EXCEPT !.pc = "header", !.left = r.left - 1] = [[r EXCEPT !.pc = "header"] EXCEPT !.left = r.left - 1]
      BY <3>2
    <3>7. QED
      BY <3>1, <3>3, <3>4, <3>5, <3>6
  <2>2. QED
    BY <1>1, <1>2, <2>1 DEF Writes!Send
<1>5. g \in Fragments
  BY <1>1, <1>3 DEF Fragments
<1>6. w \in Writing /\ w.pc \in {"rest", "header"}
  BY <1>2, <1>3 DEF Writing, WritePC, Writes!NotWriting
<1>7. Becomes(t, w)
  <2>1. \A x \in Writing : writing' = [writing EXCEPT ![t] = x] => Becomes(t, x)
    BY <1>3, WritingFields
  <2>2. QED
    BY <1>4, <1>6, <2>1
<1>8. writing'[t] = w /\ \A u \in SerialTasks : u # t => writing'[u] = writing[u]
  BY <1>7 DEF Becomes
<1>9. t \in Writes!Busy /\ Writes!Busy \subseteq SerialTasks
  BY <1>4 DEF Writes!Busy
<1>10. writing[t].msg \in 1 .. messages /\ writing[t].left >= 1
  BY <1>9 DEF WriteInv, TaskInv
<1>11. /\ sent \in Seq(Fragments) /\ sent' \in Seq(Fragments) /\ Len(sent) \in Nat /\ Len(sent') = Len(sent) + 1
       /\ sent'[Len(sent')] = g /\ \A i \in 1 .. Len(sent) : sent'[i] = sent[i]
  BY <1>3, <1>4, <1>5 DEF WriteTypeInv
<1>12. WriteTypeInv'
  BY <1>3, <1>4, <1>6, <1>7, <1>11 DEF WriteTypeInv, Becomes
<1>13. \A u \in Writes!Busy' : /\ u \in Writes!Busy /\ (u # t => writing'[u] = writing[u])
                               /\ (u = t => /\ writing[t].left > 1 /\ writing'[u].msg = writing[t].msg
                                            /\ writing'[u].pc = "header" /\ writing'[u].left >= 1)
  <2>1. w.pc = "rest" \/ (writing[t].left > 1 /\ w.msg = writing[t].msg /\ w.pc = "header" /\ w.left >= 1)
    BY <1>2, <1>3 DEF Writes!NotWriting
  <2>2. QED
    BY <1>8, <1>9, <2>1 DEF Writes!Busy
<1>14. TaskInv'
  <2>1. \A i \in 1 .. Len(sent') : sent'[i].msg \in 1 .. messages'
    <3>1. g.msg \in 1 .. messages
      BY <1>1, <1>10
    <3>2. \A i \in 1 .. Len(sent) : sent[i].msg \in 1 .. messages
      BY DEF WriteInv, TaskInv
    <3>3. QED
      BY <1>4, <1>11, <3>1, <3>2
  <2>2. \A u \in Writes!Busy' : writing'[u].msg = writing[u].msg /\ writing'[u].left >= 1 /\ u \in Writes!Busy
    BY <1>13 DEF WriteInv, TaskInv
  <2>3. \A u \in Writes!Busy' : writing'[u].pc \in {"store", "send"} => writing'[u] = writing[u]
    BY <1>13
  <2>4. QED
    BY <1>4, <2>1, <2>2, <2>3 DEF WriteInv, TaskInv
<1>15. ASSUME writing[t].msg \notin overlapped
       PROVE  /\ Writes!Busy = {t} /\ writing[t].msg = messages /\ writing[t].num = seq_num
              /\ \A u \in Writes!Busy' : u = t
  BY <1>4, <1>9, <1>13, <1>15 DEF WriteInv, TaskInv
<1>16. Writes!MessagesApart'
  <2>1. ASSUME NEW i \in 1 .. Len(sent') - 1, sent'[i].msg \notin overlapped', sent'[i + 1].msg \notin overlapped'
        PROVE  /\ sent'[i + 1].msg - sent'[i].msg < Numbers
                     => (sent'[i].num = sent'[i + 1].num <=> sent'[i].msg = sent'[i + 1].msg)
               /\ sent'[i].more /\ sent'[i].msg \notin cut' => sent'[i].msg = sent'[i + 1].msg
               /\ ~sent'[i].more => sent'[i].msg # sent'[i + 1].msg
    <3>1. CASE i + 1 <= Len(sent)
      <4>1. i \in 1 .. Len(sent) - 1 /\ i + 1 \in 1 .. Len(sent)
        BY <1>11, <2>1, <3>1
      <4>2. sent'[i] = sent[i] /\ sent'[i + 1] = sent[i + 1]
        BY <1>11, <4>1
      <4>3. QED
        BY <1>4, <2>1, <4>1, <4>2 DEF WriteInv, Writes!MessagesApart
    <3>2. CASE i = Len(sent)
      <4>1. PICK f : f = sent[i]
        OBVIOUS
      <4>2. i \in 1 .. Len(sent) /\ i > 0 /\ sent'[i] = f /\ sent'[i + 1] = g
        BY <1>11, <2>1, <3>2, <4>1
      <4>3. f \in Fragments /\ f.msg \notin overlapped /\ LastInv(f) /\ writing[t].msg \notin overlapped
        BY <1>1, <1>4, <1>11, <2>1, <3>2, <4>1, <4>2 DEF WriteInv
      <4>4. Writes!Busy = {t}
        BY <1>15, <4>3
      <4>5. /\ writing[t].msg - f.msg < Numbers => (f.num = writing[t].num <=> f.msg = writing[t].msg)
            /\ f.more /\ f.msg \notin cut => f.msg = writing[t].msg
            /\ ~f.more => f.msg # writing[t].msg
        BY <1>4, <4>3, <4>4, ToldApart
      <4>6. g.msg = writing[t].msg /\ g.num = writing[t].num
        BY <1>1
      <4>7. QED
        BY <1>4, <4>2, <4>5, <4>6
    <3>3. QED
      BY <1>11, <2>1, <3>1, <3>2
  <2>2. QED
    BY <2>1 DEF Writes!MessagesApart
<1>17. ASSUME writing[t].msg \notin overlapped
       PROVE  LastInv(g)'
  <2>1. /\ Writes!Busy = {t} /\ writing[t].msg = messages /\ writing[t].num = seq_num
        /\ \A u \in Writes!Busy' : u = t
    BY <1>15, <1>17
  <2>2. g.msg = messages /\ g.num = seq_num /\ (g.more <=> writing[t].left > 1)
    BY <1>1, <2>1
  <2>3. g.more /\ g.msg \notin cut' => \E u \in Writes!Busy' : writing'[u].msg = g.msg
    <3>1. writing[t].left > 1 => w.pc = "header" /\ w.msg = messages
      BY <1>2, <2>1
    <3>2. QED
      BY <1>8, <2>2, <3>1 DEF Writes!Busy
  <2>4. \A u \in Writes!Busy' : g.more /\ g.num = seq_num' /\ writing'[u].pc \in {"header", "send"} /\ writing'[u].msg = g.msg
    BY <1>4, <1>13, <2>1, <2>2
  <2>5. \A u \in SerialTasks : writing'[u].pc \notin {"count", "store"}
    BY <2>4, <1>8, <1>9, <1>6 DEF Writes!Busy
  <2>6. Cardinality(Counters') = 0
    <3>1. Counters' = {}
      BY <2>5 DEF Counters
    <3>2. QED
      BY <3>1, FS_EmptySet
  <2>7. After(g, seq_num, 0)'
    <3>1. 0 + Cardinality(Counters') <= messages' - g.msg
      BY <1>3, <1>4, <2>2, <2>6
    <3>2. seq_num' = Later(g.num, 0)
      BY <1>3, <1>4, <2>2 DEF Later
    <3>3. QED
      BY <3>1, <3>2 DEF After
  <2>8. QED
    BY <2>3, <2>4, <2>5, <2>7 DEF LastInv
<1>18. QED
  <2>1. sent'[Len(sent')].msg \notin overlapped' => LastInv(sent[Len(sent)])'
    <3>1. sent'[Len(sent')] = g /\ g.msg = writing[t].msg
      BY <1>1, <1>11
    <3>2. g.msg \notin overlapped' => LastInv(g)'
      BY <1>4, <1>17, <3>1
    <3>3. LastInv(g)' => LastInv(sent[Len(sent)])'
      BY <3>1
    <3>4. QED
      BY <3>1, <3>2, <3>3
  <2>2. QED
    BY <1>12, <1>14, <1>16, <2>1 DEF WriteInv

LEMMA WriteStep == Writes!WriteAssumption /\ WriteInv /\ [Writes!Next]_writeVars => WriteInv'
<1> SUFFICES ASSUME Writes!WriteAssumption, WriteInv, [Writes!Next]_writeVars
             PROVE  WriteInv'
  OBVIOUS
<1>1. CASE UNCHANGED writeVars
  <2>1. UNCHANGED << seq_num, writing, sent, messages, cut, overlapped >>
    BY <1>1 DEF writeVars
  <2>2. Writes!Busy' = Writes!Busy /\ Counters' = Counters
    BY <2>1 DEF Writes!Busy, Counters
  <2>3. WriteTypeInv' /\ TaskInv' /\ Writes!MessagesApart'
    BY <2>1, <2>2, ApartKept DEF WriteInv, WriteTypeInv, TaskInv
  <2>4. \A f \in Fragments : LastInv(f) => LastInv(f)'
    BY <2>1, <2>2 DEF LastInv, After
  <2>5. QED
    BY <2>1, <2>3, <2>4, LastKept
<1>2. CASE Writes!Next
  <2>1. PICK t \in SerialTasks : \/ \E n \in 1 .. MaxFragments : Writes!Write(t, n)
                                 \/ Writes!Count(t) \/ Writes!Store(t) \/ Writes!Header(t) \/ Writes!Send(t) \/ Writes!Fails(t)
    BY <1>2 DEF Writes!Next
  <2>2. QED
    BY <2>1, StepWrite, StepCount, StepStore, StepHeader, StepSend, StepFails
<1>3. QED
  BY <1>1, <1>2

\* The messages of the serial device can be told apart on the way to the slave as long as
\* no write overlaps another, and buffers, semaphore and callbacks of the slave's receive
\* path are in order, for any number of tasks, of buffers and of sequence numbers.
THEOREM HostReceivePathSound == MCSpec => []ReceivePathSound
<1>1. MCInit => SlaveInv /\ WriteInv
  BY HostAssumption, SlaveInit, WriteInit DEF MCInit
<1>2. SlaveInv /\ WriteInv /\ [MCNext]_<< part, vars, cardVars, slaveVars, writeVars >> => SlaveInv' /\ WriteInv'
  <2> SUFFICES ASSUME SlaveInv, WriteInv, [MCNext]_<< part, vars, cardVars, slaveVars, writeVars >>
               PROVE  SlaveInv' /\ WriteInv'
    OBVIOUS
  <2>1. [Slave!Next]_slaveVars /\ [Writes!Next]_writeVars
    BY DEF MCNext
  <2>2. QED
    BY <2>1, HostAssumption, SlaveStep, WriteStep
<1>3. SlaveInv /\ WriteInv => ReceivePathSound
  BY DEF SlaveInv, WriteInv, ReceivePathSound
<1>4. QED
  BY <1>1, <1>2, <1>3, PTL DEF MCSpec

-----------------------------------------------------------------------------
(* The life of the card (HostCard) *)

\* Steps of unloading and of the work item.
StepNames == {"close", "spiwq", "serial", "flush", "stop1", "free1", "stop2", "free2", "forget", "bt", "pins",
              "spidev", "context", "func", "btdown", "btup", "release", "again"}

LEMMA Joined ==
    \A s, t \in Seq(StepNames) :
       /\ s \o t \in Seq(StepNames) /\ Len(s \o t) = Len(s) + Len(t)
       /\ \A i \in 1 .. Len(s) + Len(t) : (s \o t)[i] = IF i <= Len(s) THEN s[i] ELSE t[i - Len(s)]
  OBVIOUS

LEMMA SpiInitSteps ==
    /\ Len(Card!spi_init) = 10
    /\ \A i \in 1 .. 10 : /\ (i = 1 <=> Card!spi_init[i] = "spiwq")
                          /\ (i = 2 <=> Card!spi_init[i] = "spidev")
                          /\ (i = 3 <=> Card!spi_init[i] = "gpioH") /\ (i = 4 <=> Card!spi_init[i] = "irqH")
                          /\ (i = 5 <=> Card!spi_init[i] = "gpioR") /\ (i = 6 <=> Card!spi_init[i] = "irqR")
                          /\ (i = 7 <=> Card!spi_init[i] = "path")
                          /\ (i = 8 <=> Card!spi_init[i] = "serial") /\ (i = 9 <=> Card!spi_init[i] = "sta")
                          /\ (i = 10 <=> Card!spi_init[i] = "ap")
<1>1. PICK a : a = Card!spi_init
  OBVIOUS
<1>2. /\ Len(a) = 10 /\ a[1] = "spiwq" /\ a[2] = "spidev" /\ a[3] = "gpioH" /\ a[4] = "irqH"
      /\ a[5] = "gpioR" /\ a[6] = "irqR" /\ a[7] = "path" /\ a[8] = "serial" /\ a[9] = "sta" /\ a[10] = "ap"
  BY <1>1 DEF Card!spi_init
<1>3. ASSUME NEW i \in 1 .. 10
      PROVE  /\ (i = 1 <=> a[i] = "spiwq") /\ (i = 2 <=> a[i] = "spidev") /\ (i = 3 <=> a[i] = "gpioH")
             /\ (i = 4 <=> a[i] = "irqH") /\ (i = 5 <=> a[i] = "gpioR") /\ (i = 6 <=> a[i] = "irqR")
             /\ (i = 7 <=> a[i] = "path") /\ (i = 8 <=> a[i] = "serial") /\ (i = 9 <=> a[i] = "sta")
             /\ (i = 10 <=> a[i] = "ap")
  <2>1. i = 1 \/ i = 2 \/ i = 3 \/ i = 4 \/ i = 5 \/ i = 6 \/ i = 7 \/ i = 8 \/ i = 9 \/ i = 10
    OBVIOUS
  <2>2. QED
    BY <1>2, <2>1
<1>4. QED
  BY <1>1, <1>2, <1>3

LEMMA ProbeSteps ==
    /\ Len(Card!esp_probe) = 6
    /\ \A i \in 1 .. 6 : /\ (i = 1 <=> Card!esp_probe[i] = "func")
                         /\ (i = 2 <=> Card!esp_probe[i] = "context")
                         /\ (i = 3 <=> Card!esp_probe[i] = "serial")
                         /\ (i = 4 <=> Card!esp_probe[i] = "sta") /\ (i = 5 <=> Card!esp_probe[i] = "ap")
                         /\ (i = 6 <=> Card!esp_probe[i] = "path")
<1>1. PICK a : a = Card!esp_probe
  OBVIOUS
<1>2. /\ Len(a) = 6 /\ a[1] = "func" /\ a[2] = "context" /\ a[3] = "serial" /\ a[4] = "sta" /\ a[5] = "ap"
      /\ a[6] = "path"
  BY <1>1 DEF Card!esp_probe
<1>3. ASSUME NEW i \in 1 .. 6
      PROVE  /\ (i = 1 <=> a[i] = "func") /\ (i = 2 <=> a[i] = "context") /\ (i = 3 <=> a[i] = "serial")
             /\ (i = 4 <=> a[i] = "sta") /\ (i = 5 <=> a[i] = "ap") /\ (i = 6 <=> a[i] = "path")
  <2>1. i = 1 \/ i = 2 \/ i = 3 \/ i = 4 \/ i = 5 \/ i = 6
    OBVIOUS
  <2>2. QED
    BY <1>2, <2>1
<1>4. QED
  BY <1>1, <1>2, <1>3

LEMMA SpiExitSteps ==
    /\ Len(Card!spi_exit) = 12
    /\ \A i \in 1 .. 12 : /\ (i = 1 <=> Card!spi_exit[i] = "close")
                          /\ (i = 2 <=> Card!spi_exit[i] = "spiwq")
                          /\ (i = 3 <=> Card!spi_exit[i] = "serial")
                          /\ (i = 4 <=> Card!spi_exit[i] = "flush")
                          /\ (i = 5 <=> Card!spi_exit[i] = "stop1")
                          /\ (i = 6 <=> Card!spi_exit[i] = "free1")
                          /\ (i = 7 <=> Card!spi_exit[i] = "stop2")
                          /\ (i = 8 <=> Card!spi_exit[i] = "free2")
                          /\ (i = 9 <=> Card!spi_exit[i] = "forget") /\ (i = 10 <=> Card!spi_exit[i] = "bt")
                          /\ (i = 11 <=> Card!spi_exit[i] = "pins")
                          /\ (i = 12 <=> Card!spi_exit[i] = "spidev")
<1>1. PICK a : a = << "close", "spiwq", "serial" >>
  OBVIOUS
<1>2. PICK b : b = Card!esp_remove_card
  OBVIOUS
<1>3. PICK c : c = << "bt", "pins", "spidev" >>
  OBVIOUS
<1>4. /\ a \in Seq(StepNames) /\ Len(a) = 3 /\ a[1] = "close" /\ a[2] = "spiwq" /\ a[3] = "serial"
  BY <1>1 DEF StepNames
<1>5. /\ b \in Seq(StepNames) /\ Len(b) = 6 /\ b[1] = "flush" /\ b[2] = "stop1" /\ b[3] = "free1"
      /\ b[4] = "stop2" /\ b[5] = "free2" /\ b[6] = "forget"
  BY <1>2 DEF Card!esp_remove_card, StepNames
<1>6. /\ c \in Seq(StepNames) /\ Len(c) = 3 /\ c[1] = "bt" /\ c[2] = "pins" /\ c[3] = "spidev"
  BY <1>3 DEF StepNames
<1>7. PICK d : d = a \o b
  OBVIOUS
<1>8. /\ d \in Seq(StepNames) /\ Len(d) = 9
      /\ \A i \in 1 .. 9 : d[i] = IF i <= 3 THEN a[i] ELSE b[i - 3]
  <2>1. a \in Seq(StepNames) /\ b \in Seq(StepNames) /\ Len(a) = 3 /\ Len(b) = 6
    BY <1>4, <1>5
  <2>2. /\ d \in Seq(StepNames) /\ Len(d) = Len(a) + Len(b)
        /\ \A i \in 1 .. Len(a) + Len(b) : d[i] = IF i <= Len(a) THEN a[i] ELSE b[i - Len(a)]
    BY ONLY <1>7, <2>1, Joined, Zenon
  <2>3. QED
    BY ONLY <2>1, <2>2
<1>9. /\ d[1] = "close" /\ d[2] = "spiwq" /\ d[3] = "serial" /\ d[4] = "flush" /\ d[5] = "stop1"
      /\ d[6] = "free1" /\ d[7] = "stop2" /\ d[8] = "free2" /\ d[9] = "forget"
  BY ONLY <1>4, <1>5, <1>8
<1>10. PICK e : e = d \o c
  OBVIOUS
<1>11. Len(e) = 12 /\ \A i \in 1 .. 12 : e[i] = IF i <= 9 THEN d[i] ELSE c[i - 9]
  <2>1. d \in Seq(StepNames) /\ c \in Seq(StepNames) /\ Len(d) = 9 /\ Len(c) = 3
    BY <1>6, <1>8
  <2>2. /\ Len(e) = Len(d) + Len(c)
        /\ \A i \in 1 .. Len(d) + Len(c) : e[i] = IF i <= Len(d) THEN d[i] ELSE c[i - Len(d)]
    BY ONLY <1>10, <2>1, Joined, Zenon
  <2>3. QED
    BY ONLY <2>1, <2>2
<1>12. /\ e[1] = "close" /\ e[2] = "spiwq" /\ e[3] = "serial" /\ e[4] = "flush" /\ e[5] = "stop1"
       /\ e[6] = "free1" /\ e[7] = "stop2" /\ e[8] = "free2" /\ e[9] = "forget" /\ e[10] = "bt"
       /\ e[11] = "pins" /\ e[12] = "spidev"
  BY ONLY <1>6, <1>9, <1>11
<1>13. ASSUME NEW i \in 1 .. 12
       PROVE  /\ (i = 1 <=> e[i] = "close") /\ (i = 2 <=> e[i] = "spiwq") /\ (i = 3 <=> e[i] = "serial")
              /\ (i = 4 <=> e[i] = "flush") /\ (i = 5 <=> e[i] = "stop1") /\ (i = 6 <=> e[i] = "free1")
              /\ (i = 7 <=> e[i] = "stop2") /\ (i = 8 <=> e[i] = "free2") /\ (i = 9 <=> e[i] = "forget")
              /\ (i = 10 <=> e[i] = "bt") /\ (i = 11 <=> e[i] = "pins") /\ (i = 12 <=> e[i] = "spidev")
  <2>1. i = 1 \/ i = 2 \/ i = 3 \/ i = 4 \/ i = 5 \/ i = 6 \/ i = 7 \/ i = 8 \/ i = 9 \/ i = 10 \/ i = 11 \/ i = 12
    OBVIOUS
  <2>2. QED
    BY ONLY <1>12, <2>1
<1>14. e = Card!spi_exit
  BY <1>1, <1>2, <1>3, <1>7, <1>10 DEF Card!spi_exit
<1>15. QED
  BY <1>11, <1>13, <1>14

LEMMA RemoveSteps ==
    /\ Len(Card!esp_remove) = 11
    /\ \A i \in 1 .. 11 : /\ (i = 1 <=> Card!esp_remove[i] = "serial")
                          /\ (i = 2 <=> Card!esp_remove[i] = "close")
                          /\ (i = 3 <=> Card!esp_remove[i] = "flush")
                          /\ (i = 4 <=> Card!esp_remove[i] = "stop1")
                          /\ (i = 5 <=> Card!esp_remove[i] = "free1")
                          /\ (i = 6 <=> Card!esp_remove[i] = "stop2")
                          /\ (i = 7 <=> Card!esp_remove[i] = "free2")
                          /\ (i = 8 <=> Card!esp_remove[i] = "forget")
                          /\ (i = 9 <=> Card!esp_remove[i] = "bt")
                          /\ (i = 10 <=> Card!esp_remove[i] = "context")
                          /\ (i = 11 <=> Card!esp_remove[i] = "func")
<1>1. PICK a : a = << "serial", "close" >>
  OBVIOUS
<1>2. PICK b : b = Card!esp_remove_card
  OBVIOUS
<1>3. PICK c : c = << "bt", "context", "func" >>
  OBVIOUS
<1>4. /\ a \in Seq(StepNames) /\ Len(a) = 2 /\ a[1] = "serial" /\ a[2] = "close"
  BY <1>1 DEF StepNames
<1>5. /\ b \in Seq(StepNames) /\ Len(b) = 6 /\ b[1] = "flush" /\ b[2] = "stop1" /\ b[3] = "free1"
      /\ b[4] = "stop2" /\ b[5] = "free2" /\ b[6] = "forget"
  BY <1>2 DEF Card!esp_remove_card, StepNames
<1>6. /\ c \in Seq(StepNames) /\ Len(c) = 3 /\ c[1] = "bt" /\ c[2] = "context" /\ c[3] = "func"
  BY <1>3 DEF StepNames
<1>7. PICK d : d = a \o b
  OBVIOUS
<1>8. /\ d \in Seq(StepNames) /\ Len(d) = 8
      /\ \A i \in 1 .. 8 : d[i] = IF i <= 2 THEN a[i] ELSE b[i - 2]
  <2>1. a \in Seq(StepNames) /\ b \in Seq(StepNames) /\ Len(a) = 2 /\ Len(b) = 6
    BY <1>4, <1>5
  <2>2. /\ d \in Seq(StepNames) /\ Len(d) = Len(a) + Len(b)
        /\ \A i \in 1 .. Len(a) + Len(b) : d[i] = IF i <= Len(a) THEN a[i] ELSE b[i - Len(a)]
    BY ONLY <1>7, <2>1, Joined, Zenon
  <2>3. QED
    BY ONLY <2>1, <2>2
<1>9. /\ d[1] = "serial" /\ d[2] = "close" /\ d[3] = "flush" /\ d[4] = "stop1" /\ d[5] = "free1"
      /\ d[6] = "stop2" /\ d[7] = "free2" /\ d[8] = "forget"
  BY ONLY <1>4, <1>5, <1>8
<1>10. PICK e : e = d \o c
  OBVIOUS
<1>11. Len(e) = 11 /\ \A i \in 1 .. 11 : e[i] = IF i <= 8 THEN d[i] ELSE c[i - 8]
  <2>1. d \in Seq(StepNames) /\ c \in Seq(StepNames) /\ Len(d) = 8 /\ Len(c) = 3
    BY <1>6, <1>8
  <2>2. /\ Len(e) = Len(d) + Len(c)
        /\ \A i \in 1 .. Len(d) + Len(c) : e[i] = IF i <= Len(d) THEN d[i] ELSE c[i - Len(d)]
    BY ONLY <1>10, <2>1, Joined, Zenon
  <2>3. QED
    BY ONLY <2>1, <2>2
<1>12. /\ e[1] = "serial" /\ e[2] = "close" /\ e[3] = "flush" /\ e[4] = "stop1" /\ e[5] = "free1"
       /\ e[6] = "stop2" /\ e[7] = "free2" /\ e[8] = "forget" /\ e[9] = "bt" /\ e[10] = "context"
       /\ e[11] = "func"
  BY ONLY <1>6, <1>9, <1>11
<1>13. ASSUME NEW i \in 1 .. 11
       PROVE  /\ (i = 1 <=> e[i] = "serial") /\ (i = 2 <=> e[i] = "close") /\ (i = 3 <=> e[i] = "flush")
              /\ (i = 4 <=> e[i] = "stop1") /\ (i = 5 <=> e[i] = "free1") /\ (i = 6 <=> e[i] = "stop2")
              /\ (i = 7 <=> e[i] = "free2") /\ (i = 8 <=> e[i] = "forget") /\ (i = 9 <=> e[i] = "bt")
              /\ (i = 10 <=> e[i] = "context") /\ (i = 11 <=> e[i] = "func")
  <2>1. i = 1 \/ i = 2 \/ i = 3 \/ i = 4 \/ i = 5 \/ i = 6 \/ i = 7 \/ i = 8 \/ i = 9 \/ i = 10 \/ i = 11
    OBVIOUS
  <2>2. QED
    BY ONLY <1>12, <2>1
<1>14. e = Card!esp_remove
  BY <1>1, <1>2, <1>3, <1>7, <1>10 DEF Card!esp_remove
<1>15. QED
  BY <1>11, <1>13, <1>14

LifeInv ==
    /\ bus \in {"spi", "sdio"}
    /\ life = [dir |-> life.dir, n |-> life.n] /\ life.n \in Nat
    /\ life.dir \in {"idle", "load", "ready", "exit"}
    /\ life.dir \in {"idle", "ready"} <=> life.n = 0
    /\ life.dir = "load" => life.n <= IF bus = "spi" THEN 10 ELSE 6
    /\ life.dir = "exit" => life.n <= IF bus = "spi" THEN 12 ELSE 11

\* Where Advance goes from n with the last step at m.
GoesOn(m, end) ==
    /\ life' = [dir |-> life'.dir, n |-> life'.n]
    /\ IF life.n = m THEN life'.dir = end /\ life'.n = 0 ELSE life'.dir = life.dir /\ life'.n = life.n + 1

LEMMA SpiLoading ==
    ASSUME LifeInv, bus = "spi", life.dir = "load"
    PROVE  /\ life.n \in 1 .. 10
           /\ (life.n = 1 <=> Card!Step = "spiwq") /\ (life.n = 2 <=> Card!Step = "spidev")
           /\ (life.n = 3 <=> Card!Step = "gpioH") /\ (life.n = 4 <=> Card!Step = "irqH")
           /\ (life.n = 5 <=> Card!Step = "gpioR") /\ (life.n = 6 <=> Card!Step = "irqR")
           /\ (life.n = 7 <=> Card!Step = "path") /\ (life.n = 8 <=> Card!Step = "serial")
           /\ (life.n = 9 <=> Card!Step = "sta") /\ (life.n = 10 <=> Card!Step = "ap")
           /\ Card!Advance => GoesOn(10, "ready")
<1>1. life.n \in 1 .. 10 /\ life = [dir |-> "load", n |-> life.n]
  BY DEF LifeInv
<1>2. Card!LoadSteps = Card!spi_init /\ Card!Step = Card!spi_init[life.n] /\ Len(Card!LoadSteps) = 10
  BY SpiInitSteps DEF Card!LoadSteps, Card!Step
<1>3. Card!Advance => GoesOn(10, "ready")
  BY <1>1, <1>2 DEF Card!Advance, GoesOn, Card!Ready
<1>4. QED
  BY <1>1, <1>2, <1>3, SpiInitSteps

LEMMA SdioLoading ==
    ASSUME LifeInv, bus = "sdio", life.dir = "load"
    PROVE  /\ life.n \in 1 .. 6
           /\ (life.n = 1 <=> Card!Step = "func") /\ (life.n = 2 <=> Card!Step = "context")
           /\ (life.n = 3 <=> Card!Step = "serial") /\ (life.n = 4 <=> Card!Step = "sta")
           /\ (life.n = 5 <=> Card!Step = "ap") /\ (life.n = 6 <=> Card!Step = "path")
           /\ Card!Advance => GoesOn(6, "ready")
<1>1. life.n \in 1 .. 6 /\ life = [dir |-> "load", n |-> life.n]
  BY DEF LifeInv
<1>2. Card!LoadSteps = Card!esp_probe /\ Card!Step = Card!esp_probe[life.n] /\ Len(Card!LoadSteps) = 6
  BY ProbeSteps DEF Card!LoadSteps, Card!Step
<1>3. Card!Advance => GoesOn(6, "ready")
  BY <1>1, <1>2 DEF Card!Advance, GoesOn, Card!Ready
<1>4. QED
  BY <1>1, <1>2, <1>3, ProbeSteps

LEMMA SpiLeaving ==
    ASSUME LifeInv, bus = "spi", life.dir = "exit"
    PROVE  /\ life.n \in 1 .. 12
           /\ (life.n = 1 <=> Card!Step = "close") /\ (life.n = 2 <=> Card!Step = "spiwq")
           /\ (life.n = 3 <=> Card!Step = "serial") /\ (life.n = 4 <=> Card!Step = "flush")
           /\ (life.n = 5 <=> Card!Step = "stop1") /\ (life.n = 6 <=> Card!Step = "free1")
           /\ (life.n = 7 <=> Card!Step = "stop2") /\ (life.n = 8 <=> Card!Step = "free2")
           /\ (life.n = 9 <=> Card!Step = "forget") /\ (life.n = 10 <=> Card!Step = "bt")
           /\ (life.n = 11 <=> Card!Step = "pins") /\ (life.n = 12 <=> Card!Step = "spidev")
           /\ Card!Advance => GoesOn(12, "idle")
<1>1. life.n \in 1 .. 12 /\ life = [dir |-> "exit", n |-> life.n]
  BY DEF LifeInv
<1>2. Card!ExitSteps = Card!spi_exit /\ Card!Step = Card!spi_exit[life.n] /\ Len(Card!ExitSteps) = 12
  BY SpiExitSteps DEF Card!ExitSteps, Card!Step
<1>3. Card!Advance => GoesOn(12, "idle")
  BY <1>1, <1>2 DEF Card!Advance, GoesOn, Card!Idle
<1>4. QED
  BY <1>1, <1>2, <1>3, SpiExitSteps

LEMMA SdioLeaving ==
    ASSUME LifeInv, bus = "sdio", life.dir = "exit"
    PROVE  /\ life.n \in 1 .. 11
           /\ (life.n = 1 <=> Card!Step = "serial") /\ (life.n = 2 <=> Card!Step = "close")
           /\ (life.n = 3 <=> Card!Step = "flush") /\ (life.n = 4 <=> Card!Step = "stop1")
           /\ (life.n = 5 <=> Card!Step = "free1") /\ (life.n = 6 <=> Card!Step = "stop2")
           /\ (life.n = 7 <=> Card!Step = "free2") /\ (life.n = 8 <=> Card!Step = "forget")
           /\ (life.n = 9 <=> Card!Step = "bt") /\ (life.n = 10 <=> Card!Step = "context")
           /\ (life.n = 11 <=> Card!Step = "func")
           /\ Card!Advance => GoesOn(11, "idle")
<1>1. life.n \in 1 .. 11 /\ life = [dir |-> "exit", n |-> life.n]
  BY DEF LifeInv
<1>2. Card!ExitSteps = Card!esp_remove /\ Card!Step = Card!esp_remove[life.n] /\ Len(Card!ExitSteps) = 11
  BY RemoveSteps DEF Card!ExitSteps, Card!Step
<1>3. Card!Advance => GoesOn(11, "idle")
  BY <1>1, <1>2 DEF Card!Advance, GoesOn, Card!Idle
<1>4. QED
  BY <1>1, <1>2, <1>3, RemoveSteps

\* What an event leaves to do: spi_reinit_spidev is two steps, the last ones.
Work(s) ==
    /\ s \in Seq(StepNames) /\ s # << >>
    /\ \A i \in 1 .. Len(s) :
          /\ s[i] = "release" => i < Len(s) /\ s[i + 1] = "again" /\ bus = "spi"
          /\ s[i] = "again" => i = Len(s) /\ bus = "spi"
          /\ i < Len(s) /\ s[i + 1] = "again" => s[i] = "release"

LEMMA WorkGoesOn ==
    ASSUME NEW s, Work(s), Len(s) # 1
    PROVE  /\ Work(Tail(s))
           /\ Head(s) = "release" <=> Head(Tail(s)) = "again"
<1>1. /\ Len(s) \in Nat /\ Len(s) > 1 /\ Tail(s) \in Seq(StepNames) /\ Len(Tail(s)) = Len(s) - 1 /\ Head(s) = s[1]
      /\ \A i \in 1 .. Len(s) - 1 : Tail(s)[i] = s[i + 1]
  <2>1. s \in Seq(StepNames) /\ s # << >>
    BY DEF Work
  <2>2. Len(s) \in Nat /\ Len(s) # 0 /\ Len(s) # 1
    BY <2>1
  <2>3. Len(s) > 1
    <3>1. \A k \in Nat : k # 0 /\ k # 1 => k > 1
      OBVIOUS
    <3>2. QED
      BY ONLY <2>2, <3>1, Zenon
  <2>4. Tail(s) \in Seq(StepNames) /\ Len(Tail(s)) = Len(s) - 1
    BY <2>1
  <2>5. \A i \in 1 .. Len(s) - 1 : Tail(s)[i] = s[i + 1]
    BY <2>1
  <2>6. Head(s) = s[1]
    BY <2>1
  <2>7. QED
    BY <2>2, <2>3, <2>4, <2>5, <2>6
<1>2. Head(Tail(s)) = s[2] /\ Tail(s) # << >>
  <2>1. PICK r : r = Tail(s)
    OBVIOUS
  <2>2. r \in Seq(StepNames) /\ Len(r) > 0 /\ r[1] = s[2]
    BY <1>1, <2>1
  <2>3. Head(r) = r[1] /\ r # << >>
    BY <2>2
  <2>4. QED
    BY <2>1, <2>2, <2>3
<1>3. Work(Tail(s))
  <2>1. ASSUME NEW i \in 1 .. Len(Tail(s))
        PROVE  /\ Tail(s)[i] = "release" => i < Len(Tail(s)) /\ Tail(s)[i + 1] = "again" /\ bus = "spi"
               /\ Tail(s)[i] = "again" => i = Len(Tail(s)) /\ bus = "spi"
               /\ i < Len(Tail(s)) /\ Tail(s)[i + 1] = "again" => Tail(s)[i] = "release"
    <3>1. PICK j : j = i + 1
      OBVIOUS
    <3>2. j \in 1 .. Len(s) /\ Tail(s)[i] = s[j] /\ (i < Len(Tail(s)) => Tail(s)[i + 1] = s[j + 1])
          /\ (i < Len(Tail(s)) <=> j < Len(s)) /\ (i = Len(Tail(s)) <=> j = Len(s))
      BY <1>1, <2>1, <3>1
    <3>3. /\ s[j] = "release" => j < Len(s) /\ s[j + 1] = "again" /\ bus = "spi"
          /\ s[j] = "again" => j = Len(s) /\ bus = "spi"
          /\ j < Len(s) /\ s[j + 1] = "again" => s[j] = "release"
      BY <3>2 DEF Work
    <3>4. QED
      BY <3>2, <3>3
  <2>2. QED
    BY <1>1, <1>2, <2>1 DEF Work
<1>4. 1 \in 1 .. Len(s) /\ 1 < Len(s)
  BY <1>1
<1>5. s[1] = "release" <=> s[2] = "again"
  <2>1. /\ s[1] = "release" => s[1 + 1] = "again"
        /\ 1 < Len(s) /\ s[1 + 1] = "again" => s[1] = "release"
    BY <1>4 DEF Work
  <2>2. QED
    BY <1>4, <2>1
<1>6. QED
  BY <1>1, <1>2, <1>3, <1>5

LEMMA InitWork ==
    ASSUME NEW caps \in {<< >>, << "btup" >>}, NEW clock \in {<< >>, << "release", "again" >>}
    PROVE  Work(Card!Init_steps(caps, clock)) /\ Head(Card!Init_steps(caps, clock)) = "btdown"
<1>1. PICK a : a = << "btdown" >>
  OBVIOUS
<1>2. PICK b : b = caps
  OBVIOUS
<1>3. PICK c : c = IF bus = "spi" THEN clock ELSE << >>
  OBVIOUS
<1>4. a \in Seq(StepNames) /\ Len(a) = 1 /\ a[1] = "btdown"
  BY <1>1 DEF StepNames
<1>5. b \in Seq(StepNames) /\ (Len(b) = 0 \/ (Len(b) = 1 /\ b[1] = "btup"))
  <2>1. CASE b = << >>
    BY <2>1
  <2>2. CASE b = << "btup" >>
    BY <2>2 DEF StepNames
  <2>3. QED
    BY <1>2, <2>1, <2>2
<1>6. c \in Seq(StepNames) /\ (Len(c) = 0 \/ (bus = "spi" /\ Len(c) = 2 /\ c[1] = "release" /\ c[2] = "again"))
  <2>1. CASE c = << >>
    BY <2>1
  <2>2. CASE bus = "spi" /\ c = << "release", "again" >>
    BY <2>2 DEF StepNames
  <2>3. QED
    BY <1>3, <2>1, <2>2
<1>7. PICK d : d = a \o b
  OBVIOUS
<1>8. d \in Seq(StepNames) /\ d[1] = "btdown" /\ (Len(d) = 1 \/ (Len(d) = 2 /\ d[2] = "btup"))
  <2>1. /\ d \in Seq(StepNames) /\ Len(d) = Len(a) + Len(b)
        /\ \A i \in 1 .. Len(a) + Len(b) : d[i] = IF i <= Len(a) THEN a[i] ELSE b[i - Len(a)]
    BY ONLY <1>4, <1>5, <1>7, Joined, Zenon
  <2>2. QED
    BY ONLY <1>4, <1>5, <2>1
<1>9. PICK e : e = d \o c
  OBVIOUS
<1>10. /\ e \in Seq(StepNames) /\ Len(e) = Len(d) + Len(c)
       /\ \A i \in 1 .. Len(d) + Len(c) : e[i] = IF i <= Len(d) THEN d[i] ELSE c[i - Len(d)]
  BY ONLY <1>6, <1>8, <1>9, Joined, Zenon
<1>11. e = Card!Init_steps(caps, clock)
  BY <1>1, <1>2, <1>3, <1>7, <1>9 DEF Card!Init_steps
<1>12. e[1] = "btdown" /\ e # << >>
  BY ONLY <1>6, <1>8, <1>10
<1>13. Work(e)
  <2>1. ASSUME NEW i \in 1 .. Len(e)
        PROVE  /\ e[i] = "release" => i < Len(e) /\ e[i + 1] = "again" /\ bus = "spi"
               /\ e[i] = "again" => i = Len(e) /\ bus = "spi"
               /\ i < Len(e) /\ e[i + 1] = "again" => e[i] = "release"
    <3>1. CASE Len(c) = 0
      <4>1. i = 1 \/ i = 2
        BY ONLY <1>8, <1>10, <2>1, <3>1
      <4>2. e[1] = "btdown" /\ (Len(e) = 1 \/ (Len(e) = 2 /\ e[2] = "btup"))
        BY ONLY <1>8, <1>10, <3>1
      <4>3. QED
        BY ONLY <2>1, <4>1, <4>2
    <3>2. CASE Len(c) # 0 /\ Len(d) = 1
      <4>1. i = 1 \/ i = 2 \/ i = 3
        <5>1. Len(e) = 3
          BY ONLY <1>6, <1>10, <3>2
        <5>2. QED
          BY ONLY <2>1, <5>1
      <4>2. bus = "spi" /\ Len(e) = 3 /\ e[1] = "btdown" /\ e[2] = "release" /\ e[3] = "again"
        BY ONLY <1>6, <1>8, <1>10, <3>2
      <4>3. QED
        BY ONLY <2>1, <4>1, <4>2
    <3>3. CASE Len(c) # 0 /\ Len(d) = 2
      <4>1. i = 1 \/ i = 2 \/ i = 3 \/ i = 4
        BY ONLY <1>6, <1>10, <2>1, <3>3
      <4>2. bus = "spi" /\ Len(e) = 4 /\ e[1] = "btdown" /\ e[2] = "btup" /\ e[3] = "release" /\ e[4] = "again"
        BY ONLY <1>6, <1>8, <1>10, <3>3
      <4>3. QED
        BY ONLY <2>1, <4>1, <4>2
    <3>4. QED
      BY ONLY <1>8, <3>1, <3>2, <3>3
  <2>2. QED
    BY <1>10, <1>12, <2>1 DEF Work
<1>14. QED
  BY <1>11, <1>12, <1>13, <1>10

\* The thread is past step a of loading and not past step b of unloading.
Within(a, b) ==
    \/ life.dir = "ready"
    \/ life.dir = "load" /\ life.n > a
    \/ life.dir = "exit" /\ life.n <= b

\* And so is the slot that step a fills, which is filled before the step ends.
Put(a, b) == Within(a, b) \/ (life.dir = "load" /\ life.n = a /\ adding # "none")

AddInv ==
    /\ adding \in {"none", "slot", "ndev"}
    /\ adding # "none" => life.dir = "load" /\ life.n \in IF bus = "spi" THEN {9, 10} ELSE {4, 5}

\* The interface p is registered, or, over SPI, it is being added.
There(p) ==
    \/ p \in held
    \/ bus = "spi" /\ life.dir = "load" /\ adding # "none" /\ life.n = IF p = "sta" THEN 9 ELSE 10

Races == {"xmit", "serial", "queues"} \cup (IF bus = "spi" THEN {"early"} ELSE {})

\* spi_reinit_spidev has given the device back and not taken it again.
Gone == rx.pc = "work" /\ Head(rx.next) = "again"

SpiHeld ==
    /\ held \subseteq {"spiwq", "serial", "sta", "ap", "bt", "spidev", "gpioH", "irqH", "gpioR", "irqR"}
    /\ ("spiwq" \in held <=> Within(1, 2)) /\ ("serial" \in held <=> Within(8, 3))
    /\ ("sta" \in held <=> Within(9, 6)) /\ ("ap" \in held <=> Within(10, 8))
    /\ ("spidev" \in held <=> ~Gone /\ Within(2, 12))
    /\ ("gpioH" \in held <=> ~Gone /\ Within(3, 11)) /\ ("irqH" \in held <=> ~Gone /\ Within(4, 11))
    /\ ("gpioR" \in held <=> ~Gone /\ Within(5, 11)) /\ ("irqR" \in held <=> ~Gone /\ Within(6, 11))

\* The packets that are read while no work item may run are none.
SpiInv ==
    /\ SpiHeld
    /\ priv = << IF Put(9, 9) THEN "sta" ELSE "null", IF Put(10, 9) THEN "ap" ELSE "null" >>
    /\ path => Within(7, 12) \/ life.dir = "idle"
    /\ ~Within(7, 4) => rx = Card!RxIdle /\ (path => rxq = << >>)
    /\ hci = "bt" => Within(7, 10)

SdioHeld ==
    /\ held \subseteq {"func", "context", "serial", "sta", "ap", "bt"}
    /\ ("func" \in held <=> Within(1, 11)) /\ ("context" \in held <=> Within(2, 10))
    /\ ("serial" \in held <=> Within(3, 1))
    /\ ("sta" \in held <=> Within(4, 5)) /\ ("ap" \in held <=> Within(5, 7))

SdioInv ==
    /\ SdioHeld
    /\ priv = << IF Put(4, 8) THEN "sta" ELSE "null", IF Put(5, 8) THEN "ap" ELSE "null" >>
    /\ path => Within(6, 2)
    /\ ~Within(6, 3) => rx = Card!RxIdle
    /\ hci = "bt" => Within(6, 9)

\* A device that was looked up is there until the packet has been delivered.
RxInv ==
    \/ rx = Card!RxIdle
    \/ /\ rx.pc = "deliver" /\ rx.pkt \in {"serial", "sta", "ap", "hci"}
       /\ rx.pkt \in {"sta", "ap"} => There(rx.pkt)
       /\ rx.pkt = "hci" => "bt" \in held
    \/ rx.pc = "work" /\ rx = [pc |-> "work", pkt |-> rx.pkt, next |-> rx.next] /\ Work(rx.next)

HciInv == hci \in {"null", "bt"} /\ ("bt" \in held <=> hci = "bt")

CardGood ==
    /\ LifeInv /\ AddInv /\ RxInv /\ HciInv
    /\ bus = "spi" => SpiInv
    /\ bus = "sdio" => SdioInv
    /\ path \in BOOLEAN /\ faults \subseteq Races

CardInv == ~failed => CardGood

LEMMA CardStart == Card!Init => CardInv
<1> SUFFICES ASSUME Card!Init
             PROVE  CardGood
  BY DEF CardInv
<1>1. /\ bus \in {"spi", "sdio"} /\ life.dir = "idle" /\ life.n = 0 /\ life = [dir |-> "idle", n |-> 0] /\ held = {}
      /\ priv = << "null", "null" >> /\ adding = "none" /\ hci = "null" /\ path = FALSE /\ rxq = << >> /\ rx = Card!RxIdle /\ faults = {}
  BY DEF Card!Init, Card!Idle, Card!Null
<1>2. \A a, b \in Nat : ~Within(a, b) /\ ~Put(a, b)
  BY <1>1 DEF Within, Put
<1>3. LifeInv /\ AddInv /\ HciInv /\ RxInv
  BY <1>1 DEF LifeInv, AddInv, HciInv, RxInv
<1>4. SpiInv /\ SdioInv
  BY <1>1, <1>2 DEF SpiInv, SdioInv, SpiHeld, SdioHeld
<1>5. QED
  BY <1>1, <1>3, <1>4 DEF CardGood

LEMMA CardUse == CardInv => CardSound
<1> SUFFICES ASSUME CardInv, ~failed
             PROVE  /\ life = Card!Idle => held = {} /\ priv = << "null", "null" >> /\ hci = "null"
                    /\ faults \subseteq Races
  BY DEF CardSound, Card!UnloadIsClean, Card!OnlyTheseRaces, Card!Null, Races
<1>1. CardGood
  BY DEF CardInv
<1>2. ASSUME life = Card!Idle
      PROVE  held = {} /\ priv = << "null", "null" >> /\ hci = "null"
  <2>1. \A a, b \in Nat : ~Within(a, b) /\ ~Put(a, b)
    BY <1>2 DEF Within, Put, Card!Idle
  <2>2. CASE bus = "spi"
    BY <1>1, <2>1, <2>2 DEF CardGood, SpiInv, SpiHeld, HciInv
  <2>3. CASE bus = "sdio"
    BY <1>1, <2>1, <2>3 DEF CardGood, SdioInv, SdioHeld, HciInv
  <2>4. QED
    BY <1>1, <2>2, <2>3 DEF CardGood, LifeInv
<1>3. QED
  BY <1>1, <1>2 DEF CardGood

\* The thread goes on while the work item stays where it is.
LEMMA CardShifts ==
    ASSUME CardGood, UNCHANGED << bus, hci, rx >>, LifeInv', AddInv',
           rx.pc # "idle" => (There("sta") => There("sta")') /\ (There("ap") => There("ap")'),
           "bt" \in held <=> "bt" \in held', path' \in BOOLEAN, faults' \subseteq Races,
           bus = "spi" => SpiInv', bus = "sdio" => SdioInv'
    PROVE  CardGood'
<1>1. HciInv' /\ Races' = Races
  BY DEF CardGood, HciInv, Races
<1>2. CASE rx = Card!RxIdle
  <2>1. RxInv'
    BY <1>2 DEF RxInv, Card!RxIdle
  <2>2. QED
    BY <1>1, <2>1 DEF CardGood
<1>3. CASE rx # Card!RxIdle
  <2>1. RxInv
    BY DEF CardGood
  <2>2. rx.pc # "idle"
    BY <1>3, <2>1 DEF RxInv
  <2>3. CASE rx.pc = "deliver"
    <3>1. rx.pkt = "sta" \/ rx.pkt = "ap" => There(rx.pkt)'
      BY <1>3, <2>1, <2>2, <2>3 DEF RxInv
    <3>2. QED
      <4>1. RxInv'
        BY <1>3, <2>1, <2>3, <3>1 DEF RxInv
      <4>2. QED
        BY <1>1, <4>1 DEF CardGood
  <2>4. CASE rx.pc # "deliver"
    <3>1. RxInv'
      BY <1>3, <2>1, <2>4 DEF RxInv, Work
    <3>2. QED
      BY <1>1, <3>1 DEF CardGood
  <2>5. QED
    BY <2>3, <2>4
<1>4. QED
  BY <1>2, <1>3

LEMMA CardMoves ==
    ASSUME CardGood, UNCHANGED << bus, adding, hci, rx >>, adding = "none", LifeInv',
           rx.pc # "idle" => ("sta" \in held => "sta" \in held') /\ ("ap" \in held => "ap" \in held'),
           "bt" \in held <=> "bt" \in held', path' \in BOOLEAN, faults' \subseteq faults,
           bus = "spi" => SpiInv', bus = "sdio" => SdioInv'
    PROVE  CardGood'
<1>1. AddInv' /\ faults' \subseteq Races
  BY DEF CardGood, AddInv
<1>2. rx.pc # "idle" => (There("sta") => There("sta")') /\ (There("ap") => There("ap")')
  BY DEF There
<1>3. QED
  BY <1>1, <1>2, CardShifts

\* No work item is going on.
LEMMA CardQuiet ==
    ASSUME CardGood, bus = "spi" => ~Within(7, 4), bus = "sdio" => ~Within(6, 3)
    PROVE  rx = Card!RxIdle /\ rx.pc = "idle" /\ ~Gone
<1>1. rx = Card!RxIdle
  BY DEF CardGood, SpiInv, SdioInv, LifeInv
<1>2. QED
  BY <1>1 DEF Card!RxIdle, Gone

LEMMA CardLoad == ASSUME CardGood, Card!Load PROVE CardGood'
<1>1. /\ life.dir = "idle" /\ life' = [dir |-> "load", n |-> 1] /\ path' = FALSE /\ rxq' = << >>
      /\ UNCHANGED << bus, adding, held, priv, hci, rx, faults >>
  BY DEF Card!Load, Card!Idle
<1>s. adding = "none" /\ adding' = "none"
  BY <1>1 DEF CardGood, AddInv
<1>2. life'.dir = "load" /\ life'.n = 1
  BY <1>1
<1>3. LifeInv'
  BY <1>1, <1>2 DEF CardGood, LifeInv
<1>4. rx = Card!RxIdle /\ rx.pc = "idle" /\ ~Gone /\ ~Gone'
  <2>1. ~Within(7, 4) /\ ~Within(6, 3)
    BY <1>1 DEF Within, Put
  <2>2. QED
    BY <1>1, <2>1, CardQuiet DEF Gone
<1>5. ASSUME bus = "spi"
      PROVE  SpiInv'
  <2>1. SpiInv
    BY <1>5 DEF CardGood
  <2>2. SpiHeld'
    BY <1>1, <1>2, <1>4, <2>1 DEF SpiInv, SpiHeld, Within, Put
  <2>3. QED
    BY <1>1, <1>2, <1>4, <2>1, <2>2 DEF SpiInv, Within, Put, Card!RxIdle
<1>6. ASSUME bus = "sdio"
      PROVE  SdioInv'
  <2>1. SdioInv
    BY <1>6 DEF CardGood
  <2>2. SdioHeld'
    BY <1>1, <1>2, <2>1 DEF SdioInv, SdioHeld, Within, Put
  <2>3. QED
    BY <1>1, <1>2, <1>4, <2>1, <2>2 DEF SdioInv, Within, Put, Card!RxIdle
<1>7. QED
  BY <1>1, <1>3, <1>5, <1>6, <1>s, CardMoves

LEMMA CardUnload == ASSUME CardGood, Card!Unload PROVE CardGood'
<1>1. /\ life.dir = "ready" /\ life' = [dir |-> "exit", n |-> 1]
      /\ UNCHANGED << bus, adding, held, priv, hci, path, rxq, rx, faults >>
  BY DEF Card!Unload, Card!Ready, Card!Leaving
<1>s. adding = "none" /\ adding' = "none"
  BY <1>1 DEF CardGood, AddInv
<1>2. life'.dir = "exit" /\ life'.n = 1
  BY <1>1
<1>3. LifeInv'
  BY <1>1, <1>2 DEF CardGood, LifeInv
<1>4. Gone' = Gone
  BY <1>1 DEF Gone
<1>5. ASSUME bus = "spi"
      PROVE  SpiInv'
  <2>1. SpiInv
    BY <1>5 DEF CardGood
  <2>2. SpiHeld'
    BY <1>1, <1>2, <1>4, <2>1 DEF SpiInv, SpiHeld, Within, Put
  <2>3. QED
    BY <1>1, <1>2, <1>4, <2>1, <2>2 DEF SpiInv, Within, Put
<1>6. ASSUME bus = "sdio"
      PROVE  SdioInv'
  <2>1. SdioInv
    BY <1>6 DEF CardGood
  <2>2. SdioHeld'
    BY <1>1, <1>2, <2>1 DEF SdioInv, SdioHeld, Within, Put
  <2>3. QED
    BY <1>1, <1>2, <2>1, <2>2 DEF SdioInv, Within, Put
<1>7. QED
  BY <1>1, <1>3, <1>5, <1>6, <1>s, CardMoves DEF CardGood

\* Where a step of loading and of unloading leaves the thread.
LEMMA LoadGoes ==
    ASSUME LifeInv, life.dir = "load", Card!Advance, UNCHANGED bus
    PROVE  /\ LifeInv' /\ life.n \in Nat /\ life.n >= 1
           /\ IF life.n = (IF bus = "spi" THEN 10 ELSE 6) THEN life'.dir = "ready"
              ELSE life'.dir = "load" /\ life'.n = life.n + 1
<1>1. LifeInv /\ (bus = "spi" => GoesOn(10, "ready")) /\ (bus = "sdio" => GoesOn(6, "ready"))
  BY SpiLoading, SdioLoading
<1>2. QED
  BY <1>1 DEF LifeInv, GoesOn

LEMMA ExitGoes ==
    ASSUME LifeInv, life.dir = "exit", Card!Advance, UNCHANGED bus
    PROVE  /\ LifeInv' /\ life.n \in Nat /\ life.n >= 1
           /\ IF life.n = (IF bus = "spi" THEN 12 ELSE 11) THEN life'.dir = "idle"
              ELSE life'.dir = "exit" /\ life'.n = life.n + 1
<1>1. LifeInv /\ (bus = "spi" => GoesOn(12, "idle")) /\ (bus = "sdio" => GoesOn(11, "idle"))
  BY SpiLeaving, SdioLeaving
<1>2. QED
  BY <1>1 DEF LifeInv, GoesOn

LEMMA CardTake == ASSUME CardGood, Card!Take PROVE CardGood'
<1>1. /\ life.dir = "load" /\ Card!Step \notin {"sta", "ap", "path"} /\ held' = held \cup {Card!Step} /\ Card!Advance
      /\ UNCHANGED << bus, adding, priv, hci, path, rxq, rx, faults >>
  BY DEF Card!Take
<1>2. LifeInv /\ LifeInv'
  BY <1>1, LoadGoes DEF CardGood
<1>3. Gone' = Gone
  BY <1>1 DEF Gone
<1>s. adding = "none" /\ adding' = "none"
  <2>1. CASE bus = "spi"
    BY <1>1, <1>2, <2>1, SpiLoading DEF CardGood, AddInv
  <2>2. CASE bus = "sdio"
    BY <1>1, <1>2, <2>2, SdioLoading DEF CardGood, AddInv
  <2>3. QED
    BY <1>2, <2>1, <2>2 DEF LifeInv
<1>4. ASSUME bus = "spi"
      PROVE  SpiInv' /\ "bt" # Card!Step
  <2>1. /\ life'.dir = "load" /\ life'.n = life.n + 1
        /\ \/ life.n = 1 /\ Card!Step = "spiwq"
           \/ life.n = 2 /\ Card!Step = "spidev"
           \/ life.n = 3 /\ Card!Step = "gpioH"
           \/ life.n = 4 /\ Card!Step = "irqH"
           \/ life.n = 5 /\ Card!Step = "gpioR"
           \/ life.n = 6 /\ Card!Step = "irqR"
           \/ life.n = 8 /\ Card!Step = "serial"
    <3>1. /\ life.n \in 1 .. 10
          /\ (life.n = 1 <=> Card!Step = "spiwq") /\ (life.n = 2 <=> Card!Step = "spidev")
          /\ (life.n = 3 <=> Card!Step = "gpioH") /\ (life.n = 4 <=> Card!Step = "irqH")
          /\ (life.n = 5 <=> Card!Step = "gpioR") /\ (life.n = 6 <=> Card!Step = "irqR")
          /\ (life.n = 7 <=> Card!Step = "path") /\ (life.n = 8 <=> Card!Step = "serial")
          /\ (life.n = 9 <=> Card!Step = "sta") /\ (life.n = 10 <=> Card!Step = "ap")
      BY <1>1, <1>2, <1>4, SpiLoading
    <3>2. life.n # 10 /\ (life.n # 10 => life'.dir = "load" /\ life'.n = life.n + 1)
      BY <1>1, <1>2, <1>4, <3>1, LoadGoes
    <3>3. QED
      BY <1>1, <3>1, <3>2
  <2>2. SpiInv
    BY <1>4 DEF CardGood
  <2>3. Gone => Within(7, 4)
    BY <2>2 DEF SpiInv, Gone, Card!RxIdle
  <2>4. SpiHeld'
    <3>1. CASE life.n = 1 /\ Card!Step = "spiwq"
      BY <1>1, <1>3, <2>1, <2>2, <2>3, <3>1 DEF SpiInv, SpiHeld, Within, Put
    <3>2. CASE life.n = 2 /\ Card!Step = "spidev"
      BY <1>1, <1>3, <2>1, <2>2, <2>3, <3>2 DEF SpiInv, SpiHeld, Within, Put
    <3>3. CASE life.n = 3 /\ Card!Step = "gpioH"
      BY <1>1, <1>3, <2>1, <2>2, <2>3, <3>3 DEF SpiInv, SpiHeld, Within, Put
    <3>4. CASE life.n = 4 /\ Card!Step = "irqH"
      BY <1>1, <1>3, <2>1, <2>2, <2>3, <3>4 DEF SpiInv, SpiHeld, Within, Put
    <3>5. CASE life.n = 5 /\ Card!Step = "gpioR"
      BY <1>1, <1>3, <2>1, <2>2, <2>3, <3>5 DEF SpiInv, SpiHeld, Within, Put
    <3>6. CASE life.n = 6 /\ Card!Step = "irqR"
      BY <1>1, <1>3, <2>1, <2>2, <2>3, <3>6 DEF SpiInv, SpiHeld, Within, Put
    <3>7. CASE life.n = 8 /\ Card!Step = "serial"
      BY <1>1, <1>3, <2>1, <2>2, <2>3, <3>7 DEF SpiInv, SpiHeld, Within, Put
    <3>8. QED
      BY <2>1, <3>1, <3>2, <3>3, <3>4, <3>5, <3>6, <3>7
  <2>5. QED
    BY <1>1, <1>s, <2>1, <2>2, <2>4 DEF SpiInv, Within, Put
<1>5. ASSUME bus = "sdio"
      PROVE  SdioInv' /\ "bt" # Card!Step
  <2>1. /\ life'.dir = "load" /\ life'.n = life.n + 1
        /\ \/ life.n = 1 /\ Card!Step = "func"
           \/ life.n = 2 /\ Card!Step = "context"
           \/ life.n = 3 /\ Card!Step = "serial"
    <3>1. /\ life.n \in 1 .. 6
          /\ (life.n = 1 <=> Card!Step = "func") /\ (life.n = 2 <=> Card!Step = "context")
          /\ (life.n = 3 <=> Card!Step = "serial") /\ (life.n = 4 <=> Card!Step = "sta")
          /\ (life.n = 5 <=> Card!Step = "ap") /\ (life.n = 6 <=> Card!Step = "path")
      BY <1>1, <1>2, <1>5, SdioLoading
    <3>2. life.n # 6 /\ (life.n # 6 => life'.dir = "load" /\ life'.n = life.n + 1)
      BY <1>1, <1>2, <1>5, <3>1, LoadGoes
    <3>3. QED
      BY <1>1, <3>1, <3>2
  <2>2. SdioInv
    BY <1>5 DEF CardGood
  <2>3. SdioHeld'
    <3>1. CASE life.n = 1 /\ Card!Step = "func"
      BY <1>1, <2>1, <2>2, <3>1 DEF SdioInv, SdioHeld, Within, Put
    <3>2. CASE life.n = 2 /\ Card!Step = "context"
      BY <1>1, <2>1, <2>2, <3>2 DEF SdioInv, SdioHeld, Within, Put
    <3>3. CASE life.n = 3 /\ Card!Step = "serial"
      BY <1>1, <2>1, <2>2, <3>3 DEF SdioInv, SdioHeld, Within, Put
    <3>4. QED
      BY <2>1, <3>1, <3>2, <3>3
  <2>4. QED
    BY <1>1, <1>s, <2>1, <2>2, <2>3 DEF SdioInv, Within, Put
<1>6. "bt" # Card!Step
  BY <1>2, <1>4, <1>5 DEF LifeInv
<1>7. QED
  BY <1>1, <1>2, <1>4, <1>5, <1>6, <1>s, CardMoves DEF CardGood

LEMMA CardOpenPath == ASSUME CardGood, Card!OpenPath PROVE CardGood'
<1>1. /\ life.dir = "load" /\ Card!Step = "path" /\ path' = TRUE /\ Card!Advance
      /\ UNCHANGED << bus, adding, held, priv, hci, rxq, rx, faults >>
  BY DEF Card!OpenPath, Card!Loading
<1>2. LifeInv /\ LifeInv'
  BY <1>1, LoadGoes DEF CardGood
<1>3. Gone' = Gone
  BY <1>1 DEF Gone
<1>s. adding = "none" /\ adding' = "none"
  <2>1. CASE bus = "spi"
    BY <1>1, <1>2, <2>1, SpiLoading DEF CardGood, AddInv
  <2>2. CASE bus = "sdio"
    BY <1>1, <1>2, <2>2, SdioLoading DEF CardGood, AddInv
  <2>3. QED
    BY <1>2, <2>1, <2>2 DEF LifeInv
<1>4. ASSUME bus = "spi"
      PROVE  SpiInv'
  <2>1. life.n = 7 /\ life'.dir = "load" /\ life'.n = 8
    <3>1. life.n = 7
      BY <1>1, <1>2, <1>4, SpiLoading
    <3>2. QED
      BY <1>1, <1>2, <1>4, <3>1, LoadGoes
  <2>2. SpiInv
    BY <1>4 DEF CardGood
  <2>3. SpiHeld'
    BY <1>1, <1>3, <2>1, <2>2 DEF SpiInv, SpiHeld, Within, Put
  <2>4. QED
    BY <1>1, <1>s, <2>1, <2>2, <2>3 DEF SpiInv, Within, Put
<1>5. ASSUME bus = "sdio"
      PROVE  SdioInv'
  <2>1. life.n = 6 /\ life'.dir = "ready"
    <3>1. life.n = 6
      BY <1>1, <1>2, <1>5, SdioLoading
    <3>2. QED
      BY <1>1, <1>2, <1>5, <3>1, LoadGoes
  <2>2. SdioInv
    BY <1>5 DEF CardGood
  <2>3. SdioHeld'
    BY <1>1, <2>1, <2>2 DEF SdioInv, SdioHeld, Within, Put
  <2>4. QED
    BY <1>1, <1>s, <2>1, <2>2, <2>3 DEF SdioInv, Within, Put
<1>6. QED
  BY <1>1, <1>2, <1>4, <1>5, <1>s, CardMoves DEF CardGood

\* Only init_context fails without a trace.
LEMMA CardTakeFails == ASSUME CardGood, Card!TakeFails, ~failed' PROVE CardGood'
<1>1. /\ life.dir = "load" /\ Card!Step = "context" /\ life' = [dir |-> "idle", n |-> 0] /\ held' = {}
      /\ UNCHANGED << bus, adding, priv, hci, path, rxq, rx, faults >>
  BY DEF Card!TakeFails, Card!AfterFailure, Card!HeldAfterFailure, Card!Idle
<1>2. LifeInv /\ bus = "sdio" /\ life.n = 2
  <2>1. LifeInv
    BY DEF CardGood
  <2>2. bus # "spi"
    BY <1>1, <2>1, SpiLoading
  <2>3. QED
    BY <1>1, <2>1, <2>2, SdioLoading DEF LifeInv
<1>3. life'.dir = "idle" /\ life'.n = 0
  BY <1>1
<1>4. LifeInv'
  BY <1>1, <1>2, <1>3 DEF LifeInv
<1>5. SdioInv /\ HciInv
  BY <1>2 DEF CardGood
<1>s. adding = "none" /\ adding' = "none"
  BY <1>1, <1>2 DEF CardGood, AddInv
<1>6. ~Within(6, 2) /\ ~Within(6, 9) /\ ~Put(4, 8) /\ ~Put(5, 8) /\ ~Within(6, 3)
  BY <1>1, <1>2, <1>s DEF Within, Put
<1>7. rx.pc = "idle" /\ ~path /\ hci # "bt" /\ "bt" \notin held /\ priv = << "null", "null" >> /\ rx = Card!RxIdle
  BY <1>5, <1>6 DEF SdioInv, HciInv, Card!RxIdle
<1>8. SdioInv'
  BY <1>1, <1>3, <1>7 DEF SdioInv, SdioHeld, Within, Put, Card!RxIdle
<1>9. QED
  BY <1>1, <1>2, <1>4, <1>7, <1>8, <1>s, CardMoves DEF CardGood

\* esp_add_interface fills the free slot, names the device and registers it.
LEMMA CardInsert == ASSUME CardGood, NEW d \in {"sta", "ap"}, Card!InsertPriv(d) PROVE CardGood'
<1>1. /\ life.dir = "load" /\ Card!Step = d /\ priv' = [priv EXCEPT ![Card!FreeSlot] = d]
      /\ adding = "none" /\ adding' = "slot" /\ UNCHANGED << bus, life, held, hci, path, rxq, rx, faults >>
  BY DEF Card!InsertPriv, Card!Loading
<1>2. LifeInv /\ LifeInv' /\ faults' \subseteq Races /\ path' \in BOOLEAN
  BY <1>1 DEF CardGood, LifeInv
<1>3. Gone' = Gone
  BY <1>1 DEF Gone
<1>4. /\ priv = << "null", "null" >> => priv' = << d, "null" >>
      /\ priv = << "sta", "null" >> => priv' = << "sta", d >>
  <2>1. CASE priv = << "null", "null" >>
    <3>1. priv[1] = "null" /\ priv[2] = "null"
      BY <2>1
    <3>2. Card!FreeSlot = 1
      BY <3>1 DEF Card!FreeSlot, Card!Null
    <3>3. QED
      BY <1>1, <2>1, <3>2
  <2>2. CASE priv = << "sta", "null" >>
    <3>1. priv[1] = "sta" /\ priv[2] = "null"
      BY <2>2
    <3>2. Card!FreeSlot = 2
      BY <3>1 DEF Card!FreeSlot, Card!Null
    <3>3. QED
      BY <1>1, <2>2, <3>2
  <2>3. QED
    BY <2>1, <2>2
<1>5. ASSUME bus = "spi"
      PROVE  SpiInv' /\ life.n \in {9, 10}
  <2>1. (d = "sta" => life.n = 9) /\ (d = "ap" => life.n = 10)
    BY <1>1, <1>2, <1>5, SpiLoading
  <2>2. SpiInv
    BY <1>5 DEF CardGood
  <2>3. SpiHeld'
    BY <1>1, <1>3, <2>1, <2>2 DEF SpiInv, SpiHeld, Within
  <2>4. priv' = << "sta", IF d = "ap" THEN "ap" ELSE "null" >>
    BY <1>1, <1>4, <2>1, <2>2 DEF SpiInv, Within, Put
  <2>5. QED
    BY <1>1, <2>1, <2>2, <2>3, <2>4 DEF SpiInv, Within, Put
<1>6. ASSUME bus = "sdio"
      PROVE  SdioInv' /\ life.n \in {4, 5}
  <2>1. (d = "sta" => life.n = 4) /\ (d = "ap" => life.n = 5)
    BY <1>1, <1>2, <1>6, SdioLoading
  <2>2. SdioInv
    BY <1>6 DEF CardGood
  <2>3. SdioHeld'
    BY <1>1, <2>1, <2>2 DEF SdioInv, SdioHeld, Within
  <2>4. priv' = << "sta", IF d = "ap" THEN "ap" ELSE "null" >>
    BY <1>1, <1>4, <2>1, <2>2 DEF SdioInv, Within, Put
  <2>5. QED
    BY <1>1, <2>1, <2>2, <2>3, <2>4 DEF SdioInv, Within, Put
<1>7. AddInv'
  BY <1>1, <1>2, <1>5, <1>6 DEF AddInv, LifeInv
<1>8. (There("sta") => There("sta")') /\ (There("ap") => There("ap")')
  BY <1>1 DEF There
<1>9. QED
  BY <1>1, <1>2, <1>5, <1>6, <1>7, <1>8, CardShifts

LEMMA CardName == ASSUME CardGood, NEW d, Card!NamePriv(d) PROVE CardGood'
<1>1. /\ adding = "slot" /\ adding' = "ndev"
      /\ UNCHANGED << bus, life, held, priv, hci, path, rxq, rx, faults >>
  BY DEF Card!NamePriv
<1>2. LifeInv' /\ AddInv' /\ Gone' = Gone /\ faults' \subseteq Races /\ path' \in BOOLEAN
  BY <1>1 DEF CardGood, LifeInv, AddInv, Gone
<1>3. (There("sta") => There("sta")') /\ (There("ap") => There("ap")')
  BY <1>1 DEF There
<1>4. bus = "spi" => SpiInv'
  BY <1>1, <1>2 DEF CardGood, SpiInv, SpiHeld, Within, Put, Card!RxIdle
<1>5. bus = "sdio" => SdioInv'
  BY <1>1 DEF CardGood, SdioInv, SdioHeld, Within, Put, Card!RxIdle
<1>6. QED
  BY <1>1, <1>2, <1>3, <1>4, <1>5, CardShifts

LEMMA CardAdd == ASSUME CardGood, NEW d \in {"sta", "ap"}, Card!AddInterface(d) PROVE CardGood'
<1>1. /\ life.dir = "load" /\ Card!Step = d /\ adding = "ndev" /\ adding' = "none"
      /\ held' = held \cup {d} /\ Card!Advance /\ UNCHANGED << bus, priv, hci, path, rxq, rx, faults >>
  BY DEF Card!AddInterface, Card!Loading
<1>2. LifeInv /\ LifeInv' /\ AddInv' /\ faults' \subseteq Races /\ path' \in BOOLEAN
  BY <1>1, LoadGoes DEF CardGood, AddInv
<1>3. Gone' = Gone
  BY <1>1 DEF Gone
<1>4. ASSUME bus = "spi"
      PROVE  SpiInv' /\ (There("sta") => There("sta")') /\ (There("ap") => There("ap")')
  <2>1. /\ \/ d = "sta" /\ life.n = 9 /\ life'.dir = "load" /\ life'.n = 10
           \/ d = "ap" /\ life.n = 10 /\ life'.dir = "ready"
    <3>1. (d = "sta" => life.n = 9) /\ (d = "ap" => life.n = 10)
      BY <1>1, <1>2, <1>4, SpiLoading
    <3>2. IF life.n = 10 THEN life'.dir = "ready" ELSE life'.dir = "load" /\ life'.n = life.n + 1
      BY <1>1, <1>2, <1>4, LoadGoes
    <3>3. QED
      BY <3>1, <3>2
  <2>2. SpiInv
    BY <1>4 DEF CardGood
  <2>3. SpiHeld'
    BY <1>1, <1>3, <2>1, <2>2 DEF SpiInv, SpiHeld, Within
  <2>4. priv = << "sta", IF d = "ap" THEN "ap" ELSE "null" >>
    BY <1>1, <2>1, <2>2 DEF SpiInv, Within, Put
  <2>5. SpiInv'
    BY <1>1, <2>1, <2>2, <2>3, <2>4 DEF SpiInv, Within, Put
  <2>6. (There("sta") => There("sta")') /\ (There("ap") => There("ap")')
    BY <1>1, <2>1 DEF There
  <2>7. QED
    BY <2>5, <2>6
<1>5. ASSUME bus = "sdio"
      PROVE  SdioInv' /\ (There("sta") => There("sta")') /\ (There("ap") => There("ap")')
  <2>1. /\ \/ d = "sta" /\ life.n = 4 /\ life'.dir = "load" /\ life'.n = 5
           \/ d = "ap" /\ life.n = 5 /\ life'.dir = "load" /\ life'.n = 6
    <3>1. (d = "sta" => life.n = 4) /\ (d = "ap" => life.n = 5)
      BY <1>1, <1>2, <1>5, SdioLoading
    <3>2. IF life.n = 6 THEN life'.dir = "ready" ELSE life'.dir = "load" /\ life'.n = life.n + 1
      BY <1>1, <1>2, <1>5, LoadGoes
    <3>3. QED
      BY <3>1, <3>2
  <2>2. SdioInv
    BY <1>5 DEF CardGood
  <2>3. SdioHeld'
    BY <1>1, <2>1, <2>2 DEF SdioInv, SdioHeld, Within
  <2>4. priv = << "sta", IF d = "ap" THEN "ap" ELSE "null" >>
    BY <1>1, <2>1, <2>2 DEF SdioInv, Within, Put
  <2>5. SdioInv'
    BY <1>1, <2>1, <2>2, <2>3, <2>4 DEF SdioInv, Within, Put
  <2>6. (There("sta") => There("sta")') /\ (There("ap") => There("ap")')
    BY <1>1, <1>5 DEF There
  <2>7. QED
    BY <2>5, <2>6
<1>6. (There("sta") => There("sta")') /\ (There("ap") => There("ap")')
  BY <1>2, <1>4, <1>5 DEF LifeInv
<1>7. "bt" \in held <=> "bt" \in held'
  BY <1>1
<1>8. QED
  BY <1>1, <1>2, <1>4, <1>5, <1>6, <1>7, CardShifts

LEMMA CardClose == ASSUME CardGood, Card!Close PROVE CardGood'
<1>1. /\ life.dir = "exit" /\ Card!Step = "close" /\ path' = FALSE /\ rxq' = << >> /\ Card!Advance
      /\ UNCHANGED << bus, adding, held, priv, hci, rx, faults >>
  BY DEF Card!Close, Card!Exiting
<1>s. adding = "none" /\ adding' = "none"
  BY <1>1 DEF CardGood, AddInv
<1>2. LifeInv /\ LifeInv'
  BY <1>1, ExitGoes DEF CardGood
<1>3. Gone' = Gone
  BY <1>1 DEF Gone
<1>4. ASSUME bus = "spi"
      PROVE  SpiInv'
  <2>1. life.n = 1 /\ life'.dir = "exit" /\ life'.n = 2
    <3>1. life.n = 1
      BY <1>1, <1>2, <1>4, SpiLeaving
    <3>2. QED
      BY <1>1, <1>2, <1>4, <3>1, ExitGoes
  <2>2. SpiInv /\ LifeInv /\ RxInv /\ HciInv
    BY <1>4 DEF CardGood
  <2>3. SpiHeld'
    BY <1>1, <1>3, <2>1, <2>2 DEF SpiInv, SpiHeld, Within, Put
  <2>4. QED
    BY <1>1, <1>3, <2>1, <2>2, <2>3 DEF SpiInv, Within, Put
<1>5. ASSUME bus = "sdio"
      PROVE  SdioInv'
  <2>1. life.n = 2 /\ life'.dir = "exit" /\ life'.n = 3
    <3>1. life.n = 2
      BY <1>1, <1>2, <1>5, SdioLeaving
    <3>2. QED
      BY <1>1, <1>2, <1>5, <3>1, ExitGoes
  <2>2. SdioInv /\ LifeInv /\ RxInv /\ HciInv
    BY <1>5 DEF CardGood
  <2>3. SdioHeld'
    BY <1>1, <1>3, <2>1, <2>2 DEF SdioInv, SdioHeld, Within, Put
  <2>4. QED
    BY <1>1, <1>3, <2>1, <2>2, <2>3 DEF SdioInv, Within, Put
<1>6. QED
  BY <1>1, <1>2, <1>4, <1>5, <1>s, CardMoves DEF CardGood

LEMMA CardFlush == ASSUME CardGood, Card!Flush PROVE CardGood'
<1>1. /\ life.dir = "exit" /\ Card!Step = "flush" /\ rx.pc = "idle" /\ (path => rxq = << >>) /\ Card!Advance
      /\ UNCHANGED << bus, adding, held, priv, hci, path, rxq, rx, faults >>
  BY DEF Card!Flush, Card!Flushed, Card!Exiting
<1>s. adding = "none" /\ adding' = "none"
  BY <1>1 DEF CardGood, AddInv
<1>2. LifeInv /\ LifeInv'
  BY <1>1, ExitGoes DEF CardGood
<1>3. Gone' = Gone
  BY <1>1 DEF Gone
<1>4. ASSUME bus = "spi"
      PROVE  SpiInv'
  <2>1. life.n = 4 /\ life'.dir = "exit" /\ life'.n = 5
    <3>1. life.n = 4
      BY <1>1, <1>2, <1>4, SpiLeaving
    <3>2. QED
      BY <1>1, <1>2, <1>4, <3>1, ExitGoes
  <2>2. SpiInv /\ LifeInv /\ RxInv /\ HciInv
    BY <1>4 DEF CardGood
  <2>3. SpiHeld'
    BY <1>1, <1>3, <2>1, <2>2 DEF SpiInv, SpiHeld, Within, Put
  <2>4. rx = Card!RxIdle
    BY <1>1, <2>2 DEF RxInv
  <2>5. QED
    BY <1>1, <1>3, <2>1, <2>2, <2>3, <2>4 DEF SpiInv, Within, Put, Card!RxIdle
<1>5. ASSUME bus = "sdio"
      PROVE  SdioInv'
  <2>1. life.n = 3 /\ life'.dir = "exit" /\ life'.n = 4
    <3>1. life.n = 3
      BY <1>1, <1>2, <1>5, SdioLeaving
    <3>2. QED
      BY <1>1, <1>2, <1>5, <3>1, ExitGoes
  <2>2. SdioInv /\ LifeInv /\ RxInv /\ HciInv
    BY <1>5 DEF CardGood
  <2>3. SdioHeld'
    BY <1>1, <1>3, <2>1, <2>2 DEF SdioInv, SdioHeld, Within, Put
  <2>4. rx = Card!RxIdle
    BY <1>1, <2>2 DEF RxInv
  <2>5. QED
    BY <1>1, <1>3, <2>1, <2>2, <2>3, <2>4 DEF SdioInv, Within, Put, Card!RxIdle
<1>6. QED
  BY <1>1, <1>2, <1>4, <1>5, <1>s, CardMoves DEF CardGood

LEMMA CardForget == ASSUME CardGood, Card!Forget PROVE CardGood'
<1>1. /\ life.dir = "exit" /\ Card!Step = "forget" /\ priv' = << "null", "null" >> /\ Card!Advance
      /\ UNCHANGED << bus, adding, held, hci, path, rxq, rx, faults >>
  BY DEF Card!Forget, Card!Exiting, Card!Null
<1>s. adding = "none" /\ adding' = "none"
  BY <1>1 DEF CardGood, AddInv
<1>2. LifeInv /\ LifeInv'
  BY <1>1, ExitGoes DEF CardGood
<1>3. Gone' = Gone
  BY <1>1 DEF Gone
<1>4. ASSUME bus = "spi"
      PROVE  SpiInv'
  <2>1. life.n = 9 /\ life'.dir = "exit" /\ life'.n = 10
    <3>1. life.n = 9
      BY <1>1, <1>2, <1>4, SpiLeaving
    <3>2. QED
      BY <1>1, <1>2, <1>4, <3>1, ExitGoes
  <2>2. SpiInv /\ LifeInv /\ RxInv /\ HciInv
    BY <1>4 DEF CardGood
  <2>3. SpiHeld'
    BY <1>1, <1>3, <2>1, <2>2 DEF SpiInv, SpiHeld, Within, Put
  <2>4. QED
    BY <1>1, <1>3, <2>1, <2>2, <2>3 DEF SpiInv, Within, Put, Card!RxIdle
<1>5. ASSUME bus = "sdio"
      PROVE  SdioInv'
  <2>1. life.n = 8 /\ life'.dir = "exit" /\ life'.n = 9
    <3>1. life.n = 8
      BY <1>1, <1>2, <1>5, SdioLeaving
    <3>2. QED
      BY <1>1, <1>2, <1>5, <3>1, ExitGoes
  <2>2. SdioInv /\ LifeInv /\ RxInv /\ HciInv
    BY <1>5 DEF CardGood
  <2>3. SdioHeld'
    BY <1>1, <1>3, <2>1, <2>2 DEF SdioInv, SdioHeld, Within, Put
  <2>4. QED
    BY <1>1, <1>3, <2>1, <2>2, <2>3 DEF SdioInv, Within, Put, Card!RxIdle
<1>6. QED
  BY <1>1, <1>2, <1>4, <1>5, <1>s, CardMoves DEF CardGood

LEMMA CardGive == ASSUME CardGood, Card!Give PROVE CardGood'
<1>1. /\ life.dir = "exit" /\ Card!Step \in {"spiwq", "serial", "pins", "spidev", "context", "func"} /\ Card!Advance
      /\ held' = held \ Card!GivenBack(Card!Step)
      /\ faults' = IF Card!GivenBack(Card!Step) \subseteq held THEN faults ELSE {"release"}
      /\ UNCHANGED << bus, adding, priv, hci, path, rxq, rx >>
  BY DEF Card!Give
<1>s. adding = "none" /\ adding' = "none"
  BY <1>1 DEF CardGood, AddInv
<1>2. LifeInv /\ LifeInv'
  BY <1>1, ExitGoes DEF CardGood
<1>3. Gone' = Gone
  BY <1>1 DEF Gone
<1>4. ASSUME bus = "spi"
      PROVE  SpiInv' /\ faults' = faults /\ \A r \in {"sta", "ap", "bt"} : r \in held <=> r \in held'
  <2>1. \/ life.n = 2 /\ Card!Step = "spiwq" /\ life'.dir = "exit" /\ life'.n = 3
        \/ life.n = 3 /\ Card!Step = "serial" /\ life'.dir = "exit" /\ life'.n = 4
        \/ life.n = 11 /\ Card!Step = "pins" /\ life'.dir = "exit" /\ life'.n = 12
        \/ life.n = 12 /\ Card!Step = "spidev" /\ life'.dir = "idle"
    <3>1. /\ life.n \in 1 .. 12
          /\ (life.n = 1 <=> Card!Step = "close") /\ (life.n = 2 <=> Card!Step = "spiwq")
          /\ (life.n = 3 <=> Card!Step = "serial") /\ (life.n = 4 <=> Card!Step = "flush")
          /\ (life.n = 5 <=> Card!Step = "stop1") /\ (life.n = 6 <=> Card!Step = "free1")
          /\ (life.n = 7 <=> Card!Step = "stop2") /\ (life.n = 8 <=> Card!Step = "free2")
          /\ (life.n = 9 <=> Card!Step = "forget") /\ (life.n = 10 <=> Card!Step = "bt")
          /\ (life.n = 11 <=> Card!Step = "pins") /\ (life.n = 12 <=> Card!Step = "spidev")
      BY <1>1, <1>2, <1>4, SpiLeaving
    <3>2. IF life.n = 12 THEN life'.dir = "idle" ELSE life'.dir = "exit" /\ life'.n = life.n + 1
      BY <1>1, <1>2, <1>4, ExitGoes
    <3>3. QED
      BY <1>1, <3>1, <3>2
  <2>2. SpiInv /\ LifeInv /\ RxInv /\ HciInv
    BY <1>4 DEF CardGood
  <2>3. CASE life.n = 2
    <3>1. Card!Step = "spiwq"
      BY <2>1, <2>3
    <3>2. Card!GivenBack(Card!Step) = {"spiwq"}
      BY <3>1 DEF Card!GivenBack
    <3>4. {"spiwq"} \subseteq held /\ held' = held \ {"spiwq"}
      BY <1>1, <2>2, <2>3, <3>2 DEF SpiInv, SpiHeld, Within, Put
    <3>5. life.dir = "exit" /\ life'.dir = "exit" /\ life'.n = 3 /\ (Gone' <=> Gone) /\ SpiInv
      BY <1>1, <1>3, <2>1, <2>2, <2>3
    <3>6. SpiHeld'
      BY ONLY <2>3, <3>4, <3>5 DEF SpiInv, SpiHeld, Within, Put
    <3>7. SpiInv'
      BY <1>1, <2>1, <2>2, <2>3, <3>6 DEF SpiInv, Within, Put
    <3>8. QED
      BY <1>1, <1>2, <2>3, <3>2, <3>4, <3>7
  <2>4. CASE life.n = 3
    <3>1. Card!Step = "serial"
      BY <2>1, <2>4
    <3>2. Card!GivenBack(Card!Step) = {"serial"}
      BY <3>1 DEF Card!GivenBack
    <3>4. {"serial"} \subseteq held /\ held' = held \ {"serial"}
      BY <1>1, <2>2, <2>4, <3>2 DEF SpiInv, SpiHeld, Within, Put
    <3>5. life.dir = "exit" /\ life'.dir = "exit" /\ life'.n = 4 /\ (Gone' <=> Gone) /\ SpiInv
      BY <1>1, <1>3, <2>1, <2>2, <2>4
    <3>6. SpiHeld'
      BY ONLY <2>4, <3>4, <3>5 DEF SpiInv, SpiHeld, Within, Put
    <3>7. SpiInv'
      BY <1>1, <2>1, <2>2, <2>4, <3>6 DEF SpiInv, Within, Put
    <3>8. QED
      BY <1>1, <1>2, <2>4, <3>2, <3>4, <3>7
  <2>5. CASE life.n = 11
    <3>1. Card!Step = "pins"
      BY <2>1, <2>5
    <3>2. Card!GivenBack(Card!Step) = {"irqH", "irqR", "gpioH", "gpioR"}
      BY <3>1 DEF Card!GivenBack, Card!Irqs, Card!Gpios
    <3>3. ~Gone
      BY <1>1, <2>2, <2>5 DEF SpiInv, Within, Put, Gone, Card!RxIdle
    <3>4. {"irqH", "irqR", "gpioH", "gpioR"} \subseteq held /\ held' = held \ {"irqH", "irqR", "gpioH", "gpioR"}
      BY <1>1, <2>2, <2>5, <3>2, <3>3 DEF SpiInv, SpiHeld, Within, Put
    <3>5. life.dir = "exit" /\ life'.dir = "exit" /\ life'.n = 12 /\ (Gone' <=> Gone) /\ SpiInv
      BY <1>1, <1>3, <2>1, <2>2, <2>5
    <3>6. SpiHeld'
      BY ONLY <2>5, <3>4, <3>5, <3>3 DEF SpiInv, SpiHeld, Within, Put
    <3>7. SpiInv'
      BY <1>1, <2>1, <2>2, <2>5, <3>6 DEF SpiInv, Within, Put
    <3>8. QED
      BY <1>1, <1>2, <2>5, <3>2, <3>4, <3>7
  <2>6. CASE life.n = 12
    <3>1. Card!Step = "spidev"
      BY <2>1, <2>6
    <3>2. Card!GivenBack(Card!Step) = {"spidev"}
      BY <3>1 DEF Card!GivenBack
    <3>3. ~Gone
      BY <1>1, <2>2, <2>6 DEF SpiInv, Within, Put, Gone, Card!RxIdle
    <3>4. {"spidev"} \subseteq held /\ held' = held \ {"spidev"}
      BY <1>1, <2>2, <2>6, <3>2, <3>3 DEF SpiInv, SpiHeld, Within, Put
    <3>5. life.dir = "exit" /\ life'.dir = "idle" /\ (Gone' <=> Gone) /\ SpiInv
      BY <1>1, <1>3, <2>1, <2>2, <2>6
    <3>6. SpiHeld'
      BY ONLY <2>6, <3>4, <3>5, <3>3 DEF SpiInv, SpiHeld, Within, Put
    <3>7. SpiInv'
      BY <1>1, <2>1, <2>2, <2>6, <3>6 DEF SpiInv, Within, Put
    <3>8. QED
      BY <1>1, <1>2, <2>6, <3>2, <3>4, <3>7
  <2>7. QED
    BY <2>1, <2>3, <2>4, <2>5, <2>6
<1>5. ASSUME bus = "sdio"
      PROVE  SdioInv' /\ faults' = faults /\ \A r \in {"sta", "ap", "bt"} : r \in held <=> r \in held'
  <2>1. \/ life.n = 1 /\ Card!Step = "serial" /\ life'.dir = "exit" /\ life'.n = 2
        \/ life.n = 10 /\ Card!Step = "context" /\ life'.dir = "exit" /\ life'.n = 11
        \/ life.n = 11 /\ Card!Step = "func" /\ life'.dir = "idle"
    <3>1. /\ life.n \in 1 .. 11
          /\ (life.n = 1 <=> Card!Step = "serial") /\ (life.n = 2 <=> Card!Step = "close")
          /\ (life.n = 3 <=> Card!Step = "flush") /\ (life.n = 4 <=> Card!Step = "stop1")
          /\ (life.n = 5 <=> Card!Step = "free1") /\ (life.n = 6 <=> Card!Step = "stop2")
          /\ (life.n = 7 <=> Card!Step = "free2") /\ (life.n = 8 <=> Card!Step = "forget")
          /\ (life.n = 9 <=> Card!Step = "bt") /\ (life.n = 10 <=> Card!Step = "context")
          /\ (life.n = 11 <=> Card!Step = "func")
      BY <1>1, <1>2, <1>5, SdioLeaving
    <3>2. IF life.n = 11 THEN life'.dir = "idle" ELSE life'.dir = "exit" /\ life'.n = life.n + 1
      BY <1>1, <1>2, <1>5, ExitGoes
    <3>3. QED
      BY <1>1, <3>1, <3>2
  <2>2. SdioInv /\ LifeInv /\ RxInv /\ HciInv
    BY <1>5 DEF CardGood
  <2>3. CASE life.n = 1
    <3>1. Card!Step = "serial"
      BY <2>1, <2>3
    <3>2. Card!GivenBack(Card!Step) = {"serial"}
      BY <3>1 DEF Card!GivenBack
    <3>4. {"serial"} \subseteq held /\ held' = held \ {"serial"}
      BY <1>1, <2>2, <2>3, <3>2 DEF SdioInv, SdioHeld, Within, Put
    <3>5. life.dir = "exit" /\ life'.dir = "exit" /\ life'.n = 2 /\ (Gone' <=> Gone) /\ SdioInv
      BY <1>1, <1>3, <2>1, <2>2, <2>3
    <3>6. SdioHeld'
      BY ONLY <2>3, <3>4, <3>5 DEF SdioInv, SdioHeld, Within, Put
    <3>7. SdioInv'
      BY <1>1, <2>1, <2>2, <2>3, <3>6 DEF SdioInv, Within, Put
    <3>8. QED
      BY <1>1, <1>2, <2>3, <3>2, <3>4, <3>7
  <2>4. CASE life.n = 10
    <3>1. Card!Step = "context"
      BY <2>1, <2>4
    <3>2. Card!GivenBack(Card!Step) = {"context"}
      BY <3>1 DEF Card!GivenBack
    <3>4. {"context"} \subseteq held /\ held' = held \ {"context"}
      BY <1>1, <2>2, <2>4, <3>2 DEF SdioInv, SdioHeld, Within, Put
    <3>5. life.dir = "exit" /\ life'.dir = "exit" /\ life'.n = 11 /\ (Gone' <=> Gone) /\ SdioInv
      BY <1>1, <1>3, <2>1, <2>2, <2>4
    <3>6. SdioHeld'
      BY ONLY <2>4, <3>4, <3>5 DEF SdioInv, SdioHeld, Within, Put
    <3>7. SdioInv'
      BY <1>1, <2>1, <2>2, <2>4, <3>6 DEF SdioInv, Within, Put
    <3>8. QED
      BY <1>1, <1>2, <2>4, <3>2, <3>4, <3>7
  <2>5. CASE life.n = 11
    <3>1. Card!Step = "func"
      BY <2>1, <2>5
    <3>2. Card!GivenBack(Card!Step) = {"func"}
      BY <3>1 DEF Card!GivenBack
    <3>4. {"func"} \subseteq held /\ held' = held \ {"func"}
      BY <1>1, <2>2, <2>5, <3>2 DEF SdioInv, SdioHeld, Within, Put
    <3>5. life.dir = "exit" /\ life'.dir = "idle" /\ (Gone' <=> Gone) /\ SdioInv
      BY <1>1, <1>3, <2>1, <2>2, <2>5
    <3>6. SdioHeld'
      BY ONLY <2>5, <3>4, <3>5 DEF SdioInv, SdioHeld, Within, Put
    <3>7. SdioInv'
      BY <1>1, <2>1, <2>2, <2>5, <3>6 DEF SdioInv, Within, Put
    <3>8. QED
      BY <1>1, <1>2, <2>5, <3>2, <3>4, <3>7
  <2>6. QED
    BY <2>1, <2>3, <2>4, <2>5
<1>6. QED
  BY <1>1, <1>2, <1>4, <1>5, <1>s, CardMoves DEF CardGood, LifeInv

LEMMA CardStop == ASSUME CardGood, NEW i \in 1 .. 2, Card!StopQueue(i) PROVE CardGood'
<1>1. /\ life.dir = "exit" /\ Card!Step = (IF i = 1 THEN "stop1" ELSE "stop2")
      /\ IF priv[i] = "null" THEN life' = Card!Crashed ELSE Card!Advance
      /\ faults' = IF (priv[i] # "null" /\ priv[i] \notin held) \/ priv[i] = "null" THEN {"remove"} ELSE faults
      /\ UNCHANGED << bus, adding, held, priv, hci, path, rxq, rx >>
  BY DEF Card!StopQueue, Card!Exiting, Card!Dead, Card!Null
<1>s. adding = "none" /\ adding' = "none"
  BY <1>1 DEF CardGood, AddInv
<1>2. priv[i] # "null" /\ priv[i] \in held
  <2>1. CASE bus = "spi"
    <3>1. SpiInv /\ LifeInv
      BY <2>1 DEF CardGood
    <3>2. (i = 1 => life.n = 5) /\ (i = 2 => life.n = 7)
      BY <1>1, <2>1, <3>1, SpiLeaving
    <3>3. (i = 1 => priv[i] = "sta" /\ "sta" \in held) /\ (i = 2 => priv[i] = "ap" /\ "ap" \in held)
      BY <1>1, <3>1, <3>2 DEF SpiInv, SpiHeld, Within, Put
    <3>4. QED
      BY <3>3
  <2>2. CASE bus = "sdio"
    <3>1. SdioInv /\ LifeInv
      BY <2>2 DEF CardGood
    <3>2. (i = 1 => life.n = 4) /\ (i = 2 => life.n = 6)
      BY <1>1, <2>2, <3>1, SdioLeaving
    <3>3. (i = 1 => priv[i] = "sta" /\ "sta" \in held) /\ (i = 2 => priv[i] = "ap" /\ "ap" \in held)
      BY <1>1, <3>1, <3>2 DEF SdioInv, SdioHeld, Within, Put
    <3>4. QED
      BY <3>3
  <2>3. QED
    BY <2>1, <2>2 DEF CardGood, LifeInv
<1>3. Card!Advance /\ faults' = faults /\ Gone' = Gone
  BY <1>1, <1>2 DEF Gone
<1>4. LifeInv /\ LifeInv'
  BY <1>1, <1>3, ExitGoes DEF CardGood
<1>5. ASSUME bus = "spi"
      PROVE  SpiInv'
  <2>1. \/ life.n = 5 /\ life'.dir = "exit" /\ life'.n = 6
        \/ life.n = 7 /\ life'.dir = "exit" /\ life'.n = 8
    <3>1. life.n = 5 \/ life.n = 7
      BY <1>1, <1>4, <1>5, SpiLeaving
    <3>2. IF life.n = 12 THEN life'.dir = "idle" ELSE life'.dir = "exit" /\ life'.n = life.n + 1
      BY <1>1, <1>3, <1>4, <1>5, ExitGoes
    <3>3. QED
      BY <3>1, <3>2
  <2>2. SpiInv
    BY <1>5 DEF CardGood
  <2>3. SpiHeld'
    BY <1>1, <1>3, <2>1, <2>2 DEF SpiInv, SpiHeld, Within, Put
  <2>4. QED
    BY <1>1, <2>1, <2>2, <2>3 DEF SpiInv, Within, Put, Card!RxIdle
<1>6. ASSUME bus = "sdio"
      PROVE  SdioInv'
  <2>1. \/ life.n = 4 /\ life'.dir = "exit" /\ life'.n = 5
        \/ life.n = 6 /\ life'.dir = "exit" /\ life'.n = 7
    <3>1. life.n = 4 \/ life.n = 6
      BY <1>1, <1>4, <1>6, SdioLeaving
    <3>2. IF life.n = 11 THEN life'.dir = "idle" ELSE life'.dir = "exit" /\ life'.n = life.n + 1
      BY <1>1, <1>3, <1>4, <1>6, ExitGoes
    <3>3. QED
      BY <3>1, <3>2
  <2>2. SdioInv
    BY <1>6 DEF CardGood
  <2>3. SdioHeld'
    BY <1>1, <2>1, <2>2 DEF SdioInv, SdioHeld, Within, Put
  <2>4. QED
    BY <1>1, <2>1, <2>2, <2>3 DEF SdioInv, Within, Put, Card!RxIdle
<1>7. QED
  BY <1>1, <1>3, <1>4, <1>5, <1>6, <1>s, CardMoves DEF CardGood

LEMMA CardFree == ASSUME CardGood, NEW i \in 1 .. 2, Card!FreeDevice(i) PROVE CardGood'
<1>1. /\ life.dir = "exit" /\ Card!Step = (IF i = 1 THEN "free1" ELSE "free2") /\ Card!Advance
      /\ held' = held \ {priv[i]}
      /\ faults' = IF priv[i] # "null" /\ priv[i] \notin held THEN {"remove"} ELSE faults
      /\ UNCHANGED << bus, adding, priv, hci, path, rxq, rx >>
  BY DEF Card!FreeDevice, Card!Exiting, Card!Dead, Card!Null
<1>s. adding = "none" /\ adding' = "none"
  BY <1>1 DEF CardGood, AddInv
<1>2. LifeInv /\ LifeInv'
  BY <1>1, ExitGoes DEF CardGood
<1>3. Gone' = Gone
  BY <1>1 DEF Gone
<1>4. ASSUME bus = "spi"
      PROVE  SpiInv' /\ faults' = faults /\ rx.pc = "idle" /\ ("bt" \in held <=> "bt" \in held')
  <2>1. \/ i = 1 /\ life.n = 6 /\ life'.dir = "exit" /\ life'.n = 7
        \/ i = 2 /\ life.n = 8 /\ life'.dir = "exit" /\ life'.n = 9
    <3>1. (i = 1 => life.n = 6) /\ (i = 2 => life.n = 8)
      BY <1>1, <1>2, <1>4, SpiLeaving
    <3>2. IF life.n = 12 THEN life'.dir = "idle" ELSE life'.dir = "exit" /\ life'.n = life.n + 1
      BY <1>1, <1>2, <1>4, ExitGoes
    <3>3. QED
      BY <3>1, <3>2
  <2>2. SpiInv
    BY <1>4 DEF CardGood
  <2>3. (i = 1 => priv[i] = "sta" /\ "sta" \in held) /\ (i = 2 => priv[i] = "ap" /\ "ap" \in held)
    BY <1>1, <2>1, <2>2 DEF SpiInv, SpiHeld, Within, Put
  <2>4. SpiHeld'
    <3>1. CASE i = 1
      <4>1. life.dir = "exit" /\ life.n = 6 /\ life'.dir = "exit" /\ life'.n = 7 /\ held' = held \ {"sta"} /\ (Gone' <=> Gone)
        BY <1>1, <1>3, <2>1, <2>3, <3>1
      <4>2. QED
        BY ONLY <2>2, <4>1 DEF SpiInv, SpiHeld, Within, Put
    <3>2. CASE i = 2
      <4>1. life.dir = "exit" /\ life.n = 8 /\ life'.dir = "exit" /\ life'.n = 9 /\ held' = held \ {"ap"} /\ (Gone' <=> Gone)
        BY <1>1, <1>3, <2>1, <2>3, <3>2
      <4>2. QED
        BY ONLY <2>2, <4>1 DEF SpiInv, SpiHeld, Within, Put
    <3>3. QED
      BY <2>1, <3>1, <3>2
  <2>5. SpiInv'
    BY <1>1, <2>1, <2>2, <2>4 DEF SpiInv, Within, Put, Card!RxIdle
  <2>6. rx.pc = "idle"
    BY <1>1, <2>1, <2>2 DEF SpiInv, Within, Put, Card!RxIdle
  <2>7. QED
    BY <1>1, <2>3, <2>5, <2>6
<1>5. ASSUME bus = "sdio"
      PROVE  SdioInv' /\ faults' = faults /\ rx.pc = "idle" /\ ("bt" \in held <=> "bt" \in held')
  <2>1. \/ i = 1 /\ life.n = 5 /\ life'.dir = "exit" /\ life'.n = 6
        \/ i = 2 /\ life.n = 7 /\ life'.dir = "exit" /\ life'.n = 8
    <3>1. (i = 1 => life.n = 5) /\ (i = 2 => life.n = 7)
      BY <1>1, <1>2, <1>5, SdioLeaving
    <3>2. IF life.n = 11 THEN life'.dir = "idle" ELSE life'.dir = "exit" /\ life'.n = life.n + 1
      BY <1>1, <1>2, <1>5, ExitGoes
    <3>3. QED
      BY <3>1, <3>2
  <2>2. SdioInv
    BY <1>5 DEF CardGood
  <2>3. (i = 1 => priv[i] = "sta" /\ "sta" \in held) /\ (i = 2 => priv[i] = "ap" /\ "ap" \in held)
    BY <1>1, <2>1, <2>2 DEF SdioInv, SdioHeld, Within, Put
  <2>4. SdioHeld'
    <3>1. CASE i = 1
      <4>1. life.dir = "exit" /\ life.n = 5 /\ life'.dir = "exit" /\ life'.n = 6 /\ held' = held \ {"sta"} /\ (Gone' <=> Gone)
        BY <1>1, <1>3, <2>1, <2>3, <3>1
      <4>2. QED
        BY ONLY <2>2, <4>1 DEF SdioInv, SdioHeld, Within, Put
    <3>2. CASE i = 2
      <4>1. life.dir = "exit" /\ life.n = 7 /\ life'.dir = "exit" /\ life'.n = 8 /\ held' = held \ {"ap"} /\ (Gone' <=> Gone)
        BY <1>1, <1>3, <2>1, <2>3, <3>2
      <4>2. QED
        BY ONLY <2>2, <4>1 DEF SdioInv, SdioHeld, Within, Put
    <3>3. QED
      BY <2>1, <3>1, <3>2
  <2>5. SdioInv'
    BY <1>1, <2>1, <2>2, <2>4 DEF SdioInv, Within, Put, Card!RxIdle
  <2>6. rx.pc = "idle"
    BY <1>1, <2>1, <2>2 DEF SdioInv, Within, Put, Card!RxIdle
  <2>7. QED
    BY <1>1, <2>3, <2>5, <2>6
<1>6. faults' = faults /\ rx.pc = "idle" /\ ("bt" \in held <=> "bt" \in held')
  BY <1>2, <1>4, <1>5 DEF LifeInv
<1>7. QED
  BY <1>1, <1>2, <1>4, <1>5, <1>6, <1>s, CardMoves DEF CardGood

LEMMA CardRemoveBt == ASSUME CardGood, Card!RemoveBt PROVE CardGood'
<1>1. /\ life.dir = "exit" /\ Card!Step = "bt" /\ Card!Advance
      /\ held' = held \ {"bt"} /\ hci' = "null"
      /\ faults' = IF hci # "null" /\ hci \notin held THEN {"hci"} ELSE faults
      /\ UNCHANGED << bus, adding, priv, path, rxq, rx >>
  BY DEF Card!RemoveBt, Card!DeinitBt, Card!Exiting, Card!Dead, Card!Null
<1>s. adding = "none" /\ adding' = "none"
  BY <1>1 DEF CardGood, AddInv
<1>2. LifeInv /\ LifeInv' /\ HciInv
  BY <1>1, ExitGoes DEF CardGood
<1>3. HciInv' /\ faults' = faults
  BY <1>1, <1>2 DEF HciInv
<1>4. ASSUME bus = "spi"
      PROVE  SpiInv' /\ rx = Card!RxIdle
  <2>1. life.n = 10 /\ life'.dir = "exit" /\ life'.n = 11
    <3>1. life.n = 10
      BY <1>1, <1>2, <1>4, SpiLeaving
    <3>2. QED
      BY <1>1, <1>2, <1>4, <3>1, ExitGoes
  <2>2. SpiInv
    BY <1>4 DEF CardGood
  <2>3. rx = Card!RxIdle /\ ~Gone /\ ~Gone'
    BY <1>1, <2>1, <2>2 DEF SpiInv, Within, Put, Gone, Card!RxIdle
  <2>4. SpiHeld'
    BY <1>1, <2>1, <2>2, <2>3 DEF SpiInv, SpiHeld, Within, Put
  <2>5. QED
    BY <1>1, <2>1, <2>2, <2>3, <2>4 DEF SpiInv, Within, Put, Card!RxIdle
<1>5. ASSUME bus = "sdio"
      PROVE  SdioInv' /\ rx = Card!RxIdle
  <2>1. life.n = 9 /\ life'.dir = "exit" /\ life'.n = 10
    <3>1. life.n = 9
      BY <1>1, <1>2, <1>5, SdioLeaving
    <3>2. QED
      BY <1>1, <1>2, <1>5, <3>1, ExitGoes
  <2>2. SdioInv
    BY <1>5 DEF CardGood
  <2>3. rx = Card!RxIdle
    BY <1>1, <2>1, <2>2 DEF SdioInv, Within, Put
  <2>4. SdioHeld'
    BY <1>1, <2>1, <2>2 DEF SdioInv, SdioHeld, Within, Put
  <2>5. QED
    BY <1>1, <2>1, <2>2, <2>3, <2>4 DEF SdioInv, Within, Put, Card!RxIdle
<1>6. RxInv'
  BY <1>1, <1>2, <1>4, <1>5 DEF LifeInv, RxInv, Card!RxIdle
<1>7. AddInv' /\ Races' = Races
  BY <1>1, <1>s DEF AddInv, Races
<1>8. QED
  BY <1>1, <1>2, <1>3, <1>4, <1>5, <1>6, <1>7 DEF CardGood

\* The work item runs, or a packet waits for it, only between open_data_path and flush.
LEMMA CardBusy ==
    ASSUME CardGood, rx # Card!RxIdle \/ (path /\ rxq # << >>)
    PROVE  (bus = "spi" => Within(7, 4)) /\ (bus = "sdio" => Within(6, 3))
<1>1. bus = "spi" => Within(7, 4)
  BY DEF CardGood, SpiInv
<1>2. ASSUME bus = "sdio"
      PROVE  Within(6, 3)
  <2>1. SdioInv
    BY <1>2 DEF CardGood
  <2>2. Within(6, 2) => Within(6, 3)
    BY DEF Within, Put, CardGood, LifeInv
  <2>3. QED
    BY <2>1, <2>2 DEF SdioInv
<1>3. QED
  BY <1>1, <1>2

\* The work item goes on while the thread stays where it is.
LEMMA CardWorks ==
    ASSUME CardGood, UNCHANGED << bus, adding, life, priv >>, RxInv', HciInv', path' \in BOOLEAN, faults' \subseteq Races,
           bus = "spi" => SpiHeld' /\ Within(7, 4), bus = "sdio" => SdioHeld' /\ Within(6, 3),
           path' => path \/ bus = "spi"
    PROVE  CardGood'
<1>1. LifeInv' /\ LifeInv /\ AddInv' /\ Races' = Races
  BY DEF CardGood, LifeInv, AddInv, Races
<1>2. ASSUME bus = "spi"
      PROVE  SpiInv'
  <2>1. SpiInv
    BY <1>2 DEF CardGood
  <2>2. /\ priv' = << IF Put(9, 9)' THEN "sta" ELSE "null", IF Put(10, 9)' THEN "ap" ELSE "null" >>
        /\ Within(7, 4)'
    BY <1>2, <2>1 DEF SpiInv, Within, Put
  <2>3. Within(7, 12)' /\ Within(7, 10)'
    BY <1>1, <2>2 DEF Within, Put, LifeInv
  <2>4. QED
    BY <1>2, <2>2, <2>3 DEF SpiInv
<1>3. ASSUME bus = "sdio"
      PROVE  SdioInv'
  <2>1. SdioInv
    BY <1>3 DEF CardGood
  <2>2. /\ priv' = << IF Put(4, 8)' THEN "sta" ELSE "null", IF Put(5, 8)' THEN "ap" ELSE "null" >>
        /\ Within(6, 3)' /\ (path' => Within(6, 2)')
    BY <1>3, <2>1 DEF SdioInv, Within, Put
  <2>3. Within(6, 9)'
    BY <1>1, <2>2 DEF Within, Put, LifeInv
  <2>4. QED
    BY <1>3, <2>2, <2>3 DEF SdioInv
<1>4. QED
  BY <1>1, <1>2, <1>3 DEF CardGood

LEMMA WorkHead ==
    ASSUME NEW s, Work(s)
    PROVE  /\ Head(s) = "again" => Len(s) = 1 /\ bus = "spi"
           /\ Head(s) = "release" => Len(s) # 1 /\ bus = "spi"
<1>1. s \in Seq(StepNames) /\ s # << >>
  BY DEF Work
<1>2. Len(s) \in Nat /\ Len(s) # 0 /\ Head(s) = s[1]
  <2>1. Len(s) \in Nat /\ Len(s) # 0
    BY <1>1
  <2>2. Head(s) = s[1]
    BY <1>1
  <2>3. QED
    BY <2>1, <2>2
<1>3. 1 \in 1 .. Len(s)
  <2>1. \A k \in Nat : k # 0 => 1 \in 1 .. k
    OBVIOUS
  <2>2. QED
    BY ONLY <1>2, <2>1, Zenon
<1>4. /\ s[1] = "release" => 1 < Len(s) /\ bus = "spi"
      /\ s[1] = "again" => 1 = Len(s) /\ bus = "spi"
  BY <1>3 DEF Work
<1>5. \A k \in Nat : 1 < k => k # 1
  OBVIOUS
<1>6. QED
  BY ONLY <1>2, <1>4, <1>5, Zenon

\* A step of the work item.
LEMMA RxGoes ==
    ASSUME RxInv, rx.pc = "work", Card!RxNext, UNCHANGED bus
    PROVE  /\ RxInv' /\ Work(rx.next) /\ rx # Card!RxIdle
           /\ Gone' <=> Head(rx.next) = "release"
<1>1. rx # Card!RxIdle /\ rx = [pc |-> "work", pkt |-> rx.pkt, next |-> rx.next] /\ Work(rx.next)
  BY DEF RxInv, Card!RxIdle
<1>2. CASE Len(rx.next) = 1
  <2>1. rx' = Card!RxIdle
    BY <1>2 DEF Card!RxNext
  <2>2. RxInv' /\ ~Gone'
    BY <2>1 DEF RxInv, Gone, Card!RxIdle
  <2>3. Head(rx.next) # "release"
    BY <1>1, <1>2, WorkHead
  <2>4. QED
    BY <1>1, <2>2, <2>3
<1>3. CASE Len(rx.next) # 1
  <2>1. rx' = [rx EXCEPT !.next = Tail(rx.next)]
    BY <1>3 DEF Card!RxNext
  <2>2. PICK s : s = Tail(rx.next)
    OBVIOUS
  <2>3. rx' = [pc |-> "work", pkt |-> rx.pkt, next |-> s]
    BY <1>1, <2>1, <2>2
  <2>4. Work(s) /\ (Head(rx.next) = "release" <=> Head(s) = "again")
    BY <1>1, <1>3, <2>2, WorkGoesOn
  <2>5. rx'.pc = "work" /\ rx'.next = s /\ rx'.pkt = rx.pkt
    BY <2>3
  <2>6. Gone' <=> Head(s) = "again"
    BY <2>5 DEF Gone
  <2>7. Work(s)'
    BY <2>4 DEF Work
  <2>8. RxInv'
    <3>1. rx' = [pc |-> "work", pkt |-> rx'.pkt, next |-> rx'.next]
      BY <2>3, <2>5
    <3>2. Work(rx.next)'
      BY <2>5, <2>7 DEF Work
    <3>3. QED
      BY <2>5, <3>1, <3>2 DEF RxInv
  <2>9. QED
    BY <1>1, <2>4, <2>6, <2>8
<1>4. QED
  BY <1>2, <1>3

LEMMA CardArrive == ASSUME CardGood, NEW p \in Card!Packets, Card!Arrive(p) PROVE CardGood'
<1>1. /\ bus = "spi" => "spiwq" \in held
      /\ path /\ UNCHANGED << bus, adding, life, held, priv, hci, path, rx, faults >>
  BY DEF Card!Arrive
<1>2. LifeInv /\ LifeInv' /\ Gone' = Gone
  BY <1>1 DEF CardGood, LifeInv, Gone
<1>3. ASSUME bus = "spi"
      PROVE  SpiInv'
  <2>1. SpiInv
    BY <1>3 DEF CardGood
  <2>2. Within(7, 4)
    <3>1. Within(1, 2) /\ (Within(7, 12) \/ life.dir = "idle")
      BY <1>1, <1>3, <2>1 DEF SpiInv, SpiHeld
    <3>2. QED
      BY <1>2, <3>1 DEF Within, Put, LifeInv
  <2>3. SpiHeld'
    BY <1>1, <1>2, <2>1 DEF SpiInv, SpiHeld, Within, Put
  <2>4. QED
    BY <1>1, <2>1, <2>2, <2>3 DEF SpiInv, Within, Put
<1>4. ASSUME bus = "sdio"
      PROVE  SdioInv'
  <2>1. SdioInv
    BY <1>4 DEF CardGood
  <2>2. QED
    BY <1>1, <2>1 DEF SdioInv, SdioHeld, Within, Put, Card!RxIdle
<1>5. AddInv' /\ faults' \subseteq Races /\ path' \in BOOLEAN
  BY <1>1 DEF CardGood, AddInv
<1>6. (There("sta") => There("sta")') /\ (There("ap") => There("ap")')
  BY <1>1 DEF There
<1>7. QED
  BY <1>1, <1>2, <1>3, <1>4, <1>5, <1>6, CardShifts

\* What the work item looks up is registered.
LEMMA LooksHeld ==
    ASSUME CardGood, NEW p, Card!Looks(p), (bus = "spi" => Within(7, 4)) /\ (bus = "sdio" => Within(6, 3)), path
    PROVE  /\ p \in {"serial", "sta", "ap", "hci"}
           /\ p \in {"sta", "ap"} => There(p)
           /\ p = "hci" => "bt" \in held
<1>1. Card!ToSet(Card!Devices) = {"sta", "ap"}
  BY DEF Card!ToSet, Card!Devices
<1>2. p \in {"serial", "sta", "ap", "hci"}
  BY <1>1 DEF Card!Looks
<1>3. p = "hci" => "bt" \in held
  <2>1. ASSUME p = "hci"
        PROVE  hci # "null"
    <3>1. p \notin {"sta", "ap"}
      BY <2>1
    <3>2. QED
      BY <1>1, <2>1, <3>1 DEF Card!Looks, Card!Null
  <2>2. QED
    BY <2>1 DEF CardGood, HciInv
<1>4. ASSUME p \in {"sta", "ap"}
      PROVE  There(p)
  <2>1. p \in Card!ToSet(priv)
    BY <1>1, <1>4 DEF Card!Looks
  <2>2. LifeInv
    BY DEF CardGood
  <2>3. CASE bus = "spi"
    <3>1. SpiInv /\ Within(7, 4)
      BY <2>3 DEF CardGood
    <3>2. priv = << IF Put(9, 9) THEN "sta" ELSE "null", IF Put(10, 9) THEN "ap" ELSE "null" >>
      BY <3>1 DEF SpiInv
    <3>3. p = priv[1] \/ p = priv[2]
      BY <2>1, <3>2 DEF Card!ToSet
    <3>4. (p = "sta" /\ Put(9, 9)) \/ (p = "ap" /\ Put(10, 9))
      BY <1>4, <3>2, <3>3
    <3>5. CASE p = "sta" /\ Put(9, 9)
      BY <2>2, <2>3, <3>1, <3>5 DEF Within, Put, LifeInv, There, SpiInv, SpiHeld
    <3>6. CASE p = "ap" /\ Put(10, 9)
      BY <2>2, <2>3, <3>1, <3>6 DEF Within, Put, LifeInv, There, SpiInv, SpiHeld
    <3>7. QED
      BY <3>4, <3>5, <3>6
  <2>4. CASE bus = "sdio"
    <3>1. SdioInv /\ Within(6, 3)
      BY <2>4 DEF CardGood
    <3>2. priv = << IF Put(4, 8) THEN "sta" ELSE "null", IF Put(5, 8) THEN "ap" ELSE "null" >>
      BY <3>1 DEF SdioInv
    <3>3. p = priv[1] \/ p = priv[2]
      BY <2>1, <3>2 DEF Card!ToSet
    <3>4. (p = "sta" /\ Put(4, 8)) \/ (p = "ap" /\ Put(5, 8))
      BY <1>4, <3>2, <3>3
    <3>5. (Put(4, 8) => Within(4, 5)) /\ (Put(5, 8) => Within(5, 7))
      BY <2>2, <3>1 DEF Within, Put, LifeInv
    <3>6. QED
      BY <3>1, <3>4, <3>5 DEF SdioInv, SdioHeld, There
  <2>5. QED
    BY <2>2, <2>3, <2>4 DEF LifeInv
<1>5. QED
  BY <1>2, <1>3, <1>4

LEMMA CardRxTake == ASSUME CardGood, Card!RxTake PROVE CardGood'
<1>1. /\ rx.pc = "idle" /\ path /\ rxq # << >> /\ UNCHANGED << bus, adding, life, held, priv, hci, path, faults >>
      /\ \/ \E caps \in {<< >>, << "btup" >>}, clock \in {<< >>, << "release", "again" >>} :
                rx' = [pc |-> "work", pkt |-> Head(rxq), next |-> Card!Init_steps(caps, clock)]
         \/ Card!Looks(Head(rxq)) /\ rx' = [pc |-> "deliver", pkt |-> Head(rxq), next |-> << >>]
         \/ rx' = Card!RxIdle
  BY DEF Card!RxTake
<1>2. (bus = "spi" => Within(7, 4)) /\ (bus = "sdio" => Within(6, 3))
  BY <1>1, CardBusy
<1>3. ~Gone /\ ~Gone' /\ RxInv'
  <2>1. ~Gone
    BY <1>1 DEF Gone
  <2>2. ASSUME NEW caps \in {<< >>, << "btup" >>}, NEW clock \in {<< >>, << "release", "again" >>},
               rx' = [pc |-> "work", pkt |-> Head(rxq), next |-> Card!Init_steps(caps, clock)]
        PROVE  ~Gone' /\ RxInv'
    <3>1. PICK s : s = Card!Init_steps(caps, clock)
      OBVIOUS
    <3>2. Work(s) /\ Head(s) = "btdown"
      BY <3>1, InitWork
    <3>3. rx'.pc = "work" /\ rx'.next = s /\ rx' = [pc |-> "work", pkt |-> rx'.pkt, next |-> rx'.next]
      BY <2>2, <3>1
    <3>4. Work(rx.next)'
      BY <1>1, <3>2, <3>3 DEF Work
    <3>5. QED
      BY <3>2, <3>3, <3>4 DEF Gone, RxInv
  <2>3. ASSUME Card!Looks(Head(rxq)), rx' = [pc |-> "deliver", pkt |-> Head(rxq), next |-> << >>]
        PROVE  ~Gone' /\ RxInv'
    <3>1. PICK p : p = Head(rxq)
      OBVIOUS
    <3>2. /\ p \in {"serial", "sta", "ap", "hci"}
          /\ p \in {"sta", "ap"} => There(p)
          /\ p = "hci" => "bt" \in held
      BY <1>1, <1>2, <2>3, <3>1, LooksHeld
    <3>3. rx'.pc = "deliver" /\ rx'.pkt = p
      BY <2>3, <3>1
    <3>4. QED
      BY <1>1, <3>2, <3>3 DEF Gone, RxInv, There
  <2>4. ASSUME rx' = Card!RxIdle
        PROVE  ~Gone' /\ RxInv'
    BY <2>4 DEF Gone, RxInv, Card!RxIdle
  <2>5. QED
    BY <1>1, <2>1, <2>2, <2>3, <2>4
<1>4. HciInv'
  BY <1>1 DEF CardGood, HciInv
<1>5. bus = "spi" => SpiHeld'
  BY <1>1, <1>3 DEF CardGood, SpiInv, SpiHeld, Within, Put
<1>6. bus = "sdio" => SdioHeld'
  BY <1>1 DEF CardGood, SdioInv, SdioHeld, Within, Put
<1>7. QED
  BY <1>1, <1>2, <1>3, <1>4, <1>5, <1>6, CardWorks DEF CardGood

LEMMA CardDeliver == ASSUME CardGood, Card!RxDeliver PROVE CardGood'
<1>1. /\ rx.pc = "deliver" /\ rx' = Card!RxIdle /\ UNCHANGED << bus, adding, life, held, priv, hci, path >>
      /\ rx.pkt = "hci" /\ "bt" \in held => faults' = faults
      /\ rx.pkt # "hci" => faults' = IF rx.pkt \in held THEN faults
                                     ELSE {IF Card!Early(rx.pkt) THEN "early" ELSE rx.pkt}
  BY DEF Card!RxDeliver, Card!Target
<1>2. (bus = "spi" => Within(7, 4)) /\ (bus = "sdio" => Within(6, 3))
  BY <1>1, CardBusy DEF Card!RxIdle
<1>3. ~Gone /\ ~Gone' /\ RxInv'
  BY <1>1 DEF Gone, RxInv, Card!RxIdle
<1>4. faults' \subseteq Races
  <2>1. RxInv /\ LifeInv /\ faults \subseteq Races
    BY DEF CardGood
  <2>2. rx.pkt \in {"sta", "ap"} => There(rx.pkt)
    BY <1>1, <2>1 DEF RxInv, Card!RxIdle
  <2>3. ASSUME rx.pkt \in {"sta", "ap"}, rx.pkt \notin held
        PROVE  bus = "spi" /\ Card!Early(rx.pkt)
    <3>1. /\ bus = "spi" /\ life.dir = "load" /\ adding # "none"
          /\ life.n = IF rx.pkt = "sta" THEN 9 ELSE 10
      BY <2>2, <2>3 DEF There
    <3>2. (life.n = 9 <=> Card!Step = "sta") /\ (life.n = 10 <=> Card!Step = "ap")
      BY <2>1, <3>1, SpiLoading
    <3>3. QED
      BY <2>3, <3>1, <3>2 DEF Card!Early, Card!Loading
  <2>4. bus = "sdio" => ~Card!Early(rx.pkt)
    BY <1>2, <2>1 DEF Card!Early, Card!Loading, Within, LifeInv
  <2>5. CASE rx.pkt \in {"sta", "ap"}
    BY <1>1, <2>1, <2>3, <2>5 DEF Races
  <2>6. CASE rx.pkt = "serial"
    BY <1>1, <2>1, <2>4, <2>6 DEF Races, LifeInv
  <2>7. CASE rx.pkt = "hci"
    BY <1>1, <2>1, <2>7 DEF RxInv, Card!RxIdle
  <2>8. QED
    BY <1>1, <2>1, <2>5, <2>6, <2>7 DEF RxInv, Card!RxIdle
<1>5. HciInv'
  BY <1>1 DEF CardGood, HciInv
<1>6. bus = "spi" => SpiHeld'
  BY <1>1, <1>3 DEF CardGood, SpiInv, SpiHeld, Within, Put
<1>7. bus = "sdio" => SdioHeld'
  BY <1>1 DEF CardGood, SdioInv, SdioHeld, Within, Put
<1>8. QED
  BY <1>1, <1>2, <1>3, <1>4, <1>5, <1>6, <1>7, CardWorks DEF CardGood

LEMMA CardCapsDown == ASSUME CardGood, Card!CapsDown PROVE CardGood'
<1>1. /\ rx.pc = "work" /\ Head(rx.next) = "btdown" /\ Card!RxNext /\ UNCHANGED << bus, adding, life, priv, path >>
      /\ held' = held \ {"bt"} /\ hci' = "null"
      /\ faults' = IF hci # "null" /\ hci \notin held THEN {"hci"} ELSE faults
  BY DEF Card!CapsDown, Card!DeinitBt, Card!Working, Card!Dead, Card!Null
<1>2. RxInv /\ HciInv /\ faults \subseteq Races
  BY DEF CardGood
<1>3. RxInv' /\ rx # Card!RxIdle /\ ~Gone /\ ~Gone'
  BY <1>1, <1>2, RxGoes DEF Gone
<1>4. HciInv' /\ faults' = faults
  BY <1>1, <1>2 DEF HciInv
<1>5. (bus = "spi" => Within(7, 4)) /\ (bus = "sdio" => Within(6, 3))
  BY <1>3, CardBusy
<1>6. bus = "spi" => SpiHeld'
  BY <1>1, <1>3 DEF CardGood, SpiInv, SpiHeld, Within, Put
<1>7. bus = "sdio" => SdioHeld'
  BY <1>1 DEF CardGood, SdioInv, SdioHeld, Within, Put
<1>8. QED
  BY <1>1, <1>2, <1>3, <1>4, <1>5, <1>6, <1>7, CardWorks DEF CardGood

LEMMA CardCapsUp == ASSUME CardGood, Card!CapsUp, ~failed, ~failed' PROVE CardGood'
<1>1. /\ rx.pc = "work" /\ Head(rx.next) = "btup" /\ Card!RxNext /\ UNCHANGED << bus, adding, life, priv, path, faults >>
      /\ held' = held \cup {"bt"} /\ hci' = "bt"
  BY DEF Card!CapsUp, Card!Working
<1>2. RxInv /\ HciInv
  BY DEF CardGood
<1>3. RxInv' /\ rx # Card!RxIdle /\ ~Gone /\ ~Gone'
  BY <1>1, <1>2, RxGoes DEF Gone
<1>4. HciInv'
  BY <1>1, <1>2 DEF HciInv
<1>5. (bus = "spi" => Within(7, 4)) /\ (bus = "sdio" => Within(6, 3))
  BY <1>3, CardBusy
<1>6. bus = "spi" => SpiHeld'
  BY <1>1, <1>3 DEF CardGood, SpiInv, SpiHeld, Within, Put
<1>7. bus = "sdio" => SdioHeld'
  BY <1>1 DEF CardGood, SdioInv, SdioHeld, Within, Put
<1>8. QED
  BY <1>1, <1>3, <1>4, <1>5, <1>6, <1>7, CardWorks DEF CardGood

LEMMA CardRelease == ASSUME CardGood, Card!ReinitRelease PROVE CardGood'
<1> DEFINE P == {"spidev", "irqH", "irqR", "gpioH", "gpioR"}
<1>1. /\ rx.pc = "work" /\ Head(rx.next) = "release" /\ Card!RxNext /\ UNCHANGED << bus, adding, life, priv, hci >>
      /\ path' = FALSE /\ held' = held \ P /\ faults' = IF P \subseteq held THEN faults ELSE {"release"}
  <2>1. Card!DeviceParts = P
    BY DEF Card!DeviceParts, Card!Irqs, Card!Gpios
  <2>2. QED
    BY <2>1 DEF Card!ReinitRelease, Card!Working
<1>2. RxInv /\ HciInv /\ LifeInv
  BY DEF CardGood
<1>3. RxInv' /\ rx # Card!RxIdle /\ ~Gone /\ Gone' /\ Work(rx.next)
  BY <1>1, <1>2, RxGoes DEF Gone
<1>4. bus = "spi"
  BY <1>1, <1>3, WorkHead
<1>5. Within(7, 4) /\ SpiHeld
  BY <1>3, <1>4, CardBusy DEF CardGood, SpiInv
<1>6. P \subseteq held
  <2>1. Within(2, 12) /\ Within(3, 11) /\ Within(4, 11) /\ Within(5, 11) /\ Within(6, 11)
    BY <1>2, <1>5 DEF Within, Put, LifeInv
  <2>2. QED
    BY <1>3, <1>5, <2>1 DEF SpiHeld
<1>7. SpiHeld'
  BY <1>1, <1>3, <1>5 DEF SpiHeld, Within, Put
<1>8. HciInv'
  BY <1>1, <1>2 DEF HciInv
<1>9. QED
  BY <1>1, <1>3, <1>4, <1>5, <1>6, <1>7, <1>8, CardWorks DEF CardGood

LEMMA CardAgain == ASSUME CardGood, Card!ReinitAgain PROVE CardGood'
<1> DEFINE P == {"spidev", "irqH", "irqR", "gpioH", "gpioR"}
<1>1. /\ rx.pc = "work" /\ Head(rx.next) = "again" /\ Card!RxNext /\ UNCHANGED << bus, adding, life, priv, hci, faults >>
      /\ path' = TRUE /\ held' = held \cup P
  <2>1. Card!DeviceParts = P
    BY DEF Card!DeviceParts, Card!Irqs, Card!Gpios
  <2>2. QED
    BY <2>1 DEF Card!ReinitAgain, Card!Working
<1>2. RxInv /\ HciInv /\ LifeInv
  BY DEF CardGood
<1>3. RxInv' /\ rx # Card!RxIdle /\ ~Gone' /\ Work(rx.next)
  BY <1>1, <1>2, RxGoes DEF Gone
<1>4. bus = "spi"
  BY <1>1, <1>3, WorkHead
<1>5. Within(7, 4) /\ SpiHeld
  BY <1>3, <1>4, CardBusy DEF CardGood, SpiInv
<1>6. Within(2, 12) /\ Within(3, 11) /\ Within(4, 11) /\ Within(5, 11) /\ Within(6, 11)
  BY <1>2, <1>5 DEF Within, Put, LifeInv
<1>7. SpiHeld'
  BY <1>1, <1>3, <1>5, <1>6 DEF SpiHeld, Within, Put
<1>8. HciInv'
  BY <1>1, <1>2 DEF HciInv
<1>9. QED
  BY <1>1, <1>3, <1>4, <1>5, <1>7, <1>8, CardWorks DEF CardGood

LEMMA CardStays ==
    ASSUME CardGood, UNCHANGED << bus, life, held, priv, adding, hci, path, rxq, rx >>,
           faults' \subseteq faults \cup {"xmit", "queues"}
    PROVE  CardGood'
<1>1. Gone' = Gone /\ LifeInv' /\ AddInv' /\ faults' \subseteq Races /\ path' \in BOOLEAN
  BY DEF Gone, CardGood, LifeInv, AddInv, Races
<1>2. (There("sta") => There("sta")') /\ (There("ap") => There("ap")')
  BY DEF There
<1>3. bus = "spi" => SpiInv'
  BY <1>1 DEF CardGood, SpiInv, SpiHeld, Within, Put, Card!RxIdle
<1>4. bus = "sdio" => SdioInv'
  BY DEF CardGood, SdioInv, SdioHeld, Within, Put, Card!RxIdle
<1>5. QED
  BY <1>1, <1>2, <1>3, <1>4, CardShifts

LEMMA CardUsers ==
    ASSUME CardGood, NEW d, Card!Xmit(d) \/ Card!TxPause \/ Card!TxResume
    PROVE  CardGood'
<1>1. UNCHANGED << bus, life, held, priv, adding, hci, path, rxq, rx >>
  BY DEF Card!Xmit, Card!TxPause, Card!TxResume
<1>2. faults' \subseteq faults \cup {"xmit", "queues"}
  <2>1. faults' = faults \/ faults' = {"xmit"} \/ faults' = {"queues"}
    BY Zenon DEF Card!Xmit, Card!TxPause, Card!TxResume, Card!QueuesAsked
  <2>2. QED
    BY <2>1
<1>3. QED
  BY <1>1, <1>2, CardStays

LEMMA CardStep == CardInv /\ [Card!Next]_cardVars => CardInv'
<1> SUFFICES ASSUME CardInv, [Card!Next]_cardVars, ~failed'
             PROVE  CardGood'
  BY DEF CardInv
<1>1. CASE UNCHANGED cardVars
  <2>1. ~failed /\ faults' \subseteq faults /\ UNCHANGED << bus, life, held, priv, adding, hci, path, rxq, rx >>
    BY <1>1 DEF cardVars
  <2>2. QED
    BY <2>1, CardStays DEF CardInv
<1>2. CASE Card!Load \/ Card!Take \/ Card!OpenPath \/ Card!TakeFails
  <2>1. ~failed
    BY <1>2 DEF Card!Load, Card!Take, Card!OpenPath, Card!TakeFails
  <2>2. QED
    BY <1>2, <2>1, CardLoad, CardTake, CardOpenPath, CardTakeFails DEF CardInv
<1>3. ASSUME NEW d \in {"sta", "ap"},
             \/ Card!InsertPriv(d) \/ Card!NamePriv(d) \/ Card!AddInterface(d)
             \/ Card!AddFails(d) \/ Card!Xmit(d)
      PROVE  CardGood'
  <2>1. ~failed /\ ~Card!AddFails(d)
    BY <1>3 DEF Card!InsertPriv, Card!NamePriv, Card!AddInterface, Card!AddFails, Card!Xmit
  <2>2. QED
    BY <1>3, <2>1, CardInsert, CardName, CardAdd, CardUsers DEF CardInv
<1>10. CASE Card!TxPause \/ Card!TxResume
  <2>1. ~failed
    BY <1>10 DEF Card!TxPause, Card!TxResume
  <2>2. QED
    BY <1>10, <2>1, CardUsers DEF CardInv
<1>4. CASE Card!Unload \/ Card!Close \/ Card!Give \/ Card!Flush \/ Card!Forget \/ Card!RemoveBt
  <2>1. ~failed
    BY <1>4 DEF Card!Unload, Card!Close, Card!Give, Card!Flush, Card!Forget, Card!RemoveBt
  <2>2. QED
    BY <1>4, <2>1, CardUnload, CardClose, CardGive, CardFlush, CardForget, CardRemoveBt DEF CardInv
<1>5. ASSUME NEW i \in 1 .. 2, Card!StopQueue(i) \/ Card!FreeDevice(i)
      PROVE  CardGood'
  <2>1. ~failed
    BY <1>5 DEF Card!StopQueue, Card!FreeDevice
  <2>2. QED
    BY <1>5, <2>1, CardStop, CardFree DEF CardInv
<1>6. ASSUME NEW p \in Card!Packets, Card!Arrive(p)
      PROVE  CardGood'
  <2>1. ~failed
    BY <1>6 DEF Card!Arrive
  <2>2. QED
    BY <1>6, <2>1, CardArrive DEF CardInv
<1>7. CASE Card!RxTake \/ Card!RxDeliver \/ Card!CapsDown \/ Card!CapsUp
  <2>1. ~failed
    BY <1>7 DEF Card!RxTake, Card!RxDeliver, Card!CapsDown, Card!CapsUp
  <2>2. QED
    BY <1>7, <2>1, CardRxTake, CardDeliver, CardCapsDown, CardCapsUp DEF CardInv
<1>8. CASE Card!ReinitRelease \/ Card!ReinitAgain \/ Card!ReinitFails
  <2>1. ~failed /\ ~Card!ReinitFails
    BY <1>8 DEF Card!ReinitRelease, Card!ReinitAgain, Card!ReinitFails
  <2>2. QED
    BY <1>8, <2>1, CardRelease, CardAgain DEF CardInv
<1>9. Card!ToSet(Card!Devices) = {"sta", "ap"}
  BY DEF Card!ToSet, Card!Devices
<1>11. QED
  BY <1>1, <1>2, <1>3, <1>4, <1>5, <1>6, <1>7, <1>8, <1>9, <1>10 DEF Card!Next

\* An unload that no failure preceded gives everything back; and of all uses of what the
\* adapter names, only a transmission or the flow control between the two interfaces,
\* serial data copied while the rings are freed and, over SPI, a packet for an interface
\* that is being added may meet something that is not there, for any number of loads
\* and of packets and over both buses.
THEOREM HostCardSound == MCSpec => []CardSound
<1>1. MCInit => CardInv
  BY CardStart DEF MCInit
<1>2. CardInv /\ [MCNext]_<< part, vars, cardVars, slaveVars, writeVars >> => CardInv'
  <2> SUFFICES ASSUME CardInv, [MCNext]_<< part, vars, cardVars, slaveVars, writeVars >>
               PROVE  CardInv'
    OBVIOUS
  <2>1. [Card!Next]_cardVars
    BY DEF MCNext
  <2>2. QED
    BY <2>1, CardStep
<1>3. CardInv => CardSound
  BY CardUse
<1>4. QED
  BY <1>1, <1>2, <1>3, PTL DEF MCSpec
==============================================================================
