------------------------------ MODULE Sdio_proofs ------------------------------
(***************************************************************************)
(* Proofs about both directions of the SDIO link, for every value of the constants.  *)
(***************************************************************************)
EXTENDS MCSdio, FiniteSetTheorems, TLAPS

(***************************************************************************)
(* SdioTx, for every set of writers, every threshold, counter width and number of     *)
(* buffers.  The number of buffers that the host computes from the two wrapping        *)
(* counters is never more than the slave has loaded and the host's failed writes took; *)
(* when a reload makes the difference wrap between the reading and the write, there     *)
(* are buffers for the whole width of the counters.  The counters of packets are        *)
(* exact because every packet is, at every step, in the hands of one writer, in a queue  *)
(* or in the hands of the thread.                                                        *)
(***************************************************************************)

LEMMA ModSmall == ASSUME NEW n \in Nat \ {0}, NEW a \in 0 .. n - 1
                  PROVE  a % n = a
OBVIOUS

LEMMA ModLarge == ASSUME NEW n \in Nat \ {0}, NEW a \in n .. 2 * n - 1
                  PROVE  a % n = a - n
OBVIOUS

\* The next value of a counter, and the difference of two.
LEMMA Successor ==
    ASSUME NEW a \in 0 .. TokenMax - 1
    PROVE  (a + 1) % TokenMax = IF a + 1 = TokenMax THEN 0 ELSE a + 1
<1>1. TokenMax \in Nat \ {0}
  BY BuffersAssumption
<1>2. CASE a + 1 = TokenMax
  <2>1. a + 1 \in TokenMax .. 2 * TokenMax - 1
    BY <1>1, <1>2
  <2>2. QED
    BY <1>1, <1>2, <2>1, ModLarge
<1>3. CASE a + 1 # TokenMax
  <2>1. a + 1 \in 0 .. TokenMax - 1
    BY <1>1, <1>3
  <2>2. QED
    BY <1>1, <1>3, <2>1, ModSmall
<1>4. QED
  BY <1>2, <1>3

LEMMA Difference ==
    ASSUME NEW a \in 0 .. TokenMax - 1, NEW b \in 0 .. TokenMax - 1
    PROVE  (a + TokenMax - b) % TokenMax = IF a >= b THEN a - b ELSE a + TokenMax - b
<1>1. TokenMax \in Nat \ {0}
  BY BuffersAssumption
<1>2. CASE a >= b
  <2>1. a + TokenMax - b \in TokenMax .. 2 * TokenMax - 1
    BY <1>1, <1>2
  <2>2. QED
    BY <1>1, <1>2, <2>1, ModLarge
<1>3. CASE a < b
  <2>1. a + TokenMax - b \in 0 .. TokenMax - 1
    BY <1>1, <1>3
  <2>2. QED
    BY <1>1, <1>3, <2>1, ModSmall
<1>4. QED
  BY <1>2, <1>3

\* The ranges that the credits are about.
CreditTypes ==
    /\ buf_available \in Nat
    /\ tx_buffer_count \in 0 .. TokenMax - 1
    /\ token \in 0 .. TokenMax - 1
    /\ loaded \in 0 .. BufNum
    /\ uncounted \in Nat
    /\ misread \in BOOLEAN

\* What the host reads as its share is loaded or was taken by a write that failed.
\* While it writes that share is not empty, unless it has grown to the width of the
\* counter and shows as none.
CreditInv ==
    /\ CreditTypes
    /\ ~ misread => Available <= loaded + uncounted
    /\ (~ misread /\ tpc = "write") =>
          \/ Available >= 1
          \/ loaded + uncounted >= TokenMax

LEMMA CreditInit == Init => CreditInv
<1> SUFFICES ASSUME Init
             PROVE  CreditInv
  OBVIOUS
<1>1. /\ BufNum \in Nat /\ MaxBuf \in Nat /\ TokenMax \in Nat
      /\ MaxBuf <= BufNum /\ BufNum < TokenMax
  BY BuffersAssumption
<1>2. /\ token \in 0 .. TokenMax - 1
      /\ loaded = BufNum
      /\ tx_buffer_count = IF token >= MaxBuf THEN token - MaxBuf ELSE 0
      /\ buf_available = 0
      /\ uncounted = 0
      /\ tpc = "idle"
  BY Zenon DEF Init, ProbedCount
<1>3. misread \in BOOLEAN
  BY Zenon DEF Init
<1>4. CreditTypes
  BY <1>1, <1>2, <1>3 DEF CreditTypes
<1>5. Available <= loaded + uncounted
  BY <1>1, <1>2, Difference DEF Available
<1>6. QED
  BY <1>2, <1>4, <1>5 DEF CreditInv

LEMMA CreditStep == CreditInv /\ [Next]_vars => CreditInv'
<1> SUFFICES ASSUME CreditInv, [Next]_vars
             PROVE  CreditInv'
  OBVIOUS
<1>1. /\ BufNum \in Nat /\ MaxBuf \in Nat /\ TokenMax \in Nat
      /\ MaxBuf <= BufNum /\ BufNum < TokenMax
  BY BuffersAssumption
<1>2. /\ buf_available \in Nat
      /\ tx_buffer_count \in 0 .. TokenMax - 1
      /\ token \in 0 .. TokenMax - 1
      /\ loaded \in 0 .. BufNum
      /\ uncounted \in Nat
  BY DEF CreditInv, CreditTypes
<1>3. Available = IF token >= tx_buffer_count THEN token - tx_buffer_count
                  ELSE token + TokenMax - tx_buffer_count
  BY <1>2, Difference DEF Available
<1>4. Available \in Nat
  BY <1>1, <1>2, <1>3
\* The actions that leave the credits alone and do not enter the write.
<1>5. ASSUME UNCHANGED << buf_available, tx_buffer_count, misread, token, loaded,
                          uncounted >>,
             tpc' = "write" => tpc = "write"
      PROVE  CreditInv'
  <2>1. Available' = Available
    BY <1>5 DEF Available
  <2>2. QED
    BY <1>5, <2>1, Zenon DEF CreditInv, CreditTypes
<1>6. ASSUME NEW w \in Writers, Writer(w)
      PROVE  CreditInv'
  BY <1>5, <1>6, Zenon
  DEF Writer, Enter, Pause, IncPending, IncItems, Enqueue, thread, credit
<1>7. ASSUME NEW q \in Queues, Dequeue(q)
      PROVE  CreditInv'
  BY <1>5, <1>7, Zenon DEF Dequeue, credit
<1>8. CASE DecItems
  BY <1>5, <1>8, Zenon DEF DecItems, credit
<1>9. CASE DecPending
  BY <1>5, <1>9, Zenon DEF DecPending, credit
<1>10. CASE Decide
  <2>1. tpc' # "write"
    BY <1>10 DEF Decide
  <2>2. QED
    BY <1>5, <1>10, <2>1, Zenon DEF Decide, credit
<1>11. CASE Wake
  BY <1>5, <1>11, Zenon DEF Wake, credit
<1>12. CASE Ask
  <2>1. /\ NumberRead
        /\ UNCHANGED << tx_buffer_count, token, loaded, uncounted >>
    BY <1>12, Zenon DEF Ask, credit
  <2>2. tpc' = "write" => buf_available' >= 1
    BY <1>12 DEF Ask, BufNeeded
  <2>3. Available' = Available
    BY <2>1 DEF Available
  <2>4. CASE buf_available' = Available /\ UNCHANGED misread
    <3>1. CreditTypes'
      BY <1>2, <1>4, <2>1, <2>4 DEF CreditInv, CreditTypes
    <3>2. (~ misread') => Available' <= loaded' + uncounted'
      BY <2>1, <2>3, <2>4, Zenon DEF CreditInv
    <3>3. tpc' = "write" => Available' >= 1
      BY <2>2, <2>3, <2>4, Zenon
    <3>4. QED
      BY <3>1, <3>2, <3>3, Zenon DEF CreditInv
  <2>5. CASE buf_available' = buf_available /\ misread' = TRUE
    BY <2>1, <2>5, Zenon DEF CreditInv, CreditTypes
  <2>6. QED
    BY <2>1, <2>4, <2>5, Zenon DEF NumberRead
<1>13. ASSUME NEW ok \in BOOLEAN, NEW arrived \in BOOLEAN, Write(ok, arrived)
       PROVE  CreditInv'
  <2>1. /\ tpc = "write" /\ tpc' = "idle"
        /\ UNCHANGED << buf_available, misread, token >>
        /\ ok => arrived
        /\ tx_buffer_count' = CountAfter(ok)
        /\ IF arrived /\ loaded > 0
           THEN /\ loaded' = loaded - 1
                /\ IF ok THEN UNCHANGED uncounted
                   ELSE uncounted < MaxUncounted /\ uncounted' = uncounted + 1
           ELSE UNCHANGED << loaded, uncounted >>
    BY <1>13, Zenon DEF Write
  <2>2. tpc' # "write" /\ misread' = misread
    BY <2>1
  <2>3. CASE ~ ok
    <3>1. tx_buffer_count' = tx_buffer_count
      BY <2>1, <2>3, Zenon DEF CountAfter
    <3>2. /\ loaded' \in 0 .. BufNum
          /\ uncounted' \in Nat
          /\ loaded' + uncounted' = loaded + uncounted
      BY <1>1, <1>2, <2>1, <2>3
    <3>3. Available' = Available
      BY <2>1, <3>1 DEF Available
    <3>4. CreditTypes'
      BY <2>1, <3>1, <3>2 DEF CreditInv, CreditTypes
    <3>5. ~ misread => Available' <= loaded' + uncounted'
      BY <3>2, <3>3, Zenon DEF CreditInv
    <3>6. QED
      BY <2>2, <3>4, <3>5, Zenon DEF CreditInv
  <2>4. CASE ok
    <3>1. /\ tx_buffer_count' = (tx_buffer_count + 1) % TokenMax
          /\ loaded' = IF loaded > 0 THEN loaded - 1 ELSE loaded
          /\ uncounted' = uncounted
      BY <2>1, <2>4, Zenon DEF CountAfter, Used
    <3>2. tx_buffer_count' = IF tx_buffer_count + 1 = TokenMax THEN 0
                             ELSE tx_buffer_count + 1
      BY <1>2, <3>1, Successor
    <3>3. /\ tx_buffer_count' \in 0 .. TokenMax - 1
          /\ loaded' \in 0 .. BufNum
      BY <1>1, <1>2, <3>1, <3>2
    <3>4. CreditTypes'
      BY <2>1, <3>1, <3>3 DEF CreditInv, CreditTypes
    <3>5. token' = token
      BY <2>1
    <3>6. Available' = IF token >= tx_buffer_count' THEN token - tx_buffer_count'
                       ELSE token + TokenMax - tx_buffer_count'
      BY <1>2, <3>3, <3>5, Difference DEF Available
    <3>7. ASSUME ~ misread
          PROVE  Available' <= loaded' + uncounted'
      <4>1. /\ Available <= loaded + uncounted
            /\ Available >= 1 \/ loaded + uncounted >= TokenMax
        BY <2>1, <3>7, Zenon DEF CreditInv
      <4>2. Available' = IF Available >= 1 THEN Available - 1 ELSE TokenMax - 1
        BY <1>1, <1>2, <1>3, <3>2, <3>6
      <4>3. QED
        BY <1>1, <1>2, <1>4, <3>1, <4>1, <4>2
    <3>8. QED
      BY <2>2, <3>4, <3>7, Zenon DEF CreditInv
  <2>5. QED
    BY <2>3, <2>4
<1>14. CASE Reload
  <2>1. /\ loaded < BufNum /\ loaded' = loaded + 1
        /\ token' = (token + 1) % TokenMax
        /\ UNCHANGED << tpc, buf_available, tx_buffer_count, misread, uncounted >>
    BY <1>14, Zenon DEF Reload, thread
  <2>2. token' = IF token + 1 = TokenMax THEN 0 ELSE token + 1
    BY <1>2, <2>1, Successor
  <2>3. /\ token' \in 0 .. TokenMax - 1
        /\ loaded' \in 0 .. BufNum
    BY <1>1, <1>2, <2>1, <2>2
  <2>4. CreditTypes'
    BY <2>1, <2>3 DEF CreditInv, CreditTypes
  <2>5. tx_buffer_count' = tx_buffer_count /\ uncounted' = uncounted
    BY <2>1
  <2>6. Available' = IF token' >= tx_buffer_count THEN token' - tx_buffer_count
                     ELSE token' + TokenMax - tx_buffer_count
    BY <1>2, <2>3, <2>5, Difference DEF Available
  <2>7. Available' = IF Available = TokenMax - 1 THEN 0 ELSE Available + 1
    BY <1>1, <1>2, <1>3, <2>2, <2>6
  <2>8. ASSUME ~ misread
        PROVE  Available' <= loaded' + uncounted'
    <3>1. Available <= loaded + uncounted
      BY <2>8, Zenon DEF CreditInv
    <3>2. QED
      BY <1>1, <1>2, <1>4, <2>1, <2>5, <2>7, <3>1
  <2>9. ASSUME ~ misread, tpc = "write"
        PROVE  Available' >= 1 \/ loaded' + uncounted' >= TokenMax
    <3>1. /\ Available <= loaded + uncounted
          /\ Available >= 1 \/ loaded + uncounted >= TokenMax
      BY <2>9, Zenon DEF CreditInv
    <3>2. QED
      BY <1>1, <1>2, <1>4, <2>1, <2>5, <2>7, <3>1
  <2>10. UNCHANGED << tpc, misread >>
    BY <2>1
  <2>11. QED
    BY <2>4, <2>8, <2>9, <2>10, Zenon DEF CreditInv
<1>15. CASE UNCHANGED vars
  BY <1>5, <1>15, Zenon DEF vars, thread, credit
<1>16. QED
  BY <1>6, <1>7, <1>8, <1>9, <1>10, <1>11, <1>12, <1>13, <1>14, <1>15, Zenon
  DEF Next, TxThread

\* What the host takes for its share of the slave's buffers is loaded there, or was
\* taken by a write that failed.
THEOREM CreditInvariant == Spec => []CreditInv
<1>1. QED
  BY CreditInit, CreditStep, PTL DEF Spec

\* The host reckons with no more buffers than the slave has loaded and those its
\* failed writes took, and writes only on the strength of one of them: whatever the
\* counters' width and start, in any interleaving with the slave's reloading, until
\* a read of the counter itself has failed.
THEOREM WritesHaveBuffers == Spec => []CreditsSafe
<1>1. CreditInv => CreditsSafe
  <2> SUFFICES ASSUME CreditInv, ~ misread
               PROVE  /\ Available <= loaded + uncounted
                      /\ tpc = "write" => loaded + uncounted > 0
    BY DEF CreditsSafe
  <2>1. /\ tx_buffer_count \in 0 .. TokenMax - 1
        /\ token \in 0 .. TokenMax - 1
        /\ loaded \in 0 .. BufNum /\ uncounted \in Nat
        /\ TokenMax \in Nat /\ BufNum \in Nat /\ BufNum < TokenMax
    BY BuffersAssumption DEF CreditInv, CreditTypes
  <2>2. Available \in Int
    BY <2>1, Difference DEF Available
  <2>3. /\ Available <= loaded + uncounted
        /\ tpc = "write" => Available >= 1 \/ loaded + uncounted >= TokenMax
    BY Zenon DEF CreditInv
  <2>4. QED
    BY <2>1, <2>2, <2>3
<1>2. QED
  BY <1>1, CreditInvariant, PTL

-----------------------------------------------------------------------------
(* Counters of packets *)

WriterPC == {"idle", "pause", "inc", "items", "enqueue"}
ThreadPC == {"idle", "items", "pending", "decide", "wake", "claim", "write"}

CountTypes ==
    /\ wpc \in [Writers -> WriterPC]
    /\ tx_pending \in Nat
    /\ queue_items \in [Queues -> Nat] /\ tx_q \in [Queues -> Nat]
    /\ tpc \in ThreadPC /\ cur \in Queues

\* Writers with a packet that tx_pending counts, and that queue_items counts.
Holding == At({"items", "enqueue"})
Adding(q) == {w \in At({"enqueue"}) : QueueOf(w) = q}

\* A writer pauses the network devices only with the counter full, if the thread
\* cannot run meanwhile.
PauseFull == ~ smp => \A w \in Writers : wpc[w] = "pause" => tx_pending >= RESUME

\* Only the writers that have begun count, so that there may be any set of them.
CountInv ==
    /\ CountTypes /\ IsFiniteSet(Holding)
    /\ CountersExact
    /\ PauseFull /\ StoppedHasBacklog

LEMMA CountInit == Init => CountInv
<1> SUFFICES ASSUME Init
             PROVE  CountInv
  OBVIOUS
<1>1. /\ wpc = [w \in Writers |-> "idle"] /\ tx_pending = 0
      /\ queue_items = [q \in Queues |-> 0] /\ tx_q = [q \in Queues |-> 0]
      /\ tpc = "idle" /\ cur = "others" /\ stopped = FALSE
  BY Zenon DEF Init
<1>2. Holding = {} /\ \A q : Adding(q) = {}
  BY <1>1 DEF Holding, Adding, At
<1>3. IsFiniteSet(Holding) /\ Cardinality({}) = 0
  BY <1>2, FS_EmptySet
<1>4. CountersExact
  BY <1>1, <1>2, <1>3 DEF CountersExact, Holding, Adding, InHand, Queues
<1>5. QED
  BY <1>1, <1>3, <1>4 DEF CountInv, CountTypes, WriterPC, ThreadPC, Queues, PauseFull,
                          StoppedHasBacklog

LEMMA AddingFinite ==
    ASSUME IsFiniteSet(Holding), NEW q
    PROVE  /\ IsFiniteSet(Adding(q)) /\ Cardinality(Adding(q)) \in Nat
           /\ Cardinality(Holding) \in Nat
<1>1. Adding(q) \in SUBSET Holding
  BY DEF Adding, Holding, At
<1>2. IsFiniteSet(Adding(q))
  BY <1>1, FS_Subset
<1>3. QED
  BY <1>2, FS_CardinalityType

\* A step of one writer moves it in and out of the sets that count.
LEMMA OneMoves ==
    ASSUME wpc \in [Writers -> WriterPC], IsFiniteSet(Holding),
           NEW w \in Writers, NEW to \in WriterPC, Goto(w, to)
    PROVE  /\ IsFiniteSet(Holding)'
           /\ Cardinality(Holding)' = Cardinality(Holding)
                 + (IF to \in {"items", "enqueue"} THEN 1 ELSE 0)
                 - (IF wpc[w] \in {"items", "enqueue"} THEN 1 ELSE 0)
           /\ \A q \in Queues : Cardinality(Adding(q))' = Cardinality(Adding(q))
                 + (IF to = "enqueue" /\ QueueOf(w) = q THEN 1 ELSE 0)
                 - (IF wpc[w] = "enqueue" /\ QueueOf(w) = q THEN 1 ELSE 0)
<1>1. \A v \in Writers : wpc'[v] = IF v = w THEN to ELSE wpc[v]
  BY DEF Goto
<1>2. ASSUME NEW S, NEW T, IsFiniteSet(S),
             T = S \cup {w} \/ T = S \ {w}
      PROVE  /\ IsFiniteSet(T)
             /\ Cardinality(T) = Cardinality(S) + (IF w \in T THEN 1 ELSE 0)
                                                - (IF w \in S THEN 1 ELSE 0)
  <2>1. Cardinality(S) \in Nat
    BY <1>2, FS_CardinalityType
  <2>2. CASE T = S \cup {w}
    BY <1>2, <2>1, <2>2, FS_AddElement
  <2>3. CASE T = S \ {w}
    BY <1>2, <2>1, <2>3, FS_RemoveElement
  <2>4. QED
    BY <1>2, <2>2, <2>3
<1>3. /\ Holding' = Holding \cup {w} \/ Holding' = Holding \ {w}
      /\ w \in Holding <=> wpc[w] \in {"items", "enqueue"}
      /\ w \in Holding' <=> to \in {"items", "enqueue"}
  BY <1>1 DEF Holding, At
<1>4. IsFiniteSet(Holding') /\ Cardinality(Holding') = Cardinality(Holding)
                 + (IF w \in Holding' THEN 1 ELSE 0) - (IF w \in Holding THEN 1 ELSE 0)
  BY <1>2, <1>3
<1>5. ASSUME NEW q \in Queues
      PROVE  Cardinality(Adding(q)') = Cardinality(Adding(q))
                 + (IF to = "enqueue" /\ QueueOf(w) = q THEN 1 ELSE 0)
                 - (IF wpc[w] = "enqueue" /\ QueueOf(w) = q THEN 1 ELSE 0)
  <2>1. /\ Adding(q)' = Adding(q) \cup {w} \/ Adding(q)' = Adding(q) \ {w}
        /\ w \in Adding(q) <=> wpc[w] = "enqueue" /\ QueueOf(w) = q
        /\ w \in Adding(q)' <=> to = "enqueue" /\ QueueOf(w) = q
    BY <1>1 DEF Adding, At, QueueOf
  <2>2. IsFiniteSet(Adding(q))
    BY AddingFinite
  <2>3. Cardinality(Adding(q)') = Cardinality(Adding(q))
                 + (IF w \in Adding(q)' THEN 1 ELSE 0) - (IF w \in Adding(q) THEN 1 ELSE 0)
    BY <1>2, <2>1, <2>2
  <2>4. QED
    BY <2>1, <2>3
<1>6. QED
  BY <1>3, <1>4, <1>5

\* What CountersExact says, in these terms.
LEMMA ExactMeans ==
    CountersExact <=>
        /\ tx_pending = tx_q["bt"] + tx_q["others"] + Cardinality(Holding)
                          + InHand({"items", "pending"})
        /\ \A q \in Queues :
             queue_items[q] = tx_q[q] + Cardinality(Adding(q))
                                + (IF cur = q THEN InHand({"items"}) ELSE 0)
  BY DEF CountersExact, Holding, Adding

LEMMA CountStep == CountInv /\ [Next]_vars => CountInv'
<1> SUFFICES ASSUME CountInv, [Next]_vars
             PROVE  CountInv'
  OBVIOUS
<1>c. /\ wpc \in [Writers -> WriterPC] /\ IsFiniteSet(Holding)
      /\ tx_pending \in Nat
      /\ queue_items \in [Queues -> Nat] /\ tx_q \in [Queues -> Nat]
      /\ tpc \in ThreadPC /\ cur \in Queues
      /\ Cardinality(Holding) \in Nat
      /\ \A q \in Queues : Cardinality(Adding(q)) \in Nat
  BY AddingFinite DEF CountInv, CountTypes
<1>x. /\ tx_pending = tx_q["bt"] + tx_q["others"] + Cardinality(Holding)
                        + InHand({"items", "pending"})
      /\ \A q \in Queues :
           queue_items[q] = tx_q[q] + Cardinality(Adding(q))
                              + (IF cur = q THEN InHand({"items"}) ELSE 0)
  BY ExactMeans DEF CountInv
<1>l. MAX \in Nat /\ RESUME \in Nat /\ RESUME <= MAX
  BY LimitsAssumption
\* What a step has to show, with the writers where they were or one of them moved.
<1> DEFINE Keeps == /\ CountTypes' /\ PauseFull' /\ StoppedHasBacklog'
                    /\ tx_pending' = tx_q'["bt"] + tx_q'["others"] + Cardinality(Holding)'
                                       + InHand({"items", "pending"})'
                    /\ \A q \in Queues :
                         queue_items'[q] = tx_q'[q] + Cardinality(Adding(q))'
                                            + (IF cur' = q THEN InHand({"items"})' ELSE 0)
<1>k. ASSUME Keeps, IsFiniteSet(Holding)'
      PROVE  CountInv'
  <2>1. CountersExact'
    BY <1>k DEF CountersExact, Holding, Adding
  <2>2. QED
    BY <1>k, <2>1 DEF CountInv
<1>n. ASSUME UNCHANGED wpc
      PROVE  /\ Holding' = Holding /\ \A q : Adding(q)' = Adding(q)
             /\ IsFiniteSet(Holding)'
  BY <1>c, <1>n DEF Holding, Adding, At
<1>q. /\ Queues = {"bt", "others"} /\ "bt" \in Queues /\ "others" \in Queues
      /\ \A w : QueueOf(w) \in Queues
  BY DEF Queues, QueueOf
<1>1. ASSUME NEW w \in Writers, Enter(w)
      PROVE  CountInv'
  <2>1. /\ wpc[w] = "idle"
        /\ \/ tx_pending >= MAX /\ Goto(w, "pause")
           \/ Goto(w, "inc")
        /\ UNCHANGED << smp, stopped, tx_pending, queue_items, tx_q, tpc, cur >>
    BY <1>1, Zenon DEF Enter, counts, thread
  <2>2. PICK to \in {"pause", "inc"} : Goto(w, to) /\ (to = "pause" => tx_pending >= MAX)
    BY <2>1
  <2>3. /\ IsFiniteSet(Holding)' /\ Cardinality(Holding)' = Cardinality(Holding)
        /\ \A q \in Queues : Cardinality(Adding(q))' = Cardinality(Adding(q))
    BY <1>c, <2>1, <2>2, OneMoves DEF WriterPC
  <2>4. PauseFull' /\ StoppedHasBacklog'
    BY <1>c, <1>l, <2>1, <2>2 DEF CountInv, PauseFull, StoppedHasBacklog, Goto
  <2>5. CountTypes'
    BY <1>c, <2>1, <2>2 DEF CountTypes, Goto, WriterPC
  <2>6. Keeps
    BY <1>x, <2>1, <2>3, <2>4, <2>5 DEF InHand
  <2>7. QED
    BY <1>k, <2>3, <2>6
<1>2. ASSUME NEW w \in Writers, Pause(w)
      PROVE  CountInv'
  <2>1. /\ wpc[w] = "pause" /\ Goto(w, "idle")
        /\ UNCHANGED << smp, tx_pending, queue_items, tx_q, tpc, cur >>
    BY <1>2, Zenon DEF Pause, counts, thread
  <2>2. /\ IsFiniteSet(Holding)' /\ Cardinality(Holding)' = Cardinality(Holding)
        /\ \A q \in Queues : Cardinality(Adding(q))' = Cardinality(Adding(q))
    BY <1>c, <2>1, OneMoves DEF WriterPC
  <2>3. PauseFull' /\ StoppedHasBacklog'
    BY <1>c, <2>1 DEF CountInv, PauseFull, StoppedHasBacklog, Goto
  <2>4. CountTypes'
    BY <1>c, <2>1 DEF CountTypes, Goto, WriterPC
  <2>5. Keeps
    BY <1>x, <2>1, <2>2, <2>3, <2>4 DEF InHand
  <2>6. QED
    BY <1>k, <2>2, <2>5
<1>3. ASSUME NEW w \in Writers, IncPending(w)
      PROVE  CountInv'
  <2>1. /\ wpc[w] = "inc" /\ Goto(w, "items") /\ tx_pending' = tx_pending + 1
        /\ UNCHANGED << smp, stopped, queue_items, tx_q, tpc, cur >>
    BY <1>3, Zenon DEF IncPending, thread
  <2>2. /\ IsFiniteSet(Holding)' /\ Cardinality(Holding)' = Cardinality(Holding) + 1
        /\ \A q \in Queues : Cardinality(Adding(q))' = Cardinality(Adding(q))
    BY <1>c, <2>1, OneMoves DEF WriterPC
  <2>3. PauseFull' /\ StoppedHasBacklog'
    BY <1>c, <1>l, <2>1 DEF CountInv, PauseFull, StoppedHasBacklog, Goto
  <2>4. CountTypes'
    BY <1>c, <2>1 DEF CountTypes, Goto, WriterPC
  <2>5. Keeps
    BY <1>c, <1>q, <1>x, <2>1, <2>2, <2>3, <2>4 DEF InHand
  <2>6. QED
    BY <1>k, <2>2, <2>5
<1>4. ASSUME NEW w \in Writers, IncItems(w)
      PROVE  CountInv'
  <2>1. /\ wpc[w] = "items" /\ Goto(w, "enqueue")
        /\ queue_items' = [queue_items EXCEPT ![QueueOf(w)] = @ + 1]
        /\ UNCHANGED << smp, stopped, tx_pending, tx_q, tpc, cur >>
    BY <1>4, Zenon DEF IncItems, thread
  <2>2. /\ IsFiniteSet(Holding)' /\ Cardinality(Holding)' = Cardinality(Holding)
        /\ \A q \in Queues : Cardinality(Adding(q))'
                               = Cardinality(Adding(q)) + (IF QueueOf(w) = q THEN 1 ELSE 0)
    BY <1>c, <2>1, OneMoves DEF WriterPC
  <2>3. PauseFull' /\ StoppedHasBacklog'
    BY <1>c, <2>1 DEF CountInv, PauseFull, StoppedHasBacklog, Goto
  <2>4. CountTypes'
    BY <1>c, <1>q, <2>1 DEF CountTypes, Goto, WriterPC
  <2>5. Keeps
    BY <1>c, <1>q, <1>x, <2>1, <2>2, <2>3, <2>4 DEF InHand
  <2>6. QED
    BY <1>k, <2>2, <2>5
<1>5. ASSUME NEW w \in Writers, Enqueue(w)
      PROVE  CountInv'
  <2>1. /\ wpc[w] = "enqueue" /\ Goto(w, "idle")
        /\ tx_q' = [tx_q EXCEPT ![QueueOf(w)] = @ + 1]
        /\ UNCHANGED << smp, stopped, tx_pending, queue_items, tpc, cur >>
    BY <1>5, Zenon DEF Enqueue, thread
  <2>2. /\ IsFiniteSet(Holding)' /\ Cardinality(Holding)' = Cardinality(Holding) - 1
        /\ \A q \in Queues : Cardinality(Adding(q))'
                               = Cardinality(Adding(q)) - (IF QueueOf(w) = q THEN 1 ELSE 0)
    BY <1>c, <2>1, OneMoves DEF WriterPC
  <2>3. PauseFull' /\ StoppedHasBacklog'
    BY <1>c, <2>1 DEF CountInv, PauseFull, StoppedHasBacklog, Goto
  <2>4. CountTypes'
    BY <1>c, <1>q, <2>1 DEF CountTypes, Goto, WriterPC
  <2>5. Keeps
    BY <1>c, <1>q, <1>x, <2>1, <2>2, <2>3, <2>4 DEF InHand
  <2>6. QED
    BY <1>k, <2>2, <2>5
<1>6. ASSUME NEW q \in Queues, Dequeue(q)
      PROVE  CountInv'
  <2>1. /\ tpc = "idle" /\ tx_q[q] > 0 /\ tx_q' = [tx_q EXCEPT ![q] = @ - 1]
        /\ cur' = q /\ tpc' = "items"
        /\ UNCHANGED << smp, wpc, stopped, tx_pending, queue_items >>
    BY <1>6, Zenon DEF Dequeue, writer
  <2>2. PauseFull' /\ StoppedHasBacklog'
    BY <2>1 DEF CountInv, PauseFull, StoppedHasBacklog
  <2>3. CountTypes'
    BY <1>c, <2>1 DEF CountTypes, ThreadPC
  <2>4. Keeps
    BY <1>c, <1>n, <1>q, <1>x, <2>1, <2>2, <2>3 DEF InHand
  <2>5. QED
    BY <1>k, <1>n, <2>1, <2>4
<1>7. CASE DecItems
  <2>1. /\ tpc = "items" /\ queue_items' = [queue_items EXCEPT ![cur] = @ - 1]
        /\ tpc' = "pending"
        /\ UNCHANGED << smp, wpc, stopped, tx_pending, tx_q, cur >>
    BY <1>7, Zenon DEF DecItems, writer
  <2>2. PauseFull' /\ StoppedHasBacklog'
    BY <2>1 DEF CountInv, PauseFull, StoppedHasBacklog
  <2>3. queue_items[cur] > 0
    BY <1>c, <1>x, <2>1 DEF InHand
  <2>4. CountTypes'
    BY <1>c, <2>1, <2>3 DEF CountTypes, ThreadPC
  <2>5. Keeps
    BY <1>c, <1>n, <1>q, <1>x, <2>1, <2>2, <2>4 DEF InHand
  <2>6. QED
    BY <1>k, <1>n, <2>1, <2>5
\* Where writers wait for the thread, it finds nobody pausing.
<1>w. ThreadMayRun => smp \/ \A w \in Writers : wpc[w] = "idle"
  BY DEF ThreadMayRun
<1>8. CASE DecPending
  <2>1. /\ ThreadMayRun /\ tpc = "pending" /\ tpc' = "decide"
        /\ tx_pending' = IF tx_pending > 0 THEN tx_pending - 1 ELSE 0
        /\ UNCHANGED << smp, wpc, stopped, queue_items, tx_q, cur >>
    BY <1>8, Zenon DEF DecPending, writer
  <2>2. PauseFull' /\ StoppedHasBacklog'
    BY <1>w, <2>1 DEF PauseFull, StoppedHasBacklog
  <2>3. tx_pending > 0
    BY <1>c, <1>q, <1>x, <2>1 DEF InHand
  <2>4. CountTypes'
    BY <1>c, <2>1, <2>3 DEF CountTypes, ThreadPC
  <2>5. Keeps
    BY <1>c, <1>n, <1>q, <1>x, <2>1, <2>2, <2>3, <2>4 DEF InHand
  <2>6. QED
    BY <1>k, <1>n, <2>1, <2>5
\* The other steps of the thread leave the counters alone.
<1>9. ASSUME UNCHANGED << smp, wpc, tx_pending, queue_items, tx_q, cur >>,
             StoppedHasBacklog', tpc' \in ThreadPC,
             tpc' \in {"items", "pending"} => tpc' = tpc,
             tpc \in {"items", "pending"} => tpc' = tpc
      PROVE  CountInv'
  <2>1. PauseFull' /\ CountTypes'
    BY <1>c, <1>9 DEF CountInv, PauseFull, CountTypes
  <2>2. Keeps
    BY <1>n, <1>x, <1>9, <2>1 DEF InHand
  <2>3. QED
    BY <1>k, <1>n, <1>9, <2>2
<1>10. CASE Decide
  <2>1. /\ tpc = "decide" /\ tpc' = IF tx_pending < RESUME THEN "wake" ELSE "claim"
        /\ UNCHANGED << smp, wpc, stopped, tx_pending, queue_items, tx_q, cur >>
    BY <1>10, Zenon DEF Decide, BelowResume, writer, counts
  <2>2. StoppedHasBacklog'
    BY <1>c, <1>l, <2>1 DEF StoppedHasBacklog
  <2>3. QED
    BY <1>9, <2>1, <2>2 DEF ThreadPC
<1>11. CASE Wake
  <2>1. /\ tpc = "wake" /\ tpc' = "claim" /\ stopped' = FALSE
        /\ UNCHANGED << smp, wpc, tx_pending, queue_items, tx_q, cur >>
    BY <1>11, Zenon DEF Wake, counts
  <2>2. QED
    BY <1>9, <2>1 DEF ThreadPC, StoppedHasBacklog
<1>12. CASE Ask \/ \E ok, arrived \in BOOLEAN : Write(ok, arrived)
  <2>1. /\ tpc \in {"claim", "write"} /\ tpc' \in {"write", "idle", "claim"}
        /\ UNCHANGED << smp, wpc, stopped, tx_pending, queue_items, tx_q, cur >>
    BY <1>12, Zenon DEF Ask, Write, writer, counts
  <2>2. QED
    BY <1>9, <2>1 DEF ThreadPC, CountInv, StoppedHasBacklog
<1>13. CASE Reload \/ UNCHANGED vars
  <2>1. UNCHANGED << smp, wpc, stopped, tx_pending, queue_items, tx_q, tpc, cur >>
    BY <1>13, Zenon DEF Reload, vars, writer, counts, thread
  <2>2. QED
    BY <1>c, <1>9, <2>1 DEF CountInv, StoppedHasBacklog
<1>14. QED
  BY <1>1, <1>2, <1>3, <1>4, <1>5, <1>6, <1>7, <1>8, <1>10, <1>11, <1>12, <1>13, Zenon
  DEF Next, TxThread, Writer

\* tx_pending and queue_items count every packet that write_packet has begun and tx_process
\* has not taken, in every interleaving and for any set of writers, and stopped network
\* queues have a backlog that wakes them where the writers are not interleaved with the thread.
THEOREM CountersAreSound == Spec => []CountersSound
<1>1. CountInv => CountersSound
  BY DEF CountInv, CountersSound
<1>2. QED
  BY <1>1, CountInit, CountStep, PTL DEF Spec

(***************************************************************************)
(* SdioRx, for every counter width, block size and set of packet lengths.  The slave's  *)
(* counter is ahead of the host's by exactly the bytes that the host has not read; the  *)
(* proof is about what that says of counters that wrap.                            *)
(***************************************************************************)

LEMMA ModRange == ASSUME NEW n \in Nat \ {0}, NEW a \in Nat
                  PROVE  a % n \in 0 .. n - 1
OBVIOUS

\* The sum of a counter and a length less than its width.
LEMMA Plus ==
    ASSUME Rx!BytesAssumption, NEW a \in 0 .. ByteMax - 1, NEW s \in 0 .. ByteMax - 1
    PROVE  (a + s) % ByteMax = IF a + s >= ByteMax THEN a + s - ByteMax ELSE a + s
<1>1. ByteMax \in Nat \ {0}
  BY DEF Rx!BytesAssumption
<1>2. CASE a + s >= ByteMax
  <2>1. a + s \in ByteMax .. 2 * ByteMax - 1
    BY <1>1, <1>2
  <2>2. QED
    BY <1>1, <1>2, <2>1, ModLarge
<1>3. CASE a + s < ByteMax
  <2>1. a + s \in 0 .. ByteMax - 1
    BY <1>1, <1>3
  <2>2. QED
    BY <1>1, <1>3, <2>1, ModSmall
<1>4. QED
  BY <1>1, <1>2, <1>3

\* The slave is ahead of the host by what has not been read.
Ahead == IF rx_byte_count + unread >= ByteMax
         THEN len_reg = rx_byte_count + unread - ByteMax
         ELSE len_reg = rx_byte_count + unread

RxInv ==
    /\ Rx!TypeOK
    /\ rpc = "read" => data_left > 0
    /\ ~ rxfail => Ahead /\ (rpc = "read" => data_left = unread)

\* What esp_get_len_from_slave computes.
LEMMA LenValue ==
    ASSUME Rx!BytesAssumption, Rx!TypeOK
    PROVE  /\ Rx!LenFromSlave = IF len_reg >= rx_byte_count THEN len_reg - rx_byte_count
                             ELSE ByteMax - rx_byte_count + len_reg
           /\ Rx!LenFromSlave \in 0 .. ByteMax - 1
           /\ Ahead => Rx!LenFromSlave = unread
<1>1. /\ ByteMax \in Nat \ {0}
      /\ len_reg \in 0 .. ByteMax - 1
      /\ rx_byte_count \in 0 .. ByteMax - 1
      /\ unread \in 0 .. ByteMax - 1
  BY DEF Rx!BytesAssumption, Rx!TypeOK
<1>2. ASSUME len_reg >= rx_byte_count
      PROVE  (len_reg + ByteMax - rx_byte_count) % ByteMax = len_reg - rx_byte_count
  <2>1. len_reg + ByteMax - rx_byte_count \in ByteMax .. 2 * ByteMax - 1
    BY <1>1, <1>2
  <2>2. QED
    BY <1>1, <2>1, ModLarge
<1>3. Rx!LenFromSlave = IF len_reg >= rx_byte_count THEN len_reg - rx_byte_count
                     ELSE ByteMax - rx_byte_count + len_reg
  BY <1>1, <1>2 DEF Rx!LenFromSlave
<1>4. QED
  BY <1>1, <1>3 DEF Ahead

\* A read takes at least one byte and at most what is left.
LEMMA ChunkValue ==
    ASSUME Rx!BytesAssumption, Rx!TypeOK, data_left > 0
    PROVE  Rx!Chunk \in 1 .. data_left
<1>1. /\ Block \in Nat \ {0}
      /\ data_left \in Nat
  BY DEF Rx!BytesAssumption, Rx!TypeOK
<1>2. data_left % Block \in 0 .. Block - 1
  BY <1>1, ModRange
<1>3. QED
  BY <1>1, <1>2 DEF Rx!Chunk

LEMMA RxInit == ASSUME Rx!BytesAssumption, Rx!Init PROVE RxInv
<1>1. ByteMax \in Nat \ {0}
  BY DEF Rx!Init, Rx!BytesAssumption
<1>2. rx_work \in BOOLEAN /\ rxfail \in BOOLEAN /\ int_st \in BOOLEAN
  BY Zenon DEF Rx!Init
<1>3. QED
  BY <1>1, <1>2 DEF Rx!Init, RxInv, Rx!TypeOK, Ahead

LEMMA RxStep ==
    ASSUME Rx!BytesAssumption, RxInv, [Rx!Next]_rxVars
    PROVE  RxInv'
<1>1. /\ ByteMax \in Nat \ {0}
      /\ len_reg \in 0 .. ByteMax - 1
      /\ rx_byte_count \in 0 .. ByteMax - 1
      /\ unread \in 0 .. ByteMax - 1
      /\ data_left \in 0 .. ByteMax - 1
  BY DEF Rx!BytesAssumption, RxInv, Rx!TypeOK
<1>2. ASSUME NEW s \in Sizes, Rx!Transmit(s)
      PROVE  RxInv'
  <2>1. s \in 1 .. ByteMax - 1
    BY DEF Rx!BytesAssumption
  <2>2. /\ unread = 0 /\ unread' = s
        /\ len_reg' = (len_reg + s) % ByteMax
        /\ UNCHANGED << lock, ipc, rx_work, rpc, data_left, rx_byte_count, rxfail >>
        /\ int_st' \in BOOLEAN
    BY <1>2, Zenon DEF Rx!Transmit, Rx!reading
  <2>3. len_reg' = IF len_reg + s >= ByteMax THEN len_reg + s - ByteMax ELSE len_reg + s
    BY <1>1, <2>1, <2>2, Plus
  <2>4. ~ rxfail => len_reg = rx_byte_count /\ rpc # "read"
    BY <1>1, <2>2 DEF RxInv, Ahead
  <2>5. len_reg' \in 0 .. ByteMax - 1
    BY <1>1, <2>1, <2>3
  <2>6. Rx!TypeOK'
    BY <1>1, <2>1, <2>2, <2>5 DEF RxInv, Rx!TypeOK
  <2>7. ~ rxfail => Ahead'
    BY <1>1, <2>1, <2>2, <2>3, <2>4 DEF Ahead
  <2>8. QED
    BY <2>2, <2>4, <2>6, <2>7 DEF RxInv
\* The actions that leave the counters alone.
<1>3. ASSUME UNCHANGED << data_left, rx_byte_count, rxfail, unread, len_reg >>,
             lock' \in {"free", "isr", "rx", "tx"}, ipc' \in {"idle", "clear"},
             rpc' \in {"idle", "claim", "read", "deliver"},
             rpc' = "read" => rpc = "read",
             rx_work' \in BOOLEAN, int_st' \in BOOLEAN
      PROVE  RxInv'
  <2>1. Rx!TypeOK'
    BY <1>3 DEF RxInv, Rx!TypeOK
  <2>2. Ahead' <=> Ahead
    BY <1>3 DEF Ahead
  <2>3. QED
    BY <1>3, <2>1, <2>2, Zenon DEF RxInv
<1>4. CASE Rx!OtherClaims
  BY <1>3, <1>4, Zenon DEF Rx!OtherClaims, RxInv, Rx!TypeOK, Rx!reading, Rx!slave
<1>5. CASE Rx!OtherReleases
  BY <1>3, <1>5, Zenon DEF Rx!OtherReleases, RxInv, Rx!TypeOK, Rx!reading, Rx!slave
<1>6. CASE Rx!Isr
  BY <1>3, <1>6, Zenon DEF Rx!Isr, Rx!RxQueued, RxInv, Rx!TypeOK, Rx!reading, Rx!slave
<1>7. CASE Rx!IsrClears
  BY <1>3, <1>7, Zenon DEF Rx!IsrClears, RxInv, Rx!TypeOK, Rx!reading
<1>8. CASE Rx!StartRx
  BY <1>3, <1>8, Zenon DEF Rx!StartRx, RxInv, Rx!TypeOK, Rx!slave
<1>9. CASE Rx!Deliver
  BY <1>3, <1>9, Zenon DEF Rx!Deliver, RxInv, Rx!TypeOK, Rx!slave
<1>10. CASE Rx!ReadLen
  <2>1. /\ data_left' = Rx!LenFromSlave
        /\ rpc' = "read" => Rx!LenFromSlave # 0
        /\ rpc' \in {"idle", "read"}
        /\ lock' \in {"free", "rx"}
        /\ UNCHANGED << ipc, rx_work, rx_byte_count, rxfail, unread, len_reg, int_st >>
    BY <1>10, Zenon DEF Rx!ReadLen, Rx!slave
  <2>2. /\ Rx!LenFromSlave \in 0 .. ByteMax - 1
        /\ Ahead => Rx!LenFromSlave = unread
    BY LenValue DEF RxInv
  <2>3. Rx!TypeOK'
    BY <2>1, <2>2 DEF RxInv, Rx!TypeOK
  <2>4. Ahead' <=> Ahead
    BY <2>1 DEF Ahead
  <2>5. rpc' = "read" => data_left' > 0
    BY <1>1, <2>1, <2>2
  <2>6. QED
    BY <2>1, <2>2, <2>3, <2>4, <2>5, Zenon DEF RxInv
<1>11. CASE Rx!ReadChunk
  <2>1. /\ rpc = "read"
        /\ data_left' = data_left - Rx!Chunk
        /\ rx_byte_count' = (rx_byte_count + Rx!Chunk) % ByteMax
        /\ unread' = IF Rx!Chunk <= unread THEN unread - Rx!Chunk ELSE 0
        /\ data_left' # 0 => rpc' = "read" /\ lock' = lock
        /\ data_left' = 0 => rpc' = "deliver" /\ lock' = "free"
        /\ UNCHANGED << ipc, rx_work, rxfail, len_reg, int_st >>
    BY <1>11, Zenon DEF Rx!ReadChunk, Rx!Counted, Rx!ReadByHost
  <2>2. data_left > 0 /\ Rx!Chunk \in 1 .. data_left
    BY <2>1, ChunkValue DEF RxInv
  <2>3. rx_byte_count' = IF rx_byte_count + Rx!Chunk >= ByteMax
                         THEN rx_byte_count + Rx!Chunk - ByteMax ELSE rx_byte_count + Rx!Chunk
    BY <1>1, <2>1, <2>2, Plus
  <2>4. /\ rx_byte_count' \in 0 .. ByteMax - 1
        /\ unread' \in 0 .. ByteMax - 1
        /\ data_left' \in 0 .. ByteMax - 1
    BY <1>1, <2>1, <2>2, <2>3
  <2>5. rpc' \in {"deliver", "read"} /\ (lock' = lock \/ lock' = "free")
    BY <2>1, Zenon
  <2>6. Rx!TypeOK'
    BY <2>1, <2>4, <2>5 DEF RxInv, Rx!TypeOK
  <2>7. rpc' = "read" => data_left' > 0
    BY <1>1, <2>1, <2>4
  <2>8. ~ rxfail => Ahead' /\ data_left' = unread'
    <3> SUFFICES ASSUME ~ rxfail
                 PROVE  Ahead' /\ data_left' = unread'
      OBVIOUS
    <3>1. data_left = unread /\ Ahead
      BY <2>1 DEF RxInv
    <3>2. len_reg' = len_reg
      BY <2>1
    <3>3. QED
      BY <1>1, <2>1, <2>2, <2>3, <3>1, <3>2 DEF Ahead
  <2>9. QED
    BY <2>1, <2>6, <2>7, <2>8 DEF RxInv
<1>12. CASE Rx!ReadFails
  <2>1. /\ rxfail' = TRUE /\ rpc' = "idle" /\ lock' = "free" /\ data_left' = 0
        /\ unread' = unread \/ unread' = (IF Rx!Chunk <= unread THEN unread - Rx!Chunk ELSE 0)
        /\ UNCHANGED << ipc, rx_work, rx_byte_count, len_reg, int_st >>
        /\ data_left > 0
    <3>1. rpc = "read" /\ unread' \in {unread, Rx!ReadByHost}
      BY <1>12, Zenon DEF Rx!ReadFails
    <3>2. QED
      BY <1>12, <3>1, Zenon DEF Rx!ReadFails, Rx!ReadByHost, RxInv
  <2>2. Rx!Chunk \in 1 .. data_left
    BY <2>1, ChunkValue DEF RxInv
  <2>3. unread' \in 0 .. ByteMax - 1
    BY <1>1, <2>1, <2>2
  <2>4. Rx!TypeOK'
    BY <1>1, <2>1, <2>3 DEF RxInv, Rx!TypeOK
  <2>5. QED
    BY <2>1, <2>4, Zenon DEF RxInv
<1>13. CASE UNCHANGED rxVars
  BY <1>3, <1>13, Zenon DEF rxVars, RxInv, Rx!TypeOK, Rx!reading, Rx!slave
<1>14. QED
  BY <1>2, <1>4, <1>5, <1>6, <1>7, <1>8, <1>9, <1>10, <1>11, <1>12, <1>13
  DEF Rx!Next, Rx!RxWork

\* The inductive invariant holds, for every width that BytesAssumption admits.
THEOREM RxInvariant == Rx!Spec => []RxInv
<1>1. Rx!Init => RxInv
  BY RxInit, MCBytesAssumption
<1>2. RxInv /\ [Rx!Next]_(Rx!vars) => RxInv'
  BY RxStep, MCBytesAssumption DEF rxVars, Rx!vars, Rx!reading, Rx!slave
<1>3. QED
  BY <1>1, <1>2, PTL DEF Rx!Spec

\* The host never takes a byte for another packet's and never misses one: what
\* esp_get_len_from_slave returns is what the slave has left to be read, for
\* every width of the counters and every length of a packet.
THEOREM ReadsAreWhole == Rx!Spec => []Rx!ReadsMatch
<1>1. RxInv => Rx!ReadsMatch
  BY LenValue, MCBytesAssumption, Zenon DEF RxInv, Rx!ReadsMatch
<1>2. QED
  BY <1>1, RxInvariant, PTL

\* The same of the composition of both directions.
THEOREM SdioReadsAreWhole == MCSpec => []ReadsMatch
<1>1. MCInit => RxInv
  BY RxInit, MCBytesAssumption DEF MCInit
<1>2. [MCNext]_allVars => [Rx!Next]_rxVars
  BY DEF MCNext, TxMoves, RxMoves, allVars, vars, rxVars
<1>3. RxInv /\ [Rx!Next]_rxVars => RxInv'
  BY RxStep, MCBytesAssumption
<1>4. RxInv => ReadsMatch
  BY LenValue, MCBytesAssumption, Zenon DEF RxInv, Rx!ReadsMatch, ReadsMatch
<1>5. QED
  BY <1>1, <1>2, <1>3, <1>4, PTL DEF MCSpec
=============================================================================
