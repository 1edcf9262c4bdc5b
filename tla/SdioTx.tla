------------------------------- MODULE SdioTx -------------------------------
(***************************************************************************)
(* The host's transmit path over SDIO: write_packet and the thread tx_process *)
(* (sdio/esp_sdio.c), and the receive buffers of the slave (sdio_slave_api.c), *)
(* which it grants by a counter that wraps (TOKEN_RDATA).  A packet needs one  *)
(* buffer: write_packet refuses longer ones.  The bus is claimed from the      *)
(* reading of the counter to the end of the write; who else uses the bus        *)
(* (SdioRx) delays the thread and touches none of its state.                   *)
(***************************************************************************)
EXTENDS Integers, FiniteSets

CONSTANTS
    NetDevs,     \* network devices: esp_tx_pause stops them
    HciUsers,    \* writers of HCI frames, which nothing stops
    MAX,         \* TX_MAX_PENDING_COUNT
    RESUME,      \* TX_RESUME_THRESHOLD
    TokenMax,    \* ESP_TX_BUFFER_MAX
    MaxBuf,      \* ESP_MAX_BUF_CNT, the buffers the host reckons with
    BufNum,      \* BUFFER_NUM, the buffers the slave has
    MaxUncounted \* bound on the failed writes that took a buffer

ASSUME LimitsAssumption == MAX \in Nat /\ RESUME \in Nat /\ RESUME <= MAX
ASSUME BuffersAssumption ==
    /\ BufNum \in Nat /\ MaxBuf \in Nat /\ TokenMax \in Nat
    /\ MaxBuf <= BufNum /\ BufNum < TokenMax
    /\ MaxUncounted \in Nat
ASSUME WritersAssumption == NetDevs \cap HciUsers = {}

Writers == NetDevs \cup HciUsers
Queues  == {"bt", "others"}          \* PRIO_Q_BT, PRIO_Q_OTHERS
QueueOf(w) == IF w \in HciUsers THEN "bt" ELSE "others"
Retries == 2                         \* MAX_WRITE_RETRIES

VARIABLES
    smp,          \* several CPUs, or a kernel that preempts a writer: writers
                  \* run beside the transmit thread
    wpc,          \* write_packet of each writer
    tx_pending, queue_items, tx_q,
    stopped,      \* the network queues are stopped
    tpc, cur, retry,            \* tx_process: queue of its packet, retries left
    buf_available, tx_buffer_count,
    misread,      \* a read of TOKEN_RDATA has failed (history)
    token,        \* TOKEN_RDATA
    loaded,       \* receive buffers the slave has loaded
    uncounted     \* writes that failed for the host and took a buffer (history)

writer == << wpc, stopped >>
counts == << tx_pending, queue_items, tx_q >>
thread == << tpc, cur, retry, buf_available, tx_buffer_count, misread >>
credit == << token, loaded, uncounted >>
vars == << smp, writer, counts, thread, credit >>

\* init_context: tx_buffer_count from the register, which is anywhere in its
\* range when the driver is loaded again without a reset of the ESP32.
ProbedCount(val) == IF val >= MaxBuf THEN val - MaxBuf ELSE 0

Init ==
    /\ smp \in BOOLEAN
    /\ wpc = [w \in Writers |-> "idle"] /\ stopped = FALSE
    /\ tx_pending = 0
    /\ queue_items = [q \in Queues |-> 0] /\ tx_q = [q \in Queues |-> 0]
    /\ tpc = "idle" /\ cur = "others" /\ retry = 0
    /\ token \in 0 .. TokenMax - 1 /\ loaded = BufNum
    /\ tx_buffer_count = ProbedCount(token)
    /\ buf_available = 0 /\ misread = FALSE /\ uncounted = 0

-----------------------------------------------------------------------------
(* write_packet *)

Goto(w, pc) == wpc' = [wpc EXCEPT ![w] = pc]

\* esp_hard_start_xmit refuses while the network queues are stopped.
Enter(w) ==
    /\ wpc[w] = "idle"
    /\ w \in NetDevs => ~ stopped
    /\ Goto(w, IF tx_pending >= MAX THEN "pause" ELSE "inc")
    /\ UNCHANGED << smp, stopped, counts, thread, credit >>

Pause(w) ==
    /\ wpc[w] = "pause"
    /\ stopped' = TRUE
    /\ Goto(w, "idle")
    /\ UNCHANGED << smp, counts, thread, credit >>

IncPending_notHci(w) ==
    /\ wpc[w] = "inc"
    /\ tx_pending' = IF w \in HciUsers THEN tx_pending ELSE tx_pending + 1
    /\ Goto(w, "items")
    /\ UNCHANGED << smp, stopped, queue_items, tx_q, thread, credit >>
IncPending(w) ==
    /\ wpc[w] = "inc"
    /\ tx_pending' = tx_pending + 1
    /\ Goto(w, "items")
    /\ UNCHANGED << smp, stopped, queue_items, tx_q, thread, credit >>

IncItems(w) ==
    /\ wpc[w] = "items"
    /\ queue_items' = [queue_items EXCEPT ![QueueOf(w)] = @ + 1]
    /\ Goto(w, "enqueue")
    /\ UNCHANGED << smp, stopped, tx_pending, tx_q, thread, credit >>

Enqueue(w) ==
    /\ wpc[w] = "enqueue"
    /\ tx_q' = [tx_q EXCEPT ![QueueOf(w)] = @ + 1]
    /\ Goto(w, "idle")
    /\ UNCHANGED << smp, stopped, tx_pending, queue_items, thread, credit >>

Writer(w) == Enter(w) \/ Pause(w) \/ IncPending(w) \/ IncItems(w) \/ Enqueue(w)

-----------------------------------------------------------------------------
(* tx_process *)

\* Scheduling, not code: without smp a writer runs to its end before the thread.
ThreadMayRun == smp \/ \A w \in Writers : wpc[w] = "idle"

\* HCI frames first; a counted packet that is not queued yet is waited for.
Dequeue(q) ==
    /\ ThreadMayRun
    /\ tpc = "idle"
    /\ queue_items[q] > 0 /\ (q = "others" => queue_items["bt"] = 0)
    /\ tx_q[q] > 0
    /\ tx_q' = [tx_q EXCEPT ![q] = @ - 1]
    /\ cur' = q
    /\ tpc' = "items"
    /\ UNCHANGED << smp, writer, tx_pending, queue_items, retry, buf_available,
                    tx_buffer_count, misread, credit >>

DecItems ==
    /\ ThreadMayRun
    /\ tpc = "items"
    /\ queue_items' = [queue_items EXCEPT ![cur] = @ - 1]
    /\ tpc' = "pending"
    /\ UNCHANGED << smp, writer, tx_pending, tx_q, cur, retry, buf_available,
                    tx_buffer_count, misread, credit >>

DecPending ==
    /\ ThreadMayRun
    /\ tpc = "pending"
    /\ tx_pending' = IF tx_pending > 0 THEN tx_pending - 1 ELSE 0
    /\ retry' = Retries
    /\ tpc' = "decide"
    /\ UNCHANGED << smp, writer, queue_items, tx_q, cur, buf_available,
                    tx_buffer_count, misread, credit >>

BelowResume == tx_pending < RESUME

Decide ==
    /\ ThreadMayRun
    /\ tpc = "decide"
    /\ tpc' = IF BelowResume THEN "wake" ELSE "claim"
    /\ UNCHANGED << smp, writer, counts, cur, retry, buf_available,
                    tx_buffer_count, misread, credit >>

\* esp_tx_resume
Wake ==
    /\ ThreadMayRun
    /\ tpc = "wake"
    /\ stopped' = FALSE
    /\ tpc' = "claim"
    /\ UNCHANGED << smp, wpc, counts, cur, retry, buf_available,
                    tx_buffer_count, misread, credit >>

\* esp_slave_get_tx_buffer_num; when the register cannot be read the number
\* of the time before is used.
Available == (token + TokenMax - tx_buffer_count) % TokenMax

NumberRead == \/ buf_available' = Available /\ UNCHANGED misread
              \/ buf_available' = buf_available /\ misread' = TRUE

\* Buffers of ESP_RX_BUFFER_SIZE that a packet takes, rounded up.
BufNeeded_roundDown == 0
BufNeeded == 1

\* One pass of the retry loop: with a buffer the
\* bus stays claimed, without one the packet is dropped at the last try.
Ask ==
    /\ ThreadMayRun
    /\ tpc = "claim"
    /\ NumberRead
    /\ IF buf_available' >= BufNeeded
       THEN tpc' = "write" /\ UNCHANGED retry
       ELSE /\ retry' = retry - 1
            /\ tpc' = IF retry' = 0 THEN "idle" ELSE "claim"
    /\ UNCHANGED << smp, writer, counts, cur, tx_buffer_count, credit >>

\* The host counts the buffer of a packet that was written and drops one whose
\* write failed.
Used(n) == (n + 1) % TokenMax
CountAfter(ok) == IF ok THEN Used(tx_buffer_count) ELSE tx_buffer_count

\* A packet that reaches the slave takes a buffer, if one is loaded, whether or
\* not the host sees its command succeed.
Write(ok, arrived) ==
    /\ ThreadMayRun
    /\ tpc = "write"
    /\ ok => arrived
    /\ tx_buffer_count' = CountAfter(ok)
    /\ IF arrived /\ loaded > 0
       THEN /\ loaded' = loaded - 1
            /\ IF ok THEN UNCHANGED uncounted
               ELSE uncounted < MaxUncounted /\ uncounted' = uncounted + 1
       ELSE UNCHANGED << loaded, uncounted >>
    /\ tpc' = "idle"
    /\ UNCHANGED << smp, writer, counts, cur, retry, buf_available, misread,
                    token >>

TxThread == \/ \E q \in Queues : Dequeue(q)
            \/ DecItems \/ DecPending \/ Decide \/ Wake \/ Ask
            \/ \E ok, arrived \in BOOLEAN : Write(ok, arrived)

-----------------------------------------------------------------------------
(* Slave *)

\* recv_task: sdio_read takes a packet; processed or, with a bad checksum, at
\* once its buffer is loaded again.
Reload ==
    /\ loaded < BufNum
    /\ loaded' = loaded + 1
    /\ token' = (token + 1) % TokenMax
    /\ UNCHANGED << smp, writer, counts, thread, uncounted >>

-----------------------------------------------------------------------------

Next ==
    \/ \E w \in Writers : Writer(w)
    \/ TxThread
    \/ Reload

Spec == Init /\ [][Next]_vars

-----------------------------------------------------------------------------
(* Properties *)

\* Types of the variables.
TypeOK ==
    /\ smp \in BOOLEAN /\ stopped \in BOOLEAN /\ misread \in BOOLEAN
    /\ wpc \in [Writers -> {"idle", "pause", "inc", "items", "enqueue"}]
    /\ tx_pending \in Nat
    /\ queue_items \in [Queues -> Nat] /\ tx_q \in [Queues -> Nat]
    /\ tpc \in {"idle", "items", "pending", "decide", "wake", "claim", "write"}
    /\ cur \in Queues
    /\ retry \in 0 .. Retries
    /\ buf_available \in Nat
    /\ tx_buffer_count \in 0 .. TokenMax - 1
    /\ token \in 0 .. TokenMax - 1
    /\ loaded \in 0 .. BufNum
    /\ uncounted \in 0 .. MaxUncounted

\* The host reckons with no more buffers than the slave has loaded and those its
\* failed writes took behind its back, and writes only on the strength of one of
\* them: as long as no failed write took a buffer it never writes without one.
\* Wherever the two counters are in their range, until TOKEN_RDATA cannot be read.
CreditsSafe ==
    ~ misread => /\ Available <= loaded + uncounted
                 /\ tpc = "write" => loaded + uncounted > 0

At(pcs) == {w \in Writers : wpc[w] \in pcs}
InHand(pcs) == IF tpc \in pcs THEN 1 ELSE 0

\* tx_pending counts every packet from before it is queued until after it is
\* dequeued, also with the writers on other CPUs; queue_items never hides a queued one.
CountersExact ==
    /\ tx_pending = tx_q["bt"] + tx_q["others"] + Cardinality(At({"items", "enqueue"}))
                      + InHand({"items", "pending"})
    /\ \A q \in Queues :
         queue_items[q] = tx_q[q] + Cardinality({w \in At({"enqueue"}) : QueueOf(w) = q})
                            + (IF cur = q THEN InHand({"items"}) ELSE 0)

\* With writers that are not interleaved with the transmit thread, stopped
\* network queues have a backlog that brings tx_process to wake them.
StoppedHasBacklog ==
    (~ smp /\ stopped) => tx_pending >= RESUME \/ tpc \in {"decide", "wake"}

\* The counters are right about the queues under every interleaving, and so about
\* who wakes the network queues.
CountersSound == CountersExact /\ StoppedHasBacklog
=============================================================================
