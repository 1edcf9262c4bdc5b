------------------------------ MODULE SpiHostTx ------------------------------
(***************************************************************************)
(* Transmit flow control of the Linux SPI host driver (spi/esp_spi.c with   *)
(* main.c).  Packets are queued by write_packet, which runs in the callers  *)
(* of esp_send_packet: the transmit functions of the two network devices    *)
(* (ethsta0, ethap0) and the writers of the serial and HCI devices.  The    *)
(* work function esp_spi_work dequeues them, one per SPI transaction.  The  *)
(* counter tx_pending is kept beside the queue, by separate atomic          *)
(* operations, and decides when the network devices are stopped and woken.  *)
(*                                                                         *)
(* Every access to memory that another context also writes is a step of its *)
(* own.  Packets carry no data here, so a queue is its length; SpiLink      *)
(* follows their contents.                                                 *)
(***************************************************************************)
EXTENDS Integers, FiniteSets

CONSTANTS
    Users,       \* callers that ignore the stopped network queues (serial, HCI)
    MAX,         \* TX_MAX_PENDING_COUNT
    RESUME,      \* TX_RESUME_THRESHOLD
    MaxReinit,   \* bound: calls of spi_reinit_spidev
    MaxFail,     \* bound: SPI transactions that return an error
    MaxHci       \* bound: HCI frames written

NetDevs == {0, 1}                    \* indices of adapter.priv[]
Writers == NetDevs \cup Users        \* netdev d transmits on its own behalf

ASSUME UsersAssumption == IsFiniteSet(Users) /\ Users \cap NetDevs = {}
ASSUME ThresholdAssumption == /\ MAX \in Nat \ {0}
                              /\ RESUME \in 1 .. MAX
ASSUME BoundsAssumption == /\ MaxReinit \in Nat
                           /\ MaxFail \in Nat
                           /\ MaxHci \in Nat

VARIABLES
    data_path,   \* the flag data_path
    tx_pending,  \* atomic_t tx_pending
    txq,         \* length of tx_q[PRIO_Q_OTHERS]
    btq,         \* length of tx_q[PRIO_Q_BT]
    stopped,     \* network devices whose queue is stopped
    wpc,         \* where each writer is in write_packet
    work,        \* spi_work is queued
    kpc,         \* where esp_spi_work is
    handshake,   \* level of the handshake line
    irqs,        \* the interrupt handlers are installed
    rpc,         \* where spi_reinit_spidev is
    reinits,     \* resets of tx_pending by open_data_path so far
    fails,       \* failed transactions so far
    smp          \* several CPUs, or a kernel that preempts a writer: the work
                 \* item and the writers run side by side

vars == << data_path, tx_pending, txq, btq, stopped, wpc, work, kpc,
           handshake, irqs, rpc, reinits, fails, smp >>

WriterPC == { "idle", "entered", "checked", "queued", "pause0", "pause1", "kick" }
WorkPC   == { "idle", "dequeued", "counted", "wake0", "wake1", "transfer" }
ReinitPC == { "idle", "closed", "reset" }

\* The module after spi_init and esp_add_card: the data path is open.
Init ==
    /\ data_path = TRUE
    /\ tx_pending = 0
    /\ txq = 0
    /\ btq = 0
    /\ stopped = {}
    /\ wpc = [w \in Writers |-> "idle"]
    /\ work = FALSE
    /\ kpc = "idle"
    /\ handshake \in BOOLEAN
    /\ irqs = TRUE
    /\ rpc = "idle"
    /\ reinits = 0
    /\ fails = 0
    /\ smp \in BOOLEAN

At(pc) == { w \in Writers : wpc[w] = pc }

Count(pc) == Cardinality(At(pc))

WritersIdle == \A w \in Writers : wpc[w] = "idle"

\* Scheduling, not code: without smp a writer runs to its end before the work item
\* goes on.  So it is on one CPU for the network devices, which transmit with bottom
\* halves disabled, and for other writers unless the kernel preempts them.
ThreadMayRun == smp \/ WritersIdle

-----------------------------------------------------------------------------
(* write_packet *)

Goto(w, pc) == wpc' = [wpc EXCEPT ![w] = pc]

\* esp_hard_start_xmit, process_tx_packet: NETDEV_TX_BUSY if either network
\* queue is stopped.  The serial and HCI devices call esp_send_packet directly.
EnterWrite(w) ==
    /\ wpc[w] = "idle"
    /\ w \in NetDevs => stopped = {}
    /\ Goto(w, "entered")
    /\ UNCHANGED << data_path, tx_pending, txq, btq, stopped, work, kpc,
                    handshake, irqs, rpc, reinits, fails, smp >>

\* The data path is closed: the packet is freed, -EPERM.
RejectClosed(w) ==
    /\ wpc[w] = "entered"
    /\ ~ data_path
    /\ Goto(w, "idle")
    /\ UNCHANGED << data_path, tx_pending, txq, btq, stopped, work, kpc,
                    handshake, irqs, rpc, reinits, fails, smp >>

\* atomic_read(&tx_pending) >= TX_MAX_PENDING_COUNT
Full == tx_pending >= MAX

CheckPending(w) ==
    /\ wpc[w] = "entered"
    /\ data_path
    /\ Goto(w, IF Full THEN "pause0" ELSE "checked")
    /\ UNCHANGED << data_path, tx_pending, txq, btq, stopped, work, kpc,
                    handshake, irqs, rpc, reinits, fails, smp >>

\* An HCI frame goes to the other queue and is not counted.
EnqueueHci(w) ==
    /\ w \in Users
    /\ wpc[w] = "entered"
    /\ data_path
    /\ btq < MaxHci
    /\ btq' = btq + 1
    /\ Goto(w, "kick")
    /\ UNCHANGED << data_path, tx_pending, txq, stopped, work, kpc,
                    handshake, irqs, rpc, reinits, fails, smp >>

Enqueue(w) ==
    /\ wpc[w] = "checked"
    /\ txq' = txq + 1
    /\ Goto(w, "queued")
    /\ UNCHANGED << data_path, tx_pending, btq, stopped, work, kpc,
                    handshake, irqs, rpc, reinits, fails, smp >>

\* atomic_inc(&tx_pending)
Incremented_notAtomic(w) ==
    IF \E v \in Writers \ {w} : wpc[v] = "queued" THEN tx_pending ELSE tx_pending + 1
Incremented(w) == tx_pending + 1

IncPending(w) ==
    /\ wpc[w] = "queued"
    /\ tx_pending' = Incremented(w)
    /\ Goto(w, "kick")
    /\ UNCHANGED << data_path, txq, btq, stopped, work, kpc,
                    handshake, irqs, rpc, reinits, fails, smp >>

\* esp_tx_pause stops the two queues one after the other; the packet is freed.
PauseDev(w, d, next) ==
    /\ wpc[w] = (IF d = 0 THEN "pause0" ELSE "pause1")
    /\ stopped' = stopped \cup {d}
    /\ Goto(w, next)
    /\ UNCHANGED << data_path, tx_pending, txq, btq, work, kpc,
                    handshake, irqs, rpc, reinits, fails, smp >>

Pause(w) == PauseDev(w, 0, "pause1") \/ PauseDev(w, 1, "kick")

\* queue_work, and return.
Kick_onlyFirst(w) ==
    /\ wpc[w] = "kick"
    /\ work' = (txq + btq = 1)
    /\ Goto(w, "idle")
    /\ UNCHANGED << data_path, tx_pending, txq, btq, stopped, kpc,
                    handshake, irqs, rpc, reinits, fails, smp >>
Kick(w) ==
    /\ wpc[w] = "kick"
    /\ work' = TRUE
    /\ Goto(w, "idle")
    /\ UNCHANGED << data_path, tx_pending, txq, btq, stopped, kpc,
                    handshake, irqs, rpc, reinits, fails, smp >>

WriterStep(w) ==
    \/ RejectClosed(w)
    \/ CheckPending(w)
    \/ EnqueueHci(w)
    \/ Enqueue(w)
    \/ IncPending(w)
    \/ Pause(w)
    \/ Kick(w)

-----------------------------------------------------------------------------
(* esp_spi_work: one pass, under spi_lock *)

\* The pass finds a packet.
Dequeue ==
    /\ ThreadMayRun
    /\ kpc = "idle" /\ work
    /\ handshake /\ data_path
    /\ txq > 0
    /\ work' = FALSE
    /\ txq' = txq - 1
    /\ kpc' = "dequeued"
    /\ UNCHANGED << data_path, tx_pending, btq, stopped, wpc,
                    handshake, irqs, rpc, reinits, fails, smp >>

\* The pass finds none; rx says whether the slave's data-ready line is high.
NothingToSend(rx) ==
    /\ ThreadMayRun
    /\ kpc = "idle" /\ work
    /\ ~ (handshake /\ data_path /\ txq > 0)
    /\ work' = FALSE
    /\ kpc' = IF handshake /\ rx THEN "transfer" ELSE "idle"
    /\ UNCHANGED << data_path, tx_pending, txq, btq, stopped, wpc,
                    handshake, irqs, rpc, reinits, fails, smp >>

\* if (atomic_read(&tx_pending)) atomic_dec(&tx_pending);
CountedDown_keepsOne == IF tx_pending > 1 THEN tx_pending - 1 ELSE tx_pending
CountedDown == IF tx_pending > 0 THEN tx_pending - 1 ELSE tx_pending

DecPending ==
    /\ ThreadMayRun
    /\ kpc = "dequeued"
    /\ tx_pending' = CountedDown
    /\ kpc' = "counted"
    /\ UNCHANGED << data_path, txq, btq, stopped, wpc, work,
                    handshake, irqs, rpc, reinits, fails, smp >>

BelowResume_inclusive == tx_pending <= RESUME
BelowResume == tx_pending < RESUME

DecideResume ==
    /\ ThreadMayRun
    /\ kpc = "counted"
    /\ kpc' = IF BelowResume THEN "wake0" ELSE "transfer"
    /\ UNCHANGED << data_path, tx_pending, txq, btq, stopped, wpc, work,
                    handshake, irqs, rpc, reinits, fails, smp >>

\* esp_tx_resume wakes the two queues one after the other.
Woken_firstOnly(d) == stopped \ {0}
Woken(d) == stopped \ {d}

WakeDev(d, next) ==
    /\ ThreadMayRun
    /\ kpc = (IF d = 0 THEN "wake0" ELSE "wake1")
    /\ stopped' = Woken(d)
    /\ kpc' = next
    /\ UNCHANGED << data_path, tx_pending, txq, btq, wpc, work,
                    handshake, irqs, rpc, reinits, fails, smp >>

Wake == WakeDev(0, "wake1") \/ WakeDev(1, "transfer")

\* spi_sync_transfer completes; the slave lowers the handshake line.
Transfer ==
    /\ ThreadMayRun
    /\ kpc = "transfer"
    /\ handshake' = FALSE
    /\ kpc' = "idle"
    /\ UNCHANGED << data_path, tx_pending, txq, btq, stopped, wpc, work,
                    irqs, rpc, reinits, fails, smp >>

\* spi_sync_transfer fails: both buffers are freed, the slave saw nothing.
TransferFails ==
    /\ ThreadMayRun
    /\ kpc = "transfer"
    /\ fails < MaxFail
    /\ fails' = fails + 1
    /\ kpc' = "idle"
    /\ UNCHANGED << data_path, tx_pending, txq, btq, stopped, wpc, work,
                    handshake, irqs, rpc, reinits, smp >>

WorkStep ==
    \/ Dequeue
    \/ \E rx \in BOOLEAN : NothingToSend(rx)
    \/ DecPending
    \/ DecideResume
    \/ Wake
    \/ Transfer

-----------------------------------------------------------------------------
(* The slave and spi_reinit_spidev *)

\* spi_interrupt_handler queues spi_work.
HandshakeEdge == work \/ irqs

\* The slave has a transaction ready: the line rises.
SlaveReady ==
    /\ ~ handshake
    /\ handshake' = TRUE
    /\ work' = HandshakeEdge
    /\ UNCHANGED << data_path, tx_pending, txq, btq, stopped, wpc, kpc,
                    irqs, rpc, reinits, fails, smp >>

\* An INIT event asks for another clock (adjust_spi_clock).
ReinitClose ==
    /\ ThreadMayRun
    /\ rpc = "idle"
    /\ reinits < MaxReinit
    /\ irqs' = FALSE
    /\ data_path' = FALSE
    /\ rpc' = "closed"
    /\ UNCHANGED << tx_pending, txq, btq, stopped, wpc, work, kpc,
                    handshake, reinits, fails, smp >>

\* spi_dev_init installs the handlers, open_data_path resets the counter ...
ReinitReset ==
    /\ ThreadMayRun
    /\ rpc = "closed"
    /\ irqs' = TRUE
    /\ tx_pending' = 0
    /\ reinits' = reinits + 1
    /\ rpc' = "reset"
    /\ UNCHANGED << data_path, txq, btq, stopped, wpc, work, kpc,
                    handshake, fails, smp >>

\* ... and 200 ms later opens the data path.  The queue was not purged.
ReinitOpen ==
    /\ ThreadMayRun
    /\ rpc = "reset"
    /\ data_path' = TRUE
    /\ rpc' = "idle"
    /\ UNCHANGED << tx_pending, txq, btq, stopped, wpc, work, kpc,
                    handshake, irqs, reinits, fails, smp >>

ReinitStep == ReinitClose \/ ReinitReset \/ ReinitOpen

-----------------------------------------------------------------------------

Next ==
    \/ \E w \in Writers : EnterWrite(w) \/ WriterStep(w)
    \/ WorkStep
    \/ TransferFails
    \/ SlaveReady
    \/ ReinitStep

\* A kernel thread or a system call that has begun goes on, a queued work item
\* runs, and the slave always arms its next transaction (queue_next_transaction
\* follows every transaction).  Nobody has to write.  The work item is given the
\* CPU again and again even if writers keep interrupting it: strong fairness.
Fairness ==
    /\ \A w \in Writers : WF_vars(WriterStep(w))
    /\ SF_vars(WorkStep)
    /\ WF_vars(SlaveReady)
    /\ WF_vars(ReinitReset)
    /\ WF_vars(ReinitOpen)

Spec == Init /\ [][Next]_vars

FairSpec == Spec /\ Fairness

-----------------------------------------------------------------------------
(* Properties *)

\* Types of the variables.
TypeOK ==
    /\ data_path \in BOOLEAN
    /\ tx_pending \in Nat
    /\ txq \in Nat
    /\ btq \in 0 .. MaxHci
    /\ stopped \subseteq NetDevs
    /\ wpc \in [Writers -> WriterPC]
    /\ work \in BOOLEAN
    /\ kpc \in WorkPC
    /\ handshake \in BOOLEAN
    /\ irqs \in BOOLEAN
    /\ rpc \in ReinitPC
    /\ reinits \in 0 .. MaxReinit
    /\ fails \in 0 .. MaxFail
    /\ smp \in BOOLEAN

\* The most tx_pending can reach: every writer may pass the check at MAX - 1.
Cap == MAX - 1 + Cardinality(Writers)

\* Packets esp_spi_work has taken from the queue and not yet counted off.
InHand == IF kpc = "dequeued" THEN 1 ELSE 0

\* tx_pending never undercounts what is queued: up to the writers between
\* skb_queue_tail and atomic_inc, and up to one full counter for every time
\* open_data_path zeroed it under a queue that was not purged.
CounterCovers ==
    txq + InHand <= tx_pending + Count("queued") + reinits * Cap

\* tx_pending exceeds its limit only by the writers that raced past the check
\* in write_packet.
CounterBounded ==
    tx_pending + Count("checked") + Count("queued") <= Cap

\* The transmit queue is bounded: the back-pressure of write_packet cannot be
\* bypassed by any interleaving of the writers, the work item and the reinit,
\* beyond one packet per racing writer and one refill per reinit.
QueueBounded == txq <= (reinits + 1) * Cap

\* esp_spi_work decides to wake the network queues only when the queue really
\* is below TX_RESUME_THRESHOLD, give or take the writers in flight (until the
\* first reinit forgets the queue).
ResumeDecisionSound ==
    [][ (kpc = "counted" /\ kpc' = "wake0" /\ reinits = 0)
          => txq <= RESUME - 1 + Count("queued") ]_vars

\* Nobody is running and nothing is queued to run.
Quiet ==
    /\ WritersIdle
    /\ kpc = "idle" /\ ~ work
    /\ rpc = "idle"
    /\ handshake

\* When nothing is going to run any more, no packet is left in the queue: no
\* interleaving of queue_work, the coalescing of work items and the handshake
\* edges loses the last wake-up of esp_spi_work.
NoLostKick == (Quiet /\ reinits = 0 /\ fails = 0) => txq = 0

\* With the writers not interleaved with the work item, the counter equals the
\* length of the queue (until open_data_path resets it).
CounterExact ==
    (~ smp /\ reinits = 0)
       => tx_pending + Count("queued") = txq + InHand

\* A stopped network queue always has somebody left to wake it: enough packets
\* for esp_spi_work to count down through TX_RESUME_THRESHOLD, or a call of
\* esp_tx_pause or esp_tx_resume that is still under way.
StoppedHasBacklog ==
    (~ smp /\ reinits = 0 /\ stopped # {})
       => \/ tx_pending >= RESUME
          \/ kpc \in {"counted", "wake0", "wake1"}

\* On one CPU the counter is right about the queue, and so about who wakes the
\* network queues: the two facts esp_tx_pause and esp_tx_resume rely on.
CountersSound == CounterExact /\ StoppedHasBacklog

\* A network queue that was stopped is woken, unless the serial and HCI users,
\* whom nothing stops, keep writing: they can hold tx_pending above the
\* threshold for as long as they like.
NetdevsRecover ==
    (~ smp /\ \A u \in Users : <>[](wpc[u] = "idle"))
       => \A d \in NetDevs : d \in stopped ~> d \notin stopped
=============================================================================
