------------------------------- MODULE SpiLink -------------------------------
(***************************************************************************)
(* The SPI link between the ESP32 (slave) and the Linux host (master): the   *)
(* slave's send_task, spi_transaction_post_process_task and recv_task        *)
(* (network_adapter.c, spi_slave_api.c), the host's esp_spi_work and         *)
(* esp_if_rx_work (spi/esp_spi.c, main.c), and the two lines by which the    *)
(* slave signals the host.  Handshake is high while a transaction is armed;  *)
(* data-ready says that the slave has packets.  The host is interrupted by   *)
(* the rising edges only.                                                   *)
(*                                                                         *)
(* A packet is <<class, n>>, the n-th of its class in its direction.  The    *)
(* host's HCI frames and its flow control are in SpiHostTx: here the host    *)
(* writes packets of class "others".                                        *)
(***************************************************************************)
EXTENDS Naturals, Sequences

CONSTANTS
    Packets,       \* bound: packets per class the slave sends (with the INIT event)
    HostPackets,   \* bound: packets the host sends
    ToHostSize,    \* TO_HOST_QUEUE_SIZE
    TxSize,        \* SPI_TX_QUEUE_SIZE
    RxSize         \* SPI_RX_QUEUE_SIZE

Classes == {"others", "bt"}          \* PRIO_Q_OTHERS, PRIO_Q_BT

ASSUME BoundsAssumption == /\ Packets \in [Classes -> Nat]
                           /\ Packets["others"] >= 1
                           /\ HostPackets \in Nat
ASSUME SizesAssumption == {ToHostSize, TxSize, RxSize} \subseteq Nat \ {0}

NoPacket == << "none", 0 >>          \* no buffer
Dummy    == << "dummy", 0 >>         \* a buffer with if_type 0xF, or all zero
InitEvent == << "others", 1 >>       \* built by generate_startup_event

VARIABLES
    reclock,     \* the INIT event asks for a clock other than SPI_INITIAL_CLK_MHZ
    \* slave
    produced,    \* packets handed to pkt_netif2driver and host_rcv_pkt, per class
    to_host_queue,
    spc, sending,           \* send_task and the packet it holds
    spi_tx_queue,
    ppc, next, taken,       \* post-process task, tx buffer chosen, rx buffer taken
    armed,                  \* tx buffer of the transaction given to the SPI driver
    result,                 \* rx buffer of the finished transaction
    spi_rx_queue,
    to_lwip,                \* last packet recv_task passed on
    \* the lines
    handshake, data_ready,
    \* host
    written,                \* packets the host has written
    tx_q, rx_q,             \* tx_q[PRIO_Q_OTHERS]; rx_q
    spi_work, kpc, rx_skb,  \* esp_spi_work
    rx_work, rpc,           \* esp_if_rx_work
    data_path, irqs,
    to_network              \* last packet given to process_rx_packet, per class

slaveTx == << produced, to_host_queue, spc, sending >>
slaveRx == << spi_rx_queue, to_lwip >>
post    == << ppc, next, taken >>
hostTx  == << written, tx_q >>
hostRx  == << rx_q, rx_work, rpc, to_network >>
path    == << data_path, irqs, reclock >>
spiWork == << spi_work, kpc, rx_skb >>

vars == << slaveTx, spi_tx_queue, post, armed, result, slaveRx, handshake,
           data_ready, hostTx, spiWork, hostRx, path >>

PerClass(x) == [c \in Classes |-> x]

\* The host driver has reset the ESP32, which has just booted:
\* generate_startup_event has queued the INIT event, raised data-ready and armed
\* the first transaction; both edges have run the host's handlers.
Init ==
    /\ reclock \in BOOLEAN
    /\ produced = [others |-> 1, bt |-> 0]
    /\ to_host_queue = PerClass(<< >>)
    /\ spc = "idle" /\ sending = NoPacket
    /\ spi_tx_queue = PerClass(<< >>)
    /\ ppc = "wait" /\ next = NoPacket /\ taken = NoPacket
    /\ armed = InitEvent
    /\ result = NoPacket
    /\ spi_rx_queue = << >>
    /\ to_lwip = 0
    /\ handshake = TRUE /\ data_ready = TRUE
    /\ written = 0
    /\ tx_q = << >>
    /\ rx_q = PerClass(<< >>)
    /\ spi_work = TRUE /\ kpc = "idle" /\ rx_skb = NoPacket
    /\ rx_work = FALSE /\ rpc = "idle"
    /\ data_path = TRUE /\ irqs = TRUE
    /\ to_network = PerClass(0)

-----------------------------------------------------------------------------
(* Slave *)

\* pkt_netif2driver, pkt_dhcp_status_change, host_rcv_pkt: a blocking send.
Produce(c) ==
    /\ produced[c] < Packets[c]
    /\ Len(to_host_queue[c]) < ToHostSize
    /\ produced' = [produced EXCEPT ![c] = @ + 1]
    /\ to_host_queue' = [to_host_queue EXCEPT ![c] = Append(@, << c, produced'[c] >>)]
    /\ UNCHANGED << spc, sending, spi_tx_queue, post, armed, result, slaveRx,
                    handshake, data_ready, hostTx, spiWork, hostRx, path >>

\* The queue a task serves next: the other packets go before Bluetooth.
Served(q, c) == q[c] # << >> /\ (c = "bt" => q["others"] = << >>)

SendTaskTakes(c) ==
    /\ spc = "idle"
    /\ Served(to_host_queue, c)
    /\ sending' = Head(to_host_queue[c])
    /\ to_host_queue' = [to_host_queue EXCEPT ![c] = Tail(@)]
    /\ spc' = "write"
    /\ UNCHANGED << produced, spi_tx_queue, post, armed, result, slaveRx,
                    handshake, data_ready, hostTx, spiWork, hostRx, path >>

\* esp_spi_write: a blocking send to the transmit queue ...
SendTaskQueues ==
    /\ spc = "write"
    /\ LET c == sending[1] IN
         /\ Len(spi_tx_queue[c]) < TxSize
         /\ spi_tx_queue' = [spi_tx_queue EXCEPT ![c] = Append(@, sending)]
    /\ sending' = NoPacket
    /\ spc' = "signal"
    /\ UNCHANGED << produced, to_host_queue, post, armed, result, slaveRx,
                    handshake, data_ready, hostTx, spiWork, hostRx, path >>

\* ... and then the data-ready line is raised.  Either handler of the host
\* queues esp_spi_work.
Edge_whenIdle(line) == spi_work \/ (~ line /\ irqs /\ kpc = "idle")
Edge(line) == spi_work \/ (~ line /\ irqs)

SendTaskSignals ==
    /\ spc = "signal"
    /\ data_ready' = TRUE
    /\ spi_work' = Edge(data_ready)
    /\ spc' = "idle"
    /\ UNCHANGED << produced, to_host_queue, sending, spi_tx_queue, post, armed, result,
                    slaveRx, handshake, hostTx, kpc, rx_skb, hostRx, path >>

\* spi_slave_get_trans_result returns the finished transaction.
TakeResult ==
    /\ ppc = "wait"
    /\ result # NoPacket
    /\ taken' = result
    /\ result' = NoPacket
    /\ ppc' = "others"
    /\ UNCHANGED << slaveTx, spi_tx_queue, next, armed, slaveRx, handshake,
                    data_ready, hostTx, spiWork, hostRx, path >>

\* get_next_tx_buffer: look into one queue, then into the other ...
Received_peeked(q) == q
Received(q) == Tail(q)

NextTxBuffer(c) ==
    /\ ppc = c
    /\ spi_tx_queue[c] # << >>
    /\ next' = Head(spi_tx_queue[c])
    /\ spi_tx_queue' = [spi_tx_queue EXCEPT ![c] = Received(@)]
    /\ ppc' = "arm"
    /\ UNCHANGED << slaveTx, taken, armed, result, slaveRx, handshake, data_ready,
                    hostTx, spiWork, hostRx, path >>

QueueEmpty(c) ==
    /\ ppc = c
    /\ spi_tx_queue[c] = << >>
    /\ ppc' = IF c = "others" THEN "bt" ELSE "clear"
    /\ UNCHANGED << slaveTx, spi_tx_queue, next, taken, armed, result, slaveRx,
                    handshake, data_ready, hostTx, spiWork, hostRx, path >>

\* ... and if both were empty lower data-ready and send a dummy buffer.
ClearReady_forgotten ==
    /\ ppc = "clear"
    /\ next' = Dummy
    /\ ppc' = "arm"
    /\ UNCHANGED << slaveTx, spi_tx_queue, taken, armed, result, slaveRx, handshake,
                    data_ready, hostTx, spiWork, hostRx, path >>
ClearReady ==
    /\ ppc = "clear"
    /\ data_ready' = FALSE
    /\ next' = Dummy
    /\ ppc' = "arm"
    /\ UNCHANGED << slaveTx, spi_tx_queue, taken, armed, result, slaveRx, handshake,
                    hostTx, spiWork, hostRx, path >>

\* spi_slave_queue_trans; spi_post_setup_cb raises the handshake line.
Arm ==
    /\ ppc = "arm"
    /\ armed' = next
    /\ next' = NoPacket
    /\ handshake' = TRUE
    /\ spi_work' = Edge(handshake)
    /\ ppc' = "rx"
    /\ UNCHANGED << slaveTx, spi_tx_queue, taken, result, slaveRx, data_ready,
                    hostTx, kpc, rx_skb, hostRx, path >>

RxHasRoom == Len(spi_rx_queue) < RxSize

\* process_spi_rx: an empty buffer is dropped, a packet is queued, blocking.
ProcessRx ==
    /\ ppc = "rx"
    /\ taken # Dummy => RxHasRoom
    /\ spi_rx_queue' = IF taken = Dummy THEN spi_rx_queue
                                        ELSE Append(spi_rx_queue, taken)
    /\ taken' = NoPacket
    /\ ppc' = "wait"
    /\ UNCHANGED << slaveTx, spi_tx_queue, next, armed, result, to_lwip, handshake,
                    data_ready, hostTx, spiWork, hostRx, path >>

\* recv_task: esp_spi_read and process_rx_pkt.
RecvTask ==
    /\ spi_rx_queue # << >>
    /\ to_lwip' = Head(spi_rx_queue)[2]
    /\ spi_rx_queue' = Tail(spi_rx_queue)
    /\ UNCHANGED << slaveTx, spi_tx_queue, post, armed, result, handshake,
                    data_ready, hostTx, spiWork, hostRx, path >>

PostProcess ==
    \/ TakeResult
    \/ \E c \in Classes : NextTxBuffer(c) \/ QueueEmpty(c)
    \/ ClearReady
    \/ Arm
    \/ ProcessRx

SendTask == \/ \E c \in Classes : SendTaskTakes(c)
            \/ SendTaskQueues
            \/ SendTaskSignals

-----------------------------------------------------------------------------
(* Host *)

\* write_packet (see SpiHostTx).
HostWrites ==
    /\ written < HostPackets
    /\ data_path
    /\ written' = written + 1
    /\ tx_q' = Append(tx_q, << "others", written' >>)
    /\ spi_work' = TRUE
    /\ UNCHANGED << slaveTx, spi_tx_queue, post, armed, result, slaveRx, handshake,
                    data_ready, kpc, rx_skb, hostRx, path >>

\* esp_spi_work, up to the end of the transaction: the two sides exchange their
\* buffers and spi_post_trans_cb lowers the handshake line.
HasTx == data_path /\ tx_q # << >>

Exchange ==
    /\ spi_work /\ kpc = "idle"
    /\ handshake
    /\ data_ready \/ HasTx
    /\ spi_work' = FALSE
    /\ rx_skb' = armed
    /\ armed' = NoPacket
    /\ result' = IF HasTx THEN Head(tx_q) ELSE Dummy
    /\ tx_q' = IF HasTx THEN Tail(tx_q) ELSE tx_q
    /\ handshake' = FALSE
    /\ kpc' = "received"
    /\ UNCHANGED << slaveTx, spi_tx_queue, post, slaveRx, data_ready, written,
                    hostRx, path >>

NoExchange ==
    /\ spi_work /\ kpc = "idle"
    /\ ~ (handshake /\ (data_ready \/ HasTx))
    /\ spi_work' = FALSE
    /\ UNCHANGED << slaveTx, spi_tx_queue, post, armed, result, slaveRx, handshake,
                    data_ready, hostTx, kpc, rx_skb, hostRx, path >>

SkbQueued_atHead(q, p) == << p >> \o q
SkbQueued(q, p) == Append(q, p)

\* process_rx_buf: dummies are dropped, and everything while the path is closed.
ProcessRxBuf ==
    /\ kpc = "received"
    /\ IF rx_skb # Dummy /\ data_path
       THEN /\ rx_q' = [rx_q EXCEPT ![rx_skb[1]] = SkbQueued(@, rx_skb)]
            /\ rx_work' = TRUE
       ELSE UNCHANGED << rx_q, rx_work >>
    /\ rx_skb' = NoPacket
    /\ kpc' = "idle"
    /\ UNCHANGED << slaveTx, spi_tx_queue, post, armed, result, slaveRx, handshake,
                    data_ready, hostTx, spi_work, rpc, to_network, path >>

\* process_rx_packet: a valid packet goes to the interface its header names.
Delivered(p) == [to_network EXCEPT ![p[1]] = p[2]]

\* esp_if_rx_work: one packet of rx_q[PRIO_Q_OTHERS].  The INIT event may ask for
\* another clock: adjust_spi_clock reinitialises the device from here.
RxWork ==
    /\ rx_work /\ rpc = "idle"
    /\ rx_work' = FALSE
    /\ IF data_path /\ rx_q["others"] # << >>
       THEN LET p == Head(rx_q["others"]) IN
            /\ rx_q' = [rx_q EXCEPT !["others"] = Tail(@)]
            /\ to_network' = Delivered(p)
            /\ rpc' = IF p = InitEvent /\ reclock THEN "mask" ELSE "idle"
       ELSE UNCHANGED << rx_q, to_network, rpc >>
    /\ UNCHANGED << slaveTx, spi_tx_queue, post, armed, result, slaveRx, handshake,
                    data_ready, hostTx, spiWork, path >>

\* spi_reinit_spidev and spi_dev_init: handlers removed, path closed, handlers
\* installed, path opened 200 ms later.
ReinitStep(from, to, handlers, open) ==
    /\ rpc = from
    /\ rpc' = to
    /\ irqs' = handlers
    /\ data_path' = open
    /\ UNCHANGED << reclock, slaveTx, spi_tx_queue, post, armed, result, slaveRx, handshake,
                    data_ready, hostTx, spiWork, rx_q, rx_work, to_network >>

Reinit == \/ ReinitStep("mask", "close", FALSE, TRUE)
          \/ ReinitStep("close", "install", FALSE, FALSE)
          \/ ReinitStep("install", "open", TRUE, FALSE)
          \/ ReinitStep("open", "idle", TRUE, TRUE)

SpiWork == Exchange \/ NoExchange \/ ProcessRxBuf

-----------------------------------------------------------------------------

Next ==
    \/ \E c \in Classes : Produce(c)
    \/ SendTask
    \/ PostProcess
    \/ RecvTask
    \/ HostWrites
    \/ SpiWork
    \/ RxWork
    \/ Reinit

\* Each task is scheduled and each queued work item runs; nobody has to produce.
Fairness ==
    /\ WF_vars(SendTask)
    /\ WF_vars(PostProcess)
    /\ WF_vars(RecvTask)
    /\ WF_vars(SpiWork)
    /\ WF_vars(RxWork)
    /\ WF_vars(Reinit)

Spec == Init /\ [][Next]_vars

FairSpec == Spec /\ Fairness

-----------------------------------------------------------------------------
(* Properties *)

Buffers == ({"others", "bt"} \X Nat) \cup {NoPacket, Dummy}

\* Types of the variables.
TypeOK ==
    /\ produced \in [Classes -> Nat] /\ to_network \in [Classes -> Nat]
    /\ {written, to_lwip} \subseteq Nat
    /\ spc \in {"idle", "write", "signal"}
    /\ ppc \in {"wait", "others", "bt", "clear", "arm", "rx"}
    /\ kpc \in {"idle", "received"}
    /\ rpc \in {"idle", "mask", "close", "install", "open"}
    /\ {sending, next, taken, armed, result, rx_skb} \subseteq Buffers
    /\ \A c \in Classes : /\ Len(to_host_queue[c]) <= ToHostSize
                          /\ Len(spi_tx_queue[c]) <= TxSize
    /\ Len(spi_rx_queue) <= RxSize
    /\ {handshake, data_ready, spi_work, rx_work, data_path, irqs, reclock} \subseteq BOOLEAN

Numbers(s) == [i \in DOMAIN s |-> s[i][2]]

\* The packet a place of the path holds, if it is of class c.
Held(p, c) == IF p[1] = c THEN << p[2] >> ELSE << >>

\* The packets of class c between the slave's stack and the host's, oldest first.
ToHost(c) ==
    Numbers(rx_q[c]) \o Held(rx_skb, c) \o Held(armed, c) \o Held(next, c)
      \o Numbers(spi_tx_queue[c])
      \o Held(sending, c) \o Numbers(to_host_queue[c])

\* The packets between the host's stack and the slave's, oldest first.
ToSlave == Numbers(spi_rx_queue) \o Held(taken, "others")
             \o Held(result, "others") \o Numbers(tx_q)

OthersLink == INSTANCE FifoChannel WITH
    lossy <- reclock, Initially <- 1, sent <- produced["others"],
    channel <- ToHost("others"), received <- to_network["others"]

BtLink == INSTANCE FifoChannel WITH
    lossy <- reclock, Initially <- 0, sent <- produced["bt"],
    channel <- ToHost("bt"), received <- to_network["bt"]

HostLink == INSTANCE FifoChannel WITH
    lossy <- FALSE, Initially <- 0, sent <- written,
    channel <- ToSlave, received <- to_lwip

\* Through six queues and buffers, two tasks and two work items, packets of one
\* class are not lost, repeated or reordered (lost only if a reinit closes the
\* data path under them).
OthersInOrder == OthersLink!Spec
BtInOrder     == BtLink!Spec

\* The host's packets reach recv_task in order, none lost or repeated, also
\* when the slave's receive queue is full and the post-process task blocks.
HostInOrder == HostLink!Spec

\* The link implements one FIFO channel per class and direction.
InOrder == OthersInOrder /\ BtInOrder /\ HostInOrder

Idle == /\ spc = "idle" /\ (\A c \in Classes : to_host_queue[c] = << >>)
        /\ ppc = "wait" /\ result = NoPacket
        /\ kpc = "idle" /\ ~ spi_work
        /\ rpc = "idle"

\* No interleaving of the two edges with esp_spi_work loses one for good: the
\* system never stops with a transaction armed and data-ready high (unless a
\* reinit removed the handlers for a while).
SignalledIsServed == ~ reclock => ~ (Idle /\ handshake /\ data_ready)

\* The host's packets reach the slave's stack (unless a reinit intervenes).
HostPacketsArrive ==
    \A n \in 1 .. HostPackets : (~ reclock /\ written >= n) ~> (to_lwip >= n)

\* What data-ready announces is fetched: the line, once up, goes down again, and
\* the slave lowers it only after it has found both transmit queues empty.
AnnouncedIsFetched == (~ reclock /\ data_ready) ~> (~ data_ready)

\* Neither direction of the link comes to a halt with something to carry.
EverythingArrives == HostPacketsArrive /\ AnnouncedIsFetched

\* "No real data pending, clear ready line and indicate host an idle state"
\* (spi_slave_api.c:280): when the slave's tasks are idle, data-ready is low only
\* if no data is pending.
ReadyMeansPending ==
    (Idle /\ ~ reclock /\ ~ data_ready) => \A c \in Classes : spi_tx_queue[c] = << >>
=============================================================================
