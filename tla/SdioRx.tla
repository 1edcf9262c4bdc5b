------------------------------- MODULE SdioRx -------------------------------
(***************************************************************************)
(* The host's receive path over SDIO: the slave's sdio_write                  *)
(* (sdio_slave_api.c) announces a packet by a byte counter that wraps          *)
(* (PACKET_LEN) and an interrupt; esp_handle_isr queues esp_if_rx_work, which  *)
(* reads one packet (sdio/esp_sdio.c, main.c).  A packet is its length.  The   *)
(* transmit thread (SdioTx) claims the same bus.                              *)
(***************************************************************************)
EXTENDS Integers

CONSTANTS
    ByteMax,     \* ESP_RX_BYTE_MAX
    Block,       \* ESP_BLOCK_SIZE
    Sizes        \* lengths of the slave's packets

\* What is assumed of them.
BytesAssumption ==
    /\ ByteMax \in Nat /\ Block \in Nat \ {0}
    /\ Sizes \subseteq 1 .. (ByteMax - 1)

VARIABLES
    lock,         \* who has claimed the host
    ipc,          \* esp_handle_isr
    rx_work, rpc, data_left, rx_byte_count,     \* esp_if_rx_work, read_packet
    rxfail,       \* a read of packet data has failed (history)
    unread,       \* bytes of the packet in sdio_slave_transmit not yet read
    len_reg,      \* PACKET_LEN
    int_st        \* the new-packet interrupt is raised

reading == << rpc, data_left, rx_byte_count, rxfail >>
slave   == << unread, len_reg, int_st >>
vars == << lock, ipc, rx_work, reading, slave >>

\* init_context reads the counter: the host starts where the slave is.
Init ==
    /\ lock = "free"
    /\ ipc = "idle" /\ rx_work = FALSE /\ rpc = "idle" /\ data_left = 0
    /\ len_reg \in 0 .. ByteMax - 1 /\ rx_byte_count = len_reg
    /\ rxfail = FALSE
    /\ unread = 0 /\ int_st = FALSE

\* sdio_slave_transmit waits until the host has read the packet.
Transmit(s) ==
    /\ unread = 0
    /\ unread' = s
    /\ len_reg' = (len_reg + s) % ByteMax
    /\ int_st' = TRUE
    /\ UNCHANGED << lock, ipc, rx_work, reading >>

\* tx_process
OtherClaims   == lock = "free" /\ lock' = "tx" /\ UNCHANGED << ipc, rx_work, reading, slave >>
OtherReleases == lock = "tx" /\ lock' = "free" /\ UNCHANGED << ipc, rx_work, reading, slave >>

\* The kernel has claimed the host when it calls esp_handle_isr.  queue_work
\* queues the work item again also while it runs.
RxQueued_ifIdle == rx_work \/ rpc = "idle"
RxQueued == TRUE

Isr ==
    /\ ipc = "idle" /\ int_st
    /\ lock = "free"
    /\ lock' = "isr"
    /\ rx_work' = RxQueued
    /\ ipc' = "clear"
    /\ UNCHANGED << reading, slave >>

IsrClears ==
    /\ ipc = "clear"
    /\ int_st' = FALSE
    /\ lock' = "free"
    /\ ipc' = "idle"
    /\ UNCHANGED << rx_work, reading, unread, len_reg >>

\* esp_if_rx_work
StartRx ==
    /\ rx_work /\ rpc = "idle"
    /\ rx_work' = FALSE
    /\ rpc' = "claim"
    /\ UNCHANGED << lock, ipc, data_left, rx_byte_count, rxfail, slave >>

\* esp_get_len_from_slave
LenFromSlave_noRollOver ==
    IF len_reg >= rx_byte_count THEN (len_reg + ByteMax - rx_byte_count) % ByteMax
                                ELSE len_reg
LenFromSlave ==
    IF len_reg >= rx_byte_count THEN (len_reg + ByteMax - rx_byte_count) % ByteMax
                                ELSE ByteMax - rx_byte_count + len_reg

ReadLen ==
    /\ rpc = "claim"
    /\ lock = "free"
    /\ data_left' = LenFromSlave
    /\ IF LenFromSlave = 0 THEN rpc' = "idle" /\ UNCHANGED lock
                           ELSE rpc' = "read" /\ lock' = "rx"
    /\ UNCHANGED << ipc, rx_work, rx_byte_count, rxfail, slave >>

Counted(n) == (rx_byte_count + n) % ByteMax

\* Whole blocks in one read, then the rest.
Chunk == IF data_left >= Block THEN data_left - (data_left % Block) ELSE data_left

ReadByHost == IF Chunk <= unread THEN unread - Chunk ELSE 0

ReadChunk ==
    /\ rpc = "read"
    /\ data_left' = data_left - Chunk
    /\ rx_byte_count' = Counted(Chunk)
    /\ unread' = ReadByHost
    /\ IF data_left' = 0 THEN rpc' = "deliver" /\ lock' = "free"
                         ELSE UNCHANGED << rpc, lock >>
    /\ UNCHANGED << ipc, rx_work, rxfail, len_reg, int_st >>

\* A failed read, of which the slave may have sent all or nothing.
ReadFails ==
    /\ rpc = "read"
    /\ rxfail' = TRUE
    /\ unread' \in {unread, ReadByHost}
    /\ data_left' = 0
    /\ rpc' = "idle"
    /\ lock' = "free"
    /\ UNCHANGED << ipc, rx_work, rx_byte_count, len_reg, int_st >>

\* process_rx_packet
Deliver ==
    /\ rpc = "deliver"
    /\ rpc' = "idle"
    /\ UNCHANGED << lock, ipc, rx_work, data_left, rx_byte_count, rxfail, slave >>

RxWork == StartRx \/ ReadLen \/ ReadChunk \/ ReadFails \/ Deliver

Next ==
    \/ \E s \in Sizes : Transmit(s)
    \/ OtherClaims \/ OtherReleases
    \/ Isr \/ IsrClears
    \/ RxWork

Spec == Init /\ [][Next]_vars

\* Threads are scheduled, and who waits for the bus gets it in turn
\* (sdio_claim_host keeps a queue).
Fairness == /\ SF_vars(Isr) /\ WF_vars(IsrClears)
            /\ SF_vars(RxWork)
            /\ WF_vars(OtherReleases)

FairSpec == Spec /\ Fairness

-----------------------------------------------------------------------------
(* Properties *)

\* What the host takes for the length of the next packet, from two counters
\* that wrap, is what the slave has left of it, and nothing before it is sent.
ReadsMatch ==
    ~ rxfail => /\ rpc = "read" => data_left = unread
                /\ LenFromSlave = unread

\* The slave's transmit comes to an end: no interleaving of the interrupt
\* handler, the work item and the next packet loses the interrupt that tells of it.
SendCompletes == (unread > 0 /\ ~ rxfail) ~> (unread = 0 \/ rxfail)

\* Types of the variables.
TypeOK ==
    /\ lock \in {"free", "isr", "rx", "tx"}
    /\ ipc \in {"idle", "clear"} /\ rpc \in {"idle", "claim", "read", "deliver"}
    /\ rx_work \in BOOLEAN /\ rxfail \in BOOLEAN /\ int_st \in BOOLEAN
    /\ data_left \in 0 .. ByteMax - 1
    /\ rx_byte_count \in 0 .. ByteMax - 1 /\ len_reg \in 0 .. ByteMax - 1
    /\ unread \in 0 .. ByteMax - 1
=============================================================================
