---------------------------- MODULE SlaveAdapter ----------------------------
(***************************************************************************)
(* What the slave does with packets of the host over SDIO (sdio_slave_api.c and  *)
(* recv_task in network_adapter.c), with the interrupt that opens, closes and     *)
(* resets the interface under a packet that send_task sends, and the two ways to  *)
(* the Bluetooth controller (slave_bt.c): VHCI, with a semaphore that says that    *)
(* the controller takes a packet, and UART, with one DMA transfer and one callback *)
(* in each direction.                                                              *)
(***************************************************************************)
EXTENDS Integers, Sequences

CONSTANT BUFFER_NUM  \* receive buffers of the SDIO slave

AdapterAssumption == BUFFER_NUM \in Nat \ {0}

VARIABLES
    datapath, ifState,  \* datapath, if_handle->state
    loaded,             \* buffers the hardware may fill
    filled,             \* packets received, by interface
    recv,               \* recv_task: [pc, pkt]
    running,            \* the SDIO slave driver is started
    sending,            \* send_task in sdio_slave_transmit: "idle", "queued", "finished",
                        \* "lost" (its result has been taken by a reset)
    vhci_send_sem,
    inController,       \* packets the controller works on
    armed,              \* uart_env: directions whose callback is set
    moving              \* directions whose DMA transfer is under way

Interfaces == {"sta", "ap", "hci", "bad"}  \* "bad": the checksum is wrong
Directions == {"rx", "tx"}
Nothing == [pc |-> "idle", pkt |-> "none"]

\* network_adapter_driver_init, sdio_init and initialise_bluetooth.
Init ==
    /\ datapath = TRUE /\ ifState = "init"
    /\ loaded = BUFFER_NUM /\ filled = << >> /\ recv = Nothing
    /\ running = TRUE /\ sending = "idle"
    /\ vhci_send_sem = 1 /\ inController = 0
    /\ armed = {} /\ moving = {}

uart == << armed, moving >>
out == << running, sending >>

-----------------------------------------------------------------------------
(* The interrupt: event_cb and event_handler *)

OpenDataPath ==
    /\ datapath' = TRUE /\ ifState' = "active"
    /\ UNCHANGED << loaded, filled, recv, vhci_send_sem, inController, out, uart >>

CloseDataPath ==
    /\ datapath' = FALSE /\ ifState' = "deactive"
    /\ UNCHANGED << loaded, filled, recv, vhci_send_sem, inController, out, uart >>

\* sdio_reset stops the driver, and an error leaves it stopped.  The driver takes back
\* what was received and not read, and gives what it has not sent back as finished.
ResetFails ==
    /\ running' = FALSE
    /\ UNCHANGED << datapath, ifState, loaded, filled, recv, sending, vhci_send_sem, inController, uart >>

Flushed == IF sending = "queued" THEN "finished" ELSE sending
StartFails ==
    /\ running' = FALSE
    /\ loaded' = loaded + Len(filled) /\ filled' = << >> /\ sending' = Flushed
    /\ UNCHANGED << datapath, ifState, recv, vhci_send_sem, inController, uart >>

\* The loop after the start takes what send_task has not collected, the argument of its
\* send, and loads it as if it were a receive buffer: ESP_ERROR_CHECK restarts the slave
\* if the driver refuses it.
Reset ==
    /\ running' = TRUE
    /\ filled' = << >>
    /\ \/ loaded' = loaded + Len(filled) /\ sending' = Flushed
       \/ Flushed = "finished" /\ loaded' = loaded + Len(filled) + 1 /\ sending' = "lost"
    /\ UNCHANGED << datapath, ifState, recv, vhci_send_sem, inController, uart >>

ResetAborts ==
    /\ Flushed = "finished"
    /\ datapath' = TRUE /\ ifState' = "init"
    /\ loaded' = BUFFER_NUM /\ filled' = << >> /\ recv' = Nothing
    /\ running' = TRUE /\ sending' = "idle"
    /\ vhci_send_sem' = 1 /\ inController' = 0
    /\ armed' = {} /\ moving' = {}

-----------------------------------------------------------------------------
(* send_task: sdio_write, in sdio_slave_transmit until the host has read *)

sdio_write ==
    /\ sending = "idle" /\ datapath /\ ifState = "active"
    /\ sending' = "queued"
    /\ UNCHANGED << datapath, ifState, loaded, filled, recv, running, vhci_send_sem, inController, uart >>

HostReads ==
    /\ running /\ sending = "queued"
    /\ sending' = "finished"
    /\ UNCHANGED << datapath, ifState, loaded, filled, recv, running, vhci_send_sem, inController, uart >>

TransmitReturns ==
    /\ sending = "finished"
    /\ sending' = "idle"
    /\ UNCHANGED << datapath, ifState, loaded, filled, recv, running, vhci_send_sem, inController, uart >>

-----------------------------------------------------------------------------
(* recv_task *)

HostSends(p) ==
    /\ running /\ loaded > 0
    /\ loaded' = loaded - 1 /\ filled' = Append(filled, p)
    /\ UNCHANGED << datapath, ifState, recv, vhci_send_sem, inController, out, uart >>

\* The state is tested before the task waits for a packet, not after.
RecvBegins ==
    /\ recv.pc = "idle" /\ datapath /\ ifState = "active"
    /\ recv' = [recv EXCEPT !.pc = "wait"]
    /\ UNCHANGED << datapath, ifState, loaded, filled, vhci_send_sem, inController, out, uart >>

\* sdio_read, which gives a packet with a wrong checksum back at once.
GivenBackAtOnce_never(p) == FALSE
GivenBackAtOnce(p) == p = "bad"
sdio_read ==
    /\ recv.pc = "wait" /\ filled # << >>
    /\ filled' = Tail(filled)
    /\ IF Head(filled) = "bad"
       THEN /\ recv' = Nothing
            /\ loaded' = IF GivenBackAtOnce(Head(filled)) THEN loaded + 1 ELSE loaded
       ELSE recv' = [pc |-> "process", pkt |-> Head(filled)] /\ UNCHANGED loaded
    /\ UNCHANGED << datapath, ifState, vhci_send_sem, inController, out, uart >>

\* process_rx_pkt: forwarded or not, the buffer is given back.
Process ==
    /\ recv.pc = "process" /\ recv.pkt # "hci"
    /\ recv' = Nothing /\ loaded' = loaded + 1
    /\ UNCHANGED << datapath, ifState, filled, vhci_send_sem, inController, out, uart >>

\* process_hci_rx_pkt: what esp_vhci_host_check_send_available says is only logged.
\* A packet that waited too long for the semaphore is dropped.
MaySend == vhci_send_sem = 1
VhciSend ==
    /\ recv.pc = "process" /\ recv.pkt = "hci" /\ MaySend
    /\ vhci_send_sem' = 0 /\ inController' = inController + 1
    /\ recv' = Nothing /\ loaded' = loaded + 1
    /\ UNCHANGED << datapath, ifState, filled, out, uart >>

VhciTimeout ==
    /\ recv.pc = "process" /\ recv.pkt = "hci" /\ vhci_send_sem = 0
    /\ recv' = Nothing /\ loaded' = loaded + 1
    /\ UNCHANGED << datapath, ifState, filled, vhci_send_sem, inController, out, uart >>

\* controller_rcv_pkt_ready
ControllerReady ==
    /\ inController > 0
    /\ inController' = inController - 1
    /\ vhci_send_sem' = 1
    /\ UNCHANGED << datapath, ifState, loaded, filled, recv, out, uart >>

-----------------------------------------------------------------------------
(* HCI over UART; the controller asks for one transfer in a direction at a time, *)
(* and may ask for the next from the callback                                *)

\* hci_uart_tl_recv_async, hci_uart_tl_send_async: the callback, then the transfer.
Arm(d) ==
    /\ d \notin armed /\ d \notin moving
    /\ armed' = armed \cup {d}
    /\ UNCHANGED << datapath, ifState, loaded, filled, recv, vhci_send_sem, inController, out, moving >>

Armed(d) == d \in armed
StartDma(d) ==
    /\ d \notin moving /\ Armed(d)
    /\ moving' = moving \cup {d}
    /\ UNCHANGED << datapath, ifState, loaded, filled, recv, vhci_send_sem, inController, out, armed >>

\* hci_uart_tl_rx_eof_callback, hci_uart_tl_tx_eof_callback: the pointer is copied and
\* cleared, then called.
EofCallback(d) ==
    /\ d \in moving
    /\ armed' = armed \ {d} /\ moving' = moving \ {d}
    /\ UNCHANGED << datapath, ifState, loaded, filled, recv, vhci_send_sem, inController, out >>

Next ==
    \/ OpenDataPath \/ CloseDataPath \/ ResetFails \/ StartFails \/ Reset \/ ResetAborts
    \/ sdio_write \/ HostReads \/ TransmitReturns
    \/ \E p \in Interfaces : HostSends(p)
    \/ RecvBegins \/ sdio_read \/ Process \/ VhciSend \/ VhciTimeout \/ ControllerReady
    \/ \E d \in Directions : Arm(d) \/ StartDma(d) \/ EofCallback(d)

-----------------------------------------------------------------------------
(* Properties *)

InHand == IF recv.pc = "process" THEN 1 ELSE 0
Taken == IF sending = "lost" THEN 1 ELSE 0

\* No receive buffer is lost or given back twice, whatever the interface becomes while
\* recv_task waits and wherever a reset fails; the driver has one too many only when a
\* reset has taken a finished send from send_task, which then waits for it for good.
\* The controller never has two packets, though a packet that timed out leaves its
\* semaphore to the next one; and a UART transfer that ends finds its callback, though
\* the callback itself may start the next transfer.
ReceivePathSound ==
    /\ loaded + Len(filled) + InHand = BUFFER_NUM + Taken
    /\ inController + vhci_send_sem = 1
    /\ moving \subseteq armed
=============================================================================
