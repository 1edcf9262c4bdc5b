------------------------------ MODULE HostCard ------------------------------
(***************************************************************************)
(* The life of the host driver's card: loading and unloading over SPI (main.c,   *)
(* spi/esp_spi.c), probe and removal over SDIO (sdio/esp_sdio.c), against the     *)
(* work item that handles what the slave sends, which registers the Bluetooth     *)
(* device (esp_bt.c) and sets up the SPI device again, users that transmit, and   *)
(* the flow control that stops and wakes the queues of both interfaces.  Nothing  *)
(* is locked between them; a pointer is dead when what it names has been given    *)
(* back, and early when it is found in the adapter before it is registered.       *)
(***************************************************************************)
EXTENDS Integers, Sequences, SequencesExt

CONSTANTS
    MaxLoads,    \* bound of the model: loads or probes
    MaxPackets   \* bound of the model: packets that wait to be read

CardAssumption == MaxLoads \in Nat /\ MaxPackets \in Nat

VARIABLES
    bus,         \* the interface layer that is built: "spi" or "sdio"
    life,        \* the thread that loads or unloads: [dir, n], n the step of Program
    held,        \* what is registered with or taken from the kernel
    priv,        \* adapter.priv: the device each slot names
    adding,      \* how far esp_add_interface is: "none", "slot" (in adapter.priv,
                 \* its ndev NULL), "ndev" (named, not registered)
    hci,         \* adapter.hcidev
    path,        \* data_path; over SDIO, whether the slave has been told to send
    queuesStopped, \* network queues that are stopped
    rxq,         \* packets to be read
    rx,          \* esp_if_rx_work: [pc, pkt, next]
    loads,
    failed,      \* a call that may fail has failed (history)
    faults       \* where something that is not there was used last, if ever (history)

cardVars == << bus, life, held, priv, adding, hci, path, queuesStopped, rxq, rx, loads, failed,
               faults >>

Null == "null"
Devices == << "sta", "ap" >>
Irqs == {"irqH", "irqR"}
Gpios == {"gpioH", "gpioR"}
Packets == {"serial", "sta", "ap", "hci", "init"}

\* The steps of loading: spi_init with spi_dev_init and esp_add_card; esp_probe.
spi_init == << "spiwq", "spidev", "gpioH", "irqH", "gpioR", "irqR", "path", "serial", "sta", "ap" >>
esp_probe == << "func", "context", "serial", "sta", "ap", "path" >>
LoadSteps == IF bus = "spi" THEN spi_init ELSE esp_probe

\* The steps of unloading: spi_exit, esp_remove, both with esp_remove_card.
esp_remove_card == << "flush", "stop1", "free1", "stop2", "free2", "forget" >>
spi_exit == << "close", "spiwq", "serial" >> \o esp_remove_card \o << "bt", "pins", "spidev" >>
esp_remove == << "serial", "close" >> \o esp_remove_card \o << "bt", "context", "func" >>
ExitSteps == IF bus = "spi" THEN spi_exit ELSE esp_remove

Idle == [dir |-> "idle", n |-> 0]
Ready == [dir |-> "ready", n |-> 0]
Leaving == [dir |-> "exit", n |-> 1]
Crashed == [dir |-> "crashed", n |-> 0]

Step == CASE life.dir = "load" -> LoadSteps[life.n]
          [] life.dir = "exit" -> ExitSteps[life.n]
          [] OTHER -> "none"
Loading(s) == life.dir = "load" /\ Step = s
Exiting(s) == life.dir = "exit" /\ Step = s

Advance ==
    life' = CASE life.dir = "load" /\ life.n = Len(LoadSteps) -> Ready
              [] life.dir = "exit" /\ life.n = Len(ExitSteps) -> Idle
              [] OTHER -> [life EXCEPT !.n = life.n + 1]

RxIdle == [pc |-> "idle", pkt |-> Null, next |-> << >>]

Init ==
    /\ bus \in {"spi", "sdio"}
    /\ life = Idle /\ held = {} /\ priv = << Null, Null >> /\ adding = "none" /\ hci = Null
    /\ path = FALSE /\ queuesStopped = {} /\ rxq = << >> /\ rx = RxIdle
    /\ loads = 0 /\ failed = FALSE /\ faults = {}

Dead(p) == p # Null /\ p \notin held

-----------------------------------------------------------------------------
(* Loading *)

\* esp_init with init_adapter, or the bus that finds a card.  A module that is loaded
\* again starts with data_path closed and an empty context.
Load ==
    /\ life = Idle /\ loads < MaxLoads
    /\ loads' = loads + 1
    /\ life' = [dir |-> "load", n |-> 1]
    /\ path' = FALSE /\ rxq' = << >>
    /\ UNCHANGED << bus, held, priv, adding, hci, queuesStopped, rx, failed, faults >>

\* One call that takes something.
Take ==
    /\ life.dir = "load" /\ Step \notin {"sta", "ap", "path"}
    /\ held' = held \cup {Step}
    /\ Advance
    /\ UNCHANGED << bus, priv, adding, hci, path, queuesStopped, rxq, rx, loads, failed, faults >>

\* open_data_path, which sleeps before it; the interrupt that opens it at the slave.
OpenPath ==
    /\ Loading("path")
    /\ path' = TRUE
    /\ Advance
    /\ UNCHANGED << bus, held, priv, adding, hci, queuesStopped, rxq, rx, loads, failed, faults >>

\* What follows a failure: spi_exit, esp_remove, or nothing but deinit_sdio_func.  Only
\* init_context fails cleanly; init_sdio_func goes with the host still claimed.
AfterFailure(s) == IF s \in {"func", "context"} THEN Idle ELSE Leaving
HeldAfterFailure(s) == IF s \in {"func", "context"} THEN {} ELSE held

TakeFails ==
    /\ life.dir = "load" /\ Step \notin {"sta", "ap", "path"}
    /\ life' = AfterFailure(Step) /\ held' = HeldAfterFailure(Step)
    /\ failed' = (failed \/ Step # "context")
    /\ UNCHANGED << bus, priv, adding, hci, path, queuesStopped, rxq, rx, loads, faults >>

\* esp_add_interface: the first free slot of adapter.priv, then register_netdev.
FreeSlot == CHOOSE i \in 1 .. 2 : priv[i] = Null /\ \A j \in 1 .. i - 1 : priv[j] # Null

\* insert_priv_to_adapter, with an esp_private that is all zeros.
InsertPriv(d) ==
    /\ Loading(d) /\ adding = "none"
    /\ priv' = [priv EXCEPT ![FreeSlot] = d] /\ adding' = "slot"
    /\ UNCHANGED << bus, life, held, hci, path, queuesStopped, rxq, rx, loads, failed, faults >>

\* The rest of esp_init_priv: the device and the type of the interface.
NamePriv(d) ==
    /\ Loading(d) /\ adding = "slot"
    /\ adding' = "ndev"
    /\ UNCHANGED << bus, life, held, priv, hci, path, queuesStopped, rxq, rx, loads, failed, faults >>

\* esp_init_net_dev, which registers the device.
AddInterface(d) ==
    /\ Loading(d) /\ adding = "ndev"
    /\ held' = held \cup {d} /\ queuesStopped' = queuesStopped \ {d}
    /\ adding' = "none"
    /\ Advance
    /\ UNCHANGED << bus, priv, hci, path, rxq, rx, loads, failed, faults >>

\* A device that cannot be registered is freed and keeps its slot; one that cannot
\* be allocated leaves the slot empty.  esp_add_card then removes both interfaces.
AddFails(d) ==
    /\ Loading(d) /\ adding \in {"none", "ndev"}
    /\ failed' = TRUE /\ adding' = "none"
    /\ life' = IF d = "ap" /\ priv[2] = Null THEN Crashed ELSE Leaving
    /\ held' = IF d = "ap" THEN held \ {"sta"} ELSE held
    /\ faults' = IF d = "ap" THEN {"remove"} ELSE faults
    /\ UNCHANGED << bus, priv, hci, path, queuesStopped, rxq, rx, loads >>

\* A device that is in the adapter and not yet registered, and whether a slot that
\* names d has a device to ask.
Early(d) == Loading(d) /\ adding # "none"
HasNdev(d) == d \in held \/ (Early(d) /\ adding = "ndev")

-----------------------------------------------------------------------------
(* Unloading *)

Unload ==
    /\ life = Ready
    /\ life' = Leaving
    /\ UNCHANGED << bus, held, priv, adding, hci, path, queuesStopped, rxq, rx, loads, failed, faults >>

\* Interrupts off and close_data_path with the purge; over SDIO the interrupt that
\* closes the path at the slave, and flush_sdio.
Close ==
    /\ Exiting("close")
    /\ path' = FALSE /\ rxq' = << >>
    /\ Advance
    /\ UNCHANGED << bus, held, priv, adding, hci, queuesStopped, rx, loads, failed, faults >>

\* destroy_workqueue, esp_serial_cleanup, and what is given back at the end.
GivenBack(s) == IF s = "pins" THEN Irqs \cup Gpios ELSE {s}
Give ==
    /\ life.dir = "exit" /\ Step \in {"spiwq", "serial", "pins", "spidev", "context", "func"}
    /\ held' = held \ GivenBack(Step)
    /\ faults' = IF GivenBack(Step) \subseteq held THEN faults ELSE {"release"}
    /\ Advance
    /\ UNCHANGED << bus, priv, adding, hci, path, queuesStopped, rxq, rx, loads, failed >>

Flushed_never == TRUE
\* flush_workqueue waits for the work item that runs and the one that is queued.
Flushed == rx.pc = "idle" /\ (path => rxq = << >>)
Flush ==
    /\ Exiting("flush") /\ Flushed
    /\ Advance
    /\ UNCHANGED << bus, held, priv, adding, hci, path, queuesStopped, rxq, rx, loads, failed, faults >>

\* esp_remove_network_interfaces, for one slot at a time; an empty slot is fatal.
StopQueue(i) ==
    /\ Exiting(IF i = 1 THEN "stop1" ELSE "stop2")
    /\ IF priv[i] = Null THEN life' = Crashed /\ UNCHANGED queuesStopped
                         ELSE Advance /\ queuesStopped' = queuesStopped \cup {priv[i]}
    /\ faults' = IF Dead(priv[i]) \/ priv[i] = Null THEN {"remove"} ELSE faults
    /\ UNCHANGED << bus, held, priv, adding, hci, path, rxq, rx, loads, failed >>

FreeDevice(i) ==
    /\ Exiting(IF i = 1 THEN "free1" ELSE "free2")
    /\ held' = held \ {priv[i]}
    /\ faults' = IF Dead(priv[i]) THEN {"remove"} ELSE faults
    /\ Advance
    /\ UNCHANGED << bus, priv, adding, hci, path, queuesStopped, rxq, rx, loads, failed >>

Forget ==
    /\ Exiting("forget")
    /\ priv' = << Null, Null >>
    /\ Advance
    /\ UNCHANGED << bus, adding, held, hci, path, queuesStopped, rxq, rx, loads, failed, faults >>

\* esp_deinit_bt
DeinitBt ==
    /\ held' = held \ {"bt"} /\ hci' = Null
    /\ faults' = IF Dead(hci) THEN {"hci"} ELSE faults

RemoveBt ==
    /\ Exiting("bt")
    /\ DeinitBt
    /\ Advance
    /\ UNCHANGED << bus, priv, adding, path, queuesStopped, rxq, rx, loads, failed >>

-----------------------------------------------------------------------------
(* The work item *)

\* esp_spi_work reads a packet, or the slave loads one.  An HCI packet that comes over
\* SPI goes to a queue nobody reads.
Arrive(p) ==
    /\ path /\ bus = "spi" => "spiwq" \in held
    /\ path /\ Len(rxq) < MaxPackets
    /\ bus = "spi" => p # "hci"
    /\ rxq' = Append(rxq, p)
    /\ UNCHANGED << bus, life, held, priv, adding, hci, path, queuesStopped, rx, loads, failed, faults >>

\* process_rx_packet: what it looks up is used a step later.  An INIT event names
\* capabilities, and over SPI a clock.  A slot that has no type yet, all zeros, is
\* found as the station's (ESP_STA_IF is 0).
Init_steps(caps, clock) == << "btdown" >> \o caps \o (IF bus = "spi" THEN clock ELSE << >>)
Looks(p) == CASE p \in ToSet(Devices) -> p \in ToSet(priv) /\ ~(p = "ap" /\ Early(p) /\ adding = "slot")
              [] p = "hci" -> hci # Null
              [] p = "serial" -> "serial" \in held
              [] OTHER -> FALSE

RxTake ==
    /\ rx.pc = "idle" /\ path /\ rxq # << >>
    /\ rxq' = Tail(rxq)
    /\ IF Head(rxq) = "init"
       THEN \E caps \in {<< >>, << "btup" >>}, clock \in {<< >>, << "release", "again" >>} :
               rx' = [pc |-> "work", pkt |-> Head(rxq), next |-> Init_steps(caps, clock)]
       ELSE rx' = IF Looks(Head(rxq)) THEN [pc |-> "deliver", pkt |-> Head(rxq), next |-> << >>] ELSE RxIdle
    /\ UNCHANGED << bus, life, held, priv, adding, hci, path, queuesStopped, loads, failed, faults >>

Target == IF rx.pkt = "hci" THEN "bt" ELSE rx.pkt
RxDeliver ==
    /\ rx.pc = "deliver"
    /\ faults' = IF Target \in held THEN faults
                 ELSE {IF Early(Target) THEN "early" ELSE rx.pkt}
    /\ rx' = RxIdle
    /\ UNCHANGED << bus, life, held, priv, adding, hci, path, queuesStopped, rxq, loads, failed >>

RxNext == rx' = IF Len(rx.next) = 1 THEN RxIdle ELSE [rx EXCEPT !.next = Tail(rx.next)]
Working(s) == rx.pc = "work" /\ Head(rx.next) = s

\* process_capabilities: esp_deinit_bt, and 200 ms later esp_init_bt.
CapsDown ==
    /\ Working("btdown")
    /\ DeinitBt
    /\ RxNext
    /\ UNCHANGED << bus, life, priv, adding, path, queuesStopped, rxq, loads, failed >>

\* esp_init_bt; a device that cannot be registered is freed and stays in the adapter.
CapsUp ==
    /\ Working("btup")
    /\ hci' = "bt"
    /\ \/ held' = held \cup {"bt"} /\ UNCHANGED failed
       \/ failed' = TRUE /\ UNCHANGED held
    /\ RxNext
    /\ UNCHANGED << bus, life, priv, adding, path, queuesStopped, rxq, loads, faults >>

\* spi_reinit_spidev gives back what spi_dev_init takes again.
DeviceParts == {"spidev"} \cup Irqs \cup Gpios
ReinitRelease ==
    /\ Working("release")
    /\ path' = FALSE
    /\ held' = held \ DeviceParts
    /\ faults' = IF DeviceParts \subseteq held THEN faults ELSE {"release"}
    /\ RxNext
    /\ UNCHANGED << bus, life, priv, adding, hci, queuesStopped, rxq, loads, failed >>

ReinitAgain ==
    /\ Working("again")
    /\ held' = held \cup DeviceParts /\ path' = TRUE
    /\ RxNext
    /\ UNCHANGED << bus, life, priv, adding, hci, queuesStopped, rxq, loads, failed, faults >>

\* adjust_spi_clock calls spi_exit when that fails; it flushes the work queue that it
\* runs on, and never comes back.
ReinitFails ==
    /\ Working("again")
    /\ held' = held \ {"spiwq", "serial"} /\ rxq' = << >>
    /\ rx' = [rx EXCEPT !.pc = "hung"]
    /\ failed' = TRUE
    /\ UNCHANGED << bus, life, priv, adding, hci, path, queuesStopped, loads, faults >>

-----------------------------------------------------------------------------
(* Users *)

\* process_tx_packet asks both interfaces whether they are stopped.
Asked == IF priv[1] \in queuesStopped THEN {priv[1]} ELSE {priv[1], priv[2]}
Xmit(d) ==
    /\ d \in held \ queuesStopped
    /\ faults' = IF \A p \in Asked : HasNdev(p) THEN faults ELSE {"xmit"}
    /\ UNCHANGED << bus, life, held, priv, adding, hci, path, queuesStopped, rxq, rx, loads, failed >>

\* esp_tx_pause and esp_tx_resume go over both slots; a slot without a device is
\* passed over, an empty one is not.
Slots == {priv[1], priv[2]}
QueuesAsked ==
    faults' = IF \E p \in Slots : p = Null \/ (p \notin held /\ ~Early(p))
              THEN {"queues"} ELSE faults

\* write_packet with too many packets pending.  Over SPI an HCI packet is not counted,
\* and nobody writes while the path is closed (the unload sleeps 400 ms after closing).
Writers == {"serial", "sta", "ap"} \cup (IF bus = "sdio" THEN {"bt"} ELSE {})
TxPause ==
    /\ Writers \cap held # {}
    /\ bus = "spi" => path
    /\ queuesStopped' = queuesStopped \cup {p \in Slots : HasNdev(p)}
    /\ QueuesAsked
    /\ UNCHANGED << bus, life, held, priv, adding, hci, path, rxq, rx, loads, failed >>

\* esp_spi_work, or tx_process, which goes on from the end of the probe until it is
\* stopped before the path is closed: a packet has been taken and few are pending.
Sends == IF bus = "spi" THEN path /\ "spiwq" \in held
         ELSE life = Ready \/ Loading("path") \/ Exiting("serial") \/ Exiting("close")
TxResume ==
    /\ Sends
    /\ queuesStopped' = queuesStopped \ {p \in Slots : HasNdev(p)}
    /\ QueuesAsked
    /\ UNCHANGED << bus, life, held, priv, adding, hci, path, rxq, rx, loads, failed >>

Next ==
    \/ Load \/ Take \/ OpenPath \/ TakeFails
    \/ \E d \in ToSet(Devices) : InsertPriv(d) \/ NamePriv(d) \/ AddInterface(d) \/ AddFails(d) \/ Xmit(d)
    \/ TxPause \/ TxResume
    \/ Unload \/ Close \/ Give \/ Flush \/ Forget \/ RemoveBt
    \/ \E i \in 1 .. 2 : StopQueue(i) \/ FreeDevice(i)
    \/ \E p \in Packets : Arrive(p)
    \/ RxTake \/ RxDeliver \/ CapsDown \/ CapsUp \/ ReinitRelease \/ ReinitAgain \/ ReinitFails

-----------------------------------------------------------------------------
(* Properties *)

\* When nothing failed, an unload leaves nothing registered and no pointer behind,
\* whatever event was being handled when it began.
UnloadIsClean ==
    life = Idle /\ ~failed => held = {} /\ priv = << Null, Null >> /\ hci = Null

\* And of all uses of what is found in the adapter, only these may meet something that
\* is not there: a transmission while one interface exists and the other does not,
\* serial data that is copied while the rings are freed, the flow control while a slot
\* is empty or its device freed, and, over SPI, whose path opens before the interfaces
\* are added, a packet for an interface that is not registered yet.
OnlyTheseRaces ==
    ~failed => faults \subseteq {"xmit", "serial", "queues"} \cup (IF bus = "spi" THEN {"early"} ELSE {})
=============================================================================
