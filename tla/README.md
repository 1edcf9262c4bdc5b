# Verification of esp-kos-bridge

TLA+ models of the firmware in this repository (an application on top of the ESP
IoT bridge) and of the Linux host driver that comes with it, the TLC runs that
check them on small instances, and TLAPS proofs that hold for every value of the
constants.  `PROJECT.json` maps every definition to the lines it models.

Paths are relative to `src/`; `host/` stands for
`examples/spi_and_sdio_host/host_driver/linux/host_driver/esp32/`, `usb/` for
`components/usb/usb_device/additions/`.

- [1. The system](#1-the-system)
- [2. Modules and how they correspond to the code](#2-modules-and-how-they-correspond-to-the-code)
- [3. Runs, bounds and fairness](#3-runs-bounds-and-fairness)
- [4. Proofs](#4-proofs)
- [5. Disagreements found](#5-disagreements-found)
- [6. What is not modelled](#6-what-is-not-modelled)
- [7. Plan](#7-plan)
- [8. How to run it](#8-how-to-run-it)

## 1. The system

An ESP32 shares one uplink (Wi-Fi, a 4G modem over USB or UART) with hosts that
are attached by SPI, SDIO, USB or Ethernet.  `components/iot_bridge` joins the
network interfaces.  `components/network_adapter` is the ESP32 end (the *slave*)
of the SPI and SDIO links; the other end is a Linux kernel module (`host/`),
which gives the host two network devices, serial character devices and an HCI
device.  `components/usb` makes the ESP32 a USB device (network, serial port,
firmware update, disk, Bluetooth, Web console).  `components/esp_modem` and
`components/esp_usbh_cdc` drive the modem, `components/web_server` and
`components/wifi_prov_mgr` set the station up, and `main/` is the application:
an HTTPS server with web sockets, timers, a log, a console and updates.

| Part | State | Operations | Talks to | Module |
|---|---|---|---|---|
| Host SPI driver (`host/spi/esp_spi.c`, `host/main.c`) | `data_path`, `tx_pending`, `tx_q[]`, stopped network queues, `spi_work` | `write_packet`, `esp_spi_work`, two interrupt handlers, `spi_reinit_spidev` | the slave over SPI and the lines *handshake* and *data-ready*; the kernel's network queues | `SpiHostTx`, `SpiLink` |
| Host card and interfaces (`host/main.c`, `esp_bt.c`) | `adapter.priv`, HCI device, what is registered with the kernel | load, probe, INIT event, unload, removal | kernel; the receive work item | `HostCard` |
| Serial device (`host/esp_serial.c`, `host/esp_rb.c`) | ring buffer, its semaphore and wait queue; `seq_num` | write by kernel, read and write by user, `poll` | the receive work; user processes | `EspRb`, `SerialWrite` |
| Host SDIO driver (`host/sdio/esp_sdio.c`) | credit and byte counters, `tx_pending`, `queue_items[]`, `tx_q[]` | `write_packet`, the thread `tx_process`, `esp_handle_isr`, `read_packet` | the slave's registers and interrupt | `SdioTx`, `SdioRx` |
| Slave SPI (`components/network_adapter/src/spi_slave_api.c`, `network_adapter.c`) | `to_host_queue`, `spi_tx_queue`, `spi_rx_queue`, the two lines, the armed transaction | `send_task`, `recv_task`, the post-process task | lwIP, VHCI, the host | `SpiLink` |
| Slave SDIO and Bluetooth (`sdio_slave_api.c`, `slave_bt.c`) | receive buffers, the VHCI semaphore, UART transfers and callbacks | `sdio_read`, `sdio_reset`, `event_cb`, `recv_task`, `process_hci_rx_pkt` | the host, the controller | `SlaveAdapter` |
| Log (`main/t3ch_log.c`) and viewer (`main/t3ch_httpd.c`) | `log[]`, `LOG_POS`, `log_cnt`, queue; per viewer `fromPos`, `log_lastid` | `t3ch_log`, `t3ch_log_task`, `t3ch_log_del`, the two generators | every task that logs; `wua_task` | `LogRing` |
| Web socket users (`main/t3ch_httpd.c`) | `awuausers[]`, `wua_pos`, one semaphore per slot, queued answers | `wua_add`, `wua_del`, `wss_handler`, `ws_task_*`, `wua_task` | the HTTPS server | `WsUsers` |
| Timers (`main/t3ch_time.c`) | `myt[]`, its copy in NVS, the pins | add, delete, save, load, start, stop, the task | the page, the console | `Timers` |
| Wi-Fi settings (`main/t3ch_wifi.c`) | two keys each in NVS, the driver's settings, the list of a scan | update, apply, scan, boot | the page, the console | `Settings` |
| Updates (`main/t3ch_httpd.c`, `t3ch_ota.c`) | global handle, partition, boot mark | chunks, end task, download | the OTA functions of the SDK | `Update` |
| Status LED (`components/led/led_indicator.c`) | position in every blink list, `active_blink`, timer, mutex | start, stop, runner | any task; the timer task | `LedIndicator` |
| USB CDC host (`components/esp_usbh_cdc/`) | the connection's state machine, URBs, two rings with counters | the two tasks, read, write, install, delete | the host controller driver; the modem | `UsbhCdc` |
| Modem (`components/esp_modem/`, `iot_bridge/src/bridge_modem.c`) | mode, pending command, `ESP_MODEM_COMMAND_BIT`, retries | send, answer, change of mode, dial, recovery | USB; PPP of esp-netif | `Modem`, `ModemUart` |
| Interfaces (`components/iot_bridge/src/bridge_common.c`, `bridge_wifi.c`) | list of interfaces, addresses, MACs, custom checks, leases | create, conflict check and update | esp-netif, DHCP server | `BridgeNetif` |
| Web configuration (`components/web_server/`) | `config_status`, the flag, the timer and event group, list of routers, update | POST requests, timer callback, events of the driver, scan | Wi-Fi driver | `WebServer` |
| Provisioning (`components/wifi_prov_mgr/`) | session status, timer, retries | start, events, timer callback | provisioning manager of the SDK | `WifiProv` |
| USB stack (`usb/src/usbd_4.c`, `usbd_5.c`) | flags of the device, `ep_status`, the event queue | `tud_task`, the interrupt's events, claim, transfer, stall | controller, class drivers | `UsbDevice` |
| USB classes (`usb/src/`, `usb/tusb/src/class/`) | queues, `can_xmit`, DFU context, rings, ACL counters | the callbacks of the classes and the tasks that use them | stack, OTA, network stack, Bluetooth | `UsbVendor`, `UsbDfu`, `UsbNet`, `UsbSerial`, `UsbClasses` |

### What is hard, and what makes each part correct

*Transmit flow control (SPI).*  The counter `tx_pending` is kept beside a queue by
separate atomic operations, by writers in several contexts and one work item; it
decides when the network queues are stopped and woken.  Correct: the counter
never forgets a packet, stays bounded whoever races, and a stopped queue is woken.
A work item sends one packet a run and `queue_work` coalesces: no packet may be
left when nobody will run again.  A reinitialisation zeroes the counter under
traffic.

*The SPI link.*  A packet passes six queues and buffers and five contexts; the host
acts on rising edges only, the slave changes the lines in several places.
Correct: per class and direction the link is a FIFO channel, and no edge that
matters is lost.

*Ring and serial writes.*  Readers and the writer share two pointers under a semaphore, but
`poll` and the wait condition read them without it, while they may be at a value
the code is about to wrap.  Correct: a FIFO queue, and no sleeper over data.
Fragments carry a number that the next call changes: the receiver must be able to
tell messages apart.

*SDIO.*  Flow control is the difference of two counters that wrap (credits in one
direction, bytes in the other), started from wherever the slave is; the interrupt
is cleared after the work item has been queued.  Correct: the host writes only into
buffers that exist, reads whole packets, loses no interrupt.

*Card.*  Loading, an INIT event and unloading meet without a lock.  Correct: what was
taken is given back once, and nothing that is gone is used.

*Log, users, timers, settings, updates.*  Tasks, requests and the console share arrays,
handles and keys without a lock; the array of the log moves under its reader; a reset
comes between two writes.  Correct: nothing kept is skipped, nothing new shown twice; the list
holds who is logged in; a pin is on for a timer; a name keeps its password; what boots is
whole.

*USB host.*  The device may go at any step of the enumeration or the teardown; port
events are consumed in the waits for pipe events; two tasks tear down together;
byte counters trail the rings.  Correct: data in order and once, no URB forgotten,
one data task at a time, the port is recovered.

*Modem.*  Answers carry no name; a late one meets the next command; three parties change
the mode.  Correct: a command ends with its own answer, and driver and modem agree.  Behind a
UART, the change of mode flushes and re-arms a driver whose events the event task still handles: lines stay
whole, and no data of a call is taken for them.

*Interfaces.*  Addresses change while another task searches for a free one.  Correct:
segments and MAC addresses stay apart, and the clients of a segment follow it.

*Set-up and provisioning.*  Timers, events and requests belong to attempts that they do
not name.  Correct: somebody watches every attempt, a result is about the attempt it is
reported for, an end ends its own session.

*USB device.*  Endpoint flags are shared by an interrupt, `tud_task` and other tasks;
bus events queue up behind older ones; class drivers keep state across requests that the
host may break off.  Correct: one owner per endpoint, stack and drivers agree, data stays
in order, an update that boots is what the host was told.

The hazards are in `PROJECT.json` at their lines, with the properties that would notice.

## 2. Modules and how they correspond to the code

Every access to memory that another context may change is a step of its own; code
between two of them is one action.  A lock, a queue of FreeRTOS or a semaphore is
modelled by what it guarantees.  Variables keep the names of the code; a variable
marked *(history)* has no counterpart and is only read by properties.

### Host driver and slave

**`SpiHostTx`** — the host's transmit path over SPI.  A writer is `write_packet`
(`EnterWrite`, then the check, the queueing, the increment and the kick as steps),
for the network devices 0 and 1 and for any set of users who ignore the stopped
queues.  `WorkStep` is `esp_spi_work`, `SlaveReady` the next handshake edge,
`ReinitStep` is `spi_reinit_spidev`, which closes the data path, zeroes the counter
and opens it again.  Packets are counted, not followed.  `smp` says whether writers
are interleaved with the work item step by step (several CPUs, or a kernel built with PREEMPT
that takes the CPU from a writer in process context, an HCI or serial user) or each runs to its
end first (`ThreadMayRun`: one CPU and such a preemption left out).  It is a premise about the
scheduling, no code.

**`SpiLink`** — both ends of the SPI link with the packets.  A packet is its class and
number.  `SendTask`, `PostProcess` and `RecvTask` are the slave's tasks, `SpiWork`
is `esp_spi_work` with the full duplex transfer, `RxWork` is `esp_if_rx_work`,
`Reinit` the change of clock that the INIT event can ask for.
**`FifoChannel`** is what the link promises: a channel that delivers in order, and may
lose (only when `lossy`).  `SpiLink` implements it three times, by refinement
mappings that list all the places a packet can be in.

**`EspRb`** — the ring buffer and its users.  The writer is
`process_rx_packet` with its retry loop, `esp_serial_data_received` with its own, and
`esp_rb_write_by_kernel` with the two copies.  A reader blocks, does not block or
polls; it can be interrupted, and its copy can fail.  Pointers are offsets, and the
moment in which one of them stands at the end of the buffer is a state.
**`ByteQueue`** is what it promises: a bounded FIFO queue.
**`SerialWrite`** is the other direction, `esp_serial_write` by several tasks.

**`SdioTx`** — `write_packet`, `tx_process` and the slave's buffers.  `Ask` reads the
credit register (or fails to: `misread`), `Write` succeeds, fails without having reached the slave, or
fails after the slave has taken a buffer for it (`uncounted`), `Reload` is
the slave giving a buffer back.  The two counters wrap at `TokenMax` and start
anywhere.
**`SdioRx`** — `sdio_write`, `esp_handle_isr` and `read_packet`: the length counter
wraps at `ByteMax`; the bus is claimed as in the code, also by an unnamed third.

**`HostCard`** — loading and unloading are programs of steps (`spi_init`, `esp_probe`,
`spi_exit`, `esp_remove`), each of which may fail where the code checks for it; an interface is
inserted into the adapter, named and registered in three steps (`adding`).  Beside them
the receive work item handles packets, the INIT event registers the HCI device and sets
the SPI device up again, users transmit, and the flow control stops and wakes the queues of
both slots.  A pointer whose object is gone is *dead*, one whose object is not yet registered
*early*; the last use of one is recorded in `faults`.

**`SlaveAdapter`** — the slave's receive buffers with `recv_task`, its interface states with the
host's interrupt, `sdio_reset` with its error returns and its loop, which may take the finished
send of `send_task` and load it (`sending` is then "lost") or restart the slave, and the two ways
to the Bluetooth controller.

### Application (`main/`)

**`LogRing`** — `t3ch_log`, the task that numbers and appends (`Receive`, `Shift` one
slot at a time, `AppendLine`), and one viewer: old lines from the newest down
(`Old…`), then the new (`New…`); a send succeeds, is put off, or fails.  A line is its
id.

**`WsUsers`** — the server's task (requests, queued answers) against `wua_task` (ping, lag, info
loop, log).  Deleting a slot moves one entry, as the code does (`clean` says that no deletion
has hit an earlier slot than the last two).  **`Timers`** — the task switches the pins by an
array that a page edits, at any position and without a limit; the text in NVS is erased before
it is written, each call of which may fail unnoticed, and a reset can come at every step, after
which a missing text is read from memory that nobody wrote.  A timer written outside the array ends
the behaviour (`beyond`): nothing is said of what follows.  **`Settings`** — two writers with handles of their own, name and password as two
writes, the start of the device, the scan with its flag.  **`Update`** — uploads by chunks
of pieces, the task that ends them, downloads; the OTA functions are external.

**`LedIndicator`** — `Call` (start and stop under the mutex), `Expire` and
`_blink_list_runner` for the timer task and the callers; which step lights what is
left out.

### Bridge, modem, set-up

**`UsbhCdc`** — `Processing` is `_usb_processing_task`: power on, the events of the port,
reset, the control requests (counted by `Requests`, each with its time-out),
creation of the data task, teardown, recovery.  `DataTask` is `_cdc_data_task` with
the two pipe handlers; `Reader` and `Writer` are `usbh_cdc_read_bytes` and
`usbh_cdc_write_bytes`, where the ring and its counter change in two steps.
`DriverDelete` sets the bit and waits.  Data is counted in units.  The host
controller driver is external; assumed of it, from the calls made here: a port
operation or an URB is refused unless the port is enabled, unplugging puts the port
in recovery at once and returns no URB before the pipes are closed by their owner,
and `hcd_port_recover` works only in recovery.  The status of a control transfer is
ignored, as the code does (`esp_usbh_cdc.c:778`).  A behaviour ends (`broken`) where
the code fails an assertion or uses an URB that has been freed.

**`Modem`** — the exchange of commands and answers (`Send`, `RxRead`, `RxCheck`, `RxCall`, `RxBit`,
`Complete`), above it the two tasks that dial: each is at a `step` of its program, and the result
of a command (`ok`, `fail`, `timeout`) decides the next.  The modem answers, does not answer, or
answers late.  An answer carries the task it is for, which the code cannot see.
**`ModemUart`** — the transport that CMake takes instead of USB with `CONFIG_BRIDGE_MODEM_UART`: characters in the
FIFO and the buffer of the driver, positions of line ends, the queue of events, the event task
between its read of a length, a mode or a position and its read of the bytes, and each step of
`esp_modem_dte_change_mode` (interrupts, flush, pattern) in the task that sends.  A command is no more here
than its answer; `Modem` has the rest.

**`BridgeNetif`** — creation of an interface in three steps (search of a segment, address, insertion
into the list), the `GOT_IP` event with `conflict_update` one interface at a time, clients of
the soft AP.  **`WebServer`** — the HTTP task serves one request at a time; the timer callback
publishes, stops and deletes in separate steps; events of the driver are answers to attempts.
**`WifiProv`** — a session from its start to the END event, the provisioning manager external.

### USB device

**`UsbDevice`** — `tud_task` takes the events of the interrupt one by one; a task claims an endpoint,
starts the transfer and loses it to the completion; bus reset, cable, configuration, halt.  `ver`
chooses between the two versions of the stack, which differ in `SET_CONFIGURATION`, in the order
of a reset, in what a halt does to the flags (`IsSo`: only `usbd_5.c` looks whether there is something
to do) and in whether an unplugging can be passed over as a bounce (`Bounce`: `usbd_4.c`, until a
request has been handled).  **`UsbVendor`** (two tasks arm the same endpoints), **`UsbDfu`** (the state
machine of the standard with the callbacks that write the image and read it back, through one buffer), **`UsbNet`**
(senders, where each access to `can_xmit` and the semaphore is a step; transfers that are refused,
because the endpoint is busy or the controller fails, or dropped by a halt; RNDIS answers),
**`UsbSerial`** (set-up, ring, readers; the console, whose calls nothing keeps in order),
**`UsbClasses`** (disk, Bluetooth).

### Composition

`MCSdio`, `MCFirmware`, `MCApplication`, `MCBridge`, `MCUsb` and `MCHost` put parts together that
share no variable with each other.  In a behaviour of theirs one part moves, chosen in the
initial state by `part` (or `direction`), and the others keep an initial state: the product of
independent parts would only multiply the states, and each part has the others in its
environment where they matter (the bus in `SdioRx`, the handle that another update replaces in
`Update`).  Parts that do share state are one module: both ends of the link in `SpiLink`, both tasks and
the event loop in `Modem`, page, console and start in `Settings`.

`MCSpiHostTx` and `MCSpiLink` give the specification the bounds and fairness of a run; `MCHost`, `MCSdio`,
`MCFirmware` and `MCUsb` extend one of their parts and take the others as instances.

The eight `*_proofs` modules hold the theorems, each about the MC module of its parts.  Definitions with a name such as
`Poll_onlyEvents` are deliberately wrong variants of the definition after them; no
specification uses them.  They show that the properties can fail.


## 3. Runs, bounds and fairness

| Run | Module, configuration | What it asks | Bounds |
|---|---|---|---|
| `host_tx_flow` | `MCSpiHostTx`, `SpiHostTx_flow.cfg` | the transmit counter, the pause and resume decisions, the kick of the work item, recovery of stopped network queues | two network devices, a serial user, limits 2 and 1, one HCI packet; no reinit and no failed transfer, which are part of `host_life` (`FlowNext` in `MCSpiHostTx` is what is left of `Next` without them) |
| `link_channels` | `MCSpiLink`, `SpiLink_channels.cfg` | each class and direction of the SPI link is a FIFO channel, what is signalled is served | queues of one, two packets from the slave (one is the INIT event), two from the host, one clock change |
| `serial_ring` | `MCEspRb`, `EspRb_ring.cfg` | the ring is a FIFO queue and no reader sleeps over data | 3 bytes, two packets of two bytes, two readers, reads of 1 and 3, three modes |
| `sdio_both` | `MCSdio`, `Sdio_both.cfg` | credits, byte counters, the transmit counter, the interrupt | counters that wrap at 3 and 4, two buffers, of which the host reckons one; packets of 1 to 3 bytes in blocks of 2 |
| `firmware` | `MCFirmware`, `Firmware.cfg` | the log with its viewer; the USB host driver with a device that comes and goes | log of 3 and 5 lines, queue of 2; URBs 1 in and 2 out, 2 units each way, 2 plugs, 1 failure |
| `application` | `MCApplication`, `Application.cfg` | timers, web socket users, Wi-Fi settings, updates | 3 timers with 3 edits between resets, any position deleted, days of 3 hours; 3 connections, 4 requests; lists of 2 with 0, 1 or 3 found, 3 changes, 2 scans; 3 requests for uploads of 3 chunks with 2 pieces (so that one can be skipped) or for downloads; 1 reset |
| `bridge` | `MCBridge`, `Bridge.cfg` | modem, interfaces, set-up, provisioning | 2 time-outs and 1 error, 2 dials; soft AP, one more server and an external interface, 2 leases, 2 checks; 3 routers, 2 posts; 3 sessions, 2 retries, 3 events |
| `host_life` | `MCHost`, `Host.cfg` | the transmit counter over a reinit and a failed transfer; loading and unloading; serial messages; the slave's receive path | one reinit, one failure, 2 loads, 2 packets; 2 tasks with 3 messages of up to 3 fragments and 2 sequence numbers; 3 buffers |
| `usb_device` | `MCUsb`, `Usb.cfg` | the stack, its endpoints and the class drivers; the UART of the modem | 1 endpoint, 2 tasks, event queue of 2 with 4 events; partition of 2 blocks, 9 requests; 3 packets and 4 connects; ring of 3; pieces of 8 bytes up to 30; UART: FIFO of 4, 3 commands, 1 line unasked, 1 character of data |
| `link_ready` | `MCSpiLink`, `SpiLink_ready.cfg` | *fails*: a queued packet is always announced (section 5) | three packets of the slave |
| `usb_replug` | `UsbhCdc`, `UsbhCdc_replug.cfg` | *fails*: the URBs in the static list are live | one unit each way, two plugs |
| `led_stop` | `MCLedIndicator`, `LedIndicator_stop.cfg` | *fails*: a stopped blink stays stopped | one task, two lists |

**Why these bounds are enough for the cases of interest.**  A queue, a ring or a limit is
given the smallest size at which it is empty, partly filled and full, and there are more
packets, lines or units than that, so that it fills, blocks and wraps: the log of three
slots gets five lines, so slots are moved twice; the credit counter wraps at 3 with two
buffers; the ring holds one packet and the second wraps around it.  The limits of the
transmit path are as far apart as the code needs (`TX_RESUME_THRESHOLD` below
`TX_MAX_PENDING_COUNT`), and there are more writers than the limit.  There are two of whoever
can race: writers, readers, tasks that dial, tasks that write messages, changes of settings.
A session, a plug, a load or an update happens at least twice, so that what one leaves
behind meets the next.  Faults (a failed transfer, a time-out, a reset) are few, each
at every step where the code can meet it.  Sequence numbers wrap at 2
(`Numbers`) where the code has 16 bits, so that a number comes again while its first message is still
there to be taken for another.  Each bound is a constant in the guard
of the action it limits.

**Deadlock** is checked in `host_tx_flow`, `sdio_both` and `led_stop`.  In the others a behaviour may
end: the packets, requests or resets of the instance have been used up, the driver has been
deleted, or the program has aborted.

**Symmetry** is used for the connections (`application`) and for the tasks (`usb_device`).  These runs
check invariants only, and nothing in the model orders the elements.

**Fairness** is stated only where a liveness property needs it.

| Where | Assumed | Because |
|---|---|---|
| `SpiHostTx` | weak: a writer inside `write_packet`, the slave's next transaction, the steps of a reinit; strong: the work item | a writer that has entered returns, the slave arms a transaction as long as it runs; on one CPU softirqs interrupt the work item again and again, yet it is scheduled again each time |
| `SpiLink` | weak: each task and each work item | each has a thread of its own, woken by a queue or an edge |
| `EspRb` | weak: the work item; strong: each reader | semaphores of the kernel are handed out in the order of the requests |
| `SdioRx` | strong: interrupt handler and work item; weak: release of the bus | `sdio_claim_host` queues who asks for the bus, and each holder releases it |
| `UsbhCdc` | weak: the two tasks, a write that has begun, the device taking bulk-out data | tasks of FreeRTOS that wait with a time-out; a device that never takes data has no bulk-out to finish |
| `WebServer` | weak: the waiting request, the timer, unless the handle is undefined | `esp_timer` runs a callback that is due |
| `WifiProv` | weak: the steps of start and stop, the event loop, an armed timer, unless aborted | as above |

Nothing is assumed of users, hosts, phones, networks and cables beyond this.

**Premises.**  Where the code does not keep a property in every case, the property names the
case it excludes, and the run takes the step that leads there.

- `CountersSound` and `NetdevsRecover` (SPI) are for one CPU and no preemption of a writer by the work item
  (`~ smp`): otherwise the decrement can come before the increment.  What holds on several CPUs is `CounterCovers` and `ResumeDecisionSound`.
  `NetdevsRecover` asks that the users whom nothing stops pause some day; `NoLostKick` is until
  the first reinit or failed transfer.
- `SignalledIsServed` is outside the change of clock, in which edges are ignored.
- `CreditsSafe` is until the credit register cannot be read; a failed write that reached the slave is
  one of the `uncounted` buffers by which the host is then over, `ReadsMatch` and `SendCompletes`
  until a read of data fails.
- `ViewIsExact` excludes a viewer under whose feet the array has moved (`raced`), or who missed a page.  It does not say
  that an old line is shown once: the pages are counted from an end that each new line moves, and the property
  says that there are at most as many repetitions as lines appended in the meantime (`OldRepeatsAccount`).
- `OwnAnswers`, `ModesAgree`: not after a late answer, or when both tasks dialled at once.
- `InterfacesApart`: segments not when two searches raced, all were taken, or a check came late.
- `SetupIsWatched`, `ReportsAreTrue`: not when a callback crossed a request (`crossed`), or the
  answer to an older attempt was on its way (`stale`).  `SessionsApart`: not after a late END.
- `SettingsSound`: not when two writers have met, or a reset came between two writes.
  `TimersSound`: not when a deletion or a stop met the task at work, or a deletion named
  no timer (`strayed`).  `ListIsExact`: until an entry
  before the last two is deleted, or two at a time.  `TakenIsSending`: until an info loop failed.  `BootsWhole`: until two updates overlap.
- `ReceivePathSound`: messages of one task at a time, none cut short, and the numbers of two that follow each other
  differ unless as many writes as there are numbers failed in between.  `CardSound`: `OnlyTheseRaces`
  names the uses of what is gone or not there yet that the code allows without any failure: a transmission while one
  interface exists and the other does not, serial data copied while the rings are freed, the flow control while a slot is
  empty or its device freed, and, over SPI, a packet for an interface that is being added.  `ReceivePathSound` counts one
  buffer too many after a reset that took a finished send.
- In `DriversSound`, whole lines are not promised after a time-out or an overflow, or when an event, a read or
  characters were on their way at the change to command mode (`stale`).
- `OneTransfer` is until the device is cleared, `StackSettles` until an event is lost, and without a cable until
  `usbd_4.c` passes over an unplugging while a request waits (`missed`).
  `DfuIsFaithful`: not after a download that was given up, or a block that was read back between the
  sending of one and the question how it went.  `NetPathSound`: "may send" until a transfer is refused or dropped (`lost`),
  which ends sending until a reset; `ConsoleIsServed` and
  `DriversSound` likewise name the overtaken packet, the split piece.

## 4. Proofs

The theorems hold for every value of the constants that the named assumptions allow (sizes are
positive, thresholds are ordered, sets of users are finite where they are counted, a USB device has
an endpoint, "free" is nobody's name).  No proof
rests on anything else.  A theorem is stated of the specification that the run takes: where an MC
module puts parts side by side, a step of `MCNext` is a step of one part and leaves the others alone, and
the theorem about the part (`SessionsKeepApart`, `UpdatesBootWhole`, ...) is carried over.

| Module | Theorems | Inductive invariant and why it is needed |
|---|---|---|
| `Host_proofs`: `SpiHostTx` | `PendingBounded`, `PendingCovers`, `TxQueueBounded`, `ResumeSound`, `CountersAreSound`, `NoKickIsLost` | `CountInv`: `tx_pending` plus who has queued and not yet counted is the queue plus who has taken and not yet subtracted.  `OneCpuInv` adds what a writer on one CPU cannot see.  `KickInv`: a packet in the queue has somebody *minded* to run the work item, or a handshake to come.  `OneMoves`, `NobodyMoves`, `TwoPlaces` are the theory of the number of writers in a place |
| `Host_proofs`: `SerialWrite`, `SlaveAdapter` | `HostReceivePathSound` | `WriteInv`: what the last fragment tells (`LastInv`).  A message that follows has a number that is `d` steps later, where `d` and the tasks that have not counted yet (`Counters`) are at most the messages in between (`After`); so it differs as long as `d` is below `Numbers`.  `SlaveInv`: buffers loaded, filled and in hand are all there are, and one more after a reset that took a send |
| `Host_proofs`: `HostCard` | `HostCardSound` | `CardInv`: while nothing failed, what is held, what `priv` and the HCI device point to and whether the path is open are functions of the step the loading or unloading thread has reached (`Within`), on each bus; except that the SPI device is `Gone` in the middle of a reinit.  After the flush no work item runs, and a device that was looked up is there until its packet is delivered |
| `SpiLink_proofs` | `LinkIsFifo`, `EveryEdgeIsServed` | `LinkInv` says which place is filled at which step of the tasks, so that the mappings, which concatenate all places a packet can be in, change by one element at an end, or not at all: each of the actions is shown to be a step of every `FifoChannel` or a stutter.  `LinesServed`: both lines high means that `esp_spi_work` is queued |
| `EspRb_proofs` | `PointersAreExact`, `RingImplementsQueue` | `RingInv`: who holds the semaphore (`LockInv`), how far a copy has come (`CopyInv`), what the pointers leave free.  `DataInv`: the bytes between the pointers are the queue of `ByteQueue`; each step maps to a step of the queue or a stutter |
| `Sdio_proofs` | `WritesHaveBuffers`, `CountersAreSound`, `SdioReadsAreWhole` | `CreditInv`: the difference of the two wrapping counters is at most the buffers loaded and those that failed writes took; if a reload makes it wrap, there are buffers for the whole width.  `CountInv`: as above, with writers in three places.  `RxInv`: the difference of the byte counters is what the slave has left, at every step of the handler and of the work item |
| `Firmware_proofs`: `LogRing` | `FirmwareIdsAccount`, `FirmwareViewIsExact` | `RingInv`: identifiers descend also in the middle of a shift.  `ViewInv`: what a place of a walk means while lines come: the old lines shown descend without a gap, new ones join one by one.  `RepeatInv`: what has been repeated and what the pages to come overlap is at most what was appended |
| `Firmware_proofs`: `UsbhCdc` | `FirmwareTeardown`, `FirmwareUsbAccounts` | `CdcCtl`: which of the two tasks is where, and what exists then.  On top of it `Lengths` (a counter is its ring, give or take the one who has changed only one of them), `InFlow` and `OutFlow` (a unit is in one of its places, and they are in order one behind the other), `UrbList` (a URB is with the driver, in the list or done) |
| `Application_proofs` | `ApplicationBootsWhole`, `ApplicationListIsExact`, `ApplicationTakenIsSending` | `UpdateInv`: one handle open, owned by one upload, sealed only when complete.  `ListInv`: the slots before `wua_pos` are the members in their order, no two alike, and one slot is always left; a taken semaphore is that of a sender at its step |
| `Application_proofs`: `Timers`, `Settings` | `ApplicationTimersSound`, `ApplicationSettingsSound` | `TimerInv`: no timer lies within a later one of its pin, so each stored one is taken again at a restart; while a deletion shifts the list one slot is a hole; a pin that is on has a timer marked as running, or is just being switched off.  `SettingsInv`: a key that nothing has parted has at most one writer, whose name is stored while it is between its two parts; a list that is filled only gets shorter, down to the fewest found; one task scans, unless two have met |
| `Bridge_proofs`: `WifiProv` | `BridgeSessionsKeepApart` | `ProvInv`: where a session's timer and manager exist, by the step of its start and the events still queued |
| `Bridge_proofs`: `WebServer` | `BridgeSetupIsWatched`, `BridgeReportsAreTrue` | `WatchInv`: the timer of the handle is the only one, by the step of the request and of the callback.  `RoundInv`: the time left and the tries it is good for.  `AnswerInv`: the flag and the event bit tell of the current attempt |
| `Bridge_proofs`: `Modem` | `BridgeOwnAnswers`, `BridgeModesAgree` | `ExchangeInv`: what is on the wire and in the receiving task is one command of the one task that acts (`OneActs`), or its answer.  `ModeInv`: in transition only within a change.  `RealInv`: the modem is in data mode only where the driver is or a dial or an escape is under way |
| `Bridge_proofs`: `BridgeNetif` | `BridgeInterfacesApart` | `ServerInv`: live servers have segments of their own that the checks allow.  `ConflictInv`: who shares its segment with an external interface is going to be seen by an event in the queue or by the scan under way.  `ClientInv`: leases follow the segment.  `MacInv`: a MAC address found is new, because the other servers are at most three and there are four addresses besides the base (the pigeonhole of the library; `Smallest` says that the loop stops at the first) |
| `Usb_proofs`: `UsbDevice` | `UsbEndpointsHaveOneOwner`, `UsbStackSettles` | `DeviceInv`: the flags of an endpoint say who owns it (`AloneInv`), over halts and events still in the queue.  `StackInv`: what is open and mapped follows the step of the configuration (`ConfigInv`), and while a cable is out either nothing is configured or the event of it is in the queue with no request behind it (`UnplugInv`), where a device that is not connected is as good as new or about to be (`BounceInv`) |
| `Usb_proofs`: `UsbDfu`, `UsbNet` | `UsbDfuIsFaithful`, `UsbNetPathSound` | `DfuInv`: in the middle of a download what was sent is what was written, but for the block in the buffer while it waits to be flashed; outside of one no handle is open.  `NetInv`: until a reset, and as long as no two tasks have met, who may send or does finds no transfer; an open interface may send, or a transfer is coming or under way whose end lets it (`Coming`), until one is refused or dropped, also after a reset |
| `Usb_proofs`: `UsbVendor` | `UsbConsoleIsServed` | `VendorInv`: packets are numbered, and those that were read, wait in the queue, are in the endpoint or in the hands of the callback follow each other; an endpoint is armed only with room behind it, and one task at a time is between the check and the arming, unless `raced` |
| `Usb_proofs`: `UsbSerial`, `UsbClasses` | `UsbSerialSound`, `UsbClassesSound` | `SerialInv`: the ring holds the last chunks stored, and what a reader holds ends where it would go on (`ReadInv`).  `ClassInv`: device and host agree on how much has come, and what is left of a packet is its length modulo the piece, so the device, which counts some bytes too many, still waits for a last piece of more than those |
| `Usb_proofs`: `ModemUart` | `UsbLinesAreWhole`, `UsbDriversSound` | `UartInv`: `SenderModes` says which interrupts are enabled at which step of the sender.  While nothing was left behind (`Followed`), each position queued is that of a line end in the buffer and has one event before those of data (`EventInv`, `EndInv`), and buffer, FIFO and wire together are whole lines with data behind them (`LineInv`); a read up to a line end leaves such a stream (`LinesLeft`) and loses no later position (`NothingGone`).  Between a hang-up and its flush nothing is known and nothing is handled as a line; the flush starts it over |

The other theorems in these modules (type correctness, the invariants themselves, the parts on their
own) are steps on the way.

**Only model-checked.**  Liveness (`NetdevsRecover`, `EverythingArrives`, `SleeperIsWoken`, `SendCompletes`,
`UsbGoesOn`, `SetupsEnd`) is beyond the prover, which knows no ENABLED.  Every invariant of a
passing run is stated by a theorem.

## 5. Disagreements found

Three runs show that the code does not do what the repository says of it.

- **`link_ready`** (`spi_slave_api.c:281`).  `get_next_tx_buffer` looks into the queues, finds them empty and
  lowers data-ready.  A packet that `send_task` queues in between has raised the line before: it is lowered
  with a packet queued, and the host hears of it only with the next one.
- **`usb_replug`** (`esp_usbh_cdc.c:870`).  The list of URBs that wait for data is static and survives the
  connection whose end frees them; the next connection writes into freed memory.
- **`led_stop`** (`led_indicator.c:291`).  The runner counts the step outside the mutex and so overwrites
  the stop that `led_indicator_stop` made in between.

What follows are behaviours of the code that the models contain; nothing in the
repository promises otherwise, so no run is made of them.

*Host.*  `esp_if_rx_work` takes one packet per run and queued works coalesce: packets wait for the next
(`host/main.c:540`).  The retry for a full serial ring stores bytes again that were
stored (`esp_serial.c:200`), or spins in the work item (`main.c:408`).  The slave's
handshake stays high after a failed transaction (`esp_spi.c:311`).  `esp_serial_write` reads
`seq_num`, which the other tasks count, for each fragment.  Over SPI the data path is open before the interfaces are added
(`esp_spi.c:409`, `:467`), and `esp_tx_pause` dereferences slots that may be empty (`main.c:485`).  HCI frames can be queued where nothing takes them (`esp_spi.c:262`).

*Slave.*  `sdio_reset` loads the finished *send* handles as receive buffers, and the sender waits without end; `VHCI_MAX_TIMEOUT_MS` is passed
as ticks.

*Application.*  `wua_del` moves one entry where all that follow must move.  `time_timer_save` erases the key
before it writes it.  Positions and the size of the array are not checked.  A timer over midnight is off from its start to midnight; a stop leaves its pins on.  Name and
password are two keys without a lock; `t3ch_wifi_scan_number` only shrinks.  Update handle,
partition and URL are globals of all uploads: a chunk 0 while one is open leaves its handle, and the task that
ends an upload ends the handle of the moment.

*Bridge.*  Data-forwarding interfaces get a MAC address before the station exists; the station can be given the
same.  A search for a segment that finds none uses an uninitialised address.  An answer after the time-out ends
the next command.  The timer of a set-up publishes its result before it deletes the global handle, which
can be that of the next set-up by then.  A time of 10 s leaves no time to connect, and
the timer is refused.  The END event of a provisioning session can end the next one.

A `UART_DATA` event of the call that is handled in command mode takes a line's position and then takes
a second one: the line after it is added to it, or, without one, the answer is thrown away
(`esp_modem_dte_uart.c:153`, `:125`).  A flush between the read of the length and the read of the bytes
makes the event task wait for them without end (`:149`, `:352`).

*USB.*  An unplug before the pipes are made fails an assertion (`esp_usbh_cdc.c:984`).  A download over DFU that
was given up keeps its handle; the next image is appended.  Vendor tasks arm endpoints without a claim.  An upload
writes into the buffer of the downloads in any state (`dfu_device.c:308`): between a block and the poll, what is flashed is
the image read back.  `do_in_xfer` clears `can_xmit` and ignores a transfer that is refused (`ecm_rndis_device.c:122`);
nothing sets it again before a reset, which it survives.  `READ10` before
`READ CAPACITY` divides by zero.  In `usbd_4.c`, configuration 0 and then 1 stalls, and an unplugging that comes while the first
request waits is passed over: the request then configures a device without a cable (`usbd_4.c:1024`).
A console that is initialised twice stays registered after both deinitialisations; deinitialised without streams it passes
NULL to `freopen` (`tusb_console.c:82`).

## 6. What is not modelled

- Contents and format: web pages, JSON, command texts, AT strings, descriptors, checksums, and the helpers for
  them (`t3ch_functions.c`, libb64, `crc_t.h`).  What a decision depends on is kept (an answer, a length, a type).
- Time as a quantity (sensors, debouncing, blink lengths), and memory exhaustion except where the code has a
  path for it that changes state.
- Of the UART transport of the modem: `send_wait`, which reads a prompt in the place of the event task, the cut of a
  line at `line_buffer_size`, parity, frame and break errors, which are only logged.
- The pages that are registered only without `ENABLE_WSS` (`t3ch_config.h:22` has it on).
- Ethernet and Bluetooth interfaces of the bridge, which fill in a driver structure; ioctls and statistics of the host.
- `led_indicator_delete` and the list of LED handles: one LED is made and never deleted.
- The HID class and vendored TinyUSB files outside `additions/` and the classes named above.
- Halts of the vendor class's endpoints by the host, and a transfer of it that the controller refuses
  (`vendor_device.c:124`): what is then in `epin_buf` is lost.
- The walk over lists after an item was freed (`web_server.c:599`, `:307`): undefined behaviour whose outcome depends on the
  allocator; the models go on as if the list were still readable.
- Examples of components, scripts and patches.

Code that is not in the repository is external, with what the calls here rely on: queues, semaphores, timers and OTA of
ESP-IDF, its host controller driver and provisioning manager, the kernel's work queues and network core.

## 7. Plan

Done: all the modules of section 2, and the proofs of section 4.  What remains:

1. `SpiHostTx` inside `SpiLink`, if the instance stays small enough for TLC.

## 8. How to run it

In this directory, with the TLA+ tools, the community modules and TLAPS 1.4.5:

    tlc -workers 2 -config SpiHostTx_flow.cfg MCSpiHostTx
    tlapm Host_proofs.tla

and likewise for the other rows of the tables.  The longest runs (`firmware`, `usb_device`, `sdio_both`, `application`) take
about three minutes with two workers, the longest proofs (`Host_proofs`, `Firmware_proofs`, `Bridge_proofs`, `SpiLink_proofs`, `Usb_proofs`) up to ten minutes each.
