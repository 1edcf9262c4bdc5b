------------------------------- MODULE UsbNet -------------------------------
(***************************************************************************)
(* The network interface over USB: the ECM and RNDIS class (ecm_rndis_device.c),   *)
(* the answers to RNDIS commands (rndis_reports.c) and the functions the network   *)
(* stack sends with (tusb_net.c).  tud_task handles the transfers and the host's    *)
(* requests, which may halt an endpoint; other tasks send, one packet at a time.   *)
(***************************************************************************)
EXTENDS Integers

CONSTANTS
    Senders,    \* tasks that call pkt_netif2usb
    MaxEvents   \* bound of the model: packets, commands, halts and resets

VARIABLES
    ecm_mode,        \* or RNDIS, by the descriptor
    configured, itf_data_alt, opened,  \* SET_CONFIGURATION, SET_INTERFACE, the data endpoints
    can_xmit, Net_Semphore,
    busy,            \* ep_status of the IN endpoint
    inflight,        \* its transfer: "none", or the length class of what it carries
    inDone,          \* of a transfer that is complete, whose event waits for tud_task
    usb,             \* where tud_task is with the permission to send
    sender,          \* by task
    notif,           \* transfer of the notification endpoint: "none", "report", "nc" or "csc"
    rndis_state,
    reply,           \* an RNDIS answer waits in notify.rndis_buf
    announced,       \* the host has seen a notification and not yet asked (history)
    lost,            \* a packet or a report was refused or dropped, and nothing follows (history)
    overwritten, wrongEp, met, resets,  \* history
    netEvents        \* events so far

netVars == << ecm_mode, configured, itf_data_alt, opened, can_xmit, Net_Semphore, busy, inflight,
              inDone, usb, sender, notif, rndis_state, reply, announced, lost, overwritten,
              wrongEp, met, resets, netEvents >>

permission == << can_xmit, Net_Semphore >>
endpoint == << busy, inflight, inDone >>
control == << notif, rndis_state, reply, announced >>
setting == << ecm_mode, configured, itf_data_alt, opened >>
seen == << overwritten, wrongEp, met >>

Init ==
    /\ ecm_mode \in BOOLEAN
    /\ configured = FALSE /\ itf_data_alt = 0 /\ opened = FALSE
    /\ can_xmit = FALSE /\ Net_Semphore = 1
    /\ busy = FALSE /\ inflight = "none" /\ inDone = "none" /\ usb = "idle"
    /\ sender = [s \in Senders |-> "idle"]
    /\ notif = "none" /\ rndis_state = "uninitialized" /\ reply = FALSE /\ announced = FALSE
    /\ lost = {} /\ overwritten = FALSE /\ wrongEp = FALSE /\ met = FALSE /\ resets = 0
    /\ netEvents = 0

Event == netEvents < MaxEvents /\ netEvents' = netEvents + 1

\* The host asks tud_task for something.
Asked == usb = "idle" /\ configured /\ Event

-----------------------------------------------------------------------------
(* Configuration, by tud_task *)

Ready_forgets == UNCHANGED usb
Ready == usb' = "ready"

\* netd_open: RNDIS opens its endpoints at once, ECM when the host selects them.
netd_open ==
    /\ usb = "idle" /\ ~configured /\ Event
    /\ configured' = TRUE
    /\ opened' = ~ecm_mode
    /\ IF ecm_mode THEN UNCHANGED usb ELSE Ready
    /\ UNCHANGED << ecm_mode, itf_data_alt, permission, endpoint, sender, control, lost, seen,
                    resets >>

\* SET_INTERFACE: endpoints that were opened are not opened again, nor ever closed.
SetInterface(alt) ==
    /\ Asked /\ ecm_mode
    /\ itf_data_alt' = alt
    /\ IF alt = 1 /\ ~opened
       THEN opened' = TRUE /\ Ready
       ELSE UNCHANGED << opened, usb >>
    /\ UNCHANGED << ecm_mode, configured, permission, endpoint, sender, control, lost, seen,
                    resets >>

\* The permission to send is set, and then the semaphore.
Permit ==
    /\ usb \in {"ready", "sent"} /\ usb' = "give"
    /\ can_xmit' = TRUE
    /\ UNCHANGED << setting, Net_Semphore, endpoint, sender, control, lost, seen, resets,
                    netEvents >>

GiveSemaphore ==
    /\ usb = "give" /\ usb' = "idle"
    /\ Net_Semphore' = 1
    /\ UNCHANGED << setting, can_xmit, endpoint, sender, control, lost, seen, resets, netEvents >>

\* netd_reset clears the interface, the stack its endpoints; the permission to send is
\* not part of it.
netd_reset ==
    /\ Asked
    /\ configured' = FALSE /\ itf_data_alt' = 0 /\ opened' = FALSE
    /\ busy' = FALSE /\ inflight' = "none" /\ inDone' = "none"
    /\ notif' = "none" /\ reply' = FALSE /\ announced' = FALSE /\ lost' = {}
    /\ resets' = resets + 1
    /\ UNCHANGED << ecm_mode, permission, usb, sender, rndis_state, seen >>

-----------------------------------------------------------------------------
(* Sending: pkt_netif2usb *)

Step(s, from, to) == sender[s] = from /\ sender' = [sender EXCEPT ![s] = to]

\* tud_network_wait_xmit takes the semaphore and gives it back, or times out.
Take(s) ==
    /\ configured /\ Net_Semphore = 1 /\ Event
    /\ Step(s, "idle", "taken")
    /\ Net_Semphore' = 0
    /\ UNCHANGED << setting, can_xmit, endpoint, usb, control, lost, seen, resets >>

Give(s) ==
    /\ Step(s, "taken", "given")
    /\ Net_Semphore' = 1
    /\ UNCHANGED << setting, can_xmit, endpoint, usb, control, lost, seen, resets, netEvents >>

\* tud_network_can_xmit, and tud_network_xmit, which asks once more.
CanXmit(s) ==
    /\ \/ Step(s, "given", IF can_xmit THEN "may" ELSE "idle")
       \/ Step(s, "may", IF can_xmit THEN "copy" ELSE "idle")
    /\ met' = (met \/ (sender'[s] = "copy" /\ \E t \in Senders \ {s} : sender[t] \in {"copy", "mark"}))
    /\ UNCHANGED << setting, permission, endpoint, usb, control, lost, overwritten, wrongEp,
                    resets, netEvents >>

Copy(s) ==
    /\ Step(s, "copy", "mark")
    /\ overwritten' = (overwritten \/ inflight # "none")
    /\ UNCHANGED << setting, permission, endpoint, usb, control, lost, wrongEp, met, resets,
                    netEvents >>

\* do_in_xfer takes the permission back, then the semaphore,
Mark(s) ==
    /\ Step(s, "mark", "block")
    /\ can_xmit' = FALSE
    /\ UNCHANGED << setting, Net_Semphore, endpoint, usb, control, lost, seen, resets, netEvents >>

Block(s) ==
    /\ Step(s, "block", "xfer")
    /\ Net_Semphore' = 0
    /\ UNCHANGED << setting, can_xmit, endpoint, usb, control, lost, seen, resets, netEvents >>

\* and asks for the transfer, without a look at the result.  A busy endpoint is refused,
\* and the controller may fail; then nothing gives the permission again, unless another
\* transfer is under way.  Without an interface the number of the endpoint is 0, which
\* is that of the control transfers.
usbd_edpt_xfer(len) ==
    \/ /\ opened /\ ~busy
       /\ busy' = TRUE /\ inflight' = len
       /\ UNCHANGED << wrongEp, lost >>
    \/ /\ opened
       /\ lost' = IF inflight = "none" /\ inDone = "none" THEN lost \cup {"data"} ELSE lost
       /\ UNCHANGED << busy, inflight, wrongEp >>
    \/ /\ ~opened
       /\ wrongEp' = TRUE
       /\ UNCHANGED << busy, inflight, lost >>

Xfer(s, len) ==
    /\ Step(s, "xfer", "idle")
    /\ usbd_edpt_xfer(len)
    /\ UNCHANGED << setting, permission, inDone, usb, control, overwritten, met, resets, netEvents >>

\* The host has read the packet; tud_task frees the endpoint and then tells the class.
InComplete ==
    /\ inflight # "none" /\ inDone = "none"
    /\ inDone' = inflight /\ inflight' = "none"
    /\ UNCHANGED << setting, permission, busy, usb, sender, control, lost, seen, resets, netEvents >>

InFree ==
    /\ usb = "idle" /\ inDone # "none"
    /\ inDone' = "none" /\ busy' = FALSE
    /\ usb' = IF inDone = "full" THEN "full" ELSE "sent"
    /\ UNCHANGED << setting, permission, inflight, sender, control, lost, seen, resets, netEvents >>

\* netd_xfer_cb: a packet that fills its last USB packet is ended by an empty one.
EndPacket ==
    \/ /\ usb = "full" /\ usb' = "zlp"
       /\ can_xmit' = FALSE
       /\ UNCHANGED << setting, Net_Semphore, endpoint, sender, control, lost, seen, resets,
                       netEvents >>
    \/ /\ usb = "zlp" /\ usb' = "zlpxfer"
       /\ Net_Semphore' = 0
       /\ UNCHANGED << setting, can_xmit, endpoint, sender, control, lost, seen, resets, netEvents >>
    \/ /\ usb = "zlpxfer" /\ usb' = "idle"
       /\ usbd_edpt_xfer("short")
       /\ UNCHANGED << setting, permission, inDone, sender, control, overwritten, met, resets,
                       netEvents >>

-----------------------------------------------------------------------------
(* Control requests and notifications *)

\* The host halts the IN endpoint, which may drop the transfer, or lets it go on, with
\* usbd_4.c also one that was not halted.
Halt ==
    /\ Asked
    /\ busy' = TRUE
    /\ \/ UNCHANGED << inflight, lost >>
       \/ inflight # "none" /\ inflight' = "none" /\ lost' = lost \cup {"data"}
    /\ UNCHANGED << setting, permission, inDone, usb, sender, control, seen, resets >>

Unhalt ==
    /\ Asked
    /\ busy' = FALSE
    /\ UNCHANGED << setting, permission, inflight, inDone, usb, sender, control, lost, seen, resets >>

\* It halts the notification endpoint, and its transfer is dropped.
HaltNotif ==
    /\ Asked /\ notif # "none"
    /\ notif' = "none" /\ lost' = lost \cup {"report"}
    /\ UNCHANGED << setting, permission, endpoint, usb, sender, rndis_state, reply, announced, seen,
                    resets >>

\* netd_report skips a notification while the last one has not been read; the endpoint
\* may also be halted, or the controller fail.
Report(r) ==
    \/ notif = "none" /\ notif' = r /\ lost' = lost \ {"report"}
    \/ UNCHANGED notif /\ lost' = IF notif = "none" THEN lost \cup {"report"} ELSE lost

\* rndis_class_set_handler, after the data stage of SEND_ENCAPSULATED_COMMAND.
rndis_class_set_handler(msg) ==
    /\ Asked /\ ~ecm_mode
    /\ rndis_state' = CASE msg \in {"initialize", "set_no_filter"} -> "initialized"
                        [] msg = "set_filter" -> "data_initialized"
                        [] msg = "reset" -> "uninitialized"
                        [] msg \in {"query", "keepalive"} -> rndis_state
    /\ reply' = TRUE
    /\ Report("report")
    /\ UNCHANGED << setting, permission, endpoint, usb, seen, sender, announced, resets >>

\* GET_ENCAPSULATED_RESPONSE, by a host that has seen a notification or just polls.
GetResponse ==
    /\ usb = "idle" /\ configured /\ ~ecm_mode
    /\ announced' = FALSE /\ reply' = FALSE /\ lost' = lost \ {"report"}
    /\ UNCHANGED << setting, permission, endpoint, usb, seen, sender, notif, rndis_state, resets,
                    netEvents >>

\* SET_ETHERNET_PACKET_FILTER: the connection is reported, then its speed.
PacketFilter ==
    /\ Asked /\ ecm_mode
    /\ Report("nc")
    /\ UNCHANGED << setting, permission, endpoint, usb, seen, sender, rndis_state, reply, announced,
                    resets >>

NotifRead ==
    /\ usb = "idle" /\ notif # "none"
    /\ \/ notif # "nc" /\ notif' = "none" /\ UNCHANGED lost
       \/ notif = "nc" /\ notif' = "csc" /\ UNCHANGED lost
       \/ notif = "nc" /\ notif' = "none" /\ lost' = lost \cup {"report"}
    /\ announced' = (announced \/ notif = "report")
    /\ UNCHANGED << setting, permission, endpoint, usb, seen, sender, rndis_state, reply, resets,
                    netEvents >>

Next ==
    \/ netd_open \/ netd_reset \/ \E alt \in {0, 1} : SetInterface(alt)
    \/ \E s \in Senders :
          \/ Take(s) \/ Give(s) \/ CanXmit(s) \/ Copy(s) \/ Mark(s) \/ Block(s)
          \/ \E len \in {"short", "full"} : Xfer(s, len)
    \/ InComplete \/ InFree \/ EndPacket \/ Permit \/ GiveSemaphore
    \/ Halt \/ Unhalt \/ HaltNotif
    \/ \E msg \in {"initialize", "query", "set_filter", "set_no_filter", "reset", "keepalive"} :
          rndis_class_set_handler(msg)
    \/ GetResponse \/ PacketFilter \/ NotifRead

-----------------------------------------------------------------------------
(* Properties *)

InXmit == { s \in Senders : sender[s] \in {"mark", "block", "xfer"} }

\* Nobody is sending and tud_task has nothing to say about it.
Quiet == opened /\ inflight = "none" /\ inDone = "none" /\ usb = "idle" /\ InXmit = {}

\* Whenever the data endpoints are open and nothing is being sent, packets may be sent
\* and the semaphore says so, unless a transfer was refused, or dropped by a halt, which
\* ends sending until a reset; before the first reset of the bus no packet goes to
\* endpoint 0, and the buffer of a packet is not written to while it is sent, unless two
\* tasks have found can_xmit set at the same time; and an answer to an RNDIS command has
\* its notification on the way or at the host, unless that was refused or dropped.
NetPathSound ==
    /\ Quiet /\ "data" \notin lost => can_xmit /\ (Net_Semphore = 1 \/ \E s \in Senders : sender[s] = "taken")
    /\ resets = 0 => (overwritten => met) /\ ~wrongEp
    /\ reply /\ "report" \notin lost => notif = "report" \/ announced
=============================================================================
