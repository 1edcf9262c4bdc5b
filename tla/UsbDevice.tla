------------------------------ MODULE UsbDevice ------------------------------
(***************************************************************************)
(* The device stack of TinyUSB that the USB component builds in: usbd_5.c, or     *)
(* usbd_4.c with an older IDF.  The interrupt of the controller (DCD) changes some *)
(* flags and queues events; tud_task takes them one by one, answers control       *)
(* requests and calls the class drivers; other tasks start transfers, which claim   *)
(* their endpoint first.  One class driver serves all endpoints of the model.       *)
(***************************************************************************)
EXTENDS Integers, Sequences, FiniteSets

CONSTANTS
    Endpoints,   \* endpoints of the configuration, endpoint 0 apart
    Writers,     \* tasks that start transfers
    QueueSize,   \* CFG_TUD_TASK_QUEUE_SZ
    MaxEvents    \* bound of the model: events of the controller

DeviceAssumption ==
    /\ IsFiniteSet(Endpoints) /\ Endpoints # {} /\ IsFiniteSet(Writers)
    /\ QueueSize \in Nat \ {0} /\ MaxEvents \in Nat

VARIABLES
    ver,           \* which of the two files is built
    plugged,       \* the cable
    queue,         \* _usbd_q
    task,          \* tud_task: [pc, ev]
    connected, cfg_num, suspended,  \* flags of _usbd_dev
    itf2drv,       \* interfaces are mapped to the driver
    ep2drv,        \* endpoints that are mapped to it
    opened,        \* endpoints the class driver knows
    busy, claimed, stalled,         \* ep_status, as sets of endpoints
    inflight,      \* transfers the controller works on, by endpoint
    writer,        \* where a task is with a transfer: [pc, ep]
    control,       \* what endpoint 0 answers
    happened,      \* the device was cleared, an event was lost, this unplugging was
                   \* missed (history)
    events         \* events so far

usbdVars == << ver, plugged, queue, task, connected, cfg_num, suspended, itf2drv, ep2drv,
               opened, busy, claimed, stalled, inflight, writer, control, happened, events >>

dev == << connected, cfg_num, suspended, itf2drv, ep2drv, busy, claimed, stalled >>

\* Events and, with a setup packet, the request; "none" where there is no endpoint.
Requests == {"setConfig0", "setConfig1", "setConfig2", "halt", "unhalt", "descriptor", "other"}
None == "none"
Ev(id, req, e) == [id |-> id, req |-> req, ep |-> e]
Bus(id) == Ev(id, None, None)
Idle == [pc |-> "idle", ev |-> Bus(None)]
Free == [pc |-> "idle", ep |-> "none"]

\* tud_init, then a cable.
Init ==
    /\ ver \in {4, 5}
    /\ plugged = TRUE /\ queue = << >> /\ task = Idle
    /\ connected = FALSE /\ cfg_num = 0 /\ suspended = FALSE
    /\ itf2drv = FALSE /\ ep2drv = {} /\ opened = {}
    /\ busy = {} /\ claimed = {} /\ stalled = {}
    /\ inflight = [e \in Endpoints |-> 0]
    /\ writer = [w \in Writers |-> Free]
    /\ control = "none" /\ happened = {} /\ events = 0

-----------------------------------------------------------------------------
(* The interrupt: dcd_event_handler *)

\* osal_queue_send, whose failure nobody looks at.
Send(q, e) == IF Len(q) < QueueSize THEN Append(q, e) ELSE q
Queue(e) ==
    /\ queue' = Send(queue, e)
    /\ happened' = IF Len(queue) < QueueSize THEN happened ELSE happened \cup {"lost"}

Event ==
    /\ events < MaxEvents
    /\ events' = events + 1
    /\ UNCHANGED << ver, task, itf2drv, ep2drv, opened, busy, claimed, stalled, writer, control >>

\* A reset or an unplugged cable stops what the controller works on.
dcd_event_bus_reset ==
    /\ plugged /\ Event
    /\ Queue(Bus("reset"))
    /\ inflight' = [e \in Endpoints |-> 0]
    /\ UNCHANGED << plugged, connected, cfg_num, suspended >>

\* usbd_4.c takes an unplugging for a bounce, and passes it over, if no request has been
\* handled since the device was cleared, though one may be waiting (missed).
Bounce == ver = 4 /\ ~connected
RequestWaits == task.ev.id = "setup" \/ \E i \in 1 .. Len(queue) : queue[i].id = "setup"

Unplugged ==
    /\ plugged /\ Event
    /\ plugged' = FALSE
    /\ inflight' = [e \in Endpoints |-> 0]
    /\ IF Bounce
       THEN /\ happened' = IF RequestWaits THEN happened \cup {"missed"} ELSE happened
            /\ UNCHANGED << queue, connected, cfg_num, suspended >>
       ELSE /\ connected' = FALSE /\ cfg_num' = 0 /\ suspended' = FALSE
            /\ Queue(Bus("unplugged"))

Plugged ==
    /\ ~plugged /\ Event
    /\ plugged' = TRUE
    /\ happened' = happened \ {"missed"}
    /\ UNCHANGED << queue, connected, cfg_num, suspended, inflight >>

Suspend ==
    /\ plugged /\ connected /\ ~suspended /\ Event
    /\ suspended' = TRUE
    /\ Queue(Bus("suspend"))
    /\ UNCHANGED << plugged, connected, cfg_num, inflight >>

\* A start of frame also ends a suspension.
Resume ==
    /\ plugged /\ suspended /\ Event
    /\ suspended' = FALSE
    /\ Queue(Bus("resume"))
    /\ UNCHANGED << plugged, connected, cfg_num, inflight >>

dcd_event_setup_received(r, e) ==
    /\ plugged /\ Event
    /\ Queue(Ev("setup", r, e))
    /\ UNCHANGED << plugged, connected, cfg_num, suspended, inflight >>

dcd_event_xfer_complete(e) ==
    /\ inflight[e] > 0
    /\ inflight' = [inflight EXCEPT ![e] = @ - 1]
    /\ Queue(Ev("complete", None, e))
    /\ UNCHANGED << ver, plugged, task, dev, opened, writer, control, events >>

-----------------------------------------------------------------------------
(* tud_task *)

Isr == << plugged, inflight, writer, events >>

Receive ==
    /\ task.pc = "idle" /\ queue # << >>
    /\ queue' = Tail(queue)
    /\ task' = [pc |-> "begin", ev |-> Head(queue)]
    /\ control' = IF Head(queue).id = "setup" THEN "none" ELSE control
    /\ UNCHANGED << ver, dev, opened, happened, Isr >>

Nothing ==
    /\ task.pc = "begin" /\ task.ev.id \in {"suspend", "resume"}
    /\ task' = Idle
    /\ UNCHANGED << ver, queue, dev, opened, control, happened, Isr >>

\* tu_varclr and the invalid mappings.
ClearDevice_keepsMap ==
    /\ connected' = FALSE /\ cfg_num' = 0 /\ suspended' = FALSE
    /\ UNCHANGED << itf2drv, ep2drv >>
    /\ busy' = {} /\ claimed' = {} /\ stalled' = {}
    /\ happened' = happened \cup {"cleared"}

ClearDevice ==
    /\ connected' = FALSE /\ cfg_num' = 0 /\ suspended' = FALSE
    /\ itf2drv' = FALSE /\ ep2drv' = {}
    /\ busy' = {} /\ claimed' = {} /\ stalled' = {}
    /\ happened' = happened \cup {"cleared"}

\* usbd_reset: usbd_5.c resets the drivers and then clears the device, usbd_4.c the
\* other way round.
Resets == task.ev.id \in {"reset", "unplugged"}
ResetDrivers ==
    /\ Resets /\ task.pc = (IF ver = 5 THEN "begin" ELSE "second")
    /\ opened' = {}
    /\ task' = IF ver = 5 THEN [task EXCEPT !.pc = "second"] ELSE Idle
    /\ UNCHANGED << ver, queue, dev, control, happened, Isr >>

configuration_reset ==
    /\ Resets /\ task.pc = (IF ver = 5 THEN "second" ELSE "begin")
    /\ ClearDevice
    /\ task' = IF ver = 5 THEN Idle ELSE [task EXCEPT !.pc = "second"]
    /\ UNCHANGED << ver, queue, opened, control, Isr >>

\* An endpoint whose transfer is complete is free again; the driver is told.
XferComplete ==
    /\ task.pc = "begin" /\ task.ev.id = "complete"
    /\ busy' = busy \ {task.ev.ep} /\ claimed' = claimed \ {task.ev.ep}
    /\ task' = Idle
    /\ UNCHANGED << ver, queue, connected, cfg_num, suspended, itf2drv, ep2drv, stalled,
                    opened, control, happened, Isr >>

\* process_control_request begins: the device counts as connected.
Setup(rs) == task.pc = "begin" /\ task.ev.id = "setup" /\ task.ev.req \in rs
Answer(a) == control' = a /\ task' = Idle

\* Requests that change nothing else are answered if they are known.
Stateless(r) ==
    /\ Setup({r})
    /\ connected' = TRUE
    /\ \E known \in BOOLEAN : Answer(IF known THEN "status" ELSE "stall")
    /\ UNCHANGED << ver, queue, cfg_num, suspended, itf2drv, ep2drv, busy, claimed, stalled,
                    opened, happened, Isr >>

process_get_descriptor == Stateless("descriptor")
Other == Stateless("other")

\* usbd_edpt_stall and usbd_edpt_clear_stall, for the feature ENDPOINT_HALT.  Without a
\* driver the request is not answered at all.  Only usbd_5.c looks whether there is
\* something to do: with usbd_4.c an endpoint at work that is told to go on is not busy.
Halting == task.ev.req = "halt"
IsSo == ver = 5 /\ (task.ev.ep \in stalled) = Halting
Halt ==
    /\ Setup({"halt", "unhalt"})
    /\ connected' = TRUE
    /\ IF IsSo
       THEN UNCHANGED << stalled, busy >>
       ELSE /\ stalled' = IF Halting THEN stalled \cup {task.ev.ep} ELSE stalled \ {task.ev.ep}
            /\ busy' = IF Halting THEN busy \cup {task.ev.ep} ELSE busy \ {task.ev.ep}
    /\ Answer(IF task.ev.ep \in ep2drv THEN "status" ELSE "none")
    /\ UNCHANGED << ver, queue, cfg_num, suspended, itf2drv, ep2drv, claimed, opened, happened,
                    Isr >>

\* SET_CONFIGURATION in usbd_4.c: a device that has a configuration only takes the
\* number.  In usbd_5.c it closes the endpoints and resets the drivers first.
NewConfig == CASE task.ev.req = "setConfig0" -> 0
               [] task.ev.req = "setConfig1" -> 1
               [] task.ev.req = "setConfig2" -> 2
Opens == NewConfig # 0 /\ (ver = 5 \/ cfg_num = 0)
Closes == ver = 5 /\ cfg_num # NewConfig /\ cfg_num # 0

SetConfiguration ==
    /\ Setup({"setConfig0", "setConfig1", "setConfig2"})
    /\ connected' = TRUE
    /\ task' = [task EXCEPT !.pc = IF cfg_num = NewConfig THEN "store"
                                   ELSE IF Closes THEN "close"
                                   ELSE IF Opens THEN "open" ELSE "store"]
    /\ UNCHANGED << ver, queue, cfg_num, suspended, itf2drv, ep2drv, busy, claimed, stalled,
                    opened, control, happened, Isr >>

\* dcd_edpt_close_all and configuration_reset.
CloseAll ==
    /\ task.pc = "close"
    /\ ClearDevice
    /\ opened' = {} /\ inflight' = [e \in Endpoints |-> 0]
    /\ task' = [task EXCEPT !.pc = IF NewConfig # 0 THEN "open" ELSE "store"]
    /\ UNCHANGED << ver, queue, plugged, writer, events, control >>

\* process_set_config: an interface number that is used already is refused; what
\* the drivers have opened by then stays.
process_set_config ==
    /\ task.pc = "open"
    /\ IF itf2drv
       THEN Answer("stall") /\ UNCHANGED << itf2drv, ep2drv, opened >>
       ELSE /\ itf2drv' = TRUE /\ ep2drv' = Endpoints /\ opened' = Endpoints
            /\ task' = [task EXCEPT !.pc = "store"]
            /\ UNCHANGED control
    /\ UNCHANGED << ver, queue, connected, cfg_num, suspended, busy, claimed, stalled,
                    happened, Isr >>

StoreConfig ==
    /\ task.pc = "store"
    /\ cfg_num' = NewConfig
    /\ Answer("status")
    /\ UNCHANGED << ver, queue, connected, suspended, itf2drv, ep2drv, busy, claimed, stalled,
                    opened, happened, Isr >>

-----------------------------------------------------------------------------
(* Tasks that transfer: usbd_edpt_claim, usbd_edpt_release, usbd_edpt_xfer *)

Move(w, pc) == writer' = [writer EXCEPT ![w].pc = pc]
User == << ver, plugged, queue, task, connected, cfg_num, suspended, itf2drv, ep2drv, opened,
           stalled, control, happened, events >>

\* The check before the mutex is taken.
PreCheck(w, e) ==
    /\ writer[w].pc = "idle" /\ e \in opened /\ e \notin busy \cup claimed
    /\ writer' = [writer EXCEPT ![w] = [pc |-> "checked", ep |-> e]]
    /\ UNCHANGED << User, busy, claimed, inflight >>

CanClaim_stale(e) == TRUE
CanClaim(e) == e \notin busy \cup claimed
Claim(w) ==
    /\ writer[w].pc = "checked"
    /\ IF CanClaim(writer[w].ep)
       THEN claimed' = claimed \cup {writer[w].ep} /\ Move(w, "claimed")
       ELSE UNCHANGED claimed /\ Move(w, "idle")
    /\ UNCHANGED << User, busy, inflight >>

\* A driver with nothing to send gives the endpoint back.
Release(w) ==
    /\ writer[w].pc = "claimed"
    /\ claimed' = IF writer[w].ep \in busy THEN claimed ELSE claimed \ {writer[w].ep}
    /\ Move(w, "idle")
    /\ UNCHANGED << User, busy, inflight >>

\* Busy is set before the controller is asked, which may have completed the transfer
\* when it returns.
SetBusy(w) ==
    /\ writer[w].pc = "claimed"
    /\ IF writer[w].ep \in busy
       THEN Move(w, "idle") /\ UNCHANGED busy
       ELSE busy' = busy \cup {writer[w].ep} /\ Move(w, "busy")
    /\ UNCHANGED << User, claimed, inflight >>

DcdXfer(w) ==
    /\ writer[w].pc = "busy"
    /\ inflight' = [inflight EXCEPT ![writer[w].ep] = @ + 1]
    /\ Move(w, "idle")
    /\ UNCHANGED << User, busy, claimed >>

DcdFails(w) ==
    /\ writer[w].pc = "busy"
    /\ busy' = busy \ {writer[w].ep} /\ claimed' = claimed \ {writer[w].ep}
    /\ Move(w, "idle")
    /\ UNCHANGED << User, inflight >>

Next ==
    \/ dcd_event_bus_reset \/ Unplugged \/ Plugged \/ Suspend \/ Resume
    \/ \E e \in Endpoints :
          \/ dcd_event_xfer_complete(e)
          \/ \E r \in Requests : dcd_event_setup_received(r, e)
    \/ Receive \/ process_get_descriptor \/ Other \/ Halt \/ Nothing \/ ResetDrivers
    \/ configuration_reset \/ XferComplete
    \/ SetConfiguration \/ CloseAll \/ process_set_config \/ StoreConfig
    \/ \E w \in Writers :
          \/ \E e \in Endpoints : PreCheck(w, e)
          \/ Claim(w) \/ Release(w) \/ SetBusy(w) \/ DcdXfer(w) \/ DcdFails(w)

Spec == Init /\ [][Next]_usbdVars

-----------------------------------------------------------------------------
(* Properties *)

Owners(e) == { w \in Writers : writer[w].ep = e /\ writer[w].pc \in {"claimed", "busy"} }

\* An endpoint has one owner, from the claim of a task to the event that its transfer
\* is complete, also while the host halts it and lets it go on: with usbd_4.c a request
\* that lets an endpoint go on takes the busy flag from under a transfer, and only the
\* claim keeps the others away.  Clearing the device frees endpoints whose owner is
\* still at work, and nothing is claimed after it.
OneTransfer ==
    "cleared" \notin happened =>
        \A e \in Endpoints : inflight[e] + Cardinality(Owners(e)) <= 1

\* Whenever tud_task has caught up with the interrupt and no event was lost, the driver
\* knows the endpoints that are mapped to it, and with a configuration these are all.
\* Without a cable there are none, unless usbd_4.c took the unplugging for a bounce while
\* a request was waiting, which then configures a device that is gone.
CaughtUp == queue = << >> /\ task = Idle /\ "lost" \notin happened
StackSettles ==
    CaughtUp =>
        /\ cfg_num # 0 => ep2drv = Endpoints /\ opened = Endpoints
        /\ opened = ep2drv /\ itf2drv = (ep2drv = Endpoints)
        /\ ~plugged /\ "missed" \notin happened => cfg_num = 0 /\ opened = {}
=============================================================================
