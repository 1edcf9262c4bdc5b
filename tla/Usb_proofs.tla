------------------------------- MODULE Usb_proofs -------------------------------
(***************************************************************************)
(* Proofs about the parts of the USB device that MCUsb puts together, each for every   *)
(* value of its constants.                                                     *)
(***************************************************************************)
EXTENDS MCUsb, FiniteSetTheorems, SequenceTheorems, WellFoundedInduction, TLAPS

(***************************************************************************)
(* UsbDevice.  The use of an endpoint passes from the task that claimed it to the       *)
(* controller, to the event in the queue and to tud_task, which ends it.  The invariant   *)
(* says that only one of them has it, and that the claim lasts as long.              *)
(***************************************************************************)

WriterPC == {"idle", "checked", "claimed", "busy"}
TaskPC == {"idle", "begin", "second", "close", "open", "store"}

\* What is sent to tud_task.
Events ==
    [id : {"reset", "unplugged", "suspend", "resume"}, req : {None}, ep : {None}]
      \cup [id : {"setup"}, req : Requests, ep : Endpoints]
      \cup [id : {"complete"}, req : {None}, ep : Endpoints]

TypeInv ==
    /\ queue \in Seq(Events)
    /\ task \in [pc : TaskPC, ev : Events \cup {Bus(None)}]
    /\ inflight \in [Endpoints -> Nat]
    /\ writer \in [Writers -> [pc : WriterPC, ep : Endpoints \cup {"none"}]]
    /\ \A w \in Writers : writer[w].pc # "idle" => writer[w].ep \in Endpoints

\* A task has the endpoint; its event waits, at one place or more; tud_task handles it.
Owns(w, e) == writer[w].ep = e /\ writer[w].pc \in {"claimed", "busy"}
IsComplete(i, e) == queue[i].id = "complete" /\ queue[i].ep = e
Handles(e) == task.pc = "begin" /\ task.ev.id = "complete" /\ task.ev.ep = e

\* The owner of an endpoint is alone.
TaskAlone(e) ==
    \A w \in Writers : Owns(w, e) =>
        /\ \A v \in Writers : Owns(v, e) => v = w
        /\ inflight[e] = 0 /\ ~Handles(e)
        /\ \A i \in 1 .. Len(queue) : ~IsComplete(i, e)

\* So is a transfer of the controller,
ControllerAlone(e) ==
    /\ inflight[e] <= 1
    /\ inflight[e] = 1 => ~Handles(e) /\ \A i \in 1 .. Len(queue) : ~IsComplete(i, e)

\* and the event of one that is complete.
EventAlone(e) ==
    /\ \A i, j \in 1 .. Len(queue) : IsComplete(i, e) /\ IsComplete(j, e) => i = j
    /\ Handles(e) => \A i \in 1 .. Len(queue) : ~IsComplete(i, e)

\* Whoever has it, it is claimed.
Claimed(e) ==
    \/ \E w \in Writers : Owns(w, e)
    \/ inflight[e] = 1 \/ Handles(e)
    \/ \E i \in 1 .. Len(queue) : IsComplete(i, e)
    => e \in claimed

Alone(e) == TaskAlone(e) /\ ControllerAlone(e) /\ EventAlone(e) /\ Claimed(e)
AloneInv == "cleared" \notin happened => \A e \in Endpoints : Alone(e)

DeviceInv == TypeInv /\ AloneInv

-----------------------------------------------------------------------------
LEMMA InitDevice == Init => DeviceInv
<1> SUFFICES ASSUME Init
             PROVE  DeviceInv
  OBVIOUS
<1>1. queue = << >> /\ task = Idle /\ inflight = [e \in Endpoints |-> 0]
      /\ writer = [w \in Writers |-> Free]
  BY Zenon DEF Init
<1>2. TypeInv
  BY <1>1 DEF TypeInv, Idle, Free, WriterPC, TaskPC
<1>3. \A e \in Endpoints : Alone(e)
  BY <1>1 DEF Alone, TaskAlone, ControllerAlone, EventAlone, Claimed, Owns, Handles, IsComplete,
              Idle, Free
<1>4. QED
  BY <1>2, <1>3 DEF DeviceInv, AloneInv

-----------------------------------------------------------------------------
(* Types *)

\* The queue of events grows by an event or by nothing.
LEMMA SendType ==
    ASSUME NEW q \in Seq(Events), NEW x \in Events
    PROVE  Send(q, x) \in Seq(Events)
  BY DEF Send

LEMMA BusIsEvent ==
    ASSUME NEW id \in {"reset", "unplugged", "suspend", "resume"}
    PROVE  Bus(id) \in Events
  BY DEF Bus, Ev, Events

\* Every step keeps the types.
LEMMA NextTypes == TypeInv /\ [Next]_usbdVars => TypeInv'
<1> SUFFICES ASSUME TypeInv, [Next]_usbdVars
             PROVE  TypeInv'
  OBVIOUS
<1> DEFINE Rest == UNCHANGED << queue, task, inflight, writer >>
<1>1. CASE Rest
  BY <1>1 DEF TypeInv
<1>2. ASSUME NEW x \in Events, queue' = Send(queue, x), UNCHANGED << task, writer >>,
             inflight' \in [Endpoints -> Nat]
      PROVE  TypeInv'
  BY <1>2, SendType DEF TypeInv
<1>3. CASE dcd_event_bus_reset \/ Unplugged \/ Suspend \/ Resume
  <2>1. /\ UNCHANGED << task, writer >>
        /\ inflight' = inflight \/ inflight' = [e \in Endpoints |-> 0]
        /\ \/ queue' = queue
           \/ \E id \in {"reset", "unplugged", "suspend", "resume"} : queue' = Send(queue, Bus(id))
    BY <1>3, Zenon DEF dcd_event_bus_reset, Unplugged, Suspend, Resume, Queue, Event
  <2>2. inflight' \in [Endpoints -> Nat]
    BY <2>1 DEF TypeInv
  <2>3. CASE queue' = queue
    BY <2>1, <2>2, <2>3 DEF TypeInv
  <2>4. QED
    BY <1>2, <2>1, <2>2, <2>3, BusIsEvent
<1>4. CASE Plugged
  BY <1>1, <1>4 DEF Plugged, Event
<1>5. ASSUME NEW r \in Requests, NEW e \in Endpoints, dcd_event_setup_received(r, e)
      PROVE  TypeInv'
  <2>1. Ev("setup", r, e) \in Events
    BY DEF Ev, Events
  <2>2. /\ UNCHANGED << task, writer >> /\ inflight' = inflight
        /\ queue' = Send(queue, Ev("setup", r, e))
    BY <1>5, Zenon DEF dcd_event_setup_received, Queue, Event
  <2>3. QED
    BY <1>2, <2>1, <2>2 DEF TypeInv
<1>6. ASSUME NEW e \in Endpoints, dcd_event_xfer_complete(e)
      PROVE  TypeInv'
  <2>1. Ev("complete", None, e) \in Events
    BY DEF Ev, Events
  <2>2. /\ UNCHANGED << task, writer >>
        /\ inflight[e] > 0 /\ inflight' = [inflight EXCEPT ![e] = @ - 1]
        /\ queue' = Send(queue, Ev("complete", None, e))
    BY <1>6, Zenon DEF dcd_event_xfer_complete, Queue
  <2>3. inflight' \in [Endpoints -> Nat]
    BY <2>2 DEF TypeInv
  <2>4. QED
    BY <1>2, <2>1, <2>2, <2>3
<1>7. CASE Receive
  <2>1. /\ UNCHANGED << inflight, writer >> /\ queue # << >>
        /\ queue' = Tail(queue) /\ task' = [pc |-> "begin", ev |-> Head(queue)]
    BY <1>7, Zenon DEF Receive, Isr
  <2>2. QED
    BY <2>1 DEF TypeInv, TaskPC
<1>8. ASSUME UNCHANGED << queue, writer >>,
             inflight' = inflight \/ inflight' = [e \in Endpoints |-> 0],
             task' = Idle \/ \E to \in TaskPC : task' = [task EXCEPT !.pc = to]
      PROVE  TypeInv'
  <2>1. task' \in [pc : TaskPC, ev : Events \cup {Bus(None)}]
    BY <1>8 DEF TypeInv, Idle, TaskPC
  <2>2. inflight' \in [Endpoints -> Nat]
    BY <1>8 DEF TypeInv
  <2>3. QED
    BY <1>8, <2>1, <2>2 DEF TypeInv
<1>9. CASE process_get_descriptor \/ Other \/ Halt \/ Nothing \/ XferComplete \/ StoreConfig
  BY <1>8, <1>9, Zenon DEF process_get_descriptor, Other, Stateless, Halt, Nothing, XferComplete,
                           StoreConfig, Answer, Isr
<1>10. CASE ResetDrivers \/ configuration_reset \/ SetConfiguration \/ CloseAll \/ process_set_config
  <2>1. UNCHANGED << queue, writer >>
    BY <1>10, Zenon DEF ResetDrivers, configuration_reset, SetConfiguration, CloseAll,
                        process_set_config, Isr
  <2>2. inflight' = inflight \/ inflight' = [e \in Endpoints |-> 0]
    BY <1>10, Zenon DEF ResetDrivers, configuration_reset, SetConfiguration, CloseAll,
                        process_set_config, Isr
  <2>3. task' = Idle \/ \E to \in TaskPC : task' = [task EXCEPT !.pc = to]
    BY <1>10, Zenon DEF ResetDrivers, configuration_reset, SetConfiguration, CloseAll,
                        process_set_config, Answer, TaskPC
  <2>4. QED
    BY <1>8, <2>1, <2>2, <2>3
<1>11. ASSUME NEW w \in Writers, NEW e \in Endpoints, PreCheck(w, e)
       PROVE  TypeInv'
  <2>1. /\ UNCHANGED << queue, task, inflight >>
        /\ writer' = [writer EXCEPT ![w] = [pc |-> "checked", ep |-> e]]
    BY <1>11, Zenon DEF PreCheck, User
  <2>2. QED
    BY <2>1 DEF TypeInv, WriterPC
<1>12. ASSUME NEW w \in Writers, NEW to \in WriterPC, Move(w, to),
              to = "idle" \/ writer[w].pc # "idle",
              UNCHANGED << queue, task >>, inflight' \in [Endpoints -> Nat]
       PROVE  TypeInv'
  BY <1>12 DEF TypeInv, Move
<1>13. ASSUME NEW w \in Writers, Claim(w) \/ Release(w) \/ SetBusy(w) \/ DcdFails(w)
       PROVE  TypeInv'
  <2>1. UNCHANGED << queue, task, inflight >>
    BY <1>13, Zenon DEF Claim, Release, SetBusy, DcdFails, User
  <2>2. Move(w, "idle") \/ (writer[w].pc # "idle" /\ (Move(w, "claimed") \/ Move(w, "busy")))
    BY <1>13 DEF Claim, Release, SetBusy, DcdFails
  <2>3. QED
    BY <1>12, <2>1, <2>2 DEF TypeInv, WriterPC
<1>14. ASSUME NEW w \in Writers, DcdXfer(w)
       PROVE  TypeInv'
  <2>1. /\ UNCHANGED << queue, task >> /\ writer[w].pc = "busy" /\ Move(w, "idle")
        /\ inflight' = [inflight EXCEPT ![writer[w].ep] = @ + 1]
    BY <1>14, Zenon DEF DcdXfer, User
  <2>2. inflight' \in [Endpoints -> Nat]
    BY <2>1 DEF TypeInv
  <2>3. QED
    BY <1>12, <2>1, <2>2 DEF WriterPC
<1>15. CASE UNCHANGED usbdVars
  BY <1>1, <1>15 DEF usbdVars
<1>16. QED
  BY <1>3, <1>4, <1>5, <1>6, <1>7, <1>9, <1>10, <1>11, <1>13, <1>14, <1>15 DEF Next

-----------------------------------------------------------------------------
(* One owner *)

\* What is cleared or lost stays so in the history, and without a cable what is missed.
LEMMA HistoryGrows ==
    [Next]_usbdVars =>
        /\ happened \ {"missed"} \subseteq happened'
        /\ ~plugged' /\ "missed" \notin happened' => plugged \/ "missed" \notin happened
<1> SUFFICES ASSUME [Next]_usbdVars
             PROVE  /\ happened \ {"missed"} \subseteq happened'
                    /\ ~plugged' /\ "missed" \notin happened' => plugged \/ "missed" \notin happened
  OBVIOUS
<1>1. CASE \/ dcd_event_bus_reset \/ Unplugged \/ Plugged \/ Suspend \/ Resume
           \/ \E e \in Endpoints : \/ dcd_event_xfer_complete(e)
                                   \/ \E r \in Requests : dcd_event_setup_received(r, e)
  BY <1>1 DEF dcd_event_bus_reset, Unplugged, Plugged, Suspend, Resume, dcd_event_xfer_complete,
              dcd_event_setup_received, Queue
<1>2. CASE \/ Receive \/ process_get_descriptor \/ Other \/ Halt \/ Nothing \/ ResetDrivers
           \/ configuration_reset \/ XferComplete
           \/ SetConfiguration \/ CloseAll \/ process_set_config \/ StoreConfig
  BY <1>2 DEF Receive, process_get_descriptor, Other, Stateless, Halt, Nothing, ResetDrivers,
              configuration_reset, ClearDevice, XferComplete, SetConfiguration, CloseAll,
              process_set_config, StoreConfig
<1>3. CASE \E w \in Writers :
              \/ \E e \in Endpoints : PreCheck(w, e)
              \/ Claim(w) \/ Release(w) \/ SetBusy(w) \/ DcdXfer(w) \/ DcdFails(w)
  BY <1>3 DEF PreCheck, Claim, Release, SetBusy, DcdXfer, DcdFails, User
<1>4. CASE UNCHANGED usbdVars
  BY <1>4 DEF usbdVars
<1>5. QED
  BY <1>1, <1>2, <1>3, <1>4 DEF Next

\* Nobody who did not have the endpoint has it after the step.
NoNewUse(e) ==
    /\ \A w \in Writers : Owns(w, e)' => Owns(w, e)
    /\ inflight'[e] \in {0, inflight[e]}
    /\ Handles(e)' => Handles(e)
    /\ \A i \in 1 .. Len(queue') : IsComplete(i, e)' => i \in 1 .. Len(queue) /\ IsComplete(i, e)

LEMMA NoNewUseKeeps ==
    ASSUME NEW e \in Endpoints, Alone(e), NoNewUse(e), e \in claimed => e \in claimed'
    PROVE  Alone(e)'
<1>1. TaskAlone(e)'
  BY DEF TaskAlone, Alone, NoNewUse
<1>2. ControllerAlone(e)'
  BY DEF ControllerAlone, Alone, NoNewUse
<1>3. EventAlone(e)'
  BY DEF EventAlone, Alone, NoNewUse
<1>4. Claimed(e)'
  BY DEF Claimed, Alone, NoNewUse
<1>5. QED
  BY <1>1, <1>2, <1>3, <1>4 DEF Alone

\* An event that is no end of a transfer is queued, or nothing is.
LEMMA OtherEvent ==
    ASSUME TypeInv, NEW x \in Events, x.id # "complete", NEW e \in Endpoints,
           queue' = Send(queue, x) \/ queue' = queue
    PROVE  \A i \in 1 .. Len(queue') : IsComplete(i, e)' => i \in 1 .. Len(queue) /\ IsComplete(i, e)
<1>1. queue \in Seq(Events)
  BY DEF TypeInv
<1>2. CASE queue' = queue
  BY <1>2 DEF IsComplete
<1>3. CASE queue' = Append(queue, x)
  <2>1. /\ Len(queue') = Len(queue) + 1 /\ queue'[Len(queue) + 1] = x
        /\ \A i \in 1 .. Len(queue) : queue'[i] = queue[i]
    BY <1>1, <1>3
  <2>2. QED
    BY <1>1, <2>1 DEF IsComplete
<1>4. QED
  BY <1>2, <1>3 DEF Send

\* The interrupt, but for the end of a transfer.
LEMMA InterruptKeeps ==
    ASSUME TypeInv, NEW e \in Endpoints, Alone(e),
           \/ dcd_event_bus_reset \/ Unplugged \/ Plugged \/ Suspend \/ Resume
           \/ \E x \in Endpoints, r \in Requests : dcd_event_setup_received(r, x)
    PROVE  Alone(e)'
<1>1. /\ UNCHANGED << task, writer, claimed >>
      /\ inflight' = inflight \/ inflight' = [x \in Endpoints |-> 0]
  BY Zenon DEF dcd_event_bus_reset, Unplugged, Plugged, Suspend, Resume, dcd_event_setup_received,
               Event
<1>2. \E x \in Events : x.id # "complete" /\ (queue' = Send(queue, x) \/ queue' = queue)
  <2>1. \A id \in {"reset", "unplugged", "suspend", "resume"} : Bus(id) \in Events /\ Bus(id).id # "complete"
    BY BusIsEvent DEF Bus, Ev
  <2>2. \A r \in Requests, x \in Endpoints :
            Ev("setup", r, x) \in Events /\ Ev("setup", r, x).id # "complete"
    BY DEF Ev, Events
  <2>3. \/ \E id \in {"reset", "unplugged", "suspend", "resume"} : queue' = Send(queue, Bus(id))
        \/ \E r \in Requests, x \in Endpoints : queue' = Send(queue, Ev("setup", r, x))
        \/ queue' = queue
    BY Zenon DEF dcd_event_bus_reset, Unplugged, Plugged, Suspend, Resume, dcd_event_setup_received,
                 Queue
  <2>4. QED
    BY <2>1, <2>2, <2>3
<1>3. \A i \in 1 .. Len(queue') : IsComplete(i, e)' => i \in 1 .. Len(queue) /\ IsComplete(i, e)
  BY <1>2, OtherEvent
<1>4. inflight'[e] \in {0, inflight[e]}
  BY <1>1
<1>5. NoNewUse(e)
  BY <1>1, <1>3, <1>4 DEF NoNewUse, Owns, Handles
<1>6. QED
  BY <1>1, <1>5, NoNewUseKeeps

\* A transfer that is complete passes its endpoint to the queue, if there is room.
LEMMA CompleteKeeps ==
    ASSUME TypeInv, NEW e \in Endpoints, Alone(e), NEW x \in Endpoints, dcd_event_xfer_complete(x)
    PROVE  Alone(e)'
<1> DEFINE ev == Ev("complete", None, x)
<1>1. /\ UNCHANGED << task, writer, claimed >>
      /\ inflight[x] > 0 /\ inflight' = [inflight EXCEPT ![x] = @ - 1]
      /\ queue' = Send(queue, ev)
  BY Zenon DEF dcd_event_xfer_complete, Queue, dev
<1>2. queue \in Seq(Events) /\ inflight \in [Endpoints -> Nat] /\ ev \in Events
  BY DEF TypeInv, Ev, Events
<1>3. CASE queue' = queue
  <2>1. inflight'[e] \in {0, inflight[e]}
    BY <1>1, <1>2 DEF Alone, ControllerAlone
  <2>2. NoNewUse(e)
    BY <1>1, <1>3, <2>1 DEF NoNewUse, Owns, Handles, IsComplete
  <2>3. QED
    BY <1>1, <2>2, NoNewUseKeeps
<1>4. CASE queue' = Append(queue, ev)
  <2>1. /\ Len(queue') = Len(queue) + 1 /\ queue'[Len(queue) + 1] = ev
        /\ \A i \in 1 .. Len(queue) : queue'[i] = queue[i]
        /\ Len(queue) \in Nat
    BY <1>2, <1>4
  <2>2. CASE e # x
    <3>1. inflight'[e] = inflight[e]
      BY <1>1, <1>2, <2>2
    <3>2. \A i \in 1 .. Len(queue') : IsComplete(i, e)' => i \in 1 .. Len(queue) /\ IsComplete(i, e)
      BY <2>1, <2>2 DEF IsComplete, Ev
    <3>3. NoNewUse(e)
      BY <1>1, <3>1, <3>2 DEF NoNewUse, Owns, Handles
    <3>4. QED
      BY <1>1, <3>3, NoNewUseKeeps
  <2>3. CASE e = x
    <3>1. inflight[e] = 1 /\ inflight'[e] = 0
      BY <1>1, <1>2, <2>3 DEF Alone, ControllerAlone
    <3>2. /\ \A i \in 1 .. Len(queue) : ~IsComplete(i, e)
          /\ ~Handles(e) /\ \A w \in Writers : ~Owns(w, e)
          /\ e \in claimed
      BY <3>1 DEF Alone, ControllerAlone, TaskAlone, Claimed
    <3>3. /\ ~Handles(e)' /\ \A w \in Writers : ~Owns(w, e)'
          /\ e \in claimed'
      BY <1>1, <3>2 DEF Handles, Owns
    <3>4. \A i \in 1 .. Len(queue') : IsComplete(i, e)' => i = Len(queue) + 1
      BY <2>1, <3>2 DEF IsComplete
    <3>5. QED
      BY <3>1, <3>3, <3>4 DEF Alone, TaskAlone, ControllerAlone, EventAlone, Claimed
  <2>4. QED
    BY <2>2, <2>3
<1>5. QED
  BY <1>1, <1>3, <1>4 DEF Send

\* tud_task takes the oldest event, and with it the endpoint.
LEMMA ReceiveKeeps ==
    ASSUME TypeInv, NEW e \in Endpoints, Alone(e), Receive
    PROVE  Alone(e)'
<1>1. /\ UNCHANGED << inflight, writer, claimed >> /\ queue # << >>
      /\ queue' = Tail(queue) /\ task' = [pc |-> "begin", ev |-> Head(queue)]
  BY Zenon DEF Receive, Isr, dev
<1>2. queue \in Seq(Events) /\ inflight \in [Endpoints -> Nat]
  BY DEF TypeInv
<1>3. /\ Len(queue') = Len(queue) - 1 /\ Len(queue) \in Nat /\ Len(queue) > 0
      /\ \A i \in 1 .. Len(queue') : queue'[i] = queue[i + 1]
      /\ Head(queue) = queue[1]
  BY <1>1, <1>2
<1>4. \A i \in 1 .. Len(queue') : IsComplete(i, e)' => i + 1 \in 1 .. Len(queue) /\ IsComplete(i + 1, e)
  BY <1>3 DEF IsComplete
<1>5. Handles(e)' => 1 \in 1 .. Len(queue) /\ IsComplete(1, e)
  BY <1>1, <1>3 DEF Handles, IsComplete
<1>6. \A w \in Writers : Owns(w, e)' <=> Owns(w, e)
  BY <1>1 DEF Owns
<1>7. TaskAlone(e)'
  BY <1>1, <1>4, <1>5, <1>6 DEF Alone, TaskAlone
<1>8. ControllerAlone(e)'
  BY <1>1, <1>4, <1>5 DEF Alone, ControllerAlone
<1>9. EventAlone(e)'
  <2>1. \A i \in 1 .. Len(queue') : i + 1 # 1
    BY <1>3
  <2>2. \A i, j \in 1 .. Len(queue') : IsComplete(i, e)' /\ IsComplete(j, e)' => i = j
    BY <1>3, <1>4 DEF Alone, EventAlone
  <2>3. Handles(e)' => \A i \in 1 .. Len(queue') : ~IsComplete(i, e)'
    BY <1>4, <1>5, <2>1 DEF Alone, EventAlone
  <2>4. QED
    BY <2>2, <2>3 DEF EventAlone
<1>10. Claimed(e)'
  BY <1>1, <1>4, <1>5, <1>6 DEF Alone, Claimed
<1>11. QED
  BY <1>7, <1>8, <1>9, <1>10 DEF Alone

\* And it ends the use.
LEMMA XferCompleteKeeps ==
    ASSUME TypeInv, NEW e \in Endpoints, Alone(e), XferComplete
    PROVE  Alone(e)'
<1>1. /\ task.pc = "begin" /\ task.ev.id = "complete"
      /\ claimed' = claimed \ {task.ev.ep} /\ task' = Idle
      /\ UNCHANGED << queue, inflight, writer >>
  BY Zenon DEF XferComplete, Isr
<1>2. NoNewUse(e)
  BY <1>1 DEF NoNewUse, Owns, IsComplete, Handles, Idle
<1>3. CASE e # task.ev.ep
  BY <1>1, <1>2, <1>3, NoNewUseKeeps
<1>4. CASE e = task.ev.ep
  <2>1. Handles(e)
    BY <1>1, <1>4 DEF Handles
  <2>2. ~Handles(e)'
    BY <1>1 DEF Handles, Idle
  <2>3. /\ \A i \in 1 .. Len(queue) : ~IsComplete(i, e)
        /\ inflight[e] <= 1 /\ inflight[e] # 1 /\ \A w \in Writers : ~Owns(w, e)
    BY <2>1 DEF Alone, EventAlone, ControllerAlone, TaskAlone
  <2>4. /\ \A i \in 1 .. Len(queue') : ~IsComplete(i, e)'
        /\ inflight'[e] <= 1 /\ inflight'[e] # 1 /\ \A w \in Writers : ~Owns(w, e)'
    BY <1>1, <2>3 DEF IsComplete, Owns
  <2>5. QED
    BY <2>2, <2>4 DEF Alone, TaskAlone, ControllerAlone, EventAlone, Claimed
<1>5. QED
  BY <1>3, <1>4

\* The other steps of tud_task leave transfers alone.
LEMMA TaskKeeps ==
    ASSUME TypeInv, NEW e \in Endpoints, Alone(e),
           \/ process_get_descriptor \/ Other \/ Halt \/ Nothing \/ ResetDrivers
           \/ SetConfiguration \/ process_set_config \/ StoreConfig
    PROVE  Alone(e)'
<1>1. UNCHANGED << queue, inflight, writer, claimed >>
  BY Zenon DEF process_get_descriptor, Other, Stateless, Halt, Nothing, ResetDrivers, SetConfiguration,
               process_set_config, StoreConfig, Isr, dev
<1>2. task' = Idle \/ \E to \in TaskPC \ {"begin"} : task' = [task EXCEPT !.pc = to]
  BY Zenon DEF process_get_descriptor, Other, Stateless, Halt, Nothing, ResetDrivers, SetConfiguration,
               process_set_config, StoreConfig, Answer, TaskPC
<1>3. Handles(e)' => Handles(e)
  BY <1>2 DEF Handles, Idle, TypeInv, TaskPC
<1>4. NoNewUse(e)
  BY <1>1, <1>3 DEF NoNewUse, Owns, IsComplete
<1>5. QED
  BY <1>1, <1>4, NoNewUseKeeps

\* A task moves on, or goes back to idle; nobody else does.
LEMMA OneMoves ==
    ASSUME TypeInv, NEW w \in Writers, NEW to, Move(w, to)
    PROVE  /\ \A v \in Writers \ {w}, e \in Endpoints : Owns(v, e)' <=> Owns(v, e)
           /\ \A e \in Endpoints :
                 Owns(w, e)' <=> writer[w].ep = e /\ to \in {"claimed", "busy"}
  BY DEF TypeInv, Move, Owns

\* What the others have stays as it is, and the task goes on without the endpoint.
LEMMA OthersStay ==
    ASSUME TypeInv, NEW e \in Endpoints, Alone(e), NEW w \in Writers, NEW to, Move(w, to),
           UNCHANGED << queue, task >>, inflight' = inflight,
           e # writer[w].ep \/ to = "idle" \/ Owns(w, e),
           e \in claimed => e \in claimed'
    PROVE  Alone(e)'
<1>1. \A v \in Writers : Owns(v, e)' => Owns(v, e)
  BY OneMoves
<1>2. NoNewUse(e)
  BY <1>1 DEF NoNewUse, Handles, IsComplete
<1>3. QED
  BY <1>2, NoNewUseKeeps

\* A check takes nothing.
LEMMA PreCheckKeeps ==
    ASSUME TypeInv, NEW e \in Endpoints, Alone(e),
           NEW w \in Writers, NEW x \in Endpoints, PreCheck(w, x)
    PROVE  Alone(e)'
<1>1. /\ writer[w].pc = "idle" /\ writer' = [writer EXCEPT ![w] = [pc |-> "checked", ep |-> x]]
      /\ UNCHANGED << queue, task, claimed, inflight >>
  BY Zenon DEF PreCheck, User
<1>2. \A v \in Writers : Owns(v, e)' => Owns(v, e)
  BY <1>1 DEF TypeInv, Owns
<1>3. NoNewUse(e)
  BY <1>1, <1>2 DEF NoNewUse, Handles, IsComplete
<1>4. QED
  BY <1>1, <1>3, NoNewUseKeeps

\* A claim finds nobody at the endpoint, since whoever has it has claimed it.
LEMMA ClaimKeeps ==
    ASSUME TypeInv, NEW e \in Endpoints, Alone(e), NEW w \in Writers, Claim(w)
    PROVE  Alone(e)'
<1>1. /\ writer[w].pc = "checked" /\ UNCHANGED << queue, task, inflight >>
      /\ \/ /\ writer[w].ep \notin claimed /\ claimed' = claimed \cup {writer[w].ep}
            /\ Move(w, "claimed")
         \/ claimed' = claimed /\ Move(w, "idle")
  BY Zenon DEF Claim, CanClaim, User
<1>2. CASE claimed' = claimed /\ Move(w, "idle")
  BY <1>1, <1>2, OthersStay
<1>3. CASE e # writer[w].ep /\ claimed' = claimed \cup {writer[w].ep} /\ Move(w, "claimed")
  BY <1>1, <1>3, OthersStay
<1>4. CASE /\ e = writer[w].ep /\ e \notin claimed
           /\ claimed' = claimed \cup {e} /\ Move(w, "claimed")
  <2>1. /\ \A v \in Writers : ~Owns(v, e)
        /\ inflight[e] # 1 /\ ~Handles(e)
        /\ \A i \in 1 .. Len(queue) : ~IsComplete(i, e)
    BY <1>4 DEF Alone, Claimed
  <2>2. inflight[e] = 0
    BY <2>1 DEF Alone, ControllerAlone, TypeInv
  <2>3. /\ \A v \in Writers : Owns(v, e)' => v = w
        /\ inflight'[e] = 0 /\ ~Handles(e)'
        /\ \A i \in 1 .. Len(queue') : ~IsComplete(i, e)'
        /\ e \in claimed'
    BY <1>1, <1>4, <2>1, <2>2, OneMoves DEF Handles, IsComplete
  <2>4. QED
    BY <2>3 DEF Alone, TaskAlone, ControllerAlone, EventAlone, Claimed
<1>5. QED
  BY <1>1, <1>2, <1>3, <1>4

\* An owner that gives the endpoint up leaves it to nobody.
LEMMA GivesUp ==
    ASSUME TypeInv, NEW e \in Endpoints, Alone(e), NEW w \in Writers, Owns(w, e),
           Move(w, "idle"), UNCHANGED << queue, task, inflight >>
    PROVE  Alone(e)'
<1>1. /\ \A v \in Writers : Owns(v, e) => v = w
      /\ inflight[e] = 0 /\ ~Handles(e)
      /\ \A i \in 1 .. Len(queue) : ~IsComplete(i, e)
  BY DEF Alone, TaskAlone
<1>2. /\ \A v \in Writers : ~Owns(v, e)'
      /\ inflight'[e] = 0 /\ ~Handles(e)'
      /\ \A i \in 1 .. Len(queue') : ~IsComplete(i, e)'
  BY <1>1, OneMoves DEF Handles, IsComplete
<1>3. QED
  BY <1>2 DEF Alone, TaskAlone, ControllerAlone, EventAlone, Claimed

LEMMA ReleaseKeeps ==
    ASSUME TypeInv, NEW e \in Endpoints, Alone(e), NEW w \in Writers,
           Release(w) \/ DcdFails(w)
    PROVE  Alone(e)'
<1>1. /\ writer[w].pc \in {"claimed", "busy"} /\ Move(w, "idle")
      /\ UNCHANGED << queue, task, inflight >>
      /\ claimed' = claimed \/ claimed' = claimed \ {writer[w].ep}
  BY Zenon DEF Release, DcdFails, User
<1>2. CASE e # writer[w].ep
  BY <1>1, <1>2, OthersStay
<1>3. CASE e = writer[w].ep
  BY <1>1, <1>3, GivesUp DEF Owns
<1>4. QED
  BY <1>2, <1>3

LEMMA SetBusyKeeps ==
    ASSUME TypeInv, NEW e \in Endpoints, Alone(e), NEW w \in Writers, SetBusy(w)
    PROVE  Alone(e)'
<1>1. /\ writer[w].pc = "claimed" /\ (Move(w, "idle") \/ Move(w, "busy"))
      /\ UNCHANGED << queue, task, inflight, claimed >>
  BY Zenon DEF SetBusy, User
<1>2. e # writer[w].ep \/ Owns(w, e)
  BY <1>1 DEF Owns
<1>3. QED
  BY <1>1, <1>2, OthersStay

\* An owner passes the endpoint to the controller.
LEMMA DcdXferKeeps ==
    ASSUME TypeInv, NEW e \in Endpoints, Alone(e), NEW w \in Writers, DcdXfer(w)
    PROVE  Alone(e)'
<1>1. /\ writer[w].pc = "busy" /\ Move(w, "idle")
      /\ inflight' = [inflight EXCEPT ![writer[w].ep] = @ + 1]
      /\ UNCHANGED << queue, task, claimed >>
  BY Zenon DEF DcdXfer, User
<1>2. inflight \in [Endpoints -> Nat]
  BY DEF TypeInv
<1>3. CASE e # writer[w].ep
  <2>1. inflight'[e] = inflight[e]
    BY <1>1, <1>2, <1>3
  <2>2. \A v \in Writers : Owns(v, e)' => Owns(v, e)
    BY <1>1, <1>3, OneMoves
  <2>3. NoNewUse(e)
    BY <1>1, <2>1, <2>2 DEF NoNewUse, Handles, IsComplete
  <2>4. QED
    BY <1>1, <2>3, NoNewUseKeeps
<1>4. CASE e = writer[w].ep
  <2>1. Owns(w, e)
    BY <1>1, <1>4 DEF Owns
  <2>2. /\ \A v \in Writers : Owns(v, e) => v = w
        /\ inflight[e] = 0 /\ ~Handles(e)
        /\ \A i \in 1 .. Len(queue) : ~IsComplete(i, e)
        /\ e \in claimed
    BY <2>1 DEF Alone, TaskAlone, Claimed
  <2>3. inflight'[e] = 1
    BY <1>1, <1>2, <1>4, <2>2
  <2>4. /\ \A v \in Writers : ~Owns(v, e)'
        /\ ~Handles(e)' /\ \A i \in 1 .. Len(queue') : ~IsComplete(i, e)'
        /\ e \in claimed'
    BY <1>1, <2>2, OneMoves DEF Handles, IsComplete
  <2>5. QED
    BY <2>3, <2>4 DEF Alone, TaskAlone, ControllerAlone, EventAlone, Claimed
<1>5. QED
  BY <1>3, <1>4

\* Every step keeps the owner alone, until one clears the device.
LEMMA NextAlone == DeviceInv /\ [Next]_usbdVars => AloneInv'
<1> SUFFICES ASSUME DeviceInv, [Next]_usbdVars, "cleared" \notin happened', NEW e \in Endpoints
             PROVE  Alone(e)'
  BY DEF AloneInv
<1>1. TypeInv /\ Alone(e)
  BY HistoryGrows DEF DeviceInv, AloneInv
<1>2. CASE \/ dcd_event_bus_reset \/ Unplugged \/ Plugged \/ Suspend \/ Resume
           \/ \E x \in Endpoints, r \in Requests : dcd_event_setup_received(r, x)
  BY <1>1, <1>2, InterruptKeeps
<1>3. CASE \E x \in Endpoints : dcd_event_xfer_complete(x)
  BY <1>1, <1>3, CompleteKeeps
<1>4. CASE Receive
  BY <1>1, <1>4, ReceiveKeeps
<1>5. CASE XferComplete
  BY <1>1, <1>5, XferCompleteKeeps
<1>6. CASE \/ process_get_descriptor \/ Other \/ Halt \/ Nothing \/ ResetDrivers
           \/ SetConfiguration \/ process_set_config \/ StoreConfig
  BY <1>1, <1>6, TaskKeeps
<1>7. ~configuration_reset /\ ~CloseAll
  BY DEF configuration_reset, CloseAll, ClearDevice
<1>8. CASE \E w \in Writers :
              \/ \E x \in Endpoints : PreCheck(w, x)
              \/ Claim(w) \/ Release(w) \/ SetBusy(w) \/ DcdXfer(w) \/ DcdFails(w)
  BY <1>1, <1>8, PreCheckKeeps, ClaimKeeps, ReleaseKeeps, SetBusyKeeps, DcdXferKeeps
<1>9. CASE UNCHANGED usbdVars
  <2>1. UNCHANGED << queue, task, inflight, writer, claimed >>
    BY <1>9 DEF usbdVars, dev
  <2>2. NoNewUse(e)
    BY <2>1 DEF NoNewUse, Owns, IsComplete, Handles
  <2>3. QED
    BY <1>1, <2>1, <2>2, NoNewUseKeeps
<1>10. QED
  BY <1>2, <1>3, <1>4, <1>5, <1>6, <1>7, <1>8, <1>9 DEF Next

\* At most one owner, and none while the controller has the endpoint.
LEMMA AloneIsOne == DeviceInv => OneTransfer
<1> SUFFICES ASSUME DeviceInv, "cleared" \notin happened, NEW e \in Endpoints
             PROVE  inflight[e] + Cardinality(Owners(e)) <= 1
  BY DEF OneTransfer
<1>1. inflight[e] \in Nat /\ inflight[e] <= 1 /\ TaskAlone(e)
  BY DEF DeviceInv, AloneInv, TypeInv, Alone, ControllerAlone
<1>2. CASE Owners(e) = {}
  BY <1>1, <1>2, FS_EmptySet
<1>3. CASE Owners(e) # {}
  <2>1. PICK w \in Writers : Owns(w, e)
    BY <1>3 DEF Owners, Owns
  <2>2. inflight[e] = 0 /\ Owners(e) = {w}
    BY <1>1, <2>1 DEF TaskAlone, Owners, Owns
  <2>3. QED
    <3>1. Cardinality({w}) = 1
      BY FS_Singleton
    <3>2. QED
      BY <2>2, <3>1
<1>4. QED
  BY <1>2, <1>3

\* An endpoint has one owner from the claim of a task (usbd_edpt_claim) to the event
\* that its transfer is complete, for any set of endpoints, tasks and length of the
\* queue, until the device is cleared.
THEOREM EndpointsHaveOneOwner == Spec => []OneTransfer
<1>1. Init => DeviceInv
  BY InitDevice
<1>2. DeviceInv /\ [Next]_usbdVars => DeviceInv'
  BY NextTypes, NextAlone DEF DeviceInv
<1>3. DeviceInv => OneTransfer
  BY AloneIsOne
<1>4. QED
  BY <1>1, <1>2, <1>3, PTL DEF Spec

\* The same of the composition.
THEOREM UsbEndpointsHaveOneOwner == MCSpec => []OneTransfer
<1>1. MCInit => DeviceInv
  BY InitDevice DEF MCInit
<1>2. [MCNext]_<< part, usbdVars, dfuVars, vendorVars, netVars,
                  serialVars, classVars, uartVars >> => [Next]_usbdVars
  BY DEF MCNext
<1>3. DeviceInv /\ [Next]_usbdVars => DeviceInv'
  BY NextTypes, NextAlone DEF DeviceInv
<1>4. DeviceInv => OneTransfer
  BY AloneIsOne
<1>5. QED
  BY <1>1, <1>2, <1>3, <1>4, PTL DEF MCSpec
-----------------------------------------------------------------------------
(***************************************************************************)
(* UsbDevice, its configuration.  The mapping of the interfaces, that of the endpoints  *)
(* and what the driver has opened agree but between the two halves of a reset, and a      *)
(* configuration has them all; an unplugged device is cleared, or its event is on the way  *)
(* with no request behind it.                                                *)
(***************************************************************************)

MapInv ==
    /\ ver \in {4, 5} /\ itf2drv \in BOOLEAN
    /\ ep2drv \in {{}, Endpoints} /\ opened \in {{}, Endpoints}
    /\ itf2drv = (ep2drv = Endpoints)
    /\ task.pc # "second" => opened = ep2drv
    /\ task.pc = "second" => Resets /\ IF ver = 5 THEN opened = {} ELSE ep2drv = {}
    /\ task.pc \in {"close", "open", "store"} => task.ev.id = "setup"
    /\ task.pc = "close" => ver = 5

ConfigInv ==
    /\ cfg_num # 0 => ep2drv = Endpoints
    /\ task.pc = "store" /\ NewConfig # 0 => ep2drv = Endpoints

\* No request follows the event at i; the device is as good as new.
NoSetup(i) == \A j \in i .. Len(queue) : queue[j].id # "setup"
Clean == cfg_num = 0 /\ ep2drv = {} /\ opened = {}

UnplugInv ==
    ~plugged /\ "lost" \notin happened /\ "missed" \notin happened =>
        \/ \E i \in 1 .. Len(queue) : queue[i].id = "unplugged" /\ NoSetup(i)
        \/ NoSetup(1) /\ task.pc \in {"begin", "second"} /\ Resets
        \/ NoSetup(1) /\ task.ev.id # "setup" /\ Clean

\* A device that is not connected, as far as usbd_4.c knows, is as good as new or about to be,
\* so an unplugging that is passed over leaves nothing behind.
BounceInv ==
    Bounce /\ "lost" \notin happened =>
        \/ \E i \in 1 .. Len(queue) : queue[i].id = "unplugged"
        \/ task.pc \in {"begin", "second"} /\ Resets
        \/ task.pc \in {"idle", "begin"} /\ Clean

StackInv == TypeInv /\ MapInv /\ ConfigInv /\ UnplugInv /\ BounceInv

Mapping == << ver, itf2drv, ep2drv, opened >>

LEMMA StackStarts == Init => StackInv
<1> SUFFICES ASSUME Init
             PROVE  StackInv
  OBVIOUS
<1>1. TypeInv
  BY InitDevice DEF DeviceInv
<1>2. /\ ver \in {4, 5} /\ itf2drv = FALSE /\ ep2drv = {} /\ opened = {} /\ cfg_num = 0
      /\ plugged = TRUE /\ task = Idle
  BY Zenon DEF Init
<1>3. Endpoints # {}
  BY UsbAssumption DEF DeviceAssumption
<1>4. task.pc = "idle"
  BY <1>2 DEF Idle
<1>5. MapInv /\ ConfigInv /\ UnplugInv /\ BounceInv
  BY <1>2, <1>3, <1>4 DEF MapInv, ConfigInv, UnplugInv, BounceInv, Clean
<1>6. QED
  BY <1>1, <1>5 DEF StackInv

\* The mapping, over every step.
LEMMA MappingNext == TypeInv /\ MapInv /\ ConfigInv /\ [Next]_usbdVars => MapInv' /\ ConfigInv'
<1> SUFFICES ASSUME TypeInv, MapInv, ConfigInv, [Next]_usbdVars
             PROVE  MapInv' /\ ConfigInv'
  OBVIOUS
<1> USE UsbAssumption DEF DeviceAssumption
<1>1. task = [pc |-> task.pc, ev |-> task.ev]
  BY DEF TypeInv
<1>2. ASSUME UNCHANGED << Mapping, task >>, cfg_num' \in {0, cfg_num}
      PROVE  MapInv' /\ ConfigInv'
  BY <1>2 DEF MapInv, ConfigInv, Mapping, Resets, NewConfig
<1>3. CASE dcd_event_bus_reset \/ Unplugged \/ Plugged \/ Suspend \/ Resume
  BY <1>2, <1>3, Zenon DEF dcd_event_bus_reset, Unplugged, Plugged, Suspend, Resume, Event, Mapping
<1>4. CASE \E e \in Endpoints : \/ dcd_event_xfer_complete(e)
                                \/ \E r \in Requests : dcd_event_setup_received(r, e)
  BY <1>2, <1>4, Zenon DEF dcd_event_xfer_complete, dcd_event_setup_received, Event, Mapping, dev
<1>5. CASE \E w \in Writers : \/ \E e \in Endpoints : PreCheck(w, e)
                              \/ Claim(w) \/ Release(w) \/ SetBusy(w) \/ DcdXfer(w) \/ DcdFails(w)
  BY <1>2, <1>5, Zenon DEF PreCheck, Claim, Release, SetBusy, DcdXfer, DcdFails, User, Mapping
<1>6. ASSUME UNCHANGED << Mapping, cfg_num >>, task' = Idle \/ task'.pc = "begin",
             task.pc # "second"
      PROVE  MapInv' /\ ConfigInv'
  <2>1. task'.pc \in {"idle", "begin"}
    BY <1>6 DEF Idle
  <2>2. QED
    BY <1>6, <2>1 DEF MapInv, ConfigInv, Mapping
<1>7. CASE Receive
  <2>1. task.pc = "idle" /\ task' = [pc |-> "begin", ev |-> Head(queue)]
        /\ UNCHANGED << Mapping, cfg_num >>
    BY <1>7, Zenon DEF Receive, Mapping, dev
  <2>2. task'.pc = "begin" /\ task.pc # "second"
    BY <2>1
  <2>3. QED
    BY <1>6, <2>1, <2>2
<1>8. CASE process_get_descriptor \/ Other \/ Halt \/ Nothing \/ XferComplete
  <2>1. task.pc = "begin" /\ task' = Idle /\ UNCHANGED << Mapping, cfg_num >>
    BY <1>8, Zenon DEF process_get_descriptor, Other, Stateless, Halt, Nothing, XferComplete,
                       Answer, Setup, Mapping, dev
  <2>2. QED
    BY <1>6, <2>1
<1>9. CASE ResetDrivers
  <2>1. /\ Resets /\ task.pc = (IF ver = 5 THEN "begin" ELSE "second")
        /\ opened' = {} /\ UNCHANGED << ver, itf2drv, ep2drv, cfg_num >>
        /\ task' = IF ver = 5 THEN [task EXCEPT !.pc = "second"] ELSE Idle
    BY <1>9, Zenon DEF ResetDrivers, dev
  <2>2. CASE ver = 5
    <3>1. task' = [pc |-> "second", ev |-> task.ev]
      BY <1>1, <2>1, <2>2
    <3>2. QED
      BY <2>1, <2>2, <3>1 DEF MapInv, ConfigInv, Resets
  <2>3. CASE ver # 5
    <3>1. task'.pc = "idle"
      BY <2>1, <2>3 DEF Idle
    <3>2. QED
      BY <2>1, <2>3, <3>1 DEF MapInv, ConfigInv
  <2>4. QED
    BY <2>2, <2>3
<1>10. CASE configuration_reset
  <2>1. /\ Resets /\ task.pc = (IF ver = 5 THEN "second" ELSE "begin")
        /\ itf2drv' = FALSE /\ ep2drv' = {} /\ cfg_num' = 0 /\ UNCHANGED << ver, opened >>
        /\ task' = IF ver = 5 THEN Idle ELSE [task EXCEPT !.pc = "second"]
    BY <1>10, Zenon DEF configuration_reset, ClearDevice
  <2>2. CASE ver = 5
    <3>1. task'.pc = "idle"
      BY <2>1, <2>2 DEF Idle
    <3>2. QED
      BY <2>1, <2>2, <3>1 DEF MapInv, ConfigInv
  <2>3. CASE ver # 5
    <3>1. task' = [pc |-> "second", ev |-> task.ev]
      BY <1>1, <2>1, <2>3
    <3>2. QED
      BY <2>1, <2>3, <3>1 DEF MapInv, ConfigInv, Resets
  <2>4. QED
    BY <2>2, <2>3
<1>11. CASE SetConfiguration
  <2>1. /\ task.pc = "begin" /\ task.ev.id = "setup" /\ UNCHANGED << Mapping, cfg_num >>
        /\ task' = [task EXCEPT !.pc = IF cfg_num = NewConfig THEN "store"
                                       ELSE IF Closes THEN "close"
                                       ELSE IF Opens THEN "open" ELSE "store"]
    BY <1>11, Zenon DEF SetConfiguration, Setup, Mapping
  <2>2. task'.ev = task.ev /\ task'.pc \in {"store", "close", "open"}
    BY <1>1, <2>1
  <2>3. NewConfig' = NewConfig
    BY <2>2 DEF NewConfig
  <2>4. task'.pc = "store" /\ NewConfig # 0 => cfg_num # 0
    BY <1>1, <2>1 DEF Opens, MapInv
  <2>5. task'.pc = "close" => ver = 5
    BY <1>1, <2>1 DEF Closes
  <2>6. QED
    BY <2>1, <2>2, <2>3, <2>4, <2>5 DEF MapInv, ConfigInv, Mapping
<1>12. CASE CloseAll
  <2>1. /\ task.pc = "close" /\ UNCHANGED ver
        /\ itf2drv' = FALSE /\ ep2drv' = {} /\ cfg_num' = 0 /\ opened' = {}
        /\ task' = [task EXCEPT !.pc = IF NewConfig # 0 THEN "open" ELSE "store"]
    BY <1>12, Zenon DEF CloseAll, ClearDevice
  <2>2. task'.ev = task.ev /\ task'.pc \in {"open", "store"}
    BY <1>1, <2>1
  <2>3. NewConfig' = NewConfig /\ (NewConfig # 0 => task'.pc = "open")
    BY <1>1, <2>1, <2>2 DEF NewConfig
  <2>4. QED
    BY <2>1, <2>2, <2>3 DEF MapInv, ConfigInv
<1>13. CASE process_set_config
  <2>1. task.pc = "open" /\ UNCHANGED << ver, cfg_num >>
    BY <1>13, Zenon DEF process_set_config
  <2>2. CASE itf2drv
    <3>1. task' = Idle /\ UNCHANGED << itf2drv, ep2drv, opened >>
      BY <1>13, <2>2, Zenon DEF process_set_config, Answer
    <3>2. QED
      BY <1>6, <2>1, <3>1 DEF Mapping
  <2>3. CASE ~itf2drv
    <3>1. /\ itf2drv' = TRUE /\ ep2drv' = Endpoints /\ opened' = Endpoints
          /\ task' = [task EXCEPT !.pc = "store"]
      BY <1>13, <2>3, Zenon DEF process_set_config
    <3>2. task'.ev = task.ev /\ task'.pc = "store"
      BY <1>1, <3>1
    <3>3. QED
      BY <2>1, <3>1, <3>2 DEF MapInv, ConfigInv
  <2>4. QED
    BY <2>2, <2>3
<1>14. CASE StoreConfig
  <2>1. task.pc = "store" /\ cfg_num' = NewConfig /\ task' = Idle /\ UNCHANGED Mapping
    BY <1>14, Zenon DEF StoreConfig, Answer, Mapping
  <2>2. task'.pc = "idle"
    BY <2>1 DEF Idle
  <2>3. QED
    BY <2>1, <2>2 DEF MapInv, ConfigInv, Mapping
<1>15. CASE UNCHANGED usbdVars
  BY <1>2, <1>15 DEF usbdVars, Mapping
<1>16. QED
  BY <1>3, <1>4, <1>5, <1>7, <1>8, <1>9, <1>10, <1>11, <1>12, <1>13, <1>14, <1>15, Zenon DEF Next

\* An unplugged device, over every step.
LEMMA UnplugNext == StackInv /\ [Next]_usbdVars => UnplugInv'
<1> SUFFICES ASSUME StackInv, [Next]_usbdVars, ~plugged', "lost" \notin happened',
                    "missed" \notin happened'
             PROVE  \/ \E i \in 1 .. Len(queue') : queue'[i].id = "unplugged" /\ NoSetup(i)'
                    \/ NoSetup(1)' /\ task'.pc \in {"begin", "second"} /\ Resets'
                    \/ NoSetup(1)' /\ task'.ev.id # "setup" /\ Clean'
  BY DEF UnplugInv
<1> USE UsbAssumption DEF DeviceAssumption
<1>1. /\ queue \in Seq(Events) /\ task = [pc |-> task.pc, ev |-> task.ev]
      /\ "lost" \notin happened /\ MapInv /\ MapInv' /\ ConfigInv
  BY HistoryGrows, MappingNext DEF StackInv, TypeInv
<1>2. ~plugged =>
         \/ \E i \in 1 .. Len(queue) : queue[i].id = "unplugged" /\ NoSetup(i)
         \/ NoSetup(1) /\ task.pc \in {"begin", "second"} /\ Resets
         \/ NoSetup(1) /\ task.ev.id # "setup" /\ Clean
  BY <1>1, HistoryGrows DEF StackInv, UnplugInv
<1>3. ASSUME ~plugged, UNCHANGED queue,
             task.pc \in {"begin", "second"} /\ Resets =>
                 \/ task'.pc = "second" /\ Resets'
                 \/ Clean' /\ task'.ev.id # "setup"
                 \/ UNCHANGED task,
             task.ev.id # "setup" /\ Clean => task'.ev.id # "setup" /\ Clean'
      PROVE  \/ \E i \in 1 .. Len(queue') : queue'[i].id = "unplugged" /\ NoSetup(i)'
             \/ NoSetup(1)' /\ task'.pc \in {"begin", "second"} /\ Resets'
             \/ NoSetup(1)' /\ task'.ev.id # "setup" /\ Clean'
  BY <1>2, <1>3 DEF NoSetup, Resets
<1>4. CASE Unplugged /\ ~Bounce
  <2>1. queue' = Append(queue, Bus("unplugged"))
    BY <1>1, <1>4 DEF Unplugged, Queue, Send
  <2>4. PICK n \in Nat : n = Len(queue) + 1
    BY <1>1
  <2>2. Len(queue') = n /\ n \in 1 .. n /\ queue'[n].id = "unplugged"
    BY <1>1, <2>1, <2>4 DEF Bus, Ev
  <2>3. NoSetup(n)'
    BY <1>1, <2>2 DEF NoSetup
  <2>5. QED
    BY <2>2, <2>3
<1>17. CASE Unplugged /\ Bounce
  <2>1. ~RequestWaits /\ UNCHANGED << queue, task, ep2drv, opened, cfg_num >>
    BY <1>17 DEF Unplugged, Event
  <2>2. /\ task.ev.id # "setup"
        /\ \A i \in 1 .. Len(queue) : NoSetup(i)
        /\ NoSetup(1)
    BY <1>1, <2>1 DEF RequestWaits, NoSetup
  <2>3. \/ \E i \in 1 .. Len(queue) : queue[i].id = "unplugged"
        \/ task.pc \in {"begin", "second"} /\ Resets
        \/ Clean
    BY <1>1, <1>17 DEF StackInv, BounceInv
  <2>4. QED
    BY <2>1, <2>2, <2>3 DEF NoSetup, Resets, Clean
<1>5. CASE dcd_event_bus_reset \/ Plugged \/ Suspend \/ Resume
  BY <1>5 DEF dcd_event_bus_reset, Plugged, Suspend, Resume
<1>6. CASE \E e \in Endpoints, r \in Requests : dcd_event_setup_received(r, e)
  BY <1>6 DEF dcd_event_setup_received
<1>7. ASSUME NEW e \in Endpoints, dcd_event_xfer_complete(e)
      PROVE  \/ \E i \in 1 .. Len(queue') : queue'[i].id = "unplugged" /\ NoSetup(i)'
             \/ NoSetup(1)' /\ task'.pc \in {"begin", "second"} /\ Resets'
             \/ NoSetup(1)' /\ task'.ev.id # "setup" /\ Clean'
  <2> DEFINE x == Ev("complete", None, e)
  <2>1. queue' = Append(queue, x) /\ UNCHANGED << plugged, task, ep2drv, opened, cfg_num >>
    BY <1>7, Zenon DEF dcd_event_xfer_complete, Queue, Send, dev
  <2>2. /\ Len(queue') = Len(queue) + 1 /\ Len(queue) \in Nat /\ queue'[Len(queue) + 1].id = "complete"
        /\ \A i \in 1 .. Len(queue) : queue'[i] = queue[i]
    BY <1>1, <2>1 DEF Ev
  <2>3. ASSUME NEW i \in Nat \ {0}, NoSetup(i) PROVE NoSetup(i)'
    BY <2>2, <2>3 DEF NoSetup
  <2>4. CASE \E i \in 1 .. Len(queue) : queue[i].id = "unplugged" /\ NoSetup(i)
    <3>1. PICK i \in 1 .. Len(queue) : queue[i].id = "unplugged" /\ NoSetup(i)
      BY <2>4
    <3>2. i \in 1 .. Len(queue') /\ queue'[i].id = "unplugged" /\ NoSetup(i)'
      BY <2>2, <2>3, <3>1
    <3>3. QED
      BY <3>2
  <2>5. NoSetup(1) => NoSetup(1)'
    BY <2>3
  <2>6. QED
    BY <1>2, <2>1, <2>4, <2>5 DEF Resets, Clean
<1>8. CASE Receive
  <2>1. /\ queue # << >> /\ queue' = Tail(queue) /\ task' = [pc |-> "begin", ev |-> Head(queue)]
        /\ task.pc = "idle" /\ UNCHANGED << plugged, ep2drv, opened, cfg_num >>
    BY <1>8, Zenon DEF Receive, dev, Isr
  <2>2. /\ Len(queue) \in Nat \ {0} /\ Len(queue') = Len(queue) - 1
        /\ \A i \in 1 .. Len(queue') : queue'[i] = queue[i + 1]
        /\ task'.pc = "begin" /\ task'.ev = queue[1]
    BY <1>1, <2>1
  <2>3. ASSUME NEW i \in Nat \ {0}, NoSetup(i)
        PROVE  NoSetup(i)' /\ (i > 1 => NoSetup(i - 1)')
    BY <2>2, <2>3 DEF NoSetup
  <2>4. CASE \E i \in 1 .. Len(queue) : queue[i].id = "unplugged" /\ NoSetup(i)
    <3>1. PICK i \in 1 .. Len(queue) : queue[i].id = "unplugged" /\ NoSetup(i)
      BY <2>4
    <3>2. CASE i = 1
      BY <2>2, <2>3, <3>1, <3>2 DEF Resets
    <3>3. CASE i # 1
      <4>1. i - 1 \in 1 .. Len(queue') /\ queue'[i - 1].id = "unplugged" /\ NoSetup(i - 1)'
        BY <2>2, <2>3, <3>1, <3>3
      <4>2. QED
        BY <4>1
    <3>4. QED
      BY <3>2, <3>3
  <2>5. CASE NoSetup(1) /\ task.ev.id # "setup" /\ Clean
    BY <2>1, <2>2, <2>3, <2>5 DEF NoSetup, Clean
  <2>6. QED
    BY <1>2, <2>1, <2>4, <2>5
<1>9. Idle.ev.id # "setup" /\ Idle.pc = "idle"
  BY DEF Idle, Bus, Ev, None
<1>10. CASE process_get_descriptor \/ Other \/ Halt
  <2>1. task.ev.id = "setup" /\ UNCHANGED << plugged, queue >>
    BY <1>10, Zenon DEF process_get_descriptor, Other, Stateless, Halt, Setup, Isr
  <2>2. QED
    BY <1>3, <2>1 DEF Resets
<1>11. CASE Nothing \/ XferComplete
  <2>1. /\ task.ev.id \in {"suspend", "resume", "complete"} /\ task' = Idle
        /\ UNCHANGED << plugged, queue, ep2drv, opened, cfg_num >>
    BY <1>11, Zenon DEF Nothing, XferComplete, Isr, dev
  <2>2. QED
    BY <1>3, <1>9, <2>1 DEF Resets, Clean
<1>12. CASE ResetDrivers
  <2>1. /\ Resets /\ task.pc = (IF ver = 5 THEN "begin" ELSE "second")
        /\ opened' = {} /\ UNCHANGED << plugged, queue, itf2drv, ep2drv, cfg_num >>
        /\ task' = IF ver = 5 THEN [task EXCEPT !.pc = "second"] ELSE Idle
    BY <1>12, Zenon DEF ResetDrivers, dev, Isr
  <2>2. CASE ver = 5
    <3>1. task' = [pc |-> "second", ev |-> task.ev]
      BY <1>1, <2>1, <2>2
    <3>2. QED
      BY <1>3, <2>1, <3>1 DEF Resets, Clean
  <2>3. CASE ver # 5
    <3>1. ep2drv = {} /\ cfg_num = 0
      BY <1>1, <2>1, <2>3 DEF MapInv, ConfigInv
    <3>2. QED
      BY <1>3, <1>9, <2>1, <2>3, <3>1 DEF Clean
  <2>4. QED
    BY <2>2, <2>3
<1>13. CASE configuration_reset
  <2>1. /\ Resets /\ task.pc = (IF ver = 5 THEN "second" ELSE "begin")
        /\ ep2drv' = {} /\ cfg_num' = 0 /\ UNCHANGED << plugged, queue, opened >>
        /\ task' = IF ver = 5 THEN Idle ELSE [task EXCEPT !.pc = "second"]
    BY <1>13, Zenon DEF configuration_reset, ClearDevice, Isr
  <2>2. CASE ver = 5
    <3>1. opened = {}
      BY <1>1, <2>1, <2>2 DEF MapInv
    <3>2. QED
      BY <1>3, <1>9, <2>1, <2>2, <3>1 DEF Clean
  <2>3. CASE ver # 5
    <3>1. task' = [pc |-> "second", ev |-> task.ev]
      BY <1>1, <2>1, <2>3
    <3>2. QED
      BY <1>3, <2>1, <3>1 DEF Resets, Clean
  <2>4. QED
    BY <2>2, <2>3
<1>14. CASE SetConfiguration \/ CloseAll \/ process_set_config \/ StoreConfig
  <2>1. task.ev.id = "setup"
    BY <1>1, <1>14 DEF SetConfiguration, Setup, CloseAll, process_set_config, StoreConfig, MapInv
  <2>2. UNCHANGED << plugged, queue >>
    BY <1>14, Zenon DEF SetConfiguration, CloseAll, process_set_config, StoreConfig, Isr
  <2>3. QED
    BY <1>3, <2>1, <2>2 DEF Resets
<1>15. CASE \/ \E w \in Writers : \/ \E e \in Endpoints : PreCheck(w, e)
                                  \/ Claim(w) \/ Release(w) \/ SetBusy(w) \/ DcdXfer(w) \/ DcdFails(w)
            \/ UNCHANGED usbdVars
  <2>1. UNCHANGED << plugged, queue, task, ep2drv, opened, cfg_num >>
    BY <1>15, Zenon DEF PreCheck, Claim, Release, SetBusy, DcdXfer, DcdFails, User, usbdVars
  <2>2. QED
    BY <1>3, <2>1 DEF Clean
<1>18. QED
  BY <1>4, <1>5, <1>17, <1>6, <1>7, <1>8, <1>10, <1>11, <1>12, <1>13, <1>14, <1>15, Zenon DEF Next

\* A device that is not connected, over every step.
LEMMA BounceNext == StackInv /\ [Next]_usbdVars => BounceInv'
<1> SUFFICES ASSUME StackInv, [Next]_usbdVars, Bounce', "lost" \notin happened'
             PROVE  \/ \E i \in 1 .. Len(queue') : queue'[i].id = "unplugged"
                    \/ task'.pc \in {"begin", "second"} /\ Resets'
                    \/ task'.pc \in {"idle", "begin"} /\ Clean'
  BY DEF BounceInv
<1> DEFINE Goal == \/ \E i \in 1 .. Len(queue') : queue'[i].id = "unplugged"
                   \/ task'.pc \in {"begin", "second"} /\ Resets'
                   \/ task'.pc \in {"idle", "begin"} /\ Clean'
<1> USE UsbAssumption DEF DeviceAssumption
<1>1. /\ queue \in Seq(Events) /\ task = [pc |-> task.pc, ev |-> task.ev]
      /\ "lost" \notin happened /\ MapInv /\ ConfigInv
  BY HistoryGrows DEF StackInv, TypeInv
<1>2. /\ ver' = 4 /\ ~connected'
      /\ ver = 4 /\ ~connected =>
            \/ \E i \in 1 .. Len(queue) : queue[i].id = "unplugged"
            \/ task.pc \in {"begin", "second"} /\ Resets
            \/ task.pc \in {"idle", "begin"} /\ Clean
  BY <1>1 DEF StackInv, BounceInv, Bounce
<1>3. ASSUME UNCHANGED << ver, connected >>,
             \/ queue' = queue
             \/ \E x \in Events : queue' = Append(queue, x),
             UNCHANGED << task, ep2drv, opened, cfg_num >>
      PROVE  Goal
  <2>1. /\ Len(queue) \in Nat /\ Len(queue') \in Nat /\ Len(queue') >= Len(queue)
        /\ \A i \in 1 .. Len(queue) : queue'[i] = queue[i]
    BY <1>1, <1>3
  <2>2. QED
    BY <1>2, <1>3, <2>1 DEF Resets, Clean
<1>4. CASE Unplugged /\ ~Bounce
  <2>1. queue' = Append(queue, Bus("unplugged"))
    BY <1>1, <1>4 DEF Unplugged, Queue, Send
  <2>2. PICK n \in Nat : n = Len(queue) + 1
    BY <1>1
  <2>3. Len(queue') = n /\ n \in 1 .. n /\ queue'[n].id = "unplugged"
    BY <1>1, <2>1, <2>2 DEF Bus, Ev
  <2>4. QED
    BY <2>3
<1>5. CASE (Unplugged /\ Bounce) \/ Plugged
  BY <1>3, <1>5 DEF Unplugged, Plugged, Event
<1>6. CASE dcd_event_bus_reset \/ Suspend \/ Resume
  <2>1. /\ UNCHANGED << ver, connected, task, ep2drv, opened, cfg_num >>
        /\ \E id \in {"reset", "suspend", "resume"} : queue' = Append(queue, Bus(id))
    BY <1>6 DEF dcd_event_bus_reset, Suspend, Resume, Event, Queue, Send
  <2>2. QED
    BY <1>3, <2>1, BusIsEvent
<1>7. ASSUME NEW e \in Endpoints,
             \/ dcd_event_xfer_complete(e)
             \/ \E r \in Requests : dcd_event_setup_received(r, e)
      PROVE  Goal
  <2>1. UNCHANGED << ver, connected, task, ep2drv, opened, cfg_num >>
    BY <1>7, Zenon DEF dcd_event_xfer_complete, dcd_event_setup_received, Event, dev
  <2>2. \E x \in Events : queue' = Append(queue, x) \/ queue' = queue
    <3>1. /\ Ev("complete", None, e) \in Events
          /\ \A r \in Requests : Ev("setup", r, e) \in Events
      BY DEF Ev, Events
    <3>2. \/ queue' = Send(queue, Ev("complete", None, e))
          \/ \E r \in Requests : queue' = Send(queue, Ev("setup", r, e))
      BY <1>7, Zenon DEF dcd_event_xfer_complete, dcd_event_setup_received, Queue
    <3>3. QED
      BY <3>1, <3>2 DEF Send
  <2>3. QED
    BY <1>3, <2>1, <2>2
<1>8. CASE Receive
  <2>1. /\ queue # << >> /\ queue' = Tail(queue) /\ task' = [pc |-> "begin", ev |-> Head(queue)]
        /\ task.pc = "idle" /\ UNCHANGED << ver, connected, ep2drv, opened, cfg_num >>
    BY <1>8, Zenon DEF Receive, dev
  <2>2. /\ Len(queue) \in Nat \ {0} /\ Len(queue') = Len(queue) - 1
        /\ \A i \in 1 .. Len(queue') : queue'[i] = queue[i + 1]
        /\ task'.pc = "begin" /\ task'.ev = queue[1]
    BY <1>1, <2>1
  <2>3. CASE \E i \in 1 .. Len(queue) : queue[i].id = "unplugged"
    <3>1. PICK i \in 1 .. Len(queue) : queue[i].id = "unplugged"
      BY <2>3
    <3>2. CASE i = 1
      BY <2>2, <3>1, <3>2 DEF Resets
    <3>3. CASE i # 1
      <4>1. i - 1 \in 1 .. Len(queue') /\ queue'[i - 1].id = "unplugged"
        BY <2>2, <3>1, <3>3
      <4>2. QED
        BY <4>1
    <3>4. QED
      BY <3>2, <3>3
  <2>4. CASE Clean
    BY <2>1, <2>2, <2>4 DEF Clean
  <2>5. QED
    BY <1>2, <2>1, <2>3, <2>4
<1>9. CASE process_get_descriptor \/ Other \/ Halt \/ SetConfiguration
  BY <1>2, <1>9 DEF process_get_descriptor, Other, Stateless, Halt, SetConfiguration
<1>10. CASE Nothing \/ XferComplete
  <2>1. /\ task.pc = "begin" /\ task.ev.id \in {"suspend", "resume", "complete"} /\ task' = Idle
        /\ UNCHANGED << ver, connected, queue, ep2drv, opened, cfg_num >>
    BY <1>10, Zenon DEF Nothing, XferComplete, Isr, dev
  <2>2. QED
    BY <1>2, <2>1 DEF Resets, Clean, Idle
<1>11. CASE ResetDrivers
  <2>1. /\ Resets /\ task.pc = "second"
        /\ opened' = {} /\ UNCHANGED << ver, queue, itf2drv, ep2drv, cfg_num >> /\ task' = Idle
    BY <1>2, <1>11 DEF ResetDrivers, dev
  <2>2. ep2drv = {} /\ cfg_num = 0
    BY <1>1, <1>2, <2>1 DEF MapInv, ConfigInv
  <2>3. QED
    BY <2>1, <2>2 DEF Clean, Idle
<1>12. CASE configuration_reset
  <2>1. Resets /\ task' = [task EXCEPT !.pc = "second"]
    BY <1>2, <1>12 DEF configuration_reset
  <2>2. task' = [pc |-> "second", ev |-> task.ev]
    BY <1>1, <2>1
  <2>3. QED
    BY <2>1, <2>2 DEF Resets
<1>13. CASE CloseAll
  <2>1. task.pc = "close" /\ UNCHANGED ver
    BY <1>13, Zenon DEF CloseAll
  <2>2. QED
    BY <1>1, <1>2, <2>1 DEF MapInv
<1>14. CASE process_set_config \/ StoreConfig
  <2>1. task.pc \in {"open", "store"} /\ UNCHANGED << ver, connected, queue >>
    BY <1>14, Zenon DEF process_set_config, StoreConfig
  <2>2. ~Resets
    BY <1>1, <2>1 DEF MapInv, Resets
  <2>3. QED
    BY <1>2, <2>1, <2>2
<1>15. CASE \/ \E w \in Writers : \/ \E e \in Endpoints : PreCheck(w, e)
                                  \/ Claim(w) \/ Release(w) \/ SetBusy(w) \/ DcdXfer(w) \/ DcdFails(w)
            \/ UNCHANGED usbdVars
  <2>1. UNCHANGED << ver, connected, queue, task, ep2drv, opened, cfg_num >>
    BY <1>15, Zenon DEF PreCheck, Claim, Release, SetBusy, DcdXfer, DcdFails, User, usbdVars
  <2>2. QED
    BY <1>3, <2>1
<1>16. QED
  BY <1>4, <1>5, <1>6, <1>7, <1>8, <1>9, <1>10, <1>11, <1>12, <1>13, <1>14, <1>15, Zenon DEF Next

\* Whenever tud_task has caught up, what is configured, mapped and opened agrees, and nothing of it
\* is left without a cable: for any set of endpoints and any length of the queue.
THEOREM UsbStackSettles == MCSpec => []StackSettles
<1>1. MCInit => StackInv
  BY StackStarts DEF MCInit
<1>2. StackInv /\ [MCNext]_<< part, usbdVars, dfuVars, vendorVars, netVars,
                              serialVars, classVars, uartVars >> => StackInv'
  <2>1. [MCNext]_<< part, usbdVars, dfuVars, vendorVars, netVars,
                    serialVars, classVars, uartVars >> => [Next]_usbdVars
    BY DEF MCNext
  <2>2. QED
    BY <2>1, NextTypes, MappingNext, UnplugNext, BounceNext DEF StackInv
<1>3. StackInv => StackSettles
  <2> SUFFICES ASSUME StackInv, CaughtUp PROVE StackSettles
    BY DEF StackSettles
  <2>1. queue = << >> /\ task.pc = "idle" /\ "lost" \notin happened
    BY DEF CaughtUp, Idle
  <2>2. ~plugged /\ "missed" \notin happened => Clean
    BY <2>1 DEF StackInv, UnplugInv
  <2>3. QED
    BY <2>1, <2>2 DEF StackInv, MapInv, ConfigInv, StackSettles, Clean
<1>4. QED
  BY <1>1, <1>2, <1>3, PTL DEF MCSpec

-----------------------------------------------------------------------------

(***************************************************************************)
(* UsbDfu.  In the middle of a download what was sent is what was written, but for the  *)
(* block in the buffer while it waits to be flashed; outside of one no handle is open,    *)
(* because a host that leaves one half way is the premise of the property.             *)
(***************************************************************************)

DfuTypes ==
    /\ upIndex \in Nat
    /\ transfer = [req |-> transfer.req, stage |-> transfer.stage]
    /\ flashing \in BOOLEAN
    /\ dstate \in {"IDLE", "DNLOAD_SYNC", "DNLOAD_IDLE", "MANIFEST_SYNC", "MANIFEST_WAIT_RESET", "ERROR"}

UploadInv == ~upBroken => upGot = [i \in 1 .. upIndex |-> i - 1]

\* What has been written of the download that is open.
Base == IF handle = "open" THEN written ELSE << >>

ToldIdle == told.state = "DNLOAD_IDLE"

DownloadInv ==
    ~broken =>
    /\ flashing => dstate \in {"DNLOAD_SYNC", "MANIFEST_SYNC"}
    /\ transfer.stage = "data" => transfer.req = "DNLOAD" /\ dstate = "DNLOAD_SYNC" /\ flashing
    /\ dstate = "DNLOAD_SYNC" /\ flashing => sent = IF Dfu!Unsent THEN Base ELSE Append(Base, buf)
    /\ (dstate = "DNLOAD_SYNC" /\ ~flashing) \/ dstate = "DNLOAD_IDLE" => handle = "open" /\ written = sent
    /\ handle = "open" => dstate \in {"DNLOAD_SYNC", "DNLOAD_IDLE"} \/ (dstate = "MANIFEST_SYNC" /\ flashing)
    /\ ToldIdle => \/ dstate = "DNLOAD_SYNC" /\ ~flashing
                   \/ dstate = "DNLOAD_IDLE"
    /\ handle # "none" => checked
    /\ boot # << >> => handle = "closed" /\ boot = written

DfuInv == DfuTypes /\ UploadInv /\ DownloadInv

LEMMA DfuStarts == Dfu!Init => DfuInv
<1> USE DEF Dfu!Init
<1>1. Dfu!Init => DfuTypes
  <2> SUFFICES ASSUME Dfu!Init PROVE DfuTypes
    OBVIOUS
  <2>1. transfer = [req |-> transfer.req, stage |-> transfer.stage]
    BY DEF Dfu!NoTransfer
  <2>2. upIndex \in Nat /\ flashing \in BOOLEAN /\ dstate = "IDLE"
    OBVIOUS
  <2>3. QED
    BY <2>1, <2>2 DEF DfuTypes
<1>2. Dfu!Init => UploadInv
  <2>1. << >> = [i \in 1 .. 0 |-> i - 1]
    OBVIOUS
  <2>2. QED
    BY <2>1 DEF UploadInv
<1>3. Dfu!Init => DownloadInv
  BY DEF DownloadInv, Base, ToldIdle, Dfu!Unsent, Dfu!NoTransfer, Dfu!NotTold
<1>4. QED
  BY <1>1, <1>2, <1>3 DEF DfuInv

LEMMA UploadNext == DfuTypes /\ UploadInv /\ [Dfu!Next]_dfuVars => UploadInv'
<1> SUFFICES ASSUME DfuTypes, UploadInv, [Dfu!Next]_dfuVars
             PROVE  UploadInv'
  OBVIOUS
<1>0. upIndex \in Nat
  BY DEF DfuTypes
<1>1. ASSUME NEW r, Dfu!ResetRequest(r)
      PROVE  UploadInv'
  <2>1. ~upBroken' => upGot = << >> /\ upGot' = << >> /\ upIndex' = upIndex /\ ~upBroken
    BY <1>1 DEF Dfu!ResetRequest, Dfu!Leaves
  <2>2. \A n \in Nat : << >> = [i \in 1 .. n |-> i - 1] => n = 0
    OBVIOUS
  <2>3. << >> = [i \in 1 .. 0 |-> i - 1]
    OBVIOUS
  <2>4. QED
    BY <1>0, <2>1, <2>2, <2>3 DEF UploadInv
<1>2. CASE Dfu!Upload
  <2>1. upBroken' = upBroken /\ Dfu!UploadBlock
    BY <1>2 DEF Dfu!Upload
  <2>2. \A n \in Nat : Append([i \in 1 .. n |-> i - 1], n) = [i \in 1 .. n + 1 |-> i - 1]
    OBVIOUS
  <2>3. << >> = [i \in 1 .. 0 |-> i - 1]
    OBVIOUS
  <2>4. QED
    BY <1>0, <2>1, <2>2, <2>3 DEF UploadInv, Dfu!UploadBlock
<1>3. CASE UNCHANGED << upBroken, upGot, upIndex >>
  BY <1>3 DEF UploadInv
<1>4. ASSUME NEW r, Dfu!Download(r) \/ Dfu!Others(r)
      PROVE  UNCHANGED << upBroken, upGot, upIndex >>
  BY <1>4, Zenon DEF Dfu!Download, Dfu!Others, Dfu!up
<1>5. ASSUME Dfu!GetStatus \/ Dfu!DataStage \/ Dfu!DownloadAck \/ Dfu!ManifestAck \/ Dfu!OtherAck \/ UNCHANGED dfuVars
      PROVE  UNCHANGED << upBroken, upGot, upIndex >>
  BY <1>5, Zenon DEF Dfu!GetStatus, Dfu!DataStage, Dfu!DownloadAck, Dfu!ManifestAck, Dfu!OtherAck, Dfu!up, dfuVars
<1>6. QED
  BY <1>1, <1>2, <1>3, <1>4, <1>5, Zenon DEF Dfu!Next

LEMMA DownloadNext == DfuTypes /\ DownloadInv /\ [Dfu!Next]_dfuVars => DfuTypes' /\ DownloadInv'
<1> SUFFICES ASSUME DfuTypes, DownloadInv, [Dfu!Next]_dfuVars
             PROVE  DfuTypes' /\ DownloadInv'
  OBVIOUS
<1> USE DEF DfuTypes, DownloadInv, Base, ToldIdle, Dfu!NotTold, Dfu!NoTransfer, Dfu!Kinds, Dfu!Unsent
<1>1. ASSUME NEW r \in {"CLRSTATUS", "ABORT", "SET_INTERFACE", "reset"}, Dfu!ResetRequest(r)
      PROVE  DfuTypes' /\ DownloadInv'
  <2>1. DfuTypes'
    BY <1>1 DEF Dfu!ResetRequest, Dfu!Leaves, Dfu!Request, Dfu!reset_state, Dfu!ota, Dfu!up
  <2>2. DownloadInv'
    BY <1>1 DEF Dfu!ResetRequest, Dfu!Leaves, Dfu!Request, Dfu!reset_state, Dfu!ota, Dfu!up
  <2>3. QED
    BY <2>1, <2>2
<1>2. ASSUME NEW r \in {"DNLOAD", "DNLOAD_END"}, Dfu!Download(r)
      PROVE  DfuTypes' /\ DownloadInv'
  <2> DEFINE stage == IF r = "DNLOAD" THEN "data" ELSE "ack"
  <2>0. /\ UNCHANGED << upIndex, dstatus, buf, handle, written, boot, checked >>
        /\ broken' = (broken \/ Dfu!Unsent) /\ told' = Dfu!NotTold
    BY <1>2, Zenon DEF Dfu!Download, Dfu!Request, Dfu!up
  <2>1. CASE Dfu!InOrder
    <3>1. /\ flashing' = TRUE /\ transfer' = [req |-> r, stage |-> stage]
          /\ dstate' = IF r = "DNLOAD" THEN "DNLOAD_SYNC" ELSE "MANIFEST_SYNC"
          /\ sent' = IF dstate = "IDLE" THEN << >> ELSE sent
      BY <1>2, <2>1, Zenon DEF Dfu!Download, Dfu!Accept
    <3>2. transfer'.req = r /\ transfer'.stage = stage /\ transfer' = [req |-> transfer'.req, stage |-> transfer'.stage]
      BY ONLY <3>1
    <3>3. CASE r = "DNLOAD"
      BY <2>0, <2>1, <3>1, <3>2, <3>3 DEF Dfu!InOrder
    <3>4. CASE r = "DNLOAD_END"
      BY <2>0, <2>1, <3>1, <3>2, <3>4 DEF Dfu!InOrder
    <3>5. QED
      BY <3>3, <3>4
  <2>2. CASE ~Dfu!InOrder
    <3>1. transfer' = Dfu!NoTransfer /\ UNCHANGED << flashing, dstate, sent >>
      BY <1>2, <2>2, Zenon DEF Dfu!Download
    <3>2. QED
      BY <2>0, <3>1
  <2>3. QED
    BY <2>1, <2>2
<1>3. CASE Dfu!GetStatus
  <2>1. DfuTypes'
    BY <1>3 DEF Dfu!GetStatus, Dfu!Request, Dfu!Accept, Dfu!up
  <2>2. DownloadInv'
    BY <1>3 DEF Dfu!GetStatus, Dfu!Request, Dfu!Accept, Dfu!NextState, Dfu!up
  <2>3. QED
    BY <2>1, <2>2
<1>4. CASE Dfu!Upload
  <2>1. upIndex' \in Nat
    BY <1>4 DEF Dfu!Upload, Dfu!UploadBlock
  <2>2. /\ UNCHANGED << dstate, flashing, sent, handle, written, boot, checked >>
        /\ transfer' = [req |-> "UPLOAD", stage |-> "ack"] /\ told' = Dfu!NotTold
        /\ broken' = (broken \/ Dfu!Unsent \/ Dfu!Overwrites)
        /\ buf' = IF Dfu!Reads THEN 0 ELSE buf
    BY <1>4, Zenon DEF Dfu!Upload, Dfu!Request, Dfu!Accept
  <2>3. ~broken' => \/ buf' = buf
                    \/ ~(flashing /\ dstate = "DNLOAD_SYNC")
    BY <2>2 DEF Dfu!Overwrites
  <2>4. QED
    BY <2>1, <2>2, <2>3
<1>5. ASSUME NEW r \in Dfu!Kinds, Dfu!Others(r)
      PROVE  DfuTypes' /\ DownloadInv'
  <2>1. DfuTypes'
    <3>1. transfer' = Dfu!NoTransfer \/ transfer' = [req |-> r, stage |-> "ack"]
      BY <1>5, Zenon DEF Dfu!Others, Dfu!Accept
    <3>2. UNCHANGED << upIndex, flashing, dstate >>
      BY <1>5, Zenon DEF Dfu!Others, Dfu!up
    <3>3. QED
      BY <3>1, <3>2
  <2>2. DownloadInv'
    <3>1. transfer' = Dfu!NoTransfer \/ transfer' = [req |-> r, stage |-> "ack"]
      BY <1>5, Zenon DEF Dfu!Others, Dfu!Accept
    <3>2. /\ UNCHANGED << dstate, flashing, buf, sent, handle, written, boot, checked >>
          /\ broken' = (broken \/ Dfu!Unsent) /\ told' = Dfu!NotTold
      BY <1>5, Zenon DEF Dfu!Others, Dfu!Request
    <3>3. transfer'.stage # "data"
      BY <3>1
    <3>4. QED
      BY <3>2, <3>3
  <2>3. QED
    BY <2>1, <2>2
<1>6. CASE Dfu!DataStage
  BY <1>6 DEF Dfu!DataStage, Dfu!ota, Dfu!up
<1>7. CASE Dfu!DownloadAck
  <2>0. transfer = [req |-> "GETSTATUS", stage |-> "ack"] /\ dstate = "DNLOAD_SYNC" /\ transfer'.stage # "data"
    BY <1>7 DEF Dfu!DownloadAck, Dfu!Acked
  <2>1. CASE flashing
    <3>1. PICK ok \in BOOLEAN : Dfu!ota_start(ok) /\ Dfu!tud_dfu_finish_flashing("DNBUSY", ok, "errWRITE")
      BY <1>7, <2>1 DEF Dfu!DownloadAck
    <3>2. /\ UNCHANGED << sent, told, buf, upIndex >> /\ transfer' = Dfu!NoTransfer
      BY <1>7, Zenon DEF Dfu!DownloadAck, Dfu!up, Dfu!Acked
    <3>3. flashing' = FALSE /\ dstate' = IF ok THEN "DNLOAD_SYNC" ELSE "ERROR"
      BY <3>1, Zenon DEF Dfu!tud_dfu_finish_flashing, Dfu!AfterFlash
    <3>4. DfuTypes'
      BY <3>2, <3>3
    <3>5. CASE ~checked /\ broken' = (broken \/ ok) /\ UNCHANGED Dfu!ota
      BY <2>0, <2>1, <3>2, <3>3, <3>5 DEF Dfu!ota
    <3>6. CASE /\ ~checked /\ checked' = TRUE
               /\ handle' = IF ok THEN "open" ELSE "closed"
               /\ written' = IF ok THEN << buf >> ELSE << >>
               /\ UNCHANGED << boot, broken >>
      BY <2>0, <2>1, <3>2, <3>3, <3>4, <3>6
    <3>7. CASE /\ checked /\ (handle # "open" => ~ok)
               /\ handle' = IF ok THEN "open" ELSE "closed"
               /\ written' = IF ok THEN Append(written, buf) ELSE written
               /\ UNCHANGED << checked, boot, broken >>
      BY <2>0, <2>1, <3>2, <3>3, <3>4, <3>7
    <3>8. QED
      BY <3>1, <3>5, <3>6, <3>7, Zenon DEF Dfu!ota_start
  <2>2. CASE ~flashing
    BY <1>7, <2>0, <2>2 DEF Dfu!DownloadAck, Dfu!Acked, Dfu!ota, Dfu!up
  <2>3. QED
    BY <2>1, <2>2
<1>8. CASE Dfu!ManifestAck
  <2>0. transfer = [req |-> "GETSTATUS", stage |-> "ack"] /\ dstate = "MANIFEST_SYNC"
    BY <1>8 DEF Dfu!ManifestAck, Dfu!Acked
  <2>1. CASE flashing
    <3>1. PICK ok \in BOOLEAN : Dfu!ota_complete(ok) /\ Dfu!tud_dfu_finish_flashing("MANIFEST", ok, "errVERIFY")
      BY <1>8, <2>1 DEF Dfu!ManifestAck
    <3>2. QED
      BY <1>8, <2>0, <2>1, <3>1 DEF Dfu!ManifestAck, Dfu!ota_complete, Dfu!tud_dfu_finish_flashing, Dfu!AfterFlash,
         Dfu!Acked, Dfu!ota, Dfu!up
  <2>2. CASE ~flashing
    BY <1>8, <2>0, <2>2 DEF Dfu!ManifestAck, Dfu!Acked, Dfu!ota, Dfu!up
  <2>3. QED
    BY <2>1, <2>2
<1>9. CASE Dfu!OtherAck
  BY <1>9 DEF Dfu!OtherAck, Dfu!ota, Dfu!up
<1>10. CASE UNCHANGED dfuVars
  BY <1>10 DEF dfuVars
<1>11. QED
  BY <1>1, <1>2, <1>3, <1>4, <1>5, <1>6, <1>7, <1>8, <1>9, <1>10, Zenon DEF Dfu!Next

\* As long as the host gives no download up half way, it is told the truth about it: for any
\* number of requests and blocks and whatever order of the stages of the transfers.
THEOREM UsbDfuIsFaithful == MCSpec => []DfuIsFaithful
<1>1. MCInit => DfuInv
  BY DfuStarts DEF MCInit
<1>2. DfuInv /\ [MCNext]_<< part, usbdVars, dfuVars, vendorVars, netVars,
                            serialVars, classVars, uartVars >> => DfuInv'
  <2>1. [MCNext]_<< part, usbdVars, dfuVars, vendorVars, netVars,
                    serialVars, classVars, uartVars >> => [Dfu!Next]_dfuVars
    BY DEF MCNext
  <2>2. QED
    BY <2>1, UploadNext, DownloadNext, Zenon DEF DfuInv
<1>3. DfuInv => DfuIsFaithful
  BY DEF DfuInv, DfuIsFaithful, Dfu!DfuIsFaithful, UploadInv, DownloadInv, ToldIdle
<1>4. QED
  BY <1>1, <1>2, <1>3, PTL DEF MCSpec

-----------------------------------------------------------------------------
(***************************************************************************)
(* UsbNet.  Until the first reset of the bus nothing is under way before the endpoints   *)
(* are open, and as long as no two tasks have been sending at once, who may send or does   *)
(* finds no transfer; an open interface may send, or a transfer is coming or under way     *)
(* whose end lets it, until one is refused or dropped, also after a reset.                 *)
(***************************************************************************)

SenderPC == {"idle", "taken", "given", "may", "copy", "mark", "block", "xfer"}
SendPC == {"copy", "mark", "block", "xfer"}

NetTypes ==
    /\ sender \in [Senders -> SenderPC]
    /\ netInflight \in {"none", "short", "full"} /\ inDone \in {"none", "short", "full"}
    /\ usb \in {"idle", "ready", "give", "sent", "full", "zlp", "zlpxfer"}
    /\ Net_Semphore \in {0, 1} /\ resets \in Nat
    /\ ecm_mode \in BOOLEAN /\ can_xmit \in BOOLEAN /\ netOpened \in BOOLEAN

\* A transfer is coming, or under way.
Coming ==
    \/ netInflight # "none" \/ inDone # "none"
    \/ \E s \in Senders : sender[s] \in {"mark", "block", "xfer"}

MaySend == netOpened /\ "data" \notin netLost /\ usb \in {"idle", "give"} => can_xmit \/ Coming

SemaphoreInv ==
    netOpened /\ "data" \notin netLost /\ usb = "idle" =>
        Net_Semphore = 1 \/ Coming \/ \E s \in Senders : sender[s] = "taken"

\* Before the endpoints are open nothing is on its way.
Unused ==
    resets = 0 =>
    /\ netOpened => configured
    /\ ~netOpened => /\ ~can_xmit /\ netInflight = "none" /\ inDone = "none" /\ usb = "idle"
                     /\ \A s \in Senders : sender[s] \notin SendPC
    /\ ~wrongEp

NoTransfer == netInflight = "none" /\ inDone = "none"

OneSends ==
    resets = 0 /\ ~met =>
    /\ ~overwritten
    /\ can_xmit => NoTransfer /\ usb \in {"idle", "give"}
    /\ \A s \in Senders : sender[s] \in SendPC => NoTransfer /\ usb \in {"idle", "give"}
    /\ \A s \in Senders : sender[s] \in {"block", "xfer"} => ~can_xmit
    /\ \A s, t \in Senders : sender[s] \in SendPC /\ sender[t] \in SendPC => s = t
    /\ usb \notin {"idle", "give"} => NoTransfer
    /\ netInflight = "none" \/ inDone = "none"

AnnounceInv ==
    /\ ~ecm_mode => notif \in {"none", "report"}
    /\ ecm_mode => ~reply
    /\ reply /\ "report" \notin netLost => notif = "report" \/ announced

NetInv == NetTypes /\ MaySend /\ SemaphoreInv /\ Unused /\ OneSends /\ AnnounceInv

LEMMA NetStarts == Net!Init => NetInv
<1> SUFFICES ASSUME Net!Init PROVE NetInv
  OBVIOUS
<1> USE DEF Net!Init
<1>1. NetTypes
  BY DEF NetTypes, SenderPC
<1>2. MaySend /\ SemaphoreInv /\ AnnounceInv
  BY DEF MaySend, SemaphoreInv, AnnounceInv
<1>3. Unused /\ OneSends
  BY DEF Unused, OneSends, SendPC, NoTransfer
<1>4. QED
  BY <1>1, <1>2, <1>3 DEF NetInv

\* The places of the other senders stay as they are.
LEMMA OneSteps ==
    ASSUME NetTypes, NEW s \in Senders, NEW from, NEW to \in SenderPC, Net!Step(s, from, to)
    PROVE  /\ sender[s] = from /\ sender'[s] = to /\ sender' \in [Senders -> SenderPC]
           /\ \A t \in Senders : t # s => sender'[t] = sender[t]
BY DEF NetTypes, Net!Step

\* A step of a sender that leaves the endpoint.
LEMMA SenderMoves ==
    ASSUME NetInv, NEW s \in Senders, NEW from \in SenderPC, NEW to \in SenderPC,
           Net!Step(s, from, to),
           UNCHANGED << ecm_mode, configured, netOpened, netInflight, inDone, usb, netLost, wrongEp,
                        resets, notif, reply, announced >>,
           \/ UNCHANGED can_xmit
           \/ can_xmit' = FALSE /\ to = "block",
           \/ UNCHANGED Net_Semphore /\ from # "taken"
           \/ Net_Semphore' = 0 /\ to \in {"taken", "xfer"}
           \/ Net_Semphore' = 1,
           to \in SendPC => from \in SendPC \/ (to = "copy" /\ can_xmit),
           from \notin {"mark", "block", "xfer"} \/ to \in {"mark", "block", "xfer"},
           to = "xfer" => from = "block", to = "block" => can_xmit' = FALSE,
           IF to = "copy"
           THEN /\ UNCHANGED overwritten
                /\ met' = (met \/ \E t \in Senders \ {s} : sender[t] \in {"copy", "mark"})
           ELSE /\ met => met'
                /\ overwritten' = overwritten \/ (from = "copy" /\ overwritten' = (overwritten \/ netInflight # "none"))
    PROVE  NetInv'
<1> USE DEF NetInv
<1>1. /\ sender[s] = from /\ sender'[s] = to /\ sender' \in [Senders -> SenderPC]
      /\ \A t \in Senders : t # s => sender'[t] = sender[t]
  BY OneSteps
<1>2. NetTypes'
  <2>1. can_xmit' \in BOOLEAN /\ Net_Semphore' \in {0, 1}
    BY DEF NetTypes
  <2>2. /\ netInflight' = netInflight /\ inDone' = inDone /\ usb' = usb /\ resets' = resets
        /\ ecm_mode' = ecm_mode /\ netOpened' = netOpened
    OBVIOUS
  <2>3. QED
    BY <1>1, <2>1, <2>2, Zenon DEF NetTypes
<1>3. Coming => Coming'
  BY <1>1 DEF Coming
<1>4. MaySend'
  <2>1. CASE UNCHANGED can_xmit
    BY <1>3, <2>1 DEF MaySend
  <2>2. CASE to = "block"
    BY <1>1, <2>2 DEF MaySend, Coming
  <2>3. QED
    BY <2>1, <2>2
<1>5. SemaphoreInv'
  <2>1. CASE UNCHANGED Net_Semphore /\ from # "taken"
    BY <1>1, <1>3, <2>1 DEF SemaphoreInv
  <2>2. CASE to \in {"taken", "xfer"}
    BY <1>1, <2>2 DEF SemaphoreInv, Coming
  <2>3. CASE Net_Semphore' = 1
    BY <2>3 DEF SemaphoreInv
  <2>4. QED
    BY <2>1, <2>2, <2>3
<1>6. AnnounceInv'
  BY DEF AnnounceInv
<1>7. Unused'
  BY <1>1 DEF Unused, SendPC
<1>8. NoTransfer' <=> NoTransfer
  BY DEF NoTransfer
<1>9. OneSends'
  <2> SUFFICES ASSUME resets' = 0, ~met' PROVE OneSends'
    BY DEF OneSends
  <2>1. resets = 0 /\ ~met /\ (to = "copy" => \A t \in Senders \ {s} : sender[t] \notin {"copy", "mark"})
    OBVIOUS
  <2>2. /\ ~overwritten
        /\ can_xmit => NoTransfer /\ usb \in {"idle", "give"}
        /\ \A t \in Senders : sender[t] \in SendPC => NoTransfer /\ usb \in {"idle", "give"}
        /\ \A t \in Senders : sender[t] \in {"block", "xfer"} => ~can_xmit
        /\ \A t, u \in Senders : sender[t] \in SendPC /\ sender[u] \in SendPC => t = u
        /\ usb \notin {"idle", "give"} => NoTransfer
        /\ netInflight = "none" \/ inDone = "none"
    BY <2>1 DEF OneSends
  <2>3. to \in SendPC => \A t \in Senders : t # s => sender[t] \notin SendPC
    <3>1. CASE from \in SendPC
      BY <1>1, <2>2, <3>1
    <3>2. CASE to = "copy" /\ can_xmit
      BY <2>1, <2>2, <3>2 DEF SendPC
    <3>3. QED
      BY <3>1, <3>2
  <2>4. ~overwritten'
    BY <1>1, <2>2 DEF SendPC, NoTransfer
  <2>5. can_xmit' => NoTransfer' /\ usb' \in {"idle", "give"}
    BY <1>8, <2>2
  <2>6. \A t \in Senders : sender'[t] \in SendPC => NoTransfer' /\ usb' \in {"idle", "give"}
    BY <1>1, <1>8, <2>2
  <2>7. \A t \in Senders : sender'[t] \in {"block", "xfer"} => ~can_xmit'
    BY <1>1, <2>2
  <2>8. \A t, u \in Senders : sender'[t] \in SendPC /\ sender'[u] \in SendPC => t = u
    BY <1>1, <2>2, <2>3
  <2>9. usb' \notin {"idle", "give"} => NoTransfer'
    BY <1>8, <2>2
  <2>10. netInflight' = "none" \/ inDone' = "none"
    BY <2>2
  <2>11. QED
    BY <2>4, <2>5, <2>6, <2>7, <2>8, <2>9, <2>10 DEF OneSends
<1>10. QED
  BY <1>2, <1>4, <1>5, <1>6, <1>7, <1>9

\* A transfer is asked for: it starts or it is refused, and that is known.
LEMMA Asks ==
    ASSUME NetTypes, Unused, resets = 0 => netOpened, NEW len \in {"short", "full"}, Net!usbd_edpt_xfer(len)
    PROVE  /\ netInflight' \in {"none", "short", "full"}
           /\ "data" \in netLost => "data" \in netLost'
           /\ "report" \in netLost' <=> "report" \in netLost
           /\ netOpened => "data" \in netLost' \/ netInflight' # "none" \/ inDone # "none"
           /\ resets = 0 => wrongEp' = wrongEp
BY DEF NetTypes, Net!usbd_edpt_xfer

LEMMA NetNext == NetInv /\ [Net!Next]_netVars => NetInv'
<1> SUFFICES ASSUME NetTypes, MaySend, SemaphoreInv, Unused, OneSends, AnnounceInv, [Net!Next]_netVars
             PROVE  NetInv'
  BY DEF NetInv
<1>a. NetInv
  BY DEF NetInv
<1> USE DEF Net!permission, Net!endpoint, Net!control, Net!setting, Net!seen, Net!Event, Net!Asked
<1>1. CASE Net!netd_open
  <2>1. UNCHANGED << sender, netInflight, inDone, can_xmit, Net_Semphore, netLost, resets, ecm_mode,
                     overwritten, met, wrongEp, notif, reply, announced >>
        /\ configured' = TRUE /\ ~configured /\ usb = "idle"
        /\ netOpened' = ~ecm_mode
        /\ IF ecm_mode THEN UNCHANGED usb ELSE usb' = "ready"
    BY <1>1 DEF Net!netd_open, Net!Ready
  <2>2. CASE ecm_mode
    <3>1. netOpened' = FALSE /\ UNCHANGED usb
      BY <2>1, <2>2
    <3>2. NetTypes'
      BY <2>1, <3>1 DEF NetTypes
    <3>3. MaySend' /\ SemaphoreInv' /\ AnnounceInv'
      BY <2>1, <3>1 DEF MaySend, SemaphoreInv, AnnounceInv
    <3>4. Unused'
      BY <2>1, <3>1 DEF Unused
    <3>5. OneSends'
      BY <2>1, <3>1 DEF OneSends, NoTransfer
    <3>6. QED
      BY <3>2, <3>3, <3>4, <3>5 DEF NetInv
  <2>3. CASE ~ecm_mode
    <3>1. netOpened' = TRUE /\ usb' = "ready"
      BY <2>1, <2>3
    <3>2. NetTypes'
      BY <2>1, <3>1 DEF NetTypes
    <3>3. MaySend' /\ SemaphoreInv' /\ AnnounceInv'
      BY <2>1, <3>1 DEF MaySend, SemaphoreInv, AnnounceInv
    <3>4. Unused'
      BY <2>1, <3>1 DEF Unused
    <3>5. resets' = 0 => ~can_xmit' /\ NoTransfer' /\ \A s \in Senders : sender'[s] \notin SendPC
      BY <2>1 DEF Unused, NoTransfer
    <3>6. \A s \in Senders : sender'[s] \in {"block", "xfer"} => sender'[s] \in SendPC
      BY DEF SendPC
    <3>7. OneSends'
      BY <2>1, <3>5, <3>6 DEF OneSends, NoTransfer
    <3>8. QED
      BY <3>2, <3>3, <3>4, <3>7 DEF NetInv
  <2>4. QED
    BY <2>2, <2>3
<1>2. ASSUME NEW alt, Net!SetInterface(alt)
      PROVE  NetInv'
  <2>1. /\ UNCHANGED << sender, netInflight, inDone, can_xmit, Net_Semphore, netLost, resets, ecm_mode,
                        overwritten, met, wrongEp, notif, reply, announced >>
        /\ configured' = configured /\ configured /\ usb = "idle"
        /\ \/ ~netOpened /\ netOpened' = TRUE /\ usb' = "ready"
           \/ UNCHANGED << netOpened, usb >>
    BY <1>2 DEF Net!SetInterface, Net!Ready
  <2>2. NetTypes'
    BY <2>1 DEF NetTypes
  <2>3. MaySend' /\ SemaphoreInv' /\ AnnounceInv'
    <3>1. CASE usb' = "ready"
      BY <2>1, <3>1 DEF MaySend, SemaphoreInv, AnnounceInv
    <3>2. CASE UNCHANGED << netOpened, usb >>
      BY <2>1, <3>2 DEF MaySend, SemaphoreInv, AnnounceInv, Coming
    <3>3. QED
      BY <2>1, <3>1, <3>2
  <2>4. Unused'
    BY <2>1 DEF Unused
  <2>5. OneSends'
    <3>1. CASE UNCHANGED << netOpened, usb >>
      BY <2>1, <3>1 DEF OneSends, NoTransfer
    <3>2. CASE ~netOpened /\ usb' = "ready"
      <4>1. resets' = 0 => ~can_xmit' /\ NoTransfer' /\ \A s \in Senders : sender'[s] \notin SendPC
        BY <2>1, <3>2 DEF Unused, NoTransfer
      <4>2. \A s \in Senders : sender'[s] \in {"block", "xfer"} => sender'[s] \in SendPC
        BY DEF SendPC
      <4>3. resets' = 0 /\ ~met' => ~overwritten'
        BY <2>1 DEF OneSends
      <4>4. QED
        BY <4>1, <4>2, <4>3 DEF OneSends, NoTransfer
    <3>3. QED
      BY <2>1, <3>1, <3>2
  <2>6. QED
    BY <2>2, <2>3, <2>4, <2>5 DEF NetInv
<1>3. CASE Net!netd_reset
  <2>1. UNCHANGED << ecm_mode, can_xmit, Net_Semphore, usb, sender >> /\ inDone' = "none"
        /\ netOpened' = FALSE /\ netInflight' = "none" /\ resets' = resets + 1 /\ notif' = "none" /\ reply' = FALSE
    BY <1>3 DEF Net!netd_reset
  <2>2. NetTypes' /\ resets' # 0
    <3>1. resets' \in Nat /\ resets' # 0
      BY <2>1 DEF NetTypes
    <3>2. QED
      BY <2>1, <3>1 DEF NetTypes
  <2>3. QED
    BY <2>1, <2>2 DEF NetInv, MaySend, SemaphoreInv, AnnounceInv, Unused, OneSends
<1>4. ASSUME NEW s \in Senders, Net!Take(s) \/ Net!Give(s)
      PROVE  NetInv'
  <2>1. /\ UNCHANGED << ecm_mode, configured, netOpened, netInflight, inDone, usb, netLost, wrongEp,
                        resets, notif, reply, announced, can_xmit, met, overwritten >>
        /\ \/ Net_Semphore' = 0 /\ Net!Step(s, "idle", "taken")
           \/ Net_Semphore' = 1 /\ Net!Step(s, "taken", "given")
    BY <1>4 DEF Net!Take, Net!Give
  <2>2. CASE Net_Semphore' = 0 /\ Net!Step(s, "idle", "taken")
    BY <1>a, <2>1, <2>2, SenderMoves DEF SenderPC, SendPC
  <2>3. CASE Net_Semphore' = 1 /\ Net!Step(s, "taken", "given")
    BY <1>a, <2>1, <2>3, SenderMoves DEF SenderPC, SendPC
  <2>4. QED
    BY <2>1, <2>2, <2>3
<1>5. ASSUME NEW s \in Senders, Net!CanXmit(s)
      PROVE  NetInv'
  <2>1. /\ UNCHANGED << ecm_mode, configured, netOpened, netInflight, inDone, usb, netLost, wrongEp,
                        resets, notif, reply, announced, can_xmit, Net_Semphore, overwritten >>
        /\ met' = (met \/ (sender'[s] = "copy" /\ \E t \in Senders \ {s} : sender[t] \in {"copy", "mark"}))
    BY <1>5 DEF Net!CanXmit
  <2>2. PICK from \in {"given", "may"}, to \in SenderPC :
          /\ to \in {"idle", "may"} \/ (to = "copy" /\ can_xmit)
          /\ Net!Step(s, from, to)
    BY <1>5, Zenon DEF Net!CanXmit, SenderPC
  <2>3. sender'[s] = to /\ from \in SenderPC
    BY <2>2, OneSteps DEF SenderPC
  <2>4. from \notin {"taken", "mark", "block", "xfer"} /\ to \notin {"xfer", "block"}
        /\ (to \in SendPC => to = "copy" /\ can_xmit)
    BY <2>2 DEF SendPC
  <2>5. IF to = "copy"
        THEN /\ UNCHANGED overwritten
             /\ met' = (met \/ \E t \in Senders \ {s} : sender[t] \in {"copy", "mark"})
        ELSE (met => met') /\ UNCHANGED overwritten
    <3>1. CASE to = "copy"
      BY <2>1, <2>3, <3>1, Zenon
    <3>2. CASE to # "copy"
      BY <2>1, <2>3, <3>2, Zenon
    <3>3. QED
      BY <3>1, <3>2
  <2>6. QED
    BY <1>a, <2>1, <2>2, <2>3, <2>4, <2>5, SenderMoves
<1>6. ASSUME NEW s \in Senders, Net!Copy(s)
      PROVE  NetInv'
  <2>1. /\ UNCHANGED << ecm_mode, configured, netOpened, netInflight, inDone, usb, netLost, wrongEp,
                        resets, notif, reply, announced, can_xmit, Net_Semphore, met >>
        /\ overwritten' = (overwritten \/ netInflight # "none")
        /\ Net!Step(s, "copy", "mark")
    BY <1>6 DEF Net!Copy
  <2>2. QED
    BY <1>a, <2>1, SenderMoves DEF SenderPC, SendPC
<1>7. ASSUME NEW s \in Senders, Net!Mark(s)
      PROVE  NetInv'
  <2>1. /\ UNCHANGED << ecm_mode, configured, netOpened, netInflight, inDone, usb, netLost, wrongEp,
                        resets, notif, reply, announced, Net_Semphore, met, overwritten >>
        /\ can_xmit' = FALSE
        /\ Net!Step(s, "mark", "block")
    BY <1>7 DEF Net!Mark
  <2>2. QED
    BY <1>a, <2>1, SenderMoves DEF SenderPC, SendPC
<1>8. ASSUME NEW s \in Senders, Net!Block(s)
      PROVE  NetInv'
  <2>1. /\ UNCHANGED << ecm_mode, configured, netOpened, netInflight, inDone, usb, netLost, wrongEp,
                        resets, notif, reply, announced, can_xmit, met, overwritten >>
        /\ Net_Semphore' = 0
        /\ Net!Step(s, "block", "xfer")
    BY <1>8 DEF Net!Block
  <2>2. QED
    BY <1>a, <2>1, SenderMoves DEF SenderPC, SendPC
<1>9. ASSUME NEW s \in Senders, NEW len \in {"short", "full"}, Net!Xfer(s, len)
      PROVE  NetInv'
  <2>1. /\ UNCHANGED << ecm_mode, configured, netOpened, inDone, usb, resets, notif, reply, announced,
                        can_xmit, Net_Semphore, met, overwritten >>
        /\ Net!usbd_edpt_xfer(len)
        /\ Net!Step(s, "xfer", "idle")
    BY <1>9 DEF Net!Xfer
  <2>2. /\ sender[s] = "xfer" /\ sender'[s] = "idle" /\ sender' \in [Senders -> SenderPC]
        /\ \A t \in Senders : t # s => sender'[t] = sender[t]
    BY <2>1, OneSteps DEF SenderPC
  <2>3. resets = 0 => netOpened
    BY <2>2 DEF Unused, SendPC
  <2>4. /\ netInflight' \in {"none", "short", "full"}
        /\ "data" \in netLost => "data" \in netLost'
        /\ "report" \in netLost' <=> "report" \in netLost
        /\ netOpened => "data" \in netLost' \/ netInflight' # "none" \/ inDone # "none"
        /\ resets = 0 => wrongEp' = wrongEp
    BY <2>1, <2>3, Asks
  <2>5. NetTypes'
    BY <2>1, <2>2, <2>4 DEF NetTypes
  <2>6. AnnounceInv'
    BY <2>1, <2>4 DEF AnnounceInv
  <2>7. MaySend' /\ SemaphoreInv'
    BY <2>1, <2>4 DEF MaySend, SemaphoreInv, Coming
  <2>8. Unused'
    BY <2>1, <2>3, <2>4 DEF Unused
  <2>9. OneSends'
    <3> SUFFICES ASSUME resets' = 0, ~met' PROVE OneSends'
      BY DEF OneSends
    <3>1. /\ ~overwritten' /\ ~can_xmit' /\ usb' \in {"idle", "give"}
          /\ inDone' = "none"
          /\ \A t \in Senders : sender[t] \in SendPC => t = s
      BY <2>1, <2>2 DEF OneSends, SendPC, NoTransfer
    <3>2. \A t \in Senders : sender'[t] \notin SendPC
      BY <2>2, <3>1 DEF SendPC
    <3>3. \A t \in Senders : sender'[t] \notin {"block", "xfer"}
      BY <3>2 DEF SendPC
    <3>4. QED
      BY <3>1, <3>2, <3>3 DEF OneSends
  <2>10. QED
    BY <2>5, <2>6, <2>7, <2>8, <2>9 DEF NetInv
<1>10. CASE Net!InComplete
  <2>1. /\ UNCHANGED << sender, netOpened, can_xmit, Net_Semphore, usb, netLost, met, overwritten, wrongEp,
                        notif, reply, announced, resets, ecm_mode, configured >>
        /\ netInflight # "none" /\ netInflight' = "none" /\ inDone' = netInflight
    BY <1>10 DEF Net!InComplete
  <2>2. NetTypes' /\ AnnounceInv'
    BY <2>1 DEF NetTypes, AnnounceInv
  <2>3. MaySend' /\ SemaphoreInv'
    BY <2>1 DEF MaySend, SemaphoreInv, Coming
  <2>4. Unused'
    BY <2>1 DEF Unused
  <2>5. OneSends'
    <3>1. resets' = 0 /\ ~met' => /\ ~overwritten' /\ ~can_xmit' /\ usb' \in {"idle", "give"}
                                  /\ \A s \in Senders : sender'[s] \notin SendPC
      BY <2>1 DEF OneSends, NoTransfer
    <3>2. \A s \in Senders : sender'[s] \in {"block", "xfer"} => sender'[s] \in SendPC
      BY DEF SendPC
    <3>3. QED
      BY <2>1, <3>1, <3>2 DEF OneSends
  <2>6. QED
    BY <2>2, <2>3, <2>4, <2>5 DEF NetInv
<1>11. CASE Net!InFree
  <2>1. /\ UNCHANGED << sender, netOpened, can_xmit, Net_Semphore, netLost, netInflight, met, overwritten,
                        wrongEp, notif, reply, announced, resets, ecm_mode, configured >>
        /\ usb' \in {"full", "sent"} /\ inDone # "none" /\ inDone' = "none" /\ usb = "idle"
    BY <1>11 DEF Net!InFree
  <2>2. NetTypes' /\ AnnounceInv' /\ MaySend' /\ SemaphoreInv'
    BY <2>1 DEF NetTypes, AnnounceInv, MaySend, SemaphoreInv
  <2>3. Unused'
    BY <2>1 DEF Unused
  <2>4. OneSends'
    <3>1. resets' = 0 /\ ~met' => /\ ~overwritten' /\ ~can_xmit'
                                  /\ NoTransfer' /\ \A s \in Senders : sender'[s] \notin SendPC
      BY <2>1 DEF OneSends, NoTransfer
    <3>2. \A s \in Senders : sender'[s] \in {"block", "xfer"} => sender'[s] \in SendPC
      BY DEF SendPC
    <3>3. QED
      BY <2>1, <3>1, <3>2 DEF OneSends
  <2>5. QED
    BY <2>2, <2>3, <2>4 DEF NetInv
<1>12. CASE Net!Permit
  <2>1. /\ UNCHANGED << sender, netOpened, Net_Semphore, netLost, netInflight, inDone, met, overwritten,
                        wrongEp, notif, reply, announced, resets, ecm_mode, configured >>
        /\ usb \in {"ready", "sent"} /\ usb' = "give" /\ can_xmit' = TRUE
    BY <1>12 DEF Net!Permit
  <2>2. NetTypes' /\ AnnounceInv' /\ MaySend' /\ SemaphoreInv'
    BY <2>1 DEF NetTypes, AnnounceInv, MaySend, SemaphoreInv
  <2>3. Unused'
    BY <2>1 DEF Unused
  <2>4. OneSends'
    <3>1. resets' = 0 /\ ~met' => /\ ~overwritten' /\ NoTransfer'
                                  /\ \A s \in Senders : sender'[s] \notin SendPC
      BY <2>1 DEF OneSends, NoTransfer
    <3>2. \A s \in Senders : sender'[s] \in {"block", "xfer"} => sender'[s] \in SendPC
      BY DEF SendPC
    <3>3. usb' = "give"
      BY <2>1
    <3>4. QED
      BY <3>1, <3>2, <3>3 DEF OneSends, NoTransfer
  <2>5. QED
    BY <2>2, <2>3, <2>4 DEF NetInv
<1>13. CASE Net!GiveSemaphore
  <2>1. /\ UNCHANGED << sender, netOpened, can_xmit, netLost, netInflight, inDone, met, overwritten,
                        wrongEp, notif, reply, announced, resets, ecm_mode, configured >>
        /\ usb = "give" /\ usb' = "idle" /\ Net_Semphore' = 1
    BY <1>13 DEF Net!GiveSemaphore
  <2>2. NetTypes' /\ AnnounceInv' /\ MaySend' /\ SemaphoreInv'
    BY <2>1 DEF NetTypes, AnnounceInv, MaySend, SemaphoreInv, Coming
  <2>3. Unused'
    BY <2>1 DEF Unused
  <2>4. OneSends'
    BY <2>1 DEF OneSends, NoTransfer
  <2>5. QED
    BY <2>2, <2>3, <2>4 DEF NetInv
<1>14. CASE Net!EndPacket
  <2>1. UNCHANGED << sender, netOpened, inDone, met, overwritten, notif, reply, announced, resets,
                     ecm_mode, configured >>
    BY <1>14 DEF Net!EndPacket
  <2>2. usb \in {"full", "zlp", "zlpxfer"} /\ usb' \in {"zlp", "zlpxfer", "idle"}
    BY <1>14 DEF Net!EndPacket
  <2>3. can_xmit' \in {can_xmit, FALSE} /\ Net_Semphore' \in {Net_Semphore, 0}
    BY <1>14 DEF Net!EndPacket
  <2>4. resets = 0 => netOpened
    BY <2>2 DEF Unused
  <2>5. \/ usb' # "idle" /\ UNCHANGED << netInflight, netLost, wrongEp >>
        \/ usb' = "idle" /\ Net!usbd_edpt_xfer("short")
    BY <1>14 DEF Net!EndPacket
  <2>6. /\ netInflight' \in {"none", "short", "full"}
        /\ "data" \in netLost => "data" \in netLost'
        /\ "report" \in netLost' <=> "report" \in netLost
        /\ netOpened /\ usb' = "idle" => "data" \in netLost' \/ netInflight' # "none" \/ inDone # "none"
        /\ resets = 0 => wrongEp' = wrongEp
        /\ usb' # "idle" => netInflight' = netInflight
    <3>1. CASE usb' # "idle" /\ UNCHANGED << netInflight, netLost, wrongEp >>
      BY <3>1 DEF NetTypes
    <3>2. CASE usb' = "idle" /\ Net!usbd_edpt_xfer("short")
      BY <2>4, <3>2, Asks
    <3>3. QED
      BY <2>5, <3>1, <3>2
  <2>7. NetTypes'
    BY <2>1, <2>2, <2>3, <2>6 DEF NetTypes
  <2>8. AnnounceInv'
    BY <2>1, <2>6 DEF AnnounceInv
  <2>9. MaySend' /\ SemaphoreInv'
    BY <2>1, <2>2, <2>6 DEF MaySend, SemaphoreInv, Coming
  <2>10. Unused'
    BY <2>1, <2>2, <2>4, <2>6 DEF Unused
  <2>11. OneSends'
    <3>1. resets' = 0 /\ ~met' => /\ ~overwritten' /\ ~can_xmit' /\ inDone' = "none"
                                  /\ (usb' # "idle" => netInflight' = "none")
                                  /\ \A s \in Senders : sender'[s] \notin SendPC
      BY <2>1, <2>2, <2>3, <2>6 DEF OneSends, NoTransfer
    <3>2. \A s \in Senders : sender'[s] \in {"block", "xfer"} => sender'[s] \in SendPC
      BY DEF SendPC
    <3>3. QED
      BY <3>1, <3>2 DEF OneSends, NoTransfer
  <2>12. QED
    BY <2>7, <2>8, <2>9, <2>10, <2>11 DEF NetInv
<1>15. ASSUME UNCHANGED << ecm_mode, configured, netOpened, can_xmit, Net_Semphore, netInflight, inDone, usb,
                           overwritten, wrongEp, met, sender, resets >>,
              "data" \in netLost => "data" \in netLost', AnnounceInv'
       PROVE  NetInv'
  <2>1. NetTypes'
    BY <1>15 DEF NetTypes
  <2>2. MaySend' /\ SemaphoreInv'
    BY <1>15 DEF MaySend, SemaphoreInv, Coming
  <2>3. Unused'
    BY <1>15 DEF Unused
  <2>4. OneSends'
    BY <1>15 DEF OneSends, NoTransfer
  <2>5. QED
    BY <1>15, <2>1, <2>2, <2>3, <2>4 DEF NetInv
<1>16. CASE Net!Halt
  <2>1. UNCHANGED << ecm_mode, configured, netOpened, can_xmit, Net_Semphore, inDone, usb, overwritten,
                     wrongEp, met, sender, resets, notif, reply, announced >>
    BY <1>16 DEF Net!Halt
  <2>2. CASE UNCHANGED << netInflight, netLost >>
    BY <1>15, <2>1, <2>2 DEF AnnounceInv
  <2>3. CASE netInflight # "none" /\ netInflight' = "none" /\ netLost' = netLost \cup {"data"}
    <3>1. NetTypes' /\ AnnounceInv'
      BY <2>1, <2>3 DEF NetTypes, AnnounceInv
    <3>2. MaySend' /\ SemaphoreInv'
      BY <2>3 DEF MaySend, SemaphoreInv
    <3>3. Unused'
      BY <2>1, <2>3 DEF Unused
    <3>4. OneSends'
      BY <2>1, <2>3 DEF OneSends, NoTransfer
    <3>5. QED
      BY <3>1, <3>2, <3>3, <3>4 DEF NetInv
  <2>4. QED
    BY <1>16, <2>2, <2>3 DEF Net!Halt
<1>17. CASE Net!Unhalt
  BY <1>15, <1>17 DEF Net!Unhalt, AnnounceInv
<1>18. CASE Net!HaltNotif
  <2>1. /\ UNCHANGED << ecm_mode, configured, netOpened, can_xmit, Net_Semphore, netInflight, inDone, usb,
                        overwritten, wrongEp, met, sender, resets, reply, announced >>
        /\ notif' = "none" /\ netLost' = netLost \cup {"report"}
    BY <1>18 DEF Net!HaltNotif
  <2>2. AnnounceInv'
    BY <2>1 DEF AnnounceInv
  <2>3. QED
    BY <1>15, <2>1, <2>2
<1>19. ASSUME NEW msg, Net!rndis_class_set_handler(msg)
       PROVE  NetInv'
  <2>1. /\ UNCHANGED << ecm_mode, configured, netOpened, can_xmit, Net_Semphore, netInflight, inDone, usb,
                        overwritten, wrongEp, met, sender, resets, announced >>
        /\ ~ecm_mode /\ Net!Report("report")
    BY <1>19 DEF Net!rndis_class_set_handler
  <2>2. AnnounceInv' /\ ("data" \in netLost => "data" \in netLost')
    BY <2>1 DEF AnnounceInv, Net!Report
  <2>3. QED
    BY <1>15, <2>1, <2>2
<1>20. CASE Net!GetResponse
  <2>1. /\ UNCHANGED << ecm_mode, configured, netOpened, can_xmit, Net_Semphore, netInflight, inDone, usb,
                        overwritten, wrongEp, met, sender, resets, notif >>
        /\ reply' = FALSE /\ netLost' = netLost \ {"report"}
    BY <1>20 DEF Net!GetResponse
  <2>2. AnnounceInv'
    BY <2>1 DEF AnnounceInv
  <2>3. QED
    BY <1>15, <2>1, <2>2
<1>21. CASE Net!PacketFilter
  <2>1. /\ UNCHANGED << ecm_mode, configured, netOpened, can_xmit, Net_Semphore, netInflight, inDone, usb,
                        overwritten, wrongEp, met, sender, resets, reply, announced >>
        /\ ecm_mode /\ Net!Report("nc")
    BY <1>21 DEF Net!PacketFilter
  <2>2. AnnounceInv' /\ ("data" \in netLost => "data" \in netLost')
    BY <2>1 DEF AnnounceInv, Net!Report
  <2>3. QED
    BY <1>15, <2>1, <2>2
<1>22. CASE Net!NotifRead
  <2>1. /\ UNCHANGED << ecm_mode, configured, netOpened, can_xmit, Net_Semphore, netInflight, inDone, usb,
                        overwritten, wrongEp, met, sender, resets, reply >>
        /\ announced' = (announced \/ notif = "report")
        /\ netLost' \in {netLost, netLost \cup {"report"}}
        /\ ~ecm_mode => notif' = "none" \/ notif = "nc"
    BY <1>22 DEF Net!NotifRead
  <2>2. AnnounceInv'
    BY <2>1 DEF AnnounceInv
  <2>3. QED
    BY <1>15, <2>1, <2>2
<1>23. CASE UNCHANGED netVars
  BY <1>15, <1>23 DEF netVars, AnnounceInv
<1>24. QED
  BY <1>1, <1>2, <1>3, <1>4, <1>5, <1>6, <1>7, <1>8, <1>9, <1>10, <1>11, <1>12, <1>13, <1>14, <1>16, <1>17,
     <1>18, <1>19, <1>20, <1>21, <1>22, <1>23, Zenon DEF Net!Next

\* An open interface that sends nothing may send, and the semaphore says so, until a transfer is
\* refused or dropped by a halt; before the first reset no packet goes to endpoint 0, and none is
\* overwritten unless two tasks passed the test at once; every answer is announced, unless that is
\* refused or dropped: for any set of senders.
THEOREM UsbNetPathSound == MCSpec => []NetPathSound
<1>1. MCInit => NetInv
  BY NetStarts DEF MCInit
<1>2. NetInv /\ [MCNext]_<< part, usbdVars, dfuVars, vendorVars, netVars,
                            serialVars, classVars, uartVars >> => NetInv'
  <2>1. [MCNext]_<< part, usbdVars, dfuVars, vendorVars, netVars,
                    serialVars, classVars, uartVars >> => [Net!Next]_netVars
    BY DEF MCNext
  <2>2. QED
    BY <2>1, NetNext
<1>3. NetInv => NetPathSound
  <2> SUFFICES ASSUME NetInv PROVE Net!NetPathSound
    BY DEF NetPathSound
  <2>1. Net!Quiet => netOpened /\ usb = "idle" /\ ~Coming
    BY DEF Net!Quiet, Net!InXmit, Coming
  <2>2. Net!Quiet /\ "data" \notin netLost =>
            can_xmit /\ (Net_Semphore = 1 \/ \E s \in Senders : sender[s] = "taken")
    BY <2>1 DEF NetInv, MaySend, SemaphoreInv
  <2>3. resets = 0 => (overwritten => met) /\ ~wrongEp
    BY DEF NetInv, Unused, OneSends
  <2>4. QED
    BY <2>2, <2>3 DEF NetInv, Net!NetPathSound, AnnounceInv
<1>4. QED
  BY <1>1, <1>2, <1>3, PTL DEF MCSpec

-----------------------------------------------------------------------------
(***************************************************************************)
(* UsbVendor.  Packets are numbered as they are sent, so each queue holds the numbers    *)
(* that follow those of the next one on the way; the two tasks take turns at the         *)
(* endpoints as long as they have not met there.                                *)
(***************************************************************************)

VendorPC == {"none", "idle", "poll", "leaving", "copy", "prepare", "arm", "reply", "transmit",
             "fill", "send"}

VendorTypes ==
    /\ rx_ff \in Seq(Nat) /\ toDevice \in Seq(Nat) /\ got \in Seq(Nat) /\ outBuf \in Nat
    /\ tx_ff \in Seq(Nat) /\ wrote \in Seq(Nat) /\ toHost \in Seq(Nat) /\ inBuf \in Nat
    /\ outBusy \in BOOLEAN /\ inBusy \in BOOLEAN /\ raced \in BOOLEAN
    /\ pc \in [Ven!Tasks -> VendorPC]
    /\ done \in Seq({"out", "in"})
    /\ \A i, j \in 1 .. Len(done) : done[i] = done[j] => i = j

\* s is the numbers n + 1, n + 2, ...
From(s, n) == \A i \in 1 .. Len(s) : s[i] = n + i

\* The OUT endpoint is armed when the queue has room, by one task.
OutInv ==
    ~raced =>
    /\ Ven!IsDone("out") => outBusy
    /\ pc["usb"] = "copy" => ~outBusy
    /\ outBusy \/ pc["usb"] \in {"copy", "arm"} \/ pc["web"] = "arm" => Len(rx_ff) < RxSize
    /\ "arm" \in {pc["usb"], pc["web"]} => ~outBusy
    /\ pc["web"] = "arm" => pc["usb"] \notin {"copy", "arm"}

\* A packet of the host has arrived and is not yet in the queue.
Comes == Ven!IsDone("out") \/ pc["usb"] = "copy"
OutData ==
    ~raced =>
    /\ Len(toDevice) = Len(got) + Len(rx_ff) + (IF Comes THEN 1 ELSE 0)
    /\ Comes => outBuf = Len(toDevice)
    /\ From(toDevice, 0) /\ From(got, 0) /\ From(rx_ff, Len(got))

\* One task at most is sending, and none while the IN endpoint is busy.
InInv ==
    ~raced =>
    /\ Ven!IsDone("in") => inBusy
    /\ pc["usb"] \in {"fill", "send"} \/ pc["web"] \in {"fill", "send"} => ~inBusy
    /\ ~(pc["usb"] = "send" /\ pc["web"] = "send")
    /\ tx_ff # << >> => \/ inBusy
                        \/ pc["usb"] \in {"transmit", "fill", "send"}
                        \/ pc["web"] \in {"transmit", "fill", "send"}

\* A reply is in the buffer and not yet at the host.
Leaves == "send" \in {pc["usb"], pc["web"]} \/ (inBusy /\ ~Ven!IsDone("in"))
InData ==
    ~raced =>
    /\ Len(wrote) = Len(toHost) + Len(tx_ff) + (IF Leaves THEN 1 ELSE 0)
    /\ Leaves => inBuf = Len(toHost) + 1
    /\ From(wrote, 0) /\ From(toHost, 0)
    /\ From(tx_ff, IF Leaves THEN Len(toHost) + 1 ELSE Len(toHost))

\* The flag of the console says that its task exists.
ConsoleInv ==
    /\ webusb_connected_flag <=> pc["web"] # "none"
    /\ web_serial_connected /\ pc["web"] \in {"leaving", "none"} => missed

VendorInv == VendorTypes /\ OutInv /\ OutData /\ InInv /\ InData /\ ConsoleInv

LEMMA VendorStarts == Ven!Init => VendorInv
<1> SUFFICES ASSUME Ven!Init
             PROVE  VendorInv
  OBVIOUS
<1> USE DEF Ven!Init
<1>1. pc["usb"] = "idle" /\ pc["web"] = "none" /\ Len(done) = 0
  OBVIOUS
<1>2. ~Ven!IsDone("out") /\ ~Ven!IsDone("in")
  BY <1>1 DEF Ven!IsDone
<1>3. VendorTypes
  <2>1. pc \in [Ven!Tasks -> VendorPC]
    BY DEF Ven!Tasks, VendorPC
  <2>2. << >> \in Seq(Nat) /\ done \in Seq({"out", "in"})
    OBVIOUS
  <2>3. \A i, j \in 1 .. Len(done) : done[i] = done[j] => i = j
    BY <1>1
  <2>4. QED
    BY <2>1, <2>2, <2>3 DEF VendorTypes
<1>4. OutInv /\ InInv /\ ConsoleInv
  BY <1>1, <1>2, UsbAssumption DEF OutInv, InInv, ConsoleInv, Ven!VendorAssumption
<1>5. OutData
  BY <1>1, <1>2 DEF OutData, Comes, From
<1>6. InData
  BY <1>1, <1>2 DEF InData, Leaves, From
<1>7. QED
  BY <1>3, <1>4, <1>5, <1>6 DEF VendorInv

\* A task goes on; the other stays.
LEMMA GoesOn ==
    ASSUME VendorTypes, NEW t \in Ven!Tasks, NEW s \in VendorPC, Ven!Go(t, s)
    PROVE  /\ pc' \in [Ven!Tasks -> VendorPC] /\ pc'[t] = s
           /\ \A u \in Ven!Tasks : u # t => pc'[u] = pc[u]
  BY DEF VendorTypes, Ven!Go

LEMMA OneMore ==
    ASSUME NEW S, NEW q \in Seq(S), NEW x \in S
    PROVE  /\ Append(q, x) \in Seq(S) /\ Len(Append(q, x)) = Len(q) + 1
           /\ \A i \in 1 .. Len(q) : Append(q, x)[i] = q[i]
           /\ Append(q, x)[Len(q) + 1] = x
  OBVIOUS

LEMMA OneLess ==
    ASSUME NEW S, NEW q \in Seq(S), q # << >>
    PROVE  /\ Head(q) \in S /\ Head(q) = q[1] /\ Tail(q) \in Seq(S)
           /\ Len(q) \in Nat \ {0} /\ Len(Tail(q)) = Len(q) - 1
           /\ \A i \in 1 .. Len(q) - 1 : Tail(q)[i] = q[i + 1]
  OBVIOUS

\* What the end of a transfer and its handling change.
LEMMA DoneMore ==
    ASSUME VendorTypes, NEW x \in {"out", "in"}, done' = Append(done, x), ~Ven!IsDone(x)
    PROVE  /\ done' \in Seq({"out", "in"})
           /\ \A i, j \in 1 .. Len(done') : done'[i] = done'[j] => i = j
           /\ \A y \in {"out", "in"} : Ven!IsDone(y)' <=> Ven!IsDone(y) \/ y = x
<1>1. /\ done' \in Seq({"out", "in"}) /\ Len(done') = Len(done) + 1 /\ Len(done) \in Nat
      /\ \A i \in 1 .. Len(done) : done'[i] = done[i]
      /\ done'[Len(done) + 1] = x
  BY OneMore DEF VendorTypes
<1>2. \A i, j \in 1 .. Len(done') : done'[i] = done'[j] => i = j
  BY <1>1 DEF VendorTypes, Ven!IsDone
<1>3. \A y \in {"out", "in"} : Ven!IsDone(y)' <=> Ven!IsDone(y) \/ y = x
  BY <1>1 DEF Ven!IsDone
<1>4. QED
  BY <1>1, <1>2, <1>3

LEMMA DoneLess ==
    ASSUME VendorTypes, done # << >>, done' = Tail(done)
    PROVE  /\ done' \in Seq({"out", "in"}) /\ Head(done) \in {"out", "in"}
           /\ \A i, j \in 1 .. Len(done') : done'[i] = done'[j] => i = j
           /\ Ven!IsDone(Head(done))
           /\ \A y \in {"out", "in"} : Ven!IsDone(y)' <=> Ven!IsDone(y) /\ y # Head(done)
<1>1. /\ Head(done) \in {"out", "in"} /\ Head(done) = done[1]
      /\ done' \in Seq({"out", "in"}) /\ Len(done) \in Nat \ {0}
      /\ Len(done') = Len(done) - 1
      /\ \A i \in 1 .. Len(done) - 1 : done'[i] = done[i + 1]
  BY OneLess DEF VendorTypes
<1>2. \A i, j \in 1 .. Len(done) : done[i] = done[j] => i = j
  BY DEF VendorTypes
<1>3. \A i, j \in 1 .. Len(done') : done'[i] = done'[j] => i = j
  BY <1>1, <1>2
<1>4. Ven!IsDone(Head(done))
  BY <1>1 DEF Ven!IsDone
<1>5. ASSUME NEW y \in {"out", "in"}
      PROVE  Ven!IsDone(y)' <=> Ven!IsDone(y) /\ y # Head(done)
  <2>1. ASSUME Ven!IsDone(y)' PROVE Ven!IsDone(y) /\ y # Head(done)
    <3>1. PICK i \in 1 .. Len(done') : done'[i] = y
      BY <2>1 DEF Ven!IsDone
    <3>2. i + 1 \in 1 .. Len(done) /\ done[i + 1] = y /\ 1 \in 1 .. Len(done) /\ i + 1 # 1
      BY <1>1, <3>1
    <3>3. QED
      BY <1>1, <1>2, <3>2 DEF Ven!IsDone
  <2>2. ASSUME Ven!IsDone(y), y # Head(done) PROVE Ven!IsDone(y)'
    <3>1. PICK i \in 1 .. Len(done) : done[i] = y
      BY <2>2 DEF Ven!IsDone
    <3>2. i - 1 \in 1 .. Len(done') /\ done'[i - 1] = y
      BY <1>1, <2>2, <3>1
    <3>3. QED
      BY <3>2 DEF Ven!IsDone
  <2>3. QED
    BY <2>1, <2>2
<1>6. QED
  BY <1>1, <1>3, <1>4, <1>5

-----------------------------------------------------------------------------
(* The steps that leave a side of the class alone *)

OutPC(p) == IF p \in {"copy", "arm"} THEN p ELSE "other"
OutStays ==
    /\ UNCHANGED << rx_ff, outBuf, outBusy, toDevice, got >>
    /\ Ven!IsDone("out")' <=> Ven!IsDone("out")
    /\ OutPC(pc'["usb"]) = OutPC(pc["usb"]) /\ OutPC(pc'["web"]) = OutPC(pc["web"])
    /\ raced => raced'

LEMMA OutFrame ==
    ASSUME OutInv, OutData, OutStays
    PROVE  OutInv' /\ OutData'
<1>1. /\ pc'["usb"] = "copy" <=> pc["usb"] = "copy"
      /\ pc'["usb"] = "arm" <=> pc["usb"] = "arm"
      /\ pc'["web"] = "arm" <=> pc["web"] = "arm"
  BY DEF OutStays, OutPC
<1>2. Comes' <=> Comes
  BY <1>1 DEF OutStays, Comes
<1>3. OutInv'
  BY <1>1 DEF OutStays, OutInv
<1>4. OutData'
  BY <1>2 DEF OutStays, OutData, From
<1>5. QED
  BY <1>3, <1>4

InPC(p) == IF p \in {"transmit", "fill", "send"} THEN p ELSE "other"
InStays ==
    /\ UNCHANGED << tx_ff, inBuf, inBusy, wrote, toHost >>
    /\ Ven!IsDone("in")' <=> Ven!IsDone("in")
    /\ InPC(pc'["usb"]) = InPC(pc["usb"]) /\ InPC(pc'["web"]) = InPC(pc["web"])
    /\ raced => raced'

LEMMA InFrame ==
    ASSUME InInv, InData, InStays
    PROVE  InInv' /\ InData'
<1>1. \A s \in {"transmit", "fill", "send"} :
          (pc'["usb"] = s <=> pc["usb"] = s) /\ (pc'["web"] = s <=> pc["web"] = s)
  BY DEF InStays, InPC
<1>2. Leaves' <=> Leaves
  BY <1>1 DEF InStays, Leaves
<1>3. InInv'
  BY <1>1 DEF InStays, InInv
<1>4. InData'
  BY <1>2 DEF InStays, InData, From
<1>5. QED
  BY <1>3, <1>4

ConsoleStays ==
    /\ UNCHANGED << webusb_connected_flag, web_serial_connected, missed >>
    /\ pc'["web"] \in {"none", "leaving"} \/ pc["web"] \in {"none", "leaving"} =>
           pc'["web"] = pc["web"]

LEMMA ConsoleFrame ==
    ASSUME ConsoleInv, ConsoleStays
    PROVE  ConsoleInv'
  BY DEF ConsoleInv, ConsoleStays

-----------------------------------------------------------------------------
(* The host and the controller *)

LEMMA VendorHostSends == VendorInv /\ Ven!HostSends => VendorInv'
<1> SUFFICES ASSUME VendorInv, Ven!HostSends
             PROVE  VendorInv'
  OBVIOUS
<1>1. /\ outBusy /\ ~Ven!IsDone("out")
      /\ toDevice' = Append(toDevice, Len(toDevice) + 1) /\ outBuf' = Len(toDevice) + 1
      /\ done' = Append(done, "out")
      /\ UNCHANGED << rx_ff, outBusy, got, tx_ff, inBuf, inBusy, wrote, toHost, pc, raced >>
      /\ UNCHANGED << web_serial_connected, webusb_connected_flag, missed >>
  BY Zenon DEF Ven!HostSends, Ven!inSide, Ven!serial
<1>2. VendorTypes /\ OutInv /\ OutData /\ InInv /\ InData /\ ConsoleInv
  BY DEF VendorInv
<1>3. /\ done' \in Seq({"out", "in"})
      /\ \A i, j \in 1 .. Len(done') : done'[i] = done'[j] => i = j
      /\ Ven!IsDone("out")' /\ (Ven!IsDone("in")' <=> Ven!IsDone("in"))
  BY <1>1, <1>2, DoneMore
<1>4. Len(toDevice) + 1 \in Nat /\ Len(toDevice) \in Nat
  BY <1>2 DEF VendorTypes
<1>5. /\ toDevice' \in Seq(Nat) /\ Len(toDevice') = Len(toDevice) + 1
      /\ \A i \in 1 .. Len(toDevice) : toDevice'[i] = toDevice[i]
      /\ toDevice'[Len(toDevice) + 1] = Len(toDevice) + 1
  BY <1>1, <1>2, <1>4, OneMore DEF VendorTypes
<1>6. VendorTypes'
  BY <1>1, <1>2, <1>3, <1>4, <1>5 DEF VendorTypes
<1>7. OutInv'
  BY <1>1, <1>2, <1>3 DEF OutInv
<1>8. OutData'
  <2> SUFFICES ASSUME ~raced' PROVE OutData'
    BY DEF OutData
  <2>1. ~Comes /\ Comes'
    BY <1>1, <1>2, <1>3 DEF Comes, OutInv
  <2>2. From(toDevice, 0)'
    BY <1>1, <1>2, <1>4, <1>5 DEF From, OutData
  <2>3. QED
    BY <1>1, <1>2, <1>4, <1>5, <2>1, <2>2 DEF OutData, From
<1>9. InInv' /\ InData'
  BY <1>1, <1>2, <1>3, InFrame DEF InStays
<1>10. ConsoleInv'
  BY <1>1, <1>2, ConsoleFrame DEF ConsoleStays
<1>11. QED
  BY <1>6, <1>7, <1>8, <1>9, <1>10 DEF VendorInv

LEMMA VendorHostReads == VendorInv /\ Ven!HostReads => VendorInv'
<1> SUFFICES ASSUME VendorInv, Ven!HostReads
             PROVE  VendorInv'
  OBVIOUS
<1>1. /\ inBusy /\ ~Ven!IsDone("in")
      /\ toHost' = Append(toHost, inBuf) /\ done' = Append(done, "in")
      /\ UNCHANGED << rx_ff, outBuf, outBusy, toDevice, got, tx_ff, inBuf, inBusy, wrote, pc, raced >>
      /\ UNCHANGED << web_serial_connected, webusb_connected_flag, missed >>
  BY Zenon DEF Ven!HostReads, Ven!outSide, Ven!serial
<1>2. VendorTypes /\ OutInv /\ OutData /\ InInv /\ InData /\ ConsoleInv
  BY DEF VendorInv
<1>3. /\ done' \in Seq({"out", "in"})
      /\ \A i, j \in 1 .. Len(done') : done'[i] = done'[j] => i = j
      /\ Ven!IsDone("in")' /\ (Ven!IsDone("out")' <=> Ven!IsDone("out"))
  BY <1>1, <1>2, DoneMore
<1>4. /\ toHost' \in Seq(Nat) /\ Len(toHost') = Len(toHost) + 1 /\ Len(toHost) \in Nat
      /\ \A i \in 1 .. Len(toHost) : toHost'[i] = toHost[i]
      /\ toHost'[Len(toHost) + 1] = inBuf
  BY <1>1, <1>2, OneMore DEF VendorTypes
<1>5. VendorTypes'
  BY <1>1, <1>2, <1>3, <1>4 DEF VendorTypes
<1>6. OutInv' /\ OutData'
  BY <1>1, <1>2, <1>3, OutFrame DEF OutStays
<1>7. InInv'
  BY <1>1, <1>2, <1>3 DEF InInv
<1>8. InData'
  <2> SUFFICES ASSUME ~raced' PROVE InData'
    BY DEF InData
  <2>1. Leaves /\ ~Leaves'
    BY <1>1, <1>2, <1>3 DEF Leaves, InInv
  <2>2. inBuf = Len(toHost) + 1
    BY <1>1, <1>2, <2>1 DEF InData
  <2>3. From(toHost, 0)'
    BY <1>1, <1>2, <1>4, <2>2 DEF From, InData
  <2>4. From(tx_ff, Len(toHost))'
    BY <1>1, <1>2, <1>4, <2>1 DEF From, InData
  <2>5. QED
    BY <1>1, <1>2, <1>4, <2>1, <2>3, <2>4 DEF InData, From
<1>9. ConsoleInv'
  BY <1>1, <1>2, ConsoleFrame DEF ConsoleStays
<1>10. QED
  BY <1>5, <1>6, <1>7, <1>8, <1>9 DEF VendorInv

-----------------------------------------------------------------------------
(* tud_task *)

LEMMA VendorXferComplete == VendorInv /\ Ven!XferComplete => VendorInv'
<1> SUFFICES ASSUME VendorInv, Ven!XferComplete
             PROVE  VendorInv'
  OBVIOUS
<1> DEFINE to == IF Head(done) = "out" THEN "copy" ELSE "transmit"
<1>1. /\ pc["usb"] = "idle" /\ done # << >> /\ done' = Tail(done)
      /\ Ven!Go("usb", to)
      /\ UNCHANGED << rx_ff, outBuf, toDevice, got, tx_ff, inBuf, wrote, toHost, raced >>
      /\ UNCHANGED << web_serial_connected, webusb_connected_flag, missed >>
  BY Zenon DEF Ven!XferComplete, Ven!serial
<1>2. VendorTypes /\ OutInv /\ OutData /\ InInv /\ InData /\ ConsoleInv
  BY DEF VendorInv
<1>3. /\ outBusy' = (outBusy /\ Head(done) # "out")
      /\ inBusy' = (inBusy /\ Head(done) # "in")
  BY Zenon DEF Ven!XferComplete
<1>4. /\ done' \in Seq({"out", "in"}) /\ Head(done) \in {"out", "in"}
      /\ \A i, j \in 1 .. Len(done') : done'[i] = done'[j] => i = j
      /\ Ven!IsDone(Head(done))
      /\ Ven!IsDone("out")' <=> Ven!IsDone("out") /\ "out" # Head(done)
      /\ Ven!IsDone("in")' <=> Ven!IsDone("in") /\ "in" # Head(done)
  BY <1>1, <1>2, DoneLess
<1>5. /\ pc' \in [Ven!Tasks -> VendorPC]
      /\ pc'["usb"] = to /\ pc'["web"] = pc["web"]
  BY <1>1, <1>2, GoesOn DEF Ven!Tasks, VendorPC
<1>6. VendorTypes'
  BY <1>1, <1>2, <1>3, <1>4, <1>5 DEF VendorTypes
<1>7. ConsoleInv'
  BY <1>1, <1>2, <1>5, ConsoleFrame DEF ConsoleStays
<1>8. CASE Head(done) = "out"
  <2>1. pc'["usb"] = "copy" /\ ~outBusy' /\ (inBusy' <=> inBusy)
    BY <1>3, <1>5, <1>8
  <2>2. OutInv'
    BY <1>1, <1>2, <1>4, <1>5, <1>8, <2>1 DEF OutInv
  <2>3. Comes /\ Comes'
    BY <1>4, <1>8, <2>1 DEF Comes
  <2>4. OutData'
    BY <1>1, <1>2, <2>3 DEF OutData, From
  <2>5. inBusy' = inBusy
    BY <1>2, <1>6, <2>1 DEF VendorTypes
  <2>6. InInv' /\ InData'
    BY <1>1, <1>2, <1>4, <1>5, <1>8, <2>1, <2>5, InFrame DEF InStays, InPC
  <2>7. QED
    BY <1>6, <1>7, <2>2, <2>4, <2>6 DEF VendorInv
<1>9. CASE Head(done) = "in"
  <2>1. pc'["usb"] = "transmit" /\ ~inBusy' /\ (outBusy' <=> outBusy)
    BY <1>3, <1>5, <1>9
  <2>2. outBusy' = outBusy
    BY <1>2, <1>6, <2>1 DEF VendorTypes
  <2>3. OutInv' /\ OutData'
    BY <1>1, <1>2, <1>4, <1>5, <1>9, <2>1, <2>2, OutFrame DEF OutStays, OutPC
  <2>4. InInv'
    BY <1>1, <1>2, <1>4, <1>5, <1>9, <2>1 DEF InInv
  <2>5. ~raced' => ~Leaves /\ ~Leaves'
    BY <1>1, <1>2, <1>4, <1>5, <1>9, <2>1 DEF Leaves, InInv
  <2>6. InData'
    BY <1>1, <1>2, <2>5 DEF InData, From
  <2>7. QED
    BY <1>6, <1>7, <2>3, <2>4, <2>6 DEF VendorInv
<1>10. QED
  BY <1>4, <1>8, <1>9

LEMMA VendorCopy == VendorInv /\ Ven!Copy => VendorInv'
<1> SUFFICES ASSUME VendorInv, Ven!Copy
             PROVE  VendorInv'
  OBVIOUS
<1>1. /\ pc["usb"] = "copy" /\ Ven!Go("usb", "prepare")
      /\ rx_ff' = IF Len(rx_ff) < RxSize THEN Append(rx_ff, outBuf) ELSE rx_ff
      /\ UNCHANGED << outBuf, outBusy, toDevice, got, tx_ff, inBuf, inBusy, wrote, toHost, raced >>
      /\ UNCHANGED << done, web_serial_connected, webusb_connected_flag, missed >>
  BY Zenon DEF Ven!Copy, Ven!serial, Ven!inSide
<1>2. VendorTypes /\ OutInv /\ OutData /\ InInv /\ InData /\ ConsoleInv
  BY DEF VendorInv
<1>3. /\ pc' \in [Ven!Tasks -> VendorPC]
      /\ pc'["usb"] = "prepare" /\ pc'["web"] = pc["web"]
  BY <1>1, <1>2, GoesOn DEF Ven!Tasks, VendorPC
<1>4. \A x : Ven!IsDone(x)' <=> Ven!IsDone(x)
  BY <1>1 DEF Ven!IsDone
<1>5. /\ Append(rx_ff, outBuf) \in Seq(Nat) /\ Len(Append(rx_ff, outBuf)) = Len(rx_ff) + 1
      /\ \A i \in 1 .. Len(rx_ff) : Append(rx_ff, outBuf)[i] = rx_ff[i]
      /\ Append(rx_ff, outBuf)[Len(rx_ff) + 1] = outBuf
      /\ Len(rx_ff) \in Nat /\ rx_ff \in Seq(Nat)
  BY <1>2, OneMore DEF VendorTypes
<1>6. rx_ff' \in Seq(Nat)
  BY <1>1, <1>5
<1>7. VendorTypes'
  BY <1>1, <1>2, <1>3, <1>6 DEF VendorTypes
<1>8. InInv' /\ InData'
  BY <1>1, <1>2, <1>3, <1>4, InFrame DEF InStays, InPC
<1>9. ConsoleInv'
  BY <1>1, <1>2, <1>3, ConsoleFrame DEF ConsoleStays
<1>10. OutInv' /\ OutData'
  <2> SUFFICES ASSUME ~raced' PROVE OutInv' /\ OutData'
    BY DEF OutInv, OutData
  <2>1. /\ ~outBusy /\ Len(rx_ff) < RxSize /\ pc["web"] # "arm" /\ ~Ven!IsDone("out")
    BY <1>1, <1>2 DEF OutInv
  <2>2. OutInv'
    BY <1>1, <1>3, <1>4, <2>1 DEF OutInv
  <2>3. Comes /\ ~Comes'
    BY <1>1, <1>3, <1>4, <2>1 DEF Comes
  <2>4. outBuf = Len(got) + Len(rx_ff) + 1
    BY <1>1, <1>2, <2>3 DEF OutData
  <2>5. rx_ff' = Append(rx_ff, outBuf)
    BY <1>1, <2>1
  <2>6. \A i \in 1 .. Len(rx_ff) : rx_ff[i] = Len(got) + i
    BY <1>1, <1>2 DEF From, OutData
  <2>7. /\ Len(rx_ff') = Len(rx_ff) + 1
        /\ \A i \in 1 .. Len(rx_ff') : rx_ff'[i] = Len(got') + i
    <3>1. Len(got') = Len(got) /\ Len(got) \in Nat
      BY <1>1, <1>2 DEF VendorTypes
    <3>2. QED
      BY <1>5, <2>4, <2>5, <2>6, <3>1
  <2>8. Len(toDevice) = Len(got) + Len(rx_ff) + 1
    BY <1>1, <1>2, <2>3 DEF OutData
  <2>9. OutData'
    <3>1. Len(got) \in Nat
      BY <1>2 DEF VendorTypes
    <3>2. From(toDevice, 0)' /\ From(got, 0)'
      BY <1>1, <1>2 DEF From, OutData
    <3>3. QED
      BY <1>1, <1>5, <2>3, <2>7, <2>8, <3>1, <3>2 DEF From, OutData
  <2>10. QED
    BY <2>2, <2>9
<1>11. QED
  BY <1>7, <1>8, <1>9, <1>10 DEF VendorInv

LEMMA VendorConnect ==
    ASSUME VendorInv, NEW on \in BOOLEAN, Ven!Connect(on)
    PROVE  VendorInv'
<1>1. /\ UNCHANGED << rx_ff, outBuf, outBusy, toDevice, got, tx_ff, inBuf, inBusy, wrote, toHost >>
      /\ UNCHANGED << done, raced >>
      /\ web_serial_connected' = on
  BY Zenon DEF Ven!Connect, Ven!outSide, Ven!inSide
<1>2. VendorTypes /\ OutInv /\ OutData /\ InInv /\ InData /\ ConsoleInv
  BY DEF VendorInv
<1>3. missed' = (missed \/ (on /\ pc["web"] = "leaving"))
  BY Zenon DEF Ven!Connect
<1>4. \A x : Ven!IsDone(x)' <=> Ven!IsDone(x)
  BY <1>1 DEF Ven!IsDone
<1>5. CASE on /\ ~webusb_connected_flag
  <2>1. webusb_connected_flag' = TRUE /\ Ven!Go("web", "poll")
    BY <1>5, Zenon DEF Ven!Connect
  <2>2. /\ pc' \in [Ven!Tasks -> VendorPC]
        /\ pc'["web"] = "poll" /\ pc'["usb"] = pc["usb"]
    BY <1>2, <2>1, GoesOn DEF Ven!Tasks, VendorPC
  <2>3. pc["web"] = "none"
    BY <1>2, <1>5 DEF ConsoleInv
  <2>4. VendorTypes'
    BY <1>1, <1>2, <2>2 DEF VendorTypes
  <2>5. OutInv' /\ OutData'
    BY <1>1, <1>2, <1>4, <2>2, <2>3, OutFrame DEF OutStays, OutPC
  <2>6. InInv' /\ InData'
    BY <1>1, <1>2, <1>4, <2>2, <2>3, InFrame DEF InStays, InPC
  <2>7. ConsoleInv'
    BY <2>1, <2>2 DEF ConsoleInv
  <2>8. QED
    BY <2>4, <2>5, <2>6, <2>7 DEF VendorInv
<1>6. CASE ~(on /\ ~webusb_connected_flag)
  <2>1. UNCHANGED << webusb_connected_flag, pc >>
    BY <1>6, Zenon DEF Ven!Connect
  <2>2. VendorTypes'
    BY <1>1, <1>2, <2>1 DEF VendorTypes
  <2>3. OutInv' /\ OutData'
    BY <1>1, <1>2, <1>4, <2>1, OutFrame DEF OutStays
  <2>4. InInv' /\ InData'
    BY <1>1, <1>2, <1>4, <2>1, InFrame DEF InStays
  <2>5. ConsoleInv'
    BY <1>1, <1>2, <1>3, <1>6, <2>1 DEF ConsoleInv
  <2>6. QED
    BY <2>2, <2>3, <2>4, <2>5 DEF VendorInv
<1>7. QED
  BY <1>5, <1>6

LEMMA VendorReset == VendorInv /\ Ven!Reset => VendorInv'
<1> SUFFICES ASSUME VendorInv, Ven!Reset
             PROVE  VendorInv'
  OBVIOUS
<1>1. /\ pc["usb"] = "idle"
      /\ rx_ff' = << >> /\ tx_ff' = << >> /\ done' = << >>
      /\ outBusy' = TRUE /\ inBusy' = FALSE
      /\ toDevice' = << >> /\ got' = << >> /\ wrote' = << >> /\ toHost' = << >>
      /\ UNCHANGED << outBuf, inBuf, pc, web_serial_connected, webusb_connected_flag, missed >>
  BY Zenon DEF Ven!Reset
<1>2. VendorTypes /\ OutInv /\ OutData /\ InInv /\ InData /\ ConsoleInv
  BY DEF VendorInv
<1>3. raced' = (raced \/ pc["web"] \notin {"none", "poll", "leaving"})
  BY Zenon DEF Ven!Reset
<1>4. ~raced' => ~raced /\ pc["web"] \in {"none", "poll", "leaving"}
  BY <1>3
<1>5. raced' \in BOOLEAN
  BY <1>2, <1>3 DEF VendorTypes
<1>6. Len(done') = 0 /\ \A x : ~Ven!IsDone(x)'
  BY <1>1 DEF Ven!IsDone
<1>7. /\ done' \in Seq({"out", "in"}) /\ \A i, j \in 1 .. Len(done') : done'[i] = done'[j] => i = j
  BY <1>1
<1>8. VendorTypes'
  <2>1. << >> \in Seq(Nat)
    OBVIOUS
  <2>2. QED
    BY <1>1, <1>2, <1>5, <1>7, <2>1 DEF VendorTypes
<1>9. OutInv'
  BY <1>1, <1>4, <1>6, UsbAssumption DEF OutInv, Ven!VendorAssumption
<1>10. OutData'
  BY <1>1, <1>4, <1>6 DEF OutData, Comes, From
<1>11. InInv'
  BY <1>1, <1>4, <1>6 DEF InInv
<1>12. ~raced' => ~Leaves'
  BY <1>1, <1>4 DEF Leaves
<1>13. InData'
  BY <1>1, <1>12 DEF InData, From
<1>14. ConsoleInv'
  BY <1>1, <1>2 DEF ConsoleInv
<1>15. QED
  BY <1>8, <1>9, <1>10, <1>11, <1>13, <1>14 DEF VendorInv

-----------------------------------------------------------------------------
(* Steps of both tasks *)

Both == {"usb", "web"}

\* The two tasks by name.
LEMMA TheOther ==
    ASSUME NEW t \in Ven!Tasks
    PROVE  /\ t \in Both
           /\ t = "usb" => Ven!Tasks \ {t} = {"web"}
           /\ t = "web" => Ven!Tasks \ {t} = {"usb"}
  BY DEF Ven!Tasks, Both

\* Where a task goes when it is done.
LEMMA Rests ==
    ASSUME VendorTypes, NEW t \in Ven!Tasks, NEW s, Ven!Go(t, s) \/ Ven!Rest(t) \/ Ven!After(t),
           Ven!Go(t, s) => s \in VendorPC
    PROVE  /\ pc' \in [Ven!Tasks -> VendorPC]
           /\ Ven!Go(t, s) => pc'[t] = s
           /\ ~Ven!Go(t, s) => pc'[t] \in {"idle", "poll", "reply"}
           /\ t = "usb" => pc'["web"] = pc["web"]
           /\ t = "web" => pc'["usb"] = pc["usb"] /\ (Ven!Go(t, s) \/ pc'["web"] \in {"poll", "reply"})
<1>1. PICK r \in VendorPC : /\ Ven!Go(t, r)
                            /\ Ven!Go(t, s) => r = s
                            /\ ~Ven!Go(t, s) => r \in {"idle", "poll", "reply"}
                            /\ ~Ven!Go(t, s) /\ t = "web" => r \in {"poll", "reply"}
  <2>1. CASE Ven!Go(t, s)
    BY <2>1
  <2>2. CASE ~Ven!Go(t, s)
    <3>1. \E r \in {"idle", "poll", "reply"} : Ven!Go(t, r) /\ (t = "web" => r # "idle")
      <4>1. CASE t = "usb"
        BY <2>2, <4>1 DEF Ven!Rest, Ven!After
      <4>2. CASE t = "web"
        BY <2>2, <4>2 DEF Ven!Rest, Ven!After
      <4>3. QED
        BY <4>1, <4>2 DEF Ven!Tasks
    <3>2. QED
      BY <2>2, <3>1 DEF VendorPC
  <2>3. QED
    BY <2>1, <2>2
<1>2. /\ pc' \in [Ven!Tasks -> VendorPC] /\ pc'[t] = r
      /\ \A u \in Ven!Tasks : u # t => pc'[u] = pc[u]
  BY <1>1, GoesOn
<1>3. "usb" \in Ven!Tasks /\ "web" \in Ven!Tasks
  BY DEF Ven!Tasks
<1>4. QED
  BY <1>1, <1>2, <1>3

LEMMA VendorPrepOut ==
    ASSUME VendorInv, NEW t \in Ven!Tasks, Ven!PrepOut(t)
    PROVE  VendorInv'
<1>1. /\ pc[t] = "prepare"
      /\ UNCHANGED << rx_ff, outBuf, outBusy, toDevice, got, tx_ff, inBuf, inBusy, wrote, toHost >>
      /\ UNCHANGED << done, web_serial_connected, webusb_connected_flag, missed >>
      /\ Ven!Go(t, "arm") \/ Ven!After(t)
  BY Zenon DEF Ven!PrepOut, Ven!outSide, Ven!inSide, Ven!serial
<1>2. VendorTypes /\ OutInv /\ OutData /\ InInv /\ InData /\ ConsoleInv
  BY DEF VendorInv
<1>3. /\ raced' = (raced \/ Ven!Meets(t))
      /\ ~(~outBusy /\ Len(rx_ff) < RxSize) => Ven!After(t)
  BY DEF Ven!PrepOut, Ven!HasRoom
<1>4. /\ pc' \in [Ven!Tasks -> VendorPC]
      /\ pc'[t] \in {"arm", "idle", "poll", "reply"}
      /\ Ven!Go(t, "arm") => pc'[t] = "arm"
      /\ t = "usb" => pc'["web"] = pc["web"]
      /\ t = "web" => pc'["usb"] = pc["usb"] /\ pc'["web"] \in {"arm", "poll", "reply"}
      /\ ~Ven!Go(t, "arm") => pc'[t] # "arm"
  BY <1>1, <1>2, Rests DEF VendorPC
<1>5. \A x : Ven!IsDone(x)' <=> Ven!IsDone(x)
  BY <1>1 DEF Ven!IsDone
<1>6. raced' \in BOOLEAN /\ (raced => raced')
  BY <1>2, <1>3 DEF VendorTypes
<1>7. VendorTypes'
  BY <1>1, <1>2, <1>4, <1>6 DEF VendorTypes
<1>8. InInv' /\ InData'
  BY <1>1, <1>2, <1>4, <1>5, <1>6, InFrame, TheOther DEF InStays, InPC, Both
<1>9. ConsoleInv'
  BY <1>1, <1>2, <1>4, ConsoleFrame, TheOther DEF ConsoleStays, Both
<1>10. CASE pc'[t] # "arm"
  BY <1>1, <1>2, <1>4, <1>5, <1>6, <1>7, <1>8, <1>9, <1>10, OutFrame, TheOther
     DEF OutStays, OutPC, Both, VendorInv
<1>11. CASE pc'[t] = "arm"
  <2>1. ~outBusy /\ Len(rx_ff) < RxSize
    <3>1. ASSUME Ven!After(t) PROVE pc'[t] # "arm"
      <4>1. \E r \in {"idle", "poll", "reply"} : Ven!Go(t, r)
        BY <3>1 DEF Ven!After, Ven!Rest
      <4>2. QED
        BY <1>2, <4>1, GoesOn DEF VendorPC
    <3>2. QED
      BY <1>3, <1>11, <3>1
  <2>2. ~raced' => /\ ~raced
                   /\ t = "usb" => pc["web"] \notin {"copy", "prepare", "arm"}
                   /\ t = "web" => pc["usb"] \notin {"copy", "prepare", "arm"}
    BY <1>3, <1>6, TheOther DEF Ven!Meets
  <2>3. OutInv'
    <3>1. CASE t = "usb"
      BY <1>1, <1>2, <1>4, <1>5, <1>11, <2>1, <2>2, <3>1 DEF OutInv
    <3>2. CASE t = "web"
      BY <1>1, <1>2, <1>4, <1>5, <1>11, <2>1, <2>2, <3>2 DEF OutInv
    <3>3. QED
      BY <3>1, <3>2 DEF Ven!Tasks
  <2>4. Comes' <=> Comes
    BY <1>1, <1>4, <1>5, <1>11, TheOther DEF Comes, Both
  <2>5. OutData'
    BY <1>1, <1>2, <1>6, <2>4 DEF OutData, From
  <2>6. QED
    BY <1>7, <1>8, <1>9, <2>3, <2>5 DEF VendorInv
<1>12. QED
  BY <1>10, <1>11

LEMMA VendorArm ==
    ASSUME VendorInv, NEW t \in Ven!Tasks, Ven!Arm(t)
    PROVE  VendorInv'
<1>1. /\ pc[t] = "arm" /\ outBusy' = TRUE
      /\ UNCHANGED << rx_ff, outBuf, toDevice, got, tx_ff, inBuf, inBusy, wrote, toHost >>
      /\ UNCHANGED << done, web_serial_connected, webusb_connected_flag, missed >>
      /\ Ven!After(t)
  BY Zenon DEF Ven!Arm, Ven!inSide, Ven!serial
<1>2. VendorTypes /\ OutInv /\ OutData /\ InInv /\ InData /\ ConsoleInv
  BY DEF VendorInv
<1>3. raced' = (raced \/ outBusy \/ Ven!Meets(t))
  BY DEF Ven!Arm
<1>4. /\ pc' \in [Ven!Tasks -> VendorPC]
      /\ pc'[t] \in {"idle", "poll", "reply"}
      /\ t = "usb" => pc'["web"] = pc["web"]
      /\ t = "web" => pc'["usb"] = pc["usb"] /\ pc'["web"] \in {"poll", "reply"}
  <2>1. PICK r \in {"idle", "poll", "reply"} : Ven!Go(t, r) /\ (t = "web" => r # "idle")
    BY <1>1, TheOther DEF Ven!After, Ven!Rest, Both
  <2>2. QED
    BY <1>2, <2>1, Rests DEF VendorPC
<1>5. \A x : Ven!IsDone(x)' <=> Ven!IsDone(x)
  BY <1>1 DEF Ven!IsDone
<1>6. raced' \in BOOLEAN /\ (raced => raced')
  BY <1>2, <1>3 DEF VendorTypes
<1>7. VendorTypes'
  BY <1>1, <1>2, <1>4, <1>6 DEF VendorTypes
<1>8. InInv' /\ InData'
  BY <1>1, <1>2, <1>4, <1>5, <1>6, InFrame, TheOther DEF InStays, InPC, Both
<1>9. ConsoleInv'
  BY <1>1, <1>2, <1>4, ConsoleFrame, TheOther DEF ConsoleStays, Both
<1>10. ~raced' => /\ ~raced
                  /\ t = "usb" => pc["web"] \notin {"copy", "prepare", "arm"}
                  /\ t = "web" => pc["usb"] \notin {"copy", "prepare", "arm"}
  BY <1>3, <1>6, TheOther DEF Ven!Meets
<1>11. OutInv'
  <2>1. CASE t = "usb"
    BY <1>1, <1>2, <1>4, <1>5, <1>10, <2>1 DEF OutInv
  <2>2. CASE t = "web"
    BY <1>1, <1>2, <1>4, <1>5, <1>10, <2>2 DEF OutInv
  <2>3. QED
    BY <2>1, <2>2 DEF Ven!Tasks
<1>12. Comes' <=> Comes
  BY <1>1, <1>4, <1>5, TheOther DEF Comes, Both
<1>13. OutData'
  BY <1>1, <1>2, <1>6, <1>12 DEF OutData, From
<1>14. QED
  BY <1>7, <1>8, <1>9, <1>11, <1>13 DEF VendorInv

LEMMA VendorTransmit ==
    ASSUME VendorInv, NEW t \in Ven!Tasks, Ven!Transmit(t)
    PROVE  VendorInv'
<1>1. /\ pc[t] = "transmit"
      /\ UNCHANGED << rx_ff, outBuf, outBusy, toDevice, got, tx_ff, inBuf, inBusy, wrote, toHost >>
      /\ UNCHANGED << done, web_serial_connected, webusb_connected_flag, missed, raced >>
      /\ (inBusy /\ Ven!Rest(t)) \/ (~inBusy /\ Ven!Go(t, "fill"))
  BY Zenon DEF Ven!Transmit, Ven!outSide, Ven!inSide, Ven!serial
<1>2. VendorTypes /\ OutInv /\ OutData /\ InInv /\ InData /\ ConsoleInv
  BY DEF VendorInv
<1>3. /\ pc' \in [Ven!Tasks -> VendorPC]
      /\ inBusy => pc'[t] \in {"idle", "poll"}
      /\ ~inBusy => pc'[t] = "fill"
      /\ t = "usb" => pc'["web"] = pc["web"]
      /\ t = "web" => pc'["usb"] = pc["usb"] /\ pc'["web"] \in {"poll", "fill"}
  <2>1. PICK r \in {"idle", "poll", "fill"} : /\ Ven!Go(t, r) /\ (t = "web" => r # "idle")
                                              /\ inBusy => r \in {"idle", "poll"}
                                              /\ ~inBusy => r = "fill"
    BY <1>1, TheOther DEF Ven!Rest, Both
  <2>2. QED
    BY <1>2, <2>1, Rests DEF VendorPC
<1>5. \A x : Ven!IsDone(x)' <=> Ven!IsDone(x)
  BY <1>1 DEF Ven!IsDone
<1>7. VendorTypes'
  BY <1>1, <1>2, <1>3 DEF VendorTypes
<1>8. OutInv' /\ OutData'
  BY <1>1, <1>2, <1>3, <1>5, OutFrame, TheOther DEF OutStays, OutPC, Both
<1>9. ConsoleInv'
  BY <1>1, <1>2, <1>3, ConsoleFrame, TheOther DEF ConsoleStays, Both
<1>10. InInv'
  <2>1. CASE t = "usb"
    BY <1>1, <1>2, <1>3, <1>5, <2>1 DEF InInv
  <2>2. CASE t = "web"
    BY <1>1, <1>2, <1>3, <1>5, <2>2 DEF InInv
  <2>3. QED
    BY <2>1, <2>2 DEF Ven!Tasks
<1>11. Leaves' <=> Leaves
  BY <1>1, <1>3, <1>5, TheOther DEF Leaves, Both
<1>12. InData'
  BY <1>1, <1>2, <1>11 DEF InData, From
<1>13. QED
  BY <1>7, <1>8, <1>9, <1>10, <1>12 DEF VendorInv

LEMMA VendorFill ==
    ASSUME VendorInv, NEW t \in Ven!Tasks, Ven!Fill(t)
    PROVE  VendorInv'
<1>1. /\ pc[t] = "fill"
      /\ UNCHANGED << rx_ff, outBuf, outBusy, toDevice, got, inBusy, wrote, toHost >>
      /\ UNCHANGED << done, web_serial_connected, webusb_connected_flag, missed >>
      /\ \/ tx_ff = << >> /\ Ven!Rest(t) /\ UNCHANGED << tx_ff, inBuf >>
         \/ tx_ff # << >> /\ Ven!Go(t, "send") /\ inBuf' = Head(tx_ff) /\ tx_ff' = Tail(tx_ff)
  BY Zenon DEF Ven!Fill, Ven!outSide, Ven!serial
<1>2. VendorTypes /\ OutInv /\ OutData /\ InInv /\ InData /\ ConsoleInv
  BY DEF VendorInv
<1>3. /\ pc' \in [Ven!Tasks -> VendorPC]
      /\ tx_ff = << >> => pc'[t] \in {"idle", "poll"}
      /\ tx_ff # << >> => pc'[t] = "send"
      /\ t = "usb" => pc'["web"] = pc["web"]
      /\ t = "web" => pc'["usb"] = pc["usb"] /\ pc'["web"] \in {"poll", "send"}
  <2>1. PICK r \in {"idle", "poll", "send"} : /\ Ven!Go(t, r) /\ (t = "web" => r # "idle")
                                              /\ tx_ff = << >> => r \in {"idle", "poll"}
                                              /\ tx_ff # << >> => r = "send"
    BY <1>1, TheOther DEF Ven!Rest, Both
  <2>2. QED
    BY <1>2, <2>1, Rests DEF VendorPC
<1>4. raced' = (raced \/ Ven!Collides(t))
  BY DEF Ven!Fill
<1>5. \A x : Ven!IsDone(x)' <=> Ven!IsDone(x)
  BY <1>1 DEF Ven!IsDone
<1>6. raced' \in BOOLEAN /\ (raced => raced')
  BY <1>2, <1>4 DEF VendorTypes
<1>7. /\ tx_ff \in Seq(Nat) /\ inBuf \in Nat
      /\ tx_ff # << >> => /\ inBuf' \in Nat /\ inBuf' = tx_ff[1] /\ tx_ff' \in Seq(Nat)
                          /\ Len(tx_ff) \in Nat \ {0} /\ Len(tx_ff') = Len(tx_ff) - 1
                          /\ \A i \in 1 .. Len(tx_ff) - 1 : tx_ff'[i] = tx_ff[i + 1]
  <2>1. tx_ff \in Seq(Nat) /\ inBuf \in Nat
    BY <1>2 DEF VendorTypes
  <2>2. CASE tx_ff # << >>
    <3>1. inBuf' = Head(tx_ff) /\ tx_ff' = Tail(tx_ff)
      BY <1>1, <2>2
    <3>2. QED
      BY <2>1, <2>2, <3>1, OneLess
  <2>3. QED
    BY <2>1, <2>2
<1>8. VendorTypes'
  <2>1. tx_ff' \in Seq(Nat) /\ inBuf' \in Nat
    BY <1>1, <1>7
  <2>2. QED
    BY <1>1, <1>2, <1>3, <1>6, <2>1 DEF VendorTypes
<1>9. OutInv' /\ OutData'
  BY <1>1, <1>2, <1>3, <1>5, <1>6, OutFrame, TheOther DEF OutStays, OutPC, Both
<1>10. ConsoleInv'
  BY <1>1, <1>2, <1>3, ConsoleFrame, TheOther DEF ConsoleStays, Both
<1>11. ~raced' => /\ ~raced /\ ~inBusy
                  /\ t = "usb" => pc["web"] \notin {"fill", "send"}
                  /\ t = "web" => pc["usb"] \notin {"fill", "send"}
  <2>1. ~raced' => /\ ~raced
                   /\ t = "usb" => pc["web"] \notin {"fill", "send"}
                   /\ t = "web" => pc["usb"] \notin {"fill", "send"}
    BY <1>4, <1>6, TheOther DEF Ven!Collides
  <2>2. ~raced => ~inBusy
    BY <1>1, <1>2, TheOther DEF InInv, Both
  <2>3. QED
    BY <2>1, <2>2
<1>12. ~raced' => ~Leaves
  BY <1>1, <1>11, TheOther DEF Leaves, Both
<1>13. CASE tx_ff = << >>
  <2>1. UNCHANGED << tx_ff, inBuf >>
    BY <1>1, <1>13
  <2>2. InInv'
    BY <1>1, <1>2, <1>3, <1>5, <1>11, <1>13, <2>1, TheOther DEF InInv, Both
  <2>3. ~raced' => ~Leaves'
    BY <1>1, <1>3, <1>11, <1>13, TheOther DEF Leaves, Both
  <2>4. InData'
    BY <1>1, <1>2, <1>11, <1>12, <2>1, <2>3 DEF InData, From
  <2>5. QED
    BY <1>8, <1>9, <1>10, <2>2, <2>4 DEF VendorInv
<1>14. CASE tx_ff # << >>
  <2>1. InInv'
    <3>1. CASE t = "usb"
      BY <1>1, <1>2, <1>3, <1>5, <1>11, <1>14, <3>1 DEF InInv
    <3>2. CASE t = "web"
      BY <1>1, <1>2, <1>3, <1>5, <1>11, <1>14, <3>2 DEF InInv
    <3>3. QED
      BY <3>1, <3>2 DEF Ven!Tasks
  <2>2. Leaves'
    BY <1>3, <1>14, TheOther DEF Leaves, Both
  <2>3. InData'
    <3> SUFFICES ASSUME ~raced' PROVE InData'
      BY DEF InData
    <3>1. /\ Len(wrote) = Len(toHost) + Len(tx_ff) /\ From(wrote, 0) /\ From(toHost, 0)
          /\ \A i \in 1 .. Len(tx_ff) : tx_ff[i] = Len(toHost) + i
          /\ Len(toHost) \in Nat
      BY <1>2, <1>11, <1>12 DEF InData, From, VendorTypes
    <3>2. /\ inBuf' = Len(toHost) + 1
          /\ \A i \in 1 .. Len(tx_ff') : tx_ff'[i] = Len(toHost) + 1 + i
          /\ Len(wrote) = Len(toHost) + Len(tx_ff') + 1
      <4>1. /\ inBuf' = tx_ff[1] /\ Len(tx_ff) \in Nat \ {0} /\ Len(tx_ff') = Len(tx_ff) - 1
            /\ \A i \in 1 .. Len(tx_ff) - 1 : tx_ff'[i] = tx_ff[i + 1]
        BY <1>7, <1>14
      <4>2. tx_ff[1] = Len(toHost) + 1
        BY <3>1, <4>1
      <4>3. ASSUME NEW i \in 1 .. Len(tx_ff') PROVE tx_ff'[i] = Len(toHost) + 1 + i
        <5>1. i + 1 \in 1 .. Len(tx_ff) /\ tx_ff'[i] = tx_ff[i + 1]
          BY <4>1
        <5>2. tx_ff[i + 1] = Len(toHost) + (i + 1)
          BY <3>1, <5>1
        <5>3. QED
          BY <3>1, <4>1, <5>1, <5>2
      <4>4. QED
        BY <3>1, <4>1, <4>2, <4>3
    <3>3. QED
      BY <1>1, <2>2, <3>1, <3>2 DEF InData, From
  <2>4. QED
    BY <1>8, <1>9, <1>10, <2>1, <2>3 DEF VendorInv
<1>15. QED
  BY <1>13, <1>14

LEMMA VendorSend ==
    ASSUME VendorInv, NEW t \in Ven!Tasks, Ven!Send(t)
    PROVE  VendorInv'
<1>1. /\ pc[t] = "send" /\ inBusy' = TRUE /\ Ven!Rest(t)
      /\ UNCHANGED << rx_ff, outBuf, outBusy, toDevice, got, tx_ff, inBuf, wrote, toHost >>
      /\ UNCHANGED << done, web_serial_connected, webusb_connected_flag, missed >>
  BY Zenon DEF Ven!Send, Ven!outSide, Ven!serial
<1>2. VendorTypes /\ OutInv /\ OutData /\ InInv /\ InData /\ ConsoleInv
  BY DEF VendorInv
<1>3. /\ pc' \in [Ven!Tasks -> VendorPC] /\ pc'[t] \in {"idle", "poll"}
      /\ t = "usb" => pc'["web"] = pc["web"]
      /\ t = "web" => pc'["usb"] = pc["usb"] /\ pc'["web"] = "poll"
  <2>1. PICK r \in {"idle", "poll"} : Ven!Go(t, r) /\ (t = "web" => r # "idle")
    BY <1>1, TheOther DEF Ven!Rest, Both
  <2>2. QED
    BY <1>2, <2>1, Rests DEF VendorPC
<1>4. raced' = (raced \/ inBusy \/ Ven!Collides(t))
  BY DEF Ven!Send
<1>5. \A x : Ven!IsDone(x)' <=> Ven!IsDone(x)
  BY <1>1 DEF Ven!IsDone
<1>6. raced' \in BOOLEAN /\ (raced => raced')
  BY <1>2, <1>4 DEF VendorTypes
<1>7. VendorTypes'
  BY <1>1, <1>2, <1>3, <1>6 DEF VendorTypes
<1>8. OutInv' /\ OutData'
  BY <1>1, <1>2, <1>3, <1>5, <1>6, OutFrame, TheOther DEF OutStays, OutPC, Both
<1>9. ConsoleInv'
  BY <1>1, <1>2, <1>3, ConsoleFrame, TheOther DEF ConsoleStays, Both
<1>10. ~raced' => /\ ~raced /\ ~inBusy
                  /\ t = "usb" => pc["web"] \notin {"fill", "send"}
                  /\ t = "web" => pc["usb"] \notin {"fill", "send"}
  BY <1>2, <1>4, <1>6, TheOther DEF Ven!Collides, VendorTypes
<1>11. ~raced' => ~Ven!IsDone("in") /\ ~Ven!IsDone("in")'
  BY <1>2, <1>5, <1>10 DEF InInv
<1>12. InInv'
  <2>1. CASE t = "usb"
    BY <1>1, <1>2, <1>3, <1>10, <1>11, <2>1 DEF InInv
  <2>2. CASE t = "web"
    BY <1>1, <1>2, <1>3, <1>10, <1>11, <2>2 DEF InInv
  <2>3. QED
    BY <2>1, <2>2 DEF Ven!Tasks
<1>13. ~raced' => Leaves /\ Leaves'
  BY <1>1, <1>11, TheOther DEF Leaves, Both
<1>14. InData'
  BY <1>1, <1>2, <1>10, <1>13 DEF InData, From
<1>15. QED
  BY <1>7, <1>8, <1>9, <1>12, <1>14 DEF VendorInv

-----------------------------------------------------------------------------
(* webusb_task *)

LEMMA VendorRead == VendorInv /\ Ven!Read => VendorInv'
<1> SUFFICES ASSUME VendorInv, Ven!Read
             PROVE  VendorInv'
  OBVIOUS
<1>1. /\ pc["web"] = "poll" /\ rx_ff # << >> /\ Ven!Go("web", "prepare")
      /\ got' = Append(got, Head(rx_ff)) /\ rx_ff' = Tail(rx_ff)
      /\ UNCHANGED << outBuf, outBusy, toDevice, tx_ff, inBuf, inBusy, wrote, toHost, raced >>
      /\ UNCHANGED << done, web_serial_connected, webusb_connected_flag, missed >>
  BY Zenon DEF Ven!Read, Ven!inSide, Ven!serial
<1>2. VendorTypes /\ OutInv /\ OutData /\ InInv /\ InData /\ ConsoleInv
  BY DEF VendorInv
<1>3. /\ pc' \in [Ven!Tasks -> VendorPC]
      /\ pc'["web"] = "prepare" /\ pc'["usb"] = pc["usb"]
  BY <1>1, <1>2, GoesOn DEF Ven!Tasks, VendorPC
<1>4. \A x : Ven!IsDone(x)' <=> Ven!IsDone(x)
  BY <1>1 DEF Ven!IsDone
<1>5. /\ Head(rx_ff) \in Nat /\ Head(rx_ff) = rx_ff[1] /\ rx_ff' \in Seq(Nat)
      /\ Len(rx_ff) \in Nat \ {0} /\ Len(rx_ff') = Len(rx_ff) - 1
      /\ \A i \in 1 .. Len(rx_ff) - 1 : rx_ff'[i] = rx_ff[i + 1]
  BY <1>1, <1>2, OneLess DEF VendorTypes
<1>6. /\ got' \in Seq(Nat) /\ Len(got') = Len(got) + 1 /\ Len(got) \in Nat
      /\ \A i \in 1 .. Len(got) : got'[i] = got[i]
      /\ got'[Len(got) + 1] = rx_ff[1]
  BY <1>1, <1>2, <1>5, OneMore DEF VendorTypes
<1>7. VendorTypes'
  BY <1>1, <1>2, <1>3, <1>5, <1>6 DEF VendorTypes
<1>8. OutInv'
  BY <1>1, <1>2, <1>3, <1>4, <1>5, UsbAssumption DEF OutInv, Ven!VendorAssumption
<1>9. OutData'
  <2> SUFFICES ASSUME ~raced' PROVE OutData'
    BY DEF OutData
  <2>1. /\ \A i \in 1 .. Len(rx_ff) : rx_ff[i] = Len(got) + i
        /\ \A i \in 1 .. Len(got) : got[i] = 0 + i
        /\ From(toDevice, 0)
    BY <1>1, <1>2 DEF OutData, From
  <2>2. ASSUME NEW i \in 1 .. Len(rx_ff') PROVE rx_ff'[i] = Len(got') + i
    <3>1. i + 1 \in 1 .. Len(rx_ff) /\ rx_ff'[i] = rx_ff[i + 1]
      BY <1>5
    <3>2. rx_ff[i + 1] = Len(got) + (i + 1)
      BY <2>1, <3>1
    <3>3. QED
      BY <1>5, <1>6, <3>1, <3>2
  <2>3. \A i \in 1 .. Len(got') : got'[i] = 0 + i
    <3>1. rx_ff[1] = Len(got) + 1
      BY <1>5, <2>1
    <3>2. QED
      BY <1>6, <2>1, <3>1
  <2>4. Comes' <=> Comes
    BY <1>3, <1>4 DEF Comes
  <2>5. Len(toDevice) = Len(got') + Len(rx_ff') + (IF Comes THEN 1 ELSE 0)
    <3>1. Len(toDevice) = Len(got) + Len(rx_ff) + (IF Comes THEN 1 ELSE 0)
      BY <1>1, <1>2 DEF OutData
    <3>2. QED
      BY <1>5, <1>6, <3>1
  <2>6. QED
    BY <1>1, <1>2, <2>1, <2>2, <2>3, <2>4, <2>5 DEF OutData, From
<1>10. InInv' /\ InData'
  BY <1>1, <1>2, <1>3, <1>4, InFrame DEF InStays, InPC
<1>11. ConsoleInv'
  BY <1>1, <1>2, <1>3, ConsoleFrame DEF ConsoleStays
<1>12. QED
  BY <1>7, <1>8, <1>9, <1>10, <1>11 DEF VendorInv

LEMMA VendorReply ==
    ASSUME VendorInv, NEW eol \in BOOLEAN, Ven!Reply(eol)
    PROVE  VendorInv'
<1>1. /\ pc["web"] = "reply"
      /\ UNCHANGED << rx_ff, outBuf, outBusy, toDevice, got, inBuf, inBusy, toHost, raced >>
      /\ UNCHANGED << done, web_serial_connected, webusb_connected_flag, missed >>
      /\ \/ /\ Ven!Go("web", "transmit")
            /\ tx_ff' = Append(tx_ff, Len(wrote) + 1) /\ wrote' = Append(wrote, Len(wrote) + 1)
         \/ Ven!Go("web", "transmit") /\ UNCHANGED << tx_ff, wrote >>
         \/ Ven!Rest("web") /\ UNCHANGED << tx_ff, wrote >>
  BY Zenon DEF Ven!Reply, Ven!outSide, Ven!serial
<1>2. VendorTypes /\ OutInv /\ OutData /\ InInv /\ InData /\ ConsoleInv
  BY DEF VendorInv
<1>3. /\ pc' \in [Ven!Tasks -> VendorPC]
      /\ pc'["web"] \in {"transmit", "poll"} /\ pc'["usb"] = pc["usb"]
      /\ pc'["web"] = "transmit" \/ UNCHANGED << tx_ff, wrote >>
  <2>1. PICK r \in {"transmit", "poll"} : Ven!Go("web", r) /\ (r = "transmit" \/ UNCHANGED << tx_ff, wrote >>)
    BY <1>1 DEF Ven!Rest
  <2>2. QED
    BY <1>2, <2>1, GoesOn DEF VendorPC, Ven!Tasks
<1>4. \A x : Ven!IsDone(x)' <=> Ven!IsDone(x)
  BY <1>1 DEF Ven!IsDone
<1>5. OutInv' /\ OutData'
  BY <1>1, <1>2, <1>3, <1>4, OutFrame DEF OutStays, OutPC
<1>6. ConsoleInv'
  BY <1>1, <1>2, <1>3, ConsoleFrame DEF ConsoleStays
<1>7. Leaves' <=> Leaves
  BY <1>1, <1>3, <1>4 DEF Leaves
<1>8. CASE UNCHANGED << tx_ff, wrote >>
  <2>1. VendorTypes'
    BY <1>1, <1>2, <1>3, <1>8 DEF VendorTypes
  <2>2. InInv'
    BY <1>1, <1>2, <1>3, <1>4, <1>8 DEF InInv
  <2>3. InData'
    BY <1>1, <1>2, <1>7, <1>8 DEF InData, From
  <2>4. QED
    BY <1>5, <1>6, <2>1, <2>2, <2>3 DEF VendorInv
<1>9. CASE ~UNCHANGED << tx_ff, wrote >>
  <2>1. /\ pc'["web"] = "transmit"
        /\ tx_ff' = Append(tx_ff, Len(wrote) + 1) /\ wrote' = Append(wrote, Len(wrote) + 1)
        /\ Len(wrote) + 1 \in Nat /\ Len(wrote) \in Nat
    BY <1>1, <1>2, <1>3, <1>9 DEF VendorTypes
  <2>2. /\ tx_ff' \in Seq(Nat) /\ Len(tx_ff') = Len(tx_ff) + 1 /\ Len(tx_ff) \in Nat
        /\ \A i \in 1 .. Len(tx_ff) : tx_ff'[i] = tx_ff[i]
        /\ tx_ff'[Len(tx_ff) + 1] = Len(wrote) + 1
    BY <1>2, <2>1, OneMore DEF VendorTypes
  <2>3. /\ wrote' \in Seq(Nat) /\ Len(wrote') = Len(wrote) + 1
        /\ \A i \in 1 .. Len(wrote) : wrote'[i] = wrote[i]
        /\ wrote'[Len(wrote) + 1] = Len(wrote) + 1
    BY <1>2, <2>1, OneMore DEF VendorTypes
  <2>4. VendorTypes'
    BY <1>1, <1>2, <1>3, <2>2, <2>3 DEF VendorTypes
  <2>5. InInv'
    BY <1>1, <1>2, <1>3, <1>4, <2>1 DEF InInv
  <2>6. InData'
    <3> SUFFICES ASSUME ~raced' PROVE InData'
      BY DEF InData
    <3>1. PICK n \in Nat : n = IF Leaves THEN Len(toHost) + 1 ELSE Len(toHost)
      BY <1>2 DEF VendorTypes
    <3>2. /\ Len(wrote) = n + Len(tx_ff)
          /\ \A i \in 1 .. Len(wrote) : wrote[i] = 0 + i
          /\ \A i \in 1 .. Len(tx_ff) : tx_ff[i] = n + i
          /\ From(toHost, 0) /\ (Leaves => inBuf = Len(toHost) + 1)
      BY <1>1, <1>2, <3>1 DEF InData, From, VendorTypes
    <3>3. /\ Len(wrote') = n + Len(tx_ff')
          /\ \A i \in 1 .. Len(wrote') : wrote'[i] = 0 + i
          /\ \A i \in 1 .. Len(tx_ff') : tx_ff'[i] = n + i
      BY <2>1, <2>2, <2>3, <3>2
    <3>4. /\ n = IF Leaves' THEN Len(toHost') + 1 ELSE Len(toHost')
          /\ Len(toHost) \in Nat
      BY <1>1, <1>2, <1>7, <3>1 DEF VendorTypes
    <3>5. CASE Leaves'
      BY <1>1, <1>7, <2>2, <3>2, <3>3, <3>4, <3>5 DEF InData, From
    <3>6. CASE ~Leaves'
      BY <1>1, <1>7, <2>2, <3>2, <3>3, <3>4, <3>6 DEF InData, From
    <3>7. QED
      BY <3>5, <3>6
  <2>7. QED
    BY <1>5, <1>6, <2>4, <2>5, <2>6 DEF VendorInv
<1>10. QED
  BY <1>8, <1>9

LEMMA VendorLeaves == VendorInv /\ (Ven!Leave \/ Ven!Left) => VendorInv'
<1> SUFFICES ASSUME VendorInv, Ven!Leave \/ Ven!Left
             PROVE  VendorInv'
  OBVIOUS
<1>1. /\ UNCHANGED << rx_ff, outBuf, outBusy, toDevice, got, tx_ff, inBuf, inBusy, wrote, toHost >>
      /\ UNCHANGED << done, web_serial_connected, missed, raced >>
  BY Zenon DEF Ven!Leave, Ven!Left, Ven!outSide, Ven!inSide, Ven!serial
<1>2. VendorTypes /\ OutInv /\ OutData /\ InInv /\ InData /\ ConsoleInv
  BY DEF VendorInv
<1>3. \A x : Ven!IsDone(x)' <=> Ven!IsDone(x)
  BY <1>1 DEF Ven!IsDone
<1>4. ASSUME NEW r \in {"leaving", "none"}, Ven!Go("web", r), pc["web"] \in {"poll", "leaving"},
             ConsoleInv'
      PROVE  VendorInv'
  <2>1. /\ pc' \in [Ven!Tasks -> VendorPC]
        /\ pc'["web"] = r /\ pc'["usb"] = pc["usb"]
    BY <1>2, <1>4, GoesOn DEF VendorPC, Ven!Tasks
  <2>2. VendorTypes'
    BY <1>1, <1>2, <2>1 DEF VendorTypes
  <2>3. OutInv' /\ OutData'
    BY <1>1, <1>2, <1>3, <1>4, <2>1, OutFrame DEF OutStays, OutPC
  <2>4. InInv' /\ InData'
    BY <1>1, <1>2, <1>3, <1>4, <2>1, InFrame DEF InStays, InPC
  <2>5. QED
    BY <1>4, <2>2, <2>3, <2>4 DEF VendorInv
<1>5. CASE Ven!Leave
  <2>1. /\ pc["web"] = "poll" /\ ~web_serial_connected /\ webusb_connected_flag
        /\ Ven!Go("web", "leaving") /\ webusb_connected_flag' = webusb_connected_flag
    BY <1>5, Zenon DEF Ven!Leave, Ven!serial
  <2>2. pc'["web"] = "leaving"
    BY <1>2, <2>1, GoesOn DEF VendorPC, Ven!Tasks
  <2>3. ConsoleInv'
    BY <1>1, <2>1, <2>2 DEF ConsoleInv
  <2>4. QED
    BY <1>4, <2>1, <2>3
<1>6. CASE Ven!Left
  <2>1. pc["web"] = "leaving" /\ webusb_connected_flag' = FALSE /\ Ven!Go("web", "none")
    BY <1>6, Zenon DEF Ven!Left
  <2>2. pc'["web"] = "none"
    BY <1>2, <2>1, GoesOn DEF VendorPC, Ven!Tasks
  <2>3. ConsoleInv'
    BY <1>1, <1>2, <2>1, <2>2 DEF ConsoleInv
  <2>4. QED
    BY <1>4, <2>1, <2>3
<1>7. QED
  BY <1>5, <1>6

LEMMA VendorNext == VendorInv /\ [Ven!Next]_vendorVars => VendorInv'
<1> SUFFICES ASSUME VendorInv, [Ven!Next]_vendorVars
             PROVE  VendorInv'
  OBVIOUS
<1>1. CASE UNCHANGED vendorVars
  <2>1. \A x : Ven!IsDone(x)' <=> Ven!IsDone(x)
    BY <1>1 DEF Ven!IsDone, vendorVars
  <2>2. VendorTypes'
    BY <1>1 DEF vendorVars, VendorInv, VendorTypes
  <2>3. OutInv' /\ OutData'
    BY <1>1, <2>1, OutFrame DEF vendorVars, VendorInv, OutStays
  <2>4. InInv' /\ InData'
    BY <1>1, <2>1, InFrame DEF vendorVars, VendorInv, InStays
  <2>5. ConsoleInv'
    BY <1>1, ConsoleFrame DEF vendorVars, VendorInv, ConsoleStays
  <2>6. QED
    BY <2>2, <2>3, <2>4, <2>5 DEF VendorInv
<1>2. CASE Ven!Next
  BY <1>2, VendorHostSends, VendorHostReads, VendorXferComplete, VendorCopy, VendorConnect,
     VendorReset, VendorPrepOut, VendorArm, VendorTransmit, VendorFill, VendorSend, VendorRead,
     VendorReply, VendorLeaves, Zenon DEF Ven!Next
<1>3. QED
  BY <1>1, <1>2

\* Unless the tasks have met at an endpoint every packet and every reply arrives once and in order,
\* and no reply waits with nobody to send it; a connected console has its task: for any sizes of
\* the queues and any number of packets.
THEOREM UsbConsoleIsServed == MCSpec => []ConsoleIsServed
<1>1. MCInit => VendorInv
  BY VendorStarts DEF MCInit
<1>2. VendorInv /\ [MCNext]_<< part, usbdVars, dfuVars, vendorVars, netVars,
                               serialVars, classVars, uartVars >> => VendorInv'
  <2>1. [MCNext]_<< part, usbdVars, dfuVars, vendorVars, netVars,
                    serialVars, classVars, uartVars >> => [Ven!Next]_vendorVars
    BY DEF MCNext
  <2>2. QED
    BY <2>1, VendorNext
<1>3. VendorInv => ConsoleIsServed
  <2> SUFFICES ASSUME VendorInv PROVE Ven!ConsoleIsServed
    BY DEF ConsoleIsServed
  <2>1. VendorTypes /\ OutData /\ InInv /\ InData /\ ConsoleInv
    BY DEF VendorInv
  <2>2. /\ got \in Seq(Nat) /\ rx_ff \in Seq(Nat) /\ toDevice \in Seq(Nat)
        /\ Len(got) \in Nat /\ Len(rx_ff) \in Nat /\ Len(toDevice) \in Nat
        /\ Len(toHost) \in Nat /\ Len(wrote) \in Nat /\ Len(tx_ff) \in Nat
    BY <2>1 DEF VendorTypes
  <2>3. ASSUME ~raced PROVE Ven!IsPrefixOf(got, toDevice)
    BY <2>1, <2>2, <2>3 DEF OutData, From, Ven!IsPrefixOf
  <2>4. ASSUME ~raced PROVE Ven!IsPrefixOf(toHost, wrote)
    BY <2>1, <2>2, <2>4 DEF InData, From, Ven!IsPrefixOf
  <2>5. ASSUME ~raced, pc["usb"] # "copy", ~Ven!IsDone("out") PROVE got \o rx_ff = toDevice
    <3>1. /\ Len(toDevice) = Len(got) + Len(rx_ff)
          /\ \A i \in 1 .. Len(toDevice) : toDevice[i] = i
          /\ \A i \in 1 .. Len(got) : got[i] = i
          /\ \A i \in 1 .. Len(rx_ff) : rx_ff[i] = Len(got) + i
      <4>1. ~Comes /\ Len(toDevice) = Len(got) + Len(rx_ff) + (IF Comes THEN 1 ELSE 0)
        BY <2>1, <2>5 DEF OutData, Comes
      <4>2. /\ \A i \in 1 .. Len(toDevice) : toDevice[i] = 0 + i
            /\ \A i \in 1 .. Len(got) : got[i] = 0 + i
            /\ \A i \in 1 .. Len(rx_ff) : rx_ff[i] = Len(got) + i
        BY <2>1, <2>5 DEF OutData, From
      <4>3. Len(toDevice) = Len(got) + Len(rx_ff)
        BY <2>2, <4>1
      <4>4. QED
        BY <2>2, <4>2, <4>3
    <3>2. /\ got \o rx_ff \in Seq(Nat) /\ Len(got \o rx_ff) = Len(got) + Len(rx_ff)
          /\ \A i \in 1 .. Len(got) : (got \o rx_ff)[i] = got[i]
          /\ \A i \in Len(got) + 1 .. Len(got) + Len(rx_ff) : (got \o rx_ff)[i] = rx_ff[i - Len(got)]
      BY <2>2
    <3>3. \A i \in 1 .. Len(toDevice) : (got \o rx_ff)[i] = toDevice[i]
      <4> TAKE i \in 1 .. Len(toDevice)
      <4>1. CASE i <= Len(got)
        BY <2>2, <3>1, <3>2, <4>1
      <4>2. CASE i > Len(got)
        <5>1. i - Len(got) \in 1 .. Len(rx_ff) /\ i \in Len(got) + 1 .. Len(got) + Len(rx_ff)
          BY <2>2, <3>1, <4>2
        <5>2. rx_ff[i - Len(got)] = i
          <6>1. rx_ff[i - Len(got)] = Len(got) + (i - Len(got))
            BY <3>1, <5>1
          <6>2. QED
            BY <2>2, <6>1
        <5>3. QED
          BY <3>1, <3>2, <5>1, <5>2
      <4>3. i <= Len(got) \/ i > Len(got)
        BY <2>2
      <4>4. QED
        BY <4>1, <4>2, <4>3, Zenon
    <3>4. QED
      BY <2>2, <3>1, <3>2, <3>3, SeqEqual
  <2>6. ASSUME ~raced, tx_ff # << >>
        PROVE  inBusy \/ \E t \in Ven!Tasks : pc[t] \in {"transmit", "fill", "send"}
    BY <2>1, <2>6 DEF InInv, Ven!Tasks
  <2>7. web_serial_connected /\ ~missed => pc["web"] # "none"
    BY <2>1 DEF ConsoleInv
  <2>8. QED
    BY <2>3, <2>4, <2>5, <2>6, <2>7 DEF Ven!ConsoleIsServed
<1>4. QED
  BY <1>1, <1>2, <1>3, PTL DEF MCSpec

-----------------------------------------------------------------------------
(***************************************************************************)
(* UsbSerial.  The ring holds the last numbers that were stored, so a read that takes two  *)
(* pieces under the mutex gets numbers that follow each other; the parts of an object are  *)
(* made in their order, and only while it is installed are some missing.           *)
(***************************************************************************)

ReadPC == {"idle", "first", "second", "give"}

SerialTypes ==
    /\ ring \in Seq(Nat) /\ stored \in Nat
    /\ readPc \in [Readers -> ReadPC] /\ result \in [Readers -> Seq(Nat)]
    /\ aborted \in BOOLEAN /\ early \in BOOLEAN /\ failed \in BOOLEAN
    /\ installing \in BOOLEAN /\ cdc_obj \in BOOLEAN

RingInv == From(ring, stored - Len(ring))

\* Who reads has the mutex; what it has taken ends where the ring begins.
ReadInv ==
    \A r \in Readers :
        /\ readPc[r] # "idle" => mux = r
        /\ readPc[r] = "first" => result[r] = << >>
        /\ readPc[r] = "second" => From(result[r], stored - Len(ring) - Len(result[r]))
        /\ \E n \in Int : From(result[r], n)

\* The object grows part by part.
Half == { {"obj"}, {"obj", "mux"}, {"obj", "mux", "tfbuf"} }
ObjectInv ==
    /\ installing => acm \in Half
    /\ ~installing => acm \in {{}, Ser!Parts}
    /\ cdc_obj /\ ~installing /\ ~failed => acm = Ser!Parts
    /\ aborted => early

StreamInv == onUsb \subseteq Ser!Streams /\ registered \in Nat /\ (onUsb # {} => registered > 0)

SerialInv == SerialTypes /\ RingInv /\ ReadInv /\ ObjectInv /\ StreamInv

LEMMA SerialStarts == Ser!Init => SerialInv
<1> SUFFICES ASSUME Ser!Init
             PROVE  SerialInv
  OBVIOUS
<1> USE DEF Ser!Init
<1>1. << >> \in Seq(Nat) /\ Len(<< >>) = 0
  OBVIOUS
<1>2. SerialTypes
  BY <1>1 DEF SerialTypes, ReadPC
<1>3. RingInv
  BY <1>1 DEF RingInv, From
<1>4. ReadInv
  BY <1>1 DEF ReadInv, From
<1>5. ObjectInv /\ StreamInv
  BY DEF ObjectInv, StreamInv, Ser!Streams
<1>6. QED
  BY <1>2, <1>3, <1>4, <1>5 DEF SerialInv

\* The objects and the streams, over every step.
LEMMA ObjectNext == SerialTypes /\ ObjectInv /\ [Ser!Next]_serialVars => ObjectInv'
<1> SUFFICES ASSUME SerialTypes, ObjectInv, [Ser!Next]_serialVars
             PROVE  ObjectInv'
  OBVIOUS
<1>1. ASSUME UNCHANGED << cdc_obj, acm, installing, failed, aborted, early >>
      PROVE  ObjectInv'
  BY <1>1 DEF ObjectInv
<1>2. CASE Ser!BeginInit
  <2>1. /\ UNCHANGED << aborted, early >> /\ cdc_obj' = TRUE
        /\ \/ acm' = {"obj"} /\ installing' = TRUE
           \/ acm' = {} /\ installing' = FALSE /\ failed' = TRUE
    BY <1>2, Zenon DEF Ser!BeginInit, Ser!Resting
  <2>2. QED
    BY <2>1 DEF ObjectInv, Half
<1>3. CASE Ser!AddPart
  <2>1. /\ UNCHANGED << cdc_obj, failed, aborted, early >> /\ installing
        /\ acm' = acm \cup {Ser!NextPart}
        /\ installing' = (Ser!NextPart # "ring")
    BY <1>3, Zenon DEF Ser!AddPart, Ser!Resting
  <2>2. CASE acm = {"obj"}
    <3>1. Ser!NextPart = "mux"
      BY <2>2 DEF Ser!NextPart
    <3>2. installing' /\ acm' = {"obj", "mux"}
      BY <2>1, <2>2, <3>1
    <3>3. QED
      BY <2>1, <3>2 DEF ObjectInv, Half
  <2>3. CASE acm = {"obj", "mux"}
    <3>1. Ser!NextPart = "tfbuf"
      BY <2>3 DEF Ser!NextPart
    <3>2. installing' /\ acm' = {"obj", "mux", "tfbuf"}
      BY <2>1, <2>3, <3>1
    <3>3. QED
      BY <2>1, <3>2 DEF ObjectInv, Half
  <2>4. CASE acm = {"obj", "mux", "tfbuf"}
    <3>1. Ser!NextPart = "ring"
      BY <2>4 DEF Ser!NextPart
    <3>2. ~installing' /\ acm' = Ser!Parts
      BY <2>1, <2>4, <3>1 DEF Ser!Parts
    <3>3. QED
      BY <2>1, <3>2 DEF ObjectInv, Half
  <2>5. QED
    BY <2>1, <2>2, <2>3, <2>4 DEF ObjectInv, Half
<1>4. CASE Ser!free_obj
  <2>1. UNCHANGED << cdc_obj, aborted, early >> /\ acm' = {} /\ installing' = FALSE /\ failed' = TRUE
    BY <1>4, Zenon DEF Ser!free_obj, Ser!Resting
  <2>2. QED
    BY <2>1 DEF ObjectInv
<1>5. CASE Ser!Deinit
  <2>1. /\ UNCHANGED << installing, aborted, early >> /\ ~installing
        /\ cdc_obj' = FALSE /\ acm' = {} /\ failed' = FALSE
    BY <1>5, Zenon DEF Ser!Deinit, Ser!Resting
  <2>2. QED
    BY <2>1 DEF ObjectInv
<1>6. CASE Ser!RxCallback
  <2>1. /\ UNCHANGED << cdc_obj, acm, installing, failed >>
        /\ early' = (early \/ installing)
        /\ UNCHANGED aborted \/ (acm # {} /\ "ring" \notin acm)
    BY <1>6 DEF Ser!RxCallback, Ser!objects
  <2>2. acm # {} /\ "ring" \notin acm => installing
    BY DEF ObjectInv, Ser!Parts
  <2>3. aborted' => early'
    BY <2>1, <2>2 DEF ObjectInv
  <2>4. QED
    BY <2>1, <2>3 DEF ObjectInv
<1>7. CASE Ser!HostSends \/ Ser!Move
  BY <1>1, <1>7, Zenon DEF Ser!HostSends, Ser!Move, Ser!objects
<1>8. CASE \E r \in Readers : \/ Ser!TakeMux(r) \/ Ser!GiveMux(r)
                              \/ \E n \in 0 .. RingSize : Ser!Piece(r, n)
  BY <1>1, <1>8, Zenon DEF Ser!TakeMux, Ser!GiveMux, Ser!Piece, Ser!Reading, Ser!objects
<1>9. CASE Ser!RegisterFails \/ \E s \in Ser!Prefixes : Ser!InitConsole(s) \/ Ser!DeinitConsole(s)
  BY <1>1, <1>9, Zenon DEF Ser!RegisterFails, Ser!InitConsole, Ser!DeinitConsole, Ser!Console, Ser!Resting, Ser!objects
<1>10. CASE UNCHANGED serialVars
  BY <1>1, <1>10 DEF serialVars
<1>11. QED
  BY <1>2, <1>3, <1>4, <1>5, <1>6, <1>7, <1>8, <1>9, <1>10 DEF Ser!Next

LEMMA StreamNext == StreamInv /\ [Ser!Next]_serialVars => StreamInv'
<1> SUFFICES ASSUME StreamInv, [Ser!Next]_serialVars
             PROVE  StreamInv'
  OBVIOUS
<1>1. ASSUME UNCHANGED << registered, onUsb >> PROVE StreamInv'
  BY <1>1 DEF StreamInv
<1>2. CASE Ser!BeginInit \/ Ser!AddPart \/ Ser!free_obj \/ Ser!Deinit \/ Ser!RxCallback
           \/ Ser!HostSends \/ Ser!Move
  BY <1>1, <1>2, Zenon DEF Ser!BeginInit, Ser!AddPart, Ser!free_obj, Ser!Deinit, Ser!RxCallback,
                           Ser!HostSends, Ser!Move, Ser!console
<1>8. CASE Ser!RegisterFails
  BY <1>1, <1>8, Zenon DEF Ser!RegisterFails
<1>3. CASE \E r \in Readers : \/ Ser!TakeMux(r) \/ Ser!GiveMux(r)
                              \/ \E n \in 0 .. RingSize : Ser!Piece(r, n)
  BY <1>1, <1>3, Zenon DEF Ser!TakeMux, Ser!GiveMux, Ser!Piece, Ser!Reading, Ser!console
<1>4. ASSUME NEW s \in Ser!Prefixes, Ser!InitConsole(s) PROVE StreamInv'
  <2>1. registered' = registered + 1 /\ onUsb' = (onUsb \cup s) \ Ser!Failing(s)
    BY <1>4, Zenon DEF Ser!InitConsole
  <2>2. s \subseteq Ser!Streams
    BY <1>4 DEF Ser!Prefixes, Ser!Streams
  <2>3. QED
    BY <2>1, <2>2 DEF StreamInv
<1>5. ASSUME NEW s \in Ser!Prefixes, Ser!DeinitConsole(s) PROVE StreamInv'
  <2>1. /\ onUsb' = onUsb \ Ser!Touched(s)
        /\ IF s = Ser!Streams /\ named /\ registered > 0
           THEN registered' = registered - 1
           ELSE UNCHANGED registered
    BY <1>5, Zenon DEF Ser!DeinitConsole
  <2>2. CASE s = Ser!Streams
    <3>1. onUsb' = {}
      BY <2>1, <2>2 DEF StreamInv, Ser!Touched
    <3>2. registered' \in Nat
      BY <2>1 DEF StreamInv
    <3>3. QED
      BY <3>1, <3>2 DEF StreamInv
  <2>3. CASE s # Ser!Streams
    BY <2>1, <2>3 DEF StreamInv
  <2>4. QED
    BY <2>2, <2>3
<1>6. CASE UNCHANGED serialVars
  BY <1>1, <1>6 DEF serialVars
<1>7. QED
  BY <1>2, <1>3, <1>4, <1>5, <1>6, <1>8, Zenon DEF Ser!Next

-----------------------------------------------------------------------------
\* The ring and the reads, over every step.
ReadAll == SerialTypes /\ RingInv /\ ReadInv
ReadVars == << ring, stored, mux, readPc, result >>
OtherTypes ==
    /\ aborted \in BOOLEAN /\ early \in BOOLEAN /\ failed \in BOOLEAN
    /\ installing \in BOOLEAN /\ cdc_obj \in BOOLEAN

LEMMA OtherTypesNext == SerialTypes /\ [Ser!Next]_serialVars => OtherTypes'
<1> SUFFICES ASSUME SerialTypes, [Ser!Next]_serialVars
             PROVE  OtherTypes'
  OBVIOUS
<1>1. OtherTypes
  BY DEF SerialTypes, OtherTypes
<1> USE DEF OtherTypes
<1>2. CASE Ser!BeginInit \/ Ser!AddPart \/ Ser!free_obj \/ Ser!Deinit
  BY <1>1, <1>2 DEF Ser!BeginInit, Ser!AddPart, Ser!free_obj, Ser!Deinit, Ser!Resting
<1>3. CASE Ser!RxCallback
  BY <1>1, <1>3 DEF Ser!RxCallback, Ser!objects
<1>4. CASE Ser!HostSends \/ Ser!Move
  BY <1>1, <1>4 DEF Ser!HostSends, Ser!Move, Ser!objects
<1>5. CASE \E r \in Readers : \/ Ser!TakeMux(r) \/ Ser!GiveMux(r)
                              \/ \E n \in 0 .. RingSize : Ser!Piece(r, n)
  BY <1>1, <1>5 DEF Ser!TakeMux, Ser!GiveMux, Ser!Piece, Ser!Reading, Ser!objects
<1>6. CASE Ser!RegisterFails \/ \E s \in Ser!Prefixes : Ser!InitConsole(s) \/ Ser!DeinitConsole(s)
  BY <1>1, <1>6 DEF Ser!RegisterFails, Ser!InitConsole, Ser!DeinitConsole, Ser!Console, Ser!Resting, Ser!objects
<1>7. CASE UNCHANGED serialVars
  BY <1>1, <1>7 DEF serialVars
<1>8. QED
  BY <1>2, <1>3, <1>4, <1>5, <1>6, <1>7, Zenon DEF Ser!Next

\* A piece of the ring: the first n numbers, and the rest.
LEMMA PieceOfRing ==
    ASSUME NEW q \in Seq(Nat), NEW m \in Int, From(q, m), NEW n \in 0 .. Len(q)
    PROVE  LET p == SubSeq(q, 1, n)
               s == SubSeq(q, n + 1, Len(q))
           IN  /\ p \in Seq(Nat) /\ s \in Seq(Nat) /\ Len(p) = n /\ Len(s) = Len(q) - n
               /\ From(p, m) /\ From(s, m + n)
<1> DEFINE p == SubSeq(q, 1, n)
           s == SubSeq(q, n + 1, Len(q))
<1>1. Len(q) \in Nat /\ n \in Nat
  OBVIOUS
<1>2. p \in Seq(Nat) /\ Len(p) = n /\ \A i \in 1 .. n : p[i] = q[i]
  <2>1. \A i \in 1 .. n : q[i] \in Nat
    BY <1>1
  <2>2. QED
    BY <1>1, <2>1, SubSeqProperties
<1>3. s \in Seq(Nat) /\ Len(s) = Len(q) - n /\ \A i \in 1 .. Len(q) - n : s[i] = q[n + i]
  <2>1. \A i \in n + 1 .. Len(q) : q[i] \in Nat
    BY <1>1
  <2>2. /\ s \in Seq(Nat)
        /\ Len(s) = IF n + 1 <= Len(q) THEN Len(q) - (n + 1) + 1 ELSE 0
        /\ \A i \in 1 .. Len(q) - (n + 1) + 1 : s[i] = q[n + 1 + i - 1]
    BY <1>1, <2>1, SubSeqProperties
  <2>3. \A i \in 1 .. Len(q) - n : n + 1 + i - 1 = n + i
    BY <1>1
  <2>4. QED
    BY <1>1, <2>2, <2>3
<1>4. From(p, m)
  BY <1>1, <1>2 DEF From
<1>5. From(s, m + n)
  <2>1. \A i \in 1 .. Len(q) - n : q[n + i] = m + (n + i)
    BY <1>1 DEF From
  <2>2. QED
    BY <1>1, <1>3, <2>1 DEF From
<1>6. QED
  BY <1>2, <1>3, <1>4, <1>5

LEMMA FollowsOn ==
    ASSUME NEW s \in Seq(Nat), NEW p \in Seq(Nat), NEW m \in Int, From(s, m), From(p, m + Len(s))
    PROVE  s \o p \in Seq(Nat) /\ Len(s \o p) = Len(s) + Len(p) /\ From(s \o p, m)
<1>1. Len(s) \in Nat /\ Len(p) \in Nat
  OBVIOUS
<1>2. /\ s \o p \in Seq(Nat) /\ Len(s \o p) = Len(s) + Len(p)
      /\ \A i \in 1 .. Len(s) + Len(p) : (s \o p)[i] = IF i <= Len(s) THEN s[i] ELSE p[i - Len(s)]
  BY ConcatProperties
<1>3. ASSUME NEW i \in 1 .. Len(s) + Len(p) PROVE (s \o p)[i] = m + i
  <2>1. CASE i <= Len(s)
    BY <1>1, <1>2, <2>1 DEF From
  <2>2. CASE i > Len(s)
    <3>1. i - Len(s) \in 1 .. Len(p) /\ ~(i <= Len(s))
      BY <1>1, <2>2
    <3>2. (s \o p)[i] = m + Len(s) + (i - Len(s))
      BY <1>2, <3>1 DEF From
    <3>3. QED
      BY <1>1, <3>2
  <2>3. i <= Len(s) \/ i > Len(s)
    BY <1>1
  <2>4. QED
    BY <2>1, <2>2, <2>3, Zenon
<1>4. QED
  BY <1>2, <1>3 DEF From

LEMMA ReadNext == ReadAll /\ [Ser!Next]_serialVars => ReadAll'
<1> SUFFICES ASSUME ReadAll, [Ser!Next]_serialVars
             PROVE  ReadAll'
  OBVIOUS
<1>0. OtherTypes'
  BY OtherTypesNext DEF ReadAll
<1>1. /\ ring \in Seq(Nat) /\ stored \in Nat /\ Len(ring) \in Nat
      /\ readPc \in [Readers -> ReadPC] /\ result \in [Readers -> Seq(Nat)]
      /\ RingInv /\ ReadInv
  BY DEF ReadAll, SerialTypes
<1>2. ASSUME UNCHANGED ReadVars PROVE ReadAll'
  BY <1>0, <1>1, <1>2 DEF ReadAll, ReadVars, SerialTypes, OtherTypes, RingInv, ReadInv, From
<1>3. CASE Ser!BeginInit
  <2>1. /\ ring' = << >> /\ stored' = 0 /\ mux' = "free"
        /\ readPc' = [r \in Readers |-> "idle"] /\ result' = [r \in Readers |-> << >>]
    BY <1>3, Zenon DEF Ser!BeginInit
  <2>2. << >> \in Seq(Nat) /\ Len(<< >>) = 0
    OBVIOUS
  <2>3. SerialTypes'
    BY <1>0, <2>1, <2>2 DEF SerialTypes, OtherTypes, ReadPC
  <2>4. RingInv'
    BY <2>1, <2>2 DEF RingInv, From
  <2>5. ReadInv'
    BY <2>1, <2>2 DEF ReadInv, From
  <2>6. QED
    BY <2>3, <2>4, <2>5 DEF ReadAll
<1>4. CASE Ser!AddPart \/ Ser!free_obj \/ Ser!Deinit
  BY <1>2, <1>4, Zenon DEF Ser!AddPart, Ser!free_obj, Ser!Deinit, Ser!reading, ReadVars
<1>5. CASE Ser!HostSends \/ Ser!RxCallback
  BY <1>2, <1>5, Zenon DEF Ser!HostSends, Ser!RxCallback, Ser!reading, ReadVars
<1>6. CASE Ser!Move
  <2>1. /\ UNCHANGED << mux, readPc, result >>
        /\ \/ UNCHANGED << ring, stored >>
           \/ ring' = Append(ring, stored + 1) /\ stored' = stored + 1
    BY <1>6, Zenon DEF Ser!Move, Ser!reading
  <2>2. CASE UNCHANGED << ring, stored >>
    BY <1>2, <2>1, <2>2 DEF ReadVars
  <2>3. CASE ring' = Append(ring, stored + 1) /\ stored' = stored + 1
    <3>1. /\ ring' \in Seq(Nat) /\ Len(ring') = Len(ring) + 1 /\ stored' \in Nat
          /\ \A i \in 1 .. Len(ring) : ring'[i] = ring[i]
          /\ ring'[Len(ring) + 1] = stored + 1
      BY <1>1, <2>3
    <3>2. stored' - Len(ring') = stored - Len(ring)
      BY <1>1, <2>3, <3>1
    <3>3. SerialTypes'
      BY <1>0, <1>1, <2>1, <3>1 DEF SerialTypes, OtherTypes
    <3>4. RingInv'
      <4>1. \A i \in 1 .. Len(ring) : ring[i] = stored - Len(ring) + i
        BY <1>1 DEF RingInv, From
      <4>2. ASSUME NEW i \in 1 .. Len(ring') PROVE ring'[i] = stored - Len(ring) + i
        BY <1>1, <3>1, <4>1
      <4>3. QED
        BY <3>2, <4>2 DEF RingInv, From
    <3>5. ReadInv'
      BY <1>1, <2>1, <3>2, ZenonT(30) DEF ReadInv, From
    <3>6. QED
      BY <3>3, <3>4, <3>5 DEF ReadAll
  <2>4. QED
    BY <2>1, <2>2, <2>3
<1>7. ASSUME NEW r \in Readers, Ser!TakeMux(r) PROVE ReadAll'
  <2>1. /\ mux = "free" /\ mux' = r /\ UNCHANGED << ring, stored >>
        /\ result' = [result EXCEPT ![r] = << >>]
        /\ readPc' = [readPc EXCEPT ![r] = "first"]
    BY <1>7, Zenon DEF Ser!TakeMux, Ser!MuxFree, Ser!Reading
  <2>2. << >> \in Seq(Nat) /\ Len(<< >>) = 0
    OBVIOUS
  <2>3. SerialTypes'
    BY <1>0, <1>1, <2>1, <2>2 DEF SerialTypes, OtherTypes, ReadPC
  <2>4. RingInv'
    BY <1>1, <2>1 DEF RingInv, From
  <2>5. ASSUME NEW x \in Readers
        PROVE  /\ readPc'[x] # "idle" => mux' = x
               /\ readPc'[x] = "first" => result'[x] = << >>
               /\ readPc'[x] # "second"
               /\ \E n \in Int : From(result'[x], n)
    <3>1. readPc[x] = "idle"
      BY <1>1, <2>1, UsbAssumption DEF ReadInv, Ser!SerialAssumption
    <3>2. CASE x = r
      <4>1. result'[x] = << >> /\ readPc'[x] = "first"
        BY <1>1, <2>1, <3>2
      <4>2. From(<< >>, 0)
        BY <2>2 DEF From
      <4>3. QED
        BY <2>1, <3>2, <4>1, <4>2
    <3>3. CASE x # r
      BY <1>1, <2>1, <3>1, <3>3 DEF ReadInv
    <3>4. QED
      BY <3>2, <3>3
  <2>6. ReadInv'
    BY <2>5 DEF ReadInv
  <2>7. QED
    BY <2>3, <2>4, <2>6 DEF ReadAll
<1>8. ASSUME NEW r \in Readers, Ser!GiveMux(r) PROVE ReadAll'
  <2>1. /\ readPc[r] = "give" /\ mux' = "free" /\ UNCHANGED << ring, stored, result >>
        /\ readPc' = [readPc EXCEPT ![r] = "idle"]
    BY <1>8, Zenon DEF Ser!GiveMux, Ser!Reading
  <2>2. SerialTypes'
    BY <1>0, <1>1, <2>1 DEF SerialTypes, OtherTypes, ReadPC
  <2>3. RingInv'
    BY <1>1, <2>1 DEF RingInv, From
  <2>4. ASSUME NEW x \in Readers PROVE readPc'[x] = "idle"
    BY <1>1, <2>1 DEF ReadInv
  <2>5. ReadInv'
    BY <1>1, <2>1, <2>4 DEF ReadInv
  <2>6. QED
    BY <2>2, <2>3, <2>5 DEF ReadAll
<1>9. ASSUME NEW r \in Readers, NEW n \in 0 .. RingSize, Ser!Piece(r, n) PROVE ReadAll'
  <2> DEFINE p == SubSeq(ring, 1, n)
             b == stored - Len(ring)
             to == IF readPc[r] = "first" /\ n > 0 THEN "second" ELSE "give"
  <2>1. /\ readPc[r] \in {"first", "second"} /\ n \in 0 .. Len(ring) /\ UNCHANGED << mux, stored >>
        /\ result' = [result EXCEPT ![r] = @ \o p]
        /\ ring' = SubSeq(ring, n + 1, Len(ring))
        /\ readPc' = [readPc EXCEPT ![r] = IF @ = "first" /\ n > 0 THEN "second" ELSE "give"]
    BY <1>9, Zenon DEF Ser!Piece, Ser!Reading
  <2>2. b \in Int /\ From(ring, b)
    BY <1>1 DEF RingInv
  <2>3. /\ p \in Seq(Nat) /\ ring' \in Seq(Nat) /\ Len(p) = n /\ Len(ring') = Len(ring) - n
        /\ From(p, b) /\ From(ring', b + n)
    BY <1>1, <2>1, <2>2, PieceOfRing
  <2>4. n \in Nat /\ stored' - Len(ring') = b + n
    <3>1. n \in Nat /\ Len(ring') = Len(ring) - n /\ stored' = stored
      BY <2>1, <2>3
    <3>2. QED
      BY <1>1, <3>1
  <2>5. RingInv'
    BY <2>3, <2>4 DEF RingInv
  <2>6. /\ result[r] \in Seq(Nat) /\ Len(result[r]) \in Nat
        /\ From(result[r], b - Len(result[r]))
    <3>1. result[r] \in Seq(Nat) /\ Len(result[r]) \in Nat
      BY <1>1
    <3>2. CASE readPc[r] = "first"
      <4>1. Len(result[r]) = 0
        BY <1>1, <3>2 DEF ReadInv
      <4>2. QED
        BY <3>1, <4>1 DEF From
    <3>3. CASE readPc[r] = "second"
      BY <1>1, <3>1, <3>3 DEF ReadInv
    <3>4. QED
      BY <2>1, <3>1, <3>2, <3>3
  <2>7. PICK k \in Int : k = b - Len(result[r])
    BY <2>2, <2>6
  <2>8. k + Len(result[r]) = b
    BY <2>2, <2>6, <2>7
  <2>9. /\ result[r] \o p \in Seq(Nat) /\ Len(result[r] \o p) = Len(result[r]) + n
        /\ From(result[r] \o p, k)
    BY <2>3, <2>6, <2>7, <2>8, FollowsOn
  <2>10. k = stored' - Len(ring') - Len(result[r] \o p)
    <3>1. ASSUME NEW c \in Int, NEW l \in Nat PROVE (c + n) - (l + n) = c - l
      BY <2>4
    <3>2. k = (b + n) - (Len(result[r]) + n)
      BY <2>2, <2>6, <2>7, <3>1
    <3>3. /\ stored' - Len(ring') = b + n /\ Len(result[r] \o p) = Len(result[r]) + n
      BY <2>4, <2>9
    <3> HIDE DEF b, p
    <3>4. QED
      BY <3>2, <3>3
  <2>11. SerialTypes'
    BY <1>0, <1>1, <2>1, <2>3, <2>9 DEF SerialTypes, OtherTypes, ReadPC
  <2>12. ReadInv'
    <3> SUFFICES ASSUME NEW x \in Readers
                 PROVE  /\ readPc'[x] # "idle" => mux' = x
                        /\ readPc'[x] = "first" => result'[x] = << >>
                        /\ readPc'[x] = "second" =>
                               From(result'[x], stored' - Len(ring') - Len(result'[x]))
                        /\ \E m \in Int : From(result'[x], m)
      BY DEF ReadInv, From
    <3>1. CASE x = r
      <4>1. result'[r] = result[r] \o p /\ readPc'[r] \in {"second", "give"}
        BY <1>1, <2>1
      <4>2. mux' = r
        BY <1>1, <2>1 DEF ReadInv
      <4>3. From(result'[r], stored' - Len(ring') - Len(result'[r]))
        BY <2>9, <2>10, <4>1
      <4>4. QED
        BY <2>9, <3>1, <4>1, <4>2, <4>3
    <3>2. CASE x # r
      <4>1. readPc[x] = "idle"
        BY <1>1, <2>1, <3>2 DEF ReadInv
      <4>2. readPc'[x] = "idle" /\ result'[x] = result[x]
        BY <1>1, <2>1, <3>2, <4>1
      <4>3. \E m \in Int : From(result[x], m)
        BY <1>1 DEF ReadInv
      <4>4. QED
        BY <4>2, <4>3
    <3>3. QED
      BY <3>1, <3>2
  <2>13. QED
    BY <2>5, <2>11, <2>12 DEF ReadAll
<1>10. CASE Ser!RegisterFails \/ \E s \in Ser!Prefixes : Ser!InitConsole(s) \/ Ser!DeinitConsole(s)
  BY <1>2, <1>10, Zenon DEF Ser!RegisterFails, Ser!InitConsole, Ser!DeinitConsole, Ser!Console, Ser!reading, ReadVars
<1>11. CASE UNCHANGED serialVars
  BY <1>2, <1>11 DEF serialVars, ReadVars
<1>12. QED
  BY <1>3, <1>4, <1>5, <1>6, <1>7, <1>8, <1>9, <1>10, <1>11, Zenon DEF Ser!Next

\* Reads of the serial port are consecutive, it aborts only over data that comes while it is set
\* up, its objects are whole unless a set-up failed, and a stream on it has its path: for any set of
\* readers and any size of the ring.
THEOREM UsbSerialSound == MCSpec => []Ser!SerialSound
<1>1. MCInit => SerialInv
  BY SerialStarts DEF MCInit
<1>2. SerialInv /\ [MCNext]_<< part, usbdVars, dfuVars, vendorVars, netVars,
                               serialVars, classVars, uartVars >> => SerialInv'
  <2>1. [MCNext]_<< part, usbdVars, dfuVars, vendorVars, netVars,
                    serialVars, classVars, uartVars >> => [Ser!Next]_serialVars
    BY DEF MCNext
  <2>2. QED
    BY <2>1, ObjectNext, StreamNext, ReadNext DEF SerialInv, ReadAll
<1>3. SerialInv => Ser!SerialSound
  <2> SUFFICES ASSUME SerialInv PROVE Ser!SerialSound
    OBVIOUS
  <2>1. ASSUME NEW r \in Readers PROVE Ser!Consecutive(result[r])
    <3>1. PICK n \in Int : From(result[r], n)
      BY DEF SerialInv, ReadInv
    <3>2. result[r] \in Seq(Nat) /\ Len(result[r]) \in Nat
      BY DEF SerialInv, SerialTypes
    <3>3. ASSUME NEW i \in 1 .. Len(result[r]) - 1 PROVE result[r][i + 1] = result[r][i] + 1
      <4>1. i \in 1 .. Len(result[r]) /\ i + 1 \in 1 .. Len(result[r])
        BY <3>2
      <4>2. result[r][i] = n + i /\ result[r][i + 1] = n + (i + 1)
        BY <3>1, <4>1 DEF From
      <4>3. QED
        BY <4>2
    <3>4. QED
      BY <3>3 DEF Ser!Consecutive
  <2>2. QED
    BY <2>1 DEF SerialInv, ObjectInv, StreamInv, Ser!SerialSound
<1>4. QED
  BY <1>1, <1>2, <1>3, PTL DEF MCSpec

-----------------------------------------------------------------------------
(***************************************************************************)
(* UsbClasses.  In the middle of a packet the device and the host agree on how much has   *)
(* come, and what is left is as long as a whole number of pieces and the last one; so the   *)
(* device, which counts five bytes too many, still waits for a last piece of more.       *)
(***************************************************************************)

Packets == [len : Nat, sent : Nat]

ClassTypes ==
    /\ ejected \in BOOLEAN /\ unsynced \in BOOLEAN /\ afterEject \in BOOLEAN
    /\ acl \in Packets /\ passed = [len |-> passed.len, want |-> passed.want]
    /\ prepare_write \in BOOLEAN /\ split \in {"short", "long", "cut"}

DiskInv == ejected /\ ~afterEject => ~unsynced

\* split says what the packets are, also the one that is coming.
SplitInv ==
    acl # Cls!NoPacket =>
        /\ split # "cut" => Cls!Kind(acl.len) # "cut"
        /\ split = "short" => Cls!Kind(acl.len) = "short"

StepInv ==
    split # "cut" =>
        /\ ~apart /\ (prepare_write <=> acl.sent # 0)
        /\ acl.sent # 0 =>
              /\ write_offset = acl.sent + 1 /\ acl_data_length = acl.len
              /\ acl.sent < Cls!Total(acl) /\ Cls!Total(acl) > PieceSize
              /\ Cls!Rest(acl) % PieceSize = Cls!Total(acl) % PieceSize

PassedInv == split = "short" => passed.len = passed.want

ClassInv == ClassTypes /\ DiskInv /\ SplitInv /\ StepInv /\ PassedInv

LEMMA ModIsOne ==
    ASSUME NEW p \in Nat \ {0}, NEW a \in Int, NEW b \in Int, NEW c \in 0 .. p - 1, NEW d \in 0 .. p - 1,
           a * p + c = b * p + d
    PROVE  c = d
<1>1. a >= b + 1 => a * p >= b * p + p
  OBVIOUS
<1>2. b >= a + 1 => b * p >= a * p + p
  OBVIOUS
<1>3. a = b \/ a >= b + 1 \/ b >= a + 1
  OBVIOUS
<1>4. a * p \in Int /\ b * p \in Int
  OBVIOUS
<1>5. CASE a = b
  BY <1>4, <1>5
<1>6. QED
  BY <1>1, <1>2, <1>3, <1>4, <1>5

\* A piece less leaves the same last piece.
LEMMA PieceLess ==
    ASSUME NEW p \in Nat \ {0}, NEW r \in Nat, r >= p
    PROVE  (r - p) % p = r % p
<1>1. r - p \in Nat
  OBVIOUS
<1>2. PICK c \in 0 .. p - 1, q \in Nat : c = (r - p) % p /\ r - p = p * q + c
  <2>1. /\ (r - p) % p \in 0 .. p - 1 /\ (r - p) \div p \in Nat
        /\ r - p = p * ((r - p) \div p) + ((r - p) % p)
    BY <1>1
  <2>2. QED
    BY <2>1
<1>3. PICK d \in 0 .. p - 1, k \in Nat : d = r % p /\ r = p * k + d
  <2>1. r % p \in 0 .. p - 1 /\ r \div p \in Nat /\ r = p * (r \div p) + (r % p)
    OBVIOUS
  <2>2. QED
    BY <2>1
<1>4. (q + 1) * p + c = k * p + d
  <2>1. (q + 1) * p = p * q + p /\ k * p = p * k /\ p * q \in Int /\ p * k \in Int
    OBVIOUS
  <2>2. p * q + c + p = p * k + d
    BY <1>2, <1>3, <2>1
  <2>3. QED
    BY <2>1, <2>2
<1>5. c = d
  BY <1>4, ModIsOne
<1>6. QED
  BY <1>2, <1>3, <1>5

LEMMA ClassStarts == Cls!Init => ClassInv
<1> SUFFICES ASSUME Cls!Init
             PROVE  ClassInv
  OBVIOUS
<1> USE DEF Cls!Init, Cls!NoPacket
<1>1. ClassTypes
  BY DEF ClassTypes, Packets
<1>2. DiskInv /\ SplitInv /\ StepInv /\ PassedInv
  BY DEF DiskInv, SplitInv, StepInv, PassedInv
<1>3. QED
  BY <1>1, <1>2 DEF ClassInv

-----------------------------------------------------------------------------
\* What a packet adds to split.
LEMMA LongestOf ==
    ASSUME NEW a \in {"short", "long", "cut"}, NEW n \in Nat
    PROVE  /\ Cls!Longest(a, Cls!Kind(n)) \in {"short", "long", "cut"}
           /\ Cls!Longest(a, Cls!Kind(n)) # "cut" => a # "cut" /\ Cls!Kind(n) # "cut"
           /\ Cls!Longest(a, Cls!Kind(n)) = "short" => a = "short" /\ Cls!Kind(n) = "short"
<1>1. Cls!Kind(n) \in {"short", "long", "cut"}
  BY DEF Cls!Kind
<1>2. QED
  BY <1>1 DEF Cls!Longest

\* The last piece of a packet that has not come in one: the device still waits before it, and the
\* packet is longer than its first piece.
LEMMA LastPieceIsLong ==
    ASSUME NEW p \in Packets, Cls!Total(p) > PieceSize, Cls!Kind(p.len) # "cut"
    PROVE  /\ p.len > PieceSize
           /\ \A r \in Nat \ {0} : r % PieceSize = Cls!Total(p) % PieceSize => r > 5
<1> USE UsbAssumption DEF Cls!ClassesAssumption
<1>1. p.len \in Nat /\ p = [len |-> p.len, sent |-> p.sent] /\ Cls!Total(p) = p.len + 4
  BY DEF Packets, Cls!Total
<1> DEFINE m == Cls!Total(p) % PieceSize
           t == Cls!Total(p)
<1>2. (IF m = 0 THEN PieceSize ELSE m) > 5
  <2>1. Cls!LastPiece([len |-> p.len, sent |-> 0]) = IF m = 0 THEN PieceSize ELSE m
    BY <1>1 DEF Cls!LastPiece, Cls!Total
  <2>2. ~(p.len + 4 <= PieceSize)
    BY <1>1
  <2>3. ~(Cls!LastPiece([len |-> p.len, sent |-> 0]) <= 5)
    BY <2>2 DEF Cls!Kind
  <2>4. m \in Int
    BY <1>1
  <2>5. QED
    BY <2>1, <2>3, <2>4
<1>3. ASSUME NEW r \in Nat \ {0}, r % PieceSize = m
      PROVE  r > 5
  <2>1. r % PieceSize <= r
    OBVIOUS
  <2>2. r % PieceSize = 0 => r >= PieceSize
    OBVIOUS
  <2>3. QED
    BY <1>2, <1>3, <2>1, <2>2
<1>4. t - PieceSize > 5
  <2>1. t \in Nat /\ t - PieceSize \in Nat \ {0} /\ (t - PieceSize) % PieceSize = m
    BY <1>1, PieceLess
  <2>2. QED
    BY <1>3, <2>1
<1>5. QED
  BY <1>1, <1>3, <1>4

-----------------------------------------------------------------------------
\* A piece of a packet.
LEMMA PieceNext == ClassInv /\ Cls!tud_bt_acl_data_received_cb => ClassInv'
<1> SUFFICES ASSUME ClassInv, Cls!tud_bt_acl_data_received_cb
             PROVE  ClassInv'
  OBVIOUS
<1> USE UsbAssumption DEF Cls!ClassesAssumption
<1> DEFINE piece == Cls!Piece(acl)
           t == Cls!Total(acl)
<1>1. /\ acl # Cls!NoPacket /\ UNCHANGED << ejected, unsynced, afterEject, split >>
      /\ acl' = IF Cls!Rest(acl) = piece THEN Cls!NoPacket ELSE [acl EXCEPT !.sent = @ + piece]
      /\ apart' = ((acl.sent = 0) = prepare_write)
  BY DEF Cls!tud_bt_acl_data_received_cb, Cls!disk
<1>2. ~prepare_write =>
          /\ acl_data_length' = acl.len /\ prepare_write' = (acl.len > piece)
          /\ acl.len > piece => write_offset' = piece + 1 /\ UNCHANGED passed
          /\ ~(acl.len > piece) => Cls!Pass(piece + 1)
  BY DEF Cls!tud_bt_acl_data_received_cb
<1>3. prepare_write =>
          /\ acl_data_length' = acl_data_length /\ write_offset' = write_offset + piece
          /\ acl_data_length <= write_offset + piece =>
                prepare_write' = FALSE /\ Cls!Pass(2 * piece + write_offset)
          /\ ~(acl_data_length <= write_offset + piece) => UNCHANGED << prepare_write, passed >>
  BY DEF Cls!tud_bt_acl_data_received_cb, Cls!Complete
<1>4. /\ acl = [len |-> acl.len, sent |-> acl.sent] /\ acl.len \in Nat /\ acl.sent \in Nat
      /\ acl \in Packets /\ prepare_write \in BOOLEAN
      /\ t = acl.len + 4 /\ Cls!Rest(acl) = t - acl.sent
  BY DEF ClassInv, ClassTypes, Packets, Cls!Total, Cls!Rest
<1>5. piece = IF PieceSize < t - acl.sent THEN PieceSize ELSE t - acl.sent
  BY <1>4 DEF Cls!Piece, Cls!Smaller
<1> HIDE DEF piece, t
<1>6. acl' \in Packets
  <2>1. t - acl.sent # piece => acl.sent + piece \in Nat
    BY <1>4, <1>5
  <2>2. \/ acl' = Cls!NoPacket
        \/ acl' = [len |-> acl.len, sent |-> acl.sent + piece] /\ t - acl.sent # piece
    BY <1>1, <1>4
  <2>3. QED
    BY <1>4, <2>1, <2>2 DEF Packets, Cls!NoPacket
<1>7. passed' = [len |-> passed'.len, want |-> passed'.want]
  BY <1>2, <1>3, <1>4 DEF Cls!Pass, ClassInv, ClassTypes
<1>8. prepare_write' \in BOOLEAN
  <2>1. CASE ~prepare_write
    BY <1>2, <2>1
  <2>2. CASE prepare_write
    BY <1>3, <1>4, <2>2
  <2>3. QED
    BY <2>1, <2>2
<1>9. ClassTypes'
  BY <1>1, <1>6, <1>7, <1>8 DEF ClassInv, ClassTypes
<1>10. DiskInv'
  BY <1>1 DEF ClassInv, DiskInv
<1>11. SplitInv'
  <2>1. acl' # Cls!NoPacket => acl'.len = acl.len
    BY <1>1, <1>4
  <2>2. QED
    BY <1>1, <2>1 DEF ClassInv, SplitInv, Cls!Kind
<1>12. CASE split = "cut"
  BY <1>1, <1>9, <1>10, <1>11, <1>12 DEF ClassInv, StepInv, PassedInv
<1>13. CASE split # "cut"
  <2>1. /\ Cls!Kind(acl.len) # "cut" /\ (split = "short" => Cls!Kind(acl.len) = "short")
        /\ prepare_write <=> acl.sent # 0
        /\ acl.sent # 0 => /\ write_offset = acl.sent + 1 /\ acl_data_length = acl.len
                           /\ acl.sent < t /\ t > PieceSize
                           /\ (t - acl.sent) % PieceSize = t % PieceSize
    BY <1>1, <1>4, <1>13 DEF ClassInv, SplitInv, StepInv, t
  <2>2. ~apart'
    BY <1>1, <1>4, <2>1
  <2>3. t > PieceSize =>
            /\ acl.len > PieceSize
            /\ \A r \in Nat \ {0} : r % PieceSize = t % PieceSize => r > 5
    BY <1>4, <2>1, LastPieceIsLong DEF t
  <2>4. split = "short" => t <= PieceSize
    BY <1>4, <2>1 DEF Cls!Kind
  <2>5. CASE t - acl.sent <= PieceSize
    <3>1. piece = t - acl.sent /\ acl' = Cls!NoPacket /\ acl'.sent = 0
      BY <1>1, <1>4, <1>5, <2>5 DEF Cls!NoPacket
    <3>2. CASE acl.sent = 0
      <4>1. ~prepare_write /\ piece = acl.len + 4 /\ ~(acl.len > piece)
        BY <1>4, <2>1, <3>1, <3>2
      <4>2. ~prepare_write' /\ passed' = [len |-> piece + 1, want |-> t + 1]
        BY <1>2, <4>1 DEF Cls!Pass, t
      <4>3. passed'.len = passed'.want
        BY <1>4, <4>1, <4>2
      <4>4. QED
        BY <1>9, <1>10, <1>11, <2>2, <3>1, <4>2, <4>3 DEF ClassInv, StepInv, PassedInv
    <3>3. CASE acl.sent # 0
      <4>1. prepare_write /\ acl_data_length <= write_offset + piece
        BY <1>4, <2>1, <3>1, <3>3
      <4>2. prepare_write' = FALSE
        BY <1>3, <4>1
      <4>3. split # "short"
        BY <1>4, <2>1, <2>4, <3>3
      <4>4. QED
        BY <1>1, <1>9, <1>10, <1>11, <2>2, <3>1, <4>2, <4>3 DEF ClassInv, StepInv, PassedInv
    <3>4. QED
      BY <3>2, <3>3
  <2>6. CASE t - acl.sent > PieceSize
    <3>1. /\ piece = PieceSize /\ acl' = [len |-> acl.len, sent |-> acl.sent + PieceSize]
          /\ t > PieceSize
      BY <1>1, <1>4, <1>5, <2>6
    <3>2. PICK s \in Nat : s = acl.sent + PieceSize
      BY <1>4
    <3>3. s # 0 /\ s < t /\ acl'.sent = s /\ acl'.len = acl.len
      BY <1>4, <2>6, <3>1, <3>2
    <3>4. (t - s) % PieceSize = t % PieceSize
      <4>1. t - acl.sent \in Nat /\ t - acl.sent >= PieceSize /\ t - s = (t - acl.sent) - PieceSize
        BY <1>4, <2>6, <3>2
      <4>2. (t - s) % PieceSize = (t - acl.sent) % PieceSize
        BY <4>1, PieceLess
      <4>3. CASE acl.sent = 0
        BY <1>4, <4>2, <4>3
      <4>4. CASE acl.sent # 0
        BY <2>1, <4>2, <4>4
      <4>5. QED
        BY <4>3, <4>4
    <3>5. t - s > 5
      <4>1. t - s \in Nat \ {0}
        BY <1>4, <3>2, <3>3
      <4>2. QED
        BY <2>3, <3>1, <3>4, <4>1
    <3>6. prepare_write' = TRUE /\ write_offset' = s + 1 /\ acl_data_length' = acl.len
      <4>1. CASE acl.sent = 0
        <5>1. ~prepare_write /\ acl.len > piece /\ s = piece
          BY <1>4, <2>1, <2>3, <3>1, <3>2, <4>1
        <5>2. QED
          BY <1>2, <5>1
      <4>2. CASE acl.sent # 0
        <5>1. /\ prepare_write /\ write_offset + piece = s + 1 /\ acl_data_length = acl.len
              /\ ~(acl_data_length <= write_offset + piece)
          BY <1>4, <2>1, <3>1, <3>2, <3>5, <4>2
        <5>2. QED
          BY <1>3, <5>1
      <4>3. QED
        BY <4>1, <4>2
    <3>7. Cls!Total(acl)' = t /\ Cls!Rest(acl)' = t - s
      BY <1>4, <3>3 DEF Cls!Total, Cls!Rest
    <3>8. StepInv'
      BY <1>4, <2>2, <3>1, <3>3, <3>4, <3>6, <3>7 DEF StepInv
    <3>9. PassedInv'
      BY <1>1, <1>4, <2>4, <3>1 DEF PassedInv
    <3>10. QED
      BY <1>9, <1>10, <1>11, <3>8, <3>9 DEF ClassInv
  <2>7. QED
    BY <1>4, <2>5, <2>6
<1>14. QED
  BY <1>12, <1>13

LEMMA ClassNext == ClassInv /\ [Cls!Next]_classVars => ClassInv'
<1> SUFFICES ASSUME ClassInv, [Cls!Next]_classVars
             PROVE  ClassInv'
  OBVIOUS
<1> DEFINE bthVars == << acl, prepare_write, write_offset, acl_data_length, passed, apart, split >>
<1>1. ASSUME UNCHANGED bthVars, DiskInv', ejected' \in BOOLEAN, unsynced' \in BOOLEAN,
             afterEject' \in BOOLEAN
      PROVE  ClassInv'
  <2>1. ClassTypes'
    BY <1>1 DEF ClassInv, ClassTypes
  <2>2. SplitInv' /\ StepInv' /\ PassedInv'
    BY <1>1 DEF ClassInv, SplitInv, StepInv, PassedInv, Cls!Kind, Cls!Total, Cls!Rest
  <2>3. QED
    BY <1>1, <2>1, <2>2 DEF ClassInv
<1>2. CASE Cls!tud_mount_cb \/ Cls!tud_msc_capacity_cb \/ Cls!tud_msc_read10_cb \/ Cls!tud_msc_write10_cb
  <2>1. UNCHANGED bthVars
    BY <1>2, Zenon DEF Cls!tud_mount_cb, Cls!tud_msc_capacity_cb, Cls!tud_msc_read10_cb,
                       Cls!tud_msc_write10_cb, Cls!bluetooth
  <2>2. DiskInv' /\ ejected' \in BOOLEAN /\ unsynced' \in BOOLEAN /\ afterEject' \in BOOLEAN
    <3>1. \/ ejected' = FALSE /\ afterEject' = FALSE /\ UNCHANGED unsynced
          \/ UNCHANGED << ejected, unsynced, afterEject >>
          \/ unsynced' = TRUE /\ afterEject' = (afterEject \/ ejected) /\ UNCHANGED ejected
      BY <1>2, Zenon DEF Cls!tud_mount_cb, Cls!tud_msc_capacity_cb, Cls!tud_msc_read10_cb,
                         Cls!tud_msc_write10_cb
    <3>2. CASE unsynced' = TRUE /\ afterEject' = (afterEject \/ ejected) /\ UNCHANGED ejected
      <4>1. afterEject' \in BOOLEAN /\ (ejected' => afterEject')
        BY <3>2, Zenon
      <4>2. QED
        BY <3>2, <4>1 DEF ClassInv, ClassTypes, DiskInv
    <3>3. CASE ejected' = FALSE /\ afterEject' = FALSE /\ UNCHANGED unsynced
      BY <3>3 DEF ClassInv, ClassTypes, DiskInv
    <3>4. CASE UNCHANGED << ejected, unsynced, afterEject >>
      BY <3>4 DEF ClassInv, ClassTypes, DiskInv
    <3>5. QED
      BY <3>1, <3>2, <3>3, <3>4
  <2>3. QED
    BY <1>1, <2>1, <2>2
<1>3. ASSUME NEW start \in BOOLEAN, NEW load_eject \in BOOLEAN, NEW synced \in BOOLEAN,
             Cls!tud_msc_start_stop_cb(start, load_eject, synced)
      PROVE  ClassInv'
  <2>1. UNCHANGED bthVars
    BY <1>3, Zenon DEF Cls!tud_msc_start_stop_cb, Cls!bluetooth
  <2>2. DiskInv' /\ ejected' \in BOOLEAN /\ unsynced' \in BOOLEAN /\ afterEject' \in BOOLEAN
    BY <1>3 DEF Cls!tud_msc_start_stop_cb, Cls!EjectSyncs, ClassInv, ClassTypes, DiskInv
  <2>3. QED
    BY <1>1, <2>1, <2>2
<1>4. CASE Cls!tusb_bth_init \/ Cls!host_rcv_pkt_test
  <2>1. UNCHANGED bthVars /\ UNCHANGED << ejected, unsynced, afterEject >>
    BY <1>4, Zenon DEF Cls!tusb_bth_init, Cls!host_rcv_pkt_test, Cls!disk
  <2>2. DiskInv' /\ ejected' \in BOOLEAN /\ unsynced' \in BOOLEAN /\ afterEject' \in BOOLEAN
    BY <2>1 DEF ClassInv, ClassTypes, DiskInv
  <2>3. QED
    BY <1>1, <2>1, <2>2
<1>5. ASSUME NEW n \in 0 .. MaxLength, Cls!HostPacket(n)
      PROVE  ClassInv'
  <2>1. /\ acl = Cls!NoPacket /\ acl' = [len |-> n, sent |-> 0]
        /\ split' = Cls!Longest(split, Cls!Kind(n))
        /\ UNCHANGED << ejected, unsynced, afterEject, prepare_write, write_offset, acl_data_length,
                        passed, apart >>
    BY <1>5, Zenon DEF Cls!HostPacket, Cls!disk
  <2>2. n \in Nat /\ acl.sent = 0 /\ acl'.sent = 0 /\ acl'.len = n /\ acl' \in Packets
    BY <2>1, UsbAssumption DEF Cls!NoPacket, Packets
  <2>3. /\ split' \in {"short", "long", "cut"}
        /\ split' # "cut" => split # "cut" /\ Cls!Kind(n) # "cut"
        /\ split' = "short" => split = "short" /\ Cls!Kind(n) = "short"
    BY <2>1, <2>2, LongestOf DEF ClassInv, ClassTypes
  <2>4. ClassTypes' /\ DiskInv'
    BY <2>1, <2>2, <2>3 DEF ClassInv, ClassTypes, DiskInv
  <2>5. SplitInv'
    BY <2>2, <2>3 DEF SplitInv, Cls!Kind
  <2>6. StepInv' /\ PassedInv'
    BY <2>1, <2>2, <2>3 DEF ClassInv, StepInv, PassedInv
  <2>7. QED
    BY <2>4, <2>5, <2>6 DEF ClassInv
<1>6. CASE UNCHANGED classVars
  <2>1. UNCHANGED bthVars /\ UNCHANGED << ejected, unsynced, afterEject >>
    BY <1>6, Zenon DEF classVars
  <2>2. DiskInv' /\ ejected' \in BOOLEAN /\ unsynced' \in BOOLEAN /\ afterEject' \in BOOLEAN
    BY <2>1 DEF ClassInv, ClassTypes, DiskInv
  <2>3. QED
    BY <1>1, <2>1, <2>2
<1>7. QED
  BY <1>2, <1>3, <1>4, <1>5, <1>6, PieceNext, Zenon DEF Cls!Next

\* The pieces of the packets stay in step, a short packet has its length, and what was written to a
\* disk that is ejected is written through: for any size of the pieces and any length of packets.
THEOREM UsbClassesSound == MCSpec => []Cls!ClassesSound
<1>1. MCInit => ClassInv
  BY ClassStarts DEF MCInit
<1>2. ClassInv /\ [MCNext]_<< part, usbdVars, dfuVars, vendorVars, netVars,
                              serialVars, classVars, uartVars >> => ClassInv'
  <2>1. [MCNext]_<< part, usbdVars, dfuVars, vendorVars, netVars,
                    serialVars, classVars, uartVars >> => [Cls!Next]_classVars
    BY DEF MCNext
  <2>2. QED
    BY <2>1, ClassNext
<1>3. ClassInv => Cls!ClassesSound
  <2> SUFFICES ASSUME ClassInv PROVE Cls!ClassesSound
    OBVIOUS
  <2>1. acl = Cls!NoPacket => acl.sent = 0
    BY DEF Cls!NoPacket
  <2>2. QED
    BY <2>1 DEF ClassInv, DiskInv, StepInv, PassedInv, Cls!ClassesSound
<1>4. QED
  BY <1>1, <1>2, <1>3, PTL DEF MCSpec

-----------------------------------------------------------------------------
(***************************************************************************)
(* ModemUart.  While nothing was left behind at the last change to command mode, the     *)
(* positions that are queued are those of line ends in the buffer, and each has one       *)
(* event, so whoever reads up to a position leaves whole lines behind: what the driver,    *)
(* the FIFO and the wire hold is one stream of lines, and after them data.            *)
(***************************************************************************)

Chars == {"a", "b", "u", "n", "p", "q"}
UartPC == {"idle", "write", "wait", "patternoff", "rxon", "rxoff", "flush", "patternon", "resetpattern"}
TakePC == {"idle", "pop", "pattern", "length", "mode", "ppp"}

UartTypes ==
    /\ fifo \in Seq(Chars) /\ out \in Seq(Chars)
    /\ modem \in [mode : {"command", "data"}, todo : {"none", "plain", "dial", "hangup"}]
    /\ modemSender \in [pc : UartPC, cmd : {"none", "plain", "dial", "hangup"}]
    /\ mode \in {"command", "ppp", "transition"}

\* Which interrupts are enabled, by the step of the sender.
SenderModes ==
    /\ modemSender.pc = "idle" => modemSender.cmd = "none" /\ mode \in {"command", "ppp"}
    /\ modemSender.pc \in {"write", "wait"} =>
          \/ modemSender.cmd = "plain" /\ mode = "command"
          \/ modemSender.cmd \in {"dial", "hangup"} /\ mode = "transition"
    /\ modemSender.pc \in {"patternoff", "rxon"} => modemSender.cmd = "dial" /\ mode = "ppp"
    /\ modemSender.pc \in {"rxoff", "flush", "patternon", "resetpattern"} =>
          modemSender.cmd = "hangup" /\ mode = "command"
    /\ patDet => mode # "ppp" \/ modemSender.pc = "patternoff"
    /\ rxIntr => \/ mode = "ppp" /\ modemSender.pc = "idle"
                 \/ modemSender.cmd = "hangup" /\ modemSender.pc \in {"write", "wait", "rxoff"}
    /\ modemSender.cmd = "hangup" /\ modemSender.pc \in {"write", "wait", "rxoff", "flush", "patternon"}
          => ~patDet

HitInv == patHit => \E i \in 1 .. Len(fifo) : Uart!EndsLine(fifo[i])

\* From a hang-up to the flush nobody can tell what the driver holds.
Leaving == modemSender.cmd = "hangup" /\ modemSender.pc \in {"write", "wait", "rxoff", "flush"}
Followed == ~stale /\ ~overflow /\ ~Leaving

DriverTypes ==
    /\ rxBuf \in Seq(Chars) /\ pats \in Seq(Nat) /\ event_queue \in Seq({"data", "pattern"})
    /\ uartTask \in [pc : TakePC, length : Nat]

\* Positions whose event waits in the queue, before those of data.
Announced == Len(pats) - (IF uartTask.pc = "pop" THEN 1 ELSE 0)
EventInv ==
    /\ \A i \in 1 .. Len(event_queue) : event_queue[i] = (IF i <= Announced THEN "pattern" ELSE "data")
    /\ Announced \in 0 .. Len(event_queue)
    /\ ~rxIntr => Announced = Len(event_queue)
    /\ uartTask.pc \in {"length", "mode", "ppp"} => pats = << >> /\ rxIntr

IsEnd(i) == Uart!EndsLine(rxBuf[i]) /\ (~mixed => rxBuf[i] = "n")
EndInv ==
    /\ \A i, j \in 1 .. Len(pats) : i < j => pats[i] < pats[j]
    /\ \A i \in 1 .. Len(pats) : pats[i] + 1 \in 1 .. Len(rxBuf) /\ IsEnd(pats[i] + 1)
    /\ uartTask.pc = "pattern" =>
          /\ uartTask.length \in 1 .. Len(rxBuf) /\ IsEnd(uartTask.length)
          /\ \A i \in 1 .. Len(pats) : uartTask.length <= pats[i]
    /\ uartTask.pc = "idle" => uartTask = Uart!Idle

Stream == (rxBuf \o fifo) \o out
NoData(s) == \A i \in 1 .. Len(s) : s[i] \notin {"p", "q"}
WholeLines(s) ==
    \A i \in 1 .. Len(s) :
        /\ s[i] = "a" => i < Len(s) /\ s[i + 1] = "b"
        /\ s[i] = "b" => i > 1 /\ s[i - 1] = "a"
        /\ s[i] \in {"p", "q"} => \A j \in i .. Len(s) : s[j] \in {"p", "q"}
LineInv ==
    /\ WholeLines(Stream) \/ (rxIntr /\ pats = << >> /\ uartTask.pc \notin {"pop", "pattern"})
    /\ modem.mode = "command" => NoData(Stream)
    /\ mode = "command" => modem.mode = "command" /\ modem.todo \in {"none", "plain"}
    /\ modem.todo # "hangup"

FollowInv == DriverTypes /\ EventInv /\ EndInv /\ LineInv
UartInv ==
    /\ UartTypes /\ SenderModes /\ HitInv
    /\ Followed => FollowInv
    /\ Uart!LinesAreWhole

-----------------------------------------------------------------------------
LEMMA UartStarts == Uart!Init => UartInv
<1> SUFFICES ASSUME Uart!Init PROVE UartInv
  OBVIOUS
<1>1. /\ mode = "command" /\ modemSender = [pc |-> "idle", cmd |-> "none"]
      /\ modem = [mode |-> "command", todo |-> "none"] /\ out = << >>
      /\ fifo = << >> /\ patHit = FALSE /\ rxIntr = FALSE
      /\ rxBuf = << >> /\ pats = << >> /\ event_queue = << >>
      /\ uartTask = [pc |-> "idle", length |-> 0]
      /\ wrong = {}
  BY Zenon DEF Uart!Init, Uart!NoCmd, Uart!Idle
<1>2. UartTypes /\ DriverTypes
  BY <1>1 DEF UartTypes, DriverTypes, UartPC, TakePC
<1>3. SenderModes /\ HitInv
  BY <1>1 DEF SenderModes, HitInv
<1>4. EventInv
  BY <1>1 DEF EventInv, Announced
<1>5. EndInv
  BY <1>1 DEF EndInv, Uart!Idle
<1>6. LineInv
  BY <1>1 DEF LineInv, NoData, WholeLines, Stream
<1>7. Uart!LinesAreWhole
  BY <1>1 DEF Uart!LinesAreWhole
<1>8. QED
  BY <1>2, <1>3, <1>4, <1>5, <1>6, <1>7 DEF UartInv, FollowInv

\* What a step of the sender leaves alone, and what the others leave of it.
LEMMA UartTypesNext == UartTypes /\ [Uart!Next]_uartVars => UartTypes'
<1> SUFFICES ASSUME UartTypes, [Uart!Next]_uartVars PROVE UartTypes'
  OBVIOUS
<1> DEFINE same == UNCHANGED << fifo, out, modem, modemSender, mode >>
<1>0. CASE same
  BY <1>0 DEF UartTypes
<1>1. CASE Uart!Answers
  <2>1. /\ out' = out \o << "a", "b", "n" >> \/ out' = out
        /\ \/ modem' = [modem EXCEPT !.todo = "none"]
           \/ modem' = [todo |-> "none",
                        mode |-> CASE modem.todo = "dial" -> "data"
                                   [] modem.todo = "hangup" -> "command"
                                   [] OTHER -> modem.mode]
        /\ UNCHANGED << fifo, modemSender, mode >>
    BY <1>1, Zenon DEF Uart!Answers, Uart!AnswerLine, Uart!driver
  <2>2. out' \in Seq(Chars)
    <3>1. out \in Seq(Chars) /\ << "a", "b", "n" >> \in Seq(Chars)
      BY DEF UartTypes, Chars
    <3>2. out \o << "a", "b", "n" >> \in Seq(Chars)
      BY <3>1, ConcatProperties
    <3>3. QED
      BY <2>1, <3>1, <3>2, Zenon
  <2>3. modem' \in [mode : {"command", "data"}, todo : {"none", "plain", "dial", "hangup"}]
    BY <2>1 DEF UartTypes
  <2>4. QED
    BY <2>1, <2>2, <2>3 DEF UartTypes
<1>2. CASE Uart!Unasked
  BY <1>2 DEF Uart!Unasked, UartTypes, Chars, Uart!driver
<1>3. ASSUME NEW c \in {"p", "q"}, Uart!Data(c) PROVE UartTypes'
  BY <1>3 DEF Uart!Data, UartTypes, Chars, Uart!driver
<1>4. CASE Uart!Arrives
  <2>1. /\ out # << >> /\ out' = Tail(out)
        /\ fifo' = Append(fifo, Head(out)) \/ fifo' = << >>
        /\ UNCHANGED << modem, modemSender, mode >>
    BY <1>4, Zenon DEF Uart!Arrives
  <2>2. Head(out) \in Chars /\ Tail(out) \in Seq(Chars) /\ fifo \in Seq(Chars)
    BY <2>1 DEF UartTypes
  <2>3. fifo' \in Seq(Chars)
    <3>1. Append(fifo, Head(out)) \in Seq(Chars) /\ << >> \in Seq(Chars)
      BY <2>2, AppendProperties, EmptySeq
    <3>2. QED
      BY <2>1, <3>1, Zenon
  <2>4. QED
    BY <2>1, <2>2, <2>3 DEF UartTypes
<1>5. ASSUME fifo' = << >>, UNCHANGED << out, modem, modemSender, mode >> PROVE UartTypes'
  BY <1>5 DEF UartTypes
<1>6. CASE Uart!PatternInterrupt \/ Uart!RxInterrupt \/ Uart!OverflowFlush \/ Uart!Discard
  BY <1>5, <1>6, Zenon DEF Uart!PatternInterrupt, Uart!RxInterrupt, Uart!Received,
                          Uart!OverflowFlush, Uart!Discard, Uart!Flushed
<1>7. CASE Uart!TakeEvent \/ Uart!OverflowReset \/ Uart!DataLength \/ Uart!DataMode
           \/ Uart!DataToNetwork \/ Uart!DataAsLine \/ Uart!PopPosition \/ Uart!PatternLine
  <2>1. same
    BY <1>7, Zenon DEF Uart!TakeEvent, Uart!OverflowReset, Uart!DataLength, Uart!DataMode,
                Uart!DataToNetwork, Uart!DataAsLine, Uart!PopPosition, Uart!PatternLine, Uart!driver
  <2>2. QED
    BY <2>1, <1>0
<1>8. ASSUME NEW cmd \in {"plain", "dial", "hangup"}, Uart!Begin(cmd) PROVE UartTypes'
  BY <1>8 DEF Uart!Begin, UartTypes, UartPC, Uart!driver
<1>9. CASE Uart!Write
  BY <1>9 DEF Uart!Write, UartTypes, UartPC, Uart!driver
<1>10. CASE Uart!Completes
  BY <1>10 DEF Uart!Completes, UartTypes, UartPC, Uart!driver, Uart!AfterAnswer, Uart!NoCmd
<1>11. CASE Uart!TimesOut
  BY <1>11 DEF Uart!TimesOut, UartTypes, UartPC, Uart!driver, Uart!NoCmd
<1>12. ASSUME NEW p \in UartPC, NEW q \in UartPC, Uart!Sender(p, q), fifo' = fifo \/ fifo' = << >>
       PROVE UartTypes'
  <2>1. /\ modemSender' = (IF q = "idle" THEN [pc |-> "idle", cmd |-> "none"]
                           ELSE [modemSender EXCEPT !.pc = q])
        /\ UNCHANGED << out, modem, mode >>
    BY <1>12, Zenon DEF Uart!Sender, Uart!NoCmd
  <2>2. modemSender' \in [pc : UartPC, cmd : {"none", "plain", "dial", "hangup"}]
    BY <2>1 DEF UartTypes, UartPC
  <2>3. fifo' \in Seq(Chars)
    <3>1. fifo \in Seq(Chars) /\ << >> \in Seq(Chars)
      BY DEF UartTypes
    <3>2. QED
      BY <1>12, <3>1, Zenon
  <2>4. QED
    BY <2>1, <2>2, <2>3 DEF UartTypes
<1>13. CASE Uart!PatternOff \/ Uart!RxOn \/ Uart!RxOff \/ Uart!Flush \/ Uart!PatternOn \/ Uart!ResetPattern
  <2>1. /\ fifo' = fifo \/ fifo' = << >>
        /\ \E p \in UartPC, q \in UartPC : Uart!Sender(p, q)
    BY <1>13, Zenon DEF Uart!PatternOff, Uart!RxOn, Uart!RxOff, Uart!Flush, Uart!PatternOn, Uart!ResetPattern,
                 Uart!Flushed, UartPC
  <2>2. QED
    BY <2>1, <1>12, Zenon
<1>14. CASE UNCHANGED uartVars
  <2>1. same
    BY <1>14, Zenon DEF uartVars
  <2>2. QED
    BY <2>1, <1>0
<1>15. QED
  BY <1>1, <1>2, <1>3, <1>4, <1>6, <1>7, <1>8, <1>9, <1>10, <1>11, <1>13, <1>14, Zenon DEF Uart!Next

LEMMA SenderModesNext == UartTypes /\ SenderModes /\ [Uart!Next]_uartVars => SenderModes'
<1> SUFFICES ASSUME UartTypes, SenderModes, [Uart!Next]_uartVars PROVE SenderModes'
  OBVIOUS
<1> DEFINE same == UNCHANGED << modemSender, mode, patDet, rxIntr >>
<1>0. CASE same
  BY <1>0 DEF SenderModes
<1>1. CASE \/ Uart!Answers \/ Uart!Unasked \/ \E c \in {"p", "q"} : Uart!Data(c)
           \/ Uart!Arrives \/ Uart!PatternInterrupt \/ Uart!RxInterrupt
           \/ Uart!TakeEvent \/ Uart!OverflowFlush \/ Uart!OverflowReset
           \/ Uart!DataLength \/ Uart!DataMode \/ Uart!DataToNetwork \/ Uart!DataAsLine
           \/ Uart!PopPosition \/ Uart!PatternLine \/ Uart!Discard \/ UNCHANGED uartVars
  <2>1. same
    BY <1>1, Zenon DEF Uart!Answers, Uart!Unasked, Uart!Data, Uart!Arrives, Uart!PatternInterrupt,
                Uart!RxInterrupt, Uart!Received, Uart!TakeEvent, Uart!OverflowFlush, Uart!OverflowReset,
                Uart!DataLength, Uart!DataMode, Uart!DataToNetwork, Uart!DataAsLine, Uart!PopPosition,
                Uart!PatternLine, Uart!Discard, Uart!driver, uartVars
  <2>2. QED
    BY <2>1, <1>0
<1>2. ASSUME NEW cmd \in {"plain", "dial", "hangup"}, Uart!Begin(cmd) PROVE SenderModes'
  <2>1. /\ modemSender = [pc |-> "idle", cmd |-> "none"]
        /\ modemSender' = [pc |-> "write", cmd |-> cmd]
        /\ \/ cmd = "dial" /\ mode = "command" /\ mode' = "transition"
           \/ cmd = "hangup" /\ mode = "ppp" /\ mode' = "transition"
           \/ cmd = "plain" /\ mode = "command" /\ mode' = "command"
        /\ patDet' = patDet /\ rxIntr' = rxIntr
    BY <1>2, Zenon DEF Uart!Begin, Uart!NoCmd, Uart!driver
  <2>2. QED
    BY <2>1 DEF SenderModes
<1>3. CASE Uart!Write
  <2>1. /\ modemSender.pc = "write" /\ modemSender' = [modemSender EXCEPT !.pc = "wait"]
        /\ UNCHANGED << mode, patDet, rxIntr >>
    BY <1>3, Zenon DEF Uart!Write, Uart!driver
  <2>2. QED
    BY <2>1 DEF SenderModes, UartTypes
<1>4. CASE Uart!Completes
  <2>1. /\ modemSender.pc = "wait"
        /\ mode' = CASE modemSender.cmd = "dial" -> "ppp" [] OTHER -> "command"
        /\ modemSender' = IF Uart!AfterAnswer(modemSender.cmd) = "idle" THEN Uart!NoCmd
                          ELSE [modemSender EXCEPT !.pc = Uart!AfterAnswer(modemSender.cmd)]
        /\ UNCHANGED << patDet, rxIntr >>
    BY <1>4, Zenon DEF Uart!Completes, Uart!driver
  <2>2. QED
    BY <2>1 DEF SenderModes, UartTypes, Uart!AfterAnswer, Uart!NoCmd
<1>5. CASE Uart!TimesOut
  <2>1. /\ modemSender.pc = "wait" /\ modemSender' = Uart!NoCmd
        /\ mode' = IF modemSender.cmd = "hangup" THEN "ppp" ELSE "command"
        /\ UNCHANGED << patDet, rxIntr >>
    BY <1>5, Zenon DEF Uart!TimesOut, Uart!driver
  <2>2. QED
    BY <2>1 DEF SenderModes, UartTypes, Uart!NoCmd
<1>6. CASE Uart!PatternOff
  BY <1>6 DEF Uart!PatternOff, Uart!Sender, SenderModes, UartTypes
<1>7. CASE Uart!RxOn
  BY <1>7 DEF Uart!RxOn, Uart!Sender, SenderModes, UartTypes, Uart!NoCmd
<1>8. CASE Uart!RxOff
  BY <1>8 DEF Uart!RxOff, Uart!Sender, SenderModes, UartTypes
<1>9. CASE Uart!Flush
  BY <1>9 DEF Uart!Flush, Uart!Sender, SenderModes, UartTypes
<1>10. CASE Uart!PatternOn
  BY <1>10 DEF Uart!PatternOn, Uart!Sender, SenderModes, UartTypes
<1>11. CASE Uart!ResetPattern
  BY <1>11 DEF Uart!ResetPattern, Uart!Sender, SenderModes, UartTypes, Uart!NoCmd
<1>12. QED
  BY <1>1, <1>2, <1>3, <1>4, <1>5, <1>6, <1>7, <1>8, <1>9, <1>10, <1>11, Zenon DEF Uart!Next

LEMMA HitNext == UartTypes /\ HitInv /\ [Uart!Next]_uartVars => HitInv'
<1> SUFFICES ASSUME UartTypes, HitInv, [Uart!Next]_uartVars PROVE HitInv'
  OBVIOUS
<1>1. CASE patHit' = FALSE
  BY <1>1 DEF HitInv
<1>2. CASE UNCHANGED << patHit, fifo >>
  BY <1>2 DEF HitInv, Uart!EndsLine
<1>3. CASE Uart!Arrives /\ patHit'
  <2>1. /\ out # << >> /\ fifo' = Append(fifo, Head(out))
        /\ patHit \/ Uart!EndsLine(Head(out))
    BY <1>3, Zenon DEF Uart!Arrives
  <2>2. /\ fifo \in Seq(Chars) /\ Head(out) \in Chars /\ Len(fifo) \in Nat
    BY <2>1 DEF UartTypes
  <2>3. /\ Len(fifo') = Len(fifo) + 1 /\ fifo'[Len(fifo) + 1] = Head(out)
        /\ \A i \in 1 .. Len(fifo) : fifo'[i] = fifo[i]
    BY <2>1, <2>2, AppendProperties
  <2>4. CASE patHit
    <3>1. PICK i \in 1 .. Len(fifo) : Uart!EndsLine(fifo[i])
      BY <2>4 DEF HitInv
    <3>2. QED
      BY <2>2, <2>3, <3>1 DEF HitInv, Uart!EndsLine
  <2>5. CASE Uart!EndsLine(Head(out))
    BY <2>2, <2>3, <2>5 DEF HitInv, Uart!EndsLine
  <2>6. QED
    BY <2>1, <2>4, <2>5
<1>4. \/ patHit' = FALSE \/ ~patHit' \/ (UNCHANGED << patHit, fifo >>) \/ Uart!Arrives
  BY Zenon DEF Uart!Next, Uart!Answers, Uart!Unasked, Uart!Data, Uart!PatternInterrupt,
     Uart!RxInterrupt, Uart!Received, Uart!TakeEvent, Uart!OverflowFlush, Uart!OverflowReset,
     Uart!DataLength, Uart!DataMode, Uart!DataToNetwork, Uart!DataAsLine, Uart!PopPosition,
     Uart!PatternLine, Uart!Discard, Uart!Flushed, Uart!driver, uartVars, Uart!Begin, Uart!Write,
     Uart!Completes, Uart!TimesOut, Uart!PatternOff, Uart!RxOn, Uart!RxOff, Uart!Flush, Uart!PatternOn,
     Uart!ResetPattern
<1>5. ~patHit' => HitInv'
  BY DEF HitInv
<1>6. QED
  BY <1>1, <1>2, <1>3, <1>4, <1>5, Zenon

-----------------------------------------------------------------------------
\* The stream: what comes from the wire, moves up and is read.
LEMMA MovesUp ==
    ASSUME NEW r \in Seq(Chars), NEW f \in Seq(Chars), NEW o \in Seq(Chars)
    PROVE  ((r \o f) \o << >>) \o o = (r \o f) \o o
<1>1. r \o f \in Seq(Chars)
  OBVIOUS
<1>2. (r \o f) \o << >> = r \o f
  BY <1>1, ConcatEmptySeq
<1>3. QED
  BY <1>2

LEMMA Regroup ==
    ASSUME NEW s \in Seq(Chars), NEW o \in Seq(Chars), NEW t \in Seq(Chars)
    PROVE  s \o (o \o t) = (s \o o) \o t
  BY ConcatAssociative

LEMMA MovesIn ==
    ASSUME NEW r \in Seq(Chars), NEW f \in Seq(Chars), NEW o \in Seq(Chars), o # << >>
    PROVE  (r \o Append(f, Head(o))) \o Tail(o) = (r \o f) \o o
<1> DEFINE h == Head(o)
<1>1. h \in Chars /\ Tail(o) \in Seq(Chars) /\ r \o f \in Seq(Chars) /\ << h >> \in Seq(Chars)
  OBVIOUS
<1>2. Append(f, h) = f \o << h >>
  BY <1>1, AppendIsConcat
<1>3. r \o Append(f, h) = (r \o f) \o << h >>
  BY <1>1, <1>2, ConcatAssociative
<1>4. << h >> \o Tail(o) = o
  <2>1. << h >> \o Tail(o) \in Seq(Chars) /\ Len(<< h >> \o Tail(o)) = Len(o)
    BY <1>1
  <2>2. \A i \in 1 .. Len(o) : (<< h >> \o Tail(o))[i] = o[i]
    BY <1>1
  <2>3. QED
    BY <2>1, <2>2, SeqEqual
<1>5. ((r \o f) \o << h >>) \o Tail(o) = (r \o f) \o (<< h >> \o Tail(o))
  BY <1>1, Regroup
<1>6. QED
  BY <1>3, <1>4, <1>5

LEMMA TwoParts ==
    ASSUME NEW r \in Seq(Chars), NEW f \in Seq(Chars)
    PROVE  /\ r \o f \in Seq(Chars) /\ Len(r \o f) = Len(r) + Len(f)
           /\ Len(r) \in Nat /\ Len(f) \in Nat
           /\ \A i \in 1 .. Len(r \o f) :
                 (r \o f)[i] = (IF i <= Len(r) THEN r[i] ELSE f[i - Len(r)])
  OBVIOUS

LEMMA ThreeParts ==
    ASSUME NEW r \in Seq(Chars), NEW f \in Seq(Chars), NEW o \in Seq(Chars)
    PROVE  /\ (r \o f) \o o \in Seq(Chars)
           /\ Len((r \o f) \o o) = Len(r) + Len(f) + Len(o)
           /\ Len(r) \in Nat /\ Len(f) \in Nat /\ Len(o) \in Nat
           /\ \A i \in 1 .. Len((r \o f) \o o) :
                 ((r \o f) \o o)[i] = (IF i <= Len(r) THEN r[i]
                                     ELSE IF i <= Len(r) + Len(f) THEN f[i - Len(r)]
                                     ELSE o[i - Len(r) - Len(f)])
<1> DEFINE t == r \o f
<1>1. /\ t \in Seq(Chars) /\ Len(t) = Len(r) + Len(f) /\ Len(r) \in Nat /\ Len(f) \in Nat
      /\ \A i \in 1 .. Len(t) : t[i] = (IF i <= Len(r) THEN r[i] ELSE f[i - Len(r)])
  BY TwoParts
<1> HIDE DEF t
<1>2. /\ t \o o \in Seq(Chars) /\ Len(t \o o) = Len(t) + Len(o) /\ Len(o) \in Nat
      /\ \A i \in 1 .. Len(t \o o) : (t \o o)[i] = (IF i <= Len(t) THEN t[i] ELSE o[i - Len(t)])
  BY <1>1, TwoParts
<1>3. ASSUME NEW i \in 1 .. Len(t \o o)
      PROVE  (t \o o)[i] = (IF i <= Len(r) THEN r[i]
                            ELSE IF i <= Len(r) + Len(f) THEN f[i - Len(r)]
                            ELSE o[i - Len(r) - Len(f)])
  <2>1. i \in Nat /\ i - Len(t) = i - Len(r) - Len(f)
    BY <1>1, <1>2
  <2>2. CASE i <= Len(t)
    BY <1>1, <1>2, <2>1, <2>2
  <2>3. CASE i > Len(t)
    <3>1. (t \o o)[i] = o[i - Len(t)] /\ ~(i <= Len(r)) /\ ~(i <= Len(r) + Len(f))
      BY <1>1, <1>2, <2>1, <2>3
    <3>2. QED
      BY <2>1, <3>1, Zenon
  <2>4. QED
    BY <1>1, <2>1, <2>2, <2>3
<1>4. QED
  BY <1>1, <1>2, <1>3 DEF t

LEMMA RestOf ==
    ASSUME NEW q \in Seq(Chars), NEW n \in 0 .. Len(q)
    PROVE  /\ SubSeq(q, n + 1, Len(q)) \in Seq(Chars)
           /\ Len(SubSeq(q, n + 1, Len(q))) = Len(q) - n
           /\ \A i \in 1 .. Len(q) - n : SubSeq(q, n + 1, Len(q))[i] = q[n + i]
  OBVIOUS

\* A read of n from the first of three parts leaves the rest of all three.
LeavesRest(r, f, o, n) ==
    (SubSeq(r, n + 1, Len(r)) \o f) \o o = SubSeq((r \o f) \o o, n + 1, Len((r \o f) \o o))

LEMMA RestOfStream ==
    ASSUME NEW r \in Seq(Chars), NEW f \in Seq(Chars), NEW o \in Seq(Chars), NEW n \in 0 .. Len(r)
    PROVE  LeavesRest(r, f, o, n)
<1> DEFINE s == (r \o f) \o o
           u == SubSeq(r, n + 1, Len(r))
           left == (u \o f) \o o
           right == SubSeq(s, n + 1, Len(s))
<1>1. /\ s \in Seq(Chars) /\ Len(s) = Len(r) + Len(f) + Len(o)
      /\ Len(r) \in Nat /\ Len(f) \in Nat /\ Len(o) \in Nat
      /\ \A i \in 1 .. Len(s) : s[i] = (IF i <= Len(r) THEN r[i]
                                        ELSE IF i <= Len(r) + Len(f) THEN f[i - Len(r)]
                                        ELSE o[i - Len(r) - Len(f)])
  BY ThreeParts
<1>2. /\ u \in Seq(Chars) /\ Len(u) = Len(r) - n
      /\ \A i \in 1 .. Len(r) - n : u[i] = r[n + i]
  BY RestOf, Zenon
<1> HIDE DEF s, u
<1>3. /\ left \in Seq(Chars) /\ Len(left) = Len(s) - n
      /\ \A i \in 1 .. Len(left) : left[i] = (IF i <= Len(r) - n THEN u[i]
                                        ELSE IF i <= Len(r) - n + Len(f) THEN f[i - (Len(r) - n)]
                                        ELSE o[i - (Len(r) - n) - Len(f)])
  <2>1. /\ left \in Seq(Chars)
        /\ Len(left) = Len(u) + Len(f) + Len(o)
        /\ \A i \in 1 .. Len(left) : left[i] = (IF i <= Len(u) THEN u[i]
                                        ELSE IF i <= Len(u) + Len(f) THEN f[i - Len(u)]
                                        ELSE o[i - Len(u) - Len(f)])
    BY <1>2, ThreeParts, Zenon
  <2> HIDE DEF left
  <2>2. QED
    BY <1>1, <1>2, <2>1
<1>4. /\ right \in Seq(Chars) /\ Len(right) = Len(s) - n
      /\ \A i \in 1 .. Len(s) - n : right[i] = s[n + i]
  <2>1. n \in 0 .. Len(s)
    BY <1>1
  <2>2. QED
    BY <1>1, <2>1, RestOf, Zenon
<1> HIDE DEF left, right
<1>5. ASSUME NEW i \in 1 .. Len(left)
      PROVE  left[i] = right[i]
  <2>1. right[i] = s[n + i] /\ n + i \in 1 .. Len(s) /\ i \in Nat /\ n \in Nat
    BY <1>1, <1>3, <1>4
  <2>2. CASE i <= Len(r) - n
    BY <1>1, <1>2, <1>3, <2>1, <2>2
  <2>3. CASE i > Len(r) - n
    <3>1. /\ n + i - Len(r) = i - (Len(r) - n)
          /\ n + i - Len(r) - Len(f) = i - (Len(r) - n) - Len(f)
          /\ n + i <= Len(r) + Len(f) <=> i <= Len(r) - n + Len(f)
          /\ ~(n + i <= Len(r)) /\ ~(i <= Len(r) - n)
      BY <1>1, <2>1, <2>3, SMTT(60)
    <3>2. s[n + i] = (IF n + i <= Len(r) + Len(f) THEN f[n + i - Len(r)] ELSE o[n + i - Len(r) - Len(f)])
      <4>1. s[n + i] = (IF n + i <= Len(r) THEN r[n + i]
                        ELSE IF n + i <= Len(r) + Len(f) THEN f[n + i - Len(r)]
                        ELSE o[n + i - Len(r) - Len(f)])
        BY <1>1, <2>1, SMTT(60)
      <4>2. QED
        BY <3>1, <4>1, Zenon
    <3>3. left[i] = (IF i <= Len(r) - n + Len(f) THEN f[i - (Len(r) - n)]
                     ELSE o[i - (Len(r) - n) - Len(f)])
      BY <1>3, <3>1, Zenon
    <3>4. QED
      BY <2>1, <3>1, <3>2, <3>3, Zenon
  <2>4. QED
    BY <1>1, <2>1, <2>2, <2>3
<1>6. left = right
  BY <1>3, <1>4, <1>5, SeqEqual
<1>7. QED
  BY <1>6, Zenon DEF LeavesRest, left, right, s, u

\* What is in the buffer is the beginning of it.
LEMMA StreamBegins ==
    ASSUME UartTypes, DriverTypes
    PROVE  /\ Stream \in Seq(Chars) /\ Len(Stream) \in Nat /\ Len(rxBuf) \in Nat
           /\ Len(rxBuf) <= Len(Stream)
           /\ \A i \in 1 .. Len(rxBuf) : Stream[i] = rxBuf[i]
  BY DEF Stream, UartTypes, DriverTypes

LEMMA LinesGoOn ==
    ASSUME NEW s \in Seq(Chars), NoData(s), NEW t \in {<< "a", "b", "n" >>, << "u", "n" >>}
    PROVE  NoData(s \o t) /\ (WholeLines(s) => WholeLines(s \o t))
<1> DEFINE u == s \o t
<1>1. /\ Len(s) \in Nat /\ Len(u) = Len(s) + Len(t) /\ Len(t) \in {2, 3}
      /\ \A i \in 1 .. Len(s) : u[i] = s[i]
      /\ \A i \in 1 .. Len(t) : u[Len(s) + i] = t[i]
  <2>1. t \in Seq(Chars) /\ Len(t) \in {2, 3}
    <3>1. CASE t = << "a", "b", "n" >>
      BY <3>1 DEF Chars
    <3>2. CASE t = << "u", "n" >>
      BY <3>2 DEF Chars
    <3>3. QED
      BY <3>1, <3>2
  <2>2. QED
    BY <2>1
<1>2. \/ Len(t) = 3 /\ t[1] = "a" /\ t[2] = "b" /\ t[3] = "n"
      \/ Len(t) = 2 /\ t[1] = "u" /\ t[2] = "n"
  OBVIOUS
<1> HIDE DEF u
<1>3. \/ Len(u) = Len(s) + 3 /\ u[Len(s) + 1] = "a" /\ u[Len(s) + 2] = "b" /\ u[Len(s) + 3] = "n"
      \/ Len(u) = Len(s) + 2 /\ u[Len(s) + 1] = "u" /\ u[Len(s) + 2] = "n"
  BY <1>1, <1>2
<1>4. NoData(u)
  BY <1>1, <1>3, SMTT(60) DEF NoData
<1>5. ASSUME WholeLines(s) PROVE WholeLines(u)
  <2> SUFFICES ASSUME NEW i \in 1 .. Len(u)
               PROVE  /\ u[i] = "a" => i < Len(u) /\ u[i + 1] = "b"
                      /\ u[i] = "b" => i > 1 /\ u[i - 1] = "a"
                      /\ u[i] \in {"p", "q"} => \A j \in i .. Len(u) : u[j] \in {"p", "q"}
    BY DEF WholeLines
  <2>1. u[i] \notin {"p", "q"}
    BY <1>4 DEF NoData
  <2>2. CASE i <= Len(s)
    <3>1. /\ s[i] = "a" => i < Len(s) /\ s[i + 1] = "b"
          /\ s[i] = "b" => i > 1 /\ s[i - 1] = "a"
      BY <1>1, <1>5, <2>2 DEF WholeLines
    <3>2. QED
      BY <1>1, <2>1, <2>2, <3>1
  <2>3. CASE i > Len(s)
    BY <1>1, <1>3, <2>1, <2>3
  <2>4. QED
    BY <1>1, <2>2, <2>3
<1>6. QED
  BY <1>4, <1>5 DEF u

LEMMA DataComes ==
    ASSUME NEW s \in Seq(Chars), WholeLines(s), NEW c \in {"p", "q"}
    PROVE  WholeLines(s \o << c >>)
<1> DEFINE u == s \o << c >>
<1>1. /\ Len(s) \in Nat /\ Len(u) = Len(s) + 1 /\ u[Len(s) + 1] = c
      /\ \A i \in 1 .. Len(s) : u[i] = s[i]
  BY DEF Chars
<1> HIDE DEF u
<1>2. ASSUME NEW i \in 1 .. Len(u)
      PROVE  /\ u[i] = "a" => i < Len(u) /\ u[i + 1] = "b"
             /\ u[i] = "b" => i > 1 /\ u[i - 1] = "a"
             /\ u[i] \in {"p", "q"} => \A j \in i .. Len(u) : u[j] \in {"p", "q"}
  <2>1. CASE i <= Len(s)
    <3>1. /\ s[i] = "a" => i < Len(s) /\ s[i + 1] = "b"
          /\ s[i] = "b" => i > 1 /\ s[i - 1] = "a"
          /\ s[i] \in {"p", "q"} => \A j \in i .. Len(s) : s[j] \in {"p", "q"}
      BY <1>1, <2>1 DEF WholeLines
    <3>2. ASSUME u[i] \in {"p", "q"}, NEW j \in i .. Len(u) PROVE u[j] \in {"p", "q"}
      <4>1. CASE j = Len(s) + 1
        BY <1>1, <4>1
      <4>2. CASE j # Len(s) + 1
        BY <1>1, <2>1, <3>1, <3>2, <4>2
      <4>3. QED
        BY <4>1, <4>2
    <3>3. QED
      BY <1>1, <2>1, <3>1, <3>2
  <2>2. CASE i > Len(s)
    <3>1. i = Len(s) + 1
      BY <1>1, <2>2
    <3>2. QED
      BY <1>1, <3>1
  <2>3. QED
    BY <1>1, <2>1, <2>2
<1>3. QED
  BY <1>2 DEF WholeLines, u

\* Whole lines are left when whole lines are read.
LEMMA LinesLeft ==
    ASSUME NEW s \in Seq(Chars), NEW n \in 1 .. Len(s), WholeLines(s), s[n] \in {"n", "q"}
    PROVE  WholeLines(SubSeq(s, n + 1, Len(s)))
<1> DEFINE u == SubSeq(s, n + 1, Len(s))
<1>1. /\ Len(s) \in Nat /\ Len(u) = Len(s) - n
      /\ \A i \in 1 .. Len(s) - n : u[i] = s[n + i]
  OBVIOUS
<1> HIDE DEF u
<1>2. ASSUME NEW i \in 1 .. Len(u)
      PROVE  /\ u[i] = "a" => i < Len(u) /\ u[i + 1] = "b"
             /\ u[i] = "b" => i > 1 /\ u[i - 1] = "a"
             /\ u[i] \in {"p", "q"} => \A j \in i .. Len(u) : u[j] \in {"p", "q"}
  <2>1. /\ i \in Nat /\ i <= Len(s) - n /\ u[i] = s[n + i] /\ n + i \in 1 .. Len(s) /\ n \in Nat
    BY <1>1
  <2>2. /\ s[n + i] = "a" => n + i < Len(s) /\ s[n + i + 1] = "b"
        /\ s[n + i] = "b" => s[n + i - 1] = "a"
        /\ s[n + i] \in {"p", "q"} => \A j \in n + i .. Len(s) : s[j] \in {"p", "q"}
    BY <2>1 DEF WholeLines
  <2>3. u[i] = "a" => i < Len(u) /\ u[i + 1] = "b"
    BY <1>1, <2>1, <2>2
  <2>4. u[i] = "b" => i > 1 /\ u[i - 1] = "a"
    <3>1. i = 1 => s[n + i - 1] = s[n]
      BY <2>1
    <3>2. i > 1 => u[i - 1] = s[n + i - 1]
      <4>1. i > 1 => i - 1 \in 1 .. Len(s) - n /\ n + (i - 1) = n + i - 1
        BY <2>1
      <4>2. QED
        BY <1>1, <4>1
    <3>3. QED
      BY <2>1, <2>2, <3>1, <3>2
  <2>5. ASSUME u[i] \in {"p", "q"}, NEW j \in i .. Len(u) PROVE u[j] \in {"p", "q"}
    BY <1>1, <2>1, <2>2, <2>5
  <2>6. QED
    BY <2>3, <2>4, <2>5
<1>3. QED
  BY <1>2 DEF WholeLines, u

LEMMA NoDataLeft ==
    ASSUME NEW s \in Seq(Chars), NEW n \in 0 .. Len(s), NoData(s)
    PROVE  NoData(SubSeq(s, n + 1, Len(s)))
  BY DEF NoData

\* A set of numbers has a smallest one.
LEMMA Smallest == ASSUME NEW S \in SUBSET Nat, S # {} PROVE \E n \in S : \A m \in S : n <= m
<1> DEFINE Upto(n) == { k \in S : k <= n }
           T == { Upto(n) : n \in S }
<1>1. T \subseteq FiniteSubsetsOf(Nat) /\ T # {}
  <2>1. ASSUME NEW n \in S
        PROVE  IsFiniteSet(Upto(n)) /\ Upto(n) \subseteq Nat
    <3>1. n \in Nat /\ Upto(n) \in SUBSET Nat /\ \A s \in Upto(n) : s <= n
      OBVIOUS
    <3>. HIDE DEF Upto
    <3>2. QED
      BY <3>1, FS_BoundedSetOfNaturals
  <2>2. QED
    BY <2>1 DEF FiniteSubsetsOf
<1>2. PICK x \in T : \A y \in T : ~ (<< y, x >> \in StrictSubsetOrdering(Nat))
  <2>. HIDE DEF T
  <2>1. QED
    BY <1>1, FS_StrictSubsetOrderingWellFounded, WFMin, Zenon
<1>3. PICK n \in S : x = Upto(n)
  OBVIOUS
<1>4. ASSUME NEW m \in S, m < n
      PROVE  FALSE
  <2>0. m \in Nat /\ n \in Nat
    OBVIOUS
  <2>7. Upto(m) \in T
    BY Zenon
  <2>8. ASSUME NEW k \in S, k <= m
        PROVE  k <= n
    BY <1>4, <2>0, <2>8
  <2>1. Upto(m) \subseteq Upto(n) /\ n \in Upto(n) /\ n \notin Upto(m)
    <3>1. n <= n /\ ~ (n <= m)
      BY <1>4, <2>0
    <3>2. QED
      BY <2>8, <3>1, Zenon
  <2>2. Upto(m) \in SUBSET Nat /\ x \in SUBSET Nat /\ Upto(m) # x
    BY <1>3, <2>1
  <2>3. << Upto(m), x >> \in StrictSubsetOrdering(Nat)
    BY <1>3, <2>1, <2>2 DEF StrictSubsetOrdering
  <2>4. QED
    BY <1>2, <2>7, <2>3, Zenon
<1>5. QED BY <1>4

\* The last line end in the FIFO.
LEMMA LastEndThere ==
    ASSUME UartTypes, \E i \in 1 .. Len(fifo) : Uart!EndsLine(fifo[i])
    PROVE  Uart!LastEnd \in 1 .. Len(fifo) /\ Uart!EndsLine(fifo[Uart!LastEnd])
<1> DEFINE S == { Len(fifo) - i : i \in { j \in 1 .. Len(fifo) : Uart!EndsLine(fifo[j]) } }
<1>0. Len(fifo) \in Nat /\ DOMAIN fifo = 1 .. Len(fifo)
  BY DEF UartTypes
<1>1. S \in SUBSET Nat /\ S # {}
  BY <1>0
<1>2. PICK k \in S : \A m \in S : k <= m
  <2> HIDE DEF S
  <2>1. QED
    BY <1>1, Smallest
<1>3. PICK i \in 1 .. Len(fifo) : k = Len(fifo) - i /\ Uart!EndsLine(fifo[i])
  OBVIOUS
<1>4. ASSUME NEW j \in i + 1 .. Len(fifo), Uart!EndsLine(fifo[j]) PROVE FALSE
  <2>1. j \in 1 .. Len(fifo)
    BY <1>0
  <2>2. Len(fifo) - j \in S
    BY <1>4, <2>1
  <2>3. k <= Len(fifo) - j
    BY <1>2, <2>2
  <2>4. QED
    BY <1>0, <1>3, <2>1, <2>3
<1>5. /\ i \in DOMAIN fifo /\ Uart!EndsLine(fifo[i])
      /\ \A j \in i + 1 .. Len(fifo) : ~Uart!EndsLine(fifo[j])
  BY <1>0, <1>3, <1>4
<1>6. Uart!LastEnd \in DOMAIN fifo /\ Uart!EndsLine(fifo[Uart!LastEnd])
  BY <1>5, Zenon DEF Uart!LastEnd
<1>7. QED
  BY <1>0, <1>6

-----------------------------------------------------------------------------
\* Only the flush of a hang-up starts it over.
LEMMA FollowedBefore ==
    UartTypes /\ [Uart!Next]_uartVars /\ Followed' => Followed \/ Uart!Flush
<1> SUFFICES ASSUME UartTypes, [Uart!Next]_uartVars, Followed' PROVE Followed \/ Uart!Flush
  OBVIOUS
<1>0. ASSUME UNCHANGED << modemSender, stale >>, overflow => overflow' PROVE Followed
  BY <1>0 DEF Followed, Leaving
<1>1. CASE \/ Uart!Answers \/ Uart!Unasked \/ \E c \in {"p", "q"} : Uart!Data(c)
           \/ Uart!Arrives \/ Uart!PatternInterrupt \/ Uart!RxInterrupt
           \/ Uart!TakeEvent \/ Uart!OverflowFlush \/ Uart!OverflowReset
           \/ Uart!DataLength \/ Uart!DataMode \/ Uart!DataToNetwork \/ Uart!DataAsLine
           \/ Uart!PopPosition \/ Uart!PatternLine \/ Uart!Discard \/ UNCHANGED uartVars
  <2>1. UNCHANGED << modemSender, stale >> /\ (overflow' = overflow \/ overflow' = TRUE)
    BY <1>1, Zenon DEF Uart!Answers, Uart!Unasked, Uart!Data, Uart!Arrives, Uart!PatternInterrupt,
                Uart!RxInterrupt, Uart!Received, Uart!TakeEvent, Uart!OverflowFlush, Uart!OverflowReset,
                Uart!DataLength, Uart!DataMode, Uart!DataToNetwork, Uart!DataAsLine, Uart!PopPosition,
                Uart!PatternLine, Uart!Discard, Uart!history, uartVars
  <2>2. QED
    BY <2>1, <1>0
<1>2. ASSUME NEW cmd \in {"plain", "dial", "hangup"}, Uart!Begin(cmd) PROVE Followed
  <2>1. modemSender = [pc |-> "idle", cmd |-> "none"] /\ UNCHANGED << stale, overflow >>
    BY <1>2, Zenon DEF Uart!Begin, Uart!NoCmd, Uart!history
  <2>2. QED
    BY <2>1 DEF Followed, Leaving
<1>3. CASE Uart!Write
  <2>1. /\ modemSender.pc = "write" /\ modemSender' = [modemSender EXCEPT !.pc = "wait"]
        /\ UNCHANGED << stale, overflow >>
    BY <1>3, Zenon DEF Uart!Write, Uart!history
  <2>2. QED
    BY <2>1 DEF Followed, Leaving, UartTypes
<1>4. CASE Uart!Completes
  <2>1. /\ modemSender.pc = "wait"
        /\ modemSender' = IF Uart!AfterAnswer(modemSender.cmd) = "idle" THEN Uart!NoCmd
                          ELSE [modemSender EXCEPT !.pc = Uart!AfterAnswer(modemSender.cmd)]
        /\ UNCHANGED << stale, overflow >>
    BY <1>4, Zenon DEF Uart!Completes, Uart!history
  <2>2. QED
    BY <2>1 DEF Followed, Leaving, UartTypes, Uart!AfterAnswer
<1>5. ~Uart!TimesOut
  BY DEF Uart!TimesOut, Followed
<1>6. CASE Uart!PatternOff \/ Uart!RxOn \/ Uart!PatternOn \/ Uart!ResetPattern
  <2>1. /\ modemSender.pc \in {"patternoff", "rxon", "patternon", "resetpattern"}
        /\ overflow' = overflow
        /\ stale' = stale \/ stale' = (stale \/ pats # << >> \/ uartTask # Uart!Idle)
    BY <1>6, Zenon DEF Uart!PatternOff, Uart!RxOn, Uart!PatternOn, Uart!ResetPattern, Uart!Sender,
                Uart!history
  <2>2. QED
    BY <2>1 DEF Followed, Leaving
<1>7. CASE Uart!RxOff
  <2>1. /\ modemSender.pc = "rxoff" /\ modemSender' = [modemSender EXCEPT !.pc = "flush"]
        /\ UNCHANGED << stale, overflow >>
    BY <1>7 DEF Uart!RxOff, Uart!Sender, Uart!history
  <2>2. QED
    BY <2>1 DEF Followed, Leaving, UartTypes
<1>8. QED
  BY <1>1, <1>2, <1>3, <1>4, <1>5, <1>6, <1>7, Zenon DEF Uart!Next

\* A flush that leaves nothing behind.
LEMMA FlushFollows == Uart!Flush /\ Followed' => FollowInv'
<1> SUFFICES ASSUME Uart!Flush, Followed' PROVE FollowInv'
  OBVIOUS
<1>1. /\ fifo' = << >> /\ rxBuf' = << >> /\ pats' = << >>
      /\ stale' = Uart!LeftBehind /\ modemSender.pc = "flush"
      /\ UNCHANGED << modem, out, uartTask, event_queue >>
  BY Zenon DEF Uart!Flush, Uart!Flushed, Uart!Sender
<1>2. ~Uart!LeftBehind
  BY <1>1 DEF Followed
<1>3. /\ event_queue = << >> /\ uartTask = Uart!Idle /\ out = << >>
      /\ modem = [mode |-> "command", todo |-> "none"]
  BY <1>2, Zenon DEF Uart!LeftBehind
<1>4. /\ event_queue' = << >> /\ uartTask' = [pc |-> "idle", length |-> 0] /\ out' = << >>
      /\ modem' = [mode |-> "command", todo |-> "none"]
  BY <1>1, <1>3, Zenon DEF Uart!Idle
<1>5. DriverTypes'
  BY <1>1, <1>4 DEF DriverTypes, TakePC
<1>6. EventInv'
  BY <1>1, <1>4 DEF EventInv, Announced
<1>7. EndInv'
  BY <1>1, <1>4 DEF EndInv, Uart!Idle
<1>8. LineInv'
  BY <1>1, <1>4 DEF LineInv, NoData, WholeLines, Stream
<1>9. QED
  BY <1>5, <1>6, <1>7, <1>8 DEF FollowInv

-----------------------------------------------------------------------------
\* Steps that touch neither the stream nor the events.
LEMMA FollowRests ==
    ASSUME FollowInv, rxIntr => rxIntr',
           UNCHANGED << rxBuf, fifo, out, pats, event_queue, uartTask, mixed >>,
           modem'.mode = "command" => modem.mode = "command",
           mode' = "command" => modem'.mode = "command" /\ modem'.todo \in {"none", "plain"},
           modem'.todo # "hangup"
    PROVE  FollowInv'
<1>1. /\ rxBuf' = rxBuf /\ fifo' = fifo /\ out' = out /\ pats' = pats /\ event_queue' = event_queue
      /\ uartTask' = uartTask /\ mixed' = mixed
  OBVIOUS
<1>2. DriverTypes'
  BY <1>1 DEF FollowInv, DriverTypes
<1>3. EventInv'
  BY <1>1 DEF FollowInv, EventInv, Announced
<1>4. EndInv'
  BY <1>1 DEF FollowInv, EndInv, IsEnd, Uart!EndsLine, Uart!Idle
<1>5. Stream' = Stream
  BY <1>1 DEF Stream
<1>6. LineInv'
  BY <1>1, <1>5 DEF FollowInv, LineInv, WholeLines, NoData
<1>7. QED
  BY <1>2, <1>3, <1>4, <1>6 DEF FollowInv

LEMMA SenderFollows ==
    ASSUME UartTypes, SenderModes, Followed, Followed', FollowInv,
           \/ \E cmd \in {"plain", "dial", "hangup"} : Uart!Begin(cmd)
           \/ Uart!Write \/ Uart!Completes \/ Uart!TimesOut
           \/ Uart!PatternOff \/ Uart!RxOn \/ Uart!RxOff \/ Uart!PatternOn \/ Uart!ResetPattern
    PROVE  FollowInv'
<1> DEFINE same == UNCHANGED << rxBuf, fifo, out, pats, event_queue, uartTask, mixed >>
<1>0. /\ mode = "command" => modem.mode = "command" /\ modem.todo \in {"none", "plain"}
      /\ modem.todo # "hangup"
  BY DEF FollowInv, LineInv
<1>1. ASSUME same, rxIntr => rxIntr', UNCHANGED modem, mode' = "command" => mode = "command"
      PROVE  FollowInv'
  BY <1>0, <1>1, FollowRests
<1>2. ASSUME NEW cmd \in {"plain", "dial", "hangup"}, Uart!Begin(cmd) PROVE FollowInv'
  <2>1. /\ same /\ rxIntr' = rxIntr /\ UNCHANGED modem
        /\ mode' = "transition" \/ mode' = mode
    BY <1>2, Zenon DEF Uart!Begin, Uart!driver, Uart!history
  <2>2. QED
    BY <1>1, <2>1
<1>3. CASE Uart!Write
  <2>1. /\ modemSender.pc = "write" /\ modemSender' = [modemSender EXCEPT !.pc = "wait"]
        /\ modem' = [modem EXCEPT !.todo = modemSender.cmd]
        /\ UNCHANGED mode /\ rxIntr' = rxIntr /\ same
    BY <1>3, Zenon DEF Uart!Write, Uart!driver, Uart!history
  <2>2. modemSender.cmd # "hangup"
    BY <2>1 DEF Followed, Leaving
  <2>3. /\ modem'.mode = modem.mode /\ modem'.todo = modemSender.cmd
    BY <2>1 DEF UartTypes
  <2>4. modemSender.cmd = "plain" \/ mode = "transition"
    BY <2>1 DEF SenderModes
  <2>5. QED
    BY <1>0, <2>1, <2>2, <2>3, <2>4, FollowRests
<1>4. CASE Uart!Completes
  <2>1. /\ modemSender.pc = "wait"
        /\ mode' = CASE modemSender.cmd = "dial" -> "ppp" [] OTHER -> "command"
        /\ UNCHANGED modem /\ rxIntr' = rxIntr /\ same
    BY <1>4, Zenon DEF Uart!Completes, Uart!driver, Uart!history
  <2>2. mode' = "command" => mode = "command"
    BY <2>1 DEF Followed, Leaving, SenderModes
  <2>3. QED
    BY <1>1, <2>1, <2>2
<1>5. ~Uart!TimesOut
  BY DEF Uart!TimesOut, Followed
<1>6. CASE Uart!PatternOff \/ Uart!RxOn \/ Uart!PatternOn
  <2>1. /\ same /\ UNCHANGED << modem, mode >> /\ (rxIntr' = rxIntr \/ rxIntr' = TRUE)
    BY <1>6, Zenon DEF Uart!PatternOff, Uart!RxOn, Uart!PatternOn, Uart!Sender, Uart!history
  <2>2. QED
    BY <1>1, <2>1
<1>7. ~Uart!RxOff
  BY DEF Uart!RxOff, Uart!Sender, Followed, Leaving, SenderModes
<1>8. CASE Uart!ResetPattern
  <2>1. /\ UNCHANGED << rxBuf, fifo, out, event_queue, uartTask, mixed, modem, mode, rxIntr >>
        /\ pats' = << >> /\ stale' = (stale \/ pats # << >> \/ uartTask # Uart!Idle)
    BY <1>8, Zenon DEF Uart!ResetPattern, Uart!Sender
  <2>2. pats = << >>
    BY <2>1 DEF Followed
  <2>3. QED
    BY <1>1, <2>1, <2>2
<1>9. QED
  BY <1>2, <1>3, <1>4, <1>5, <1>6, <1>7, <1>8

LEMMA StreamGrows ==
    ASSUME rxBuf \in Seq(Chars), fifo \in Seq(Chars), out \in Seq(Chars), NEW t \in Seq(Chars),
           rxBuf' = rxBuf, fifo' = fifo, out' = out \o t
    PROVE  Stream' = Stream \o t
<1>1. (rxBuf \o fifo) \o (out \o t) = ((rxBuf \o fifo) \o out) \o t
  <2>1. rxBuf \o fifo \in Seq(Chars)
    OBVIOUS
  <2>2. QED
    BY <2>1, Regroup, Zenon
<1>2. QED
  BY <1>1 DEF Stream

\* What the modem sends.
LEMMA ModemFollows ==
    ASSUME UartTypes, FollowInv,
           Uart!Answers \/ Uart!Unasked \/ \E c \in {"p", "q"} : Uart!Data(c)
    PROVE  FollowInv'
<1>1. /\ UNCHANGED << mode, fifo, rxIntr, rxBuf, pats, event_queue, uartTask, mixed >>
  BY Zenon DEF Uart!Answers, Uart!Unasked, Uart!Data, Uart!driver, Uart!history
<1>2. /\ DriverTypes /\ EventInv /\ EndInv /\ LineInv
  BY DEF FollowInv
<1>3. /\ rxBuf \in Seq(Chars) /\ fifo \in Seq(Chars) /\ out \in Seq(Chars) /\ Stream \in Seq(Chars)
  BY <1>2, StreamBegins DEF UartTypes, DriverTypes
<1>4. DriverTypes' /\ EventInv'
  BY <1>1, <1>2 DEF DriverTypes, EventInv, Announced
<1>5. EndInv'
  BY <1>1, <1>2 DEF EndInv, IsEnd, Uart!EndsLine, Uart!Idle
<1>6. ASSUME NEW t \in {<< "a", "b", "n" >>, << "u", "n" >>}, out' = out \o t, modem.mode = "command"
      PROVE  NoData(Stream') /\ (WholeLines(Stream) => WholeLines(Stream'))
  <2>1. t \in Seq(Chars)
    <3>1. << "a", "b", "n" >> \in Seq(Chars) /\ << "u", "n" >> \in Seq(Chars)
      BY DEF Chars
    <3>2. QED
      BY <3>1, Zenon
  <2>2. Stream' = Stream \o t
    BY <1>1, <1>3, <1>6, <2>1, StreamGrows, Zenon
  <2>3. NoData(Stream)
    BY <1>2, <1>6 DEF LineInv
  <2>4. QED
    BY <1>3, <2>2, <2>3, LinesGoOn
<1>7. CASE Uart!Answers
  <2>1. \/ /\ modem.mode = "command" \/ modem.todo = "hangup"
           /\ out' = out \o << "a", "b", "n" >>
           /\ modem' = [todo |-> "none",
                        mode |-> CASE modem.todo = "dial" -> "data"
                                   [] modem.todo = "hangup" -> "command"
                                   [] OTHER -> modem.mode]
        \/ modem' = [modem EXCEPT !.todo = "none"] /\ out' = out
    BY <1>7, Zenon DEF Uart!Answers, Uart!AnswerLine
  <2>2. CASE modem' = [modem EXCEPT !.todo = "none"] /\ out' = out
    <3>1. modem'.mode = modem.mode /\ modem'.todo = "none"
      BY <2>2 DEF UartTypes
    <3>2. QED
      BY <1>1, <1>2, <2>2, <3>1, FollowRests DEF LineInv
  <2>3. CASE /\ modem.mode = "command" \/ modem.todo = "hangup"
             /\ out' = out \o << "a", "b", "n" >>
             /\ modem' = [todo |-> "none",
                          mode |-> CASE modem.todo = "dial" -> "data"
                                     [] modem.todo = "hangup" -> "command"
                                     [] OTHER -> modem.mode]
    <3>1. modem.mode = "command" /\ modem.todo # "hangup"
      BY <1>2, <2>3 DEF LineInv
    <3>2. NoData(Stream') /\ (WholeLines(Stream) => WholeLines(Stream'))
      BY <1>6, <2>3, <3>1
    <3>3. modem'.todo = "none" /\ (modem.todo # "dial" => modem'.mode = modem.mode)
      BY <2>3, <3>1
    <3>4. LineInv'
      <4>1. WholeLines(Stream') \/ (rxIntr' /\ pats' = << >> /\ uartTask'.pc \notin {"pop", "pattern"})
        BY <1>1, <1>2, <3>2 DEF LineInv
      <4>2. mode' = "command" => modem'.mode = "command"
        BY <1>1, <1>2, <3>3 DEF LineInv
      <4> HIDE DEF Stream
      <4>3. QED
        BY <3>2, <3>3, <4>1, <4>2 DEF LineInv, NoData, WholeLines
    <3>5. QED
      BY <1>4, <1>5, <3>4 DEF FollowInv
  <2>4. QED
    BY <2>1, <2>2, <2>3
<1>8. CASE Uart!Unasked
  <2>1. modem.mode = "command" /\ out' = out \o << "u", "n" >> /\ modem' = modem
    BY <1>8, Zenon DEF Uart!Unasked
  <2>2. NoData(Stream') /\ (WholeLines(Stream) => WholeLines(Stream'))
    BY <1>6, <2>1
  <2>3. LineInv'
    BY <1>1, <1>2, <2>1, <2>2 DEF LineInv, NoData, WholeLines
  <2>4. QED
    BY <1>4, <1>5, <2>3 DEF FollowInv
<1>9. ASSUME NEW c \in {"p", "q"}, Uart!Data(c) PROVE FollowInv'
  <2>1. modem.mode = "data" /\ out' = Append(out, c) /\ modem' = modem
    BY <1>9, Zenon DEF Uart!Data
  <2>2. Stream' = Stream \o << c >>
    <3>1. c \in Chars /\ << c >> \in Seq(Chars)
      BY DEF Chars
    <3>2. out' = out \o << c >>
      BY <1>3, <2>1, <3>1, AppendIsConcat
    <3>3. QED
      BY <1>1, <1>3, <3>1, <3>2, StreamGrows, Zenon
  <2>3. WholeLines(Stream) => WholeLines(Stream')
    BY <1>3, <2>2, DataComes
  <2>4. LineInv'
    BY <1>1, <1>2, <2>1, <2>3 DEF LineInv, NoData, WholeLines
  <2>5. QED
    BY <1>4, <1>5, <2>4 DEF FollowInv
<1>10. QED
  BY <1>7, <1>8, <1>9

-----------------------------------------------------------------------------
\* The FIFO and the driver's buffer.
LEMMA ArrivesFollows ==
    ASSUME UartTypes, FollowInv, Followed', Uart!Arrives
    PROVE  FollowInv'
<1>1. /\ out # << >> /\ out' = Tail(out)
      /\ UNCHANGED << mode, modem, rxIntr, rxBuf, pats, uartTask, mixed >>
      /\ \/ fifo' = Append(fifo, Head(out)) /\ UNCHANGED event_queue
         \/ overflow' = TRUE
  BY Zenon DEF Uart!Arrives
<1>2. fifo' = Append(fifo, Head(out)) /\ event_queue' = event_queue
  BY <1>1, Zenon DEF Followed
<1>3. /\ DriverTypes /\ EventInv /\ EndInv /\ LineInv
  BY DEF FollowInv
<1>4. DriverTypes' /\ EventInv'
  BY <1>1, <1>2, <1>3 DEF DriverTypes, EventInv, Announced
<1>5. EndInv'
  BY <1>1, <1>3 DEF EndInv, IsEnd, Uart!EndsLine, Uart!Idle
<1>6. Stream' = Stream
  <2>1. rxBuf \in Seq(Chars) /\ fifo \in Seq(Chars) /\ out \in Seq(Chars)
    BY <1>3 DEF UartTypes, DriverTypes
  <2>2. (rxBuf \o Append(fifo, Head(out))) \o Tail(out) = (rxBuf \o fifo) \o out
    BY <1>1, <2>1, MovesIn, Zenon
  <2>3. QED
    BY <1>1, <1>2, <2>2 DEF Stream
<1>7. LineInv'
  BY <1>1, <1>3, <1>6 DEF LineInv, NoData, WholeLines
<1>8. QED
  BY <1>4, <1>5, <1>7 DEF FollowInv

\* What both interrupts do.
LEMMA ReceivedFollows ==
    ASSUME UartTypes, FollowInv, NEW e \in {"data", "pattern"}, Uart!Received(e)
    PROVE  /\ UNCHANGED << mode, modem, rxIntr, uartTask >>
           /\ rxBuf' \in Seq(Chars) /\ Len(rxBuf') = Len(rxBuf) + Len(fifo)
           /\ Len(rxBuf) \in Nat /\ Len(fifo) \in Nat
           /\ \A i \in 1 .. Len(rxBuf) : rxBuf'[i] = rxBuf[i]
           /\ \A i \in 1 .. Len(fifo) : rxBuf'[Len(rxBuf) + i] = fifo[i]
           /\ Stream' = Stream
           /\ event_queue' \in Seq({"data", "pattern"})
           /\ Len(event_queue) \in Nat /\ Len(event_queue') = Len(event_queue) + 1
           /\ \A i \in 1 .. Len(event_queue) : event_queue'[i] = event_queue[i]
           /\ event_queue'[Len(event_queue) + 1] = e
<1>1. /\ rxBuf' = rxBuf \o fifo /\ fifo' = << >> /\ event_queue' = Append(event_queue, e)
      /\ UNCHANGED << mode, modem, rxIntr, uartTask, out >>
  BY Zenon DEF Uart!Received
<1>2. /\ rxBuf \in Seq(Chars) /\ fifo \in Seq(Chars) /\ out \in Seq(Chars)
      /\ event_queue \in Seq({"data", "pattern"})
  BY DEF FollowInv, UartTypes, DriverTypes
<1>3. /\ event_queue' \in Seq({"data", "pattern"})
      /\ Len(event_queue) \in Nat /\ Len(event_queue') = Len(event_queue) + 1
      /\ \A i \in 1 .. Len(event_queue) : event_queue'[i] = event_queue[i]
      /\ event_queue'[Len(event_queue) + 1] = e
  BY <1>1, <1>2
<1>4. /\ rxBuf' \in Seq(Chars) /\ Len(rxBuf') = Len(rxBuf) + Len(fifo)
      /\ Len(rxBuf) \in Nat /\ Len(fifo) \in Nat
      /\ \A i \in 1 .. Len(rxBuf) : rxBuf'[i] = rxBuf[i]
      /\ \A i \in 1 .. Len(fifo) : rxBuf'[Len(rxBuf) + i] = fifo[i]
  BY <1>1, <1>2
<1>5. Stream' = Stream
  <2>1. ((rxBuf \o fifo) \o << >>) \o out = (rxBuf \o fifo) \o out
    BY <1>2, MovesUp, Zenon
  <2>2. QED
    BY <1>1, <2>1 DEF Stream
<1>6. QED
  BY <1>1, <1>3, <1>4, <1>5

LEMMA RxFollows ==
    ASSUME UartTypes, FollowInv, Uart!RxInterrupt
    PROVE  FollowInv'
<1>1. rxIntr /\ Uart!Received("data") /\ UNCHANGED << pats, mixed >>
  BY Zenon DEF Uart!RxInterrupt
<1>2. /\ UNCHANGED << mode, modem, rxIntr, uartTask >>
      /\ rxBuf' \in Seq(Chars) /\ Len(rxBuf') = Len(rxBuf) + Len(fifo)
      /\ Len(rxBuf) \in Nat /\ Len(fifo) \in Nat
      /\ \A i \in 1 .. Len(rxBuf) : rxBuf'[i] = rxBuf[i]
      /\ Stream' = Stream
      /\ event_queue' \in Seq({"data", "pattern"})
      /\ Len(event_queue) \in Nat /\ Len(event_queue') = Len(event_queue) + 1
      /\ \A i \in 1 .. Len(event_queue) : event_queue'[i] = event_queue[i]
      /\ event_queue'[Len(event_queue) + 1] = "data"
  BY <1>1, ReceivedFollows
<1>3. /\ DriverTypes /\ EventInv /\ EndInv /\ LineInv
  BY DEF FollowInv
<1>4. DriverTypes'
  BY <1>1, <1>2, <1>3 DEF DriverTypes
<1>5. EventInv'
  <2>1. Announced' = Announced /\ Announced \in 0 .. Len(event_queue)
    BY <1>1, <1>2, <1>3 DEF Announced, EventInv
  <2> DEFINE k == Announced
  <2>2. \A i \in 1 .. Len(event_queue) : event_queue[i] = (IF i <= k THEN "pattern" ELSE "data")
    BY <1>3 DEF EventInv
  <2>3. ASSUME NEW i \in 1 .. Len(event_queue')
        PROVE  event_queue'[i] = (IF i <= k THEN "pattern" ELSE "data")
    <3> HIDE DEF k
    <3>1. CASE i = Len(event_queue) + 1
      BY <1>2, <2>1, <3>1 DEF k
    <3>2. CASE i # Len(event_queue) + 1
      BY <1>2, <2>2, <3>2
    <3>3. QED
      BY <3>1, <3>2
  <2>4. QED
    BY <1>1, <1>2, <1>3, <2>1, <2>3 DEF EventInv
<1>6. EndInv'
  BY <1>1, <1>2, <1>3 DEF EndInv, IsEnd, Uart!EndsLine, Uart!Idle
<1>7. LineInv'
  BY <1>1, <1>2, <1>3 DEF LineInv, NoData, WholeLines
<1>8. QED
  BY <1>4, <1>5, <1>6, <1>7 DEF FollowInv

LEMMA PatternFollows ==
    ASSUME UartTypes, SenderModes, HitInv, Followed, FollowInv, Uart!PatternInterrupt
    PROVE  FollowInv'
<1>1. /\ patDet /\ patHit /\ Uart!Received("pattern")
      /\ pats' = Append(pats, Len(rxBuf) + Uart!LastEnd - 1)
      /\ mixed' = (mixed \/ "q" \in Uart!ToSet(fifo))
  BY Zenon DEF Uart!PatternInterrupt
<1>2. /\ UNCHANGED << mode, modem, rxIntr, uartTask >>
      /\ rxBuf' \in Seq(Chars) /\ Len(rxBuf') = Len(rxBuf) + Len(fifo)
      /\ Len(rxBuf) \in Nat /\ Len(fifo) \in Nat
      /\ \A i \in 1 .. Len(rxBuf) : rxBuf'[i] = rxBuf[i]
      /\ \A i \in 1 .. Len(fifo) : rxBuf'[Len(rxBuf) + i] = fifo[i]
      /\ Stream' = Stream
      /\ event_queue' \in Seq({"data", "pattern"})
      /\ Len(event_queue) \in Nat /\ Len(event_queue') = Len(event_queue) + 1
      /\ \A i \in 1 .. Len(event_queue) : event_queue'[i] = event_queue[i]
      /\ event_queue'[Len(event_queue) + 1] = "pattern"
  BY <1>1, ReceivedFollows
<1>3. /\ DriverTypes /\ EventInv /\ EndInv /\ LineInv
  BY DEF FollowInv
<1>4. ~rxIntr
  BY <1>1 DEF SenderModes, Followed, Leaving
<1> DEFINE m == Uart!LastEnd
<1>5. /\ m \in 1 .. Len(fifo) /\ Uart!EndsLine(fifo[m]) /\ DOMAIN fifo = 1 .. Len(fifo)
  <2>1. \E i \in 1 .. Len(fifo) : Uart!EndsLine(fifo[i])
    BY <1>1 DEF HitInv
  <2>2. DOMAIN fifo = 1 .. Len(fifo)
    BY DEF UartTypes
  <2>3. QED
    BY <2>1, <2>2, LastEndThere
<1> HIDE DEF m
<1>6. /\ Len(rxBuf) + m - 1 \in Nat /\ Len(rxBuf) + m \in 1 .. Len(rxBuf')
      /\ rxBuf'[Len(rxBuf) + m] = fifo[m]
  BY <1>2, <1>5
<1>7. /\ pats' \in Seq(Nat) /\ Len(pats) \in Nat /\ Len(pats') = Len(pats) + 1
      /\ \A i \in 1 .. Len(pats) : pats'[i] = pats[i]
      /\ pats'[Len(pats) + 1] = Len(rxBuf) + m - 1
  BY <1>1, <1>3, <1>6 DEF DriverTypes, m
<1>8. mixed => mixed'
  BY <1>1
<1>9. Uart!EndsLine(fifo[m]) /\ (~mixed' => fifo[m] = "n")
  <2>1. CASE fifo[m] = "q"
    <3>1. "q" \in Uart!ToSet(fifo)
      BY <1>5, <2>1 DEF Uart!ToSet
    <3>2. QED
      BY <1>1, <1>5, <3>1
  <2>2. CASE fifo[m] # "q"
    BY <1>5, <2>2 DEF Uart!EndsLine
  <2>3. QED
    BY <2>1, <2>2
<1>10. DriverTypes'
  BY <1>2, <1>3, <1>7 DEF DriverTypes
<1>11. EventInv'
  <2>1. /\ Announced' = Announced + 1 /\ Announced = Len(event_queue)
    BY <1>2, <1>3, <1>4, <1>7 DEF Announced, EventInv
  <2>2. \A i \in 1 .. Len(event_queue) : event_queue[i] = (IF i <= Announced THEN "pattern" ELSE "data")
    BY <1>3 DEF EventInv
  <2>3. ASSUME NEW i \in 1 .. Len(event_queue') PROVE event_queue'[i] = "pattern" /\ i <= Announced'
    BY <1>2, <2>1, <2>2
  <2>4. uartTask'.pc \notin {"length", "mode", "ppp"}
    BY <1>2, <1>3, <1>4 DEF EventInv
  <2>5. Announced' \in 0 .. Len(event_queue') /\ Announced' = Len(event_queue')
    BY <1>2, <2>1
  <2>6. QED
    BY <2>3, <2>4, <2>5 DEF EventInv
<1>12. EndInv'
  <2>1. \A i, j \in 1 .. Len(pats') : i < j => pats'[i] < pats'[j]
    <3>1. ASSUME NEW i \in 1 .. Len(pats) PROVE pats[i] < Len(rxBuf) + m - 1
      BY <1>2, <1>3, <1>5, SMTT(60) DEF EndInv, DriverTypes
    <3>2. ASSUME NEW i \in 1 .. Len(pats'), NEW j \in 1 .. Len(pats'), i < j PROVE pats'[i] < pats'[j]
      <4>1. CASE j = Len(pats) + 1
        BY <1>7, <3>1, <3>2, <4>1
      <4>2. CASE j # Len(pats) + 1
        <5>1. i \in 1 .. Len(pats) /\ j \in 1 .. Len(pats)
          BY <1>7, <3>2, <4>2, SMTT(60)
        <5>2. pats[i] < pats[j]
          BY <1>3, <3>2, <5>1 DEF EndInv
        <5>3. QED
          BY <1>7, <5>1, <5>2
      <4>3. QED
        BY <4>1, <4>2
    <3>3. QED
      BY <3>2
  <2>2. ASSUME NEW n \in 1 .. Len(rxBuf), IsEnd(n)
        PROVE  n \in 1 .. Len(rxBuf') /\ Uart!EndsLine(rxBuf'[n]) /\ (~mixed' => rxBuf'[n] = "n")
    BY <1>2, <1>8, <2>2 DEF IsEnd, Uart!EndsLine
  <2>3. ASSUME NEW i \in 1 .. Len(pats')
        PROVE  /\ pats'[i] + 1 \in 1 .. Len(rxBuf')
               /\ Uart!EndsLine(rxBuf'[pats'[i] + 1]) /\ (~mixed' => rxBuf'[pats'[i] + 1] = "n")
    <3>1. CASE i = Len(pats) + 1
      <4>1. pats'[i] + 1 = Len(rxBuf) + m
        BY <1>2, <1>5, <1>7, <3>1
      <4>2. QED
        BY <1>6, <1>9, <4>1
    <3>2. CASE i # Len(pats) + 1
      <4>1. i \in 1 .. Len(pats) /\ pats'[i] = pats[i]
        BY <1>7, <3>2
      <4>2. pats[i] + 1 \in 1 .. Len(rxBuf) /\ IsEnd(pats[i] + 1)
        BY <1>3, <4>1 DEF EndInv
      <4>3. QED
        BY <2>2, <4>1, <4>2
    <3>3. QED
      BY <3>1, <3>2
  <2>4. ASSUME uartTask.pc = "pattern"
        PROVE  /\ uartTask.length \in 1 .. Len(rxBuf')
               /\ Uart!EndsLine(rxBuf'[uartTask.length]) /\ (~mixed' => rxBuf'[uartTask.length] = "n")
               /\ \A i \in 1 .. Len(pats') : uartTask.length <= pats'[i]
    <3>1. /\ uartTask.length \in 1 .. Len(rxBuf) /\ IsEnd(uartTask.length)
          /\ \A i \in 1 .. Len(pats) : uartTask.length <= pats[i]
      BY <1>3, <2>4 DEF EndInv
    <3>2. ASSUME NEW i \in 1 .. Len(pats') PROVE uartTask.length <= pats'[i]
      <4>1. CASE i = Len(pats) + 1
        BY <1>2, <1>5, <1>7, <3>1, <4>1
      <4>2. CASE i # Len(pats) + 1
        BY <1>7, <3>1, <4>2, SMTT(60)
      <4>3. QED
        BY <4>1, <4>2
    <3>3. QED
      BY <2>2, <3>1, <3>2
  <2>5. uartTask'.pc = "idle" => uartTask' = Uart!Idle
    BY <1>2, <1>3 DEF EndInv
  <2>6. QED
    BY <1>2, <2>1, <2>3, <2>4, <2>5 DEF EndInv, IsEnd, Uart!Idle, Uart!EndsLine
<1>13. LineInv'
  BY <1>2, <1>3, <1>4 DEF LineInv, NoData, WholeLines
<1>14. QED
  BY <1>10, <1>11, <1>12, <1>13 DEF FollowInv

-----------------------------------------------------------------------------
\* The task.  Nothing is gone when what is read lies before every position.
LEMMA NothingGone ==
    ASSUME pats \in Seq(Nat), NEW n \in Nat, \A i \in 1 .. Len(pats) : n <= pats[i]
    PROVE  /\ Uart!AfterRead(n) \in Seq(Nat) /\ Len(Uart!AfterRead(n)) = Len(pats) /\ Len(pats) \in Nat
           /\ \A i \in 1 .. Len(pats) : Uart!AfterRead(n)[i] = pats[i] - n
<1>1. Len(pats) \in Nat /\ \A i \in 1 .. Len(pats) : pats[i] \in Nat
  OBVIOUS
<1> DEFINE P(k) == /\ k = 0 \/ pats[k] < n
                   /\ \A i \in k + 1 .. Len(pats) : pats[i] >= n
<1>2. P(0) /\ 0 \in 0 .. Len(pats)
  BY <1>1
<1>3. ASSUME NEW k \in 0 .. Len(pats), P(k) PROVE k = 0
  BY <1>1, <1>3
<1>4. Uart!Gone(n) = CHOOSE k \in 0 .. Len(pats) : P(k)
  BY DEF Uart!Gone
<1> HIDE DEF P
<1>5. Uart!Gone(n) = 0
  BY <1>2, <1>3, <1>4, Zenon
<1>6. Uart!AfterRead(n) = [i \in 1 .. Len(pats) |-> pats[i] - n]
  <2>1. Uart!AfterRead(n) = [i \in 1 .. Len(pats) - 0 |-> pats[i + 0] - n]
    BY <1>5, Zenon DEF Uart!AfterRead
  <2>2. Len(pats) - 0 = Len(pats) /\ \A i \in 1 .. Len(pats) : i + 0 = i
    BY <1>1
  <2>3. QED
    BY <2>1, <2>2, Zenon
<1>7. \A i \in 1 .. Len(pats) : pats[i] - n \in Nat
  BY <1>1
<1>8. QED
  BY <1>1, <1>6, <1>7

LEMMA NoneGone ==
    ASSUME pats = << >>, NEW n \in Nat
    PROVE  Uart!AfterRead(n) = << >>
<1>1. pats \in Seq(Nat) /\ Len(pats) = 0
  OBVIOUS
<1>2. Uart!AfterRead(n) \in Seq(Nat) /\ Len(Uart!AfterRead(n)) = 0
  BY <1>1, NothingGone
<1>3. QED
  BY <1>2, EmptySeq

\* What a read leaves of the stream.
LEMMA ReadLeaves ==
    ASSUME UartTypes, DriverTypes, NEW n \in 0 .. Len(rxBuf), Uart!Reads(n),
           UNCHANGED << fifo, out >>
    PROVE  /\ rxBuf' \in Seq(Chars) /\ Len(rxBuf') = Len(rxBuf) - n
           /\ \A i \in 1 .. Len(rxBuf') : rxBuf'[i] = rxBuf[n + i]
           /\ Stream' = SubSeq(Stream, n + 1, Len(Stream))
           /\ pats' = Uart!AfterRead(n)
<1>1. rxBuf \in Seq(Chars) /\ fifo \in Seq(Chars) /\ out \in Seq(Chars)
  BY DEF UartTypes, DriverTypes
<1>2. rxBuf' = SubSeq(rxBuf, n + 1, Len(rxBuf)) /\ pats' = Uart!AfterRead(n)
  BY Zenon DEF Uart!Reads
<1>3. /\ rxBuf' \in Seq(Chars) /\ Len(rxBuf') = Len(rxBuf) - n
      /\ \A i \in 1 .. Len(rxBuf') : rxBuf'[i] = rxBuf[n + i]
  <2> DEFINE rest == SubSeq(rxBuf, n + 1, Len(rxBuf))
  <2>1. /\ rest \in Seq(Chars) /\ Len(rest) = Len(rxBuf) - n
        /\ \A i \in 1 .. Len(rxBuf) - n : rest[i] = rxBuf[n + i]
    BY <1>1, RestOf, Zenon
  <2>2. rxBuf' = rest
    BY <1>2
  <2> HIDE DEF rest
  <2>3. QED
    BY <2>1, <2>2
<1>4. (SubSeq(rxBuf, n + 1, Len(rxBuf)) \o fifo) \o out
         = SubSeq((rxBuf \o fifo) \o out, n + 1, Len((rxBuf \o fifo) \o out))
  <2>1. LeavesRest(rxBuf, fifo, out, n)
    BY <1>1, RestOfStream, Zenon
  <2>2. QED
    BY <2>1, Zenon DEF LeavesRest
<1>5. QED
  BY <1>2, <1>3, <1>4 DEF Stream

LEMMA TakeFollows ==
    ASSUME UartTypes, FollowInv, Uart!TakeEvent
    PROVE  FollowInv'
<1>1. /\ uartTask = Uart!Idle /\ event_queue # << >> /\ event_queue' = Tail(event_queue)
      /\ uartTask' = [Uart!Idle EXCEPT !.pc = CASE Head(event_queue) = "data" -> "length"
                                     [] Head(event_queue) = "pattern" -> "pop"
                                     [] OTHER -> "flush"]
      /\ UNCHANGED << mode, modem, rxIntr, rxBuf, fifo, out, pats, mixed >>
  BY Zenon DEF Uart!TakeEvent, Uart!history
<1>2. /\ DriverTypes /\ EventInv /\ EndInv /\ LineInv
  BY DEF FollowInv
<1>3. /\ event_queue' \in Seq({"data", "pattern"}) /\ Len(event_queue) \in Nat \ {0}
      /\ Len(event_queue') = Len(event_queue) - 1
      /\ \A i \in 1 .. Len(event_queue') : event_queue'[i] = event_queue[i + 1]
      /\ Head(event_queue) = event_queue[1] /\ Head(event_queue) \in {"data", "pattern"}
  BY <1>1, <1>2 DEF DriverTypes
<1>4. \/ Head(event_queue) = "data" /\ uartTask' = [pc |-> "length", length |-> 0]
      \/ Head(event_queue) = "pattern" /\ uartTask' = [pc |-> "pop", length |-> 0]
  BY <1>1, <1>3 DEF Uart!Idle
<1>5. DriverTypes'
  BY <1>1, <1>2, <1>3, <1>4 DEF DriverTypes, TakePC
<1>6. /\ uartTask.pc = "idle" /\ Announced = Len(pats) /\ Len(pats) \in Nat
      /\ Announced \in 0 .. Len(event_queue)
      /\ event_queue[1] = (IF 1 <= Announced THEN "pattern" ELSE "data")
      /\ \A i \in 1 .. Len(event_queue) : event_queue[i] = (IF i <= Announced THEN "pattern" ELSE "data")
      /\ ~rxIntr => Announced = Len(event_queue)
  BY <1>1, <1>2, <1>3 DEF Announced, EventInv, DriverTypes, Uart!Idle
<1>7. EventInv'
  <2>1. CASE Head(event_queue) = "data"
    <3>1. pats = << >> /\ rxIntr /\ Announced = 0 /\ Announced' = 0
      <4>1. Announced = 0 /\ Announced # Len(event_queue)
        BY <1>3, <1>6, <2>1
      <4>2. Len(pats) = 0 /\ rxIntr
        BY <1>6, <4>1
      <4>3. pats = << >>
        BY <1>2, <4>2 DEF DriverTypes
      <4>4. Announced' = 0
        <5>1. uartTask'.pc = "length" /\ pats' = pats
          BY <1>1, <1>4, <2>1
        <5>2. QED
          BY <4>2, <5>1 DEF Announced
      <4>5. QED
        BY <4>1, <4>2, <4>3, <4>4
    <3>2. \A i \in 1 .. Len(event_queue') : event_queue'[i] = "data" /\ ~(i <= 0)
      BY <1>3, <1>6, <3>1
    <3>3. QED
      BY <1>1, <1>3, <3>1, <3>2 DEF EventInv
  <2>2. CASE Head(event_queue) = "pattern"
    <3>1. Announced' = Announced - 1 /\ Announced >= 1 /\ uartTask'.pc = "pop"
      <4>1. uartTask'.pc = "pop" /\ pats' = pats
        BY <1>1, <1>4, <2>2
      <4>2. Announced' = Len(pats) - 1
        BY <4>1 DEF Announced
      <4>3. Announced >= 1
        <5>1. 1 <= Announced \/ event_queue[1] = "data"
          BY <1>6, Zenon
        <5>2. event_queue[1] = "pattern" /\ Announced \in Int
          BY <1>3, <1>6, <2>2
        <5>3. QED
          BY <5>1, <5>2
      <4>4. QED
        BY <1>6, <4>1, <4>2, <4>3
    <3>2. \A i \in 1 .. Len(event_queue') : event_queue'[i] = (IF i <= Announced' THEN "pattern" ELSE "data")
      BY <1>3, <1>6, <3>1
    <3>3. QED
      BY <1>1, <1>3, <1>6, <3>1, <3>2 DEF EventInv
  <2>3. QED
    BY <1>3, <2>1, <2>2
<1>8. EndInv'
  BY <1>1, <1>2, <1>4 DEF EndInv, IsEnd, Uart!EndsLine
<1>9. LineInv'
  <2>1. Stream' = Stream
    BY <1>1 DEF Stream
  <2>2. ~WholeLines(Stream) => uartTask'.pc \notin {"pop", "pattern"}
    <3>1. ~WholeLines(Stream) => pats = << >>
      BY <1>2 DEF LineInv
    <3>2. pats = << >> => Announced = 0
      BY <1>6
    <3>3. Announced = 0 => Head(event_queue) = "data"
      BY <1>3, <1>6
    <3>4. QED
      BY <1>4, <3>1, <3>2, <3>3
  <2>3. QED
    BY <1>1, <1>2, <2>1, <2>2 DEF LineInv, NoData, WholeLines
<1>10. QED
  BY <1>5, <1>7, <1>8, <1>9 DEF FollowInv

LEMMA LengthFollows ==
    ASSUME UartTypes, FollowInv, Uart!DataLength
    PROVE  FollowInv'
<1>1. /\ uartTask.pc = "length" /\ uartTask' = [pc |-> "mode", length |-> Len(rxBuf)]
      /\ UNCHANGED << mode, modem, rxIntr, rxBuf, fifo, out, pats, event_queue, mixed >>
  BY Zenon DEF Uart!DataLength, Uart!driver, Uart!history
<1>2. /\ DriverTypes /\ EventInv /\ EndInv /\ LineInv
  BY DEF FollowInv
<1>3. DriverTypes'
  BY <1>1, <1>2 DEF DriverTypes, TakePC
<1>4. EventInv'
  BY <1>1, <1>2 DEF EventInv, Announced
<1>5. EndInv'
  BY <1>1, <1>2 DEF EndInv, IsEnd, Uart!EndsLine
<1>6. LineInv'
  <2>1. Stream' = Stream
    BY <1>1 DEF Stream
  <2>2. QED
    BY <1>1, <1>2, <2>1 DEF LineInv, NoData, WholeLines
<1>7. QED
  BY <1>3, <1>4, <1>5, <1>6 DEF FollowInv

LEMMA ModeFollows ==
    ASSUME UartTypes, SenderModes, Followed, FollowInv, Uart!DataMode
    PROVE  FollowInv'
<1>1. /\ uartTask.pc = "mode"
      /\ uartTask' = [uartTask EXCEPT !.pc = IF mode = "ppp" THEN "ppp"
                                             ELSE IF pats # << >> THEN "pop" ELSE "line"]
      /\ pats' = IF mode # "ppp" /\ pats # << >> THEN Tail(pats) ELSE pats
      /\ UNCHANGED << mode, modem, rxIntr, rxBuf, fifo, out, event_queue, mixed >>
  BY Zenon DEF Uart!DataMode, Uart!history
<1>2. /\ DriverTypes /\ EventInv /\ EndInv /\ LineInv
  BY DEF FollowInv
<1>3. pats = << >> /\ rxIntr /\ mode = "ppp"
  <2>1. pats = << >> /\ rxIntr
    BY <1>1, <1>2 DEF EventInv
  <2>2. QED
    BY <2>1 DEF SenderModes, Followed, Leaving
<1>4. pats' = pats /\ uartTask' = [uartTask EXCEPT !.pc = "ppp"]
  BY <1>1, <1>3
<1>5. uartTask'.pc = "ppp" /\ uartTask' \in [pc : TakePC, length : Nat]
  BY <1>2, <1>4 DEF DriverTypes, TakePC
<1>6. DriverTypes'
  BY <1>1, <1>2, <1>4, <1>5 DEF DriverTypes
<1>7. EventInv'
  BY <1>1, <1>2, <1>4, <1>5 DEF EventInv, Announced
<1>8. EndInv'
  BY <1>1, <1>2, <1>4, <1>5 DEF EndInv, IsEnd, Uart!EndsLine
<1>9. LineInv'
  <2>1. Stream' = Stream
    BY <1>1 DEF Stream
  <2>2. QED
    BY <1>1, <1>2, <1>4, <1>5, <2>1 DEF LineInv, NoData, WholeLines
<1>10. QED
  BY <1>6, <1>7, <1>8, <1>9 DEF FollowInv

LEMMA NetworkFollows ==
    ASSUME UartTypes, FollowInv, Uart!DataToNetwork
    PROVE  FollowInv'
<1>1. /\ uartTask.pc = "ppp" /\ Len(rxBuf) >= uartTask.length /\ Uart!Reads(uartTask.length)
      /\ uartTask' = [pc |-> "idle", length |-> 0]
      /\ UNCHANGED << mode, modem, rxIntr, fifo, out, event_queue, mixed >>
  BY Zenon DEF Uart!DataToNetwork, Uart!history, Uart!Idle
<1>2. /\ DriverTypes /\ EventInv /\ EndInv /\ LineInv
  BY DEF FollowInv
<1> DEFINE n == uartTask.length
<1>3. n \in 0 .. Len(rxBuf) /\ n \in Nat
  BY <1>1, <1>2 DEF DriverTypes
<1>4. pats = << >> /\ rxIntr
  BY <1>1, <1>2 DEF EventInv
<1> HIDE DEF n
<1>5. /\ rxBuf' \in Seq(Chars) /\ Stream' = SubSeq(Stream, n + 1, Len(Stream))
      /\ pats' = << >>
  <2>1. Uart!Reads(n) /\ UNCHANGED << fifo, out >>
    BY <1>1 DEF n
  <2>2. QED
    BY <1>2, <1>3, <1>4, <2>1, ReadLeaves, NoneGone
<1>6. DriverTypes'
  BY <1>1, <1>2, <1>5 DEF DriverTypes, TakePC
<1>7. EventInv'
  BY <1>1, <1>2, <1>4, <1>5 DEF EventInv, Announced
<1>8. EndInv'
  BY <1>1, <1>5 DEF EndInv, Uart!Idle
<1>9. LineInv'
  <2>1. NoData(Stream) => NoData(Stream')
    <3>1. Stream \in Seq(Chars) /\ n \in 0 .. Len(Stream)
      BY <1>2, <1>3, StreamBegins
    <3>2. QED
      BY <1>5, <3>1, NoDataLeft
  <2>2. QED
    BY <1>1, <1>2, <1>4, <1>5, <2>1 DEF LineInv, NoData
<1>10. QED
  BY <1>6, <1>7, <1>8, <1>9 DEF FollowInv

LEMMA PopFollows ==
    ASSUME UartTypes, FollowInv, Uart!PopPosition
    PROVE  FollowInv'
<1>1. /\ uartTask.pc = "pop"
      /\ pats # << >> => uartTask' = [pc |-> "pattern", length |-> Head(pats) + 1] /\ pats' = Tail(pats)
      /\ UNCHANGED << mode, modem, rxIntr, rxBuf, fifo, out, event_queue, mixed >>
  BY Zenon DEF Uart!PopPosition, Uart!history
<1>2. /\ DriverTypes /\ EventInv /\ EndInv /\ LineInv
  BY DEF FollowInv
<1>3. Announced = Len(pats) - 1 /\ Len(pats) \in Nat \ {0} /\ pats # << >>
  BY <1>1, <1>2 DEF Announced, EventInv, DriverTypes
<1>4. /\ pats' \in Seq(Nat) /\ Len(pats') = Len(pats) - 1 /\ Head(pats) = pats[1] /\ pats[1] \in Nat
      /\ \A i \in 1 .. Len(pats') : pats'[i] = pats[i + 1]
  <2>1. pats \in Seq(Nat) /\ pats # << >> /\ pats' = Tail(pats)
    BY <1>1, <1>2, <1>3 DEF DriverTypes
  <2>2. Head(pats) = pats[1] /\ pats[1] \in Nat
    BY <1>3, <2>1
  <2>3. QED
    BY <2>1, <2>2, HeadTailProperties
<1>5. uartTask' = [pc |-> "pattern", length |-> pats[1] + 1]
  BY <1>1, <1>3, <1>4
<1>6. DriverTypes'
  BY <1>1, <1>2, <1>4, <1>5 DEF DriverTypes, TakePC
<1>7. EventInv'
  <2>1. Announced' = Announced
    BY <1>3, <1>4, <1>5 DEF Announced
  <2>2. QED
    BY <1>1, <1>2, <1>5, <2>1 DEF EventInv
<1>8. EndInv'
  <2>1. \A i \in 1 .. Len(pats) : pats[i] + 1 \in 1 .. Len(rxBuf) /\ IsEnd(pats[i] + 1)
    BY <1>2 DEF EndInv
  <2>2. \A i, j \in 1 .. Len(pats) : i < j => pats[i] < pats[j]
    BY <1>2 DEF EndInv
  <2>3. \A i \in 1 .. Len(pats) : pats[i] \in Nat
    BY <1>2 DEF DriverTypes
  <2>4. \A i, j \in 1 .. Len(pats') : i < j => pats'[i] < pats'[j]
    BY <1>3, <1>4, <2>2
  <2>5. \A i \in 1 .. Len(pats') : pats'[i] + 1 \in 1 .. Len(rxBuf) /\ IsEnd(pats'[i] + 1)
    BY <1>3, <1>4, <2>1
  <2>6. /\ pats[1] + 1 \in 1 .. Len(rxBuf) /\ IsEnd(pats[1] + 1)
        /\ \A i \in 1 .. Len(pats') : pats[1] + 1 <= pats'[i]
    BY <1>3, <1>4, <2>1, <2>2, <2>3, SMTT(60)
  <2>7. QED
    BY <1>1, <1>5, <2>4, <2>5, <2>6 DEF EndInv, IsEnd, Uart!EndsLine
<1>9. LineInv'
  <2>1. Stream' = Stream
    BY <1>1 DEF Stream
  <2>2. WholeLines(Stream)
    BY <1>1, <1>2 DEF LineInv
  <2>3. QED
    BY <1>1, <1>2, <2>1, <2>2 DEF LineInv, NoData, WholeLines
<1>10. QED
  BY <1>6, <1>7, <1>8, <1>9 DEF FollowInv

LEMMA PatternRead ==
    ASSUME UartTypes, FollowInv, Uart!PatternLine
    PROVE  /\ uartTask.length \in 1 .. Len(rxBuf) /\ Len(rxBuf) \in Nat /\ IsEnd(uartTask.length)
           /\ Uart!HandleLine(SubSeq(rxBuf, 1, uartTask.length))
           /\ Uart!Reads(uartTask.length)
<1>1. DriverTypes /\ EndInv
  BY DEF FollowInv
<1>2. uartTask.pc = "pattern"
  BY Zenon DEF Uart!PatternLine
<1>3. uartTask.length \in 1 .. Len(rxBuf) /\ Len(rxBuf) \in Nat /\ IsEnd(uartTask.length)
  BY <1>1, <1>2 DEF EndInv, DriverTypes
<1>4. (IF uartTask.length < Len(rxBuf) THEN uartTask.length ELSE Len(rxBuf)) = uartTask.length
  BY <1>3
<1>5. QED
  BY <1>3, <1>4, Zenon DEF Uart!PatternLine

LEMMA LineFollows ==
    ASSUME UartTypes, FollowInv, Uart!PatternLine
    PROVE  FollowInv'
<1>1. /\ uartTask.pc = "pattern" /\ uartTask' = [pc |-> "idle", length |-> 0]
      /\ UNCHANGED << mode, modem, rxIntr, fifo, out, event_queue, mixed >>
  BY Zenon DEF Uart!PatternLine, Uart!Idle
<1>2. /\ DriverTypes /\ EventInv /\ EndInv /\ LineInv
  BY DEF FollowInv
<1> DEFINE n == uartTask.length
<1>3. n \in 1 .. Len(rxBuf) /\ IsEnd(n) /\ Uart!Reads(n)
  BY PatternRead
<1>4. \A i \in 1 .. Len(pats) : n <= pats[i]
  BY <1>1, <1>2 DEF EndInv
<1> HIDE DEF n
<1>5. /\ rxBuf' \in Seq(Chars) /\ Len(rxBuf') = Len(rxBuf) - n /\ Len(rxBuf) \in Nat /\ n \in Nat
      /\ \A i \in 1 .. Len(rxBuf') : rxBuf'[i] = rxBuf[n + i]
      /\ Stream' = SubSeq(Stream, n + 1, Len(Stream))
      /\ pats' = Uart!AfterRead(n)
  <2>1. n \in 0 .. Len(rxBuf) /\ Len(rxBuf) \in Nat /\ n \in Nat
    BY <1>2, <1>3 DEF DriverTypes
  <2>2. QED
    BY <1>1, <1>2, <1>3, <2>1, ReadLeaves
<1>6. /\ pats' \in Seq(Nat) /\ Len(pats') = Len(pats) /\ Len(pats) \in Nat
      /\ \A i \in 1 .. Len(pats) : pats'[i] = pats[i] - n
  <2>1. pats \in Seq(Nat)
    BY <1>2 DEF DriverTypes
  <2>2. QED
    BY <1>4, <1>5, <2>1, NothingGone
<1>7. DriverTypes'
  BY <1>1, <1>2, <1>5, <1>6 DEF DriverTypes, TakePC
<1>8. EventInv'
  <2>1. Announced' = Announced
    BY <1>1, <1>6 DEF Announced
  <2>2. QED
    BY <1>1, <1>2, <2>1 DEF EventInv
<1>9. EndInv'
  <2>1. \A i \in 1 .. Len(pats) : pats[i] + 1 \in 1 .. Len(rxBuf) /\ IsEnd(pats[i] + 1)
    BY <1>2 DEF EndInv
  <2>2. \A i, j \in 1 .. Len(pats) : i < j => pats[i] < pats[j]
    BY <1>2 DEF EndInv
  <2>3. \A i \in 1 .. Len(pats) : pats[i] \in Nat
    BY <1>2 DEF DriverTypes
  <2>4. \A i, j \in 1 .. Len(pats') : i < j => pats'[i] < pats'[j]
    BY <1>5, <1>6, <2>2, <2>3
  <2>5. ASSUME NEW i \in 1 .. Len(pats')
        PROVE  /\ pats'[i] + 1 \in 1 .. Len(rxBuf')
               /\ Uart!EndsLine(rxBuf'[pats'[i] + 1]) /\ (~mixed' => rxBuf'[pats'[i] + 1] = "n")
    <3>1. /\ pats'[i] + 1 \in 1 .. Len(rxBuf') /\ n + (pats'[i] + 1) = pats[i] + 1
      <4>1. pats'[i] = pats[i] - n /\ i \in 1 .. Len(pats)
        BY <1>6
      <4>2. n <= pats[i] /\ pats[i] \in Nat /\ pats[i] + 1 \in 1 .. Len(rxBuf)
        BY <1>4, <2>1, <2>3, <4>1
      <4>3. QED
        BY <1>5, <4>1, <4>2, SMTT(60)
    <3>2. rxBuf'[pats'[i] + 1] = rxBuf[pats[i] + 1]
      BY <1>5, <3>1
    <3>3. IsEnd(pats[i] + 1)
      BY <1>6, <2>1
    <3>4. QED
      BY <1>1, <3>1, <3>2, <3>3 DEF IsEnd
  <2>6. QED
    BY <1>1, <2>4, <2>5 DEF EndInv, IsEnd, Uart!EndsLine, Uart!Idle
<1>10. LineInv'
  <2>1. /\ Stream \in Seq(Chars) /\ n \in 1 .. Len(Stream) /\ n \in 0 .. Len(Stream)
        /\ Stream[n] = rxBuf[n]
    BY <1>2, <1>3, StreamBegins
  <2>2. WholeLines(Stream) /\ Stream[n] \in {"n", "q"}
    BY <1>1, <1>2, <1>3, <2>1 DEF LineInv, IsEnd, Uart!EndsLine
  <2>3. WholeLines(Stream')
    BY <1>5, <2>1, <2>2, LinesLeft
  <2>4. NoData(Stream) => NoData(Stream')
    BY <1>5, <2>1, NoDataLeft
  <2>5. QED
    BY <1>1, <1>2, <2>3, <2>4 DEF LineInv, WholeLines, NoData
<1>11. QED
  BY <1>7, <1>8, <1>9, <1>10 DEF FollowInv

-----------------------------------------------------------------------------
\* The text up to a line end.
LEMMA BeginningIsWhole ==
    ASSUME NEW s \in Seq(Chars), NEW text \in Seq(Chars), WholeLines(s),
           Len(text) \in 1 .. Len(s), \A i \in 1 .. Len(text) : text[i] = s[i],
           text[Len(text)] \in {"n", "q"}
    PROVE  /\ NoData(s) => Uart!Whole(text)
           /\ text[Len(text)] = "n" => Uart!ToSet(text) \cap {"p", "q"} = {}
<1> DEFINE n == Len(text)
<1>1. /\ DOMAIN text = 1 .. n /\ text # << >> /\ n \in Nat \ {0} /\ n <= Len(s) /\ Len(s) \in Nat
      /\ \A i \in 1 .. n : text[i] = s[i]
      /\ text[n] \in {"n", "q"} /\ n \in 1 .. n
  OBVIOUS
<1> HIDE DEF n
<1>2. ASSUME NEW i \in 1 .. n
      PROVE  /\ text[i] = "a" => i + 1 \in 1 .. n /\ text[i + 1] = "b"
             /\ text[i] = "b" => i - 1 \in 1 .. n /\ text[i - 1] = "a"
             /\ text[i] \in {"p", "q"} => text[n] \in {"p", "q"}
  <2>1. /\ s[i] = "a" => s[i + 1] = "b"
        /\ s[i] = "b" => i > 1 /\ s[i - 1] = "a"
        /\ s[i] \in {"p", "q"} => \A j \in i .. Len(s) : s[j] \in {"p", "q"}
    BY <1>1 DEF WholeLines
  <2>2. text[i] = "a" => i + 1 \in 1 .. n
    <3>1. text[i] = "a" => i # n
      BY <1>1
    <3>2. QED
      BY <1>1, <3>1
  <2>3. QED
    BY <1>1, <2>1, <2>2
<1>3. ASSUME NoData(s) PROVE Uart!Whole(text)
  <2>1. \A i \in 1 .. n : text[i] \notin {"p", "q"}
    BY <1>1, <1>3 DEF NoData
  <2>2. Uart!ToSet(text) \cap {"p", "q"} = {}
    BY <1>1, <2>1 DEF Uart!ToSet
  <2>3. text[Len(text)] = "n"
    BY <1>1, <2>1 DEF n
  <2>4. QED
    BY <1>1, <1>2, <2>2, <2>3 DEF Uart!Whole, Uart!Last
<1>4. ASSUME text[n] = "n" PROVE Uart!ToSet(text) \cap {"p", "q"} = {}
  <2>1. \A i \in 1 .. n : text[i] \notin {"p", "q"}
    BY <1>2, <1>4
  <2>2. QED
    BY <1>1, <2>1 DEF Uart!ToSet
<1>5. QED
  BY <1>3, <1>4 DEF n

LEMMA TextIsWhole ==
    ASSUME UartTypes, FollowInv, uartTask.pc = "pattern"
    PROVE  LET text == SubSeq(rxBuf, 1, uartTask.length)
           IN  /\ NoData(Stream) => Uart!Whole(text)
               /\ ~mixed => Uart!ToSet(text) \cap {"p", "q"} = {}
<1> DEFINE text == SubSeq(rxBuf, 1, uartTask.length)
<1>1. /\ DriverTypes /\ EndInv /\ LineInv
  BY DEF FollowInv
<1>2. /\ uartTask.length \in 1 .. Len(rxBuf) /\ Len(rxBuf) \in Nat /\ rxBuf \in Seq(Chars)
      /\ Uart!EndsLine(rxBuf[uartTask.length])
      /\ ~mixed => rxBuf[uartTask.length] = "n"
  BY <1>1 DEF EndInv, IsEnd, DriverTypes
<1>3. PICK n \in 1 .. Len(rxBuf) : n = uartTask.length
  BY <1>2
<1>4. /\ text \in Seq(Chars) /\ Len(text) = n /\ \A i \in 1 .. n : text[i] = rxBuf[i]
  BY <1>2, <1>3
<1> HIDE DEF text
<1>5. /\ \A i \in 1 .. n : text[i] = Stream[i]
      /\ Stream \in Seq(Chars) /\ n \in 1 .. Len(Stream) /\ n \in 1 .. n
  BY <1>1, <1>2, <1>4, StreamBegins
<1>6. text[n] \in {"n", "q"} /\ (~mixed => text[n] = "n")
  BY <1>2, <1>3, <1>4, <1>5 DEF Uart!EndsLine
<1>7. WholeLines(Stream)
  BY <1>1 DEF LineInv
<1>8. /\ NoData(Stream) => Uart!Whole(text)
      /\ ~mixed => Uart!ToSet(text) \cap {"p", "q"} = {}
  BY <1>4, <1>5, <1>6, <1>7, BeginningIsWhole
<1>9. QED
  BY <1>8 DEF text

\* Between a hang-up and its flush nothing counts as wrong.
LEMMA LeavingIsQuiet ==
    ASSUME SenderModes, Leaving
    PROVE  ~Uart!InCommandMode /\ mode # "ppp"
  BY DEF SenderModes, Leaving, Uart!InCommandMode, Uart!Changing

LEMMA WrongNext ==
    UartTypes /\ SenderModes /\ (Followed => FollowInv) /\ Uart!LinesAreWhole /\ [Uart!Next]_uartVars
      => Uart!LinesAreWhole'
<1> SUFFICES ASSUME UartTypes, SenderModes, Followed => FollowInv, Uart!LinesAreWhole,
                    [Uart!Next]_uartVars
             PROVE  Uart!LinesAreWhole'
  OBVIOUS
<1>1. ASSUME wrong' = wrong, stale => stale', overflow => overflow', mixed => mixed'
      PROVE  Uart!LinesAreWhole'
  BY <1>1 DEF Uart!LinesAreWhole
<1>2. ASSUME UNCHANGED << stale, overflow, mixed >>, Leaving => wrong' = wrong,
             Followed => /\ wrong' \subseteq wrong \cup {"data"}
                         /\ ~mixed => wrong' = wrong
      PROVE  Uart!LinesAreWhole'
  <2>1. CASE stale \/ overflow
    BY <1>2, <2>1 DEF Uart!LinesAreWhole
  <2>2. CASE ~stale /\ ~overflow /\ Leaving
    BY <1>1, <1>2, <2>2
  <2>3. CASE Followed
    BY <1>2, <2>3 DEF Uart!LinesAreWhole, Followed
  <2>4. QED
    BY <2>1, <2>2, <2>3 DEF Followed
<1>3. ASSUME NEW text, Uart!HandleLine(text), Leaving PROVE wrong' = wrong
  BY <1>3, LeavingIsQuiet DEF Uart!HandleLine
<1>4. CASE Uart!PatternLine
  <2>1. PICK text : Uart!HandleLine(text) /\ UNCHANGED << stale, overflow, mixed >>
    BY <1>4, Zenon DEF Uart!PatternLine
  <2>2. ASSUME Followed PROVE wrong' \subseteq wrong \cup {"data"} /\ (~mixed => wrong' = wrong)
    <3> DEFINE read == SubSeq(rxBuf, 1, uartTask.length)
    <3>1. FollowInv /\ LineInv /\ uartTask.pc = "pattern"
      BY <1>4, <2>2, Zenon DEF FollowInv, Uart!PatternLine
    <3>2. Uart!HandleLine(read)
      BY <1>4, <3>1, PatternRead
    <3>3. /\ NoData(Stream) => Uart!Whole(read)
          /\ ~mixed => Uart!ToSet(read) \cap {"p", "q"} = {}
      BY <3>1, TextIsWhole
    <3> HIDE DEF read
    <3>4. Uart!InCommandMode => Uart!Whole(read)
      BY <3>1, <3>3 DEF LineInv, Uart!InCommandMode
    <3>5. wrong' = wrong \cup (IF mode = "ppp" /\ Uart!ToSet(read) \cap {"p", "q"} # {} THEN {"data"} ELSE {})
      BY <3>2, <3>4 DEF Uart!HandleLine
    <3>6. QED
      BY <3>3, <3>5
  <2>3. QED
    BY <1>2, <1>3, <2>1, <2>2
<1>5. CASE Uart!DataAsLine
  <2>1. PICK text : Uart!HandleLine(text) /\ UNCHANGED << stale, overflow, mixed >>
    BY <1>5, Zenon DEF Uart!DataAsLine
  <2>2. ~Followed
    <3>1. uartTask.pc = "line"
      BY <1>5, Zenon DEF Uart!DataAsLine
    <3>2. QED
      BY <3>1 DEF FollowInv, DriverTypes, TakePC
  <2>3. QED
    BY <1>2, <1>3, <2>1, <2>2
<1>6. CASE Uart!Discard
  <2>1. /\ uartTask.pc = "discard" /\ UNCHANGED << stale, overflow, mixed >>
        /\ wrong' = wrong \cup (IF Uart!InCommandMode /\ rxBuf \o fifo # << >> THEN {"dropped"} ELSE {})
                          \cup (IF mode = "ppp" /\ rxBuf \o fifo # << >> THEN {"data"} ELSE {})
    BY <1>6, Zenon DEF Uart!Discard
  <2>2. ~Followed
    BY <2>1 DEF FollowInv, DriverTypes, TakePC
  <2>3. Leaving => wrong' = wrong
    BY <2>1, LeavingIsQuiet
  <2>4. QED
    BY <1>2, <2>1, <2>2, <2>3
<1>7. CASE Uart!Flush
  <2>1. wrong' = {}
    BY <1>7, Zenon DEF Uart!Flush
  <2>2. QED
    BY <2>1 DEF Uart!LinesAreWhole
<1>8. CASE \/ Uart!Answers \/ Uart!Unasked \/ \E c \in {"p", "q"} : Uart!Data(c)
           \/ Uart!Arrives \/ Uart!PatternInterrupt \/ Uart!RxInterrupt
           \/ Uart!TakeEvent \/ Uart!OverflowFlush \/ Uart!OverflowReset
           \/ Uart!DataLength \/ Uart!DataMode \/ Uart!DataToNetwork
           \/ Uart!PopPosition \/ UNCHANGED uartVars
  <2>1. /\ UNCHANGED << wrong, stale >> /\ (overflow' = overflow \/ overflow' = TRUE)
        /\ mixed' = mixed \/ mixed' = (mixed \/ "q" \in Uart!ToSet(fifo))
    BY <1>8, Zenon DEF Uart!Answers, Uart!Unasked, Uart!Data, Uart!Arrives, Uart!PatternInterrupt,
                Uart!RxInterrupt, Uart!Received, Uart!TakeEvent, Uart!OverflowFlush, Uart!OverflowReset,
                Uart!DataLength, Uart!DataMode, Uart!DataToNetwork, Uart!PopPosition, Uart!history, uartVars
  <2>2. wrong' = wrong /\ stale' = stale
    BY <2>1
  <2>3. (stale => stale') /\ (overflow => overflow') /\ (mixed => mixed')
    <3>1. overflow => overflow'
      BY <2>1, Zenon
    <3>2. mixed => mixed'
      BY <2>1, Zenon
    <3>3. QED
      BY <2>2, <3>1, <3>2
  <2>4. QED
    BY <1>1, <2>2, <2>3, Zenon
<1>9. CASE \/ \E cmd \in {"plain", "dial", "hangup"} : Uart!Begin(cmd)
           \/ Uart!Write \/ Uart!Completes \/ Uart!TimesOut
           \/ Uart!PatternOff \/ Uart!RxOn \/ Uart!RxOff \/ Uart!PatternOn \/ Uart!ResetPattern
  <2>1. /\ UNCHANGED << wrong, overflow, mixed >>
        /\ \/ stale' = stale \/ stale' = TRUE \/ stale' = (stale \/ pats # << >> \/ uartTask # Uart!Idle)
    BY <1>9, Zenon DEF Uart!Begin, Uart!Write, Uart!Completes, Uart!TimesOut, Uart!PatternOff, Uart!RxOn,
                Uart!RxOff, Uart!PatternOn, Uart!ResetPattern, Uart!Sender, Uart!history
  <2>2. QED
    BY <1>1, <2>1
<1>10. QED
  BY <1>4, <1>5, <1>6, <1>7, <1>8, <1>9, Zenon DEF Uart!Next

LEMMA UartNext == UartInv /\ [Uart!Next]_uartVars => UartInv'
<1> SUFFICES ASSUME UartInv, [Uart!Next]_uartVars PROVE UartInv'
  OBVIOUS
<1>1. UartTypes /\ SenderModes /\ HitInv /\ (Followed => FollowInv) /\ Uart!LinesAreWhole
  BY DEF UartInv
<1>2. UartTypes' /\ SenderModes' /\ HitInv' /\ Uart!LinesAreWhole'
  BY <1>1, UartTypesNext, SenderModesNext, HitNext, WrongNext
<1>3. ASSUME Followed' PROVE FollowInv'
  <2>1. CASE Uart!Flush
    BY <1>3, <2>1, FlushFollows
  <2>2. CASE Followed
    <3>1. FollowInv
      BY <1>1, <2>2
    <3>2. CASE \/ Uart!Answers \/ Uart!Unasked \/ \E c \in {"p", "q"} : Uart!Data(c)
      BY <1>1, <3>1, <3>2, ModemFollows
    <3>3. CASE Uart!Arrives
      BY <1>1, <1>3, <3>1, <3>3, ArrivesFollows
    <3>4. CASE Uart!PatternInterrupt
      BY <1>1, <2>2, <3>1, <3>4, PatternFollows
    <3>5. CASE Uart!RxInterrupt
      BY <1>1, <3>1, <3>5, RxFollows
    <3>6. CASE Uart!TakeEvent \/ Uart!DataLength \/ Uart!DataMode \/ Uart!DataToNetwork
               \/ Uart!PopPosition \/ Uart!PatternLine
      BY <1>1, <2>2, <3>1, <3>6, TakeFollows, LengthFollows, ModeFollows, NetworkFollows, PopFollows,
         LineFollows
    <3>7. CASE \/ \E cmd \in {"plain", "dial", "hangup"} : Uart!Begin(cmd)
               \/ Uart!Write \/ Uart!Completes \/ Uart!TimesOut
               \/ Uart!PatternOff \/ Uart!RxOn \/ Uart!RxOff \/ Uart!PatternOn \/ Uart!ResetPattern
      BY <1>1, <1>3, <2>2, <3>1, <3>7, SenderFollows
    <3>8. ~(Uart!OverflowFlush \/ Uart!OverflowReset \/ Uart!DataAsLine \/ Uart!Discard)
      <4>1. uartTask.pc \in TakePC
        BY <3>1 DEF FollowInv, DriverTypes
      <4>2. Uart!OverflowFlush \/ Uart!OverflowReset \/ Uart!DataAsLine \/ Uart!Discard
            => uartTask.pc \in {"flush", "resetqueue", "line", "discard"}
        BY Zenon DEF Uart!OverflowFlush, Uart!OverflowReset, Uart!DataAsLine, Uart!Discard
      <4>3. QED
        BY <4>1, <4>2 DEF TakePC
    <3>9. CASE UNCHANGED uartVars
      <4>1. UNCHANGED << rxBuf, fifo, out, pats, event_queue, uartTask, mixed, modem, mode, rxIntr >>
        BY <3>9, Zenon DEF uartVars
      <4>2. QED
        BY <3>1, <4>1, FollowRests DEF FollowInv, LineInv
    <3>10. QED
      BY <2>1, <3>2, <3>3, <3>4, <3>5, <3>6, <3>7, <3>8, <3>9, Zenon DEF Uart!Next
  <2>3. QED
    BY <1>1, <1>3, <2>1, <2>2, FollowedBefore
<1>4. QED
  BY <1>2, <1>3 DEF UartInv

\* The handler of modem commands gets whole lines and no data of a call (uart_event_task_entry,
\* esp_modem_dte_change_mode).
THEOREM UsbLinesAreWhole == MCSpec => []Uart!LinesAreWhole
<1>1. MCInit => UartInv
  BY UartStarts DEF MCInit
<1>2. UartInv /\ [MCNext]_<< part, usbdVars, dfuVars, vendorVars, netVars,
                             serialVars, classVars, uartVars >> => UartInv'
  <2>1. [MCNext]_<< part, usbdVars, dfuVars, vendorVars, netVars,
                    serialVars, classVars, uartVars >> => [Uart!Next]_uartVars
    BY DEF MCNext
  <2>2. QED
    BY <2>1, UartNext
<1>3. UartInv => Uart!LinesAreWhole
  BY DEF UartInv
<1>4. QED
  BY <1>1, <1>2, <1>3, PTL DEF MCSpec

\* The serial port, the classes and the UART of the modem together: what the run checks.
THEOREM UsbDriversSound == MCSpec => []DriversSound
<1>1. Ser!SerialSound /\ Cls!ClassesSound /\ Uart!LinesAreWhole => DriversSound
  BY DEF DriversSound
<1>2. QED
  BY <1>1, UsbSerialSound, UsbClassesSound, UsbLinesAreWhole, PTL

=============================================================================
