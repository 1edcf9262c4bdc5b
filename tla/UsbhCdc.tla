------------------------------- MODULE UsbhCdc -------------------------------
(***************************************************************************)
(* The USB CDC host driver (components/esp_usbh_cdc/esp_usbh_cdc.c):             *)
(* _usb_processing_task enumerates the device and tears everything down when   *)
(* it is unplugged, _cdc_data_task moves data between the bulk pipes and two     *)
(* ring buffers, and the tasks of the user read and write the rings.  Data is   *)
(* counted in units that keep their order: a bulk-in transfer brings one unit,  *)
(* a write gives one.  The host controller driver (HCD) belongs to esp-idf;     *)
(* its port and pipes are modelled from the calls made here.                    *)
(***************************************************************************)
EXTENDS Integers, Sequences, FiniteSets, Functions

CONSTANTS
    InUrbs, OutUrbs,     \* BULK_IN_URB_NUM, BULK_OUT_URB_NUM
    BulkSize,            \* BUFFER_SIZE_BULK_OUT in units
    RxSize, TxSize,      \* sizes of the ring buffers in units
    ReadLen,             \* length the user asks usbh_cdc_read_bytes for
    Requests,            \* control transfers of an enumeration (6 by default)
    MaxUnits, MaxPlugs, MaxFail   \* bounds of the model

CdcAssumption ==
    /\ {InUrbs, OutUrbs, BulkSize, RxSize, TxSize, ReadLen, Requests} \subseteq Nat \ {0}
    /\ {MaxUnits, MaxPlugs, MaxFail} \subseteq Nat

VARIABLES
    plugged, plugs,      \* the device
    port, pevt,          \* HCD port: state, event that waits for handling
    pq, ctrl,            \* queue of the processing task, control URB
    ppc, req,            \* the processing task, its control request
    dpipe, hasTask,      \* pipe_hdl_dflt and cdc_data_task_hdl are set
    ready, kill, killdrv,              \* bits of s_usb_event_group
    dpc, dq,             \* the data task and its queue
    inFree, inDone,      \* bulk-in URBs that wait for data, that have some
    outq, outDone,       \* bulk-out URBs in the pipe, and done
    pending,             \* the static list pendding_urb
    sending,             \* units taken from the ring, not yet counted
    in_ring, in_len, out_ring, out_len,
    rpc, taken, popped, wpc,           \* a reader, a writer
    sent, got, lostIn,                 \* units of the device (history)
    written, received, lostOut, fails, \* units of the user (history)
    broken               \* where the model ends: "assert" or "freed"

bus   == << plugged, plugs >>
proc  == << ppc, req, dpipe, hasTask >>
bits  == << ready, kill, killdrv >>
inp   == << inFree, inDone >>
outp  == << outq, outDone, pending, sending >>
inb   == << in_ring, in_len, rpc, taken, popped, sent, got, lostIn >>
outb  == << out_ring, out_len, wpc, written, received, lostOut, fails >>
vars  == << bus, port, pevt, pq, ctrl, proc, bits, dpc, dq, inp, outp, inb, outb, broken >>

Init ==
    /\ plugged = FALSE /\ plugs = 0
    /\ port = "off" /\ pevt = "none" /\ pq = << >> /\ ctrl = "none"
    /\ ppc = "power" /\ req = 0 /\ dpipe = FALSE /\ hasTask = FALSE
    /\ ready = FALSE /\ kill = FALSE /\ killdrv = FALSE
    /\ dpc = "none" /\ dq = << >> /\ inFree = 0 /\ inDone = << >>
    /\ outq = << >> /\ outDone = << >> /\ sending = << >>
    /\ pending = [i \in 1 .. OutUrbs |-> "none"]
    /\ in_ring = << >> /\ in_len = 0 /\ out_ring = << >> /\ out_len = 0
    /\ rpc = "idle" /\ taken = 0 /\ popped = 0 /\ wpc = "idle"
    /\ sent = 0 /\ got = << >> /\ lostIn = {}
    /\ written = 0 /\ received = << >> /\ lostOut = {} /\ fails = 0
    /\ broken = "no"

-----------------------------------------------------------------------------
(* The device and the port of the host controller *)

Plug ==
    /\ ~ plugged /\ plugs < MaxPlugs
    /\ plugged' = TRUE /\ plugs' = plugs + 1
    /\ UNCHANGED << port, pevt, pq, ctrl, proc, bits, dpc, dq, inp, outp, inb, outb, broken >>

\* _usb_port_callback queues a message; the event itself waits in the port.
Raise(event) == pevt' = event /\ pq' = Append(pq, "port")

Connected ==
    /\ plugged /\ port = "on" /\ pevt = "none"
    /\ Raise("conn")
    /\ UNCHANGED << bus, port, ctrl, proc, bits, dpc, dq, inp, outp, inb, outb, broken >>

\* No transfer completes any more, no pipe can be made, no URB enqueued.
Unplug ==
    /\ plugged
    /\ plugged' = FALSE
    /\ IF port \in {"disabled", "enabled"}
         THEN port' = "recovery" /\ Raise("disc")
         ELSE UNCHANGED << port, pevt, pq >>
    /\ UNCHANGED << plugs, ctrl, proc, bits, dpc, dq, inp, outp, inb, outb, broken >>

\* hcd_port_handle_event: a connection must last through the debouncing.
HandleEvent ==
    /\ pevt' = "none"
    /\ port' = IF pevt = "conn" /\ plugged THEN "disabled" ELSE port

PipesOpen == dpc \notin {"none", "start"}

\* hcd_port_recover works on a port without pipes and without an event.
Recovered == IF port = "recovery" /\ pevt = "none" /\ ~ dpipe /\ ~ PipesOpen THEN "off" ELSE port

-----------------------------------------------------------------------------
(* _usb_processing_task *)

PowerOn ==
    /\ ppc = "power"
    /\ ppc' = "wait"
    /\ port' = IF port = "off" THEN "on" ELSE port
    /\ UNCHANGED << bus, pevt, pq, ctrl, req, dpipe, hasTask, bits, dpc, dq, inp, outp, inb, outb, broken >>

\* A pipe event is only logged.
LoopReceive ==
    /\ ppc = "wait" /\ ~ killdrv /\ pq # << >>
    /\ pq' = Tail(pq)
    /\ IF Head(pq) = "port"
         THEN /\ HandleEvent
              /\ ppc' = CASE pevt = "conn" -> "portreset"
                          [] pevt = "disc" -> "reset"
                          [] OTHER -> "wait"
         ELSE UNCHANGED << port, pevt, ppc >>
    /\ UNCHANGED << bus, ctrl, req, dpipe, hasTask, bits, dpc, dq, inp, outp, inb, outb, broken >>

LoopEnds ==
    /\ ppc = "wait" /\ killdrv
    /\ ppc' = "reset"
    /\ UNCHANGED << bus, port, pevt, pq, ctrl, req, dpipe, hasTask, bits, dpc, dq, inp, outp, inb, outb, broken >>

\* Reset of the port, its speed and the default pipe.
PortReset ==
    /\ ppc = "portreset"
    /\ IF port = "disabled"
         THEN port' = "enabled" /\ dpipe' = TRUE /\ req' = 1 /\ ppc' = "request"
         ELSE ppc' = "reset" /\ UNCHANGED << port, dpipe, req >>
    /\ UNCHANGED << bus, pevt, pq, ctrl, hasTask, bits, dpc, dq, inp, outp, inb, outb, broken >>

EnqueueRequest ==
    /\ ppc = "request"
    /\ IF port = "enabled" THEN ctrl' = "queued" /\ ppc' = "answer"
                           ELSE ppc' = "reset" /\ UNCHANGED ctrl
    /\ UNCHANGED << bus, port, pevt, pq, req, dpipe, hasTask, bits, dpc, dq, inp, outp, inb, outb, broken >>

\* The device answers, or refuses: the status is looked at, but the request
\* returns ESP_OK all the same.
RequestDone ==
    /\ ctrl = "queued" /\ port = "enabled"
    /\ ctrl' = "done" /\ pq' = Append(pq, "done")
    /\ UNCHANGED << bus, port, pevt, proc, bits, dpc, dq, inp, outp, inb, outb, broken >>

\* _default_pipe_event_wait_until handles events of the port in passing.
AwaitAnswer ==
    /\ ppc = "answer" /\ pq # << >>
    /\ pq' = Tail(pq)
    /\ IF Head(pq) = "port"
         THEN HandleEvent /\ UNCHANGED << ctrl, req, ppc >>
         ELSE /\ ctrl' = "none"
              /\ IF req < Requests THEN req' = req + 1 /\ ppc' = "request"
                                   ELSE req' = 0 /\ ppc' = "create"
              /\ UNCHANGED << port, pevt >>
    /\ UNCHANGED << bus, dpipe, hasTask, bits, dpc, dq, inp, outp, inb, outb, broken >>

\* After 5 s the pipe is flushed and the URB taken back.
AnswerTimeout ==
    /\ ppc = "answer" /\ pq = << >>
    /\ ctrl' = "none" /\ req' = 0 /\ ppc' = "reset"
    /\ UNCHANGED << bus, port, pevt, pq, dpipe, hasTask, bits, dpc, dq, inp, outp, inb, outb, broken >>

CreateDataTask ==
    /\ ppc = "create"
    /\ dpc' = "start" /\ hasTask' = TRUE /\ ppc' = "wait"
    /\ UNCHANGED << bus, port, pevt, pq, ctrl, req, dpipe, bits, dq, inp, outp, inb, outb, broken >>

ResetDriver ==
    /\ ppc = "reset"
    /\ IF hasTask THEN kill' = TRUE /\ ppc' = "killwait"
                  ELSE ppc' = "droppipe" /\ UNCHANGED kill
    /\ UNCHANGED << bus, port, pevt, pq, ctrl, req, dpipe, hasTask, ready, killdrv, dpc, dq, inp, outp, inb, outb, broken >>

TaskGone_unchecked == TRUE

TaskGone == ~ kill

KillWait ==
    /\ ppc = "killwait" /\ TaskGone
    /\ hasTask' = FALSE /\ ppc' = "droppipe"
    /\ UNCHANGED << bus, port, pevt, pq, ctrl, req, dpipe, bits, dpc, dq, inp, outp, inb, outb, broken >>

Swallowed_unhandled == UNCHANGED << port, pevt >>

Swallowed == HandleEvent

\* _usb_pipe_deinit waits up to 200 ms for the event of the flushed pipe.
SwallowEvent ==
    /\ ppc = "droppipe" /\ dpipe /\ pq # << >> /\ Head(pq) = "port"
    /\ pq' = Tail(pq) /\ Swallowed
    /\ UNCHANGED << bus, ctrl, proc, bits, dpc, dq, inp, outp, inb, outb, broken >>

DropPipe ==
    /\ ppc = "droppipe"
    /\ dpipe /\ pq # << >> => Head(pq) = "done"
    /\ pq' = IF dpipe /\ pq # << >> THEN Tail(pq) ELSE pq
    /\ dpipe' = FALSE /\ ppc' = "recover"
    /\ UNCHANGED << bus, port, pevt, ctrl, req, hasTask, bits, dpc, dq, inp, outp, inb, outb, broken >>

Recover ==
    /\ ppc = "recover"
    /\ port' = Recovered
    /\ ppc' = IF killdrv THEN "deinit" ELSE "power"
    /\ UNCHANGED << bus, pevt, pq, ctrl, req, dpipe, hasTask, bits, dpc, dq, inp, outp, inb, outb, broken >>

\* usbh_cdc_driver_delete: the caller has ended the tasks that read and write.
DriverDelete ==
    /\ ppc # "gone" /\ ~ killdrv /\ rpc = "idle" /\ wpc = "idle"
    /\ killdrv' = TRUE
    /\ UNCHANGED << bus, port, pevt, pq, ctrl, proc, ready, kill, dpc, dq, inp, outp, inb, outb, broken >>

\* _usb_port_deinit; the bit tells the caller that the task is gone.
Deinit ==
    /\ ppc = "deinit"
    /\ port' = "off" /\ pevt' = "none" /\ pq' = << >>
    /\ killdrv' = FALSE /\ ppc' = "gone"
    /\ UNCHANGED << bus, ctrl, req, dpipe, hasTask, ready, kill, dpc, dq, inp, outp, inb, outb, broken >>

-----------------------------------------------------------------------------
(* _cdc_data_task *)

\* The pipes of a port without a device cannot be made: the assertion restarts
\* the chip.
DataStart ==
    /\ dpc = "start"
    /\ IF port = "enabled" THEN dpc' = "pipes" /\ UNCHANGED broken
                           ELSE broken' = "assert" /\ UNCHANGED dpc
    /\ UNCHANGED << bus, port, pevt, pq, ctrl, proc, bits, dq, inp, outp, inb, outb >>

\* The URBs for writing start with an empty packet.
DataReady ==
    /\ dpc = "pipes"
    /\ IF port = "enabled"
         THEN inFree' = InUrbs /\ outq' = [i \in 1 .. OutUrbs |-> << >>]
         ELSE UNCHANGED << inFree, outq >>
    /\ ready' = TRUE /\ dpc' = "run"
    /\ UNCHANGED << bus, port, pevt, pq, ctrl, proc, kill, killdrv, dq, inDone, outDone, pending, sending, inb, outb, broken >>

UnitsLeft == sent + written + (IF wpc = "push" THEN 1 ELSE 0) < MaxUnits

\* The device fills a bulk-in URB.
InTransfer ==
    /\ port = "enabled" /\ inFree > 0 /\ UnitsLeft
    /\ sent' = sent + 1
    /\ inFree' = inFree - 1 /\ inDone' = Append(inDone, sent + 1)
    /\ dq' = Append(dq, "in")
    /\ UNCHANGED << bus, port, pevt, pq, ctrl, proc, bits, dpc, outp, in_ring, in_len, rpc, taken, popped, got, lostIn, outb, broken >>

\* The device takes the data of a bulk-out URB, or the transfer fails.
OutTransfer(ok) ==
    /\ port = "enabled" /\ outq # << >>
    /\ ok \/ fails < MaxFail
    /\ fails' = IF ok THEN fails ELSE fails + 1
    /\ received' = IF ok THEN received \o Head(outq) ELSE received
    /\ outq' = Tail(outq)
    /\ outDone' = Append(outDone, [ok |-> ok, data |-> IF ok THEN << >> ELSE Head(outq)])
    /\ dq' = Append(dq, "out")
    /\ UNCHANGED << bus, port, pevt, pq, ctrl, proc, bits, dpc, inp, pending, sending, inb, out_ring, out_len, wpc, written, lostOut, broken >>

Runs == dpc = "run" /\ ~ kill

Received_peeked(q) == q

Received(q) == Tail(q)

TakeIn ==
    /\ Runs /\ dq # << >> /\ Head(dq) = "in"
    /\ dq' = Received(dq) /\ dpc' = "push"
    /\ UNCHANGED << bus, port, pevt, pq, ctrl, proc, bits, inp, outp, inb, outb, broken >>

PushIn ==
    /\ dpc = "push" /\ Len(in_ring) < RxSize
    /\ in_ring' = Append(in_ring, Head(inDone)) /\ inDone' = Tail(inDone)
    /\ dpc' = "incount"
    /\ UNCHANGED << bus, port, pevt, pq, ctrl, proc, bits, dq, inFree, outp, in_len, rpc, taken, popped, sent, got, lostIn, outb, broken >>

\* Back into the pipe; a port that has lost its device takes no URB.
InUrbBack == inFree' = IF port = "enabled" THEN inFree + 1 ELSE inFree

CountIn ==
    /\ dpc = "incount"
    /\ in_len' = in_len + 1
    /\ InUrbBack /\ dpc' = "run"
    /\ UNCHANGED << bus, port, pevt, pq, ctrl, proc, bits, dq, inDone, outp, in_ring, rpc, taken, popped, sent, got, lostIn, outb, broken >>

\* The ring stays full for 200 ms: the data is skipped.
SkipIn ==
    /\ dpc = "push" /\ Len(in_ring) = RxSize
    /\ lostIn' = lostIn \union {Head(inDone)} /\ inDone' = Tail(inDone)
    /\ InUrbBack /\ dpc' = "run"
    /\ UNCHANGED << bus, port, pevt, pq, ctrl, proc, bits, dq, outp, in_ring, in_len, rpc, taken, popped, sent, got, outb, broken >>

Pending == { i \in 1 .. OutUrbs : pending[i] # "none" }

FirstOf(S) == CHOOSE i \in S : \A j \in S : i <= j

WithDone_firstPlace == [pending EXCEPT ![1] = "live"]

\* The done URB goes to the first free place of the list, if there is one.
WithDone ==
    LET free == 1 .. OutUrbs \ Pending
    IN  IF free = {} THEN pending ELSE [pending EXCEPT ![FirstOf(free)] = "live"]

\* Nothing more to do when the counter says that the ring is empty.
SendNext == dpc' = IF out_len = 0 THEN "run" ELSE "send"

Retried(done) == Append(outq, done.data)

TakeOut ==
    /\ Runs /\ dq # << >> /\ Head(dq) = "out"
    /\ dq' = Received(dq) /\ outDone' = Tail(outDone)
    /\ IF Head(outDone).ok
         THEN pending' = WithDone /\ SendNext /\ UNCHANGED << outq, lostOut >>
         ELSE /\ IF port = "enabled"
                   THEN outq' = Retried(Head(outDone)) /\ UNCHANGED lostOut
                   ELSE lostOut' = lostOut \union Range(Head(outDone).data) /\ UNCHANGED outq
              /\ UNCHANGED << pending, dpc >>
    /\ UNCHANGED << bus, port, pevt, pq, ctrl, proc, bits, inp, sending, inb, out_ring, out_len, wpc, written, received, fails, broken >>

Poll == dpc' = "send"

\* No event for one tick.
PollOut ==
    /\ Runs /\ dq = << >> /\ Pending # {} /\ out_len # 0
    /\ Poll
    /\ UNCHANGED << bus, port, pevt, pq, ctrl, proc, bits, dq, inp, outp, inb, outb, broken >>

\* The ring gives what lies in one piece; an URB of an earlier connection has
\* been freed.
PopOut ==
    /\ dpc = "send" /\ out_ring # << >>
    /\ IF pending[FirstOf(Pending)] = "stale"
         THEN broken' = "freed" /\ UNCHANGED << dpc, sending, out_ring >>
         ELSE \E k \in 1 .. Len(out_ring) :
                /\ k <= BulkSize
                /\ sending' = SubSeq(out_ring, 1, k)
                /\ out_ring' = SubSeq(out_ring, k + 1, Len(out_ring))
                /\ dpc' = "outcount" /\ UNCHANGED broken
    /\ UNCHANGED << bus, port, pevt, pq, ctrl, proc, bits, dq, inp, outq, outDone, pending, inb, out_len, wpc, written, received, lostOut, fails >>

PopNothing ==
    /\ dpc = "send" /\ out_ring = << >>
    /\ dpc' = "run"
    /\ UNCHANGED << bus, port, pevt, pq, ctrl, proc, bits, dq, inp, outp, inb, outb, broken >>

\* The counter, then the URB.
CountOut ==
    /\ dpc = "outcount"
    /\ out_len' = out_len - Len(sending)
    /\ IF port = "enabled" THEN outq' = Append(outq, sending) /\ UNCHANGED lostOut
                           ELSE lostOut' = lostOut \union Range(sending) /\ UNCHANGED outq
    /\ pending' = [pending EXCEPT ![FirstOf(Pending)] = "none"]
    /\ sending' = << >> /\ dpc' = "run"
    /\ UNCHANGED << bus, port, pevt, pq, ctrl, proc, bits, dq, inp, outDone, inb, out_ring, wpc, written, received, fails, broken >>

DataKilled ==
    /\ dpc = "run" /\ kill
    /\ ready' = FALSE /\ dpc' = "close"
    /\ UNCHANGED << bus, port, pevt, pq, ctrl, proc, kill, killdrv, dq, inp, outp, inb, outb, broken >>

\* Pipes and URBs are freed; the list keeps the pointers.
Close ==
    /\ dpc = "close"
    /\ lostIn' = lostIn \union Range(inDone)
    /\ lostOut' = lostOut \union (UNION { Range(outq[k]) : k \in 1 .. Len(outq) })
                          \union (UNION { Range(outDone[k].data) : k \in 1 .. Len(outDone) })
    /\ inFree' = 0 /\ inDone' = << >> /\ outq' = << >> /\ outDone' = << >> /\ dq' = << >>
    /\ pending' = [i \in 1 .. OutUrbs |-> IF pending[i] = "none" THEN "none" ELSE "stale"]
    /\ kill' = FALSE /\ dpc' = "none"
    /\ UNCHANGED << bus, port, pevt, pq, ctrl, proc, ready, killdrv, sending, in_ring, in_len, rpc, taken, popped, sent, got, out_ring, out_len, wpc, written, received, fails, broken >>

-----------------------------------------------------------------------------
(* usbh_cdc_read_bytes and usbh_cdc_write_bytes, each with its mutex: one reader *)
(* and one writer stand for all                                              *)

drv == << bus, port, pevt, pq, ctrl, proc, bits, dpc, dq, inp, outp, broken >>

ReadEnter ==
    /\ rpc = "idle" /\ ready /\ ~ killdrv
    /\ rpc' = "pop" /\ taken' = 0
    /\ UNCHANGED << drv, in_ring, in_len, popped, sent, got, lostIn, outb >>

Copied(piece) == got \o piece

\* The data may lie in two pieces: a second attempt does not wait.
ReadPop ==
    /\ rpc \in {"pop", "again"} /\ in_ring # << >>
    /\ \E k \in 1 .. Len(in_ring) :
         /\ k <= ReadLen - taken
         /\ got' = Copied(SubSeq(in_ring, 1, k))
         /\ in_ring' = SubSeq(in_ring, k + 1, Len(in_ring))
         /\ popped' = k /\ taken' = taken + k
    /\ rpc' = IF rpc = "pop" THEN "count" ELSE "countlast"
    /\ UNCHANGED << drv, in_len, sent, lostIn, outb >>

Counted == popped

ReadCount ==
    /\ rpc \in {"count", "countlast"}
    /\ in_len' = in_len - Counted /\ popped' = 0
    /\ rpc' = IF rpc = "count" THEN "again" ELSE "idle"
    /\ UNCHANGED << drv, in_ring, taken, sent, got, lostIn, outb >>

ReadNothing ==
    /\ rpc \in {"pop", "again"}
    /\ in_ring = << >> \/ taken = ReadLen
    /\ rpc' = "idle"
    /\ UNCHANGED << drv, in_ring, in_len, taken, popped, sent, got, lostIn, outb >>

WriteEnter ==
    /\ wpc = "idle" /\ ready /\ ~ killdrv /\ UnitsLeft
    /\ wpc' = "push"
    /\ UNCHANGED << drv, inb, out_ring, out_len, written, received, lostOut, fails >>

WritePush ==
    /\ wpc = "push" /\ Len(out_ring) < TxSize
    /\ out_ring' = Append(out_ring, written + 1) /\ written' = written + 1
    /\ wpc' = "count"
    /\ UNCHANGED << drv, inb, out_len, received, lostOut, fails >>

WriteCount ==
    /\ wpc = "count"
    /\ out_len' = out_len + 1 /\ wpc' = "idle"
    /\ UNCHANGED << drv, inb, out_ring, written, received, lostOut, fails >>

\* Full for 200 ms: nothing is written.
WriteFails ==
    /\ wpc = "push" /\ Len(out_ring) = TxSize
    /\ wpc' = "idle"
    /\ UNCHANGED << drv, inb, out_ring, out_len, written, received, lostOut, fails >>

-----------------------------------------------------------------------------
Processing ==
    \/ PowerOn \/ LoopReceive \/ LoopEnds \/ PortReset \/ EnqueueRequest
    \/ AwaitAnswer \/ AnswerTimeout \/ CreateDataTask \/ ResetDriver \/ KillWait
    \/ SwallowEvent \/ DropPipe \/ Recover \/ Deinit

DataTask ==
    \/ DataStart \/ DataReady \/ TakeIn \/ PushIn \/ CountIn \/ SkipIn
    \/ TakeOut \/ PollOut \/ PopOut \/ PopNothing \/ CountOut \/ DataKilled \/ Close

WriterGoesOn == WritePush \/ WriteCount \/ WriteFails

Reader == ReadEnter \/ ReadPop \/ ReadCount \/ ReadNothing
Writer == WriteEnter \/ WriterGoesOn
Device == Plug \/ Connected \/ Unplug \/ RequestDone \/ InTransfer \/ \E ok \in BOOLEAN : OutTransfer(ok)

Running == broken = "no"

Next == Running /\ (Device \/ Processing \/ DataTask \/ Reader \/ Writer \/ DriverDelete)

Spec == Init /\ [][Next]_vars

\* The two tasks run, a write that has begun goes on and the device takes what is
\* offered; it need not answer a request, send anything or stay.
Fairness ==
    /\ WF_vars(Running /\ Processing) /\ WF_vars(Running /\ DataTask)
    /\ WF_vars(Running /\ WriterGoesOn) /\ WF_vars(Running /\ OutTransfer(TRUE))

FairSpec == Spec /\ Fairness

-----------------------------------------------------------------------------
UrbStates == {"none", "live", "stale"}

\* Types of the variables.
TypeOK ==
    /\ plugged \in BOOLEAN /\ plugs \in 0 .. MaxPlugs
    /\ port \in {"off", "on", "disabled", "enabled", "recovery"}
    /\ pevt \in {"none", "conn", "disc"}
    /\ pq \in Seq({"port", "done"}) /\ ctrl \in {"none", "queued", "done"}
    /\ ppc \in {"power", "wait", "portreset", "request", "answer", "create",
                "reset", "killwait", "droppipe", "recover", "deinit", "gone"}
    /\ req \in 0 .. Requests /\ {dpipe, hasTask, ready, kill, killdrv} \subseteq BOOLEAN
    /\ dpc \in {"none", "start", "pipes", "run", "push", "incount", "send", "outcount", "close"}
    /\ dq \in Seq({"in", "out"}) /\ Len(dq) = Len(inDone) + Len(outDone) - (IF dpc = "push" THEN 1 ELSE 0)
    /\ inFree \in 0 .. InUrbs /\ Len(inDone) <= InUrbs /\ Len(outq) + Len(outDone) <= OutUrbs
    /\ pending \in [1 .. OutUrbs -> UrbStates]
    /\ Len(in_ring) <= RxSize /\ Len(out_ring) <= TxSize /\ in_len \in Int /\ out_len \in Int
    /\ rpc \in {"idle", "pop", "count", "again", "countlast"} /\ taken \in 0 .. ReadLen
    /\ wpc \in {"idle", "push", "count"}
    /\ sent \in 0 .. MaxUnits /\ written \in 0 .. MaxUnits /\ fails \in 0 .. MaxFail
    /\ broken \in {"no", "assert", "freed"}

\* The counters of buffered data, which are changed after the rings, differ from
\* them by what a task has moved and not counted yet, across connections too.
LengthsAccount ==
    /\ in_len = Len(in_ring) + popped - (IF dpc = "incount" THEN 1 ELSE 0)
    /\ out_len = Len(out_ring) + Len(sending) - (IF wpc = "count" THEN 1 ELSE 0)

\* What the device sends reaches the reader in order and once, or was skipped
\* for want of room or lost with the connection.
InAccounts ==
    LET onWay == got \o in_ring \o inDone
    IN  /\ \A i, j \in 1 .. Len(onWay) : i < j => onWay[i] < onWay[j]
        /\ Range(onWay) \union lostIn = 1 .. sent
        /\ Range(onWay) \intersect lostIn = {}

\* Copies of unit u between the user and the device.
Copies(u) ==
    LET In(s) == Cardinality({ k \in 1 .. Len(s) : s[k] = u })
    IN  In(received) + In(sending) + In(out_ring) + (IF u \in lostOut THEN 1 ELSE 0)
        + Cardinality({ k \in 1 .. Len(outq) : u \in Range(outq[k]) })
        + Cardinality({ k \in 1 .. Len(outDone) : u \in Range(outDone[k].data) })

\* Each unit that is written is in one place: in the ring, in one URB, at the
\* device, or lost with the connection; without failed transfers the device
\* receives them in order.
OutAccounts ==
    /\ \A u \in 1 .. written : Copies(u) = 1
    /\ fails = 0 => \A i, j \in 1 .. Len(received) : i < j => received[i] < received[j]

\* Each URB for writing is in the pipe, in a done event or in the list, so that
\* data in the ring finds one; a done URB is not forgotten (first connection).
UrbsConserved ==
    port = "enabled" /\ ready /\ (\A i \in 1 .. OutUrbs : pending[i] # "stale")
        => Len(outq) + Len(outDone) + Cardinality(Pending) = OutUrbs

\* The processing task makes one data task at a time, and resets the driver when
\* the one it made has given back its pipes.
TeardownInOrder ==
    /\ ppc \in {"portreset", "request", "answer", "create", "recover"} => dpc = "none" /\ ~ ready
    /\ ppc = "recover" => ~ dpipe /\ ~ hasTask /\ ~ kill
    /\ dpc # "none" => dpipe

\* The list of URBs only leads to URBs of this connection
\* ("will automatically handle the hot plug").
UrbsAreLive == broken # "freed"

\* Data in the ring is sent "during USB bus free", also when its counter was
\* still zero at the last event, as long as the device stays.
WrittenIsSent ==
    (ready /\ out_ring # << >>) ~> (out_ring = << >> \/ ~ ready \/ ~ Running)

\* A disconnection at any step of the enumeration, or of the teardown, is noticed
\* and leads to a recovered port.
PortRecovers == (port = "recovery") ~> (port # "recovery" \/ ~ Running)
=============================================================================
