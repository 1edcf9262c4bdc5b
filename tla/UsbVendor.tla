------------------------------ MODULE UsbVendor ------------------------------
(***************************************************************************)
(* The vendor class of the USB device (vendor_device.c) with its two queues and    *)
(* its two endpoints, and the task of the Web USB console that uses it from its    *)
(* own context (tusb_webusb.c).  Both tasks arm the endpoints, and neither claims  *)
(* them.  Lengths are counted in packets.                                       *)
(***************************************************************************)
EXTENDS Integers, Sequences

CONSTANTS
    RxSize, TxSize,   \* CFG_TUD_VENDOR_RX_BUFSIZE, CFG_TUD_VENDOR_TX_BUFSIZE
    MaxPackets,       \* bounds of the model: packets of the host,
    MaxConnects       \*   and requests to connect or disconnect

VendorAssumption == RxSize \in Nat \ {0}   \* the class is built with a queue

VARIABLES
    rx_ff, tx_ff,     \* the queues
    outBuf, outBusy,  \* epout_buf and the endpoint it belongs to
    inBuf, inBusy,
    done,             \* transfers that are complete and not yet handled by tud_task
    pc,               \* what tud_task ("usb") and webusb_task ("web") do
    web_serial_connected, webusb_connected_flag,
    connects,         \* connects and disconnects so far
    toDevice, got,    \* packets of the host, packets the task has read (history)
    wrote, toHost,    \* replies the task has written, packets the host got (history)
    raced, missed     \* the tasks met at an endpoint, a connect met the leaving task (history)

vendorVars == << rx_ff, tx_ff, outBuf, outBusy, inBuf, inBusy, done, pc, web_serial_connected,
                 webusb_connected_flag, connects, toDevice, got, wrote, toHost, raced, missed >>

outSide == << rx_ff, outBuf, outBusy, toDevice, got >>
inSide == << tx_ff, inBuf, inBusy, wrote, toHost >>
serial == << web_serial_connected, webusb_connected_flag, connects, missed >>
Tasks == {"usb", "web"}

\* vendord_open has armed the OUT endpoint.
Init ==
    /\ rx_ff = << >> /\ tx_ff = << >>
    /\ outBuf = 0 /\ outBusy = TRUE /\ inBuf = 0 /\ inBusy = FALSE
    /\ done = << >>
    /\ pc = [usb |-> "idle", web |-> "none"]
    /\ web_serial_connected = FALSE /\ webusb_connected_flag = FALSE /\ connects = 0
    /\ toDevice = << >> /\ got = << >> /\ wrote = << >> /\ toHost = << >>
    /\ raced = FALSE /\ missed = FALSE

Go(t, s) == pc' = [pc EXCEPT ![t] = s]
Rest(t) == Go(t, IF t = "usb" THEN "idle" ELSE "poll")
IsDone(x) == \E i \in 1..Len(done) : done[i] = x

-----------------------------------------------------------------------------
(* The host and the controller *)

\* A packet for an endpoint that is armed.
HostSends ==
    /\ outBusy /\ ~IsDone("out") /\ Len(toDevice) < MaxPackets
    /\ toDevice' = Append(toDevice, Len(toDevice) + 1)
    /\ outBuf' = Len(toDevice) + 1
    /\ done' = Append(done, "out")
    /\ UNCHANGED << rx_ff, outBusy, got, inSide, pc, serial, raced >>

HostReads ==
    /\ inBusy /\ ~IsDone("in")
    /\ toHost' = Append(toHost, inBuf)
    /\ done' = Append(done, "in")
    /\ UNCHANGED << outSide, tx_ff, inBuf, inBusy, wrote, pc, serial, raced >>

-----------------------------------------------------------------------------
(* tud_task *)

XferComplete ==
    /\ pc["usb"] = "idle" /\ done # << >>
    /\ done' = Tail(done)
    /\ outBusy' = (outBusy /\ Head(done) # "out")
    /\ inBusy' = (inBusy /\ Head(done) # "in")
    /\ Go("usb", IF Head(done) = "out" THEN "copy" ELSE "transmit")
    /\ UNCHANGED << rx_ff, outBuf, toDevice, got, tx_ff, inBuf, wrote, toHost, serial, raced >>

\* vendord_xfer_cb of the OUT endpoint; the queue takes what fits.
Copy ==
    /\ pc["usb"] = "copy"
    /\ rx_ff' = IF Len(rx_ff) < RxSize THEN Append(rx_ff, outBuf) ELSE rx_ff
    /\ Go("usb", "prepare")
    /\ UNCHANGED << outBuf, outBusy, toDevice, got, inSide, done, serial, raced >>

\* tud_vendor_control_xfer_cb: request 0x22.
Connect(on) ==
    /\ pc["usb"] = "idle" /\ connects < MaxConnects
    /\ connects' = connects + 1
    /\ web_serial_connected' = on
    /\ IF on /\ ~webusb_connected_flag
       THEN /\ webusb_connected_flag' = TRUE
            /\ Go("web", "poll")
       ELSE UNCHANGED << webusb_connected_flag, pc >>
    /\ missed' = (missed \/ (on /\ pc["web"] = "leaving"))
    /\ UNCHANGED << outSide, inSide, done, raced >>

\* vendord_reset and vendord_open.  A task that is at an endpoint is not stopped.
Reset ==
    /\ pc["usb"] = "idle"
    /\ rx_ff' = << >> /\ tx_ff' = << >> /\ done' = << >>
    /\ outBusy' = TRUE /\ inBusy' = FALSE
    /\ toDevice' = << >> /\ got' = << >> /\ wrote' = << >> /\ toHost' = << >>
    /\ raced' = (raced \/ pc["web"] \notin {"none", "poll", "leaving"})
    /\ connects < MaxConnects /\ connects' = connects + 1
    /\ UNCHANGED << outBuf, inBuf, pc, web_serial_connected, webusb_connected_flag, missed >>

-----------------------------------------------------------------------------
(* Both tasks: _prep_out_transaction, maybe_transmit *)

After(t) == IF t = "usb" THEN Rest(t) ELSE Go(t, "reply")
\* The other task is between the end of a transfer and the next one, too.
Meets(t) == \E u \in Tasks \ {t} : pc[u] \in {"copy", "prepare", "arm"}

HasRoom_unchecked == TRUE
HasRoom == Len(rx_ff) < RxSize
PrepOut(t) ==
    /\ pc[t] = "prepare"
    /\ IF ~outBusy /\ HasRoom THEN Go(t, "arm") ELSE After(t)
    /\ raced' = (raced \/ Meets(t))
    /\ UNCHANGED << outSide, inSide, done, serial >>

\* usbd_edpt_xfer, which refuses an endpoint that has become busy.
Arm(t) ==
    /\ pc[t] = "arm"
    /\ outBusy' = TRUE
    /\ raced' = (raced \/ outBusy \/ Meets(t))
    /\ After(t)
    /\ UNCHANGED << rx_ff, outBuf, toDevice, got, inSide, done, serial >>

Transmit(t) ==
    /\ pc[t] = "transmit"
    /\ IF inBusy THEN Rest(t) ELSE Go(t, "fill")
    /\ UNCHANGED << outSide, inSide, done, serial, raced >>

\* Both tasks have found the endpoint free.
Collides(t) == \E u \in Tasks \ {t} : pc[u] \in {"fill", "send"}

Fill(t) ==
    /\ pc[t] = "fill"
    /\ IF tx_ff = << >>
       THEN Rest(t) /\ UNCHANGED << tx_ff, inBuf >>
       ELSE inBuf' = Head(tx_ff) /\ tx_ff' = Tail(tx_ff) /\ Go(t, "send")
    /\ raced' = (raced \/ Collides(t))
    /\ UNCHANGED << outSide, inBusy, wrote, toHost, done, serial >>

Send(t) ==
    /\ pc[t] = "send"
    /\ inBusy' = TRUE
    /\ raced' = (raced \/ inBusy \/ Collides(t))
    /\ Rest(t)
    /\ UNCHANGED << outSide, tx_ff, inBuf, wrote, toHost, done, serial >>

-----------------------------------------------------------------------------
(* webusb_task *)

Read ==
    /\ pc["web"] = "poll" /\ web_serial_connected /\ rx_ff # << >>
    /\ got' = Append(got, Head(rx_ff)) /\ rx_ff' = Tail(rx_ff)
    /\ Go("web", "prepare")
    /\ UNCHANGED << outBuf, outBusy, toDevice, inSide, done, serial, raced >>

\* The end of a line is answered; a reply that does not fit is lost.
Reply(eol) ==
    /\ pc["web"] = "reply"
    /\ IF eol
       THEN /\ IF Len(tx_ff) < TxSize
               THEN tx_ff' = Append(tx_ff, Len(wrote) + 1) /\ wrote' = Append(wrote, Len(wrote) + 1)
               ELSE UNCHANGED << tx_ff, wrote >>
            /\ Go("web", "transmit")
       ELSE Rest("web") /\ UNCHANGED << tx_ff, wrote >>
    /\ UNCHANGED << outSide, inBuf, inBusy, toHost, done, serial, raced >>

\* The task that finds the console disconnected ends; the flag is cleared afterwards.
Leave ==
    /\ pc["web"] = "poll" /\ ~web_serial_connected /\ webusb_connected_flag
    /\ Go("web", "leaving")
    /\ UNCHANGED << outSide, inSide, done, serial, raced >>

Left ==
    /\ pc["web"] = "leaving"
    /\ webusb_connected_flag' = FALSE
    /\ Go("web", "none")
    /\ UNCHANGED << outSide, inSide, done, web_serial_connected, connects, missed, raced >>

Next ==
    \/ HostSends \/ HostReads \/ XferComplete \/ Copy \/ Reset
    \/ \E on \in BOOLEAN : Connect(on)
    \/ \E t \in Tasks : PrepOut(t) \/ Arm(t) \/ Transmit(t) \/ Fill(t) \/ Send(t)
    \/ Read \/ Leave \/ Left
    \/ \E eol \in BOOLEAN : Reply(eol)

-----------------------------------------------------------------------------
(* Properties *)

IsPrefixOf(s, t) == Len(s) <= Len(t) /\ \A i \in 1..Len(s) : s[i] = t[i]

\* Unless the two tasks have met at an endpoint, the task reads every packet of the
\* host once and in order, and so does the host with the replies; a reply that waits
\* is taken up by a transfer or by a task; and a console that is connected has its task,
\* unless it was connected again while the task was ending.
ConsoleIsServed ==
    /\ ~raced =>
          /\ IsPrefixOf(got, toDevice) /\ IsPrefixOf(toHost, wrote)
          /\ pc["usb"] # "copy" /\ ~IsDone("out") => got \o rx_ff = toDevice
          /\ tx_ff # << >> => inBusy \/ \E t \in Tasks : pc[t] \in {"transmit", "fill", "send"}
    /\ web_serial_connected /\ ~missed => pc["web"] # "none"
=============================================================================
