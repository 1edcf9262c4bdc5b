-------------------------------- MODULE MCUsb --------------------------------
(***************************************************************************)
(* The parts of the USB device that share no variable, and the UART that a modem  *)
(* has in a build without a USB host: in a behaviour of the run one of them moves, *)
(* chosen at its start, while the others keep one initial state.                *)
(***************************************************************************)
EXTENDS UsbDevice, TLC

CONSTANTS PartitionSize, MaxRequests,
          RxSize, TxSize, MaxPackets, MaxConnects,
          Senders, MaxNetEvents,
          Readers, RingSize, MaxChunks, MaxCalls,
          PieceSize, MaxLength, MaxCommands,
          FifoSize, MaxModemCommands, MaxLines, MaxData

VARIABLES part,
          tolerant, dstate, dstatus, flashing, buf, transfer, checked, handle, written, boot,
          sent, told, broken, upIndex, upGot, upBroken, requests,
          rx_ff, tx_ff, outBuf, outBusy, inBuf, inBusy, done, pc, web_serial_connected,
          webusb_connected_flag, connects, toDevice, got, wrote, toHost, raced, missed,
          ecm_mode, configured, itf_data_alt, netOpened, can_xmit, Net_Semphore, netBusy,
          netInflight, inDone, usb, sender, notif, rndis_state, reply, announced, netLost,
          overwritten, wrongEp, met, resets, netEvents,
          cdc_obj, acm, installing, rxFifo, usbPc, ring, stored, mux, readPc, result, registered,
          named, onUsb, con, std, aborted, early, failed, chunks, calls,
          ejected, s_disk_block_size, unsynced, afterEject, divided, bth, acl, prepare_write,
          write_offset, acl_data_length, passed, apart, split, unready, commands,
          mode, handle_line, bit, modemSender, modem, out, fifo, patHit, rxIntr, patDet, rxBuf,
          pats, event_queue, uartTask, sentCmds, sentLines, sentData, stale, mixed, overflow, wrong

dfuVars == << tolerant, dstate, dstatus, flashing, buf, transfer, checked, handle,
              written, boot, sent, told, broken, upIndex, upGot, upBroken, requests >>
vendorVars == << rx_ff, tx_ff, outBuf, outBusy, inBuf, inBusy, done, pc,
                 web_serial_connected, webusb_connected_flag, connects, toDevice, got,
                 wrote, toHost, raced, missed >>
netVars == << ecm_mode, configured, itf_data_alt, netOpened, can_xmit, Net_Semphore,
              netBusy, netInflight, inDone, usb, sender, notif, rndis_state, reply, announced,
              netLost, overwritten, wrongEp, met, resets, netEvents >>
serialVars == << cdc_obj, acm, installing, rxFifo, usbPc, ring, stored, mux, readPc,
                 result, registered, named, onUsb, con, std, aborted, early, failed, chunks, calls >>
classVars == << ejected, s_disk_block_size, unsynced, afterEject, divided, bth, acl,
                prepare_write, write_offset, acl_data_length, passed, apart, split,
                unready, commands >>
uartVars == << mode, handle_line, bit, modemSender, modem, out, fifo, patHit, rxIntr, patDet,
               rxBuf, pats, event_queue, uartTask, sentCmds, sentLines, sentData, stale, mixed,
               overflow, wrong >>

Dfu == INSTANCE UsbDfu
Ven == INSTANCE UsbVendor
Net == INSTANCE UsbNet WITH opened <- netOpened, inflight <- netInflight, busy <- netBusy,
                            lost <- netLost, MaxEvents <- MaxNetEvents
Ser == INSTANCE UsbSerial
Cls == INSTANCE UsbClasses
Uart == INSTANCE ModemUart WITH sender <- modemSender, task <- uartTask, early <- mixed,
                                MaxCommands <- MaxModemCommands

ASSUME UsbAssumption ==
    /\ DeviceAssumption /\ Ven!VendorAssumption /\ Ser!SerialAssumption
    /\ Cls!ClassesAssumption /\ Uart!UartAssumption

Parts == {"device", "dfu", "vendor", "net", "serial", "classes", "uart"}

\* What a part may start with is varied in its own behaviours.
MCInit ==
    /\ part \in Parts
    /\ Init /\ (part = "device" \/ ver = 5)
    /\ Dfu!Init /\ (part = "dfu" \/ tolerant)
    /\ Net!Init /\ (part = "net" \/ ecm_mode)
    /\ Ven!Init /\ Ser!Init /\ Cls!Init /\ Uart!Init

MCNext ==
    /\ UNCHANGED part
    /\ \/ part = "device" /\ Next
       \/ part # "device" /\ UNCHANGED usbdVars
    /\ \/ part = "dfu" /\ Dfu!Next
       \/ part # "dfu" /\ UNCHANGED dfuVars
    /\ \/ part = "vendor" /\ Ven!Next
       \/ part # "vendor" /\ UNCHANGED vendorVars
    /\ \/ part = "net" /\ Net!Next
       \/ part # "net" /\ UNCHANGED netVars
    /\ \/ part = "serial" /\ Ser!Next
       \/ part # "serial" /\ UNCHANGED serialVars
    /\ \/ part = "classes" /\ Cls!Next
       \/ part # "classes" /\ UNCHANGED classVars
    /\ \/ part = "uart" /\ Uart!Next
       \/ part # "uart" /\ UNCHANGED uartVars

MCSpec ==
    MCInit /\ [][MCNext]_<< part, usbdVars, dfuVars, vendorVars, netVars,
                            serialVars, classVars, uartVars >>

Symmetry == Permutations(Writers)

\* OneTransfer and StackSettles are those of UsbDevice.

\* What the host is told about a download is true (UsbDfu).
DfuIsFaithful == Dfu!DfuIsFaithful

\* The console is served, each packet once and in order (UsbVendor).
ConsoleIsServed == Ven!ConsoleIsServed

\* The network path may send when it can, and announces its answers (UsbNet).
NetPathSound == Net!NetPathSound

\* Reads of the serial port are consecutive and its ports complete (UsbSerial);
\* pieces of Bluetooth packets stay in step; an ejected disk is written through (UsbClasses);
\* the handler of modem commands gets whole lines, with no data of a call (ModemUart).
DriversSound == Ser!SerialSound /\ Cls!ClassesSound /\ Uart!LinesAreWhole
=============================================================================
