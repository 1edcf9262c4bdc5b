----------------------------- MODULE MCFirmware -----------------------------
(***************************************************************************)
(* The log of the application and the USB host driver of the modem in one run.  *)
(* They share no state, so a behaviour of the run moves one of them, chosen at  *)
(* its start, while the other keeps one initial state.                       *)
(***************************************************************************)
EXTENDS LogRing

CONSTANTS InUrbs, OutUrbs, BulkSize, RxSize, TxSize, ReadLen, Requests,
          MaxUnits, MaxPlugs, MaxFail

VARIABLES part,
          plugged, plugs, port, pevt, pq, ctrl, ppc, req, dpipe, hasTask,
          ready, kill, killdrv, dpc, dq, inFree, inDone, outq, outDone, pending,
          sending, in_ring, in_len, out_ring, out_len, rpc, taken, popped, wpc,
          sent, got, lostIn, written, received, lostOut, fails, broken

Usb == INSTANCE UsbhCdc

ASSUME FirmwareAssumption == Usb!CdcAssumption

usbVars == << plugged, plugs, port, pevt, pq, ctrl, ppc, req, dpipe, hasTask,
              ready, kill, killdrv, dpc, dq, inFree, inDone, outq, outDone, pending,
              sending, in_ring, in_len, out_ring, out_len, rpc, taken, popped, wpc,
              sent, got, lostIn, written, received, lostOut, fails, broken >>
allVars == << part, vars, usbVars >>

MCInit == part \in {"log", "usb"} /\ Init /\ Usb!Init

LogMoves == part = "log" /\ UNCHANGED << part, usbVars >>
UsbMoves == part = "usb" /\ UNCHANGED << part, vars >>

MCNext == \/ LogMoves /\ Next
          \/ UsbMoves /\ Usb!Next

\* The fairness of UsbhCdc.
MCSpec ==
    /\ MCInit /\ [][MCNext]_allVars
    /\ WF_allVars(UsbMoves /\ Usb!Running /\ Usb!Processing)
    /\ WF_allVars(UsbMoves /\ Usb!Running /\ Usb!DataTask)
    /\ WF_allVars(UsbMoves /\ Usb!Running /\ Usb!WriterGoesOn)
    /\ WF_allVars(UsbMoves /\ Usb!Running /\ Usb!OutTransfer(TRUE))

\* Data of both directions stays in order and is counted, and no URB for writing is
\* forgotten, while tasks, callbacks and a disconnection interleave (UsbhCdc).
UsbAccounts ==
    Usb!LengthsAccount /\ Usb!InAccounts /\ Usb!OutAccounts /\ Usb!UrbsConserved

\* One data task at a time; the port is recovered after it (UsbhCdc).
TeardownInOrder == Usb!TeardownInOrder

\* Written data is sent while the device stays, and a disconnection leads to a
\* recovered port (UsbhCdc).
UsbGoesOn == Usb!WrittenIsSent /\ Usb!PortRecovers
=============================================================================
