------------------------------- MODULE UsbDfu -------------------------------
(***************************************************************************)
(* Firmware update over USB: the DFU class (dfu_device.c), whose state machine     *)
(* the requests of the host drive, and the callbacks that write the blocks to      *)
(* the next OTA partition or read one back (tusb_dfu.c).  Everything runs in       *)
(* tud_task.  A control transfer has a setup, a data and an ACK stage, and the    *)
(* host may begin another one before it has gone through them.                  *)
(***************************************************************************)
EXTENDS Integers, Sequences

CONSTANTS
    PartitionSize,  \* of the OTA partition that is read back, in blocks
    MaxRequests     \* bound of the model: requests of the host

VARIABLES
    tolerant,       \* DFU_ATTR_MANIFESTATION_TOLERANT of the descriptor
    dstate, dstatus, flashing, \* _dfu_ctx
    buf,            \* the block that transfer_buf holds, 0 if it came from flash
    transfer,       \* the control transfer: [req, stage]
    checked,        \* image_header_was_checked
    handle,         \* update_handle: "none", "open" or "closed"
    written,        \* what was written through the handle
    boot,           \* the image that was set to boot, << >> if none
    sent,           \* blocks of the download, as the host sees it (history)
    told,           \* the last answer to GETSTATUS (history)
    broken,         \* a download was given up, went wrong unseen or had its block
                    \* overwritten (history)
    upIndex,        \* current_index
    upGot, upBroken, \* blocks of this upload; an upload was given up (history)
    requests        \* requests so far

dfuVars == << tolerant, dstate, dstatus, flashing, buf, transfer, checked, handle, written,
              boot, sent, told, broken, upIndex, upGot, upBroken, requests >>

ota == << checked, handle, written, boot >>
up == << upIndex, upGot, upBroken >>

Kinds == {"DETACH", "DNLOAD", "DNLOAD_END", "UPLOAD", "GETSTATUS", "CLRSTATUS", "GETSTATE",
          "ABORT", "SET_INTERFACE", "unknown"}
NoTransfer == [req |-> "none", stage |-> "none"]
NotTold == [state |-> "none", status |-> "none"]

Init ==
    /\ tolerant \in BOOLEAN
    /\ dstate = "IDLE" /\ dstatus = "OK" /\ flashing = FALSE
    /\ buf = 0 /\ transfer = NoTransfer
    /\ checked = FALSE /\ handle = "none" /\ written = << >> /\ boot = << >>
    /\ sent = << >> /\ told = NotTold /\ broken = FALSE
    /\ upIndex = 0 /\ upGot = << >> /\ upBroken = FALSE
    /\ requests = 0

-----------------------------------------------------------------------------
(* Setup stage *)

\* A block that was announced and did not come: the buffer keeps the block before.
Unsent == transfer.req = "DNLOAD" /\ transfer.stage = "data"

\* The download or upload that the host leaves half way.
Leaves ==
    /\ broken' = (broken \/ flashing \/ handle = "open" \/ Unsent)
    /\ upBroken' = (upBroken \/ upGot # << >>)
    /\ upGot' = << >>

reset_state == dstate' = "IDLE" /\ dstatus' = "OK" /\ flashing' = FALSE

Request(r) ==
    /\ requests < MaxRequests
    /\ requests' = requests + 1
    /\ UNCHANGED << tolerant, checked, handle, written, boot >>
Accept(r, s) == transfer' = [req |-> r, stage |-> s]

\* CLRSTATUS, ABORT and SET_INTERFACE, and a reset of the bus (dfu_moded_reset).
ResetRequest(r) ==
    /\ Request(r)
    /\ Leaves
    /\ reset_state
    /\ transfer' = IF r = "reset" THEN NoTransfer ELSE [req |-> r, stage |-> "ack"]
    /\ told' = NotTold
    /\ UNCHANGED << buf, sent, upIndex >>

InOrder_always == TRUE
InOrder == dstate \in {"IDLE", "DNLOAD_IDLE"}

Download(r) ==
    /\ Request(r)
    /\ IF InOrder
       THEN /\ flashing' = TRUE
            /\ dstate' = IF r = "DNLOAD" THEN "DNLOAD_SYNC" ELSE "MANIFEST_SYNC"
            /\ Accept(r, IF r = "DNLOAD" THEN "data" ELSE "ack")
            /\ sent' = IF dstate = "IDLE" THEN << >> ELSE sent
       ELSE transfer' = NoTransfer /\ UNCHANGED << flashing, dstate, sent >>
    /\ broken' = (broken \/ Unsent)
    /\ told' = NotTold
    /\ UNCHANGED << dstatus, buf, up >>

\* process_download_get_status, process_manifest_get_status and reply_getstatus: the
\* answer is the next state, which is entered with the ACK.
NextState ==
    CASE dstate = "DNLOAD_SYNC" -> IF flashing THEN "DNBUSY" ELSE "DNLOAD_IDLE"
      [] dstate = "MANIFEST_SYNC" -> IF flashing THEN "MANIFEST" ELSE "IDLE"
      [] OTHER -> dstate

GetStatus ==
    /\ Request("GETSTATUS")
    /\ told' = [state |-> NextState, status |-> dstatus]
    /\ Accept("GETSTATUS", "ack")
    /\ broken' = (broken \/ Unsent)
    /\ UNCHANGED << dstate, dstatus, flashing, buf, sent, up >>

\* upload_bin: one block; none at the end, where the next upload starts again.
UploadBlock ==
    IF upIndex = PartitionSize
    THEN upIndex' = 0 /\ upGot' = << >>
    ELSE upIndex' = upIndex + 1 /\ upGot' = Append(upGot, upIndex)

\* It is read into the buffer of the downloads in any state of the class, also over a
\* block that waits to be flashed.
Reads == upIndex # PartitionSize
Overwrites == Reads /\ flashing /\ dstate = "DNLOAD_SYNC"

Upload ==
    /\ Request("UPLOAD")
    /\ UploadBlock
    /\ buf' = IF Reads THEN 0 ELSE buf
    /\ Accept("UPLOAD", "ack")
    /\ broken' = (broken \/ Unsent \/ Overwrites)
    /\ told' = NotTold
    /\ UNCHANGED << dstate, dstatus, flashing, sent, upBroken >>

Others(r) ==
    /\ r \in {"DETACH", "GETSTATE", "unknown"}
    /\ Request(r)
    /\ IF r = "unknown" THEN transfer' = NoTransfer ELSE Accept(r, "ack")
    /\ broken' = (broken \/ Unsent)
    /\ told' = NotTold
    /\ UNCHANGED << dstate, dstatus, flashing, buf, sent, up >>

-----------------------------------------------------------------------------
(* Data and ACK stages *)

\* The number of the block is its value.
DataStage ==
    /\ transfer.stage = "data"
    /\ buf' = requests
    /\ sent' = Append(sent, requests)
    /\ transfer' = [transfer EXCEPT !.stage = "ack"]
    /\ UNCHANGED << tolerant, dstate, dstatus, flashing, ota, told, broken, up, requests >>

\* tud_dfu_finish_flashing.
AfterFlash(s, ok) ==
    CASE ~ok -> "ERROR"
      [] ok /\ s = "DNBUSY" -> "DNLOAD_SYNC"
      [] ok /\ s = "MANIFEST" -> IF tolerant THEN "MANIFEST_SYNC" ELSE "MANIFEST_WAIT_RESET"
tud_dfu_finish_flashing(s, ok, error) ==
    /\ flashing' = FALSE
    /\ dstate' = AfterFlash(s, ok)
    /\ dstatus' = IF ok THEN dstatus ELSE error

\* ota_start: the first block begins the update when it is longer than the headers of
\* an image.  For a shorter one it returns what is in err, which nobody has set.
ota_start(ok) ==
    \/ /\ ~checked
       /\ broken' = (broken \/ ok)
       /\ UNCHANGED ota
    \/ /\ ~checked /\ checked' = TRUE
       /\ handle' = IF ok THEN "open" ELSE "closed"
       /\ written' = IF ok THEN << buf >> ELSE << >>
       /\ UNCHANGED << boot, broken >>
    \/ /\ checked /\ (handle # "open" => ~ok)
       /\ handle' = IF ok THEN "open" ELSE "closed"
       /\ written' = IF ok THEN Append(written, buf) ELSE written
       /\ UNCHANGED << checked, boot, broken >>

\* ota_complete: esp_ota_end checks the image and frees the handle.
ota_complete(ok) ==
    /\ handle # "open" => ~ok
    /\ handle' = IF handle = "open" THEN "closed" ELSE handle
    /\ boot' = IF ok THEN written ELSE boot
    /\ UNCHANGED << checked, written, broken >>

Acked(r) == transfer = [req |-> r, stage |-> "ack"] /\ transfer' = NoTransfer

DownloadAck ==
    /\ Acked("GETSTATUS") /\ dstate = "DNLOAD_SYNC"
    /\ IF flashing
       THEN \E ok \in BOOLEAN :
               /\ ota_start(ok)
               /\ tud_dfu_finish_flashing("DNBUSY", ok, "errWRITE")
       ELSE dstate' = "DNLOAD_IDLE" /\ UNCHANGED << flashing, dstatus, ota, broken >>
    /\ UNCHANGED << tolerant, buf, sent, told, up, requests >>

ManifestAck ==
    /\ Acked("GETSTATUS") /\ dstate = "MANIFEST_SYNC"
    /\ IF flashing
       THEN \E ok \in BOOLEAN :
               /\ ota_complete(ok)
               /\ tud_dfu_finish_flashing("MANIFEST", ok, "errVERIFY")
       ELSE dstate' = "IDLE" /\ UNCHANGED << flashing, dstatus, ota, broken >>
    /\ UNCHANGED << tolerant, buf, sent, told, up, requests >>

OtherAck ==
    /\ transfer.stage = "ack"
    /\ transfer.req = "GETSTATUS" => dstate \notin {"DNLOAD_SYNC", "MANIFEST_SYNC"}
    /\ transfer' = NoTransfer
    /\ UNCHANGED << tolerant, dstate, dstatus, flashing, buf, ota, sent, told, broken, up,
                    requests >>

Next ==
    \/ \E r \in {"CLRSTATUS", "ABORT", "SET_INTERFACE", "reset"} : ResetRequest(r)
    \/ \E r \in {"DNLOAD", "DNLOAD_END"} : Download(r)
    \/ GetStatus \/ Upload
    \/ \E r \in Kinds : Others(r)
    \/ DataStage \/ DownloadAck \/ ManifestAck \/ OtherAck

-----------------------------------------------------------------------------
(* Properties *)

\* As long as the host gives no download up half way, nor reads a block back between
\* sending one and asking how it went, what it is told is true: in dfuDNLOAD-IDLE every
\* block it has sent is written once and in order, and the image that is set to boot was
\* sent as one download.  (After a download that was given up the handle stays open and
\* the next image is written behind the rest of it; a block that is read back is flashed
\* in the place of the one before it.)
\* An upload that follows no interrupted one starts with the first block.
DfuIsFaithful ==
    /\ ~upBroken => upGot = [i \in 1..upIndex |-> i - 1]
    /\ ~broken =>
        /\ told = [state |-> "DNLOAD_IDLE", status |-> "OK"] => written = sent
        /\ boot # << >> => boot = written
        /\ handle = "open" /\ dstate = "DNLOAD_IDLE" => written = sent
=============================================================================
