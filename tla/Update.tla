------------------------------- MODULE Update -------------------------------
(***************************************************************************)
(* Firmware updates of the application (t3ch_httpd.c, t3ch_ota.c).  An image is         *)
(* uploaded in chunks, one request each, into the update partition, and a task of its   *)
(* own ends the update after the last one; or a task or the console downloads it.       *)
(* The handle of the upload is a global that every request and the task use.  The       *)
(* functions of the SDK are external: the partition holds what was written last, and    *)
(* the end of an update checks that it is a whole image.  A task that returns aborts.   *)
(***************************************************************************)
EXTENDS Integers, Sequences, FiniteSets

CONSTANTS
    Chunks,         \* requests of an upload: at = 0 .. of
    Recvs,          \* pieces of a chunk
    Urls,           \* images to download
    MaxRequests,    \* bound of the model: requests
    MaxResets       \* bound of the model: resets

UpdateAssumption ==
    Chunks \in Nat \ {0} /\ Recvs \in Nat \ {0} /\ MaxRequests \in Nat /\ MaxResets \in Nat

Pieces == Chunks * Recvs
Of == Chunks - 1
Uploaded == "upload"        \* the image that is uploaded; Urls are the others
Erased == << "none", 0 >>

VARIABLES
    flash,          \* the update partition: the piece at every place
    open,           \* open updates: handle -> place of the next piece
    handles,        \* handles given so far
    update_handle,
    request,        \* the upload that is served: [at, got], at = -1 if none
    uploadTask,     \* task_ota_upload: "none", "end", "boot"
    task_url,       \* task_url_download
    downloads,      \* running downloads: [by, url, handle], handle 0 before it begins
    boot,           \* the update partition is set to boot
    requests, resets,
    overlap         \* an update began while another one was there (history)

updateVars == << flash, open, handles, update_handle, request, uploadTask, task_url, downloads, boot,
                 requests, resets, overlap >>

NoRequest == [at |-> -1, got |-> 0]
Whole == \E s \in Urls \cup {Uploaded} : \A i \in 1 .. Pieces : flash[i] = << s, i >>

Init ==
    /\ flash = [i \in 1 .. Pieces |-> Erased] /\ open = << >> /\ handles = 0
    /\ update_handle = 0 /\ request = NoRequest /\ uploadTask = "none"
    /\ task_url = "none" /\ downloads = {} /\ boot = FALSE
    /\ requests = 0 /\ resets = 0 /\ overlap = FALSE

IsOpen(h) == h \in DOMAIN open
Busy == DOMAIN open # {} \/ uploadTask # "none" \/ boot

-----------------------------------------------------------------------------
(* The SDK: esp_ota_begin, esp_ota_write, esp_ota_end *)

\* The whole partition is erased, whoever else writes to it.
Begin == [i \in 1 .. Pieces |-> Erased]
WithHandle(h, place) == [x \in DOMAIN open \cup {h} |-> IF x = h THEN place ELSE open[x]]
Without(h) == [x \in DOMAIN open \ {h} |-> open[x]]
Fits(h) == IsOpen(h) /\ open[h] <= Pieces
Write(h, piece) ==
    /\ flash' = [flash EXCEPT ![open[h]] = piece]
    /\ open' = WithHandle(h, open[h] + 1)

-----------------------------------------------------------------------------
(* ota_update_post_handler *)

\* The server serves one request at a time; the browser may send any chunk.
Post(at) ==
    /\ request = NoRequest /\ requests < MaxRequests
    /\ requests' = requests + 1
    /\ request' = [at |-> at, got |-> 0]
    /\ UNCHANGED << flash, open, handles, update_handle, uploadTask, task_url, downloads, boot, resets,
                    overlap >>

Piece == << Uploaded, request.at * Recvs + request.got + 1 >>
IsFirst == request.at = 0 /\ request.got = 0
IsLast == ~IsFirst /\ request.at = Of /\ request.got = Recvs - 1
Received ==
    request' = IF request.got = Recvs - 1 THEN NoRequest ELSE [request EXCEPT !.got = @ + 1]

\* The first piece of the first chunk begins a new update; one that was open stays open.
FirstPiece ==
    /\ request # NoRequest /\ IsFirst
    /\ handles' = handles + 1 /\ update_handle' = handles + 1
    /\ flash' = [Begin EXCEPT ![1] = Piece]
    /\ open' = WithHandle(handles + 1, 2)
    /\ overlap' = (overlap \/ Busy)
    /\ Received
    /\ UNCHANGED << uploadTask, task_url, downloads, boot, requests, resets >>

NextPiece ==
    /\ request # NoRequest /\ ~IsFirst
    /\ Fits(update_handle)
    /\ Write(update_handle, Piece)
    /\ uploadTask' = IF IsLast THEN "end" ELSE uploadTask
    /\ Received
    /\ UNCHANGED << handles, update_handle, task_url, downloads, boot, requests, resets, overlap >>

\* An error on the way ends the update that the handle names, whole or not, and the
\* request.
AfterError == Without(update_handle)
PieceFails ==
    /\ request # NoRequest
    /\ request' = NoRequest
    /\ \/ /\ open' = AfterError                 \* it is not received, or not written
          /\ UNCHANGED << flash, handles, update_handle, overlap >>
       \/ /\ IsFirst                            \* it is too long, or the update cannot begin
          /\ UNCHANGED << flash, open, handles, update_handle, overlap >>
       \/ /\ IsFirst                            \* the update begins and ends again
          /\ handles' = handles + 1 /\ update_handle' = handles + 1
          /\ flash' = Begin
          /\ overlap' = (overlap \/ Busy)
          /\ UNCHANGED open
    /\ UNCHANGED << uploadTask, task_url, downloads, boot, requests, resets >>

\* A download is started; its task reads the address when it runs.
AskDownload(url) ==
    /\ request = NoRequest /\ requests < MaxRequests
    /\ requests' = requests + 1
    /\ task_url' = url
    /\ downloads' = downloads \cup {[by |-> requests + 1, url |-> "none", handle |-> 0]}
    /\ UNCHANGED << flash, open, handles, update_handle, request, uploadTask, boot, resets, overlap >>

-----------------------------------------------------------------------------
(* Restarts: esp_restart, a task that returns, or a reset at any time *)

RestartsWith(b) ==
    /\ resets' = resets + 1
    /\ boot' = b
    /\ open' = << >> /\ update_handle' = 0 /\ request' = NoRequest
    /\ uploadTask' = "none" /\ task_url' = "none" /\ downloads' = {}
    /\ UNCHANGED << flash, handles, requests >>

Reset == resets < MaxResets /\ RestartsWith(boot) /\ UNCHANGED overlap

-----------------------------------------------------------------------------
(* task_ota_upload *)

\* The update that the handle names now, and only a whole image.
EndsSound_any == TRUE
EndsSound == IsOpen(update_handle) /\ Whole
UploadEnds ==
    /\ uploadTask = "end" /\ EndsSound
    /\ open' = Without(update_handle)
    /\ uploadTask' = "boot"
    /\ UNCHANGED << flash, handles, update_handle, request, task_url, downloads, boot, requests,
                    resets, overlap >>

\* The task returns: the device restarts with the firmware it had.
UploadFails ==
    /\ uploadTask = "end" /\ ~EndsSound
    /\ RestartsWith(boot) /\ UNCHANGED overlap

SetBoot ==
    /\ uploadTask = "boot"
    /\ boot' = TRUE
    /\ uploadTask' = "restart"
    /\ UNCHANGED << flash, open, handles, update_handle, request, task_url, downloads, requests,
                    resets, overlap >>

Restarts == uploadTask = "restart" /\ RestartsWith(boot) /\ UNCHANGED overlap

-----------------------------------------------------------------------------
(* task_ota_download, t3ch_ota_download *)

DownloadBegins(d) ==
    /\ d.handle = 0
    /\ handles' = handles + 1
    /\ downloads' = (downloads \ {d}) \cup {[d EXCEPT !.url = task_url, !.handle = handles + 1]}
    /\ flash' = Begin
    /\ open' = WithHandle(handles + 1, 1)
    /\ overlap' = (overlap \/ Busy)
    /\ UNCHANGED << update_handle, request, uploadTask, task_url, boot, requests, resets >>

DownloadsPiece(d) ==
    /\ Fits(d.handle)
    /\ Write(d.handle, << d.url, open[d.handle] >>)
    /\ UNCHANGED << handles, update_handle, request, uploadTask, task_url, downloads, boot, requests,
                    resets, overlap >>

\* esp_https_ota checks the image and sets it to boot; then, and on any error, the
\* device restarts.
DownloadEnds(d) ==
    /\ d.handle # 0
    /\ \/ open[d.handle] = Pieces + 1 /\ Whole /\ RestartsWith(TRUE)
       \/ RestartsWith(boot)
    /\ UNCHANGED overlap

-----------------------------------------------------------------------------
Upload == FirstPiece \/ NextPiece \/ PieceFails \/ \E at \in 0 .. Of : Post(at)
UploadTask == UploadEnds \/ UploadFails \/ SetBoot \/ Restarts
Download ==
    \/ \E url \in Urls : AskDownload(url)
    \/ \E d \in downloads : DownloadBegins(d) \/ DownloadsPiece(d) \/ DownloadEnds(d)

Next == Upload \/ UploadTask \/ Download \/ Reset

Spec == Init /\ [][Next]_updateVars

-----------------------------------------------------------------------------
(* Properties *)

\* The partition that is set to boot holds a whole image, of one source and in order,
\* whatever chunks came in which order and wherever an update failed, unless another
\* update began while one was on its way; and unless that happened no update stays
\* open that nobody can end any more.
BootsWhole ==
    ~overlap =>
        /\ boot => Whole
        /\ DOMAIN open \subseteq {update_handle} \cup { d.handle : d \in downloads }
        /\ Cardinality(DOMAIN open) <= 1
=============================================================================
