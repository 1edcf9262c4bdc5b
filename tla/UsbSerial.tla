------------------------------ MODULE UsbSerial ------------------------------
(***************************************************************************)
(* The serial port of the USB device: the objects of an interface (cdc.c,          *)
(* tusb_cdc_acm.c), the callback that moves what the host sends into a ring        *)
(* buffer, the tasks that read it, and the console that can be put on the port     *)
(* (vfs_tinyusb.c, tusb_console.c).  Data is counted in chunks, numbered as they   *)
(* are stored in the ring.                                                      *)
(***************************************************************************)
EXTENDS Integers, Sequences, FiniteSets

CONSTANTS
    Readers,     \* tasks that call tinyusb_cdcacm_read
    RingSize,    \* rx_unread_buf_sz, in chunks
    MaxChunks, MaxCalls   \* bounds of the model: chunks of the host, calls of the application

SerialAssumption == "free" \notin Readers

Parts == {"obj", "mux", "tfbuf", "ring"}
Streams == {"stdin", "stdout", "stderr"}

VARIABLES
    cdc_obj,        \* the object of the interface is allocated
    acm,            \* parts of its subclass object that exist
    installing,     \* tusb_cdc_acm_init is at work
    rxFifo,         \* chunks that wait in TinyUSB
    usbPc,          \* tud_cdc_rx_cb: "idle", "moving"
    ring, stored,   \* rx_unread_buf and what it has taken (history)
    mux,            \* who holds ringbuf_read_mux, or "free"
    readPc, result, \* by reader
    registered,     \* entries of the port in the virtual file system
    named,          \* s_vfstusb holds its path
    onUsb,          \* standard streams that are open on it
    con, std,       \* streams that con and stdin, stdout, stderr point to
    aborted,        \* the firmware has called abort
    early, failed,  \* data came while the port was set up; a set-up failed (history)
    chunks, calls

serialVars == << cdc_obj, acm, installing, rxFifo, usbPc, ring, stored, mux, readPc, result,
                 registered, named, onUsb, con, std, aborted, early, failed, chunks, calls >>

objects == << cdc_obj, acm, installing, failed >>
reading == << mux, readPc, result >>
console == << registered, named, onUsb, con, std >>

Init ==
    /\ cdc_obj = FALSE /\ acm = {} /\ installing = FALSE
    /\ rxFifo = 0 /\ usbPc = "idle" /\ ring = << >> /\ stored = 0
    /\ mux = "free"
    /\ readPc = [r \in Readers |-> "idle"] /\ result = [r \in Readers |-> << >>]
    /\ registered = 0 /\ named = FALSE /\ onUsb = {} /\ con = {} /\ std = Streams
    /\ aborted = FALSE /\ early = FALSE /\ failed = FALSE
    /\ chunks = 0 /\ calls = 0

Call == calls < MaxCalls /\ calls' = calls + 1
Resting == UNCHANGED << rxFifo, usbPc, aborted, early, chunks >>

-----------------------------------------------------------------------------
(* Objects *)

\* tinyusb_cdc_init and alloc_obj: an interface that has an object is refused.
BeginInit ==
    /\ ~cdc_obj /\ ~installing /\ Call
    /\ cdc_obj' = TRUE
    /\ \/ acm' = {"obj"} /\ installing' = TRUE /\ UNCHANGED failed
       \/ acm' = {} /\ installing' = FALSE /\ failed' = TRUE
    /\ ring' = << >> /\ stored' = 0
    /\ mux' = "free"
    /\ readPc' = [r \in Readers |-> "idle"] /\ result' = [r \in Readers |-> << >>]
    /\ \A r \in Readers : readPc[r] = "idle"
    /\ UNCHANGED console /\ Resting

\* The mutex, the transfer buffer and the ring, in this order.  After a failure the
\* subclass object is freed and the object of the interface stays.
NextPart == CASE "mux" \notin acm -> "mux"
              [] "mux" \in acm /\ "tfbuf" \notin acm -> "tfbuf"
              [] OTHER -> "ring"
AddPart ==
    /\ installing
    /\ acm' = acm \cup {NextPart}
    /\ installing' = (NextPart # "ring")
    /\ UNCHANGED << cdc_obj, failed, ring, stored, reading, console, calls >> /\ Resting

free_obj ==
    /\ installing
    /\ acm' = {} /\ installing' = FALSE /\ failed' = TRUE
    /\ UNCHANGED << cdc_obj, ring, stored, reading, console, calls >> /\ Resting

\* tinyusb_cdc_deinit: the object is freed, its subclass object is not.  The model
\* does not deinitialize a port that a task is using.
Deinit ==
    /\ cdc_obj /\ ~installing /\ Call
    /\ usbPc = "idle" /\ \A r \in Readers : readPc[r] = "idle"
    /\ cdc_obj' = FALSE /\ acm' = {} /\ failed' = FALSE
    /\ UNCHANGED << installing, ring, stored, reading, console >> /\ Resting

-----------------------------------------------------------------------------
(* Data of the host: tud_cdc_rx_cb *)

HostSends ==
    /\ ~aborted /\ chunks < MaxChunks
    /\ chunks' = chunks + 1 /\ rxFifo' = rxFifo + 1
    /\ UNCHANGED << objects, usbPc, ring, stored, reading, console, aborted, early, calls >>

\* Without an object the data is dropped; an object without a ring is fatal.
RxCallback ==
    /\ ~aborted /\ usbPc = "idle" /\ rxFifo > 0
    /\ early' = (early \/ installing)
    /\ CASE acm = {} -> rxFifo' = 0 /\ UNCHANGED << usbPc, aborted >>
         [] acm # {} /\ "ring" \notin acm -> aborted' = TRUE /\ UNCHANGED << rxFifo, usbPc >>
         [] OTHER -> usbPc' = "moving" /\ UNCHANGED << rxFifo, aborted >>
    /\ UNCHANGED << objects, ring, stored, reading, console, chunks, calls >>

\* A chunk that does not fit into the ring is lost.
Move ==
    /\ usbPc = "moving"
    /\ IF rxFifo = 0
       THEN usbPc' = "idle" /\ UNCHANGED << rxFifo, ring, stored >>
       ELSE /\ rxFifo' = rxFifo - 1
            /\ IF Len(ring) < RingSize
               THEN ring' = Append(ring, stored + 1) /\ stored' = stored + 1
               ELSE UNCHANGED << ring, stored >>
            /\ UNCHANGED usbPc
    /\ UNCHANGED << objects, reading, console, aborted, early, chunks, calls >>

-----------------------------------------------------------------------------
(* tinyusb_cdcacm_read: up to two pieces, because the data can be wrapped *)

Reading == UNCHANGED << objects, rxFifo, usbPc, stored, console, aborted, early, chunks, calls >>

MuxFree_ignored == TRUE
MuxFree == mux = "free"
TakeMux(r) ==
    /\ "ring" \in acm /\ readPc[r] = "idle"
    /\ MuxFree   \* or the call fails and changes nothing
    /\ mux' = r
    /\ result' = [result EXCEPT ![r] = << >>]
    /\ readPc' = [readPc EXCEPT ![r] = "first"]
    /\ UNCHANGED ring /\ Reading

Piece(r, n) ==
    /\ readPc[r] \in {"first", "second"}
    /\ n \in 0..Len(ring) /\ (n = 0) = (ring = << >>)
    /\ result' = [result EXCEPT ![r] = @ \o SubSeq(ring, 1, n)]
    /\ ring' = SubSeq(ring, n + 1, Len(ring))
    /\ readPc' = [readPc EXCEPT ![r] = IF @ = "first" /\ n > 0 THEN "second" ELSE "give"]
    /\ UNCHANGED mux /\ Reading

GiveMux(r) ==
    /\ readPc[r] = "give"
    /\ mux' = "free"
    /\ readPc' = [readPc EXCEPT ![r] = "idle"]
    /\ UNCHANGED << result, ring >> /\ Reading

-----------------------------------------------------------------------------
(* The console: esp_tusb_init_console, esp_tusb_deinit_console *)

Console == UNCHANGED << objects, ring, stored, reading >> /\ Resting

\* Streams are opened one after the other, until one fails, which is closed then.  The
\* model calls freopen only with a stream, not with NULL.
Failing(done) == CASE done = {} -> {"stdin"}
                   [] done = {"stdin"} -> {"stdout"}
                   [] done = {"stdin", "stdout"} -> {"stderr"}
                   [] done = Streams -> {}
Touched(done) == done \cup Failing(done)

\* Nothing stops a second registration, but the table of the file system may be full.
InitConsole(opened) ==
    /\ "obj" \in acm /\ Touched(opened) \subseteq std /\ Call
    /\ registered' = registered + 1 /\ named' = TRUE
    /\ onUsb' = (onUsb \cup opened) \ Failing(opened)
    /\ con' = (con \cup opened) \ Failing(opened)
    /\ UNCHANGED std
    /\ Console

RegisterFails ==
    /\ "obj" \in acm /\ Call
    /\ named' = TRUE
    /\ UNCHANGED << registered, onUsb, con, std >>
    /\ Console

\* The streams go back to the UART; if all do, one entry goes, and s_vfstusb is cleared.
DeinitConsole(restored) ==
    /\ cdc_obj /\ Touched(restored) \subseteq con /\ Call
    /\ onUsb' = onUsb \ Touched(restored)
    /\ std' = (std \cup restored) \ Failing(restored)
    /\ IF restored = Streams /\ named /\ registered > 0
       THEN registered' = registered - 1 /\ named' = FALSE
       ELSE UNCHANGED << registered, named >>
    /\ UNCHANGED con
    /\ Console

Prefixes == {{}, {"stdin"}, {"stdin", "stdout"}, Streams}

Next ==
    \/ BeginInit \/ AddPart \/ free_obj \/ Deinit
    \/ HostSends \/ RxCallback \/ Move
    \/ \E r \in Readers :
          \/ TakeMux(r) \/ GiveMux(r)
          \/ \E n \in 0..RingSize : Piece(r, n)
    \/ RegisterFails \/ \E s \in Prefixes : InitConsole(s) \/ DeinitConsole(s)

-----------------------------------------------------------------------------
(* Properties *)

Consecutive(s) == \A i \in 1..Len(s)-1 : s[i + 1] = s[i] + 1

\* A read returns consecutive chunks, although it takes them in two pieces while the
\* callback and other tasks are at the ring; the firmware only aborts over data
\* that comes while the port is set up; a port without a complete object is one
\* whose set-up runs or has failed; and a standard stream that is open on the port
\* has its path.
SerialSound ==
    /\ \A r \in Readers : Consecutive(result[r])
    /\ aborted => early
    /\ cdc_obj /\ ~installing /\ ~failed => acm = Parts
    /\ onUsb # {} => registered > 0
=============================================================================
