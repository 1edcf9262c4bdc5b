-------------------------------- MODULE EspRb --------------------------------
(***************************************************************************)
(* The serial receive path of the host driver: esp_if_rx_work copies the     *)
(* payload of each serial packet into a ring buffer (main.c, esp_serial.c,   *)
(* esp_rb.c), and user processes read it, blocking, not blocking, or after   *)
(* poll.  The semaphore protects the two pointers, except from poll and the  *)
(* wait condition of a blocked reader, which look at them without it.        *)
(*                                                                         *)
(* rp and wp are offsets from rb->buf, so rb->end is Size; an offset may be  *)
(* Size for a moment, before the code wraps it.  A byte is its number in the *)
(* stream of packets.                                                      *)
(***************************************************************************)
EXTENDS Integers, FiniteSets, Sequences

CONSTANTS
    Size,        \* size given to esp_rb_init
    PacketLen,   \* bound: payload bytes of a packet
    Packets,     \* bound: serial packets received
    Readers,     \* user processes
    ReadSizes,   \* bound: sizes they ask for
    Modes        \* how they read: a subset of {"block", "nonblock", "poll"}

ASSUME SizeAssumption == Size \in Nat \ {0}
ASSUME PacketsAssumption == PacketLen \in Nat \ {0} /\ Packets \in Nat
ASSUME ReadersAssumption == /\ ReadSizes \subseteq Nat \ {0}
                            /\ Modes \subseteq {"block", "nonblock", "poll"}
                            /\ "writer" \notin Readers /\ "free" \notin Readers

VARIABLES
    buf, rp, wp,    \* the ring buffer
    sem,            \* holder of rb->sem, or "free"
    waiters,        \* processes registered on rb->wq and not yet woken
    wpc, packet,    \* esp_if_rx_work, number of the packet it handles
    ret_len, done,  \* ret_len of process_rx_packet and of esp_serial_data_received
    todo, written,  \* bytes still to copy and copied in esp_rb_write_by_kernel
    rpc, mode, left, \* each reader, its mode and the bytes it still asks for
    seen,           \* rp as an unlocked reader has loaded it
    got,            \* the bytes the last step copied to a reader
    used            \* history: bytes stored and not yet read

ring   == << buf, rp, wp, used >>
writer == << wpc, packet, ret_len, done, todo, written >>
reader == << rpc, mode, left, seen >>

vars == << ring, sem, waiters, writer, reader, got >>

Lesser(a, b) == IF a <= b THEN a ELSE b

Init ==
    /\ buf = [i \in 0 .. Size - 1 |-> 0] /\ rp = 0 /\ wp = 0
    /\ sem = "free" /\ waiters = {}
    /\ wpc = "idle" /\ packet = 0
    /\ ret_len = 0 /\ done = 0 /\ todo = 0 /\ written = 0
    /\ rpc = [r \in Readers |-> "idle"]
    /\ mode = [r \in Readers |-> "block"]
    /\ left = [r \in Readers |-> 0]
    /\ seen = [r \in Readers |-> 0]
    /\ got = << >>
    /\ used = 0

-----------------------------------------------------------------------------
(* The writer: process_rx_packet, esp_serial_data_received and              *)
(* esp_rb_write_by_kernel.                                                 *)

Byte == 1 .. Packets * PacketLen

\* The n-th byte that is still to be stored of the call's data.
Data(n) == (packet - 1) * PacketLen + ret_len + done + n

\* get_free_space: one cell stays free, so that rp = wp means empty.
FreeSpace_allCells == IF rp = wp THEN Size ELSE (rp + Size - wp) % Size
FreeSpace == IF rp = wp THEN Size - 1 ELSE ((rp + Size - wp) % Size) - 1

Stored(n, from) == [i \in 0 .. Size - 1 |->
                      IF i \in wp .. wp + n - 1 THEN Data(from + 1 + i - wp)
                                                ELSE buf[i]]

PacketArrives ==
    /\ wpc = "idle"
    /\ packet < Packets
    /\ packet' = packet + 1
    /\ ret_len' = 0 /\ done' = 0
    /\ wpc' = "down"
    /\ got' = << >>
    /\ UNCHANGED << ring, sem, waiters, todo, written, reader >>

WriterDown ==
    /\ wpc = "down"
    /\ sem = "free"
    /\ sem' = "writer"
    /\ wpc' = "copy"
    /\ got' = << >>
    /\ UNCHANGED << ring, waiters, packet, ret_len, done, todo, written, reader >>

\* No space: esp_serial_data_received gives up and returns 0, whatever it has
\* stored before; process_rx_packet adds the 0 and calls it again.
RingFull ==
    /\ wpc = "copy"
    /\ FreeSpace <= 0
    /\ sem' = "free"
    /\ done' = 0
    /\ wpc' = "down"
    /\ got' = << >>
    /\ UNCHANGED << ring, waiters, packet, ret_len, todo, written, reader >>

\* The first copy, up to the end of the buffer or up to the cell before rp.
FirstPart(sz) == IF wp >= rp THEN Lesser(sz, Size - wp)
                             ELSE Lesser(sz, rp - wp - 1)

WriteFirst ==
    /\ wpc = "copy"
    /\ FreeSpace > 0
    /\ LET sz == Lesser(PacketLen - ret_len - done, FreeSpace)
           n  == FirstPart(sz)
       IN /\ buf' = Stored(n, 0)
          /\ wp' = wp + n
          /\ used' = used + n
          /\ written' = n
          /\ todo' = sz - n
    /\ wpc' = "wrap"
    /\ got' = << >>
    /\ UNCHANGED << rp, sem, waiters, packet, ret_len, done, reader >>

WriteWrap ==
    /\ wpc = "wrap"
    /\ wp' = IF wp = Size THEN 0 ELSE wp
    /\ wpc' = "second"
    /\ got' = << >>
    /\ UNCHANGED << buf, rp, used, sem, waiters, packet, ret_len, done, todo,
                    written, reader >>

\* The second copy, from the start of the buffer.
SecondPart == IF todo > 0 THEN Lesser(todo, rp - wp - 1) ELSE 0

WriteSecond ==
    /\ wpc = "second"
    /\ buf' = Stored(SecondPart, written)
    /\ wp' = wp + SecondPart
    /\ used' = used + SecondPart
    /\ written' = written + SecondPart
    /\ todo' = 0
    /\ wpc' = "up"
    /\ got' = << >>
    /\ UNCHANGED << rp, sem, waiters, packet, ret_len, done, reader >>

WriterUp ==
    /\ wpc = "up"
    /\ wp' = IF wp = Size THEN 0 ELSE wp
    /\ sem' = "free"
    /\ wpc' = "wake"
    /\ got' = << >>
    /\ UNCHANGED << buf, rp, used, waiters, packet, ret_len, done, todo, written,
                    reader >>

\* wake_up_interruptible; the callers count the bytes and call again or return.
Unwoken_all == waiters
Unwoken == {}

WakeUp ==
    /\ wpc = "wake"
    /\ waiters' = Unwoken
    /\ written' = 0
    /\ IF ret_len + done + written < PacketLen
       THEN done' = done + written /\ wpc' = "down" /\ UNCHANGED ret_len
       ELSE done' = 0 /\ ret_len' = PacketLen /\ wpc' = "idle"
    /\ got' = << >>
    /\ UNCHANGED << ring, sem, packet, todo, reader >>

Writer == \/ WriterDown \/ RingFull \/ WriteFirst \/ WriteWrap \/ WriteSecond
          \/ WriterUp \/ WakeUp

-----------------------------------------------------------------------------
(* The readers: esp_serial_read, esp_serial_poll and esp_rb_read_by_user.   *)

Becomes(r, pc) == rpc' = [rpc EXCEPT ![r] = pc]

\* The call returns and its local variables are gone.
Returns(r) == /\ Becomes(r, "idle")
              /\ left' = [left EXCEPT ![r] = 0]
              /\ mode' = [mode EXCEPT ![r] = "block"]
              /\ seen' = [seen EXCEPT ![r] = 0]

Call(r) ==
    /\ rpc[r] = "idle"
    /\ \E m \in Modes, n \in ReadSizes :
         /\ mode' = [mode EXCEPT ![r] = m]
         /\ left' = [left EXCEPT ![r] = n]
         /\ Becomes(r, IF m = "poll" THEN "register" ELSE "down")
    /\ got' = << >>
    /\ UNCHANGED << ring, sem, waiters, writer, seen >>

ReaderDown(r) ==
    /\ rpc[r] = "down"
    /\ sem = "free"
    /\ sem' = r
    /\ Becomes(r, "test")
    /\ got' = << >>
    /\ UNCHANGED << ring, waiters, writer, mode, left, seen >>

\* The buffer is empty: return -EAGAIN, or wait.
FoundEmpty(r) ==
    /\ rpc[r] = "test"
    /\ rp = wp
    /\ sem' = "free"
    /\ IF mode[r] = "block"
       THEN Becomes(r, "register") /\ UNCHANGED << mode, left, seen >>
       ELSE Returns(r)
    /\ got' = << >>
    /\ UNCHANGED << ring, waiters, writer >>

\* wait_event_interruptible and poll_wait register the process first and test
\* the two pointers after that, each with a load of its own.
Register(r) ==
    /\ rpc[r] = "register"
    /\ waiters' = waiters \cup {r}
    /\ seen' = [seen EXCEPT ![r] = rp]
    /\ Becomes(r, "check")
    /\ got' = << >>
    /\ UNCHANGED << ring, sem, writer, mode, left >>

Check(r) ==
    /\ rpc[r] = "check"
    /\ IF seen[r] # wp
       THEN waiters' = waiters \ {r} /\ Becomes(r, "down")
       ELSE UNCHANGED waiters /\ Becomes(r, "asleep")
    /\ seen' = [seen EXCEPT ![r] = 0]
    /\ got' = << >>
    /\ UNCHANGED << ring, sem, writer, mode, left >>

IsWoken(r) ==
    /\ rpc[r] = "asleep"
    /\ r \notin waiters
    /\ Becomes(r, "register")
    /\ got' = << >>
    /\ UNCHANGED << ring, sem, waiters, writer, mode, left, seen >>

Read(n) == [i \in 1 .. n |-> buf[rp + i - 1]]

\* The first copy to the user ...
ReadFirst(r) ==
    /\ rpc[r] = "test"
    /\ rp # wp
    /\ LET n == Lesser(left[r], IF wp > rp THEN wp - rp ELSE Size - rp) IN
         /\ got' = Read(n)
         /\ rp' = rp + n
         /\ used' = used - n
         /\ left' = [left EXCEPT ![r] = @ - n]
    /\ Becomes(r, "wrap")
    /\ UNCHANGED << buf, wp, sem, waiters, writer, mode, seen >>

WrapRead_never == FALSE
WrapRead == rp = Size

ReadWrap(r) ==
    /\ rpc[r] = "wrap"
    /\ rp' = IF WrapRead THEN 0 ELSE rp
    /\ Becomes(r, "second")
    /\ got' = << >>
    /\ UNCHANGED << buf, wp, used, sem, waiters, writer, mode, left, seen >>

\* ... and the second, if the user asked for more.
ReadSecond(r) ==
    /\ rpc[r] = "second"
    /\ LET n == IF left[r] > 0 THEN Lesser(left[r], wp - rp) ELSE 0 IN
         /\ got' = Read(n)
         /\ rp' = rp + n
         /\ used' = used - n
    /\ sem' = "free"
    /\ Returns(r)
    /\ UNCHANGED << buf, wp, waiters, writer >>

\* copy_to_user fails: -EFAULT, after the first copy with its bytes consumed.
ReadFails(r) ==
    /\ \/ rpc[r] = "test" /\ rp # wp
       \/ rpc[r] = "second" /\ left[r] > 0
    /\ sem' = "free"
    /\ Returns(r)
    /\ got' = << >>
    /\ UNCHANGED << ring, waiters, writer >>

\* A signal ends the wait for the semaphore or for data: -ERESTARTSYS.
Interrupted(r) ==
    /\ rpc[r] \in {"down", "asleep"}
    /\ waiters' = waiters \ {r}
    /\ Returns(r)
    /\ got' = << >>
    /\ UNCHANGED << ring, sem, writer >>

Reader(r) == \/ ReaderDown(r) \/ FoundEmpty(r) \/ Register(r) \/ Check(r)
             \/ IsWoken(r) \/ ReadFirst(r) \/ ReadWrap(r) \/ ReadSecond(r)

-----------------------------------------------------------------------------

Next ==
    \/ PacketArrives
    \/ Writer
    \/ \E r \in Readers : Call(r) \/ Reader(r) \/ ReadFails(r) \/ Interrupted(r)

\* The work item runs; a reader that has called runs, and gets the semaphore if
\* it is free again and again.  Nobody has to call or to be interrupted.
Fairness == /\ WF_vars(Writer)
            /\ \A r \in Readers : SF_vars(Reader(r))

Spec == Init /\ [][Next]_vars

FairSpec == Spec /\ Fairness

-----------------------------------------------------------------------------
(* Properties *)

WriterStates == {"idle", "down", "copy", "wrap", "second", "up", "wake"}
ReaderStates == {"idle", "down", "test", "register", "check", "asleep", "wrap",
                 "second"}

\* Types of the variables.
TypeOK ==
    /\ buf \in [0 .. Size - 1 -> Nat]
    /\ rp \in 0 .. Size /\ wp \in 0 .. Size
    /\ sem \in Readers \cup {"free", "writer"}
    /\ waiters \subseteq Readers
    /\ wpc \in WriterStates
    /\ packet \in Nat /\ ret_len \in Nat /\ done \in Nat
    /\ todo \in Nat /\ written \in Nat /\ used \in Nat
    /\ rpc \in [Readers -> ReaderStates]
    /\ mode \in [Readers -> {"block", "nonblock", "poll"}]
    /\ left \in [Readers -> Nat]
    /\ seen \in [Readers -> 0 .. Size]

\* The distance from rp to wp, around the end of the buffer.
Distance == IF wp >= rp THEN wp - rp ELSE wp + Size - rp

\* Only the holder of the semaphore is between down and up.
Writing == wpc \in {"copy", "wrap", "second", "up"}
Reading(r) == rpc[r] \in {"test", "wrap", "second"}

\* The two pointers account for every byte stored and not yet read: no copy,
\* split in two or not, has run past the other pointer or the end of the buffer,
\* and a full buffer is never taken for an empty one.
PointersAccount == used = Distance /\ used <= Size - 1

\* The bytes between the two pointers.
Contents == [i \in 1 .. used |-> buf[(rp + i - 1) % Size]]

Ring == INSTANCE ByteQueue WITH Capacity <- Size - 1, queue <- Contents

\* Whatever the sizes, the splits and the interleaving of the readers, the ring
\* buffer is a first-in first-out queue: no byte is overwritten before it is
\* read, read twice or read before it is stored.
RingIsQueue == Ring!Spec

\* No wake-up is lost between the unlocked test of the pointers and the sleep:
\* a reader does not sleep on while there is something to read.
SleeperIsWoken ==
    \A r \in Readers : (rpc[r] = "asleep" /\ used > 0)
                          ~> (rpc[r] # "asleep" \/ used = 0)
=============================================================================
