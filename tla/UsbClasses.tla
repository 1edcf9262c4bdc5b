----------------------------- MODULE UsbClasses -----------------------------
(***************************************************************************)
(* Two small classes of the USB device.  The disk (tusb_msc.c): a logical unit    *)
(* that the host mounts, writes and ejects.  The Bluetooth controller (tusb_bth.c): *)
(* ACL packets of the host come in pieces of the size of the endpoint, are put     *)
(* together and passed to the controller.                                       *)
(***************************************************************************)
EXTENDS Integers

CONSTANTS
    PieceSize,    \* size of the endpoint, in bytes
    MaxLength,    \* bounds of the model: longest packet,
    MaxCommands   \*   and commands of the host

ClassesAssumption == PieceSize \in Nat \ {0} /\ MaxLength \in Nat

VARIABLES
    ejected,          \* ejected[0]
    s_disk_block_size, \* known, that is not 0
    unsynced,         \* blocks that the disk has not yet written through
    afterEject,       \* the host has written to the disk it had ejected (history)
    divided,          \* a division by the unknown block size
    bth,              \* "init", "testing" (host_rcv_pkt_test) or "ready"
    acl,              \* the packet of the host: [len, sent], bytes of it that are sent
    prepare_write, write_offset, acl_data_length,
    passed,           \* the last packet the controller got: [len, want], or length 0
    apart,            \* a piece was taken for the wrong part of a packet (history)
    split, unready,   \* the longest kind of packet so far; data before the buffer (history)
    commands

classVars == << ejected, s_disk_block_size, unsynced, afterEject, divided, bth, acl, prepare_write,
                write_offset, acl_data_length, passed, apart, split, unready, commands >>

disk == << ejected, s_disk_block_size, unsynced, afterEject, divided >>
bluetooth == << bth, acl, prepare_write, write_offset, acl_data_length, passed, apart, split, unready >>

NoPacket == [len |-> 0, sent |-> 0]

Init ==
    /\ ejected = TRUE /\ s_disk_block_size = FALSE /\ unsynced = FALSE
    /\ afterEject = FALSE /\ divided = FALSE
    /\ bth = "init" /\ acl = NoPacket
    /\ prepare_write = FALSE /\ write_offset = 0 /\ acl_data_length = 0
    /\ passed = [len |-> 0, want |-> 0] /\ apart = FALSE /\ split = "short" /\ unready = FALSE
    /\ commands = 0

Command == commands < MaxCommands /\ commands' = commands + 1

-----------------------------------------------------------------------------
(* The disk *)

tud_mount_cb ==
    /\ Command
    /\ ejected' = FALSE /\ afterEject' = FALSE
    /\ UNCHANGED << s_disk_block_size, unsynced, divided, bluetooth >>

\* READ CAPACITY finds out the size of a block.
tud_msc_capacity_cb ==
    /\ Command
    /\ s_disk_block_size' = TRUE
    /\ UNCHANGED << ejected, unsynced, afterEject, divided, bluetooth >>

\* READ10 and WRITE10 divide by the size of a block, and do not ask whether the disk
\* is ejected.
tud_msc_read10_cb ==
    /\ Command
    /\ divided' = (divided \/ ~s_disk_block_size)
    /\ UNCHANGED << ejected, s_disk_block_size, unsynced, afterEject, bluetooth >>

tud_msc_write10_cb ==
    /\ Command
    /\ divided' = (divided \/ ~s_disk_block_size)
    /\ unsynced' = TRUE
    /\ afterEject' = (afterEject \/ ejected)
    /\ UNCHANGED << ejected, s_disk_block_size, bluetooth >>

\* START STOP UNIT: stopping writes everything through, and ejects if it is asked to
\* and that succeeds.
EjectSyncs(synced) == unsynced' = (unsynced /\ ~synced)
tud_msc_start_stop_cb(start, load_eject, synced) ==
    /\ Command
    /\ IF start THEN UNCHANGED << ejected, unsynced >>
       ELSE /\ EjectSyncs(synced)
            /\ ejected' = (ejected \/ (load_eject /\ synced))
    /\ UNCHANGED << s_disk_block_size, afterEject, divided, bluetooth >>

-----------------------------------------------------------------------------
(* The Bluetooth controller *)

tusb_bth_init ==
    /\ bth = "init" /\ Command
    /\ bth' = "testing"
    /\ UNCHANGED << disk, acl, prepare_write, write_offset, acl_data_length, passed, apart, split, unready >>

\* The first packet of the controller, whatever it is, makes the buffer.
host_rcv_pkt_test ==
    /\ bth = "testing"
    /\ bth' = "ready"
    /\ UNCHANGED << disk, acl, prepare_write, write_offset, acl_data_length, passed, apart, split, unready,
                    commands >>

Total(p) == p.len + 4
Rest(p) == Total(p) - p.sent
Smaller(a, b) == IF a < b THEN a ELSE b
Piece(p) == Smaller(PieceSize, Rest(p))
LastPiece(p) == IF Total(p) % PieceSize = 0 THEN PieceSize ELSE Total(p) % PieceSize

\* A packet whose data is longer than n bytes is put together.
Kind(n) == IF n + 4 <= PieceSize THEN "short"
           ELSE IF LastPiece([len |-> n, sent |-> 0]) <= 5 THEN "cut" ELSE "long"
Longest(a, b) == IF "cut" \in {a, b} THEN "cut" ELSE IF "long" \in {a, b} THEN "long" ELSE "short"

HostPacket(n) ==
    /\ acl = NoPacket /\ Command
    /\ acl' = [len |-> n, sent |-> 0]
    /\ split' = Longest(split, Kind(n))
    /\ UNCHANGED << disk, bth, prepare_write, write_offset, acl_data_length, passed, apart, unready >>

\* tud_bt_acl_data_received_cb: the length in the header does not count the header, and
\* the end of the last piece is counted twice in what is passed on.
Complete(received, piece) == acl_data_length <= received
Pass(n) == passed' = [len |-> n, want |-> Total(acl) + 1]
tud_bt_acl_data_received_cb ==
    LET piece == Piece(acl) first == acl.sent = 0 IN
    /\ acl # NoPacket /\ ~apart
    /\ acl' = IF Rest(acl) = piece THEN NoPacket ELSE [acl EXCEPT !.sent = @ + piece]
    /\ unready' = (unready \/ bth # "ready")
    /\ apart' = (first = prepare_write)
    /\ IF ~prepare_write
       THEN /\ acl_data_length' = acl.len
            /\ prepare_write' = (acl.len > piece)
            /\ IF acl.len > piece
               THEN write_offset' = piece + 1 /\ UNCHANGED passed
               ELSE Pass(piece + 1) /\ UNCHANGED write_offset
       ELSE /\ write_offset' = write_offset + piece
            /\ IF Complete(write_offset + piece, piece)
               THEN prepare_write' = FALSE /\ Pass(2 * piece + write_offset)
               ELSE UNCHANGED << prepare_write, passed >>
            /\ UNCHANGED acl_data_length
    /\ UNCHANGED << disk, bth, split, commands >>

Next ==
    \/ tud_mount_cb \/ tud_msc_capacity_cb \/ tud_msc_read10_cb \/ tud_msc_write10_cb
    \/ \E start, load_eject, synced \in BOOLEAN : tud_msc_start_stop_cb(start, load_eject, synced)
    \/ tusb_bth_init \/ host_rcv_pkt_test
    \/ \E n \in 0..MaxLength : HostPacket(n)
    \/ tud_bt_acl_data_received_cb

-----------------------------------------------------------------------------
(* Properties *)

\* The pieces of the packets of the host stay in step with what the device takes
\* them for, unless the last piece of a packet has at most five bytes; a packet of one
\* piece has the right length for the controller; and what was written to the disk
\* before it was ejected is written through.
ClassesSound ==
    /\ split # "cut" => ~apart /\ (acl = NoPacket => ~prepare_write)
    /\ split = "short" => passed.len = passed.want
    /\ ejected /\ ~afterEject => ~unsynced
=============================================================================
