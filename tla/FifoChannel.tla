----------------------------- MODULE FifoChannel -----------------------------
(***************************************************************************)
(* What one direction of the SPI link promises for one class of packets:    *)
(* packets come out in the order they went in, each at most once, and, if   *)
(* the channel is not lossy, none is skipped.  Packets are numbered in the  *)
(* order of sending.                                                       *)
(***************************************************************************)
EXTENDS Naturals, Sequences, SequencesExt

CONSTANT Initially   \* number of packets in the channel at the start

VARIABLES lossy,     \* packets in the channel may disappear
          sent,      \* number of packets sent
          channel,   \* the packets sent and not yet received
          received   \* the last packet received, 0 before the first

vars == << lossy, sent, channel, received >>

Init == /\ lossy \in BOOLEAN
        /\ sent = Initially
        /\ channel = [i \in 1 .. Initially |-> i]
        /\ received = 0

Send == /\ sent' = sent + 1
        /\ channel' = Append(channel, sent')
        /\ UNCHANGED << lossy, received >>

Receive == /\ channel # << >>
           /\ received' = Head(channel)
           /\ channel' = Tail(channel)
           /\ UNCHANGED << lossy, sent >>

Lose == /\ lossy
        /\ \E i \in DOMAIN channel : channel' = RemoveAt(channel, i)
        /\ UNCHANGED << lossy, sent, received >>

Next == Send \/ Receive \/ Lose

Spec == Init /\ [][Next]_vars
=============================================================================
