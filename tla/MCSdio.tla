------------------------------- MODULE MCSdio -------------------------------
(***************************************************************************)
(* The two directions of the SDIO link in one run.  They share nothing but the *)
(* bus, which each module has as its environment, so a behaviour of the run    *)
(* moves one of them, chosen at its start.                                   *)
(***************************************************************************)
EXTENDS SdioTx

CONSTANTS n1, h1,                \* a network device and an HCI user
          ByteMax, Block, Sizes

MCNetDevs  == {n1}
MCHciUsers == {h1}
MCSizes    == {1, 3}             \* less than a block, a block and a part

VARIABLES direction, lock, ipc, rx_work, rpc, data_left, rx_byte_count, rxfail,
          unread, len_reg, int_st

Rx == INSTANCE SdioRx

ASSUME MCBytesAssumption == Rx!BytesAssumption

rxVars  == << lock, ipc, rx_work, rpc, data_left, rx_byte_count, rxfail,
              unread, len_reg, int_st >>
allVars == << direction, vars, rxVars >>

\* The side that does not move has one initial state.
MCInit == /\ direction \in {"tx", "rx"} /\ Init /\ Rx!Init
          /\ direction = "rx" => token = 0 /\ ~ smp
          /\ direction = "tx" => len_reg = 0

TxMoves   == direction = "tx" /\ UNCHANGED << direction, rxVars >>
RxMoves   == direction = "rx" /\ UNCHANGED << direction, vars >>

MCNext == \/ TxMoves /\ Next
          \/ RxMoves /\ Rx!Next

\* The fairness of SdioRx.
MCSpec == /\ MCInit /\ [][MCNext]_allVars
          /\ SF_allVars(RxMoves /\ Rx!Isr) /\ WF_allVars(RxMoves /\ Rx!IsrClears)
          /\ SF_allVars(RxMoves /\ Rx!RxWork)
          /\ WF_allVars(RxMoves /\ Rx!OtherReleases)

\* The host reads each packet whole (SdioRx).
ReadsMatch == Rx!ReadsMatch

\* Each packet of the slave is read to its end (SdioRx).
SendCompletes == Rx!SendCompletes
=============================================================================
