------------------------------- MODULE MCHost -------------------------------
(***************************************************************************)
(* The parts of the host driver and of the slave around the channels: in a     *)
(* behaviour of the run one of them moves, chosen at its start, while the others *)
(* keep an initial state.  The transmit path (SpiHostTx) is taken over a reinit   *)
(* and a failed transaction, which the run of its own (MCSpiHostTx) leaves out.    *)
(***************************************************************************)
EXTENDS SpiHostTx

CONSTANTS serial, MaxLoads, MaxPackets, BUFFER_NUM, SerialTasks, MaxFragments, Numbers,
          MaxMessages

MCUsers == {serial}

VARIABLES part,
          bus, life, held, priv, adding, hci, path, queuesStopped, rxq, rx, loads, failed, faults,
          datapath, ifState, loaded, filled, recv, running, sending, vhci_send_sem,
          inController, armed, moving,
          seq_num, writing, sent, messages, cut, overlapped

Card == INSTANCE HostCard
Slave == INSTANCE SlaveAdapter
Writes == INSTANCE SerialWrite

ASSUME HostAssumption ==
    Card!CardAssumption /\ Slave!AdapterAssumption /\ Writes!WriteAssumption

cardVars == << bus, life, held, priv, adding, hci, path, queuesStopped, rxq, rx, loads, failed,
               faults >>

slaveVars == << datapath, ifState, loaded, filled, recv, running, sending, vhci_send_sem,
                inController, armed, moving >>

writeVars == << seq_num, writing, sent, messages, cut, overlapped >>

MCInit ==
    /\ part \in {"tx", "card", "slave", "write"}
    /\ Init /\ Card!Init /\ Slave!Init /\ Writes!Init
    /\ part # "tx" => ~handshake /\ ~smp
    /\ part # "card" => bus = "spi"

MCNext ==
    /\ UNCHANGED part
    /\ \/ part = "tx" /\ Next /\ UNCHANGED << cardVars, slaveVars, writeVars >>
       \/ part = "card" /\ Card!Next /\ UNCHANGED << vars, slaveVars, writeVars >>
       \/ part = "slave" /\ Slave!Next /\ UNCHANGED << vars, cardVars, writeVars >>
       \/ part = "write" /\ Writes!Next /\ UNCHANGED << vars, cardVars, slaveVars >>

MCSpec == MCInit /\ [][MCNext]_<< part, vars, cardVars, slaveVars, writeVars >>

\* An unload that no failure preceded gives everything back, and only the uses that are
\* named there meet a device that is gone or not registered yet (HostCard).
CardSound == Card!UnloadIsClean /\ Card!OnlyTheseRaces

\* On the way to the slave, the messages of the serial device can be told apart
\* (SerialWrite), and buffers, semaphore and callbacks of the slave's receive path are
\* in order (SlaveAdapter).
ReceivePathSound == Writes!MessagesApart /\ Slave!ReceivePathSound
=============================================================================
