------------------------------- MODULE MCEspRb -------------------------------
(* Readers and read sizes for EspRb. *)
EXTENDS EspRb, TLC

CONSTANTS r1, r2

MCTwoReaders == {r1, r2}
MCSizes      == {1, 3}
MCModes      == {"block", "nonblock", "poll"}
=============================================================================
