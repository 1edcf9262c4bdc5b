------------------------------ MODULE MCSpiLink ------------------------------
(* Bounds for SpiLink: how many packets of each class the slave sends. *)
EXTENDS SpiLink

MCBoth   == [others |-> 2, bt |-> 1]
MCThree  == [others |-> 3, bt |-> 0]
=============================================================================
