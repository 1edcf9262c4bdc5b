------------------------------ MODULE ByteQueue ------------------------------
(***************************************************************************)
(* What a ring buffer promises: a bounded first-in first-out queue of bytes  *)
(* into which a writer puts, and from which readers take, several at a time. *)
(***************************************************************************)
EXTENDS Naturals, Sequences

CONSTANTS Byte, Capacity

VARIABLES queue,   \* bytes put and not yet taken
          got      \* what the last step handed to a reader

vars == << queue, got >>

Init == queue = << >> /\ got = << >>

Put == \E n \in 1 .. Capacity - Len(queue) : \E s \in [1 .. n -> Byte] :
         queue' = queue \o s /\ got' = << >>

Take == \E n \in 1 .. Len(queue) :
         /\ got' = SubSeq(queue, 1, n)
         /\ queue' = SubSeq(queue, n + 1, Len(queue))

Rest == UNCHANGED queue /\ got' = << >>

Next == Put \/ Take \/ Rest

Spec == Init /\ [][Next]_vars
=============================================================================
