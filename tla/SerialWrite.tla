------------------------------ MODULE SerialWrite ------------------------------
(***************************************************************************)
(* Writing to the serial device of the host driver (esp_serial_write): a message is *)
(* sent as fragments of at most ETH_DATA_LEN bytes that share a sequence number, all  *)
(* but the last marked as followed by more.  The number is a static variable of the    *)
(* function, there is no lock, and a write ends early when a fragment cannot be sent. *)
(***************************************************************************)
EXTENDS Integers, Sequences, FiniteSets

CONSTANTS
    SerialTasks,   \* tasks that write
    MaxFragments,  \* ESP_SERIAL_MAX_TX in fragments of ETH_DATA_LEN
    Numbers,       \* values of the sequence number; 2^16 in the code
    MaxMessages    \* bound of the model: writes

WriteAssumption ==
    /\ IsFiniteSet(SerialTasks) /\ MaxFragments \in Nat \ {0}
    /\ Numbers \in Nat \ {0} /\ MaxMessages \in Nat

VARIABLES
    seq_num,
    writing,       \* of every task: [pc, msg, left, num], left in fragments
    sent,          \* fragments that were sent: [msg, num, more]
    messages,      \* writes so far
    cut,           \* messages that were not sent to the end (history)
    overlapped     \* messages whose write overlapped another (history)

writeVars == << seq_num, writing, sent, messages, cut, overlapped >>

NotWriting == [pc |-> "rest", msg |-> 0, left |-> 0, num |-> 0]

Init ==
    /\ seq_num = 0 /\ writing = [t \in SerialTasks |-> NotWriting]
    /\ sent = << >> /\ messages = 0 /\ cut = {} /\ overlapped = {}

Busy == {t \in SerialTasks : writing[t].pc # "rest"}
Goes(t, pc) == writing' = [writing EXCEPT ![t].pc = pc]

\* A write of nothing is one empty fragment; one that is too long returns at once.
Write(t, n) ==
    /\ t \notin Busy /\ messages < MaxMessages
    /\ messages' = messages + 1
    /\ writing' = [writing EXCEPT ![t] = [pc |-> "count", msg |-> messages + 1, left |-> n, num |-> 0]]
    /\ overlapped' = IF Busy = {} THEN overlapped
                     ELSE overlapped \cup {messages + 1} \cup {writing[u].msg : u \in Busy}
    /\ UNCHANGED << seq_num, sent, cut >>

\* seq_num++, which reads and then stores.
Count(t) ==
    /\ writing[t].pc = "count"
    /\ writing' = [writing EXCEPT ![t].pc = "store", ![t].num = seq_num]
    /\ UNCHANGED << seq_num, sent, messages, cut, overlapped >>

Store(t) ==
    /\ writing[t].pc = "store"
    /\ seq_num' = (writing[t].num + 1) % Numbers
    /\ Goes(t, "header")
    /\ UNCHANGED << sent, messages, cut, overlapped >>

\* Every header reads the variable again.
Header(t) ==
    /\ writing[t].pc = "header"
    /\ writing' = [writing EXCEPT ![t].pc = "send", ![t].num = seq_num]
    /\ UNCHANGED << seq_num, sent, messages, cut, overlapped >>

\* esp_send_packet
Send(t) ==
    /\ writing[t].pc = "send"
    /\ LET w == writing[t] IN
        /\ sent' = Append(sent, [msg |-> w.msg, num |-> w.num, more |-> w.left > 1])
        /\ writing' = [writing EXCEPT ![t] = IF w.left > 1 THEN [w EXCEPT !.pc = "header", !.left = w.left - 1]
                                             ELSE NotWriting]
    /\ UNCHANGED << seq_num, messages, cut, overlapped >>

\* No memory, a page of the user that is not there, or esp_send_packet that refuses.
Fails(t) ==
    /\ writing[t].pc \in {"header", "send"}
    /\ cut' = cut \cup {writing[t].msg}
    /\ writing' = [writing EXCEPT ![t] = NotWriting]
    /\ UNCHANGED << seq_num, sent, messages, overlapped >>

Next == \E t \in SerialTasks :
    \/ \E n \in 1 .. MaxFragments : Write(t, n)
    \/ Count(t) \/ Store(t) \/ Header(t) \/ Send(t) \/ Fails(t)

-----------------------------------------------------------------------------
(* Property *)

\* The fragments of a message that no other write overlapped are sent one after the
\* other, and the receiver can tell where it ends, also after one that was cut off: the
\* next fragment has the same number exactly if it is of the same message, unless as many
\* writes as there are numbers have failed before it, and a fragment followed by more is
\* followed by more of its message, unless it was cut.
MessagesApart ==
    \A i \in 1 .. Len(sent) - 1 :
        LET f == sent[i]
            g == sent[i + 1]
        IN f.msg \notin overlapped /\ g.msg \notin overlapped =>
            /\ g.msg - f.msg < Numbers => (f.num = g.num <=> f.msg = g.msg)
            /\ f.more /\ f.msg \notin cut => f.msg = g.msg
            /\ ~f.more => f.msg # g.msg
=============================================================================
