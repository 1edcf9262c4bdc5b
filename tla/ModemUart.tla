------------------------------ MODULE ModemUart ------------------------------
(***************************************************************************)
(* The modem behind a UART (esp_modem_dte_uart.c), which the build chooses   *)
(* instead of USB: in command mode lines come by pattern interrupts (a new line), *)
(* in PPP mode data comes by receive interrupts, and change_mode switches       *)
(* between the two while the event task is at work.  Modem models what the      *)
(* commands do; here a change of mode is one command.                           *)
(*                                                                             *)
(* Characters: "a" "b" are the halves of an answer, "u" is a line that nobody    *)
(* asked for, "n" ends a line; "p" is data of the call and "q" data that looks    *)
(* like the end of a line.                                                       *)
(***************************************************************************)
EXTENDS Integers, Sequences, SequencesExt

CONSTANTS
    FifoSize,       \* of the UART
    MaxCommands, MaxLines, MaxData  \* bounds of the model: commands, lines unasked, data

UartAssumption == FifoSize \in Nat \ {0} /\ MaxCommands \in Nat /\ MaxLines \in Nat /\ MaxData \in Nat

VARIABLES
    mode,           \* dce->mode
    handle_line,    \* dce->handle_line is set
    bit,            \* ESP_MODEM_COMMAND_BIT
    sender,         \* the task that sends: [pc, cmd]
    modem,          \* [mode, todo]: its own mode, and the command it has got
    out,            \* what it has yet to send
    fifo, patHit,   \* the UART: received, and the pattern interrupt
    rxIntr, patDet, \* interrupts that are enabled
    rxBuf, pats,    \* the driver: received, and the positions of line ends in it
    event_queue,
    task,           \* uart_event_task_entry: [pc, length]
    sentCmds, sentLines, sentData,
    stale, early, overflow,  \* something was left at a change of mode, a line end came
                             \* before it, characters were lost (history)
    wrong           \* what went wrong with what was read (history)

uartVars == << mode, handle_line, bit, sender, modem, out, fifo, patHit, rxIntr, patDet, rxBuf,
               pats, event_queue, task, sentCmds, sentLines, sentData, stale, early, overflow,
               wrong >>

Idle == [pc |-> "idle", length |-> 0]
NoCmd == [pc |-> "idle", cmd |-> "none"]

\* esp_modem_dte_new
Init ==
    /\ mode = "command" /\ handle_line = FALSE /\ bit = FALSE /\ sender = NoCmd
    /\ modem = [mode |-> "command", todo |-> "none"] /\ out = << >>
    /\ fifo = << >> /\ patHit = FALSE /\ rxIntr = FALSE /\ patDet = TRUE
    /\ rxBuf = << >> /\ pats = << >> /\ event_queue = << >> /\ task = Idle
    /\ sentCmds = 0 /\ sentLines = 0 /\ sentData = 0
    /\ stale = FALSE /\ early = FALSE /\ overflow = FALSE /\ wrong = {}

driver == << fifo, patHit, rxIntr, patDet, rxBuf, pats, event_queue >>
bounds == << sentCmds, sentLines, sentData >>
history == << stale, early, overflow, wrong >>

-----------------------------------------------------------------------------
(* The modem *)

AnswerLine == << "a", "b", "n" >>

Answers ==
    /\ modem.todo # "none"
    /\ \/ /\ modem.mode = "command" \/ modem.todo = "hangup"
          /\ out' = out \o AnswerLine
          /\ modem' = [todo |-> "none",
                       mode |-> CASE modem.todo = "dial" -> "data"
                                  [] modem.todo = "hangup" -> "command"
                                  [] OTHER -> modem.mode]
       \/ modem' = [modem EXCEPT !.todo = "none"] /\ UNCHANGED out
    /\ UNCHANGED << mode, handle_line, bit, sender, driver, task, bounds, history >>

Unasked ==
    /\ modem.mode = "command" /\ sentLines < MaxLines
    /\ sentLines' = sentLines + 1
    /\ out' = out \o << "u", "n" >>
    /\ UNCHANGED << mode, handle_line, bit, sender, modem, driver, task, sentCmds, sentData, history >>

Data(c) ==
    /\ modem.mode = "data" /\ sentData < MaxData
    /\ sentData' = sentData + 1
    /\ out' = Append(out, c)
    /\ UNCHANGED << mode, handle_line, bit, sender, modem, driver, task, sentCmds, sentLines, history >>

-----------------------------------------------------------------------------
(* The UART and its driver *)

EndsLine(c) == c \in {"n", "q"}

\* A character comes; a FIFO that is full is emptied, and that is an event.
Arrives ==
    /\ out # << >> /\ out' = Tail(out)
    /\ IF Len(fifo) < FifoSize
       THEN /\ fifo' = Append(fifo, Head(out))
            /\ patHit' = (patHit \/ (patDet /\ EndsLine(Head(out))))
            /\ UNCHANGED << event_queue, overflow >>
       ELSE /\ fifo' = << >> /\ patHit' = FALSE
            /\ event_queue' = Append(event_queue, "overflow")
            /\ overflow' = TRUE
    /\ UNCHANGED << mode, handle_line, bit, sender, modem, rxIntr, patDet, rxBuf, pats, task, bounds,
                    stale, early, wrong >>

Received(e) ==
    /\ rxBuf' = rxBuf \o fifo
    /\ fifo' = << >> /\ patHit' = FALSE
    /\ event_queue' = Append(event_queue, e)
    /\ UNCHANGED << mode, handle_line, bit, sender, modem, out, rxIntr, patDet, task, bounds, stale,
                    overflow, wrong >>

\* The position of the last line end is queued.
LastEnd == CHOOSE i \in DOMAIN fifo : EndsLine(fifo[i]) /\ \A j \in i + 1 .. Len(fifo) : ~EndsLine(fifo[j])
PatternInterrupt ==
    /\ patDet /\ patHit
    /\ pats' = Append(pats, Len(rxBuf) + LastEnd - 1)
    /\ early' = (early \/ "q" \in ToSet(fifo))
    /\ Received("pattern")

RxInterrupt ==
    /\ rxIntr /\ fifo # << >> /\ ~(patDet /\ patHit)
    /\ Received("data")
    /\ UNCHANGED << pats, early >>

\* uart_read_bytes: positions in what was read are gone.
Gone(n) ==
    CHOOSE k \in 0 .. Len(pats) : /\ k = 0 \/ pats[k] < n
                                 /\ \A i \in k + 1 .. Len(pats) : pats[i] >= n
AfterRead(n) == [i \in 1 .. Len(pats) - Gone(n) |-> pats[i + Gone(n)] - n]
Reads(n) == rxBuf' = SubSeq(rxBuf, n + 1, Len(rxBuf)) /\ pats' = AfterRead(n)

Flushed == fifo' = << >> /\ patHit' = FALSE /\ rxBuf' = << >> /\ pats' = << >>

-----------------------------------------------------------------------------
(* uart_event_task_entry *)

TakeEvent ==
    /\ task = Idle /\ event_queue # << >>
    /\ event_queue' = Tail(event_queue)
    /\ task' = [Idle EXCEPT !.pc = CASE Head(event_queue) = "data" -> "length"
                                     [] Head(event_queue) = "pattern" -> "pop"
                                     [] OTHER -> "flush"]
    /\ UNCHANGED << mode, handle_line, bit, sender, modem, out, fifo, patHit, rxIntr, patDet, rxBuf,
                    pats, bounds, history >>

\* UART_FIFO_OVF and UART_BUFFER_FULL: uart_flush_input, xQueueReset
OverflowFlush ==
    /\ task.pc = "flush"
    /\ Flushed
    /\ task' = [Idle EXCEPT !.pc = "resetqueue"]
    /\ UNCHANGED << mode, handle_line, bit, sender, modem, out, rxIntr, patDet, event_queue, bounds,
                    history >>

OverflowReset ==
    /\ task.pc = "resetqueue"
    /\ event_queue' = << >>
    /\ task' = Idle
    /\ UNCHANGED << mode, handle_line, bit, sender, modem, out, fifo, patHit, rxIntr, patDet, rxBuf,
                    pats, bounds, history >>

\* esp_handle_uart_data: the length first, then the mode, then the position, which
\* it takes only to see whether there is one.
DataLength ==
    /\ task.pc = "length"
    /\ task' = [pc |-> "mode", length |-> Len(rxBuf)]
    /\ UNCHANGED << mode, handle_line, bit, sender, modem, out, driver, bounds, history >>

DataMode ==
    /\ task.pc = "mode"
    /\ task' = [task EXCEPT !.pc = IF mode = "ppp" THEN "ppp" ELSE IF pats # << >> THEN "pop" ELSE "line"]
    /\ pats' = IF mode # "ppp" /\ pats # << >> THEN Tail(pats) ELSE pats
    /\ UNCHANGED << mode, handle_line, bit, sender, modem, out, fifo, patHit, rxIntr, patDet, rxBuf,
                    event_queue, bounds, history >>

\* Both reads wait for the length that was found before, for ever.
DataToNetwork ==
    /\ task.pc = "ppp" /\ Len(rxBuf) >= task.length
    /\ Reads(task.length)
    /\ task' = Idle
    /\ UNCHANGED << mode, handle_line, bit, sender, modem, out, fifo, patHit, rxIntr, patDet,
                    event_queue, bounds, history >>

\* esp_dte_handle_line: the handler finds the answer in the text and sets the bit;
\* without a handler the text is an event for the user.
Whole(text) ==
    /\ text # << >> => Last(text) = "n"
    /\ ToSet(text) \cap {"p", "q"} = {}
    /\ \A i \in DOMAIN text : /\ text[i] = "a" => i + 1 \in DOMAIN text /\ text[i + 1] = "b"
                              /\ text[i] = "b" => i - 1 \in DOMAIN text /\ text[i - 1] = "a"
HasAnswer(text) == \E i \in DOMAIN text : text[i] = "a" /\ i + 1 \in DOMAIN text /\ text[i + 1] = "b"

Changing == sender.pc \in {"rxoff", "flush", "patternon", "resetpattern"}
InCommandMode == mode = "command" /\ ~Changing
HandleLine(text) ==
    /\ bit' = (bit \/ (handle_line /\ HasAnswer(text)))
    /\ wrong' = wrong \cup (IF InCommandMode /\ ~Whole(text) THEN {"line"} ELSE {})
                      \cup (IF mode = "ppp" /\ ToSet(text) \cap {"p", "q"} # {} THEN {"data"} ELSE {})

DataAsLine ==
    /\ task.pc = "line" /\ Len(rxBuf) >= task.length
    /\ HandleLine(SubSeq(rxBuf, 1, task.length))
    /\ Reads(task.length)
    /\ task' = Idle
    /\ UNCHANGED << mode, handle_line, sender, modem, out, fifo, patHit, rxIntr, patDet, event_queue,
                    bounds, stale, early, overflow >>

\* esp_handle_uart_pattern, also after the position has been taken once.
PopPosition ==
    /\ task.pc = "pop"
    /\ task' = IF pats # << >> THEN [pc |-> "pattern", length |-> Head(pats) + 1]
               ELSE [pc |-> "discard", length |-> Len(rxBuf)]
    /\ pats' = IF pats # << >> THEN Tail(pats) ELSE pats
    /\ UNCHANGED << mode, handle_line, bit, sender, modem, out, fifo, patHit, rxIntr, patDet, rxBuf,
                    event_queue, bounds, history >>

\* It takes what there is of the length.
PatternLine ==
    /\ task.pc = "pattern"
    /\ LET n == IF task.length < Len(rxBuf) THEN task.length ELSE Len(rxBuf) IN
       /\ HandleLine(SubSeq(rxBuf, 1, n))
       /\ Reads(n)
    /\ task' = Idle
    /\ UNCHANGED << mode, handle_line, sender, modem, out, fifo, patHit, rxIntr, patDet, event_queue,
                    bounds, stale, early, overflow >>

\* No position: everything is read, for which it waits as above, and thrown away.
Discard ==
    /\ task.pc = "discard" /\ Len(rxBuf) >= task.length
    /\ Flushed
    /\ wrong' = wrong \cup (IF InCommandMode /\ rxBuf \o fifo # << >> THEN {"dropped"} ELSE {})
                      \cup (IF mode = "ppp" /\ rxBuf \o fifo # << >> THEN {"data"} ELSE {})
    /\ task' = Idle
    /\ UNCHANGED << mode, handle_line, bit, sender, modem, out, rxIntr, patDet, event_queue, bounds,
                    stale, early, overflow >>

-----------------------------------------------------------------------------
(* esp_modem_dte_send_cmd and esp_modem_dte_change_mode *)

\* A command, or a change of mode, refused when it is the mode of the modem.
Begin(cmd) ==
    /\ sender = NoCmd /\ sentCmds < MaxCommands
    /\ sentCmds' = sentCmds + 1
    /\ \/ cmd = "dial" /\ mode = "command" /\ mode' = "transition"
       \/ cmd = "hangup" /\ mode = "ppp" /\ mode' = "transition"
       \/ cmd = "plain" /\ mode = "command" /\ UNCHANGED mode
    /\ sender' = [pc |-> "write", cmd |-> cmd]
    /\ UNCHANGED << handle_line, bit, modem, out, driver, task, sentLines, sentData, history >>

Write ==
    /\ sender.pc = "write"
    /\ handle_line' = TRUE
    /\ modem' = [modem EXCEPT !.todo = sender.cmd]
    /\ sender' = [sender EXCEPT !.pc = "wait"]
    /\ UNCHANGED << mode, bit, out, driver, task, bounds, history >>

\* The answer was handled: esp_modem_dte_process_cmd_done has set the bit.
AfterAnswer(cmd) == CASE cmd = "dial" -> "patternoff" [] cmd = "hangup" -> "rxoff" [] OTHER -> "idle"
Completes ==
    /\ sender.pc = "wait" /\ bit
    /\ bit' = FALSE /\ handle_line' = FALSE
    /\ mode' = CASE sender.cmd = "dial" -> "ppp" [] OTHER -> "command"
    /\ sender' = IF AfterAnswer(sender.cmd) = "idle" THEN NoCmd
                 ELSE [sender EXCEPT !.pc = AfterAnswer(sender.cmd)]
    /\ UNCHANGED << modem, out, driver, task, bounds, history >>

\* The mode is restored; the modem may have changed its own.
TimesOut ==
    /\ sender.pc = "wait" /\ ~bit
    /\ handle_line' = FALSE
    /\ mode' = IF sender.cmd = "hangup" THEN "ppp" ELSE "command"
    /\ stale' = TRUE
    /\ sender' = NoCmd
    /\ UNCHANGED << bit, modem, out, driver, task, bounds, early, overflow, wrong >>

Sender(pc, next) ==
    /\ sender.pc = pc
    /\ sender' = IF next = "idle" THEN NoCmd ELSE [sender EXCEPT !.pc = next]
    /\ UNCHANGED << mode, handle_line, bit, modem, out, task, event_queue, bounds >>

PatternOff ==
    /\ Sender("patternoff", "rxon")
    /\ patDet' = FALSE
    /\ UNCHANGED << fifo, patHit, rxIntr, rxBuf, pats, history >>

RxOn ==
    /\ Sender("rxon", "idle")
    /\ rxIntr' = TRUE
    /\ UNCHANGED << fifo, patHit, patDet, rxBuf, pats, history >>

RxOff ==
    /\ Sender("rxoff", "flush")
    /\ rxIntr' = FALSE
    /\ UNCHANGED << fifo, patHit, patDet, rxBuf, pats, history >>

\* Events and the task keep what they know of the time before, what comes in just
\* now is cut in two, and after an answer to an older command the call goes on.
LeftBehind ==
    event_queue # << >> \/ task # Idle \/ out # << >> \/ modem # [mode |-> "command", todo |-> "none"]
Flush_dropped ==
    /\ Sender("flush", "patternon")
    /\ stale' = LeftBehind /\ early' = FALSE /\ overflow' = FALSE /\ wrong' = {}
    /\ UNCHANGED << fifo, patHit, rxBuf, pats, rxIntr, patDet >>
Flush ==
    /\ Sender("flush", "patternon")
    /\ Flushed
    /\ stale' = LeftBehind /\ early' = FALSE /\ overflow' = FALSE /\ wrong' = {}
    /\ UNCHANGED << rxIntr, patDet >>

PatternOn ==
    /\ Sender("patternon", "resetpattern")
    /\ patDet' = TRUE /\ patHit' = FALSE
    /\ UNCHANGED << fifo, rxIntr, rxBuf, pats, history >>

\* A line that came since has lost its position.
ResetPattern ==
    /\ Sender("resetpattern", "idle")
    /\ pats' = << >>
    /\ stale' = (stale \/ pats # << >> \/ task # Idle)
    /\ UNCHANGED << fifo, patHit, rxIntr, patDet, rxBuf, early, overflow, wrong >>

-----------------------------------------------------------------------------
Next ==
    \/ Answers \/ Unasked \/ \E c \in {"p", "q"} : Data(c)
    \/ Arrives \/ PatternInterrupt \/ RxInterrupt
    \/ TakeEvent \/ OverflowFlush \/ OverflowReset
    \/ DataLength \/ DataMode \/ DataToNetwork \/ DataAsLine
    \/ PopPosition \/ PatternLine \/ Discard
    \/ \E cmd \in {"plain", "dial", "hangup"} : Begin(cmd)
    \/ Write \/ Completes \/ TimesOut
    \/ PatternOff \/ RxOn \/ RxOff \/ Flush \/ PatternOn \/ ResetPattern

Spec == Init /\ [][Next]_uartVars

-----------------------------------------------------------------------------
(* Properties *)

\* Since the last change to command mode: the texts that are handled consist of whole
\* lines, none is thrown away, and in PPP mode no data is taken for a line, whatever the
\* call before left in the driver, unless an event, a read or characters were on their
\* way at the change, or a command has timed out, or the FIFO has run over; or, for
\* the data, unless a line end in it came before the change to PPP mode.
LinesAreWhole ==
    ~stale /\ ~overflow => /\ wrong \cap {"line", "dropped"} = {}
                           /\ ~early => "data" \notin wrong
=============================================================================
