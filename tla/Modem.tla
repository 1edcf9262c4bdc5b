-------------------------------- MODULE Modem --------------------------------
(***************************************************************************)
(* The modem behind USB: the exchange of commands and lines (esp_modem_dte_usb.c *)
(* and esp_modem_dce.c), retry and recovery (esp_modem_recov_helper.c and       *)
(* iot_bridge's modem_board_usb.c), and the two tasks that dial: the one that runs *)
(* esp_bridge_modem_init and the event task, which restarts PPP when the address  *)
(* is lost (bridge_modem.c).  The modem and PPP are the environment.  An answer is *)
(* marked with the task it is for, "old" once that task has given up on it.     *)
(***************************************************************************)
EXTENDS Integers, Sequences

CONSTANTS
    MaxTimeouts, MaxErrors,  \* retries_after_timeout, retries_after_error
    DialTimes,               \* CONFIG_MODEM_DIAL_RERTY_TIMES
    MaxLines                 \* bound of the model: commands and lines under way

ModemAssumption == MaxTimeouts \in Nat /\ MaxErrors \in Nat /\ DialTimes \in Nat /\ MaxLines \in Nat

Tasks == {"init", "events"}
NoHandler == "none"
Old == "old"

VARIABLES
    dceMode,          \* dce->mode: "command", "transition" or "ppp"
    handler,          \* dce->handle_line
    state,            \* dce->state
    done, doneOf,     \* ESP_MODEM_COMMAND_BIT, and whose answer set it (history)
    step, saved,      \* per task: what it does, and current_mode of its change_mode
    awaits,           \* tasks in xEventGroupWaitBits of send_cmd
    timeouts, errors, \* of esp_modem_retry_run
    redo,             \* the command it repeats
    dials,
    wire,             \* commands written, answers on their way: [of, cmd], [of, line]
    rx,               \* receiving task: [pc, line]
    real,             \* the mode the modem is in
    linked,           \* CONNECT_BIT
    late, both,       \* a command has timed out, both tasks have been dialling (history)
    mixup             \* a command ended with another one's answer (history)

exch == << handler, state, done, doneOf, awaits, wire, rx, late, mixup >>
dial == << timeouts, errors, redo, dials >>
vars == << dceMode, step, saved, real, linked, both, exch, dial >>

NoLine == [pc |-> "read", of |-> Old, line |-> "OK"]

Init ==
    /\ dceMode = "command" /\ handler = NoHandler /\ state = "success"
    /\ done = FALSE /\ doneOf = Old
    /\ step = [t \in Tasks |-> IF t = "init" THEN "sync" ELSE "idle"]
    /\ saved = [t \in Tasks |-> "command"] /\ awaits = {}
    /\ timeouts = 0 /\ errors = 0 /\ redo = "sync" /\ dials = DialTimes
    /\ wire = << >> /\ rx = NoLine /\ real = "command"
    /\ linked = FALSE
    /\ late = FALSE /\ both = FALSE /\ mixup = FALSE

-----------------------------------------------------------------------------
(* The modem *)

\* The steps of the tasks that are commands, and the handler of the answer.
Commands == {"sync", "echo", "flow", "store", "readpin", "setpin", "readpin2", "resync", "escsync",
             "pdp", "atd", "ato", "esc", "recesc", "hangup"}
HandlerOf(cmd) == CASE cmd \in {"atd", "ato"} -> "atd_ppp"
                    [] cmd \in {"esc", "recesc"} -> "exit_data_mode"
                    [] OTHER -> "default"

\* What the modem may answer; in data mode it only understands the escape.
AnswersTo(cmd) ==
    IF real = "data"
    THEN IF cmd \in {"esc", "recesc"} THEN {"OK", "NO CARRIER"} ELSE {}
    ELSE IF cmd \in {"atd", "ato"} THEN {"CONNECT", "ERROR"} ELSE {"OK", "ERROR"}

IsCommand(x) == x.cmd # "-"
CommandsOnWire == {n \in 1 .. Len(wire) : IsCommand(wire[n])}
LinesOnWire == {n \in 1 .. Len(wire) : ~IsCommand(wire[n])}
First(S) == CHOOSE n \in S : \A m \in S : n <= m
Without(n) == SubSeq(wire, 1, n - 1) \o SubSeq(wire, n + 1, Len(wire))

\* The modem answers, or does not understand what it got.
Answer ==
    /\ CommandsOnWire # {}
    /\ LET n == First(CommandsOnWire)
           w == wire[n]
       IN \/ \E a \in AnswersTo(w.cmd) :
                /\ wire' = Append(Without(n), [of |-> w.of, cmd |-> "-", line |-> a])
                /\ real' = IF a = "CONNECT" THEN "data"
                           ELSE IF w.cmd \in {"esc", "recesc"} THEN "command" ELSE real
          \/ wire' = Without(n) /\ UNCHANGED real
    /\ UNCHANGED << dceMode, step, saved, linked, both, handler, state, done, doneOf,
                    awaits, rx, late, mixup, dial >>

-----------------------------------------------------------------------------
(* The receiving task *)

\* esp_handle_usb_data: a line read in PPP mode goes to the network, one without a
\* handler is dropped.
RxRead ==
    /\ rx.pc = "read" /\ LinesOnWire # {}
    /\ LET n == First(LinesOnWire) IN
       /\ wire' = Without(n)
       /\ rx' = IF dceMode = "ppp" \/ handler = NoHandler THEN NoLine
                ELSE [pc |-> "check", of |-> wire[n].of, line |-> wire[n].line]
    /\ UNCHANGED << dceMode, step, saved, real, linked, both, handler, state, done, doneOf,
                    awaits, late, mixup, dial >>

\* esp_dte_handle_line: without a handler the line goes to the event loop.
RxCheck ==
    /\ rx.pc = "check"
    /\ rx' = IF handler = NoHandler THEN NoLine ELSE [rx EXCEPT !.pc = "call"]
    /\ UNCHANGED << dceMode, step, saved, real, linked, both, handler, state, done, doneOf,
                    awaits, wire, late, mixup, dial >>

\* handle_response_default, handle_atd_ppp, handle_exit_data_mode
Successes(h) == CASE h = "default" -> {"OK"}
                  [] h = "atd_ppp" -> {"CONNECT"}
                  [] h = "exit_data_mode" -> {"OK", "NO CARRIER"}
                  [] OTHER -> {}
Failures(h) == IF h = "powerup" THEN {} ELSE {"ERROR"}

\* The handler is loaded again for the call.
RxCall ==
    /\ rx.pc = "call" /\ handler # NoHandler
    /\ IF rx.line \in Successes(handler) \cup Failures(handler)
       THEN /\ state' = IF rx.line \in Successes(handler) THEN "success" ELSE "fail"
            /\ rx' = [rx EXCEPT !.pc = "bit"]
       ELSE rx' = NoLine /\ UNCHANGED state
    /\ UNCHANGED << dceMode, step, saved, real, linked, both, handler, done, doneOf,
                    awaits, wire, late, mixup, dial >>

\* esp_modem_dte_process_cmd_done
RxBit ==
    /\ rx.pc = "bit"
    /\ done' = TRUE /\ doneOf' = rx.of
    /\ rx' = NoLine
    /\ UNCHANGED << dceMode, step, saved, real, linked, both, handler, state,
                    awaits, wire, late, mixup, dial >>

-----------------------------------------------------------------------------
(* A command of a task: esp_modem_dce_generic_command and send_cmd *)

Send(t) ==
    /\ step[t] \in Commands /\ t \notin awaits
    /\ Len(wire) < MaxLines
    /\ handler' = HandlerOf(step[t])
    /\ state' = "processing"
    /\ wire' = Append(wire, [of |-> t, cmd |-> step[t], line |-> "-"])
    /\ awaits' = awaits \cup {t}
    /\ UNCHANGED << dceMode, step, saved, real, linked, both, done, doneOf, rx, late, mixup, dial >>

\* What is on its way for t is old from now on.
Forget(t) ==
    /\ wire' = [n \in 1 .. Len(wire) |-> IF wire[n].of = t THEN [wire[n] EXCEPT !.of = Old] ELSE wire[n]]
    /\ rx' = IF rx.of = t THEN [rx EXCEPT !.of = Old] ELSE rx

\* xEventGroupWaitBits clears the bit when it ends with it.
BitAfterWait_kept == done
BitAfterWait == FALSE

Complete(t, r) ==
    /\ t \in awaits
    /\ IF r = "timeout"
       THEN late' = TRUE /\ UNCHANGED << done, mixup >>
       ELSE /\ done /\ done' = BitAfterWait
            /\ r = IF state = "fail" THEN "fail" ELSE "ok"
            /\ mixup' = (mixup \/ doneOf # t)
            /\ UNCHANGED late
    /\ handler' = NoHandler
    /\ awaits' = awaits \ {t}
    /\ Forget(t)
    /\ UNCHANGED << state, doneOf >>

-----------------------------------------------------------------------------
(* The programs of the tasks *)

Goto(t, s) == step' = [step EXCEPT ![t] = s]
Linear(t, cmd, next, r) == step[t] = cmd /\ Goto(t, IF r = "ok" THEN next ELSE "restart")

\* esp_modem_retry_run with my_recov: sync and store_profile.
GivesUp(r) == IF r = "timeout" THEN timeouts >= MaxTimeouts ELSE errors >= MaxErrors
Recovery(r) == IF r = "fail" THEN "readpin"
               ELSE CASE timeouts = 0 -> "recesc" [] timeouts = 1 -> "reset" [] OTHER -> "powerdown"

Retried(t, cmd, next, r) ==
    /\ step[t] = cmd
    /\ IF r = "ok"
       THEN Goto(t, next) /\ timeouts' = 0 /\ errors' = 0 /\ UNCHANGED redo
       ELSE /\ Goto(t, IF GivesUp(r) THEN "restart" ELSE Recovery(r))
            /\ redo' = cmd
            /\ timeouts' = IF r = "timeout" THEN timeouts + 1 ELSE timeouts
            /\ errors' = IF r = "fail" THEN errors + 1 ELSE errors
    /\ UNCHANGED dials

\* The commands of my_recov; all but the last answers are ignored, and whether a
\* PIN is needed is in a line of its own.
Recovering(t, r) ==
    /\ \/ step[t] = "recesc" /\ Goto(t, "escsync")
       \/ step[t] = "escsync" /\ Goto(t, redo)
       \/ step[t] = "readpin" /\ \E s \in {"setpin", "readpin2"} : Goto(t, s)
       \/ step[t] = "setpin" /\ Goto(t, "readpin2")
       \/ step[t] = "readpin2" /\ \E s \in {redo, "restart"} : Goto(t, s)
    /\ UNCHANGED << dial >>

StartUp(t, r) ==
    /\ \/ Retried(t, "sync", "echo", r)
       \/ Linear(t, "echo", "flow", r) /\ UNCHANGED dial
       \/ Linear(t, "flow", "store", r) /\ UNCHANGED dial
       \/ Retried(t, "store", "start", r)
       \/ Recovering(t, r)
    /\ UNCHANGED << dceMode, saved >>

\* esp_modem_switch_to_data_mode; a failure restores the mode.
Restored_never(t) == UNCHANGED dceMode
Restored(t) == dceMode' = saved[t]
Dial(t, r) ==
    /\ \/ /\ step[t] = "pdp"
          /\ IF r = "ok" THEN Goto(t, "atd") /\ UNCHANGED dceMode ELSE Goto(t, "startfailed") /\ Restored(t)
       \/ /\ step[t] = "atd"
          /\ IF r = "ok" THEN Goto(t, "started") /\ dceMode' = "ppp" ELSE Goto(t, "ato") /\ UNCHANGED dceMode
       \/ /\ step[t] = "ato"
          /\ IF r = "ok" THEN Goto(t, "started") /\ dceMode' = "ppp" ELSE Goto(t, "startfailed") /\ Restored(t)
    /\ UNCHANGED << saved, dial >>

\* esp_modem_switch_to_command_mode
HangUp(t, r) ==
    /\ \/ /\ step[t] = "esc"
          /\ IF r = "ok" THEN Goto(t, "hangup") /\ dceMode' = "command" ELSE Goto(t, "resync") /\ UNCHANGED dceMode
       \/ /\ step[t] = "hangup"
          /\ IF r = "ok" THEN Goto(t, "stopped") /\ dceMode' = "command" ELSE Goto(t, "start") /\ Restored(t)
       \/ /\ step[t] = "resync"
          /\ IF r = "ok" THEN Goto(t, "stopped") /\ dceMode' = "command" ELSE Goto(t, "start") /\ Restored(t)
    /\ UNCHANGED << saved, dial >>

Command(t, r) ==
    /\ Complete(t, r)
    /\ StartUp(t, r) \/ Dial(t, r) \/ HangUp(t, r)
    /\ UNCHANGED << real, linked, both >>

\* modem_board_reset and modem_board_power_down: the handler is left in place, and
\* the modem starts in command mode.
BoardPin(t) ==
    /\ step[t] \in {"reset", "powerdown"}
    /\ handler' = "powerup"
    /\ real' = "command"
    /\ Goto(t, IF step[t] = "reset" THEN redo ELSE "escsync")
    /\ UNCHANGED << dceMode, saved, linked, both, state, done, doneOf, awaits, wire, rx, late, mixup, dial >>

\* esp_modem_dte_change_mode to PPP and to command mode.
Start(t) ==
    /\ step[t] = "start"
    /\ IF dceMode = "ppp"
       THEN Goto(t, "startfailed") /\ UNCHANGED << dceMode, saved >>
       ELSE Goto(t, "pdp") /\ saved' = [saved EXCEPT ![t] = dceMode] /\ dceMode' = "transition"
    /\ UNCHANGED << real, linked, both, exch, dial >>

\* esp_modem_stop_ppp; its result is ignored, the next thing is to start again.
Stop(t) ==
    /\ step[t] = "stop"
    /\ IF dceMode = "command"
       THEN Goto(t, "start") /\ UNCHANGED << dceMode, saved >>
       ELSE Goto(t, "esc") /\ saved' = [saved EXCEPT ![t] = dceMode] /\ dceMode' = "transition"
    /\ UNCHANGED << real, linked, both, exch, dial >>

\* It waits 20 s for the bit of the closed interface; in the bridge the event that
\* sets the bit restarts the device.
Stopped(t) ==
    /\ step[t] = "stopped"
    /\ Goto(t, "start")
    /\ UNCHANGED << dceMode, saved, real, linked, both, exch, dial >>

\* The loop of esp_bridge_modem_init, and the end of on_modem_event.
StartFailed(t) ==
    /\ step[t] = "startfailed"
    /\ IF t = "events"
       THEN Goto(t, "idle") /\ UNCHANGED dials
       ELSE dials' = dials - 1 /\ Goto(t, IF dials > 1 THEN "stop" ELSE "restart")
    /\ UNCHANGED << dceMode, saved, real, linked, both, exch, timeouts, errors, redo >>

Started(t) ==
    /\ step[t] = "started"
    /\ Goto(t, IF t = "events" THEN "idle" ELSE "connect")
    /\ UNCHANGED << dceMode, saved, real, linked, both, exch, dial >>

Connected ==
    /\ step["init"] = "connect" /\ linked
    /\ Goto("init", "idle")
    /\ UNCHANGED << dceMode, saved, real, linked, both, exch, dial >>

-----------------------------------------------------------------------------
(* PPP *)

GotIp ==
    /\ dceMode = "ppp" /\ real = "data" /\ ~linked /\ step["events"] = "idle"
    /\ linked' = TRUE
    /\ UNCHANGED << dceMode, step, saved, real, both, exch, dial >>

\* The network is gone; the modem stays in data mode or leaves it.
LostIp ==
    /\ linked /\ step["events"] = "idle"
    /\ linked' = FALSE
    /\ real' \in {real, "command"}
    /\ Goto("events", "stop")
    /\ both' = (both \/ step["init"] \notin {"connect", "idle"})
    /\ UNCHANGED << dceMode, saved, exch, dial >>

\* An error or the end of PPP: on_ppp_changed, and on_modem_event restarts the
\* device; so do failed ESP_ERROR_CHECKs, a line whose handler is gone when it is
\* called, and an event after esp_bridge_modem_init has returned, whose argument was
\* on its stack (or the event is handled all the same).
Restart ==
    /\ \/ \E t \in Tasks : step[t] \in {"restart", "stopped"}
       \/ dceMode = "ppp"
       \/ rx.pc = "call" /\ handler = NoHandler
    /\ dceMode' = "command" /\ handler' = NoHandler /\ state' = "success"
    /\ done' = FALSE /\ doneOf' = Old
    /\ step' = [t \in Tasks |-> IF t = "init" THEN "sync" ELSE "idle"]
    /\ saved' = [t \in Tasks |-> "command"] /\ awaits' = {}
    /\ timeouts' = 0 /\ errors' = 0 /\ redo' = "sync" /\ dials' = DialTimes
    /\ wire' = << >> /\ rx' = NoLine /\ real' = "command"
    /\ linked' = FALSE
    /\ late' = FALSE /\ both' = FALSE /\ mixup' = FALSE

Next ==
    \/ Answer \/ RxRead \/ RxCheck \/ RxCall \/ RxBit
    \/ \E t \in Tasks :
          \/ Send(t) \/ \E r \in {"ok", "fail", "timeout"} : Command(t, r)
          \/ BoardPin(t) \/ Start(t) \/ Stop(t) \/ Stopped(t) \/ StartFailed(t) \/ Started(t)
    \/ Connected \/ GotIp \/ LostIp \/ Restart

-----------------------------------------------------------------------------
(* Properties *)

\* Unless a command has timed out, whose answer may still come, or both tasks have
\* dialled at once, a command ends with its own answer: the bit and the handler of
\* one command never serve the next.
OwnAnswers == ~late /\ ~both => ~mixup

Settled == {"idle", "connect", "start", "stop", "startfailed", "started", "stopped"}

\* Between changes of the mode it is never left in transition, and with the same
\* exceptions the modem is in command mode when the driver says so: what is sent is a
\* command then, not data of a call.
ModesAgree ==
    ~both /\ (\A t \in Tasks : step[t] \in Settled) =>
        /\ dceMode # "transition"
        /\ ~late /\ dceMode = "command" => real = "command"
=============================================================================
