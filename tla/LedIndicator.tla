----------------------------- MODULE LedIndicator -----------------------------
(***************************************************************************)
(* The LED of the bridge (components/led/led_indicator.c): each blink type has  *)
(* a list of steps and a position in it, the active blink is the first that is   *)
(* not stopped, and _blink_list_runner carries out its steps, in the timer task   *)
(* and in the tasks that start a blink.  The mutex covers the bookkeeping of      *)
(* start, stop and of a step, but not the choice of the step in the runner.      *)
(***************************************************************************)
EXTENDS Integers, Sequences

CONSTANTS
    Tasks,       \* tasks that call led_indicator_start and led_indicator_stop
    Lists        \* led_indicator_blink_lists: for each blink from 0 on, in the
                 \* order of priority, the types of its steps

Timer  == "timer"                    \* the timer task
Procs  == Tasks \cup {Timer}
Blinks == DOMAIN Lists               \* a smaller one has the higher priority

\* LED_BLINK_STOP, NULL_ACTIVE_BLINK
Stop == -1
None == -1

VARIABLES
    p_blink_steps,   \* position in each list, or Stop
    active_blink,    \* or None
    mutex,           \* who holds it
    armed,           \* the timer is running
    pc, blink,       \* where each task is, and the blink of its call
    act, type        \* the runner's active_blink and p_blink_step->type

led  == << p_blink_steps, active_blink >>
task == << pc, blink, act, type >>
vars == << led, mutex, armed, task >>

\* led_indicator_create
Init ==
    /\ p_blink_steps = [b \in Blinks |-> Stop] /\ active_blink = None
    /\ mutex = "free" /\ armed = FALSE
    /\ pc = [p \in Procs |-> "idle"]
    /\ blink = [p \in Procs |-> 0] /\ act = [p \in Procs |-> None]
    /\ type = [p \in Procs |-> "hold"]

Goto(p, to) == pc' = [pc EXCEPT ![p] = to]

Take(p) == mutex = "free" /\ mutex' = p
Give(p) == mutex = p /\ mutex' = "free"

\* _blink_list_switch
Incomplete(steps) == {b \in Blinks : steps[b] # Stop}
Switched(steps) ==
    IF Incomplete(steps) = {} THEN None
    ELSE CHOOSE b \in Incomplete(steps) : \A c \in Incomplete(steps) : b <= c

-----------------------------------------------------------------------------
(* led_indicator_start and led_indicator_stop *)

Call(p, b, start) ==
    /\ p \in Tasks /\ pc[p] = "idle"
    /\ Take(p)
    /\ blink' = [blink EXCEPT ![p] = b]
    /\ Goto(p, IF start THEN "start" ELSE "stop")
    /\ UNCHANGED << led, armed, act, type >>

SetSteps(p) ==
    /\ pc[p] \in {"start", "stop"}
    /\ p_blink_steps' = [p_blink_steps EXCEPT
                           ![blink[p]] = IF pc[p] = "start" THEN 0 ELSE Stop]
    /\ active_blink' = Switched(p_blink_steps')
    /\ Give(p)
    /\ Goto(p, "check")
    /\ UNCHANGED << armed, blink, act, type >>

\* The blink of the call is run from its first step if it is the active one.
Check(p) ==
    /\ pc[p] = "check"
    /\ Goto(p, IF active_blink = blink[p] THEN "run" ELSE "idle")
    /\ UNCHANGED << led, mutex, armed, blink, act, type >>

\* The timer expires.
Expire ==
    /\ armed /\ pc[Timer] = "idle"
    /\ armed' = FALSE
    /\ Goto(Timer, "run")
    /\ UNCHANGED << led, mutex, blink, act, type >>

-----------------------------------------------------------------------------
(* _blink_list_runner *)

ReadActive(p) ==
    /\ pc[p] = "run"
    /\ act' = [act EXCEPT ![p] = active_blink]
    /\ Goto(p, IF active_blink = None THEN "idle" ELSE "step")
    /\ UNCHANGED << led, mutex, armed, blink, type >>

\* The step is read and the position incremented, without the mutex.  A position
\* outside the list, or Stop, reads whatever lies there.
TypesAt(b, n) == IF n \in 0 .. Len(Lists[b]) - 1 THEN {Lists[b][n + 1]}
                 ELSE {"hold", "loop", "stop"}

NextStep(p) ==
    /\ pc[p] = "step"
    /\ \E t \in TypesAt(act[p], p_blink_steps[act[p]]) : type' = [type EXCEPT ![p] = t]
    /\ p_blink_steps' = [p_blink_steps EXCEPT ![act[p]] = @ + 1]
    /\ Goto(p, "take")
    /\ UNCHANGED << active_blink, mutex, armed, blink, act >>

RunnerTakes(p) ==
    /\ pc[p] = "take"
    /\ Take(p)
    /\ Goto(p, "do")
    /\ UNCHANGED << led, armed, blink, act, type >>

\* The mutex is not got within 100 ms.
RunnerGivesUp(p) ==
    /\ pc[p] = "take" /\ mutex # "free"
    /\ armed' = TRUE
    /\ Goto(p, "idle")
    /\ UNCHANGED << led, mutex, blink, act, type >>

\* A step that is held ends the runner, any other goes on with the next.
DoStep(p) ==
    /\ pc[p] = "do"
    /\ \/ /\ type[p] = "loop"
          /\ p_blink_steps' = [p_blink_steps EXCEPT ![act[p]] = 0]
          /\ Goto(p, "run")
          /\ UNCHANGED << active_blink, armed >>
       \/ /\ type[p] = "stop"
          /\ p_blink_steps' = [p_blink_steps EXCEPT ![act[p]] = Stop]
          /\ active_blink' = Switched(p_blink_steps')
          /\ Goto(p, "run")
          /\ UNCHANGED armed
       \/ /\ type[p] = "hold"
          /\ armed' = TRUE
          /\ Goto(p, "idle")
          /\ UNCHANGED led
    /\ Give(p)
    /\ UNCHANGED << blink, act, type >>

Runner(p) == ReadActive(p) \/ NextStep(p) \/ RunnerTakes(p) \/ RunnerGivesUp(p) \/ DoStep(p)

-----------------------------------------------------------------------------

Next ==
    \/ \E p \in Tasks : \/ \E b \in Blinks, start \in BOOLEAN : Call(p, b, start)
                        \/ SetSteps(p) \/ Check(p)
    \/ Expire
    \/ \E p \in Procs : Runner(p)

Spec == Init /\ [][Next]_vars

-----------------------------------------------------------------------------

\* "You can stop a blink_type at any time, no matter it is executing or waiting to
\* be executed" (led_indicator.h): a blink that is stopped stays so until
\* led_indicator_start is called for it.
StopLasts ==
    [][ \A b \in Blinks :
          (p_blink_steps[b] = Stop /\ p_blink_steps'[b] # Stop)
             => \E p \in Tasks : pc[p] = "start" /\ blink[p] = b ]_vars
=============================================================================
