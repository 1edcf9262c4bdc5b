-------------------------------- MODULE Timers --------------------------------
(***************************************************************************)
(* The daily timers of the pins (main/t3ch_time.c) and the page that edits them  *)
(* (timer_get_handler in main/t3ch_httpd.c): the array myt, the task time_timer  *)
(* that switches the pins by it without a lock, the copy in NVS, and a reset at  *)
(* any step.  The clock counts hours; a timer is its window and its pin.       *)
(***************************************************************************)
EXTENDS Integers, Sequences

CONSTANTS
    Kinds,      \* timers a user may add: [start, end, gpio]
    Hours,      \* length of a day
    NoKey,      \* nothing is stored
    TIMER_SIZE, \* slots of myt
    MaxEdits    \* bound of the model: requests that edit between two resets

TimersAssumption ==
    /\ Kinds \subseteq [start : 0 .. Hours - 1, end : 0 .. Hours - 1, gpio : Nat]
    /\ Hours \in Nat \ {0} /\ TIMER_SIZE \in Nat \ {0} /\ MaxEdits \in Nat

VARIABLES
    myt, myt_pos,    \* the array and the number of slots in use
    pins,            \* pins at level 1
    now,
    myt_running,     \* the task exists
    scan,            \* the task: [pc, i]
    page,            \* the request in work: [pc, i, pos]
    stored,          \* key "json" of timer_storage, NoKey when it is erased
    strayed,         \* a deletion of no timer in use, or a deletion or stop that met the task at work (history)
    beyond,          \* a timer was written outside myt: the behaviour ends there
    edits

timerVars == << myt, myt_pos, pins, now, myt_running, scan, page, stored, strayed, beyond, edits >>

Slot == 0 .. TIMER_SIZE - 1
Unused == [kind |-> CHOOSE k \in Kinds : TRUE, running |-> FALSE]
Kept == [n \in 1 .. myt_pos |-> myt[n - 1].kind]

Asleep == [pc |-> "sleep", i |-> 0]
Idle == [pc |-> "idle", i |-> 0, pos |-> 0]

-----------------------------------------------------------------------------
(* The task *)

\* t3ch_time_chk
t3ch_time_chk(k) ==
    \/ k.start > k.end /\ now < k.end
    \/ k.start <= now /\ now <= k.end

\* One turn of the loop: the flag is set, then the pin is switched.
ScanLook ==
    /\ myt_running /\ scan.pc = "sleep"
    /\ IF scan.i >= myt_pos
       THEN scan' = Asleep /\ UNCHANGED myt
       ELSE LET on == t3ch_time_chk(myt[scan.i].kind) IN
            IF on = myt[scan.i].running
            THEN scan' = [scan EXCEPT !.i = scan.i + 1] /\ UNCHANGED myt
            ELSE /\ myt' = [myt EXCEPT ![scan.i].running = on]
                 /\ scan' = [scan EXCEPT !.pc = IF on THEN "on" ELSE "off"]
    /\ strayed' = (strayed \/ page.pc = "shift")
    /\ UNCHANGED << myt_pos, pins, now, myt_running, page, stored, beyond, edits >>

ScanSwitch ==
    /\ myt_running /\ scan.pc \in {"on", "off"}
    /\ pins' = IF scan.pc = "on" THEN pins \cup {myt[scan.i].kind.gpio}
                                 ELSE pins \ {myt[scan.i].kind.gpio}
    /\ scan' = [pc |-> "sleep", i |-> scan.i + 1]
    /\ UNCHANGED << myt, myt_pos, now, myt_running, page, stored, strayed, beyond, edits >>

\* The clock runs, and a user sets it (t3ch_time_set_tm).
Clock ==
    /\ \E h \in 0 .. Hours - 1 : now' = h
    /\ UNCHANGED << myt, myt_pos, pins, myt_running, scan, page, stored, strayed, beyond, edits >>

-----------------------------------------------------------------------------
(* The page; requests are handled one at a time *)

Request == page.pc = "idle" /\ edits < MaxEdits /\ edits' = edits + 1

\* time_timer_exists: a timer of the pin lies within the new one.
Within(old, k) == old.gpio = k.gpio /\ k.start <= old.start /\ k.end >= old.end
time_timer_exists(k, list) == \E n \in 1 .. Len(list) : Within(list[n], k)

\* Nothing is compared with the size of myt: the next slot may lie outside.
AddTo(pos, k) ==
    /\ myt' = [myt EXCEPT ![pos] = [kind |-> k, running |-> FALSE]]
    /\ myt_pos' = pos + 1
    /\ page' = [page EXCEPT !.pc = "erase"]
    /\ UNCHANGED beyond

Add(k) ==
    /\ Request
    /\ \/ time_timer_exists(k, Kept) /\ UNCHANGED << myt, myt_pos, page, beyond >>
       \/ ~time_timer_exists(k, Kept) /\ myt_pos \in Slot /\ AddTo(myt_pos, k)
       \/ /\ ~time_timer_exists(k, Kept) /\ myt_pos \notin Slot
          /\ beyond' = TRUE /\ UNCHANGED << myt, myt_pos, page >>
    /\ UNCHANGED << pins, now, myt_running, scan, stored, strayed >>

\* time_timer_del switches the pin off, shifts the slots, and saves.  The position is
\* any number of the request: a slot that is not in use, or a place before or after myt,
\* whose memory may name any pin.
Positions == -1 .. TIMER_SIZE

PinsAfterDel(pos) ==
    IF pos \in Slot THEN {IF myt[pos].running THEN pins \ {myt[pos].kind.gpio} ELSE pins}
    ELSE {pins} \cup {pins \ {p} : p \in pins}

Delete(pos) ==
    /\ Request
    /\ pins' \in PinsAfterDel(pos)
    /\ page' = [pc |-> "shift", i |-> 0, pos |-> pos]
    /\ strayed' = (strayed \/ scan # Asleep \/ pos \notin 0 .. myt_pos - 1)
    /\ UNCHANGED << myt, myt_pos, now, myt_running, scan, stored, beyond >>

Shifts_onlyOne(i, pos) == i = pos
Shifts(i, pos) == i >= pos

ShiftSlot ==
    /\ page.pc = "shift"
    /\ IF page.i < myt_pos - 1
       THEN /\ myt' = IF Shifts(page.i, page.pos) THEN [myt EXCEPT ![page.i] = myt[page.i + 1]] ELSE myt
            /\ page' = [page EXCEPT !.i = page.i + 1]
            /\ UNCHANGED myt_pos
       ELSE /\ myt_pos' = myt_pos - 1
            /\ page' = [Idle EXCEPT !.pc = "erase"]
            /\ UNCHANGED myt
    /\ strayed' = (strayed \/ scan # Asleep)
    /\ UNCHANGED << pins, now, myt_running, scan, stored, beyond, edits >>

\* time_timer_save looks at no result: each of its calls may fail.
SaveErase ==
    /\ page.pc = "erase"
    /\ stored' \in {NoKey, stored}
    /\ page' = [page EXCEPT !.pc = "set"]
    /\ UNCHANGED << myt, myt_pos, pins, now, myt_running, scan, strayed, beyond, edits >>

SaveSet ==
    /\ page.pc = "set"
    /\ stored' \in {Kept, stored}
    /\ page' = Idle
    /\ UNCHANGED << myt, myt_pos, pins, now, myt_running, scan, strayed, beyond, edits >>

time_timer_start ==
    /\ Request /\ ~myt_running
    /\ myt_running' = TRUE /\ scan' = Asleep
    /\ UNCHANGED << myt, myt_pos, pins, now, page, stored, strayed, beyond >>

\* The task is deleted where it is; pins and flags stay as they are.
time_timer_stop ==
    /\ Request /\ myt_running
    /\ myt_running' = FALSE /\ scan' = Asleep
    /\ strayed' = (strayed \/ scan # Asleep)
    /\ UNCHANGED << myt, myt_pos, pins, now, page, stored, beyond >>

-----------------------------------------------------------------------------
(* A reset at any step; app_main calls time_timer_init, which adds what is    *)
(* stored one by one, and does not start the task.  With nothing stored it reads  *)
(* a buffer of the stack that nobody wrote, of a size nobody wrote: what lies there  *)
(* may parse as nothing or as a list (if the stack overflows, it is one more reset).  *)

Added(list) ==
    LET added[n \in 0 .. Len(list)] ==
            IF n = 0 THEN << >>
            ELSE IF time_timer_exists(list[n], added[n - 1]) THEN added[n - 1]
            ELSE Append(added[n - 1], list[n])
    IN added[Len(list)]
Leftovers == {<< >>} \cup {<< k >> : k \in Kinds}
Read == IF stored = NoKey THEN Leftovers ELSE {stored}

\* The slots that time_timer_init fills with what it has read.
Loaded(list) ==
    [s \in Slot |-> IF s < Len(list) THEN [kind |-> list[s + 1], running |-> FALSE] ELSE Unused]

Init ==
    /\ \E read \in Leftovers : myt = Loaded(read) /\ myt_pos = Len(read)
    /\ pins = {} /\ now = 0
    /\ myt_running = FALSE /\ scan = Asleep /\ page = Idle
    /\ stored = NoKey /\ strayed = FALSE /\ beyond = FALSE /\ edits = 0

Reset ==
    /\ \E read \in Read : myt' = Loaded(Added(read)) /\ myt_pos' = Len(Added(read))
    /\ pins' = {} /\ myt_running' = FALSE /\ scan' = Asleep /\ page' = Idle
    /\ strayed' = FALSE /\ edits' = 0
    /\ UNCHANGED << now, stored, beyond >>

Next ==
    /\ ~beyond
    /\ \/ ScanLook \/ ScanSwitch \/ Clock
       \/ \E k \in Kinds : Add(k)
       \/ \E pos \in Positions : Delete(pos)
       \/ ShiftSlot \/ SaveErase \/ SaveSet
       \/ time_timer_start \/ time_timer_stop
       \/ Reset

-----------------------------------------------------------------------------
(* Properties *)

\* What is stored is restored whole: the test for an existing timer, which
\* time_timer_add repeats for every stored one, refuses none of them, whatever was
\* added and deleted before.
RestoresAll == stored # NoKey => Added(stored) = stored

\* Between requests and turns of the task, a pin is on only for a timer that is
\* marked as running, unless a deletion or a stop met a turn of the task, or the page
\* deleted at a position that no timer has.
PinsHaveTimers ==
    ~strayed /\ page = Idle /\ scan = Asleep =>
        \A p \in pins : \E s \in 0 .. myt_pos - 1 : myt[s].running /\ myt[s].kind.gpio = p
=============================================================================
