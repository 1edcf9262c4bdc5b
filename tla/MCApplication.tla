---------------------------- MODULE MCApplication ----------------------------
(***************************************************************************)
(* The parts of main/ that keep state of their own, and that meet in the tasks  *)
(* of the server only: timers, web socket users, Wi-Fi settings and updates.    *)
(* They share no variable, so a behaviour of the run moves one of them, chosen   *)
(* at its start, while the others keep an initial state.                      *)
(***************************************************************************)
EXTENDS Integers, TLC

CONSTANTS NoKey, TIMER_SIZE, MaxEdits,
          Fds, None, WUA_MAX, MaxWork, MaxRequests,
          Found, MaxScan, MaxChanges, MaxScans,
          Chunks, Recvs, Urls, MaxUploads, MaxResets

VARIABLES part,
          myt, myt_pos, pins, now, myt_running, scan, page, stored, strayed, beyond, edits,
          open, users, wua_pos, sem, work, srv, wt, members, clean, leaked, requests,
          nvs, running, station, bootStep, writer, changes, torn, apart, handlesLeaked, scanning,
          scan_running, number, count, records, fewest, twoScan, server, resets, scans,
          flash, openUpdates, handles, update_handle, request, uploadTask, task_url, downloads,
          boot, uploads, updateResets, overlap

\* A timer, one that holds it, and one of another pin that ends before it starts.
TimerKinds == {[start |-> 1, end |-> 1, gpio |-> 4],
               [start |-> 0, end |-> 2, gpio |-> 4],
               [start |-> 2, end |-> 1, gpio |-> 5]}

Tim == INSTANCE Timers WITH Kinds <- TimerKinds, Hours <- 3
Wss == INSTANCE WsUsers
Set == INSTANCE Settings WITH MaxRequests <- MaxChanges, requests <- changes, boot <- bootStep,
                              leaked <- handlesLeaked
Upd == INSTANCE Update WITH MaxRequests <- MaxUploads, requests <- uploads, open <- openUpdates,
                            resets <- updateResets

ASSUME ApplicationAssumption ==
    /\ Tim!TimersAssumption /\ Wss!WsAssumption
    /\ Set!SettingsAssumption /\ Upd!UpdateAssumption

timerVars == << myt, myt_pos, pins, now, myt_running, scan, page, stored, strayed, beyond, edits >>
wsVars == << open, users, wua_pos, sem, work, srv, wt, members, clean, leaked, requests >>
settingsVars == << nvs, running, station, bootStep, writer, changes, torn, apart, handlesLeaked,
                   scanning, scan_running, number, count, records, fewest, twoScan, server, resets,
                   scans >>
updateVars == << flash, openUpdates, handles, update_handle, request, uploadTask, task_url,
                 downloads, boot, uploads, updateResets, overlap >>

\* What time_timer_init found on the stack is varied in the behaviours of the timers,
\* whether a station was set before in those of the settings.
MCInit ==
    /\ part \in {"timers", "users", "settings", "update"}
    /\ Tim!Init /\ (part # "timers" => myt_pos = 0)
    /\ Wss!Init /\ Upd!Init
    /\ Set!Init /\ (part # "settings" => nvs["sta"] = Set!Defaults)

MCNext ==
    /\ UNCHANGED part
    /\ \/ part = "timers" /\ Tim!Next
       \/ part # "timers" /\ UNCHANGED timerVars
    /\ \/ part = "users" /\ Wss!Next
       \/ part # "users" /\ UNCHANGED wsVars
    /\ \/ part = "settings" /\ Set!Next
       \/ part # "settings" /\ UNCHANGED settingsVars
    /\ \/ part = "update" /\ Upd!Next
       \/ part # "update" /\ UNCHANGED updateVars

MCSpec == MCInit /\ [][MCNext]_<< part, timerVars, wsVars, settingsVars, updateVars >>

Symmetry == Permutations(Fds)

\* What is stored is restored whole after a reset, and a pin is on only for a timer
\* that runs (Timers).
TimersSound == Tim!RestoresAll /\ Tim!PinsHaveTimers

\* The list holds the users that are logged in, while only one of the last two
\* has been deleted at a time (WsUsers).
ListIsExact == Wss!ListIsExact

\* A taken semaphore belongs to a send, or to an info loop that failed (WsUsers).
TakenIsSending == Wss!TakenIsSending

\* Stored names and passwords belong together, the access point has the stored ones,
\* and scans keep apart (Settings).
SettingsSound == Set!SettingsMatch /\ Set!ScansApart

\* A whole image is set to boot, and no update stays open (Update).
BootsWhole == Upd!BootsWhole
=============================================================================
