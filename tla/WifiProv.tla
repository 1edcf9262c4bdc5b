------------------------------ MODULE WifiProv ------------------------------
(***************************************************************************)
(* Provisioning of the Wi-Fi settings by a phone (wifi_prov_mgr.c).  A task starts  *)
(* a session; the event task handles what the provisioning manager of the SDK        *)
(* reports, and ends the session on its END event; a timer ends a session after five *)
(* minutes.  The manager itself is external: it posts events, and one END when a      *)
(* running session was stopped, some time after it was asked to.                      *)
(***************************************************************************)
EXTENDS Integers, Sequences, FiniteSets

CONSTANTS
    MaxRetries,     \* CONFIG_ESP_BRIDGE_PROV_MGR_MAX_RETRY_CNT
    MaxSessions,    \* bound of the model: calls of esp_bridge_wifi_prov_mgr
    MaxEvents       \* bound of the model: events in the queue, beside those of the timer

ProvAssumption == MaxRetries \in Nat \ {0} /\ MaxSessions \in Nat /\ MaxEvents \in Nat

VARIABLES
    wifi_prov_status,
    starter,        \* "idle", "event", "init", "start" or "timer": in esp_bridge_wifi_prov_mgr
    session,        \* sessions started (history)
    mgr,            \* the manager: "off", "ready", "running", "stopping"
    queue,          \* events to the handler: [kind, of]
    handle, armed,  \* deinit_wifi_prov_mgr_timer; the timers that exist, by session
    timerTask,      \* the session whose timer is in the callback, 0 if none
    retries,
    connects,       \* the credentials of this session were tried
    aborted,        \* ESP_ERROR_CHECK restarts the device
    late            \* an END or a timer of an older session met a newer one (history)

provVars == << wifi_prov_status, starter, session, mgr, queue, handle, armed, timerTask, retries,
               connects, aborted, late >>

timer == << handle, armed, timerTask >>

Init ==
    /\ wifi_prov_status = FALSE /\ starter = "idle" /\ session = 0
    /\ mgr = "off" /\ queue = << >>
    /\ handle = 0 /\ armed = {} /\ timerTask = 0
    /\ retries = 0 /\ connects = FALSE
    /\ aborted = FALSE /\ late = FALSE

Event(kind) == [kind |-> kind, of |-> session]
Post(kind) == queue' = Append(queue, Event(kind))
EndIsQueued == \E i \in DOMAIN queue : queue[i].kind = "end"

-----------------------------------------------------------------------------
(* esp_bridge_wifi_prov_mgr *)

\* What an earlier session left behind may now meet this one.
Begins ==
    /\ starter = "idle" /\ ~wifi_prov_status /\ session < MaxSessions
    /\ wifi_prov_status' = TRUE
    /\ session' = session + 1
    /\ late' = (late \/ EndIsQueued \/ timerTask # 0)
    /\ connects' = FALSE
    /\ starter' = "init"
    /\ UNCHANGED << mgr, queue, timer, retries, aborted >>

wifi_prov_mgr_init ==
    /\ starter = "init"
    /\ aborted' = (mgr # "off")
    /\ mgr' = IF mgr = "off" THEN "ready" ELSE mgr
    /\ starter' = "start"
    /\ UNCHANGED << wifi_prov_status, session, queue, timer, retries, connects, late >>

wifi_prov_mgr_start_provisioning ==
    /\ starter = "start"
    /\ aborted' = (mgr # "ready")
    /\ mgr' = IF mgr = "ready" THEN "running" ELSE mgr
    /\ Post("start")
    /\ starter' = "timer"
    /\ UNCHANGED << wifi_prov_status, session, timer, retries, connects, late >>

\* The session may have ended before its timer exists.
esp_timer_start_once ==
    /\ starter = "timer"
    /\ handle' = session /\ armed' = armed \cup {session}
    /\ late' = (late \/ ~wifi_prov_status)
    /\ starter' = "idle"
    /\ UNCHANGED << wifi_prov_status, session, mgr, queue, timerTask, retries, connects, aborted >>

-----------------------------------------------------------------------------
(* The provisioning manager *)

\* Credentials from the phone, and what came of them; after a success it stops by itself.
Reports(kind) ==
    /\ mgr = "running" /\ Len(queue) < MaxEvents
    /\ kind \in {"failed", "succeeded"} => connects
    /\ Post(kind)
    /\ mgr' = IF kind = "succeeded" THEN "stopping" ELSE mgr
    /\ UNCHANGED << wifi_prov_status, starter, session, timer, retries, connects, aborted, late >>

Stopped ==
    /\ mgr = "stopping"
    /\ mgr' = "ready"
    /\ Post("end")
    /\ UNCHANGED << wifi_prov_status, starter, session, timer, retries, connects, aborted, late >>

-----------------------------------------------------------------------------
(* deinit_wifi_prov_mgr_timer_callback *)

\* The timer fires once: it exists until it is deleted.
Expires(s) ==
    /\ s \in armed /\ timerTask = 0
    /\ mgr' = IF mgr = "running" THEN "stopping" ELSE mgr
    /\ armed' = armed \ {s}
    /\ timerTask' = s
    /\ late' = (late \/ s # session)
    /\ UNCHANGED << wifi_prov_status, starter, session, queue, handle, retries, connects, aborted >>

\* The callback posts an END of its own, beside the one of the manager.
PostsEnd ==
    /\ timerTask # 0
    /\ queue' = Append(queue, [kind |-> "end", of |-> timerTask])
    /\ timerTask' = 0
    /\ UNCHANGED << wifi_prov_status, starter, session, mgr, handle, armed, retries, connects, aborted,
                    late >>

-----------------------------------------------------------------------------
(* event_handler *)

\* wifi_prov_mgr_deinit waits for a session that runs or stops; the END of that is posted
\* as well.  The callback of the timer may still be running.
EndsOfDeinit == IF mgr \in {"running", "stopping"} THEN << Event("end") >> ELSE << >>

HandleEnd_keepsTimer(e) ==
    /\ wifi_prov_status' = FALSE
    /\ mgr' = "off"
    /\ late' = (late \/ starter # "idle")
    /\ queue' = Tail(queue) \o EndsOfDeinit
    /\ UNCHANGED << timer, retries, connects >>

HandleEnd(e) ==
    /\ armed' = armed \ {handle}
    /\ mgr' = "off"
    /\ queue' = Tail(queue) \o EndsOfDeinit
    /\ wifi_prov_status' = FALSE
    /\ late' = (late \/ starter # "idle")
    /\ UNCHANGED << handle, timerTask, retries, connects >>

\* Failures are counted until the limit resets them, across sessions.
Counted == IF retries + 1 >= MaxRetries THEN 0 ELSE retries + 1
HandleOther(e) ==
    /\ connects' = (connects \/ e.kind = "recv")
    /\ retries' = CASE e.kind = "failed" -> Counted
                    [] e.kind = "succeeded" -> 0
                    [] OTHER -> retries
    /\ queue' = Tail(queue)
    /\ UNCHANGED << wifi_prov_status, mgr, timer, late >>

\* Nothing is handled after the end of a session.
event_handler ==
    /\ queue # << >>
    /\ IF ~wifi_prov_status
       THEN queue' = Tail(queue) /\ UNCHANGED << wifi_prov_status, mgr, timer, retries, connects, late >>
       ELSE LET e == Head(queue) IN IF e.kind = "end" THEN HandleEnd(e) ELSE HandleOther(e)
    /\ UNCHANGED << starter, session, aborted >>

-----------------------------------------------------------------------------
Starts == wifi_prov_mgr_init \/ wifi_prov_mgr_start_provisioning \/ esp_timer_start_once
Manager == Stopped \/ \E kind \in {"recv", "failed", "succeeded"} : Reports(kind)
Timer == PostsEnd \/ \E s \in armed : Expires(s)

Next ==
    /\ ~aborted
    /\ Begins \/ Starts \/ Manager \/ Timer \/ event_handler

\* Tasks, the manager and the timers run; nobody need provision anything.
Fairness ==
    /\ WF_provVars(~aborted /\ Starts)
    /\ WF_provVars(~aborted /\ Stopped)
    /\ WF_provVars(~aborted /\ PostsEnd)
    /\ WF_provVars(~aborted /\ event_handler)
    /\ WF_provVars(~aborted /\ \E s \in armed : Expires(s))

Spec == Init /\ [][Next]_provVars /\ Fairness

-----------------------------------------------------------------------------
(* Properties *)

\* Between sessions the manager is off and no timer is left that could end the next
\* one, and the start of a session finds the manager as it must be, unless an END or a
\* timer of one session met another.
SessionsApart ==
    /\ ~wifi_prov_status /\ starter = "idle" /\ ~late => mgr = "off" /\ armed = {}
    /\ aborted => late

\* A session ends, by the phone or by the timer.
SessionEnds == wifi_prov_status ~> ~wifi_prov_status \/ aborted
=============================================================================
