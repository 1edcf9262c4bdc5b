------------------------------ MODULE WebServer ------------------------------
(***************************************************************************)
(* Wi-Fi set-up and firmware update through the web server of web_server.c.        *)
(* The HTTP task serves one request after the other; a request with a network      *)
(* name starts to connect and leaves a timer behind that waits for the result,      *)
(* one without it scans for the hot spot of the phone and tries routers until it     *)
(* is connected or out of time.  Results come as events of the Wi-Fi driver.        *)
(* Registration of the handlers is external: the code that does it is disabled.    *)
(***************************************************************************)
EXTENDS Integers, Sequences, FiniteSets

CONSTANTS
    Routers, Phone, Virtual, \* routers in reach; those like the phone's MAC, with a virtual MAC
    ConnectTime,    \* time to scan and try, in seconds (reconnect timeout less 10)
    ScanTimes,      \* how long a scan takes
    MaxCount,       \* connect_max_count
    Image,          \* length of a firmware image, in pieces
    MaxPosts        \* bound of the model: requests

WebAssumption ==
    /\ IsFiniteSet(Routers) /\ Phone \subseteq Routers /\ Virtual \subseteq Routers
    /\ ConnectTime \in Int /\ ScanTimes \subseteq Nat \ {0} /\ MaxCount \in Nat \ {0}

TryTime == 8    \* ESP_BRIDGE_WEB_WIFI_TRY_CONNECT_TIMEOUT
LastScan == 10  \* ESP_BRIDGE_WEB_WIFI_LAST_SCAN_TIMEOUT

VARIABLES
    http,            \* what the HTTP task does
    config_status,
    s_sta_got_ip_flag, flagOf, \* the flag, and the attempt it is about (history)
    timers, handler, \* running timers: [id, kind]; s_wifi_sta_connect_timer_handler
    timerTask,       \* "idle", "stop" or "setBits": inside a callback
    connect_count,
    group, bitOf,    \* the event group exists; the attempt its bit is about, 0 if clear
    attempt, answered, ipEvents, \* calls of esp_wifi_connect, the answered ones, events on their way
    avail, maxTries, tries, last, list, failed, target, elapsed, \* esp_web_start_scan_filter
    ota, boot,       \* pieces that the update has written; the one that is set to boot
    okOf, stale,     \* the attempt the last "ok" is about; an older answer was on its way (history)
    crossed, undefined, noHead, noGroup, \* what went wrong (history)
    posts

webVars == << http, config_status, s_sta_got_ip_flag, flagOf, timers, handler, timerTask,
              connect_count, group, bitOf, attempt, answered, ipEvents, avail, maxTries, tries, last,
              list, failed, target, elapsed, ota, boot, okOf, stale, crossed, undefined, noHead,
              noGroup, posts >>

flag == << s_sta_got_ip_flag, flagOf >>
timing == << timers, handler, timerTask, connect_count, crossed, undefined >>
events == << group, bitOf, noGroup >>
wifi == << attempt, answered, ipEvents, stale >>
filter == << avail, maxTries, tries, last, list, failed, target, elapsed, noHead >>
update == << ota, boot >>

Init ==
    /\ http = "idle" /\ config_status = "notStart"
    /\ s_sta_got_ip_flag = FALSE /\ flagOf = 0
    /\ timers = {} /\ handler = 0 /\ timerTask = "idle" /\ connect_count = 1
    /\ group = FALSE /\ bitOf = 0
    /\ attempt = 0 /\ answered = {} /\ ipEvents = << >>
    /\ avail = 0 /\ maxTries = 0 /\ tries = 0 /\ last = FALSE /\ list = {} /\ failed = {}
    /\ target = "none" /\ elapsed = 0
    /\ ota = 0 /\ boot = 0
    /\ okOf = 0 /\ stale = FALSE
    /\ crossed = FALSE /\ undefined = FALSE /\ noHead = FALSE /\ noGroup = FALSE
    /\ posts = 0

-----------------------------------------------------------------------------
(* Wi-Fi *)

\* The network accepts the last attempt; the event is delivered later.
Accepts ==
    /\ attempt > 0 /\ attempt \notin answered
    /\ answered' = answered \cup {attempt}
    /\ ipEvents' = Append(ipEvents, attempt)
    /\ UNCHANGED << http, config_status, flag, timing, events, attempt, stale, filter, update, okOf,
                    posts >>

esp_web_got_ip_cb ==
    /\ ipEvents # << >>
    /\ s_sta_got_ip_flag' = TRUE /\ flagOf' = Head(ipEvents)
    /\ ipEvents' = Tail(ipEvents)
    /\ stale' = (stale \/ http = "connect")   \* an old answer, after the flag was cleared
    /\ UNCHANGED << http, config_status, timing, events, attempt, answered, filter, update, okOf,
                    posts >>

\* esp_web_wifi_connect.  An answer to the attempt before may be anywhere on its way.
Connect ==
    /\ attempt' = attempt + 1
    /\ stale' = (stale \/ ipEvents # << >> \/ bitOf # 0 \/ timerTask = "setBits"
                       \/ (http # "connect" /\ s_sta_got_ip_flag))
    /\ UNCHANGED << answered, ipEvents >>

-----------------------------------------------------------------------------
(* Requests: config_wifi_post_handler, accept_wifi_result_post_handler *)

ClearsFlag_never == UNCHANGED flag
ClearsFlag == s_sta_got_ip_flag' = FALSE /\ UNCHANGED flagOf

\* A request is taken unless the one before is still connecting.
config_wifi_post_handler(kind) ==
    /\ http = "idle" /\ posts < MaxPosts
    /\ config_status # "connecting"
    /\ posts' = posts + 1
    /\ http' = kind
    /\ UNCHANGED << config_status, flag, timing, events, wifi, filter, update, okOf >>

accept_wifi_result_post_handler ==
    /\ http = "idle" /\ config_status \in {"ok", "fail"}
    /\ config_status' = "notStart"
    /\ UNCHANGED << http, flag, timing, events, wifi, filter, update, okOf, posts >>

-----------------------------------------------------------------------------
(* esp_web_apply_wifi_connect_info with a network name *)

ClearDirect ==
    /\ http = "direct"
    /\ ClearsFlag
    /\ stale' = FALSE
    /\ http' = "connect"
    /\ UNCHANGED << config_status, timing, events, attempt, answered, ipEvents, filter, update, okOf,
                    posts >>

\* If the driver refuses the settings the set-up has not started.
ConnectDirect(ok) ==
    /\ http = "connect"
    /\ Connect
    /\ config_status' = IF ok THEN "connecting" ELSE "notStart"
    /\ http' = IF ok THEN "timer" ELSE "idle"
    /\ UNCHANGED << flag, timing, events, filter, update, okOf, posts >>

NewTimer(kind) == timers' = timers \cup {[id |-> posts, kind |-> kind]} /\ handler' = posts

CreateTimer ==
    /\ http = "timer"
    /\ NewTimer("status")
    /\ crossed' = (crossed \/ timerTask = "stop")
    /\ http' = "idle"
    /\ UNCHANGED << config_status, flag, timerTask, connect_count, undefined, events, wifi, filter,
                    update, okOf, posts >>

-----------------------------------------------------------------------------
(* esp_web_apply_wifi_connect_info without one, and esp_web_start_scan_filter *)

\* Without time to connect the filter returns at once.
ClearPhone ==
    /\ http = "phone"
    /\ ClearsFlag
    /\ stale' = FALSE
    /\ group' = TRUE /\ bitOf' = 0
    /\ NewTimer("success")
    /\ crossed' = (crossed \/ timerTask = "stop")
    /\ config_status' = "connecting"
    /\ avail' = ConnectTime /\ maxTries' = ConnectTime \div TryTime
    /\ failed' = {} /\ last' = FALSE
    /\ http' = IF ConnectTime > 0 THEN "scan" ELSE "failed"
    /\ UNCHANGED << tries, list, target, elapsed, noHead, timerTask, connect_count, undefined,
                    noGroup, attempt, answered, ipEvents, update, okOf, posts >>

\* What is in reach and is not hidden, unsafe or too weak.
Scan(found, time) ==
    /\ http = "scan"
    /\ IF maxTries = 0
       THEN http' = "failed" /\ UNCHANGED << last, tries, list, elapsed >>
       ELSE /\ last' = (last \/ avail <= LastScan)
            /\ tries' = 0 /\ list' = found /\ elapsed' = time
            /\ http' = IF found = {} THEN "failed" ELSE "tryPhone"
    /\ UNCHANGED << config_status, flag, timing, events, wifi, avail, maxTries, failed, target, noHead,
                    update, okOf, posts >>

\* The routers of a stage that are not on the fail list.
AfterStage == CASE http = "tryPhone" -> "tryVirtual" [] http = "tryVirtual" -> "tryHighest"
                [] OTHER -> "iterate"
Candidates == (IF http = "tryPhone" THEN Phone ELSE Virtual) \cap (list \ failed)
MayTry == tries < maxTries /\ (http # "tryPhone" => last)

Try(r) ==
    /\ target' = r /\ tries' = tries + 1
    /\ Connect
    /\ http' = CASE http = "tryPhone" -> "waitPhone" [] http = "tryVirtual" -> "waitVirtual"
                 [] OTHER -> "waitHighest"

Stage ==
    /\ http \in {"tryPhone", "tryVirtual"}
    /\ IF MayTry /\ Candidates # {}
       THEN \E r \in Candidates : Try(r)
       ELSE http' = AfterStage /\ UNCHANGED << target, tries, wifi >>
    /\ UNCHANGED << config_status, flag, timing, events, avail, maxTries, last, list, failed, elapsed,
                    noHead, update, okOf, posts >>

\* The strongest router, which is the first of the list: whichever that is.
Highest ==
    /\ http = "tryHighest"
    /\ noHead' = (noHead \/ (MayTry /\ list = {}))
    /\ \/ MayTry /\ \E r \in list \ failed : Try(r)
       \/ /\ MayTry => list = {} \/ list \cap failed # {}
          /\ http' = "iterate" /\ UNCHANGED << target, tries, wifi >>
    /\ UNCHANGED << config_status, flag, timing, events, avail, maxTries, last, list, failed, elapsed,
                    update, okOf, posts >>

\* xEventGroupWaitBits clears the bits that end the wait.
Waits == http \in {"waitPhone", "waitVirtual", "waitHighest"}
TryConnected ==
    /\ Waits /\ bitOf # 0
    /\ bitOf' = 0 /\ okOf' = bitOf
    /\ http' = "connected"
    /\ UNCHANGED << config_status, flag, timing, group, noGroup, wifi, filter, update, posts >>

Next1 == CASE http = "waitPhone" -> "tryVirtual" [] http = "waitVirtual" -> "tryHighest"
           [] OTHER -> "iterate"
TryTimesOut ==
    /\ Waits /\ bitOf = 0
    /\ list' = list \ {target} /\ failed' = failed \cup {target}
    /\ elapsed' = elapsed + TryTime
    /\ http' = Next1
    /\ UNCHANGED << config_status, flag, timing, events, wifi, avail, maxTries, tries, last, target,
                    noHead, update, okOf, posts >>

\* The time that is left limits the tries of the next round.
TriesLeft_kept == maxTries
TriesLeft == avail' \div TryTime
Iterate ==
    /\ http = "iterate"
    /\ avail' = avail - elapsed
    /\ http' = IF avail' <= 0 THEN "failed" ELSE "scan"
    /\ maxTries' = IF avail' <= 0 THEN maxTries ELSE TriesLeft
    /\ UNCHANGED << config_status, flag, timing, events, wifi, tries, last, list, failed, target,
                    elapsed, noHead, update, okOf, posts >>

\* The end of both ways out: timer and event group go, then the result is published.
\* The socket for the answer to the phone may fail: the set-up counts as not started.
FinishPhone(socket) ==
    /\ http \in {"connected", "failed"}
    /\ timers' = { t \in timers : t.id # handler } /\ handler' = 0
    /\ group' = FALSE
    /\ failed' = {} /\ list' = {}
    /\ config_status' = CASE http = "failed" -> "fail" [] http = "connected" /\ socket -> "ok"
                          [] OTHER -> "notStart"
    /\ http' = "idle"
    /\ UNCHANGED << flag, timerTask, connect_count, crossed, undefined, bitOf, noGroup, wifi, avail,
                    maxTries, tries, last, target, elapsed, noHead, update, okOf, posts >>

-----------------------------------------------------------------------------
(* The task of the timers *)

Fires(kind) == timerTask = "idle" /\ \E t \in timers : t.kind = kind

\* listen_sta_connect_status_timer_cb: counts, or publishes the result.
Counts ==
    /\ Fires("status") /\ connect_count < MaxCount /\ ~s_sta_got_ip_flag
    /\ connect_count' = connect_count + 1
    /\ UNCHANGED << http, config_status, flag, timers, handler, timerTask, crossed, undefined, events,
                    wifi, filter, update, okOf, posts >>

GivesUp_never == FALSE
GivesUp == connect_count >= MaxCount
Publishes ==
    /\ Fires("status")
    /\ GivesUp \/ (connect_count < MaxCount /\ s_sta_got_ip_flag)
    /\ config_status' = IF connect_count < MaxCount THEN "ok" ELSE "fail"
    /\ okOf' = IF connect_count < MaxCount THEN flagOf ELSE okOf
    /\ connect_count' = 1
    /\ s_sta_got_ip_flag' = FALSE
    /\ timerTask' = "stop"
    /\ UNCHANGED << http, flagOf, timers, handler, crossed, undefined, events, wifi, filter, update,
                    posts >>

\* The timer that is stopped and deleted is the one of the global handle.
Stops ==
    /\ timerTask = "stop"
    /\ timers' = { t \in timers : t.id # handler }
    /\ undefined' = (undefined \/ \A t \in timers : t.id # handler)
    /\ timerTask' = "idle"
    /\ UNCHANGED << http, config_status, flag, handler, connect_count, crossed, events, wifi, filter,
                    update, okOf, posts >>

\* listen_sta_connect_success_timer_cb.
SeesIp ==
    /\ Fires("success") /\ config_status = "connecting" /\ s_sta_got_ip_flag
    /\ s_sta_got_ip_flag' = FALSE
    /\ timerTask' = "setBits"
    /\ UNCHANGED << http, config_status, flagOf, timers, handler, connect_count, crossed, undefined,
                    events, wifi, filter, update, okOf, posts >>

\* The event group may be gone by now.
SetsBit ==
    /\ timerTask = "setBits"
    /\ IF group THEN bitOf' = flagOf /\ UNCHANGED noGroup
       ELSE noGroup' = TRUE /\ UNCHANGED bitOf
    /\ timerTask' = "idle"
    /\ UNCHANGED << http, config_status, flag, timers, handler, connect_count, crossed, undefined,
                    group, wifi, filter, update, okOf, posts >>

-----------------------------------------------------------------------------
(* ota_data_post_handler *)

OtaBegin ==
    /\ http = "idle" /\ posts < MaxPosts
    /\ posts' = posts + 1
    /\ http' = "ota" /\ ota' = 0
    /\ UNCHANGED << config_status, flag, timing, events, wifi, filter, boot, okOf >>

OtaPiece ==
    /\ http = "ota" /\ ota < Image
    /\ ota' = ota + 1
    /\ UNCHANGED << http, config_status, flag, timing, events, wifi, filter, boot, okOf, posts >>

\* Any error but a timeout, which is waited out.
OtaFails ==
    /\ http = "ota"
    /\ http' = "idle"
    /\ UNCHANGED << config_status, flag, timing, events, wifi, filter, update, okOf, posts >>

esp_web_ota_end ==
    /\ http = "ota" /\ ota = Image
    /\ boot' = ota
    /\ http' = "idle"
    /\ UNCHANGED << config_status, flag, timing, events, wifi, filter, ota, okOf, posts >>

-----------------------------------------------------------------------------
Request ==
    \/ \E kind \in {"direct", "phone"} : config_wifi_post_handler(kind)
    \/ accept_wifi_result_post_handler \/ OtaBegin
Direct == ClearDirect \/ CreateTimer \/ \E ok \in BOOLEAN : ConnectDirect(ok)
Filter ==
    \/ ClearPhone
    \/ \E found \in SUBSET Routers, time \in ScanTimes : Scan(found, time)
    \/ Stage \/ Highest \/ TryConnected \/ TryTimesOut \/ Iterate
    \/ \E socket \in BOOLEAN : FinishPhone(socket)
Timer == Counts \/ Publishes \/ Stops \/ SeesIp \/ SetsBit
Ota == OtaPiece \/ OtaFails \/ esp_web_ota_end

\* After an access to a deleted timer, list or event group nothing is known.
Broken == undefined \/ noHead \/ noGroup
Next ==
    /\ ~Broken
    /\ Accepts \/ esp_web_got_ip_cb \/ Request \/ Direct \/ Filter \/ Timer \/ Ota

\* The HTTP task and the task of the timers run; the driver and the browser need not.
Fairness == WF_webVars(~Broken /\ (Direct \/ Filter)) /\ WF_webVars(~Broken /\ Timer)

Spec == Init /\ [][Next]_webVars /\ Fairness

-----------------------------------------------------------------------------
(* Properties *)

\* Someone is there to end a set-up that is connecting: the HTTP task, or a running
\* timer that is the one of the handle and the only one, unless a request came
\* between the result and the end of the timer before.  The strongest router is
\* only looked for in a list that has one: after a try that failed there is no time
\* left for another in the last round.
SetupIsWatched ==
    /\ config_status = "connecting" /\ http \in {"idle", "ota"} /\ ~crossed /\ ~noGroup =>
          timers = {[id |-> handler, kind |-> "status"]}
    /\ ~crossed => ~undefined /\ Cardinality(timers) <= 1
    /\ ~noHead

\* A set-up that is reported as connected is so with the network that was asked for
\* last, unless an answer to an earlier attempt was on its way when that was
\* tried; and a firmware that is set to boot is whole.
ReportsAreTrue ==
    /\ config_status = "ok" /\ ~stale /\ ~crossed /\ http = "idle" => okOf = attempt
    /\ boot \in {0, Image}

\* A set-up does not stay connecting for ever.
SetupEnds == config_status = "connecting" ~> config_status # "connecting" \/ Broken
=============================================================================
