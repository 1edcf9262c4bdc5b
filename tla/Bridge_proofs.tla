----------------------------- MODULE Bridge_proofs -----------------------------
(***************************************************************************)
(* Proofs about the parts of the bridge that MCBridge puts together, each for every   *)
(* value of its constants.  A theorem about a part alone is stated of its            *)
(* specification; the one that follows it carries it over to the composition, where   *)
(* a step of the part is a step of its own and any other leaves its variables alone.  *)
(***************************************************************************)
EXTENDS MCBridge, Sequences, FiniteSetTheorems, TLAPS

(***************************************************************************)
(* WifiProv.  A session that nothing of an older one has met finds the manager off    *)
(* and leaves it off; what has to be known on the way is where the manager can be at   *)
(* every step of the start, and that the only timer there can be is the one of the    *)
(* handle.                                                                    *)
(***************************************************************************)

\* The steps of the start, and the place of the manager in each.
StartInv ==
    /\ starter \in {"idle", "init", "start", "timer"}
    /\ starter = "init" => mgr = "off"
    /\ starter = "start" => mgr = "ready"

\* While a session starts it goes on, and it has no timer yet.
FreshInv == starter # "idle" => wifi_prov_status /\ armed = {} /\ timerTask = 0

\* A timer is the one of the handle; without a session there is none.
TimerInv ==
    /\ armed \subseteq {handle}
    /\ ~wifi_prov_status => armed = {}

\* Without a session the manager is off.
ManagerInv == ~wifi_prov_status => mgr = "off"

ProvInv == ~met => ~aborted /\ StartInv /\ FreshInv /\ TimerInv /\ ManagerInv

-----------------------------------------------------------------------------
LEMMA InitProv == Prov!Init => ProvInv
  BY DEF Prov!Init, ProvInv, StartInv, FreshInv, TimerInv, ManagerInv

\* Once something has met a newer session, that is not forgotten.
LEMMA LateStays == [Prov!Next]_provVars /\ met => met'
<1> SUFFICES ASSUME [Prov!Next]_provVars, met
             PROVE  met'
  OBVIOUS
<1>1. CASE Prov!event_handler
  BY <1>1 DEF Prov!event_handler, Prov!HandleEnd, Prov!HandleOther
<1>2. CASE Prov!Begins \/ Prov!Starts
  BY <1>2 DEF Prov!Begins, Prov!Starts, Prov!wifi_prov_mgr_init, Prov!wifi_prov_mgr_start_provisioning,
              Prov!esp_timer_start_once
<1>3. CASE Prov!Manager \/ Prov!Timer
  BY <1>3 DEF Prov!Manager, Prov!Timer, Prov!Stopped, Prov!Reports, Prov!PostsEnd, Prov!Expires
<1>4. CASE UNCHANGED provVars
  BY <1>4 DEF provVars
<1>5. QED
  BY <1>1, <1>2, <1>3, <1>4 DEF Prov!Next

\* Every step keeps the invariant.
LEMMA NextProv == ProvInv /\ [Prov!Next]_provVars => ProvInv'
<1> SUFFICES ASSUME ProvInv, [Prov!Next]_provVars, ~met'
             PROVE  (~aborted /\ StartInv /\ FreshInv /\ TimerInv /\ ManagerInv)'
  BY DEF ProvInv
<1>1. ~met /\ ~aborted /\ StartInv /\ FreshInv /\ TimerInv /\ ManagerInv
  BY LateStays DEF ProvInv
<1> USE <1>1 DEF StartInv, FreshInv, TimerInv, ManagerInv
<1>2. CASE Prov!Begins
  BY <1>2 DEF Prov!Begins, Prov!timer
<1>3. CASE Prov!wifi_prov_mgr_init
  BY <1>3 DEF Prov!wifi_prov_mgr_init, Prov!timer
<1>4. CASE Prov!wifi_prov_mgr_start_provisioning
  BY <1>4 DEF Prov!wifi_prov_mgr_start_provisioning, Prov!timer
<1>5. CASE Prov!esp_timer_start_once
  BY <1>5 DEF Prov!esp_timer_start_once
<1>6. CASE Prov!Stopped
  BY <1>6 DEF Prov!Stopped, Prov!timer
<1>7. ASSUME NEW kind \in {"recv", "failed", "succeeded"}, Prov!Reports(kind)
      PROVE  (~aborted /\ StartInv /\ FreshInv /\ TimerInv /\ ManagerInv)'
  BY <1>7 DEF Prov!Reports, Prov!timer
<1>8. CASE Prov!PostsEnd
  BY <1>8 DEF Prov!PostsEnd
<1>9. ASSUME NEW s \in armed, Prov!Expires(s)
      PROVE  (~aborted /\ StartInv /\ FreshInv /\ TimerInv /\ ManagerInv)'
  BY <1>9 DEF Prov!Expires
<1>10. CASE Prov!event_handler
  <2>1. starter' = starter /\ aborted' = aborted
    BY <1>10 DEF Prov!event_handler
  <2>2. CASE ~wifi_prov_status
    BY <1>10, <2>1, <2>2 DEF Prov!event_handler, Prov!timer
  <2>3. ASSUME wifi_prov_status, Prov!HandleEnd(Head(queue))
        PROVE  (~aborted /\ StartInv /\ FreshInv /\ TimerInv /\ ManagerInv)'
    <3>1. starter = "idle" /\ wifi_prov_status' = FALSE /\ mgr' = "off" /\ armed' = armed \ {handle}
          /\ handle' = handle
      BY <2>3 DEF Prov!HandleEnd
    <3>2. armed' = {}
      BY <3>1
    <3>3. QED
      BY <2>1, <3>1, <3>2
  <2>4. ASSUME wifi_prov_status, Prov!HandleOther(Head(queue))
        PROVE  (~aborted /\ StartInv /\ FreshInv /\ TimerInv /\ ManagerInv)'
    BY <2>1, <2>4 DEF Prov!HandleOther, Prov!timer
  <2>5. QED
    BY <1>10, <2>2, <2>3, <2>4 DEF Prov!event_handler
<1>11. CASE UNCHANGED provVars
  BY <1>11 DEF provVars
<1>12. QED
  BY <1>2, <1>3, <1>4, <1>5, <1>6, <1>7, <1>8, <1>9, <1>10, <1>11
     DEF Prov!Next, Prov!Starts, Prov!Manager, Prov!Timer

\* Between provisioning sessions (esp_bridge_wifi_prov_mgr to the END in event_handler) the
\* manager is off and no timer is left, and no start of a session aborts, unless an END or
\* a timer of one session met another.
THEOREM SessionsKeepApart == Prov!Spec => []Prov!SessionsApart
<1>1. Prov!Init => ProvInv
  BY InitProv
<1>2. ProvInv /\ [Prov!Next]_(Prov!provVars) => ProvInv'
  BY NextProv DEF provVars, Prov!provVars
<1>3. ProvInv => Prov!SessionsApart
  BY DEF ProvInv, TimerInv, ManagerInv, Prov!SessionsApart
<1>4. QED
  BY <1>1, <1>2, <1>3, PTL DEF Prov!Spec

\* The same of the composition.
THEOREM BridgeSessionsKeepApart == MCSpec => []SessionsApart
<1>1. MCInit => ProvInv
  BY InitProv DEF MCInit
<1>2. [MCNext]_allVars => [Prov!Next]_provVars
  BY DEF MCNext, WebMoves, ProvMoves, allVars, modemVars, netVars, webVars, provVars
<1>3. ProvInv => SessionsApart
  BY DEF ProvInv, TimerInv, ManagerInv, Prov!SessionsApart, SessionsApart
<1>4. QED
  BY <1>1, <1>2, <1>3, NextProv, PTL DEF MCSpec

-----------------------------------------------------------------------------
(***************************************************************************)
(* WebServer.  What the tasks leave to each other is the timer: the HTTP task makes   *)
(* it, its own callback or the HTTP task ends it.  The invariant says who has it at    *)
(* every step of the HTTP task (WatchInv), what time and how many tries are left       *)
(* (RoundInv), and which attempt every answer on its way is about (AnswerInv).         *)
(***************************************************************************)

Before == {"direct", "connect", "phone", "timer"}
Trying == {"tryPhone", "tryVirtual", "tryHighest"}
Waiting == {"waitPhone", "waitVirtual", "waitHighest"}
Filtering == {"scan", "iterate", "connected", "failed"} \cup Trying \cup Waiting

TheTimer(kind) == {[id |-> timerHandler, kind |-> kind]}

\* The timer of the handle is the only one there is, and who waits for it.
WatchInv ==
    /\ http \in {"idle", "ota"} \cup Before \cup Filtering
    /\ webTimer \in {"idle", "stop", "setBits"}
    /\ http \in {"direct", "connect", "phone"} => config_status # "connecting"
    /\ ~crossed =>
        /\ ~undefined
        /\ webTimer = "stop" => timers = TheTimer("status")
        /\ http \in Filtering => config_status = "connecting" /\ timers = TheTimer("success") /\ webTimer # "stop"
        /\ http \in Before => timers = {} \/ webTimer = "stop"
        /\ http = "timer" => config_status = "connecting"
        /\ http \in {"idle", "ota"} =>
              IF config_status = "connecting" THEN timers = TheTimer("status") /\ webTimer # "stop"
              ELSE timers = {} \/ webTimer = "stop"

LEMMA WatchInit == Web!Init => WatchInv
BY DEF Web!Init, WatchInv, Before, Trying, Waiting, Filtering, TheTimer

LEMMA WatchStep == WatchInv /\ [Web!Next]_webVars => WatchInv'
<1> SUFFICES ASSUME WatchInv, [Web!Next]_webVars
             PROVE  WatchInv'
  OBVIOUS
<1> USE DEF WatchInv, Before, Trying, Waiting, Filtering, TheTimer
<1>1. CASE UNCHANGED << http, webTimer, config_status, crossed, undefined, timers, timerHandler >>
  BY <1>1
<1>2. Web!Accepts \/ Web!esp_web_got_ip_cb \/ Web!Counts \/ Web!OtaPiece \/ UNCHANGED webVars
      => UNCHANGED << http, webTimer, config_status, crossed, undefined, timers, timerHandler >>
  BY DEF Web!Accepts, Web!esp_web_got_ip_cb, Web!Counts, Web!OtaPiece, webVars, Web!timing
<1>3. ASSUME NEW kind \in {"direct", "phone"}, Web!config_wifi_post_handler(kind)
      PROVE  WatchInv'
  BY <1>3 DEF Web!config_wifi_post_handler, Web!timing
<1>4. CASE Web!accept_wifi_result_post_handler
  BY <1>4 DEF Web!accept_wifi_result_post_handler, Web!timing
<1>5. CASE Web!OtaBegin \/ Web!OtaFails \/ Web!esp_web_ota_end
  BY <1>5 DEF Web!OtaBegin, Web!OtaFails, Web!esp_web_ota_end, Web!timing
<1>6. CASE Web!ClearDirect
  BY <1>6 DEF Web!ClearDirect, Web!timing
<1>7. ASSUME NEW ok \in BOOLEAN, Web!ConnectDirect(ok)
      PROVE  WatchInv'
  BY <1>7 DEF Web!ConnectDirect, Web!timing
<1>8. CASE Web!CreateTimer
  <2>1. /\ http = "timer" /\ http' = "idle" /\ timerHandler' = posts
        /\ timers' = timers \cup {[id |-> posts, kind |-> "status"]}
        /\ crossed' = (crossed \/ webTimer = "stop")
        /\ config_status' = config_status /\ webTimer' = webTimer /\ undefined' = undefined
    BY <1>8 DEF Web!CreateTimer, Web!NewTimer
  <2>2. ASSUME ~crossed'
        PROVE  webTimer # "stop" /\ timers' = {[id |-> timerHandler', kind |-> "status"]}
    <3>1. timers = {} /\ webTimer # "stop"
      BY <2>1, <2>2
    <3>2. QED
      BY ONLY <2>1, <3>1
  <2>3. QED
    BY <2>1, <2>2
<1>9. CASE Web!ClearPhone
  BY <1>9 DEF Web!ClearPhone, Web!NewTimer
<1>10. ASSUME NEW found \in SUBSET Routers, NEW time \in ScanTimes, Web!Scan(found, time)
       PROVE  WatchInv'
  BY <1>10 DEF Web!Scan, Web!timing
<1>11. CASE Web!Stage
  BY <1>11 DEF Web!Stage, Web!timing, Web!Try, Web!AfterStage
<1>12. CASE Web!Highest
  BY <1>12 DEF Web!Highest, Web!timing, Web!Try
<1>13. CASE Web!TryConnected \/ Web!TryTimesOut \/ Web!Iterate
  BY <1>13 DEF Web!TryConnected, Web!TryTimesOut, Web!Iterate, Web!Waits, Web!Next1, Web!timing
<1>14. ASSUME NEW socket \in BOOLEAN, Web!FinishPhone(socket)
       PROVE  WatchInv'
  BY <1>14 DEF Web!FinishPhone
<1>15. CASE Web!Publishes
  BY <1>15 DEF Web!Publishes, Web!Fires
<1>16. CASE Web!Stops
  <2>1. /\ webTimer = "stop" /\ webTimer' = "idle"
        /\ timers' = { t \in timers : t.id # timerHandler }
        /\ undefined' = (undefined \/ \A t \in timers : t.id # timerHandler)
        /\ http' = http /\ config_status' = config_status /\ timerHandler' = timerHandler
        /\ crossed' = crossed
    BY <1>16 DEF Web!Stops
  <2>2. ASSUME ~crossed
        PROVE  timers' = {} /\ ~undefined'
    <3>1. timers = {[id |-> timerHandler, kind |-> "status"]} /\ ~undefined
      BY <2>1, <2>2
    <3>2. \A t \in timers : t.id = timerHandler
      BY ONLY <3>1
    <3>3. timers # {}
      BY ONLY <3>1
    <3>4. QED
      BY ONLY <2>1, <3>1, <3>2, <3>3
  <2>3. QED
    BY <2>1, <2>2
<1>17. CASE Web!SeesIp
  BY <1>17 DEF Web!SeesIp, Web!Fires
<1>18. CASE Web!SetsBit
  BY <1>18 DEF Web!SetsBit
<1>19. QED
  BY <1>1, <1>2, <1>3, <1>4, <1>5, <1>6, <1>7, <1>8, <1>9, <1>10, <1>11, <1>12, <1>13, <1>14,
     <1>15, <1>16, <1>17, <1>18 DEF Web!Next, Web!Request, Web!Direct, Web!Filter, Web!Timer, Web!Ota

-----------------------------------------------------------------------------
\* The time left, and how many tries it is good for: in the last round one at most.
RoundInv ==
    /\ avail \in Int /\ elapsed \in Nat /\ tries \in Nat
    /\ http \in {"scan", "iterate"} \cup Trying \cup Waiting =>
          /\ avail > 0 /\ maxTries = avail \div Web!TryTime
          /\ last => avail <= Web!LastScan
    /\ http \in Trying /\ list = {} => tries >= 1
    /\ http \in Waiting => tries >= 1
    /\ ~noHead

LEMMA RoundInit == Web!Init => RoundInv
BY DEF Web!Init, RoundInv, Trying, Waiting

LEMMA RoundStep == WatchInv /\ RoundInv /\ Web!WebAssumption /\ [Web!Next]_webVars => RoundInv'
<1> SUFFICES ASSUME WatchInv, RoundInv, Web!WebAssumption, [Web!Next]_webVars
             PROVE  RoundInv'
  OBVIOUS
<1> USE DEF RoundInv, Trying, Waiting
<1>0. ScanTimes \subseteq Nat /\ ConnectTime \in Int
  BY DEF Web!WebAssumption
<1>1. CASE UNCHANGED << http, avail, elapsed, tries, maxTries, last, list, noHead >>
  BY <1>1
<1>2. Web!Accepts \/ Web!esp_web_got_ip_cb \/ Web!Counts \/ Web!Publishes \/ Web!Stops \/ Web!SeesIp
      \/ Web!SetsBit \/ Web!OtaPiece \/ UNCHANGED webVars
      => UNCHANGED << http, avail, elapsed, tries, maxTries, last, list, noHead >>
  BY DEF Web!Accepts, Web!esp_web_got_ip_cb, Web!Counts, Web!Publishes, Web!Stops, Web!SeesIp, Web!SetsBit,
     Web!OtaPiece, webVars, Web!filter
<1>3. CASE UNCHANGED << avail, elapsed, tries, maxTries, last, list, noHead >>
           /\ http' \in {"idle", "ota", "direct", "phone", "connect", "timer", "connected"}
  BY <1>3
<1>4. (\E kind \in {"direct", "phone"} : Web!config_wifi_post_handler(kind)) \/ Web!accept_wifi_result_post_handler
      \/ Web!OtaBegin \/ Web!OtaFails \/ Web!esp_web_ota_end \/ Web!ClearDirect \/ Web!CreateTimer
      \/ (\E ok \in BOOLEAN : Web!ConnectDirect(ok)) \/ Web!TryConnected
      => UNCHANGED << avail, elapsed, tries, maxTries, last, list, noHead >>
         /\ http' \in {"idle", "ota", "direct", "phone", "connect", "timer", "connected"}
  BY DEF Web!config_wifi_post_handler, Web!accept_wifi_result_post_handler, Web!OtaBegin, Web!OtaFails,
     Web!esp_web_ota_end, Web!ClearDirect, Web!CreateTimer, Web!ConnectDirect, Web!TryConnected, Web!filter
<1>5. CASE Web!ClearPhone
  BY <1>0, <1>5 DEF Web!ClearPhone
<1>6. ASSUME NEW found \in SUBSET Routers, NEW time \in ScanTimes, Web!Scan(found, time)
      PROVE  RoundInv'
  <2>1. CASE maxTries = 0
    BY <1>6, <2>1 DEF Web!Scan
  <2>2. CASE maxTries # 0
    <3>1. /\ http = "scan" /\ last' = (last \/ avail <= Web!LastScan)
          /\ tries' = 0 /\ list' = found /\ elapsed' = time
          /\ http' = IF found = {} THEN "failed" ELSE "tryPhone"
          /\ avail' = avail /\ maxTries' = maxTries /\ noHead' = noHead
      BY <1>6, <2>2 DEF Web!Scan
    <3>2. time \in Nat
      BY <1>0
    <3>3. QED
      BY <3>1, <3>2
  <2>3. QED
    BY <2>1, <2>2
<1>7. CASE Web!Stage
  BY <1>7 DEF Web!Stage, Web!Try, Web!AfterStage
<1>8. CASE Web!Highest
  <2>1. ~(Web!MayTry /\ list = {})
    <3> SUFFICES ASSUME Web!MayTry, list = {}
                 PROVE  FALSE
      OBVIOUS
    <3>1. last /\ tries < maxTries /\ tries >= 1 /\ avail <= 10 /\ avail > 0 /\ maxTries = avail \div 8
      BY <1>8 DEF Web!Highest, Web!MayTry, Web!LastScan, Web!TryTime
    <3>2. QED
      BY <3>1
  <2>2. QED
    <3>1. http = "tryHighest" /\ ~noHead' /\ UNCHANGED << avail, maxTries, last, list, elapsed >>
      BY <1>8, <2>1 DEF Web!Highest
    <3>2. \/ http' = "waitHighest" /\ tries' = tries + 1
          \/ http' = "iterate" /\ tries' = tries
      BY <1>8 DEF Web!Highest, Web!Try
    <3>3. QED
      BY ONLY <3>1, <3>2, RoundInv DEF RoundInv, Trying, Waiting
<1>9. CASE Web!TryTimesOut
  BY <1>9 DEF Web!TryTimesOut, Web!Waits, Web!Next1, Web!TryTime
<1>10. CASE Web!Iterate
  BY <1>10 DEF Web!Iterate, Web!TriesLeft, Web!LastScan
<1>11. ASSUME NEW socket \in BOOLEAN, Web!FinishPhone(socket)
       PROVE  RoundInv'
  BY <1>11 DEF Web!FinishPhone
<1>12. QED
  BY <1>1, <1>2, <1>3, <1>4, <1>5, <1>6, <1>7, <1>8, <1>9, <1>10, <1>11
     DEF Web!Next, Web!Request, Web!Direct, Web!Filter, Web!Timer, Web!Ota

-----------------------------------------------------------------------------
\* Every answer that is on its way is about the last attempt.
Current ==
    /\ \A n \in 1 .. Len(ipEvents) : ipEvents[n] = attempt
    /\ s_sta_got_ip_flag \/ webTimer = "setBits" => flagOf = attempt
    /\ bitOf \in {0, attempt}

Asked == {"idle", "ota"}

AnswerInv ==
    /\ ipEvents \in Seq(Nat) /\ attempt \in Nat
    /\ ~stale /\ ~crossed =>
        /\ http = "connect" => ~s_sta_got_ip_flag
        /\ http \in Waiting \cup {"timer"} \/ (http \in Asked /\ config_status = "connecting") => Current
        /\ http = "connected" \/ (http \in Asked /\ config_status = "ok") => okOf = attempt
    /\ boot \in {0, Image}

CountsUp == connect_count \in Nat

LEMMA CountStep == CountsUp /\ [Web!Next]_webVars => CountsUp'
<1> SUFFICES ASSUME CountsUp, [Web!Next]_webVars
             PROVE  CountsUp'
  OBVIOUS
<1> USE DEF CountsUp
<1>1. CASE Web!Accepts \/ Web!esp_web_got_ip_cb \/ Web!Request \/ Web!Ota \/ UNCHANGED webVars
  BY <1>1 DEF Web!Accepts, Web!esp_web_got_ip_cb, Web!Request, Web!Ota, Web!config_wifi_post_handler,
     Web!accept_wifi_result_post_handler, Web!OtaBegin, Web!OtaPiece, Web!OtaFails, Web!esp_web_ota_end,
     Web!timing, webVars
<1>2. CASE Web!Direct
  BY <1>2 DEF Web!Direct, Web!ClearDirect, Web!ConnectDirect, Web!CreateTimer, Web!timing
<1>3. CASE Web!Filter
  BY <1>3 DEF Web!Filter, Web!ClearPhone, Web!Scan, Web!Stage, Web!Highest, Web!TryConnected,
     Web!TryTimesOut, Web!Iterate, Web!FinishPhone, Web!timing
<1>4. CASE Web!Timer
  BY <1>4 DEF Web!Timer, Web!Counts, Web!Publishes, Web!Stops, Web!SeesIp, Web!SetsBit
<1>5. QED
  BY <1>1, <1>2, <1>3, <1>4 DEF Web!Next

LEMMA AnswerInit == Web!Init => AnswerInv
BY DEF Web!Init, AnswerInv, Waiting, Current, Asked

LEMMA AnswerStep == WatchInv /\ CountsUp /\ AnswerInv /\ Web!WebAssumption /\ [Web!Next]_webVars => AnswerInv'
<1> SUFFICES ASSUME WatchInv, CountsUp, AnswerInv, Web!WebAssumption, [Web!Next]_webVars
             PROVE  AnswerInv'
  OBVIOUS
<1> USE DEF AnswerInv, Waiting, Asked
<1> DEFINE same == UNCHANGED << ipEvents, attempt, boot, stale, crossed >>
<1>1. CASE same /\ UNCHANGED << http, config_status, s_sta_got_ip_flag, flagOf, webTimer, bitOf, okOf >>
  BY <1>1 DEF Current
<1>2. Web!Counts \/ Web!OtaPiece \/ UNCHANGED webVars
      => same /\ UNCHANGED << http, config_status, s_sta_got_ip_flag, flagOf, webTimer, bitOf, okOf >>
  BY DEF Web!Counts, Web!OtaPiece, webVars, Web!flag, Web!events, Web!wifi, Web!timing, Web!update
<1>3. CASE Web!Accepts
  <2>1. /\ ipEvents' = Append(ipEvents, attempt)
        /\ UNCHANGED << http, config_status, s_sta_got_ip_flag, flagOf, webTimer, bitOf, okOf, attempt, boot,
                        stale, crossed >>
    BY <1>3 DEF Web!Accepts, Web!flag, Web!events, Web!timing, Web!update
  <2>2. ipEvents' \in Seq(Nat) /\ Len(ipEvents') = Len(ipEvents) + 1 /\ Len(ipEvents) \in Nat
        /\ \A n \in 1 .. Len(ipEvents') : ipEvents'[n] = IF n = Len(ipEvents) + 1 THEN attempt ELSE ipEvents[n]
    BY <2>1
  <2>3. Current => Current'
    BY <2>1, <2>2 DEF Current
  <2>4. QED
    BY <2>1, <2>2, <2>3
<1>4. CASE Web!esp_web_got_ip_cb
  <2>1. /\ ipEvents # << >> /\ ipEvents' = Tail(ipEvents)
        /\ s_sta_got_ip_flag' = TRUE /\ flagOf' = Head(ipEvents)
        /\ stale' = (stale \/ http = "connect")
        /\ UNCHANGED << http, config_status, webTimer, bitOf, okOf, attempt, boot, crossed >>
    BY <1>4 DEF Web!esp_web_got_ip_cb, Web!events, Web!timing, Web!update
  <2>2. ipEvents' \in Seq(Nat) /\ Len(ipEvents') = Len(ipEvents) - 1 /\ Len(ipEvents) \in Nat \ {0}
        /\ Head(ipEvents) = ipEvents[1]
        /\ \A n \in 1 .. Len(ipEvents') : ipEvents'[n] = ipEvents[n + 1] /\ n + 1 \in 1 .. Len(ipEvents)
    BY <2>1
  <2>3. Current => Current'
    BY <2>1, <2>2 DEF Current
  <2>4. QED
    BY <2>1, <2>2, <2>3
<1>5. ASSUME NEW kind \in {"direct", "phone"}, Web!config_wifi_post_handler(kind)
      PROVE  AnswerInv'
  BY <1>5 DEF Web!config_wifi_post_handler, Web!flag, Web!timing, Web!events, Web!wifi, Web!update
<1>6. CASE Web!accept_wifi_result_post_handler
  BY <1>6 DEF Web!accept_wifi_result_post_handler, Web!flag, Web!timing, Web!events, Web!wifi, Web!update
<1>7. CASE Web!OtaBegin \/ Web!OtaFails \/ Web!esp_web_ota_end
  BY <1>7 DEF Web!OtaBegin, Web!OtaFails, Web!esp_web_ota_end, Web!flag, Web!timing, Web!events, Web!wifi,
     Web!update, Current
<1>8. CASE Web!ClearDirect
  BY <1>8 DEF Web!ClearDirect, Web!ClearsFlag, Web!timing, Web!update
<1>9. ASSUME NEW ok \in BOOLEAN, Web!ConnectDirect(ok)
      PROVE  AnswerInv'
  BY <1>9 DEF Web!ConnectDirect, Web!Connect, Web!timing, Web!flag, Web!events, Web!update, Current
<1>10. CASE Web!CreateTimer
  <2>1. /\ http = "timer" /\ http' = "idle" /\ crossed' = (crossed \/ webTimer = "stop")
        /\ UNCHANGED << config_status, s_sta_got_ip_flag, flagOf, webTimer, bitOf, okOf, attempt, ipEvents,
                        boot, stale, connect_count >>
    BY <1>10 DEF Web!CreateTimer, Web!flag, Web!wifi, Web!events, Web!update
  <2>2. ~crossed => config_status = "connecting"
    BY <2>1 DEF WatchInv
  <2>3. Current' = Current
    BY <2>1 DEF Current
  <2>4. QED
    BY ONLY <2>1, <2>2, <2>3, AnswerInv DEF AnswerInv, Waiting, Asked
<1>11. CASE Web!ClearPhone
  BY <1>11 DEF Web!ClearPhone, Web!update
<1>12. ASSUME NEW found \in SUBSET Routers, NEW time \in ScanTimes, Web!Scan(found, time)
       PROVE  AnswerInv'
  BY <1>12 DEF Web!Scan, Web!wifi, Web!timing, Web!update
<1>13. ASSUME NEW r, http \in Trying, Web!Try(r), UNCHANGED << config_status, Web!flag, Web!timing, Web!events, Web!update, okOf >>
       PROVE  AnswerInv'
  <2>1. /\ http \in Trying /\ http' \in Waiting /\ attempt' = attempt + 1
        /\ stale' = (stale \/ ipEvents # << >> \/ bitOf # 0 \/ webTimer = "setBits" \/ s_sta_got_ip_flag)
        /\ UNCHANGED << ipEvents, s_sta_got_ip_flag, webTimer, bitOf, crossed, boot >>
    BY <1>13 DEF Web!Try, Web!Connect, Web!timing, Web!flag, Web!events, Web!update, Trying
  <2>2. ASSUME ~stale'
        PROVE  Current'
    <3>1. ipEvents' = << >> /\ bitOf' = 0 /\ webTimer' # "setBits" /\ ~s_sta_got_ip_flag'
      BY <2>1, <2>2
    <3>2. \A n \in 1 .. Len(ipEvents') : FALSE
      BY ONLY <3>1
    <3>3. QED
      BY ONLY <3>1, <3>2 DEF Current
  <2>3. QED
    BY <2>1, <2>2
<1>14. CASE Web!Stage
  <2>1. http \in Trying
    BY <1>14 DEF Web!Stage, Trying
  <2>2. ASSUME NEW r, Web!Try(r)
        PROVE  AnswerInv'
    BY <1>13, <1>14, <2>1, <2>2 DEF Web!Stage
  <2>3. ASSUME http' = Web!AfterStage, UNCHANGED Web!wifi
        PROVE  AnswerInv'
    BY <1>14, <2>3 DEF Web!Stage, Web!AfterStage, Web!wifi, Web!timing, Web!update
  <2>4. QED
    BY <1>14, <2>2, <2>3 DEF Web!Stage
<1>15. CASE Web!Highest
  <2>1. http \in Trying
    BY <1>15 DEF Web!Highest, Trying
  <2>2. ASSUME NEW r, Web!Try(r)
        PROVE  AnswerInv'
    BY <1>13, <1>15, <2>1, <2>2 DEF Web!Highest
  <2>3. ASSUME http' = "iterate", UNCHANGED Web!wifi
        PROVE  AnswerInv'
    BY <1>15, <2>3 DEF Web!Highest, Web!wifi, Web!timing, Web!update
  <2>4. QED
    BY <1>15, <2>2, <2>3 DEF Web!Highest
<1>16. CASE Web!TryConnected
  BY <1>16 DEF Web!TryConnected, Web!Waits, Web!wifi, Web!timing, Web!update, Current
<1>17. CASE Web!TryTimesOut \/ Web!Iterate
  BY <1>17 DEF Web!TryTimesOut, Web!Waits, Web!Next1, Web!Iterate, Web!wifi, Web!timing, Web!update
<1>18. ASSUME NEW socket \in BOOLEAN, Web!FinishPhone(socket)
       PROVE  AnswerInv'
  BY <1>18 DEF Web!FinishPhone, Web!wifi, Web!update
<1>19. CASE Web!Publishes
  <2>1. /\ config_status' = (IF connect_count < MaxCount THEN "ok" ELSE "fail")
        /\ okOf' = (IF connect_count < MaxCount THEN flagOf ELSE okOf)
        /\ s_sta_got_ip_flag' = FALSE /\ webTimer' = "stop"
        /\ webTimer = "idle" /\ \E t \in timers : t.kind = "status"
        /\ UNCHANGED << http, ipEvents, attempt, boot, stale, crossed, bitOf, flagOf >>
    BY <1>19 DEF Web!Publishes, Web!Fires, Web!events, Web!wifi, Web!update
  <2>2. connect_count < MaxCount => s_sta_got_ip_flag
    <3>1. connect_count \in Nat /\ MaxCount \in Nat
      BY DEF CountsUp, Web!WebAssumption
    <3>2. connect_count >= MaxCount \/ (connect_count < MaxCount /\ s_sta_got_ip_flag)
      BY <1>19 DEF Web!Publishes, Web!GivesUp
    <3>3. QED
      BY ONLY <3>1, <3>2
  <2>3. ASSUME ~crossed
        PROVE  http \in Asked /\ config_status = "connecting"
    <3>1. timers # {} /\ (timers = {[id |-> timerHandler, kind |-> "success"]} => FALSE)
      BY ONLY <2>1
    <3>2. QED
      BY ONLY <2>1, <2>3, <3>1, WatchInv DEF WatchInv, Before, Filtering, TheTimer, Asked
  <2>4. ~stale /\ ~crossed => Current
    BY <2>3
  <2>5. Current => Current' /\ (s_sta_got_ip_flag => flagOf = attempt)
    BY <2>1 DEF Current
  <2>6. QED
    BY <2>1, <2>2, <2>3, <2>4, <2>5
<1>20. CASE Web!Stops \/ Web!SeesIp
  BY <1>20 DEF Web!Stops, Web!SeesIp, Web!flag, Web!events, Web!wifi, Web!update, Current
<1>21. CASE Web!SetsBit
  BY <1>21 DEF Web!SetsBit, Web!flag, Web!wifi, Web!update, Current
<1>22. QED
  BY <1>1, <1>2, <1>3, <1>4, <1>5, <1>6, <1>7, <1>8, <1>9, <1>10, <1>11, <1>12, <1>14,
     <1>15, <1>16, <1>17, <1>18, <1>19, <1>20, <1>21
     DEF Web!Next, Web!Request, Web!Direct, Web!Filter, Web!Timer, Web!Ota

-----------------------------------------------------------------------------
WebInv == WatchInv /\ RoundInv /\ CountsUp /\ AnswerInv

LEMMA WebInit == Web!Init => WebInv
  BY WatchInit, RoundInit, AnswerInit DEF WebInv, CountsUp, Web!Init

LEMMA WebStep == Web!WebAssumption /\ WebInv /\ [Web!Next]_webVars => WebInv'
  BY WatchStep, RoundStep, CountStep, AnswerStep DEF WebInv

\* What the invariant says of the timers: one of the handle at most.
LEMMA OneTimer == WatchInv /\ ~crossed => timers = {} \/ \E kind \in {"status", "success"} : timers = TheTimer(kind)
  BY DEF WatchInv, Before, Filtering

LEMMA CardinalityOfTimers == WatchInv /\ ~crossed => Web!Cardinality(timers) <= 1
<1>1. Web!Cardinality(timers) = Cardinality(timers)
  BY Zenon DEF Web!Cardinality, Cardinality
<1>2. Cardinality({}) = 0 /\ \A kind : Cardinality(TheTimer(kind)) = 1
  BY FS_EmptySet, FS_Singleton DEF TheTimer
<1>3. SUFFICES ASSUME WatchInv, ~crossed
               PROVE  Cardinality(timers) <= 1
  BY <1>1
<1>4. CASE timers = {}
  BY <1>2, <1>4
<1>5. ASSUME NEW kind \in {"status", "success"}, timers = TheTimer(kind)
      PROVE  Cardinality(timers) <= 1
  BY <1>2, <1>5
<1>6. QED
  BY <1>3, <1>4, <1>5, OneTimer

LEMMA WebWatched == WebInv => Web!SetupIsWatched
  BY CardinalityOfTimers DEF WebInv, WatchInv, RoundInv, TheTimer, Web!SetupIsWatched

LEMMA WebReports == WebInv => Web!ReportsAreTrue
  BY DEF WebInv, AnswerInv, Asked, Web!ReportsAreTrue

\* A set-up that is connecting (esp_web_apply_wifi_connect_info) is ended by the HTTP task or
\* by the timer of the handle, which is the only one, unless a request came between a result
\* and the end of its timer; and the strongest router is only looked for in a list that has one.
THEOREM SetupsAreWatched == ASSUME Web!WebAssumption PROVE Web!Spec => []Web!SetupIsWatched
<1>1. Web!Init => WebInv
  BY WebInit
<1>2. WebInv /\ [Web!Next]_(Web!webVars) => WebInv'
  BY WebStep DEF webVars, Web!webVars
<1>3. QED
  BY <1>1, <1>2, WebWatched, PTL DEF Web!Spec

\* A set-up that listen_sta_connect_status_timer_cb or the filter reports as connected is so with the
\* network that was asked for last, unless an answer to an earlier attempt was on its way when it
\* was tried; and an update that is set to boot (esp_web_ota_end) is whole.
THEOREM WebReportsAreTrue == ASSUME Web!WebAssumption PROVE Web!Spec => []Web!ReportsAreTrue
<1>1. Web!Init => WebInv
  BY WebInit
<1>2. WebInv /\ [Web!Next]_(Web!webVars) => WebInv'
  BY WebStep DEF webVars, Web!webVars
<1>3. QED
  BY <1>1, <1>2, WebReports, PTL DEF Web!Spec

LEMMA BridgeWebStep == [MCNext]_allVars => [Web!Next]_webVars
  BY DEF MCNext, WebMoves, ProvMoves, allVars, modemVars, netVars, webVars, provVars

\* The same of the composition.
THEOREM BridgeSetupIsWatched == MCSpec => []SetupIsWatched
<1>1. MCInit => WebInv
  BY WebInit DEF MCInit
<1>2. WebInv /\ [MCNext]_allVars => WebInv'
  BY BridgeWebStep, WebStep, BridgeAssumption
<1>3. WebInv => SetupIsWatched
  BY WebWatched DEF SetupIsWatched
<1>4. QED
  BY <1>1, <1>2, <1>3, PTL DEF MCSpec

\* The same of the composition.
THEOREM BridgeReportsAreTrue == MCSpec => []ReportsAreTrue
<1>1. MCInit => WebInv
  BY WebInit DEF MCInit
<1>2. WebInv /\ [MCNext]_allVars => WebInv'
  BY BridgeWebStep, WebStep, BridgeAssumption
<1>3. WebInv => ReportsAreTrue
  BY WebReports DEF ReportsAreTrue
<1>4. QED
  BY <1>1, <1>2, <1>3, PTL DEF MCSpec

-----------------------------------------------------------------------------
(***************************************************************************)
(* Modem.  As long as no command has timed out and not both tasks have been dialling, *)
(* one task at most acts (OneActs), what is under way on the wire and in the receiving *)
(* task is the one command of that task or its answer (ExchangeInv), the mode is in     *)
(* transition only within a change of that task (ModeInv), and the modem can only be    *)
(* in data mode where the driver is, or a dial or an escape is under way (RealInv).     *)
(***************************************************************************)

Dialling == {"pdp", "atd", "ato"}
Leaving == {"esc", "resync"}
Inactive == {"idle", "connect"}
ModemSteps == {"start", "stop", "startfailed", "started", "stopped", "restart", "reset", "powerdown"}
              \cup Inactive \cup Mod!Commands

RxIsRecord == rx = [pc |-> rx.pc, of |-> rx.of, line |-> rx.line]

\* A task waits for the answer to the command that is its step.
ModemTypeInv ==
    /\ dceMode \in {"command", "transition", "ppp"}
    /\ step \in [Mod!Tasks -> ModemSteps] /\ saved \in [Mod!Tasks -> {"command", "transition", "ppp"}]
    /\ redo \in {"sync", "store"} /\ RxIsRecord
    /\ awaits \subseteq {t \in Mod!Tasks : step[t] \in Mod!Commands}

\* Unless both have been dialling at once, one of the tasks does nothing.
OneActs == ~both => step["events"] \in Inactive \/ step["init"] \in Inactive

\* A change of the mode is always that of a task, which keeps what it restores.
ModeInv ==
    ~both =>
    /\ \A t \in Mod!Tasks :
          /\ step[t] \in Dialling => dceMode = "transition" /\ saved[t] = "command"
          /\ step[t] \in Leaving => dceMode = "transition" /\ saved[t] = "ppp"
          /\ step[t] = "hangup" => dceMode = "command" /\ saved[t] = "ppp"
    /\ dceMode = "transition" => \E t \in Mod!Tasks : step[t] \in Dialling \cup Leaving

\* Where the one command or answer is that is under way.
Lines == {"OK", "NO CARRIER", "CONNECT", "ERROR"}
CommandOf(t) == [of |-> t, cmd |-> step[t], line |-> "-"]
LineFor(t, a) == [of |-> t, cmd |-> "-", line |-> a]
Nothing == wire = << >> /\ rx.pc = "read" /\ ~done
Written(t) == wire = << CommandOf(t) >> /\ rx.pc = "read" /\ ~done
Answered(t, a) == wire = << LineFor(t, a) >> /\ rx.pc = "read" /\ ~done
Heard(t) == wire = << >> /\ rx.pc \in {"check", "call", "bit"} /\ rx.of = t /\ ~done
Ended(t) == wire = << >> /\ rx.pc = "read" /\ done /\ doneOf = t

UnderWay(t) == Written(t) \/ (\E a \in Lines : Answered(t, a)) \/ Heard(t) \/ Ended(t)

ExchangeInv ==
    ~late /\ ~both =>
    /\ ~mixup
    /\ \A t \in awaits : handler = Mod!HandlerOf(step[t])
    /\ Nothing \/ \E t \in awaits : UnderWay(t)

\* The modem is in data mode while the driver is, while a task dials and the modem has
\* answered that it connects, and while one leaves the mode and the modem has not answered.
Connects(t) ==
    /\ t \in awaits /\ ~Written(t)
    /\ \A a \in Lines : Answered(t, a) => a = "CONNECT"
    /\ rx.pc \in {"check", "call"} => rx.line = "CONNECT"
    /\ rx.pc = "bit" \/ done => state = "success"

Calls == {"atd", "ato"}

RealInv ==
    ~late /\ ~both /\ real # "command" =>
    /\ dceMode = "ppp" \/ \E t \in Mod!Tasks : step[t] \in Calls \cup {"esc"}
    /\ \A t \in Mod!Tasks :
          /\ step[t] \in Calls => Connects(t)
          /\ step[t] = "esc" => Nothing \/ Written(t)

ModemInv == ModemTypeInv /\ OneActs /\ ModeInv /\ ExchangeInv /\ RealInv

-----------------------------------------------------------------------------
LEMMA OthersRest ==
    ASSUME ModemTypeInv, OneActs, ~both, NEW t \in Mod!Tasks, step[t] \notin Inactive
    PROVE  /\ \A u \in Mod!Tasks : u # t => step[u] \in Inactive
           /\ awaits \subseteq {t}
  BY DEF OneActs, ModemTypeInv, Mod!Tasks, Inactive, Mod!Commands

LEMMA NoLineIsRecord == rx = Mod!NoLine => RxIsRecord
  BY DEF RxIsRecord, Mod!NoLine

LEMMA ModemInit == Mod!Init => ModemInv
  BY NoLineIsRecord DEF Mod!Init, ModemInv, ModemTypeInv, OneActs, ModeInv, ExchangeInv, RealInv, Nothing, Mod!NoLine,
     Mod!Tasks, ModemSteps, Inactive, Mod!Commands, Dialling, Leaving

LEMMA ModemRestart == Mod!Restart => ModemInv'
  BY DEF RxIsRecord, Mod!Restart, ModemInv, ModemTypeInv, OneActs, ModeInv, ExchangeInv, RealInv, Nothing, Mod!NoLine,
     Mod!Tasks, ModemSteps, Inactive, Mod!Commands, Dialling, Leaving

-----------------------------------------------------------------------------
(* The wire *)

LEMMA OnlyOne ==
    ASSUME NEW w, wire = << w >>
    PROVE  /\ Mod!CommandsOnWire = IF w.cmd # "-" THEN {1} ELSE {}
           /\ Mod!LinesOnWire = IF w.cmd # "-" THEN {} ELSE {1}
           /\ Mod!First({1}) = 1 /\ Mod!Without(1) = << >> /\ wire[1] = w
<1>1. Len(wire) = 1 /\ wire[1] = w /\ 1 .. 1 = {1}
  OBVIOUS
<1>2. Mod!CommandsOnWire = {n \in {1} : w.cmd # "-"}
  BY <1>1 DEF Mod!CommandsOnWire, Mod!IsCommand
<1>3. Mod!LinesOnWire = {n \in {1} : w.cmd = "-"}
  BY <1>1 DEF Mod!LinesOnWire, Mod!IsCommand
<1>4. Mod!First({1}) = 1
  BY DEF Mod!First
<1>5. Mod!Without(1) = << >>
  <2>1. SubSeq(wire, 1, 0) = << >> /\ SubSeq(wire, 2, 1) = << >>
    BY <1>1
  <2>2. Mod!Without(1) = << >> \o << >>
    BY <1>1, <2>1 DEF Mod!Without
  <2>3. QED
    BY <2>2
<1>6. QED
  BY <1>1, <1>2, <1>3, <1>4, <1>5

LEMMA NoneOnWire == wire = << >> => Mod!CommandsOnWire = {} /\ Mod!LinesOnWire = {}
<1> SUFFICES ASSUME wire = << >>
             PROVE  Mod!CommandsOnWire = {} /\ Mod!LinesOnWire = {}
  OBVIOUS
<1>1. 1 .. Len(wire) = {}
  OBVIOUS
<1>2. QED
  BY <1>1 DEF Mod!CommandsOnWire, Mod!LinesOnWire

\* What the modem takes is the command, and what the driver reads the answer.
LEMMA AnswerTakes ==
    ASSUME ModemInv, ~late, ~both, Mod!Answer
    PROVE  \E t \in awaits :
              /\ Written(t)
              /\ \/ \E a \in Mod!AnswersTo(step[t]) :
                       /\ wire' = << LineFor(t, a) >>
                       /\ real' = IF a = "CONNECT" THEN "data"
                                  ELSE IF step[t] \in {"esc", "recesc"} THEN "command" ELSE real
                 \/ wire' = << >> /\ real' = real
<1>1. Mod!CommandsOnWire # {}
  BY DEF Mod!Answer
<1>2. wire # << >>
  BY <1>1, NoneOnWire
<1>3. ASSUME NEW t \in awaits, NEW a \in Lines, Answered(t, a)
      PROVE  FALSE
  BY <1>1, <1>3, OnlyOne DEF Answered, LineFor
<1>4. PICK t \in awaits : Written(t)
  BY <1>2, <1>3, Zenon DEF ModemInv, ExchangeInv, UnderWay, Nothing, Heard, Ended
<1>5. step[t] \in Mod!Commands /\ CommandOf(t).cmd = step[t] /\ CommandOf(t).of = t
  BY DEF ModemInv, ModemTypeInv, CommandOf
<1>6. CommandOf(t).cmd # "-"
  BY <1>5 DEF Mod!Commands
<1>7. /\ Mod!CommandsOnWire = {1} /\ Mod!First({1}) = 1 /\ Mod!Without(1) = << >> /\ wire[1] = CommandOf(t)
  BY <1>4, <1>6, OnlyOne DEF Written
<1>8. \/ \E a \in Mod!AnswersTo(step[t]) :
            /\ wire' = Append(<< >>, LineFor(t, a))
            /\ real' = IF a = "CONNECT" THEN "data"
                       ELSE IF step[t] \in {"esc", "recesc"} THEN "command" ELSE real
      \/ wire' = << >> /\ real' = real
  BY <1>5, <1>7 DEF Mod!Answer, LineFor
<1>9. \A x : Append(<< >>, x) = << x >>
  OBVIOUS
<1>10. QED
  BY <1>4, <1>8, <1>9

LEMMA ReadTakes ==
    ASSUME ModemInv, ~late, ~both, Mod!RxRead
    PROVE  \E t \in awaits, a \in Lines :
              /\ Answered(t, a)
              /\ wire' = << >>
              /\ \/ rx' = Mod!NoLine
                 \/ rx' = [pc |-> "check", of |-> t, line |-> a]
<1>1. Mod!LinesOnWire # {} /\ rx.pc = "read"
  BY DEF Mod!RxRead
<1>2. wire # << >>
  BY <1>1, NoneOnWire
<1>3. ASSUME NEW t \in awaits, Written(t)
      PROVE  FALSE
  <2>1. step[t] \in Mod!Commands /\ CommandOf(t).cmd = step[t]
    BY DEF ModemInv, ModemTypeInv, CommandOf
  <2>2. CommandOf(t).cmd # "-"
    BY <2>1 DEF Mod!Commands
  <2>3. QED
    BY <1>1, <1>3, <2>2, OnlyOne DEF Written
<1>4. PICK t \in awaits, a \in Lines : Answered(t, a)
  BY <1>2, <1>3, Zenon DEF ModemInv, ExchangeInv, UnderWay, Nothing, Heard, Ended
<1>5. LineFor(t, a).cmd = "-" /\ LineFor(t, a).of = t /\ LineFor(t, a).line = a
  BY DEF LineFor
<1>6. Mod!LinesOnWire = {1} /\ Mod!First({1}) = 1 /\ Mod!Without(1) = << >> /\ wire[1] = LineFor(t, a)
  BY <1>4, <1>5, OnlyOne DEF Answered
<1>7. QED
  BY <1>4, <1>5, <1>6 DEF Mod!RxRead

-----------------------------------------------------------------------------
(* The steps that leave the tasks alone: the modem and the receiving task *)

LEMMA TasksKept ==
    ASSUME ModemInv, UNCHANGED << step, saved, dceMode, redo, awaits, both >>, RxIsRecord'
    PROVE  ModemTypeInv' /\ OneActs' /\ ModeInv'
  BY DEF ModemInv, ModemTypeInv, OneActs, ModeInv

\* A task that waits for its answer is the only one.
LEMMA OneAwaits ==
    ASSUME ModemInv, ~both, NEW t \in awaits
    PROVE  /\ t \in Mod!Tasks /\ step[t] \in Mod!Commands /\ awaits = {t}
           /\ \A u \in Mod!Tasks : u # t => step[u] \in Inactive
<1>1. t \in Mod!Tasks /\ step[t] \in Mod!Commands
  BY DEF ModemInv, ModemTypeInv
<1>2. step[t] \notin Inactive
  BY <1>1 DEF Mod!Commands, Inactive
<1>3. QED
  BY <1>1, <1>2, OthersRest DEF ModemInv

\* What RealInv says when only t acts.
LEMMA RealOfOne ==
    ASSUME NEW t \in Mod!Tasks, \A u \in Mod!Tasks : u # t => step[u] \in Inactive
    PROVE  RealInv <=> (~late /\ ~both /\ real # "command" =>
                          /\ dceMode = "ppp" \/ step[t] \in Calls \cup {"esc"}
                          /\ step[t] \in Calls => Connects(t)
                          /\ step[t] = "esc" => Nothing \/ Written(t))
  BY DEF RealInv, Inactive, Calls

LEMMA ModemAnswer == ModemInv /\ Mod!Answer => ModemInv'
<1> SUFFICES ASSUME ModemInv, Mod!Answer
             PROVE  ModemInv'
  OBVIOUS
<1>1. UNCHANGED << step, saved, dceMode, redo, awaits, both, handler, state, done, doneOf, rx, late, mixup >>
  BY DEF Mod!Answer, Mod!dial
<1>2. ModemTypeInv' /\ OneActs' /\ ModeInv'
  BY <1>1, TasksKept DEF RxIsRecord, ModemInv, ModemTypeInv
<1>3. ASSUME ~late, ~both
      PROVE  ExchangeInv' /\ RealInv'
  <2>1. PICK t \in awaits :
              /\ Written(t)
              /\ \/ \E a \in Mod!AnswersTo(step[t]) :
                       /\ wire' = << LineFor(t, a) >>
                       /\ real' = IF a = "CONNECT" THEN "data"
                                  ELSE IF step[t] \in {"esc", "recesc"} THEN "command" ELSE real
                 \/ wire' = << >> /\ real' = real
    BY <1>3, AnswerTakes
  <2>2. t \in Mod!Tasks /\ awaits = {t} /\ \A u \in Mod!Tasks : u # t => step[u] \in Inactive
    BY <1>3, OneAwaits
  <2>3. ~mixup /\ \A u \in awaits : handler = Mod!HandlerOf(step[u])
    BY <1>3 DEF ModemInv, ExchangeInv
  <2>4. rx.pc = "read" /\ ~done
    BY <2>1 DEF Written
  <2>5. real # "command" => /\ dceMode = "ppp" \/ step[t] = "esc"
                         /\ step[t] \notin Calls
    BY <1>3, <2>1, <2>2, RealOfOne DEF ModemInv, Connects, Calls
  <2>6. ASSUME NEW a \in Mod!AnswersTo(step[t]), wire' = << LineFor(t, a) >>,
               real' = IF a = "CONNECT" THEN "data"
                       ELSE IF step[t] \in {"esc", "recesc"} THEN "command" ELSE real
        PROVE  ExchangeInv' /\ RealInv'
    <3>1. a \in Lines /\ (a = "CONNECT" => step[t] \in Calls)
      BY DEF Mod!AnswersTo, Lines, Calls
    <3>2. ExchangeInv'
      BY <1>1, <2>3, <2>4, <2>6, <3>1, Zenon DEF ExchangeInv, UnderWay, Answered, LineFor
    <3>3. CASE a = "CONNECT"
      <4>1. wire' # << CommandOf(t)' >>
        <5>1. << LineFor(t, a) >>[1].cmd = "-" /\ << CommandOf(t)' >>[1].cmd = step[t] /\ step[t] # "-"
          BY <1>1, <3>1, <3>3 DEF LineFor, CommandOf, Calls
        <5>2. QED
          BY ONLY <2>6, <5>1
      <4>2. \A b : wire' = << LineFor(t, b) >> => b = a
        <5>1. \A b : << LineFor(t, b) >>[1].line = b
          BY DEF LineFor
        <5>2. QED
          BY ONLY <2>6, <5>1
      <4>3. Connects(t)'
        BY <1>1, <2>2, <2>4, <3>3, <4>1, <4>2 DEF Connects, Written, Answered, LineFor
      <4>4. step[t] \in Calls
        BY <3>1, <3>3
      <4>5. QED
        BY <1>1, <2>2, <3>2, <4>3, <4>4 DEF RealInv, Inactive, Calls
    <3>4. CASE a # "CONNECT"
      <4>1. real' # "command" => real # "command" /\ step[t] # "esc"
        BY <2>6, <3>4
      <4>2. real' # "command" => dceMode = "ppp" /\ step[t] \notin Calls \cup {"esc"}
        BY <2>5, <4>1
      <4>3. QED
        BY <1>1, <2>2, <3>2, <4>2 DEF RealInv, Inactive, Calls
    <3>5. QED
      BY <3>3, <3>4
  <2>7. ASSUME wire' = << >>, real' = real
        PROVE  ExchangeInv' /\ RealInv'
    <3>1. Nothing'
      BY <1>1, <2>4, <2>7 DEF Nothing
    <3>2. QED
      BY <1>1, <2>2, <2>3, <2>5, <2>7, <3>1 DEF ExchangeInv, RealInv, Inactive, Calls
  <2>8. QED
    BY <2>1, <2>6, <2>7
<1>4. QED
  BY <1>1, <1>2, <1>3 DEF ModemInv, ExchangeInv, RealInv

LEMMA ModemRead == ModemInv /\ Mod!RxRead => ModemInv'
<1> SUFFICES ASSUME ModemInv, Mod!RxRead
             PROVE  ModemInv'
  OBVIOUS
<1>1. UNCHANGED << step, saved, dceMode, redo, awaits, both, handler, state, done, doneOf, real, late, mixup >>
  BY DEF Mod!RxRead, Mod!dial
<1>2. ModemTypeInv' /\ OneActs' /\ ModeInv'
  <2>1. RxIsRecord'
    BY DEF Mod!RxRead, Mod!NoLine, RxIsRecord, ModemInv, ModemTypeInv
  <2>2. QED
    BY <1>1, <2>1, TasksKept
<1>3. ASSUME ~late, ~both
      PROVE  ExchangeInv' /\ RealInv'
  <2>1. PICK t \in awaits, a \in Lines :
              /\ Answered(t, a)
              /\ wire' = << >>
              /\ \/ rx' = Mod!NoLine
                 \/ rx' = [pc |-> "check", of |-> t, line |-> a]
    BY <1>3, ReadTakes
  <2>2. t \in Mod!Tasks /\ awaits = {t} /\ step[t] \in Mod!Commands /\ \A u \in Mod!Tasks : u # t => step[u] \in Inactive
    BY <1>3, OneAwaits
  <2>3. ~mixup /\ \A u \in awaits : handler = Mod!HandlerOf(step[u])
    BY <1>3 DEF ModemInv, ExchangeInv
  <2>4. rx.pc = "read" /\ ~done /\ wire = << LineFor(t, a) >>
    BY <2>1 DEF Answered
  <2>5. wire # << >> /\ wire # << CommandOf(t) >>
    <3>1. << LineFor(t, a) >>[1].cmd = "-" /\ << CommandOf(t) >>[1].cmd = step[t] /\ step[t] # "-"
      BY <2>2 DEF LineFor, CommandOf, Mod!Commands
    <3>2. QED
      BY ONLY <2>4, <3>1
  <2>6. real # "command" => /\ dceMode = "ppp" \/ step[t] \in Calls
                            /\ step[t] \in Calls => a = "CONNECT"
                            /\ step[t] # "esc"
    BY <1>3, <2>1, <2>2, <2>5, RealOfOne DEF ModemInv, Connects, Nothing, Written
  <2>7. wire' # << CommandOf(t)' >> /\ \A b : wire' # << LineFor(t, b) >>
    BY ONLY <2>1
  <2>8. \A u \in Mod!Tasks : u # t => step'[u] \in Inactive
    BY <1>1, <2>2
  <2>9. CASE rx' = Mod!NoLine
    <3>1. Nothing' /\ rx'.pc = "read" /\ ~done'
      BY <1>1, <2>1, <2>4, <2>9 DEF Nothing, Mod!NoLine
    <3>2. Connects(t)'
      BY <1>1, <2>2, <2>7, <3>1 DEF Connects, Written, Answered, LineFor
    <3>3. QED
      BY <1>1, <2>2, <2>3, <2>6, <3>1, <3>2 DEF ExchangeInv, RealInv, Inactive, Calls
  <2>10. CASE rx' = [pc |-> "check", of |-> t, line |-> a]
    <3>1. rx'.pc = "check" /\ rx'.of = t /\ rx'.line = a /\ ~done'
      BY <1>1, <2>4, <2>10
    <3>2. UnderWay(t)'
      BY <2>1, <3>1 DEF UnderWay, Heard
    <3>3. a = "CONNECT" => Connects(t)'
      BY <1>1, <2>2, <2>7, <3>1 DEF Connects, Written, Answered, LineFor
    <3>4. QED
      BY <1>1, <2>2, <2>3, <2>6, <3>2, <3>3 DEF ExchangeInv, RealInv, Inactive, Calls
  <2>11. QED
    BY <2>1, <2>9, <2>10
<1>4. QED
  BY <1>1, <1>2, <1>3 DEF ModemInv, ExchangeInv, RealInv

\* While the receiving task has a line, nothing else is under way.
LEMMA LineIsHeard ==
    ASSUME ModemInv, ~late, ~both, rx.pc # "read"
    PROVE  \E t \in Mod!Tasks :
              /\ awaits = {t} /\ Heard(t) /\ ~mixup /\ handler = Mod!HandlerOf(step[t])
              /\ \A u \in Mod!Tasks : u # t => step[u] \in Inactive
              /\ real # "command" => /\ dceMode = "ppp" \/ step[t] \in Calls
                                     /\ step[t] \in Calls => Connects(t)
                                     /\ step[t] # "esc"
<1>1. PICK t \in awaits : UnderWay(t)
  BY Zenon DEF ModemInv, ExchangeInv, Nothing
<1>2. Heard(t)
  BY <1>1, Zenon DEF UnderWay, Written, Answered, Ended
<1>3. t \in Mod!Tasks /\ awaits = {t} /\ \A u \in Mod!Tasks : u # t => step[u] \in Inactive
  BY OneAwaits
<1>4. ~mixup /\ handler = Mod!HandlerOf(step[t])
  BY DEF ModemInv, ExchangeInv
<1>5. ~Nothing /\ ~Written(t)
  BY DEF Nothing, Written
<1>6. real # "command" => /\ dceMode = "ppp" \/ step[t] \in Calls
                          /\ step[t] \in Calls => Connects(t)
                          /\ step[t] # "esc"
  BY <1>3, <1>5, RealOfOne DEF ModemInv
<1>7. QED
  BY <1>2, <1>3, <1>4, <1>6

\* A line is dropped, or goes on to the next step of the receiving task.
LEMMA LineGoesOn ==
    ASSUME ModemInv, rx.pc # "read", RxIsRecord',
           UNCHANGED << step, saved, dceMode, redo, awaits, both, handler, wire, real, late, mixup >>,
           \/ rx'.pc = "read" /\ UNCHANGED << done, doneOf >>
           \/ /\ rx'.pc \in {"check", "call", "bit"} /\ rx'.of = rx.of /\ rx'.line = rx.line
              /\ UNCHANGED << done, doneOf >>
           \/ rx'.pc = "read" /\ done' = TRUE /\ doneOf' = rx.of,
           rx'.pc \in {"check", "call"} => rx.pc = "check",
           \A t \in Mod!Tasks :
              ~done /\ step[t] \in Calls /\ Connects(t) /\ handler = Mod!HandlerOf(step[t])
              => (rx'.pc = "bit" \/ done' => state' = "success")
    PROVE  ModemInv'
<1>1. ModemTypeInv' /\ OneActs' /\ ModeInv'
  BY TasksKept
<1>2. ASSUME ~late, ~both
      PROVE  ExchangeInv' /\ RealInv'
  <2>1. PICK t \in Mod!Tasks :
              /\ awaits = {t} /\ Heard(t) /\ ~mixup /\ handler = Mod!HandlerOf(step[t])
              /\ \A u \in Mod!Tasks : u # t => step[u] \in Inactive
              /\ real # "command" => /\ dceMode = "ppp" \/ step[t] \in Calls
                                     /\ step[t] \in Calls => Connects(t)
                                     /\ step[t] # "esc"
    BY <1>2, LineIsHeard
  <2>2. wire' = << >> /\ rx.of = t /\ ~done
    BY <2>1 DEF Heard
  <2>3. Nothing' \/ Heard(t)' \/ Ended(t)'
    BY <2>2 DEF Nothing, Heard, Ended
  <2>4. ExchangeInv'
    BY <2>1, <2>3 DEF ExchangeInv, UnderWay
  <2>5. ASSUME Connects(t), step[t] \in Calls
        PROVE  Connects(t)'
    <3>1. wire' # << CommandOf(t)' >> /\ \A b : wire' # << LineFor(t, b) >>
      BY ONLY <2>2
    <3>2. rx'.pc = "bit" \/ done' => state' = "success"
      BY <2>1, <2>2, <2>5
    <3>3. rx'.pc \in {"check", "call"} => rx'.line = "CONNECT"
      BY <2>5 DEF Connects
    <3>4. QED
      BY <2>1, <3>1, <3>2, <3>3 DEF Connects, Written, Answered, LineFor
  <2>6. step'[t] = step[t] /\ \A u \in Mod!Tasks : u # t => step'[u] \in Inactive
    BY <2>1
  <2>7. QED
    BY <2>1, <2>4, <2>5, <2>6 DEF RealInv, Inactive, Calls
<1>3. QED
  BY <1>1, <1>2 DEF ModemInv, ExchangeInv, RealInv

LEMMA ModemCheck == ModemInv /\ Mod!RxCheck => ModemInv'
<1> SUFFICES ASSUME ModemInv, Mod!RxCheck
             PROVE  ModemInv'
  OBVIOUS
<1>1. /\ rx.pc = "check"
      /\ UNCHANGED << step, saved, dceMode, redo, awaits, both, handler, wire, real, late, mixup, done, doneOf >>
      /\ rx' = Mod!NoLine \/ rx' = [rx EXCEPT !.pc = "call"]
  BY DEF Mod!RxCheck, Mod!dial
<1>2. \/ rx' = Mod!NoLine
      \/ rx' = [pc |-> "call", of |-> rx.of, line |-> rx.line]
  BY <1>1 DEF ModemInv, ModemTypeInv, RxIsRecord
<1>3. RxIsRecord' /\ (rx'.pc = "read" \/ (rx'.pc = "call" /\ rx'.of = rx.of /\ rx'.line = rx.line))
  BY <1>2 DEF RxIsRecord, Mod!NoLine
<1>4. QED
  BY <1>1, <1>3, LineGoesOn

LEMMA ModemCall == ModemInv /\ Mod!RxCall => ModemInv'
<1> SUFFICES ASSUME ModemInv, Mod!RxCall
             PROVE  ModemInv'
  OBVIOUS
<1>1. /\ rx.pc = "call"
      /\ UNCHANGED << step, saved, dceMode, redo, awaits, both, handler, wire, real, late, mixup, done, doneOf >>
      /\ \/ /\ rx' = [rx EXCEPT !.pc = "bit"]
            /\ state' = IF rx.line \in Mod!Successes(handler) THEN "success" ELSE "fail"
         \/ rx' = Mod!NoLine
  BY DEF Mod!RxCall, Mod!dial
<1>2. \/ rx' = Mod!NoLine
      \/ rx' = [pc |-> "bit", of |-> rx.of, line |-> rx.line]
  BY <1>1 DEF ModemInv, ModemTypeInv, RxIsRecord
<1>3. RxIsRecord' /\ (rx'.pc = "read" \/ (rx'.pc = "bit" /\ rx'.of = rx.of /\ rx'.line = rx.line))
  BY <1>2 DEF RxIsRecord, Mod!NoLine
<1>4. ASSUME NEW t \in Mod!Tasks, step[t] \in Calls, Connects(t), handler = Mod!HandlerOf(step[t]), rx'.pc = "bit"
      PROVE  state' = "success"
  <2>1. rx.line = "CONNECT" /\ handler = "atd_ppp"
    BY <1>1, <1>4 DEF Connects, Calls, Mod!HandlerOf
  <2>2. rx.line \in Mod!Successes(handler)
    BY <2>1 DEF Mod!Successes
  <2>3. rx' # Mod!NoLine
    BY <1>4 DEF Mod!NoLine
  <2>4. QED
    BY <1>1, <2>2, <2>3
<1>5. QED
  BY <1>1, <1>3, <1>4, LineGoesOn

LEMMA ModemBit == ModemInv /\ Mod!RxBit => ModemInv'
<1> SUFFICES ASSUME ModemInv, Mod!RxBit
             PROVE  ModemInv'
  OBVIOUS
<1>1. /\ rx.pc = "bit" /\ rx' = Mod!NoLine /\ done' = TRUE /\ doneOf' = rx.of
      /\ UNCHANGED << step, saved, dceMode, redo, awaits, both, handler, wire, real, late, mixup, state >>
  BY DEF Mod!RxBit, Mod!dial
<1>2. RxIsRecord' /\ rx'.pc = "read"
  BY <1>1 DEF RxIsRecord, Mod!NoLine
<1>3. ASSUME NEW t \in Mod!Tasks, Connects(t)
      PROVE  state' = "success"
  BY <1>1, <1>3 DEF Connects
<1>4. QED
  BY <1>1, <1>2, <1>3, LineGoesOn

-----------------------------------------------------------------------------
(* The steps of the tasks that leave the exchange alone *)

\* What a task does that does not wait: the other does nothing, so nothing is under way.
LEMMA NoneAwaits ==
    ASSUME ModemInv, ~both, NEW t \in Mod!Tasks, step[t] \notin Inactive, t \notin awaits
    PROVE  /\ awaits = {} /\ \A u \in Mod!Tasks : u # t => step[u] \in Inactive
           /\ ~late => Nothing
  BY OthersRest DEF ModemInv, ExchangeInv

LEMMA ExchangeKept ==
    ASSUME ModemInv, UNCHANGED << handler, state, done, doneOf, awaits, wire, rx, late, mixup >>,
           ~both' => ~both, \A t \in awaits : step'[t] = step[t]
    PROVE  ExchangeInv'
<1>1. \A t \in awaits : UnderWay(t) => UnderWay(t)'
  BY DEF UnderWay, Written, Answered, Heard, Ended, CommandOf, LineFor
<1>2. QED
  BY <1>1 DEF ModemInv, ExchangeInv, Nothing

Calm == ModemSteps \ Mod!Commands

\* A task goes from one step between commands to another.
LEMMA CalmMove ==
    ASSUME ModemInv, NEW t \in Mod!Tasks, NEW s \in Calm, step[t] \in Calm, step[t] \notin Inactive \/ s \in Inactive,
           step' = [step EXCEPT ![t] = s],
           UNCHANGED << dceMode, saved, redo, both, real, handler, state, done, doneOf, awaits, wire, rx, late, mixup >>
    PROVE  ModemInv'
<1>1. /\ \A u \in Mod!Tasks : step'[u] = IF u = t THEN s ELSE step[u]
      /\ step' \in [Mod!Tasks -> ModemSteps] /\ t \notin awaits /\ awaits \subseteq Mod!Tasks
  BY DEF Calm, ModemInv, ModemTypeInv
<1>2. ModemTypeInv'
  BY <1>1 DEF ModemInv, ModemTypeInv, RxIsRecord
<1>3. OneActs'
  BY <1>1 DEF ModemInv, OneActs, Mod!Tasks
<1>4. ~(step[t] \in Dialling \cup Leaving \cup {"hangup"}) /\ ~(s \in Dialling \cup Leaving \cup {"hangup"})
  BY DEF Calm, Dialling, Leaving, Mod!Commands
<1>5. ModeInv'
  BY <1>1, <1>4 DEF ModemInv, ModeInv
<1>6. ExchangeInv'
  BY <1>1, ExchangeKept
<1>7. RealInv'
  <2>1. step[t] \notin Calls \cup {"esc"} /\ s \notin Calls \cup {"esc"}
    BY DEF Calm, Calls, Mod!Commands
  <2>2. \A u \in Mod!Tasks : u # t => (Connects(u) => Connects(u)') /\ (Nothing \/ Written(u) => Nothing' \/ Written(u)')
    BY <1>1 DEF Connects, Nothing, Written, Answered, CommandOf, LineFor
  <2>3. QED
    BY <1>1, <2>1, <2>2 DEF ModemInv, RealInv
<1>8. QED
  BY <1>2, <1>3, <1>5, <1>6, <1>7 DEF ModemInv

\* Between the commands of a task that acts alone the mode is not in transition, and the
\* modem is in data mode only if the driver is.
LEMMA CalmModes ==
    ASSUME ModemInv, ~both, NEW t \in Mod!Tasks, step[t] \in Calm \ Inactive
    PROVE  /\ dceMode # "transition"
           /\ ~late /\ real # "command" => dceMode = "ppp"
<1>1. \A u \in Mod!Tasks : u # t => step[u] \in Inactive
  BY NoneAwaits DEF ModemInv, ModemTypeInv, Calm
<1>2. \A u \in Mod!Tasks : step[u] \notin Dialling \cup Leaving
  BY <1>1 DEF Calm, Dialling, Leaving, Inactive, Mod!Commands
<1>3. QED
  BY <1>2 DEF ModemInv, ModeInv, RealInv, Dialling, Leaving, Calls

LEMMA ModemStart == ASSUME ModemInv, NEW t \in Mod!Tasks, Mod!Start(t) PROVE ModemInv'
<1>1. /\ step[t] = "start" /\ step[t] \in Calm \ Inactive /\ step[t] \notin Mod!Commands
      /\ UNCHANGED << redo, both, real, handler, state, done, doneOf, awaits, wire, rx, late, mixup >>
  BY DEF Mod!Start, Mod!exch, Mod!dial, Calm, ModemSteps, Inactive, Mod!Commands
<1>2. CASE dceMode = "ppp"
  <2>1. "startfailed" \in Calm
    BY DEF Calm, ModemSteps, Mod!Commands
  <2>2. step' = [step EXCEPT ![t] = "startfailed"] /\ UNCHANGED << dceMode, saved >>
    BY <1>2 DEF Mod!Start, Mod!Goto
  <2>3. QED
    BY <1>1, <2>1, <2>2, CalmMove
<1>3. CASE dceMode # "ppp"
  <2>1. /\ step' = [step EXCEPT ![t] = "pdp"] /\ saved' = [saved EXCEPT ![t] = dceMode] /\ dceMode' = "transition"
    BY <1>3 DEF Mod!Start, Mod!Goto
  <2>2. /\ \A u \in Mod!Tasks : step'[u] = IF u = t THEN "pdp" ELSE step[u]
        /\ \A u \in Mod!Tasks : saved'[u] = IF u = t THEN dceMode ELSE saved[u]
        /\ step' \in [Mod!Tasks -> ModemSteps]
    BY <2>1 DEF ModemInv, ModemTypeInv, ModemSteps, Mod!Commands
  <2>3. t \notin awaits /\ awaits \subseteq Mod!Tasks
    BY <1>1 DEF ModemInv, ModemTypeInv
  <2>4. ModemTypeInv'
    BY <1>1, <2>1, <2>2, <2>3 DEF ModemInv, ModemTypeInv, RxIsRecord
  <2>5. OneActs'
    BY <1>1, <2>2 DEF ModemInv, OneActs, Mod!Tasks
  <2>6. ASSUME ~both
        PROVE  /\ \A u \in Mod!Tasks : u # t => step[u] \in Inactive
               /\ dceMode = "command" /\ (~late => real = "command")
    BY <1>1, <1>3, <2>3, <2>6, NoneAwaits, CalmModes DEF ModemInv, ModemTypeInv
  <2>7. ModeInv'
    BY <1>1, <2>1, <2>2, <2>6 DEF ModeInv, Inactive, Dialling, Leaving
  <2>8. ExchangeInv'
    BY <1>1, <2>2, <2>3, ExchangeKept
  <2>9. RealInv'
    BY <1>1, <2>6 DEF RealInv
  <2>10. QED
    BY <2>4, <2>5, <2>7, <2>8, <2>9 DEF ModemInv
<1>4. QED
  BY <1>2, <1>3

LEMMA ModemStop == ASSUME ModemInv, NEW t \in Mod!Tasks, Mod!Stop(t) PROVE ModemInv'
<1>1. /\ step[t] = "stop" /\ step[t] \in Calm \ Inactive /\ step[t] \notin Mod!Commands
      /\ UNCHANGED << redo, both, real, handler, state, done, doneOf, awaits, wire, rx, late, mixup >>
  BY DEF Mod!Stop, Mod!exch, Mod!dial, Calm, ModemSteps, Inactive, Mod!Commands
<1>2. CASE dceMode = "command"
  <2>1. "start" \in Calm
    BY DEF Calm, ModemSteps, Mod!Commands
  <2>2. step' = [step EXCEPT ![t] = "start"] /\ UNCHANGED << dceMode, saved >>
    BY <1>2 DEF Mod!Stop, Mod!Goto
  <2>3. QED
    BY <1>1, <2>1, <2>2, CalmMove
<1>3. CASE dceMode # "command"
  <2>1. /\ step' = [step EXCEPT ![t] = "esc"] /\ saved' = [saved EXCEPT ![t] = dceMode] /\ dceMode' = "transition"
    BY <1>3 DEF Mod!Stop, Mod!Goto
  <2>2. /\ \A u \in Mod!Tasks : step'[u] = IF u = t THEN "esc" ELSE step[u]
        /\ \A u \in Mod!Tasks : saved'[u] = IF u = t THEN dceMode ELSE saved[u]
        /\ step' \in [Mod!Tasks -> ModemSteps]
    BY <2>1 DEF ModemInv, ModemTypeInv, ModemSteps, Mod!Commands
  <2>3. t \notin awaits /\ awaits \subseteq Mod!Tasks
    BY <1>1 DEF ModemInv, ModemTypeInv
  <2>4. ModemTypeInv'
    BY <1>1, <2>1, <2>2, <2>3 DEF ModemInv, ModemTypeInv, RxIsRecord
  <2>5. OneActs'
    BY <1>1, <2>2 DEF ModemInv, OneActs, Mod!Tasks
  <2>6. ASSUME ~both
        PROVE  /\ \A u \in Mod!Tasks : u # t => step[u] \in Inactive
               /\ dceMode = "ppp" /\ (~late => Nothing)
    BY <1>1, <1>3, <2>3, <2>6, NoneAwaits, CalmModes DEF ModemInv, ModemTypeInv
  <2>7. ModeInv'
    BY <1>1, <2>1, <2>2, <2>6 DEF ModeInv, Inactive, Dialling, Leaving
  <2>8. ExchangeInv'
    BY <1>1, <2>2, <2>3, ExchangeKept
  <2>9. RealInv'
    BY <1>1, <2>2, <2>6 DEF RealInv, Nothing, Inactive, Calls
  <2>10. QED
    BY <2>4, <2>5, <2>7, <2>8, <2>9 DEF ModemInv
<1>4. QED
  BY <1>2, <1>3

LEMMA ModemSettles ==
    ASSUME ModemInv, NEW t \in Mod!Tasks, Mod!Stopped(t) \/ Mod!StartFailed(t) \/ Mod!Started(t)
    PROVE  ModemInv'
<1>1. /\ step[t] \in {"stopped", "startfailed", "started"}
      /\ \E s \in {"start", "idle", "stop", "restart", "connect"} : step' = [step EXCEPT ![t] = s]
      /\ UNCHANGED << dceMode, saved, redo, both, real, handler, state, done, doneOf, awaits, wire, rx, late, mixup >>
  BY DEF Mod!Stopped, Mod!StartFailed, Mod!Started, Mod!Goto, Mod!exch, Mod!dial
<1>2. /\ {"stopped", "startfailed", "started"} \subseteq Calm \ Inactive
      /\ {"start", "idle", "stop", "restart", "connect"} \subseteq Calm
  BY DEF Calm, ModemSteps, Inactive, Mod!Commands
<1>3. QED
  BY <1>1, <1>2, CalmMove

LEMMA ModemConnected == ASSUME ModemInv, Mod!Connected PROVE ModemInv'
<1>1. /\ step["init"] = "connect" /\ step' = [step EXCEPT !["init"] = "idle"]
      /\ UNCHANGED << dceMode, saved, redo, both, real, handler, state, done, doneOf, awaits, wire, rx, late, mixup >>
  BY DEF Mod!Connected, Mod!Goto, Mod!exch, Mod!dial
<1>2. {"idle", "connect"} \subseteq Calm /\ "idle" \in Inactive /\ "init" \in Mod!Tasks
  BY DEF Calm, ModemSteps, Inactive, Mod!Commands, Mod!Tasks
<1>3. QED
  BY <1>1, <1>2, CalmMove

LEMMA ModemGotIp == ModemInv /\ (Mod!GotIp \/ UNCHANGED modemVars) => ModemInv'
<1> SUFFICES ASSUME ModemInv, Mod!GotIp \/ UNCHANGED modemVars
             PROVE  ModemInv'
  OBVIOUS
<1>1. UNCHANGED << dceMode, step, saved, redo, both, real, handler, state, done, doneOf, awaits, wire, rx, late, mixup >>
  BY DEF Mod!GotIp, Mod!exch, Mod!dial, modemVars
<1>2. ModemTypeInv' /\ OneActs' /\ ModeInv'
  BY <1>1, TasksKept DEF RxIsRecord, ModemInv, ModemTypeInv
<1>3. ExchangeInv'
  BY <1>1, ExchangeKept
<1>4. RealInv'
  BY <1>1 DEF ModemInv, RealInv, Connects, Nothing, Written, Answered, CommandOf, LineFor
<1>5. QED
  BY <1>2, <1>3, <1>4 DEF ModemInv

LEMMA ModemLostIp == ASSUME ModemInv, Mod!LostIp PROVE ModemInv'
<1>1. /\ step["events"] = "idle" /\ step' = [step EXCEPT !["events"] = "stop"]
      /\ real' \in {real, "command"} /\ both' = (both \/ step["init"] \notin Inactive)
      /\ UNCHANGED << dceMode, saved, redo, handler, state, done, doneOf, awaits, wire, rx, late, mixup >>
  BY DEF Mod!LostIp, Mod!Goto, Mod!exch, Mod!dial, Inactive
<1>2. /\ \A u \in Mod!Tasks : step'[u] = IF u = "events" THEN "stop" ELSE step[u]
      /\ step' \in [Mod!Tasks -> ModemSteps] /\ "events" \notin awaits /\ awaits \subseteq Mod!Tasks
  BY <1>1 DEF ModemInv, ModemTypeInv, ModemSteps, Mod!Commands
<1>3. ModemTypeInv'
  BY <1>1, <1>2 DEF ModemInv, ModemTypeInv, RxIsRecord
<1>4. OneActs'
  BY <1>1, <1>2 DEF ModemInv, OneActs, Mod!Tasks
<1>5. ModeInv'
  BY <1>1, <1>2 DEF ModemInv, ModeInv, Dialling, Leaving
<1>6. ExchangeInv'
  BY <1>1, <1>2, ExchangeKept
<1>7. RealInv'
  <2>1. \A u \in Mod!Tasks : u # "events" => (Connects(u) => Connects(u)') /\ (Nothing \/ Written(u) => Nothing' \/ Written(u)')
    BY <1>1, <1>2 DEF Connects, Nothing, Written, Answered, CommandOf, LineFor
  <2>2. QED
    BY <1>1, <1>2, <2>1 DEF ModemInv, RealInv, Calls
<1>8. QED
  BY <1>3, <1>4, <1>5, <1>6, <1>7 DEF ModemInv

-----------------------------------------------------------------------------
(* Commands *)

LEMMA ModemBoardPin == ASSUME ModemInv, NEW t \in Mod!Tasks, Mod!BoardPin(t) PROVE ModemInv'
<1>1. /\ step[t] \in {"reset", "powerdown"} /\ real' = "command"
      /\ step' = [step EXCEPT ![t] = IF step[t] = "reset" THEN redo ELSE "escsync"]
      /\ UNCHANGED << dceMode, saved, redo, both, state, done, doneOf, awaits, wire, rx, late, mixup >>
  BY DEF Mod!BoardPin, Mod!Goto, Mod!dial
<1>2. PICK s \in {"sync", "store", "escsync"} : step' = [step EXCEPT ![t] = s]
  BY <1>1 DEF ModemInv, ModemTypeInv
<1>3. /\ \A u \in Mod!Tasks : step'[u] = IF u = t THEN s ELSE step[u]
      /\ step' \in [Mod!Tasks -> ModemSteps] /\ step[t] \notin Mod!Commands /\ step[t] \notin Inactive
  BY <1>1, <1>2 DEF ModemInv, ModemTypeInv, ModemSteps, Mod!Commands, Inactive
<1>4. t \notin awaits /\ awaits \subseteq Mod!Tasks
  BY <1>3 DEF ModemInv, ModemTypeInv
<1>5. ModemTypeInv'
  BY <1>1, <1>3, <1>4 DEF ModemInv, ModemTypeInv, RxIsRecord
<1>6. OneActs'
  BY <1>1, <1>3 DEF ModemInv, OneActs, Mod!Tasks
<1>7. ModeInv'
  BY <1>1, <1>2, <1>3 DEF ModemInv, ModeInv, Dialling, Leaving
<1>8. ExchangeInv'
  <2>1. ASSUME ~late, ~both
        PROVE  ~mixup /\ awaits = {} /\ Nothing
    BY <1>3, <1>4, <2>1, NoneAwaits DEF ModemInv, ExchangeInv
  <2>2. QED
    BY <1>1, <2>1 DEF ExchangeInv, Nothing
<1>9. RealInv'
  BY <1>1 DEF RealInv
<1>10. QED
  BY <1>5, <1>6, <1>7, <1>8, <1>9 DEF ModemInv

LEMMA ModemSend == ASSUME ModemInv, NEW t \in Mod!Tasks, Mod!Send(t) PROVE ModemInv'
<1>1. /\ step[t] \in Mod!Commands /\ t \notin awaits /\ step[t] \notin Inactive
      /\ handler' = Mod!HandlerOf(step[t]) /\ wire' = Append(wire, CommandOf(t)) /\ awaits' = awaits \cup {t}
      /\ UNCHANGED << dceMode, step, saved, redo, both, real, done, doneOf, rx, late, mixup >>
  BY DEF Mod!Send, Mod!dial, CommandOf, Mod!Commands, Inactive
<1>2. ModemTypeInv' /\ OneActs' /\ ModeInv'
  BY <1>1 DEF ModemInv, ModemTypeInv, OneActs, ModeInv, RxIsRecord
<1>3. ASSUME ~late, ~both
      PROVE  ExchangeInv' /\ RealInv'
  <2>1. awaits = {} /\ Nothing /\ \A u \in Mod!Tasks : u # t => step[u] \in Inactive
    BY <1>1, <1>3, NoneAwaits
  <2>2. wire' = << CommandOf(t) >> /\ rx'.pc = "read" /\ ~done' /\ awaits' = {t}
    <3>1. Append(<< >>, CommandOf(t)) = << CommandOf(t) >>
      OBVIOUS
    <3>2. QED
      BY <1>1, <2>1, <3>1 DEF Nothing
  <2>3. Written(t)'
    BY <1>1, <2>2 DEF Written, CommandOf
  <2>4. ExchangeInv'
    BY <1>1, <1>3, <2>2, <2>3 DEF ModemInv, ExchangeInv, UnderWay
  <2>5. real # "command" => step[t] \notin Calls
    BY <1>1, <1>3, <2>1, RealOfOne DEF ModemInv, Connects
  <2>6. RealInv'
    BY <1>1, <1>3, <2>1, <2>3, <2>5 DEF ModemInv, RealInv, Inactive, Calls
  <2>7. QED
    BY <2>4, <2>6
<1>4. QED
  BY <1>1, <1>2, <1>3 DEF ModemInv, ExchangeInv, RealInv

\* The end of a command: with its own answer, and what the driver does not know of the modem
\* then is that it connects.
LEMMA CommandEnds ==
    ASSUME ModemInv, ~late, ~both, NEW t \in Mod!Tasks, NEW r \in {"ok", "fail"}, Mod!Complete(t, r)
    PROVE  /\ ~mixup' /\ ~late' /\ awaits' = {} /\ Nothing' /\ awaits = {t}
           /\ \A u \in Mod!Tasks : u # t => step[u] \in Inactive
           /\ real # "command" => /\ dceMode = "ppp" \/ step[t] \in Calls
                                  /\ step[t] \in Calls => r = "ok"
                                  /\ step[t] # "esc"
<1>1. /\ t \in awaits /\ done /\ done' = FALSE /\ r = (IF state = "fail" THEN "fail" ELSE "ok")
      /\ mixup' = (mixup \/ doneOf # t) /\ late' = late /\ awaits' = awaits \ {t}
      /\ Mod!Forget(t)
  BY DEF Mod!Complete, Mod!BitAfterWait
<1>2. awaits = {t} /\ \A u \in Mod!Tasks : u # t => step[u] \in Inactive
  BY <1>1, OneAwaits
<1>3. UnderWay(t) /\ ~mixup
  BY <1>1, <1>2 DEF ModemInv, ExchangeInv, Nothing
<1>4. wire = << >> /\ rx.pc = "read" /\ doneOf = t
  BY <1>1, <1>3, Zenon DEF UnderWay, Written, Answered, Heard, Ended
<1>5. wire' = << >>
  <2>1. wire' = [n \in 1 .. Len(wire) |-> IF wire[n].of = t THEN [wire[n] EXCEPT !.of = "old"] ELSE wire[n]]
    BY <1>1 DEF Mod!Forget, Mod!Old
  <2>2. 1 .. Len(wire) = {}
    BY <1>4
  <2>3. QED
    BY <1>4, <2>1, <2>2
<1>6. rx'.pc = "read"
  BY <1>1, <1>4 DEF Mod!Forget, ModemInv, ModemTypeInv, RxIsRecord
<1>7. real # "command" => /\ dceMode = "ppp" \/ step[t] \in Calls
                          /\ step[t] \in Calls => Connects(t)
                          /\ step[t] # "esc"
  BY <1>1, <1>2, RealOfOne DEF ModemInv, Nothing, Written
<1>8. real # "command" /\ step[t] \in Calls => r = "ok"
  BY <1>1, <1>7 DEF Connects
<1>9. Nothing'
  BY <1>1, <1>5, <1>6 DEF Nothing
<1>10. QED
  BY <1>1, <1>2, <1>3, <1>4, <1>7, <1>8, <1>9

\* Where a command leads.
LEMMA CommandLeads ==
    ASSUME ModemInv, NEW t \in Mod!Tasks, NEW r \in {"ok", "fail", "timeout"},
           Mod!StartUp(t, r) \/ Mod!Dial(t, r) \/ Mod!HangUp(t, r)
    PROVE  \E s \in ModemSteps :
              /\ step' = [step EXCEPT ![t] = s]
              /\ redo' \in {"sync", "store"} /\ saved' = saved
              /\ \/ /\ step[t] \notin Dialling \cup Leaving \cup {"hangup"} /\ s \notin Dialling \cup Leaving \cup {"hangup"}
                    /\ dceMode' = dceMode
                 \/ /\ step[t] \in Dialling
                    /\ \/ step[t] = "pdp" /\ s = "atd" /\ dceMode' = dceMode
                       \/ step[t] = "atd" /\ r # "ok" /\ s = "ato" /\ dceMode' = dceMode
                       \/ step[t] \in Calls /\ r = "ok" /\ s = "started" /\ dceMode' = "ppp"
                       \/ step[t] \in {"pdp", "ato"} /\ r # "ok" /\ s = "startfailed" /\ dceMode' = saved[t]
                 \/ /\ step[t] \in Leaving \cup {"hangup"}
                    /\ \/ step[t] = "esc" /\ s = "hangup" /\ dceMode' = "command"
                       \/ step[t] = "esc" /\ s = "resync" /\ dceMode' = dceMode
                       \/ step[t] # "esc" /\ s = "stopped" /\ dceMode' = "command"
                       \/ step[t] # "esc" /\ s = "start" /\ dceMode' = saved[t]
<1>1. CASE Mod!StartUp(t, r)
  <2>1. /\ saved' = saved /\ dceMode' = dceMode
        /\ step[t] \in {"sync", "echo", "flow", "store", "recesc", "escsync", "readpin", "setpin", "readpin2"}
        /\ redo' \in {redo, "sync", "store"}
    BY <1>1 DEF Mod!StartUp, Mod!Retried, Mod!Linear, Mod!Recovering, Mod!dial
  <2>2. \E s \in {"echo", "flow", "store", "start", "restart", "readpin", "recesc", "reset", "powerdown", "escsync",
                  "setpin", "readpin2", redo} : step' = [step EXCEPT ![t] = s]
    BY <1>1 DEF Mod!StartUp, Mod!Retried, Mod!Linear, Mod!Recovering, Mod!dial, Mod!Goto, Mod!Recovery
  <2>3. redo \in {"sync", "store"}
    BY DEF ModemInv, ModemTypeInv
  <2>4. PICK s \in {"echo", "flow", "store", "start", "restart", "readpin", "recesc", "reset", "powerdown", "escsync",
                   "setpin", "readpin2", "sync"} : step' = [step EXCEPT ![t] = s]
    BY <2>2, <2>3
  <2>5. s \in ModemSteps /\ s \notin Dialling \cup Leaving \cup {"hangup"}
    BY DEF ModemSteps, Mod!Commands, Dialling, Leaving
  <2>6. step[t] \notin Dialling \cup Leaving \cup {"hangup"}
    BY <2>1 DEF Dialling, Leaving
  <2>7. QED
    BY <2>1, <2>3, <2>4, <2>5, <2>6
<1>2. CASE Mod!Dial(t, r)
  BY <1>2 DEF Mod!Dial, Mod!Goto, Mod!Restored, Mod!dial, ModemSteps, Dialling, Calls, Mod!Commands, ModemInv, ModemTypeInv
<1>3. CASE Mod!HangUp(t, r)
  BY <1>3 DEF Mod!HangUp, Mod!Goto, Mod!Restored, Mod!dial, ModemSteps, Dialling, Leaving, Mod!Commands, ModemInv, ModemTypeInv
<1>4. QED
  BY <1>1, <1>2, <1>3

LEMMA ModemCommand ==
    ASSUME ModemInv, NEW t \in Mod!Tasks, NEW r \in {"ok", "fail", "timeout"}, Mod!Command(t, r)
    PROVE  ModemInv'
<1>1. /\ t \in awaits /\ Mod!Complete(t, r) /\ awaits' = awaits \ {t}
      /\ UNCHANGED << both, real >> /\ (r = "timeout" => late')
  BY DEF Mod!Command, Mod!Complete
<1>2. PICK s \in ModemSteps :
              /\ step' = [step EXCEPT ![t] = s]
              /\ redo' \in {"sync", "store"} /\ saved' = saved
              /\ \/ /\ step[t] \notin Dialling \cup Leaving \cup {"hangup"} /\ s \notin Dialling \cup Leaving \cup {"hangup"}
                    /\ dceMode' = dceMode
                 \/ /\ step[t] \in Dialling
                    /\ \/ step[t] = "pdp" /\ s = "atd" /\ dceMode' = dceMode
                       \/ step[t] = "atd" /\ r # "ok" /\ s = "ato" /\ dceMode' = dceMode
                       \/ step[t] \in Calls /\ r = "ok" /\ s = "started" /\ dceMode' = "ppp"
                       \/ step[t] \in {"pdp", "ato"} /\ r # "ok" /\ s = "startfailed" /\ dceMode' = saved[t]
                 \/ /\ step[t] \in Leaving \cup {"hangup"}
                    /\ \/ step[t] = "esc" /\ s = "hangup" /\ dceMode' = "command"
                       \/ step[t] = "esc" /\ s = "resync" /\ dceMode' = dceMode
                       \/ step[t] # "esc" /\ s = "stopped" /\ dceMode' = "command"
                       \/ step[t] # "esc" /\ s = "start" /\ dceMode' = saved[t]
  BY CommandLeads DEF Mod!Command
<1>3. /\ \A u \in Mod!Tasks : step'[u] = IF u = t THEN s ELSE step[u]
      /\ step' \in [Mod!Tasks -> ModemSteps] /\ step[t] \in Mod!Commands /\ step[t] \notin Inactive
  BY <1>1, <1>2 DEF ModemInv, ModemTypeInv, Mod!Commands, Inactive
<1>4. ModemTypeInv'
  <2>1. dceMode' \in {"command", "transition", "ppp"}
    BY <1>2 DEF ModemInv, ModemTypeInv
  <2>2. RxIsRecord'
    BY <1>1 DEF Mod!Complete, Mod!Forget, RxIsRecord, ModemInv, ModemTypeInv
  <2>3. awaits' \subseteq {u \in Mod!Tasks : step'[u] \in Mod!Commands}
    BY <1>1, <1>3 DEF ModemInv, ModemTypeInv
  <2>4. QED
    BY <1>2, <1>3, <2>1, <2>2, <2>3 DEF ModemInv, ModemTypeInv
<1>5. OneActs'
  BY <1>1, <1>3 DEF ModemInv, OneActs, Mod!Tasks
<1>6. ModeInv'
  <2>1. SUFFICES ASSUME ~both
                 PROVE  ModeInv'
    BY <1>1 DEF ModeInv
  <2>2. \A u \in Mod!Tasks : u # t => step[u] \in Inactive
    BY <1>1, <2>1, OneAwaits
  <2>3. /\ step[t] \in Dialling => dceMode = "transition" /\ saved[t] = "command"
        /\ step[t] \in Leaving => dceMode = "transition" /\ saved[t] = "ppp"
        /\ step[t] = "hangup" => dceMode = "command" /\ saved[t] = "ppp"
        /\ dceMode = "transition" => step[t] \in Dialling \cup Leaving
    BY <2>1, <2>2 DEF ModemInv, ModeInv, Inactive, Dialling, Leaving
  <2>4. \A u \in Mod!Tasks : u # t => step'[u] \in Inactive
    BY <1>3, <2>2
  <2>5. /\ s \in Dialling => dceMode' = "transition" /\ saved'[t] = "command"
        /\ s \in Leaving => dceMode' = "transition" /\ saved'[t] = "ppp"
        /\ s = "hangup" => dceMode' = "command" /\ saved'[t] = "ppp"
        /\ dceMode' = "transition" => s \in Dialling \cup Leaving
    BY <1>2, <2>3 DEF Dialling, Leaving, Calls
  <2>6. step'[t] = s
    BY <1>3
  <2>7. QED
    BY <2>4, <2>5, <2>6 DEF ModeInv, Inactive, Dialling, Leaving
<1>7. ASSUME ~late, ~both, r # "timeout"
      PROVE  ExchangeInv' /\ RealInv'
  <2>1. /\ ~mixup' /\ ~late' /\ awaits' = {} /\ Nothing' /\ awaits = {t}
        /\ \A u \in Mod!Tasks : u # t => step[u] \in Inactive
        /\ real # "command" => /\ dceMode = "ppp" \/ step[t] \in Calls
                               /\ step[t] \in Calls => r = "ok"
                               /\ step[t] # "esc"
    BY <1>1, <1>7, CommandEnds
  <2>2. ExchangeInv'
    BY <2>1 DEF ExchangeInv
  <2>3. ASSUME real # "command"
        PROVE  dceMode' = "ppp" /\ s \notin Calls \cup {"esc"}
    <3>1. dceMode = "transition" => step[t] \in Calls
      BY <2>1, <2>3
    <3>2. /\ step[t] \in Dialling \cup Leaving => dceMode = "transition"
          /\ step[t] = "hangup" => dceMode = "command"
      BY <1>1, <1>7 DEF ModemInv, ModemTypeInv, ModeInv
    <3>3. step[t] \in Calls \/ step[t] \notin Dialling \cup Leaving \cup {"hangup"}
      BY <2>1, <2>3, <3>1, <3>2
    <3>4. CASE step[t] \in Calls
      BY <1>2, <2>1, <2>3, <3>4 DEF Calls, Dialling, Leaving
    <3>5. CASE step[t] \notin Dialling \cup Leaving \cup {"hangup"}
      BY <1>2, <2>1, <2>3, <3>5 DEF Calls, Dialling, Leaving
    <3>6. QED
      BY <3>3, <3>4, <3>5
  <2>4. RealInv'
    BY <1>1, <1>3, <2>1, <2>3 DEF RealInv, Inactive, Calls
  <2>5. QED
    BY <2>2, <2>4
<1>8. late => late'
  BY <1>1 DEF Mod!Complete
<1>9. QED
  BY <1>1, <1>4, <1>5, <1>6, <1>7, <1>8 DEF ModemInv, ExchangeInv, RealInv

LEMMA ModemStep == ModemInv /\ [Mod!Next]_modemVars => ModemInv'
<1> SUFFICES ASSUME ModemInv, [Mod!Next]_modemVars
             PROVE  ModemInv'
  OBVIOUS
<1>1. CASE Mod!Answer \/ Mod!RxRead \/ Mod!RxCheck \/ Mod!RxCall \/ Mod!RxBit
  BY <1>1, ModemAnswer, ModemRead, ModemCheck, ModemCall, ModemBit
<1>2. ASSUME NEW t \in Mod!Tasks,
             \/ Mod!Send(t) \/ \E r \in {"ok", "fail", "timeout"} : Mod!Command(t, r)
             \/ Mod!BoardPin(t) \/ Mod!Start(t) \/ Mod!Stop(t)
             \/ Mod!Stopped(t) \/ Mod!StartFailed(t) \/ Mod!Started(t)
      PROVE  ModemInv'
  BY <1>2, ModemSend, ModemCommand, ModemBoardPin, ModemStart, ModemStop, ModemSettles, Zenon
<1>3. CASE Mod!Connected \/ Mod!GotIp \/ Mod!LostIp \/ Mod!Restart \/ UNCHANGED modemVars
  BY <1>3, ModemConnected, ModemGotIp, ModemLostIp, ModemRestart
<1>4. QED
  BY <1>1, <1>2, <1>3 DEF Mod!Next

-----------------------------------------------------------------------------
LEMMA ModemOwn == ModemInv => Mod!OwnAnswers
  BY DEF ModemInv, ExchangeInv, Mod!OwnAnswers

LEMMA ModemAgrees == ModemInv => Mod!ModesAgree
<1> SUFFICES ASSUME ModemInv, ~both, \A t \in Mod!Tasks : step[t] \in Mod!Settled
             PROVE  /\ dceMode # "transition"
                    /\ ~late /\ dceMode = "command" => real = "command"
  BY DEF Mod!ModesAgree
<1>1. \A t \in Mod!Tasks : step[t] \notin Dialling \cup Leaving /\ step[t] \notin Calls \cup {"esc"}
  BY DEF Mod!Settled, Dialling, Leaving, Calls
<1>2. QED
  BY <1>1 DEF ModemInv, ModeInv, RealInv

LEMMA BridgeModemStep == [MCNext]_allVars => [Mod!Next]_modemVars
  BY DEF MCNext, WebMoves, ProvMoves, allVars, modemVars, netVars, webVars, provVars

\* A command (esp_modem_dce_generic_command) ends with its own answer, unless one has timed
\* out, whose answer may still come, or both tasks have dialled at once: for every number of
\* retries, of dials and of commands on the wire.
THEOREM BridgeOwnAnswers == MCSpec => []OwnAnswers
<1>1. MCInit => ModemInv
  BY ModemInit DEF MCInit
<1>2. ModemInv /\ [MCNext]_allVars => ModemInv'
  BY BridgeModemStep, ModemStep
<1>3. ModemInv => OwnAnswers
  BY ModemOwn DEF OwnAnswers
<1>4. QED
  BY <1>1, <1>2, <1>3, PTL DEF MCSpec

\* Between changes of the mode (esp_modem_dte_change_mode) it is never left in transition,
\* and when the driver is in command mode so is the modem, with the same exceptions.
THEOREM BridgeModesAgree == MCSpec => []ModesAgree
<1>1. MCInit => ModemInv
  BY ModemInit DEF MCInit
<1>2. ModemInv /\ [MCNext]_allVars => ModemInv'
  BY BridgeModemStep, ModemStep
<1>3. ModemInv => ModesAgree
  BY ModemAgrees DEF ModesAgree
<1>4. QED
  BY <1>1, <1>2, <1>3, PTL DEF MCSpec

-----------------------------------------------------------------------------
(* The interfaces (BridgeNetif).  What holds of an interface holds from the moment that it is *)
(* made, before it is in the list.  The servers keep apart (ServerInv); who shares its segment *)
(* with an external is going to be seen by an event or a scan (ConflictInv), and as the servers *)
(* keep apart there is only one of them, so that moving the first is enough.  *)

Live(p) == p \in Net!Listed \/ p = making

NetTypeInv ==
    /\ bridge_link \in Seq(Net!Netifs)
    /\ addr \in [Net!Netifs -> Net!Addresses] /\ mac = [n \in Net!Netifs |-> mac[n]]
    /\ checks \in Seq(Refusals)
    /\ events \in Seq(Externals \cup {SoftAp})
    /\ making \in Servers \cup {"none"} /\ (making # "none" => making \notin Net!Listed)
    /\ upd = [pc |-> upd.pc, for |-> upd.for, pos |-> upd.pos, used |-> upd.used]
    /\ upd.pc \in {"rest", "scan", "moved"} /\ upd.pos \in Nat
    /\ upd.pc = "scan" => upd.for \in Externals /\ upd.pos >= 1

-----------------------------------------------------------------------------
(* The list *)

LEMMA ListedIs == NetTypeInv => /\ Len(bridge_link) \in Nat
                                /\ Net!Listed = {bridge_link[i] : i \in 1 .. Len(bridge_link)}
                                /\ Net!Listed \subseteq Net!Netifs
<1> SUFFICES ASSUME NetTypeInv
             PROVE  /\ Len(bridge_link) \in Nat
                    /\ Net!Listed = {bridge_link[i] : i \in 1 .. Len(bridge_link)}
                    /\ Net!Listed \subseteq Net!Netifs
  OBVIOUS
<1>1. bridge_link \in Seq(Net!Netifs)
  BY DEF NetTypeInv
<1>2. /\ Len(bridge_link) \in Nat /\ DOMAIN bridge_link = 1 .. Len(bridge_link)
      /\ \A i \in 1 .. Len(bridge_link) : bridge_link[i] \in Net!Netifs
  BY <1>1
<1>3. QED
  BY <1>2, Zenon DEF Net!Listed, Net!ToSet

\* The list grows at its end.
LEMMA ListGrows ==
    ASSUME NetTypeInv, NEW n \in Net!Netifs, bridge_link' = Append(bridge_link, n)
    PROVE  /\ bridge_link' \in Seq(Net!Netifs) /\ Len(bridge_link') = Len(bridge_link) + 1
           /\ \A i \in 1 .. Len(bridge_link) : bridge_link'[i] = bridge_link[i]
           /\ bridge_link'[Len(bridge_link) + 1] = n
           /\ Net!Listed' = Net!Listed \cup {n}
<1>1. /\ bridge_link \in Seq(Net!Netifs) /\ Len(bridge_link) \in Nat
      /\ bridge_link' \in Seq(Net!Netifs) /\ Len(bridge_link') = Len(bridge_link) + 1
      /\ \A i \in 1 .. Len(bridge_link) : bridge_link'[i] = bridge_link[i]
      /\ bridge_link'[Len(bridge_link) + 1] = n
  BY DEF NetTypeInv
<1>2. Net!Listed = {bridge_link[i] : i \in 1 .. Len(bridge_link)}
  BY <1>1 DEF Net!Listed, Net!ToSet
<1>3. Net!Listed' = {bridge_link'[i] : i \in 1 .. Len(bridge_link) + 1}
  BY <1>1 DEF Net!Listed, Net!ToSet
<1>4. 1 .. Len(bridge_link) + 1 = (1 .. Len(bridge_link)) \cup {Len(bridge_link) + 1}
  BY <1>1
<1>5. QED
  BY <1>1, <1>2, <1>3, <1>4

LEMMA ListKept == UNCHANGED bridge_link => Net!Listed' = Net!Listed
  BY DEF Net!Listed, Net!ToSet

\* An event is handled, or comes to the end of the queue.
Pending(n) == \E k \in 1 .. Len(events) : events[k] = n

LEMMA EventComes ==
    ASSUME NetTypeInv, NEW n \in Externals \cup {SoftAp}, events' = Append(events, n)
    PROVE  /\ events' \in Seq(Externals \cup {SoftAp})
           /\ Pending(n)' /\ \A m : Pending(m) => Pending(m)'
<1>1. /\ Len(events) \in Nat /\ events' \in Seq(Externals \cup {SoftAp}) /\ Len(events') = Len(events) + 1
      /\ \A i \in 1 .. Len(events) : events'[i] = events[i]
      /\ events'[Len(events) + 1] = n
  BY DEF NetTypeInv
<1>2. QED
  BY <1>1 DEF Pending

LEMMA EventGoes ==
    ASSUME NetTypeInv, events # << >>, events' = Tail(events)
    PROVE  /\ events' \in Seq(Externals \cup {SoftAp})
           /\ \A m : Pending(m) /\ m # Head(events) => Pending(m)'
<1>1. /\ Len(events) \in Nat \ {0} /\ events' \in Seq(Externals \cup {SoftAp}) /\ Len(events') = Len(events) - 1
      /\ \A i \in 1 .. Len(events) - 1 : events'[i] = events[i + 1]
      /\ events[1] = Head(events)
  BY DEF NetTypeInv
<1>2. ASSUME NEW m, Pending(m), m # Head(events)
      PROVE  Pending(m)'
  <2>1. PICK k \in 1 .. Len(events) : events[k] = m
    BY <1>2 DEF Pending
  <2>2. k - 1 \in 1 .. Len(events') /\ events'[k - 1] = m
    BY <1>1, <1>2, <2>1
  <2>3. QED
    BY <2>2 DEF Pending
<1>3. QED
  BY <1>1, <1>2


\* A nonempty set of numbers has a least one.
LEMMA Smallest == ASSUME NEW S \in SUBSET Nat, S # {} PROVE \E n \in S : \A m \in S : n <= m
<1> DEFINE Upto(n) == { k \in S : k <= n }
           T == { Upto(n) : n \in S }
<1>1. T \subseteq FiniteSubsetsOf(Nat) /\ T # {}
  <2>1. ASSUME NEW n \in S
        PROVE  IsFiniteSet(Upto(n)) /\ Upto(n) \subseteq Nat
    <3>1. n \in Nat /\ Upto(n) \in SUBSET Nat /\ \A s \in Upto(n) : s <= n
      OBVIOUS
    <3>. HIDE DEF Upto
    <3>2. QED
      BY <3>1, FS_BoundedSetOfNaturals
  <2>2. QED
    BY <2>1 DEF FiniteSubsetsOf
<1>2. PICK x \in T : \A y \in T : ~ (<< y, x >> \in StrictSubsetOrdering(Nat))
  <2>. HIDE DEF T
  <2>1. QED
    BY <1>1, FS_StrictSubsetOrderingWellFounded, WFMin, Zenon
<1>3. PICK n \in S : x = Upto(n)
  OBVIOUS
<1>4. ASSUME NEW m \in S, m < n
      PROVE  FALSE
  <2>0. m \in Nat /\ n \in Nat
    OBVIOUS
  <2>7. Upto(m) \in T
    BY Zenon
  <2>8. ASSUME NEW k \in S, k <= m
        PROVE  k <= n
    BY <1>4, <2>0, <2>8
  <2>1. Upto(m) \subseteq Upto(n) /\ n \in Upto(n) /\ n \notin Upto(m)
    <3>1. n <= n /\ ~ (n <= m)
      BY <1>4, <2>0
    <3>2. QED
      BY <2>8, <3>1, Zenon
  <2>2. Upto(m) \in SUBSET Nat /\ x \in SUBSET Nat /\ Upto(m) # x
    BY <1>3, <2>1
  <2>3. << Upto(m), x >> \in StrictSubsetOrdering(Nat)
    BY <1>3, <2>1, <2>2 DEF StrictSubsetOrdering
  <2>4. QED
    BY <1>2, <2>7, <2>3, Zenon
<1>5. QED BY <1>4

\* What the search for a segment finds, if there is one.
LEMMA SegmentFound ==
    ASSUME Net!NetifAssumption, NetTypeInv, Net!Free # {}
    PROVE  /\ Net!request_ip.third \in Net!Free
           /\ Net!request_ip \in Net!Addresses /\ Net!request_ip # Net!NoAddr
           /\ \A n \in Net!Listed : addr[n] # Net!request_ip
           /\ Net!Passes(Net!request_ip.third)
<1>1. Net!Free \in SUBSET Nat /\ Net!Free \subseteq Thirds /\ 0 \notin Thirds
  BY DEF Net!Free, Net!NetifAssumption
<1>2. \E t \in Net!Free : \A u \in Net!Free : t <= u
  BY <1>1, Smallest
<1>3. PICK t : t = CHOOSE s \in Net!Free : \A u \in Net!Free : s <= u
  OBVIOUS
<1>4. t \in Net!Free
  BY <1>2, <1>3, Zenon
<1>5. Net!request_ip = [net |-> "192.168", third |-> t]
  BY <1>3 DEF Net!request_ip, Net!Home
<1>6. Net!request_ip.third = t
  BY <1>5
<1>7. QED
  BY <1>1, <1>4, <1>5, <1>6 DEF Net!Free, Net!Addresses, Net!Home, Net!NoAddr, Net!esp_bridge_netif_network_segment_is_used

-----------------------------------------------------------------------------
(* Types *)

LEMMA NetTypeStep == Net!NetifAssumption /\ NetTypeInv /\ [Net!Next]_netVars => NetTypeInv'
<1> SUFFICES ASSUME Net!NetifAssumption, NetTypeInv, [Net!Next]_netVars
             PROVE  NetTypeInv'
  OBVIOUS
<1>0. /\ SoftAp \in Servers /\ Servers \cap Externals = {} /\ "none" \notin Servers
      /\ Servers \subseteq Net!Netifs /\ Externals \subseteq Net!Netifs /\ Net!NoAddr \in Net!Addresses
  BY DEF Net!NetifAssumption, Net!Nobody, Net!Netifs, Net!Addresses
<1> USE DEF NetTypeInv, Net!Nobody
<1>1. CASE UNCHANGED << bridge_link, addr, mac, checks, events, making, upd >>
  BY <1>1, ListKept
<1>2. CASE UNCHANGED netVars
  BY <1>1, <1>2 DEF netVars
<1>3. ASSUME NEW c \in Refusals, Net!esp_bridge_network_segment_check_register(c)
      PROVE  NetTypeInv'
  <2>1. << c >> \o checks \in Seq(Refusals)
    OBVIOUS
  <2>2. QED
    BY <1>3, <2>1, ListKept DEF Net!esp_bridge_network_segment_check_register
<1>4. ASSUME NEW n \in Servers, NEW a \in Net!Addresses, Net!Address(n, a)
      PROVE  addr' \in [Net!Netifs -> Net!Addresses]
  BY <1>0, <1>4, SegmentFound DEF Net!Address
<1>5. ASSUME NEW n \in Servers, Net!Create(n)
      PROVE  NetTypeInv'
  <2>1. addr' \in [Net!Netifs -> Net!Addresses]
    BY <1>0, <1>4, <1>5 DEF Net!Create
  <2>2. mac' = [m \in Net!Netifs |-> mac'[m]]
    BY <1>5 DEF Net!Create
  <2>3. /\ making' = n /\ n \notin Net!Listed /\ UNCHANGED << bridge_link, checks, events, upd >>
    BY <1>5 DEF Net!Create
  <2>4. QED
    BY <2>1, <2>2, <2>3, ListKept
<1>6. ASSUME NEW a \in Net!Addresses, Net!CreateSoftap(a)
      PROVE  NetTypeInv'
  <2>1. addr' \in [Net!Netifs -> Net!Addresses]
    BY <1>0, <1>4, <1>6 DEF Net!CreateSoftap
  <2>2. mac' = [m \in Net!Netifs |-> mac'[m]]
    BY <1>6 DEF Net!CreateSoftap
  <2>3. /\ making' = SoftAp /\ SoftAp \notin Net!Listed /\ UNCHANGED << bridge_link, checks, events, upd >>
    BY <1>6 DEF Net!CreateSoftap
  <2>4. QED
    BY <1>0, <2>1, <2>2, <2>3, ListKept
<1>7. CASE Net!AddToList
  <2>1. /\ making \in Servers /\ making \in Net!Netifs /\ bridge_link' = Append(bridge_link, making) /\ making' = "none"
        /\ UNCHANGED << addr, mac, checks, events, upd >>
    BY <1>0, <1>7 DEF Net!AddToList
  <2>2. bridge_link' \in Seq(Net!Netifs) /\ Net!Listed' = Net!Listed \cup {making}
    BY <2>1, ListGrows
  <2>3. QED
    BY <2>1, <2>2
<1>8. ASSUME NEW n \in Externals, Net!CreateExternal(n)
      PROVE  NetTypeInv'
  <2>1. /\ n \in Net!Netifs /\ bridge_link' = Append(bridge_link, n) /\ making = "none" /\ making' = making
        /\ UNCHANGED << addr, checks, events, upd >>
    BY <1>0, <1>8 DEF Net!CreateExternal
  <2>2. bridge_link' \in Seq(Net!Netifs) /\ Net!Listed' = Net!Listed \cup {n}
    BY <2>1, ListGrows
  <2>3. mac' = [m \in Net!Netifs |-> mac'[m]]
    BY <1>8 DEF Net!CreateExternal
  <2>4. QED
    BY <2>1, <2>2, <2>3
<1>9. ASSUME NEW n \in Externals, NEW a \in Net!Addresses, Net!Lease(n, a)
      PROVE  NetTypeInv'
  BY <1>0, <1>9, EventComes, ListKept DEF Net!Lease
<1>10. ASSUME NEW n \in Externals, Net!Disconnected(n)
       PROVE  NetTypeInv'
  BY <1>0, <1>10, ListKept DEF Net!Disconnected
<1>11. CASE Net!Join
  BY <1>0, <1>11, EventComes, ListKept DEF Net!Join
<1>12. CASE Net!GotIp
  BY <1>0, <1>12, EventGoes, ListKept DEF Net!GotIp
<1>13. CASE Net!Joined
  BY <1>0, <1>13, EventGoes, ListKept DEF Net!Joined
<1>14. CASE Net!Scan
  <2>1. UNCHANGED << bridge_link, mac, checks, making, events >>
    BY <1>14 DEF Net!Scan
  <2>2. addr' \in [Net!Netifs -> Net!Addresses]
    BY <1>0, <1>14, SegmentFound DEF Net!Scan
  <2>3. \/ upd' = Net!Resting
        \/ \E u : upd' = [upd EXCEPT !.pos = upd.pos + 1, !.used = u]
        \/ upd' = [upd EXCEPT !.pos = upd.pos + 1]
        \/ upd' = [upd EXCEPT !.pc = "moved"]
    BY <1>14 DEF Net!Scan
  <2>4. /\ upd' = [pc |-> upd'.pc, for |-> upd'.for, pos |-> upd'.pos, used |-> upd'.used]
        /\ upd'.pc \in {"rest", "scan", "moved"} /\ upd'.pos \in Nat
        /\ upd'.pc = "scan" => upd'.for \in Externals /\ upd'.pos >= 1
    <3>1. CASE upd' = Net!Resting
      BY <3>1 DEF Net!Resting
    <3>2. CASE \E u : upd' = [upd EXCEPT !.pos = upd.pos + 1, !.used = u]
      <4>1. PICK u : upd' = [pc |-> upd.pc, for |-> upd.for, pos |-> upd.pos + 1, used |-> u]
        BY <3>2
      <4>2. QED
        BY <4>1
    <3>3. CASE upd' = [upd EXCEPT !.pos = upd.pos + 1]
      <4>1. upd' = [pc |-> upd.pc, for |-> upd.for, pos |-> upd.pos + 1, used |-> upd.used]
        BY <3>3
      <4>2. QED
        BY <4>1
    <3>4. CASE upd' = [upd EXCEPT !.pc = "moved"]
      <4>1. upd' = [pc |-> "moved", for |-> upd.for, pos |-> upd.pos, used |-> upd.used]
        BY <3>4
      <4>2. QED
        BY <4>1
    <3>5. QED
      BY <2>3, <3>1, <3>2, <3>3, <3>4
  <2>5. QED
    BY <2>1, <2>2, <2>4, ListKept
<1>15. ASSUME NEW works \in BOOLEAN, Net!Deauth(works)
       PROVE  NetTypeInv'
  BY <1>15, ListKept DEF Net!Deauth, Net!Resting
<1>16. QED
  BY <1>2, <1>3, <1>5, <1>6, <1>7, <1>8, <1>9, <1>10, <1>11, <1>12, <1>13, <1>14, <1>15 DEF Net!Next

-----------------------------------------------------------------------------
(* The segments of the servers *)

ServerInv ==
    ~exhausted =>
    /\ \A p \in Servers : Live(p) => addr[p] # Net!NoAddr
    /\ ~lateCheck => \A p \in Servers : addr[p] # Net!NoAddr => Net!Passes(addr[p].third)
    /\ ~raced => \A p, q \in Servers : p # q /\ Live(p) /\ Live(q) => addr[p] # addr[q]

LEMMA PassesKept == ASSUME UNCHANGED checks PROVE \A t : Net!Passes(t)' <=> Net!Passes(t)
  BY DEF Net!Passes

\* A server gets a segment of its own, unless the search failed.
LEMMA AddressGiven ==
    ASSUME Net!NetifAssumption, NetTypeInv, NEW n \in Servers, NEW a \in Net!Addresses, Net!Address(n, a)
    PROVE  /\ exhausted => exhausted'
           /\ \A m \in Net!Netifs : m # n => addr'[m] = addr[m]
           /\ ~exhausted' => /\ addr'[n] # Net!NoAddr /\ Net!Passes(addr'[n].third)
                             /\ \A m \in Net!Listed : addr[m] # addr'[n]
<1>1. n \in Net!Netifs /\ \A b : [addr EXCEPT ![n] = b][n] = b /\ \A m \in Net!Netifs : m # n => [addr EXCEPT ![n] = b][m] = addr[m]
  BY DEF Net!Netifs, NetTypeInv
<1>2. CASE Net!Free # {}
  <2>1. addr' = [addr EXCEPT ![n] = Net!request_ip] /\ exhausted' = exhausted
    BY <1>2 DEF Net!Address
  <2>2. addr'[n] = Net!request_ip /\ \A m \in Net!Netifs : m # n => addr'[m] = addr[m]
    BY <1>1, <2>1
  <2>3. QED
    BY <1>2, <2>1, <2>2, SegmentFound
<1>3. CASE Net!Free = {}
  BY <1>1, <1>3 DEF Net!Address
<1>4. QED
  BY <1>2, <1>3

\* An interface is made: its segment is its own.
LEMMA ServerMade ==
    ASSUME Net!NetifAssumption, NetTypeInv, ServerInv, NEW n \in Servers, NEW a \in Net!Addresses, Net!Address(n, a),
           making = "none", making' = n, UNCHANGED << bridge_link, checks, raced, lateCheck >>
    PROVE  ServerInv'
<1>1. /\ exhausted => exhausted'
      /\ \A m \in Net!Netifs : m # n => addr'[m] = addr[m]
      /\ ~exhausted' => /\ addr'[n] # Net!NoAddr /\ Net!Passes(addr'[n].third)
                        /\ \A m \in Net!Listed : addr[m] # addr'[n]
  BY AddressGiven
<1>2. /\ Net!Listed' = Net!Listed /\ \A t : Net!Passes(t)' <=> Net!Passes(t)
      /\ Servers \subseteq Net!Netifs /\ "none" \notin Servers
  BY ListKept, PassesKept DEF Net!Netifs, Net!NetifAssumption, Net!Nobody
<1>3. \A p \in Servers : p # n /\ Live(p)' => Live(p) /\ p \in Net!Listed
  BY <1>2 DEF Live
<1>4. QED
  BY <1>1, <1>2, <1>3 DEF ServerInv

\* The cases of a step of the scan, at the interface p.
ScanPasses(p) ==
    /\ \/ Net!Skipped(p) /\ upd' = [upd EXCEPT !.pos = upd.pos + 1]
       \/ ~Net!Skipped(p) /\ ~Net!InConflict(p) /\ upd' = [upd EXCEPT !.pos = upd.pos + 1, !.used = Net!Used(p)]
    /\ UNCHANGED << addr, raced, exhausted >>
ScanMoves(p) ==
    /\ ~Net!Skipped(p) /\ Net!InConflict(p) /\ Net!Free # {}
    /\ upd' = IF p = SoftAp THEN [upd EXCEPT !.pc = "moved"] ELSE Net!Resting
    /\ addr' = [addr EXCEPT ![p] = Net!request_ip]
    /\ raced' = (raced \/ making # Net!Nobody) /\ exhausted' = exhausted

LEMMA ScanCases ==
    ASSUME NetTypeInv, Net!Scan
    PROVE  \/ upd.pos > Len(bridge_link) /\ upd' = Net!Resting /\ UNCHANGED << addr, raced, exhausted >>
           \/ upd' = Net!Resting /\ exhausted' = TRUE /\ UNCHANGED << addr, raced >>
           \/ upd.pos \in 1 .. Len(bridge_link) /\ (ScanPasses(bridge_link[upd.pos]) \/ ScanMoves(bridge_link[upd.pos]))
<1>1. Len(bridge_link) \in Nat /\ upd.pos \in Nat /\ upd.pos >= 1
  BY ListedIs DEF NetTypeInv, Net!Scan
<1>2. CASE upd.pos > Len(bridge_link)
  BY <1>2 DEF Net!Scan
<1>3. CASE ~(upd.pos > Len(bridge_link))
  <2>1. PICK p : p = bridge_link[upd.pos]
    OBVIOUS
  <2>2. CASE Net!Skipped(p)
    BY <1>1, <1>3, <2>1, <2>2 DEF Net!Scan, ScanPasses
  <2>3. CASE ~Net!Skipped(p) /\ ~Net!InConflict(p)
    BY <1>1, <1>3, <2>1, <2>3 DEF Net!Scan, ScanPasses
  <2>4. CASE ~Net!Skipped(p) /\ Net!InConflict(p) /\ Net!Free = {}
    BY <1>1, <1>3, <2>1, <2>4 DEF Net!Scan
  <2>5. CASE ~Net!Skipped(p) /\ Net!InConflict(p) /\ Net!Free # {}
    BY <1>1, <1>3, <2>1, <2>5 DEF Net!Scan, ScanMoves
  <2>6. QED
    BY <2>2, <2>3, <2>4, <2>5
<1>4. QED
  BY <1>2, <1>3

LEMMA ServerStep == Net!NetifAssumption /\ NetTypeInv /\ ServerInv /\ [Net!Next]_netVars => ServerInv'
<1> SUFFICES ASSUME Net!NetifAssumption, NetTypeInv, ServerInv, [Net!Next]_netVars
             PROVE  ServerInv'
  OBVIOUS
<1>0. /\ SoftAp \in Servers /\ Servers \cap Externals = {} /\ "none" \notin Servers
      /\ Servers \subseteq Net!Netifs /\ Externals \subseteq Net!Netifs
  BY DEF Net!NetifAssumption, Net!Nobody, Net!Netifs
<1>1. ASSUME \A p \in Servers : addr'[p] = addr[p] /\ (Live(p)' => Live(p)),
             UNCHANGED checks, exhausted => exhausted', raced => raced', lateCheck' = lateCheck
      PROVE  ServerInv'
  BY <1>1, PassesKept DEF ServerInv
<1>2. CASE Net!Join \/ Net!GotIp \/ Net!Joined \/ UNCHANGED netVars \/ \E works \in BOOLEAN : Net!Deauth(works)
  <2>1. UNCHANGED << bridge_link, making, addr, checks, exhausted, raced, lateCheck >>
    BY <1>2 DEF Net!Join, Net!GotIp, Net!Joined, Net!Deauth, netVars
  <2>2. QED
    BY <1>1, <2>1, ListKept DEF Live
<1>3. ASSUME NEW c \in Refusals, Net!esp_bridge_network_segment_check_register(c)
      PROVE  ServerInv'
  <2>1. /\ UNCHANGED << bridge_link, making, addr, exhausted, raced >>
        /\ lateCheck' = (lateCheck \/ \E n \in Servers : addr[n] # Net!NoAddr)
    BY <1>3 DEF Net!esp_bridge_network_segment_check_register
  <2>2. \A p : Live(p)' <=> Live(p)
    BY <2>1, ListKept DEF Live
  <2>3. QED
    BY <2>1, <2>2 DEF ServerInv
<1>4. ASSUME NEW n \in Servers, Net!Create(n)
      PROVE  ServerInv'
  <2>1. /\ Net!Address(n, Net!NoAddr) /\ Net!NoAddr \in Net!Addresses
        /\ making = "none" /\ making' = n /\ UNCHANGED << bridge_link, checks, raced, lateCheck >>
    BY <1>4 DEF Net!Create, Net!Nobody, Net!Addresses
  <2>2. QED
    BY <2>1, ServerMade
<1>5. ASSUME NEW a \in Net!Addresses, Net!CreateSoftap(a)
      PROVE  ServerInv'
  <2>1. /\ Net!Address(SoftAp, a) /\ making = "none" /\ making' = SoftAp
        /\ UNCHANGED << bridge_link, checks, raced, lateCheck >>
    BY <1>5 DEF Net!CreateSoftap, Net!Nobody
  <2>2. QED
    BY <1>0, <2>1, ServerMade
<1>6. CASE Net!AddToList
  <2>1. /\ making \in Servers /\ making \in Net!Netifs /\ bridge_link' = Append(bridge_link, making) /\ making' = "none"
        /\ UNCHANGED << addr, checks, exhausted, raced, lateCheck >>
    BY <1>0, <1>6 DEF Net!AddToList, NetTypeInv, Net!Nobody
  <2>2. Net!Listed' = Net!Listed \cup {making}
    BY <2>1, ListGrows
  <2>3. \A p \in Servers : Live(p)' => Live(p)
    BY <1>0, <2>1, <2>2 DEF Live
  <2>4. QED
    BY <1>1, <2>1, <2>3
<1>7. ASSUME NEW n \in Externals, Net!CreateExternal(n)
      PROVE  ServerInv'
  <2>1. /\ n \in Net!Netifs /\ n \notin Servers /\ bridge_link' = Append(bridge_link, n) /\ making' = making
        /\ UNCHANGED << addr, checks, exhausted, raced, lateCheck >>
    BY <1>0, <1>7 DEF Net!CreateExternal
  <2>2. Net!Listed' = Net!Listed \cup {n}
    BY <2>1, ListGrows
  <2>3. \A p \in Servers : Live(p)' => Live(p)
    BY <2>1, <2>2 DEF Live
  <2>4. QED
    BY <1>1, <2>1, <2>3
<1>8. ASSUME NEW n \in Externals, (\E a \in Net!Addresses : Net!Lease(n, a)) \/ Net!Disconnected(n)
      PROVE  ServerInv'
  <2>1. UNCHANGED << bridge_link, making, checks, exhausted, lateCheck >> /\ (raced => raced')
    <3>1. CASE \E a \in Net!Addresses : Net!Lease(n, a)
      <4>1. PICK a \in Net!Addresses : Net!Lease(n, a)
        BY <3>1
      <4>2. QED
        BY <4>1 DEF Net!Lease
    <3>2. CASE Net!Disconnected(n)
      BY <3>2 DEF Net!Disconnected
    <3>3. QED
      BY <1>8, <3>1, <3>2
  <2>2. \A p \in Servers : addr'[p] = addr[p]
    <3>1. \A a : addr' = [addr EXCEPT ![n] = a] => \A p \in Servers : addr'[p] = addr[p]
      BY <1>0 DEF NetTypeInv
    <3>2. QED
      BY <1>8, <3>1, Zenon DEF Net!Lease, Net!Disconnected
  <2>3. \A p : Live(p)' <=> Live(p)
    BY <2>1, ListKept DEF Live
  <2>4. QED
    BY <1>1, <2>1, <2>2, <2>3
<1>9. CASE Net!Scan
  <2>1. UNCHANGED << bridge_link, making, checks, lateCheck >>
    BY <1>9 DEF Net!Scan
  <2>2. Net!Listed' = Net!Listed /\ \A p : Live(p)' <=> Live(p)
    BY <2>1, ListKept DEF Live
  <2>3. \/ UNCHANGED << addr, raced >> /\ (exhausted => exhausted')
        \/ /\ Net!Free # {} /\ bridge_link[upd.pos] \in Servers
           /\ addr' = [addr EXCEPT ![bridge_link[upd.pos]] = Net!request_ip]
           /\ exhausted' = exhausted /\ raced' = (raced \/ making # "none")
    BY <1>9, ScanCases DEF ScanPasses, ScanMoves, Net!Skipped, Net!Nobody
  <2>4. CASE UNCHANGED << addr, raced >> /\ (exhausted => exhausted')
    BY <1>1, <2>1, <2>2, <2>4
  <2>5. ASSUME NEW p \in Servers, Net!Free # {}, addr' = [addr EXCEPT ![p] = Net!request_ip],
               exhausted' = exhausted, raced' = (raced \/ making # "none")
        PROVE  ServerInv'
    <3>1. /\ addr'[p] = Net!request_ip /\ \A q \in Servers : q # p => addr'[q] = addr[q]
      BY <1>0, <2>5 DEF NetTypeInv
    <3>2. /\ Net!request_ip # Net!NoAddr /\ Net!Passes(Net!request_ip.third)
          /\ \A n \in Net!Listed : addr[n] # Net!request_ip
      BY <2>5, SegmentFound
    <3>3. \A q \in Servers : Live(q) /\ ~raced' => q \in Net!Listed /\ ~raced
      BY <1>0, <2>5 DEF Live
    <3>4. QED
      BY <2>1, <2>2, <2>5, <3>1, <3>2, <3>3, PassesKept DEF ServerInv
  <2>6. QED
    BY <2>3, <2>4, <2>5
<1>10. QED
  BY <1>2, <1>3, <1>4, <1>5, <1>6, <1>7, <1>8, <1>9 DEF Net!Next

-----------------------------------------------------------------------------
(* The segments of servers and externals *)

\* The scan for e has the interface p before it.
Ahead(p, e) == upd.pc = "scan" /\ upd.for = e /\ \E i \in 1 .. Len(bridge_link) : i >= upd.pos /\ bridge_link[i] = p

\* Who shares its segment with an external is in the list, and an event that tells of it or
\* a scan is going to see it.
ConflictInv ==
    /\ \A e \in Externals : e \notin Net!Listed => addr[e] = Net!NoAddr
    /\ ~raced /\ ~exhausted /\ ~lateCheck =>
       /\ upd.pc = "scan" => ~upd.used
       /\ \A p \in Servers, e \in Externals :
             Live(p) /\ addr[e] = addr[p] => p # making /\ (Pending(e) \/ Ahead(p, e))

\* The order in which the steps may go wrong does not matter.
GoneWrong == raced \/ exhausted \/ lateCheck

LEMMA ConflictKept ==
    ASSUME ConflictInv, UNCHANGED addr, ~GoneWrong' => ~GoneWrong, Net!Listed \subseteq Net!Listed',
           \A p \in Servers : Live(p)' => Live(p), making' \in {making, "none"}, "none" \notin Servers,
           \A e \in Externals : e \in Net!Listed' => e \in Net!Listed \/ addr[e] = Net!NoAddr,
           \A e \in Externals : Pending(e) => Pending(e)' \/ (\A p \in Servers : p \in Net!Listed => Ahead(p, e)'),
           \A p \in Servers, e \in Externals : Ahead(p, e) /\ addr[p] = addr[e] => Ahead(p, e)',
           (upd.pc = "scan" => ~upd.used) => (upd'.pc = "scan" => ~upd'.used)
    PROVE  ConflictInv'
  BY DEF ConflictInv, GoneWrong, Live

\* An interface is made, whose segment nobody has.
LEMMA ConflictMade ==
    ASSUME Net!NetifAssumption, NetTypeInv, ConflictInv, NEW n \in Servers, NEW a \in Net!Addresses, Net!Address(n, a),
           making = "none", making' = n, n \notin Net!Listed,
           UNCHANGED << bridge_link, checks, raced, lateCheck, events, upd >>
    PROVE  ConflictInv'
<1>1. /\ exhausted => exhausted'
      /\ \A m \in Net!Netifs : m # n => addr'[m] = addr[m]
      /\ ~exhausted' => /\ addr'[n] # Net!NoAddr
                        /\ \A m \in Net!Listed : addr[m] # addr'[n]
  BY AddressGiven
<1>2. /\ Net!Listed' = Net!Listed /\ Servers \cap Externals = {} /\ "none" \notin Servers
      /\ Servers \subseteq Net!Netifs /\ Externals \subseteq Net!Netifs
  BY ListKept DEF Net!Netifs, Net!NetifAssumption, Net!Nobody
<1>3. /\ \A p \in Servers : p # n => addr'[p] = addr[p] /\ (Live(p)' => Live(p))
      /\ \A e \in Externals : addr'[e] = addr[e]
      /\ \A p, e : Pending(e) \/ Ahead(p, e) => Pending(e)' \/ Ahead(p, e)'
  BY <1>1, <1>2 DEF Live, Pending, Ahead
<1>4. \A e \in Externals : ~exhausted' => addr'[e] # addr'[n]
  BY <1>1, <1>2, <1>3 DEF ConflictInv
<1>5. QED
  BY <1>1, <1>2, <1>3, <1>4 DEF ConflictInv

\* A verdict is not against the segment of a server.
LEMMA NoVerdict ==
    ASSUME NetTypeInv, ServerInv, ConflictInv, ~GoneWrong, upd.pc = "scan", NEW p \in Servers, p \in Net!Listed
    PROVE  ~Net!Used(p)
<1>1. Net!Passes(addr[p].third) /\ ~upd.used
  BY DEF ServerInv, ConflictInv, GoneWrong, Live
<1>2. CASE checks = << >>
  BY <1>1, <1>2 DEF Net!Used
<1>3. CASE checks # << >>
  <2>1. Len(checks) \in 1 .. Len(checks)
    BY <1>3 DEF NetTypeInv
  <2>2. QED
    BY <1>1, <1>3, <2>1 DEF Net!Used, Net!Passes
<1>4. QED
  BY <1>2, <1>3

LEMMA ConflictStep == Net!NetifAssumption /\ NetTypeInv /\ ServerInv /\ ConflictInv /\ [Net!Next]_netVars => ConflictInv'
<1> SUFFICES ASSUME Net!NetifAssumption, NetTypeInv, ServerInv, ConflictInv, [Net!Next]_netVars
             PROVE  ConflictInv'
  OBVIOUS
<1>0. /\ SoftAp \in Servers /\ Servers \cap Externals = {} /\ "none" \notin Servers
      /\ Servers \subseteq Net!Netifs /\ Externals \subseteq Net!Netifs
  BY DEF Net!NetifAssumption, Net!Nobody, Net!Netifs
<1>1. CASE UNCHANGED << bridge_link, making, addr, exhausted, raced, upd >> /\ (lateCheck => lateCheck')
           /\ \A e \in Externals : Pending(e) => Pending(e)'
  BY <1>0, <1>1, ConflictKept, ListKept DEF Live, Ahead, GoneWrong
<1>2. CASE Net!Join \/ Net!Joined \/ UNCHANGED netVars \/ \E c \in Refusals : Net!esp_bridge_network_segment_check_register(c)
  <2>1. /\ UNCHANGED << bridge_link, making, addr, exhausted, raced, upd >> /\ (lateCheck => lateCheck')
        /\ \/ UNCHANGED events
           \/ events' = Append(events, SoftAp)
           \/ events # << >> /\ Head(events) = SoftAp /\ events' = Tail(events)
    <3>1. CASE Net!Join
      BY <3>1 DEF Net!Join
    <3>2. CASE Net!Joined
      BY <3>2 DEF Net!Joined
    <3>3. CASE UNCHANGED netVars
      BY <3>3 DEF netVars
    <3>4. ASSUME NEW c \in Refusals, Net!esp_bridge_network_segment_check_register(c)
          PROVE  UNCHANGED << bridge_link, making, addr, exhausted, raced, upd, events >> /\ (lateCheck => lateCheck')
      BY <3>4 DEF Net!esp_bridge_network_segment_check_register
    <3>5. QED
      BY <1>2, <3>1, <3>2, <3>3, <3>4
  <2>3. \A e \in Externals : Pending(e) => Pending(e)'
    <3>1. CASE UNCHANGED events
      BY <3>1 DEF Pending
    <3>2. CASE events' = Append(events, SoftAp)
      BY <3>2, EventComes
    <3>3. CASE events # << >> /\ Head(events) = SoftAp /\ events' = Tail(events)
      BY <1>0, <3>3, EventGoes
    <3>4. QED
      BY <2>1, <3>1, <3>2, <3>3
  <2>4. QED
    BY <1>1, <2>1, <2>3
<1>3. CASE Net!GotIp
  <2>1. /\ UNCHANGED << bridge_link, making, addr, exhausted, raced, lateCheck >>
        /\ events # << >> /\ events' = Tail(events)
        /\ upd' = [pc |-> "scan", for |-> Head(events), pos |-> 1, used |-> FALSE] /\ upd.pc = "rest"
    BY <1>3 DEF Net!GotIp
  <2>2. PICK n : n = Head(events)
    OBVIOUS
  <2>3. \A e : Pending(e) /\ e # n => Pending(e)'
    BY <2>1, <2>2, EventGoes
  <2>4. upd'.pc = "scan" /\ upd'.for = n /\ upd'.pos = 1 /\ ~upd'.used
    BY <2>1, <2>2
  <2>5. \A p \in Net!Listed : Ahead(p, n)'
    <3>1. ASSUME NEW p \in Net!Listed
          PROVE  \E i \in 1 .. Len(bridge_link) : i >= 1 /\ bridge_link[i] = p
      BY ListedIs
    <3>2. QED
      BY <2>1, <2>4, <3>1 DEF Ahead
  <2>6. \A p, e : ~Ahead(p, e)
    BY <2>1 DEF Ahead
  <2>7. Net!Listed' = Net!Listed /\ \A p : Live(p)' <=> Live(p)
    BY <2>1, ListKept DEF Live
  <2>8. \A e \in Externals : Pending(e) => Pending(e)' \/ (\A p \in Servers : p \in Net!Listed => Ahead(p, e)')
    BY <2>3, <2>5
  <2>9. QED
    BY <1>0, <2>1, <2>4, <2>6, <2>7, <2>8, ConflictKept DEF GoneWrong
<1>4. ASSUME NEW works \in BOOLEAN, Net!Deauth(works)
      PROVE  ConflictInv'
  <2>1. /\ UNCHANGED << bridge_link, making, addr, exhausted, raced, lateCheck, events >>
        /\ upd'.pc = "rest" /\ upd.pc = "moved"
    BY <1>4 DEF Net!Deauth, Net!Resting
  <2>2. QED
    BY <1>0, <2>1, ConflictKept, ListKept DEF Live, GoneWrong, Ahead, Pending
<1>5. CASE Net!AddToList
  <2>1. /\ making \in Servers /\ making \in Net!Netifs /\ bridge_link' = Append(bridge_link, making) /\ making' = "none"
        /\ UNCHANGED << addr, exhausted, raced, lateCheck, events, upd >>
    BY <1>0, <1>5 DEF Net!AddToList, NetTypeInv, Net!Nobody
  <2>2. /\ Net!Listed' = Net!Listed \cup {making} /\ Len(bridge_link') = Len(bridge_link) + 1 /\ Len(bridge_link) \in Nat
        /\ \A i \in 1 .. Len(bridge_link) : bridge_link'[i] = bridge_link[i]
    BY <2>1, ListGrows, ListedIs
  <2>3. \A p, e : Ahead(p, e) => Ahead(p, e)'
    BY <2>1, <2>2 DEF Ahead
  <2>4. \A p \in Servers : Live(p)' => Live(p)
    BY <1>0, <2>1, <2>2 DEF Live
  <2>5. \A e \in Externals : (Pending(e) => Pending(e)') /\ (e \in Net!Listed' => e \in Net!Listed)
    BY <1>0, <2>1, <2>2 DEF Pending
  <2>6. QED
    BY <1>0, <2>1, <2>2, <2>3, <2>4, <2>5, ConflictKept DEF GoneWrong
<1>6. ASSUME NEW n \in Externals, Net!CreateExternal(n)
      PROVE  ConflictInv'
  <2>1. /\ n \in Net!Netifs /\ n \notin Servers /\ bridge_link' = Append(bridge_link, n) /\ making' = making /\ n \notin Net!Listed
        /\ UNCHANGED << addr, exhausted, raced, lateCheck, events, upd >>
    BY <1>0, <1>6 DEF Net!CreateExternal
  <2>2. /\ Net!Listed' = Net!Listed \cup {n} /\ Len(bridge_link') = Len(bridge_link) + 1 /\ Len(bridge_link) \in Nat
        /\ \A i \in 1 .. Len(bridge_link) : bridge_link'[i] = bridge_link[i]
    BY <2>1, ListGrows, ListedIs
  <2>3. \A p, e : Ahead(p, e) => Ahead(p, e)'
    BY <2>1, <2>2 DEF Ahead
  <2>4. \A p \in Servers : Live(p)' => Live(p)
    BY <1>0, <2>1, <2>2 DEF Live
  <2>5. addr[n] = Net!NoAddr
    BY <2>1 DEF ConflictInv
  <2>6. \A e \in Externals : (Pending(e) => Pending(e)') /\ (e \in Net!Listed' => e \in Net!Listed \/ addr[e] = Net!NoAddr)
    BY <2>1, <2>2, <2>5 DEF Pending
  <2>7. QED
    BY <1>0, <2>1, <2>2, <2>3, <2>4, <2>6, ConflictKept DEF GoneWrong
<1>7. ASSUME NEW n \in Servers, Net!Create(n)
      PROVE  ConflictInv'
  <2>1. /\ Net!Address(n, Net!NoAddr) /\ Net!NoAddr \in Net!Addresses
        /\ making = "none" /\ making' = n /\ n \notin Net!Listed
        /\ UNCHANGED << bridge_link, checks, raced, lateCheck, events, upd >>
    BY <1>7 DEF Net!Create, Net!Nobody, Net!Addresses
  <2>2. QED
    BY <2>1, ConflictMade
<1>8. ASSUME NEW a \in Net!Addresses, Net!CreateSoftap(a)
      PROVE  ConflictInv'
  <2>1. /\ Net!Address(SoftAp, a) /\ making = "none" /\ making' = SoftAp /\ SoftAp \notin Net!Listed
        /\ UNCHANGED << bridge_link, checks, raced, lateCheck, events, upd >>
    BY <1>8 DEF Net!CreateSoftap, Net!Nobody
  <2>2. QED
    BY <1>0, <2>1, ConflictMade
<1>9. ASSUME NEW n \in Externals, NEW a \in Net!Addresses, Net!Lease(n, a)
      PROVE  ConflictInv'
  <2>1. /\ n \in Net!Listed /\ addr' = [addr EXCEPT ![n] = a] /\ events' = Append(events, n)
        /\ raced' = (raced \/ making # "none") /\ UNCHANGED << bridge_link, making, upd, exhausted, lateCheck >>
    BY <1>9 DEF Net!Lease, Net!Nobody
  <2>2. \A m \in Net!Netifs : m # n => addr'[m] = addr[m]
    BY <1>0, <2>1 DEF NetTypeInv
  <2>3. Pending(n)' /\ \A m : Pending(m) => Pending(m)'
    BY <2>1, EventComes
  <2>4. /\ \A p \in Servers : p # n /\ (Live(p)' => Live(p)) /\ addr'[p] = addr[p]
        /\ \A p, e : Ahead(p, e) => Ahead(p, e)'
        /\ Net!Listed' = Net!Listed
    BY <1>0, <2>1, <2>2, ListKept DEF Live, Ahead
  <2>5. QED
    BY <1>0, <2>1, <2>2, <2>3, <2>4 DEF ConflictInv
<1>10. ASSUME NEW n \in Externals, Net!Disconnected(n)
       PROVE  ConflictInv'
  <2>1. /\ n \in Net!Listed /\ addr' = [addr EXCEPT ![n] = Net!NoAddr]
        /\ UNCHANGED << bridge_link, making, upd, events, raced, exhausted, lateCheck >>
    BY <1>10 DEF Net!Disconnected
  <2>2. addr'[n] = Net!NoAddr /\ \A m \in Net!Netifs : m # n => addr'[m] = addr[m]
    BY <1>0, <2>1 DEF NetTypeInv
  <2>3. /\ \A p \in Servers : p # n /\ (Live(p)' => Live(p)) /\ addr'[p] = addr[p]
        /\ \A p, e : Ahead(p, e) \/ Pending(e) => Ahead(p, e)' \/ Pending(e)'
        /\ Net!Listed' = Net!Listed
    BY <1>0, <2>1, <2>2, ListKept DEF Live, Ahead, Pending
  <2>4. \A p \in Servers : Live(p) /\ ~exhausted => addr[p] # Net!NoAddr
    BY DEF ServerInv
  <2>5. QED
    BY <1>0, <2>1, <2>2, <2>3, <2>4 DEF ConflictInv
<1>11. CASE Net!Scan
  <2>1. UNCHANGED << bridge_link, making, events, checks, lateCheck >> /\ upd.pc = "scan" /\ upd.for \in Externals
    BY <1>11 DEF Net!Scan, NetTypeInv
  <2>2. /\ Net!Listed' = Net!Listed /\ \A p : (Live(p)' <=> Live(p)) /\ (Pending(p)' <=> Pending(p))
    BY <2>1, ListKept DEF Live, Pending
  <2>3. CASE upd.pos > Len(bridge_link) /\ upd' = Net!Resting /\ UNCHANGED << addr, raced, exhausted >>
    <3>1. \A p, e : ~Ahead(p, e)
      BY <2>3, ListedIs DEF Ahead, NetTypeInv
    <3>2. upd'.pc = "rest"
      BY <2>3 DEF Net!Resting
    <3>3. QED
      BY <1>0, <2>1, <2>2, <2>3, <3>1, <3>2, ConflictKept DEF GoneWrong
  <2>4. CASE upd' = Net!Resting /\ exhausted' = TRUE /\ UNCHANGED << addr, raced >>
    BY <2>2, <2>4 DEF ConflictInv
  <2>5. ASSUME NEW q, q = bridge_link[upd.pos], upd.pos \in 1 .. Len(bridge_link), ScanPasses(q)
        PROVE  ConflictInv'
    <3>1. /\ UNCHANGED << addr, raced, exhausted >> /\ upd'.pc = "scan" /\ upd'.for = upd.for /\ upd'.pos = upd.pos + 1
          /\ q \in Net!Listed
      <4>1. upd' \in {[upd EXCEPT !.pos = upd.pos + 1], [upd EXCEPT !.pos = upd.pos + 1, !.used = Net!Used(q)]}
        BY <2>5 DEF ScanPasses
      <4>2. upd'.pc = "scan" /\ upd'.for = upd.for /\ upd'.pos = upd.pos + 1
        BY <2>1, <4>1 DEF NetTypeInv
      <4>3. QED
        BY <2>5, <4>2, ListedIs DEF ScanPasses
    <3>2. (upd.pc = "scan" => ~upd.used) => ~upd'.used
      <4>1. \/ upd' = [upd EXCEPT !.pos = upd.pos + 1]
            \/ ~Net!Used(q) /\ upd' = [upd EXCEPT !.pos = upd.pos + 1, !.used = Net!Used(q)]
        BY <2>5 DEF ScanPasses, Net!InConflict
      <4>2. upd'.used = upd.used \/ ~upd'.used
        BY <4>1 DEF NetTypeInv
      <4>3. QED
        BY <2>1, <4>2
    <3>3. \A p \in Servers, e \in Externals : Ahead(p, e) /\ addr[p] = addr[e] => Ahead(p, e)'
      <4>1. SUFFICES ASSUME NEW p \in Servers, NEW e \in Externals, Ahead(p, e), addr[p] = addr[e]
                     PROVE  Ahead(p, e)'
        OBVIOUS
      <4>2. PICK i \in 1 .. Len(bridge_link) : i >= upd.pos /\ bridge_link[i] = p
        BY <4>1 DEF Ahead
      <4>3. upd.for = e
        BY <4>1 DEF Ahead
      <4>4. p # q
        BY <1>0, <2>5, <4>1, <4>3 DEF ScanPasses, Net!Skipped, Net!InConflict, Net!SameSegment
      <4>5. i >= upd.pos + 1
        BY <2>5, <4>2, <4>4, ListedIs
      <4>6. QED
        BY <2>1, <3>1, <4>2, <4>3, <4>5 DEF Ahead
    <3>4. QED
      BY <1>0, <2>1, <2>2, <3>1, <3>2, <3>3, ConflictKept DEF GoneWrong
  <2>6. ASSUME NEW q, q = bridge_link[upd.pos], upd.pos \in 1 .. Len(bridge_link), ScanMoves(q)
        PROVE  ConflictInv'
    <3>1. /\ q \in Servers /\ q \in Net!Listed /\ q \in Net!Netifs /\ exhausted' = exhausted
          /\ raced' = (raced \/ making # "none") /\ upd'.pc # "scan"
      <4>1. upd'.pc \in {"moved", "rest"}
        BY <2>6 DEF ScanMoves, Net!Resting, NetTypeInv
      <4>2. QED
        BY <1>0, <2>6, <4>1, ListedIs DEF ScanMoves, Net!Skipped, Net!Nobody
    <3>2. addr'[q] = Net!request_ip /\ \A m \in Net!Netifs : m # q => addr'[m] = addr[m]
      BY <2>6, <3>1 DEF ScanMoves, NetTypeInv
    <3>3. /\ Net!request_ip # Net!NoAddr
          /\ \A n \in Net!Listed : addr[n] # Net!request_ip
      BY <2>6, SegmentFound DEF ScanMoves
    <3>4. \A e \in Externals : e # q /\ addr'[e] = addr[e] /\ addr[e] # addr'[q]
      BY <1>0, <3>1, <3>2, <3>3 DEF ConflictInv
    <3>5. ASSUME ~GoneWrong', NEW p \in Servers, NEW e \in Externals, Live(p), p # q, addr[p] = addr[e]
          PROVE  Pending(e) /\ p # making
      <4>1. ~GoneWrong /\ making = "none" /\ p \in Net!Listed
        BY <1>0, <2>1, <3>1, <3>5 DEF GoneWrong, Live
      <4>2. ~Net!Used(q)
        BY <2>1, <3>1, <4>1, NoVerdict
      <4>3. addr[q] = addr[upd.for]
        BY <2>6, <4>2 DEF ScanMoves, Net!InConflict, Net!SameSegment
      <4>4. addr[p] # addr[q]
        BY <3>1, <3>5, <4>1 DEF ServerInv, GoneWrong, Live
      <4>5. ~Ahead(p, e)
        BY <3>5, <4>3, <4>4 DEF Ahead
      <4>6. QED
        BY <3>5, <4>1, <4>5 DEF ConflictInv, GoneWrong
    <3>6. ASSUME ~GoneWrong'
          PROVE  q # making
      BY <1>0, <3>1, <3>6 DEF GoneWrong
    <3>7. \A p \in Servers : p # q => addr'[p] = addr[p]
      BY <1>0, <3>2
    <3>8. QED
      BY <2>1, <2>2, <3>1, <3>4, <3>5, <3>6, <3>7 DEF ConflictInv, GoneWrong
  <2>7. QED
    BY <1>11, <2>3, <2>4, <2>5, <2>6, ScanCases
<1>12. QED
  BY <1>2, <1>3, <1>4, <1>5, <1>6, <1>7, <1>8, <1>9, <1>10, <1>11 DEF Net!Next
-----------------------------------------------------------------------------
(* The clients of the soft AP *)

\* Clients have a lease in the segment of the soft AP, while it moves in the one it had; their
\* addresses are translated, or an event is going to see to that.
ClientInv ==
    /\ clients # {} => SoftAp \in Net!Listed /\ (napt \/ Pending(SoftAp))
    /\ ~kept => \A c \in clients : c = addr[SoftAp] \/ upd.pc = "moved"

LEMMA ClientKept ==
    ASSUME ClientInv, UNCHANGED << clients, kept >>, napt => napt', Net!Listed \subseteq Net!Listed',
           Pending(SoftAp) => Pending(SoftAp)' \/ napt',
           clients # {} => \/ addr'[SoftAp] = addr[SoftAp] /\ (upd.pc = "moved" => upd'.pc = "moved")
                           \/ upd'.pc = "moved"
    PROVE  ClientInv'
  BY DEF ClientInv

LEMMA ClientStep == Net!NetifAssumption /\ NetTypeInv /\ ClientInv /\ [Net!Next]_netVars => ClientInv'
<1> SUFFICES ASSUME Net!NetifAssumption, NetTypeInv, ClientInv, [Net!Next]_netVars
             PROVE  ClientInv'
  OBVIOUS
<1>0. /\ SoftAp \in Servers /\ Servers \cap Externals = {} /\ "none" \notin Servers
      /\ Servers \subseteq Net!Netifs /\ Externals \subseteq Net!Netifs
  BY DEF Net!NetifAssumption, Net!Nobody, Net!Netifs
<1>1. ASSUME UNCHANGED << clients, kept, napt, events >>, Net!Listed \subseteq Net!Listed',
             clients # {} => \/ addr'[SoftAp] = addr[SoftAp] /\ (upd.pc = "moved" => upd'.pc = "moved")
                             \/ upd'.pc = "moved"
      PROVE  ClientInv'
  <2>1. Pending(SoftAp)' <=> Pending(SoftAp)
    BY <1>1 DEF Pending
  <2>2. QED
    BY <1>1, <2>1, ClientKept
<1>2. CASE UNCHANGED netVars
  BY <1>1, <1>2, ListKept DEF netVars
<1>3. ASSUME NEW c \in Refusals, Net!esp_bridge_network_segment_check_register(c)
      PROVE  ClientInv'
  BY <1>1, <1>3, ListKept DEF Net!esp_bridge_network_segment_check_register
<1>4. ASSUME NEW n \in Servers, Net!Create(n)
      PROVE  ClientInv'
  <2>1. /\ Net!Address(n, Net!NoAddr) /\ Net!NoAddr \in Net!Addresses /\ n # SoftAp
        /\ UNCHANGED << clients, kept, napt, events, bridge_link, upd >>
    BY <1>4 DEF Net!Create, Net!Addresses
  <2>2. addr'[SoftAp] = addr[SoftAp]
    BY <1>0, <2>1, AddressGiven
  <2>3. QED
    BY <1>1, <2>1, <2>2, ListKept
<1>5. ASSUME NEW a \in Net!Addresses, Net!CreateSoftap(a)
      PROVE  ClientInv'
  <2>1. UNCHANGED << clients, kept, napt, events, bridge_link, upd >> /\ SoftAp \notin Net!Listed
    BY <1>5 DEF Net!CreateSoftap
  <2>2. clients = {}
    BY <2>1 DEF ClientInv
  <2>3. QED
    BY <1>1, <2>1, <2>2, ListKept
<1>6. CASE Net!AddToList
  <2>1. /\ making \in Net!Netifs /\ bridge_link' = Append(bridge_link, making)
        /\ UNCHANGED << clients, kept, napt, events, upd, addr >>
    BY <1>0, <1>6 DEF Net!AddToList, NetTypeInv, Net!Nobody
  <2>2. Net!Listed' = Net!Listed \cup {making}
    BY <2>1, ListGrows
  <2>3. QED
    BY <1>1, <2>1, <2>2
<1>7. ASSUME NEW n \in Externals, Net!CreateExternal(n)
      PROVE  ClientInv'
  <2>1. /\ n \in Net!Netifs /\ bridge_link' = Append(bridge_link, n)
        /\ UNCHANGED << clients, kept, napt, events, upd, addr >>
    BY <1>0, <1>7 DEF Net!CreateExternal
  <2>2. Net!Listed' = Net!Listed \cup {n}
    BY <2>1, ListGrows
  <2>3. QED
    BY <1>1, <2>1, <2>2
<1>8. ASSUME NEW n \in Externals, NEW a \in Net!Addresses, Net!Lease(n, a)
      PROVE  ClientInv'
  <2>1. /\ addr' = [addr EXCEPT ![n] = a] /\ events' = Append(events, n)
        /\ UNCHANGED << clients, kept, napt, bridge_link, upd >>
    BY <1>8 DEF Net!Lease
  <2>2. addr'[SoftAp] = addr[SoftAp]
    BY <1>0, <2>1 DEF NetTypeInv
  <2>3. Pending(SoftAp) => Pending(SoftAp)'
    BY <2>1, EventComes
  <2>4. QED
    BY <2>1, <2>2, <2>3, ClientKept, ListKept
<1>9. ASSUME NEW n \in Externals, Net!Disconnected(n)
      PROVE  ClientInv'
  <2>1. /\ addr' = [addr EXCEPT ![n] = Net!NoAddr]
        /\ UNCHANGED << clients, kept, napt, events, bridge_link, upd >>
    BY <1>9 DEF Net!Disconnected
  <2>2. addr'[SoftAp] = addr[SoftAp]
    BY <1>0, <2>1 DEF NetTypeInv
  <2>3. QED
    BY <1>1, <2>1, <2>2, ListKept
<1>10. CASE Net!Join
  <2>1. /\ SoftAp \in Net!Listed /\ clients' = clients \cup {addr[SoftAp]} /\ events' = Append(events, SoftAp)
        /\ UNCHANGED << addr, upd, kept, bridge_link, napt >>
    BY <1>10 DEF Net!Join
  <2>2. Pending(SoftAp)' /\ SoftAp \in Net!Listed'
    BY <2>1, EventComes, ListKept
  <2>3. QED
    BY <2>1, <2>2 DEF ClientInv
<1>11. CASE Net!GotIp
  <2>1. /\ events # << >> /\ Head(events) \in Externals /\ events' = Tail(events) /\ upd.pc = "rest"
        /\ UNCHANGED << addr, clients, kept, bridge_link, napt >>
    BY <1>11 DEF Net!GotIp
  <2>2. Pending(SoftAp) => Pending(SoftAp)'
    BY <1>0, <2>1, EventGoes
  <2>3. QED
    BY <2>1, <2>2, ClientKept, ListKept
<1>12. CASE Net!Joined
  <2>1. napt' = TRUE /\ UNCHANGED << addr, clients, kept, bridge_link, upd >>
    BY <1>12 DEF Net!Joined
  <2>2. QED
    BY <2>1, ClientKept, ListKept
<1>13. CASE Net!Scan
  <2>1. UNCHANGED << clients, kept, napt, events, bridge_link >> /\ upd.pc = "scan"
    BY <1>13 DEF Net!Scan
  <2>2. \/ UNCHANGED addr
        \/ \E q : q # SoftAp /\ addr' = [addr EXCEPT ![q] = Net!request_ip]
        \/ upd' = [upd EXCEPT !.pc = "moved"]
    BY <1>13, ScanCases DEF ScanPasses, ScanMoves
  <2>3. addr'[SoftAp] = addr[SoftAp] \/ upd'.pc = "moved"
    BY <1>0, <2>2 DEF NetTypeInv
  <2>4. QED
    BY <1>1, <2>1, <2>3, ListKept
<1>14. ASSUME NEW works \in BOOLEAN, Net!Deauth(works)
       PROVE  ClientInv'
  <2>1. /\ UNCHANGED << addr, bridge_link, events, napt >>
        /\ clients' \subseteq clients /\ (clients' = {} \/ kept')
    BY <1>14 DEF Net!Deauth
  <2>2. (Pending(SoftAp)' <=> Pending(SoftAp)) /\ Net!Listed' = Net!Listed
    BY <2>1, ListKept DEF Pending
  <2>3. QED
    BY <2>1, <2>2 DEF ClientInv
<1>15. QED
  BY <1>2, <1>3, <1>4, <1>5, <1>6, <1>7, <1>8, <1>9, <1>10, <1>11, <1>12, <1>13, <1>14 DEF Net!Next

-----------------------------------------------------------------------------
(* MAC addresses *)

\* The addresses that the search goes through.
LEMMA MacsTried ==
    /\ Net!NthMac[0] = << 0, 0, 3 >> /\ Net!NthMac[1] = << 0, 0, 0 >> /\ Net!NthMac[2] = << 1, 1, 1 >>
    /\ Net!NthMac[3] = << 2, 2, 2 >> /\ Net!NthMac[4] = << 3, 3, 3 >>
<1> DEFINE Given(f) == [n \in 0 .. 4 |-> IF n = 0 THEN Net!BaseMac ELSE Net!NextMac(f[n - 1])]
           g == [n \in 0 .. 4 |-> IF n = 0 THEN << 0, 0, 3 >> ELSE << n - 1, n - 1, n - 1 >>]
<1>1. Net!BaseMac = << 0, 0, 3 >>
  BY DEF Net!BaseMac, Net!MacByte
<1>2. /\ Net!NextMac(<< 0, 0, 3 >>) = << 0, 0, 0 >> /\ Net!NextMac(<< 0, 0, 0 >>) = << 1, 1, 1 >>
      /\ Net!NextMac(<< 1, 1, 1 >>) = << 2, 2, 2 >> /\ Net!NextMac(<< 2, 2, 2 >>) = << 3, 3, 3 >>
  BY DEF Net!NextMac, Net!MacByte
<1>3. /\ g[0] = << 0, 0, 3 >> /\ g[1] = << 0, 0, 0 >> /\ g[2] = << 1, 1, 1 >>
      /\ g[3] = << 2, 2, 2 >> /\ g[4] = << 3, 3, 3 >>
  OBVIOUS
<1>4. 0 .. 4 = {0, 1, 2, 3, 4}
  OBVIOUS
<1>5. ASSUME NEW n \in 0 .. 4
      PROVE  g[n] = IF n = 0 THEN Net!BaseMac ELSE Net!NextMac(g[n - 1])
  <2>1. n \in {0, 1, 2, 3, 4}
    BY <1>4
  <2>. HIDE DEF g
  <2>2. CASE n = 0
    BY <1>1, <1>3, <2>2
  <2>3. CASE n # 0
    <3>1. Net!NextMac(g[0]) = g[1] /\ Net!NextMac(g[1]) = g[2] /\ Net!NextMac(g[2]) = g[3] /\ Net!NextMac(g[3]) = g[4]
      BY <1>2, <1>3
    <3>2. QED
      BY <2>1, <2>3, <3>1
  <2>4. QED
    BY <2>2, <2>3
<1>6. g = Given(g)
  <2>1. DOMAIN g = 0 .. 4 /\ g = [n \in 0 .. 4 |-> g[n]]
    OBVIOUS
  <2>. HIDE DEF g
  <2>2. QED
    BY <1>5, <2>1, Zenon
<1>7. Net!NthMac = CHOOSE f : f = Given(f)
  BY Zenon DEF Net!NthMac, Net!MacByte
<1>8. Net!NthMac = Given(Net!NthMac)
  <2>. HIDE DEF g, Given
  <2>1. QED
    BY <1>6, <1>7, Zenon
<1>9. /\ Net!NthMac[0] = Net!BaseMac /\ Net!NthMac[1] = Net!NextMac(Net!NthMac[0]) /\ Net!NthMac[2] = Net!NextMac(Net!NthMac[1])
      /\ Net!NthMac[3] = Net!NextMac(Net!NthMac[2]) /\ Net!NthMac[4] = Net!NextMac(Net!NthMac[3])
  <2>1. ASSUME NEW n \in 0 .. 4
        PROVE  Net!NthMac[n] = IF n = 0 THEN Net!BaseMac ELSE Net!NextMac(Net!NthMac[n - 1])
    BY <1>8, Zenon
  <2>2. QED
    BY <1>4, <2>1
<1>10. QED
  BY <1>1, <1>2, <1>9

LEMMA NetCardinality == ASSUME NEW S PROVE Net!Cardinality(S) = Cardinality(S)
  BY Zenon DEF Net!Cardinality, Cardinality

\* Externals have the base address, and the MAC address of a server differs from those of the
\* interfaces that were there when it was asked for.
MacInv ==
    /\ \A e \in Externals : e \in Net!Listed => mac[e] = Net!BaseMac
    /\ making \in Servers \ {SoftAp} => \A p \in Net!Listed : mac[p] # mac[making]
    /\ Net!MacsDiffer

\* The search finds an address that nobody in the list has.
LEMMA MacFound ==
    ASSUME Net!NetifAssumption, NetTypeInv, MacInv, NEW n \in Servers, n \notin Net!Listed
    PROVE  ~Net!mac_is_used(Net!request_mac)
<1> DEFINE Unused == {k \in 0 .. 4 : ~Net!mac_is_used(Net!NthMac[k])}
<1>1. Unused # {}
  <2>1. SUFFICES ASSUME \A k \in 0 .. 4 : \E p \in Net!Listed : mac[p] = Net!NthMac[k]
                 PROVE  FALSE
    BY DEF Net!mac_is_used
  <2> DEFINE f == [k \in 1 .. 4 |-> CHOOSE p \in Net!Listed : mac[p] = Net!NthMac[k]]
  <2>2. \A k \in 1 .. 4 : f[k] \in Net!Listed /\ mac[f[k]] = Net!NthMac[k]
    <3>1. \A k \in 1 .. 4 : k \in 0 .. 4
      OBVIOUS
    <3>2. QED
      BY <2>1, <3>1, Zenon
  <2>3. f = [k \in 1 .. 4 |-> f[k]]
    OBVIOUS
  <2>. HIDE DEF f
  <2>4. 1 .. 4 = {1, 2, 3, 4}
    OBVIOUS
  <2>5. \A j, k \in 1 .. 4 : Net!NthMac[k] # Net!BaseMac /\ (j # k => Net!NthMac[j] # Net!NthMac[k])
    BY <2>4, MacsTried DEF Net!BaseMac, Net!MacByte
  <2>6. \A k \in 1 .. 4 : f[k] \in Servers \ {n}
    BY <2>2, <2>5, ListedIs DEF MacInv, Net!Netifs
  <2>7. f \in [1 .. 4 -> Servers \ {n}]
    BY <2>3, <2>6, Zenon
  <2>8. /\ IsFiniteSet(Servers \ {n}) /\ Cardinality(Servers \ {n}) = Cardinality(Servers) - 1
        /\ Cardinality(Servers) \in Nat /\ Cardinality(Servers) <= 4
        /\ IsFiniteSet(1 .. 4) /\ Cardinality(1 .. 4) = 4
    <3>1. IsFiniteSet(Servers) /\ Cardinality(Servers) <= 4
      BY NetCardinality DEF Net!NetifAssumption, Net!MacByte, Net!IsFiniteSet, IsFiniteSet
    <3>2. IsFiniteSet(1 .. 4) /\ Cardinality(1 .. 4) = 4
      <4>1. 1 \in Int /\ 4 \in Int
        OBVIOUS
      <4>2. IsFiniteSet(1 .. 4) /\ Cardinality(1 .. 4) = IF 1 > 4 THEN 0 ELSE 4 - 1 + 1
        BY <4>1, FS_Interval, Zenon
      <4>3. QED
        BY <4>2
    <3>3. QED
      BY <3>1, <3>2, FS_RemoveElement, FS_CardinalityType
  <2>9. Cardinality(Servers \ {n}) < Cardinality(1 .. 4)
    BY ONLY <2>8
  <2>10. \E j, k \in 1 .. 4 : j # k /\ f[j] = f[k]
    <3>1. PICK S : S = 1 .. 4
      OBVIOUS
    <3>2. PICK T : T = Servers \ {n}
      OBVIOUS
    <3>3. /\ IsFiniteSet(S) /\ IsFiniteSet(T) /\ f \in [S -> T]
          /\ Cardinality(T) < Cardinality(S)
      BY <2>7, <2>8, <2>9, <3>1, <3>2
    <3>4. \E j, k \in S : j # k /\ f[j] = f[k]
      BY ONLY <3>3, FS_PigeonHole
    <3>5. QED
      BY <3>1, <3>4
  <2>11. QED
    <3>1. PICK j, k \in 1 .. 4 : j # k /\ f[j] = f[k]
      BY <2>10
    <3>2. QED
      BY <2>2, <2>5, <3>1
<1>2. Unused \in SUBSET Nat
  OBVIOUS
<1>3. PICK m \in Unused : \A k \in Unused : m <= k
  <2>. HIDE DEF Unused
  <2>1. QED
    BY <1>1, <1>2, Smallest
<1>4. m \in 0 .. 4 /\ ~Net!mac_is_used(Net!NthMac[m]) /\ \A k \in 0 .. m - 1 : Net!mac_is_used(Net!NthMac[k])
  <2>1. ASSUME NEW k \in 0 .. m - 1
        PROVE  k \in 0 .. 4 /\ ~(m <= k)
    OBVIOUS
  <2>2. QED
    BY <1>3, <2>1
<1>5. QED
  BY <1>4, Zenon DEF Net!request_mac, Net!MacByte

\* A server that is made has the address it asked for.
LEMMA MacKept ==
    ASSUME MacInv, UNCHANGED << bridge_link, mac >>, making' \in {making, "none"}, "none" \notin Servers
    PROVE  MacInv'
  BY ListKept DEF MacInv, Net!MacsDiffer

LEMMA MacStep == Net!NetifAssumption /\ NetTypeInv /\ MacInv /\ [Net!Next]_netVars => MacInv'
<1> SUFFICES ASSUME Net!NetifAssumption, NetTypeInv, MacInv, [Net!Next]_netVars
             PROVE  MacInv'
  OBVIOUS
<1>0. /\ SoftAp \in Servers /\ Servers \cap Externals = {} /\ "none" \notin Servers
      /\ Servers \subseteq Net!Netifs /\ Externals \subseteq Net!Netifs
  BY DEF Net!NetifAssumption, Net!Nobody, Net!Netifs
<1>1. CASE UNCHANGED << bridge_link, mac, making >>
  BY <1>0, <1>1, MacKept
<1>2. CASE Net!Join \/ Net!Joined \/ Net!GotIp \/ Net!Scan \/ UNCHANGED netVars
  BY <1>1, <1>2 DEF Net!Join, Net!Joined, Net!GotIp, Net!Scan, netVars
<1>3. ASSUME NEW c \in Refusals, Net!esp_bridge_network_segment_check_register(c)
      PROVE  MacInv'
  BY <1>1, <1>3 DEF Net!esp_bridge_network_segment_check_register
<1>4. ASSUME NEW works \in BOOLEAN, Net!Deauth(works)
      PROVE  MacInv'
  BY <1>1, <1>4 DEF Net!Deauth
<1>5. ASSUME NEW n \in Externals, (\E a \in Net!Addresses : Net!Lease(n, a)) \/ Net!Disconnected(n)
      PROVE  MacInv'
  BY <1>1, <1>5 DEF Net!Lease, Net!Disconnected
<1>6. ASSUME NEW n \in Servers, NEW m, n \notin Net!Listed, mac' = [mac EXCEPT ![n] = m], UNCHANGED bridge_link,
             making' = n, n # SoftAp => \A p \in Net!Listed : mac[p] # m
      PROVE  MacInv'
  <2>1. mac'[n] = m /\ \A p \in Net!Listed : mac'[p] = mac[p]
    BY <1>0, <1>6, ListedIs DEF NetTypeInv
  <2>2. \A i \in 1 .. Len(bridge_link) : bridge_link[i] \in Net!Listed
    BY ListedIs
  <2>3. Net!MacsDiffer'
    BY <1>6, <2>1, <2>2 DEF MacInv, Net!MacsDiffer
  <2>4. QED
    BY <1>6, <2>1, <2>3, ListKept DEF MacInv
<1>7. ASSUME NEW n \in Servers, Net!Create(n)
      PROVE  MacInv'
  <2>1. n \notin Net!Listed /\ mac' = [mac EXCEPT ![n] = Net!request_mac] /\ UNCHANGED bridge_link /\ making' = n
    BY <1>7 DEF Net!Create
  <2>2. \A p \in Net!Listed : mac[p] # Net!request_mac
    BY <2>1, MacFound DEF Net!mac_is_used
  <2>3. QED
    BY <1>6, <2>1, <2>2
<1>8. ASSUME NEW a \in Net!Addresses, Net!CreateSoftap(a)
      PROVE  MacInv'
  BY <1>0, <1>6, <1>8 DEF Net!CreateSoftap
<1>9. ASSUME NEW n \in Net!Netifs, n \notin Net!Listed, bridge_link' = Append(bridge_link, n), making' = "none",
             \A p \in Net!Netifs : p # n => mac'[p] = mac[p],
             n \in Externals => mac'[n] = Net!BaseMac,
             n \in Servers \ {SoftAp} => \A p \in Net!Listed : mac[p] # mac'[n]
      PROVE  MacInv'
  <2>1. /\ Len(bridge_link') = Len(bridge_link) + 1 /\ Len(bridge_link) \in Nat
        /\ \A i \in 1 .. Len(bridge_link) : bridge_link'[i] = bridge_link[i]
        /\ bridge_link'[Len(bridge_link) + 1] = n
        /\ Net!Listed' = Net!Listed \cup {n}
    BY <1>9, ListGrows, ListedIs
  <2>2. \A p \in Net!Listed : mac'[p] = mac[p]
    BY <1>9, ListedIs
  <2>3. \A i \in 1 .. Len(bridge_link) : bridge_link[i] \in Net!Listed
    BY ListedIs
  <2>4. Net!MacsDiffer'
    <3>1. SUFFICES ASSUME NEW i \in 1 .. Len(bridge_link) + 1, NEW j \in 1 .. Len(bridge_link) + 1,
                          i < j, bridge_link'[j] \in Servers \ {SoftAp}
                   PROVE  mac'[bridge_link'[i]] # mac'[bridge_link'[j]]
      BY <2>1 DEF Net!MacsDiffer
    <3>2. i \in 1 .. Len(bridge_link) /\ bridge_link'[i] = bridge_link[i] /\ mac'[bridge_link[i]] = mac[bridge_link[i]]
      BY <2>1, <2>2, <2>3, <3>1
    <3>3. CASE j = Len(bridge_link) + 1
      BY <1>9, <2>1, <2>3, <3>1, <3>2, <3>3
    <3>4. CASE j # Len(bridge_link) + 1
      <4>1. j \in 1 .. Len(bridge_link) /\ bridge_link'[j] = bridge_link[j] /\ mac'[bridge_link[j]] = mac[bridge_link[j]]
        BY <2>1, <2>2, <2>3, <3>4
      <4>2. QED
        BY <3>1, <3>2, <4>1 DEF MacInv, Net!MacsDiffer
    <3>5. QED
      BY <3>3, <3>4
  <2>5. QED
    BY <1>0, <1>9, <2>1, <2>2, <2>4 DEF MacInv
<1>10. CASE Net!AddToList
  <2>1. /\ making \in Servers /\ making \notin Net!Listed /\ bridge_link' = Append(bridge_link, making) /\ making' = "none"
        /\ UNCHANGED mac
    BY <1>0, <1>10 DEF Net!AddToList, NetTypeInv, Net!Nobody
  <2>2. QED
    BY <1>0, <1>9, <2>1 DEF MacInv
<1>11. ASSUME NEW n \in Externals, Net!CreateExternal(n)
       PROVE  MacInv'
  <2>1. /\ n \notin Net!Listed /\ bridge_link' = Append(bridge_link, n) /\ making' = "none"
        /\ mac' = [mac EXCEPT ![n] = Net!BaseMac]
    BY <1>11 DEF Net!CreateExternal, Net!Nobody
  <2>2. mac'[n] = Net!BaseMac /\ \A p \in Net!Netifs : p # n => mac'[p] = mac[p]
    BY <1>0, <2>1 DEF NetTypeInv
  <2>3. QED
    BY <1>0, <1>9, <2>1, <2>2
<1>12. QED
  BY <1>2, <1>3, <1>4, <1>5, <1>7, <1>8, <1>10, <1>11 DEF Net!Next

-----------------------------------------------------------------------------
NetInv == NetTypeInv /\ ServerInv /\ ConflictInv /\ ClientInv /\ MacInv

LEMMA NetInit == Net!NetifAssumption /\ Net!Init => NetInv
<1> SUFFICES ASSUME Net!NetifAssumption, Net!Init
             PROVE  NetInv
  OBVIOUS
<1>1. /\ bridge_link = << >> /\ addr = [n \in Net!Netifs |-> Net!NoAddr] /\ mac = [n \in Net!Netifs |-> << >>]
      /\ checks = << >> /\ making = "none" /\ events = << >> /\ clients = {}
      /\ upd = [pc |-> "rest", for |-> "none", pos |-> 0, used |-> FALSE]
  BY DEF Net!Init, Net!Nobody, Net!Resting
<1>2. Net!NoAddr \in Net!Addresses /\ Servers \cup Externals = Net!Netifs /\ "none" \notin Servers
  BY DEF Net!Addresses, Net!Netifs, Net!NetifAssumption, Net!Nobody
<1>3. Net!Listed = {}
  BY <1>1 DEF Net!Listed, Net!ToSet
<1>4. NetTypeInv
  BY <1>1, <1>2, <1>3 DEF NetTypeInv
<1>5. ServerInv /\ ConflictInv
  <2>1. \A p \in Servers : ~Live(p) /\ addr[p] = Net!NoAddr
    BY <1>1, <1>2, <1>3 DEF Live
  <2>2. \A e \in Externals : addr[e] = Net!NoAddr
    BY <1>1, <1>2
  <2>3. QED
    BY <1>1, <2>1, <2>2 DEF ServerInv, ConflictInv
<1>6. ClientInv
  BY <1>1 DEF ClientInv
<1>7. MacInv
  BY <1>1, <1>2, <1>3 DEF MacInv, Net!MacsDiffer
<1>8. QED
  BY <1>4, <1>5, <1>6, <1>7 DEF NetInv

LEMMA NetStep == Net!NetifAssumption /\ NetInv /\ [Net!Next]_netVars => NetInv'
  BY NetTypeStep, ServerStep, ConflictStep, ClientStep, MacStep DEF NetInv

LEMMA NetApart == Net!NetifAssumption /\ NetInv => Net!InterfacesApart
<1> SUFFICES ASSUME Net!NetifAssumption, NetInv
             PROVE  Net!InterfacesApart
  OBVIOUS
<1>0. NetTypeInv /\ ServerInv /\ ConflictInv /\ ClientInv /\ MacInv
  BY DEF NetInv
<1>1. ASSUME Net!Settled
      PROVE  /\ upd.pc = "rest" /\ events = << >> /\ \A n : ~Pending(n) /\ \A p : ~Ahead(p, n)
  <2>1. upd.pc = "rest" /\ events = << >> /\ Len(events) = 0
    BY <1>1 DEF Net!Settled, Net!Resting
  <2>2. QED
    BY <2>1 DEF Pending, Ahead
<1>2. Net!SegmentsApart
  <2>1. SUFFICES ASSUME ~raced, ~exhausted, ~lateCheck, Net!Settled, NEW p \in Net!Listed \cap Servers
                 PROVE  /\ \A q \in Net!Listed \ {p} : addr[q] # Net!NoAddr => addr[p] # addr[q]
                        /\ Net!Passes(addr[p].third)
    BY DEF Net!SegmentsApart, Net!SameSegment
  <2>2. Live(p) /\ addr[p] # Net!NoAddr
    BY <1>0, <2>1 DEF Live, ServerInv
  <2>3. Net!Passes(addr[p].third)
    BY <1>0, <2>1, <2>2 DEF ServerInv
  <2>4. ASSUME NEW q \in Net!Listed \ {p}, addr[q] # Net!NoAddr, addr[p] = addr[q]
        PROVE  FALSE
    <3>1. q \in Servers \/ q \in Externals
      BY <1>0, ListedIs DEF Net!Netifs
    <3>2. CASE q \in Servers
      BY <1>0, <2>1, <2>2, <2>4, <3>2 DEF ServerInv, Live
    <3>3. CASE q \in Externals
      BY <1>0, <1>1, <2>1, <2>2, <2>4, <3>3 DEF ConflictInv
    <3>4. QED
      BY <3>1, <3>2, <3>3
  <2>5. QED
    BY <2>3, <2>4
<1>3. Net!ClientsFollow
  BY <1>0, <1>1 DEF Net!ClientsFollow, ClientInv
<1>4. QED
  BY <1>0, <1>2, <1>3 DEF Net!InterfacesApart, MacInv

LEMMA BridgeNetStep == [MCNext]_allVars => [Net!Next]_netVars
  BY DEF MCNext, WebMoves, ProvMoves, allVars, modemVars, netVars, webVars, provVars

\* For every set of interfaces: once all events have been handled no server shares its segment
\* with another interface, and each passes the checks (unless an address changed while an
\* interface was made, a search failed, or a check came late); the MAC address a server asked
\* for differs from those before it; the clients of the soft AP have a lease in its segment
\* (esp_bridge_netif_network_segment_conflict_update moves one server only).
THEOREM BridgeInterfacesApart == MCSpec => []InterfacesApart
<1>0. Net!NetifAssumption
  BY BridgeAssumption
<1>1. MCInit => NetInv
  BY <1>0, NetInit DEF MCInit
<1>2. NetInv /\ [MCNext]_allVars => NetInv'
  BY <1>0, BridgeNetStep, NetStep
<1>3. NetInv => InterfacesApart
  BY <1>0, NetApart DEF InterfacesApart
<1>4. QED
  BY <1>1, <1>2, <1>3, PTL DEF MCSpec
=============================================================================
