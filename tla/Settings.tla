------------------------------ MODULE Settings ------------------------------
(***************************************************************************)
(* Wi-Fi settings of the application (t3ch_wifi.c) and who changes them: the page     *)
(* /wifi/ of the web server, the console, and the start of the device.  Name and      *)
(* password are two keys of the storage, written one after the other; every writer    *)
(* has a handle of its own and none takes a lock.  The device may be reset at any      *)
(* time; what was written stays.  A scan fills a list of ten records at most.         *)
(***************************************************************************)
EXTENDS Integers, FiniteSets

CONSTANTS
    Found,          \* how many networks a scan may find
    MaxScan,        \* T3CH_WIFI_MAX_SCAN_SIZE
    MaxRequests,    \* bound of the model: changes of settings
    MaxResets,      \* bound of the model: resets
    MaxScans        \* bound of the model: scans

SettingsAssumption ==
    /\ Found \subseteq Nat /\ MaxScan \in Nat \ {0}
    /\ MaxRequests \in Nat /\ MaxResets \in Nat /\ MaxScans \in Nat

Keys == {"ap", "sta"}       \* ap_storage, sta_storage
Tasks == {"http", "console"}
Default == 0                \* AP_SSID and AP_PWD of t3ch_config.h; nothing stored

VARIABLES
    nvs,            \* what is stored: name and password, each by the request it comes from
    running,        \* the settings of the access point in the driver
    station,        \* the settings the station connects with, the request of each
    boot,           \* "ap", "sta", "done": app_main
    writer,         \* of every task: [pc, key, req]
    requests,
    torn,           \* keys whose two parts a failure, a reset or two writers may have parted (history)
    apart,          \* the running access point need not have the stored settings (history)
    leaked,         \* handles of the storage that were not closed
    scanning, scan_running, \* tasks that scan; t3ch_wifi_scan_running
    number, count,  \* t3ch_wifi_scan_number, t3ch_wifi_scan_ap_count
    records,        \* entries of the list that a scan filled
    fewest, twoScan, \* the fewest networks a scan found; two scanned at once (history)
    server,         \* the web server runs
    resets, scans

settings == << nvs, running, station, writer, requests, torn, apart, leaked >>
scanVars == << scanning, scan_running, number, count, records, fewest, twoScan, scans >>
settingsVars == << settings, boot, scanVars, server, resets >>

NoStation == [ssid |-> -2, pwd |-> -2]
Earlier == [ssid |-> -1, pwd |-> -1]
Defaults == [ssid |-> Default, pwd |-> Default]
Effective(stored) == IF stored.ssid = Default THEN Defaults ELSE stored
Resting == [pc |-> "rest", key |-> "ap", req |-> Default]

Init ==
    /\ \E sta \in {Defaults, Earlier} : nvs = [k \in Keys |-> IF k = "ap" THEN Defaults ELSE sta]
    /\ running = Defaults /\ station = NoStation
    /\ boot = "ap" /\ writer = [t \in Tasks |-> Resting]
    /\ requests = 0 /\ torn = {} /\ apart = FALSE /\ leaked = 0
    /\ scanning = {} /\ scan_running = FALSE
    /\ number = MaxScan /\ count = 0 /\ records = 0
    /\ fewest = MaxScan /\ twoScan = FALSE
    /\ server = FALSE
    /\ resets = 0 /\ scans = 0

Rests(t) == writer[t].pc = "rest" /\ t \notin scanning
Step(t, pc) == writer' = [writer EXCEPT ![t].pc = pc]
OthersWrite(t, key) ==
    \E u \in Tasks \ {t} : writer[u].key = key /\ writer[u].pc \in {"ssid", "pwd", "commit"}

-----------------------------------------------------------------------------
(* Start: t3ch_wifi_start_ap, t3ch_wifi_start_sta *)

\* Name and password go to the driver, which is open without a password of 8 characters.
esp_bridge_wifi_set(access) == running' = access

\* Without a stored name the access point has the defaults; without a stored password
\* it is open, for which the stored default stands.  The storage may not open.
t3ch_wifi_start_ap(opened) ==
    /\ boot = "ap"
    /\ esp_bridge_wifi_set(IF opened THEN Effective(nvs["ap"]) ELSE Defaults)
    /\ apart' = (~opened \/ \E t \in Tasks : writer[t].pc # "rest")
    /\ boot' = "sta"
    /\ UNCHANGED << nvs, station, writer, requests, torn, leaked, scanVars, server, resets >>

\* StartSTA, if the storage opens and there is a name.
t3ch_wifi_start_sta(opened) ==
    /\ boot = "sta"
    /\ station' = IF opened /\ nvs["sta"].ssid # Default THEN nvs["sta"] ELSE NoStation
    /\ boot' = "done"
    /\ UNCHANGED << nvs, running, writer, requests, torn, apart, leaked, scanVars, server, resets >>

-----------------------------------------------------------------------------
(* Changes: t3ch_wifi_update_ap, t3ch_wifi_update_sta, do_cmd_ap *)

\* The page can change either, the console the access point.
Asks(t, key) ==
    /\ Rests(t) /\ requests < MaxRequests
    /\ t = "http" => server
    /\ t = "console" => key = "ap"
    /\ requests' = requests + 1
    /\ writer' = [writer EXCEPT ![t] = [pc |-> "ssid", key |-> key, req |-> requests + 1]]
    /\ torn' = IF OthersWrite(t, key) THEN torn \cup {key} ELSE torn
    /\ UNCHANGED << nvs, running, station, apart, leaked, boot, scanVars, server, resets >>

\* nvs_set_str, which stores at once.  The last writer of both parts mends them.
Store(t, part) ==
    LET w == writer[t] IN nvs' = [nvs EXCEPT ![w.key] = [@ EXCEPT ![part] = w.req]]

SetSsid(t) ==
    /\ writer[t].pc = "ssid"
    /\ Store(t, "ssid") /\ Step(t, "pwd")
    /\ apart' = (apart \/ writer[t].key = "ap")
    /\ UNCHANGED << running, station, requests, torn, leaked, boot, scanVars, server, resets >>

SetPwd(t) ==
    /\ writer[t].pc = "pwd"
    /\ Store(t, "pwd") /\ Step(t, "commit")
    /\ torn' = IF OthersWrite(t, writer[t].key) THEN torn
               ELSE IF nvs[writer[t].key].ssid = writer[t].req THEN torn \ {writer[t].key} ELSE torn
    /\ apart' = (apart \/ writer[t].key = "ap")
    /\ UNCHANGED << running, station, requests, leaked, boot, scanVars, server, resets >>

\* The page leaves at the first error, with its handle open; the console reports it and
\* goes on.
NextPc(pc) == CASE pc = "ssid" -> "pwd" [] pc = "pwd" -> "commit" [] OTHER -> "rest"
AfterError_goesOn(t) == NextPc(writer[t].pc)
AfterError(t) == IF t = "http" THEN "rest" ELSE NextPc(writer[t].pc)
Fails(t) ==
    /\ writer[t].pc \in {"ssid", "pwd", "commit"}
    /\ LET w == writer[t] IN
        /\ Step(t, AfterError(t))
        /\ torn' = IF w.pc = "pwd" \/ (t = "console" /\ w.pc = "ssid") THEN torn \cup {w.key} ELSE torn
        /\ leaked' = IF t = "http" THEN leaked + 1 ELSE leaked
        /\ apart' = (apart \/ (w.pc # "ssid" /\ w.key = "ap"))
    /\ UNCHANGED << nvs, running, station, requests, boot, scanVars, server, resets >>

\* The page closes its handle and sets the access point, or restarts the device for the
\* station; what the console changes counts from the next start on.
Commit(t) ==
    /\ writer[t].pc = "commit"
    /\ LET w == writer[t] IN
        \/ /\ t = "console"
           /\ Step(t, "rest") /\ UNCHANGED << running, apart >>
        \/ /\ t = "http" /\ w.key = "ap"
           /\ Step(t, "rest")
           /\ esp_bridge_wifi_set([ssid |-> w.req, pwd |-> w.req])
           /\ apart' = (nvs["ap"] # [ssid |-> w.req, pwd |-> w.req] \/ OthersWrite(t, "ap"))
        \/ /\ t = "http" /\ w.key = "sta"
           /\ Step(t, "restart") /\ UNCHANGED << running, apart >>
    /\ UNCHANGED << nvs, station, requests, torn, leaked, boot, scanVars, server, resets >>

-----------------------------------------------------------------------------
(* esp_restart, or a reset at any time *)

Restart ==
    /\ resets < MaxResets
    /\ resets' = resets + 1
    /\ running' = Defaults /\ station' = NoStation
    /\ torn' = torn \cup { writer[t].key : t \in { u \in Tasks : writer[u].pc = "pwd" } }
    /\ apart' = FALSE /\ leaked' = 0
    /\ boot' = "ap"
    /\ writer' = [t \in Tasks |-> Resting]
    /\ scanning' = {} /\ scan_running' = FALSE
    /\ number' = MaxScan /\ count' = 0 /\ records' = 0 /\ fewest' = MaxScan /\ twoScan' = FALSE
    /\ server' = FALSE
    /\ UNCHANGED << nvs, requests, scans >>

-----------------------------------------------------------------------------
(* t3ch_wifi_scan_start *)

\* The flag is read, the interface may have to be set up, and then the flag is set.
ScanChecks(t) ==
    /\ Rests(t) /\ ~scan_running /\ scans < MaxScans
    /\ t = "http" => server
    /\ scans' = scans + 1
    /\ scanning' = scanning \cup {t}
    /\ twoScan' = (twoScan \/ scanning # {})
    /\ UNCHANGED << settings, boot, scan_running, number, count, records, fewest, server, resets >>

ScanStarts(t) ==
    /\ t \in scanning /\ writer[t].pc = "rest"
    /\ count' = 0 /\ records' = 0
    /\ scan_running' = TRUE
    /\ Step(t, "scan")
    /\ UNCHANGED << nvs, running, station, requests, torn, apart, leaked, boot, scanning, number,
                    fewest, twoScan, scans, server, resets >>

\* esp_wifi_scan_get_ap_records takes the size of the list and returns what it filled
\* in the same variable, which is never set back.
Less(a, b) == IF a < b THEN a ELSE b
Filled(n) == Less(n, number)
ScanEnds(t, n) ==
    /\ t \in scanning /\ writer[t].pc = "scan"
    /\ number' = Filled(n) /\ records' = Filled(n)
    /\ count' = n
    /\ fewest' = Less(n, fewest)
    /\ scan_running' = FALSE
    /\ scanning' = scanning \ {t}
    /\ Step(t, "rest")
    /\ UNCHANGED << nvs, running, station, requests, torn, apart, leaked, boot, twoScan, scans,
                    server, resets >>

\* t3ch_wifi_scan_gen: the list of the page goes by the count, and its entries past
\* those that the scan filled are blank.
t3ch_wifi_scan_gen == [i \in 1 .. Less(count, MaxScan) |-> IF i <= records THEN "network" ELSE "blank"]

-----------------------------------------------------------------------------
(* start_after_gotip *)

\* Every address tries to start the server, which runs from the first time on.
GotIp ==
    /\ boot = "done" /\ station # NoStation /\ ~server
    /\ server' = TRUE
    /\ UNCHANGED << settings, boot, scanVars, resets >>

-----------------------------------------------------------------------------
Task(t) ==
    \/ \E key \in Keys : Asks(t, key)
    \/ SetSsid(t) \/ SetPwd(t) \/ Fails(t) \/ Commit(t)
    \/ ScanChecks(t) \/ ScanStarts(t) \/ \E n \in Found : ScanEnds(t, n)

Next ==
    \/ \E opened \in BOOLEAN : t3ch_wifi_start_ap(opened) \/ t3ch_wifi_start_sta(opened)
    \/ GotIp \/ Restart
    \/ \E t \in Tasks : Task(t)

Spec == Init /\ [][Next]_settingsVars

-----------------------------------------------------------------------------
(* Properties *)

\* Name and password that are stored belong together, unless a writer is between the
\* two, or an error, a reset or two writers at once parted them since they were last
\* written; and after the start the access point has what is stored, unless the
\* console changed that, or the change of the page was not the last or failed.
SettingsMatch ==
    /\ \A k \in Keys : nvs[k].ssid # nvs[k].pwd /\ k \notin torn =>
          \E t \in Tasks : writer[t].key = k /\ writer[t].pc = "pwd"
    /\ boot # "ap" /\ ~apart => running = Effective(nvs["ap"])

\* Unless two tasks saw the flag clear at once, the flag says whether one scans; and
\* the page lists all networks that were found, up to the length of the list, unless
\* an earlier scan since the start found fewer: then the rest of its entries is blank.
ScansApart ==
    ~twoScan =>
        /\ Cardinality(scanning) <= 1
        /\ scan_running <=> \E t \in Tasks : writer[t].pc = "scan"
        /\ ~scan_running => \A i \in DOMAIN t3ch_wifi_scan_gen :
                              t3ch_wifi_scan_gen[i] = "blank" <=> i > fewest
=============================================================================
