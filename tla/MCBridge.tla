------------------------------ MODULE MCBridge ------------------------------
(***************************************************************************)
(* The parts of the bridge (components/) that share no variable: the modem, the *)
(* interfaces, the set-up through the web server and the provisioning.  In a   *)
(* behaviour of the run one of them moves, chosen at its start, while the others *)
(* keep an initial state.                                                *)
(***************************************************************************)
EXTENDS Integers, TLC

CONSTANTS MaxTimeouts, MaxErrors, DialTimes, MaxLines,
          Servers, SoftAp, Externals, Thirds, OtherThirds, Refusals, MaxLeases, MaxChecks,
          Routers, Phone, Virtual, ConnectTime, ScanTimes, MaxCount, Image, MaxPosts,
          MaxRetries, MaxSessions, MaxEvents

VARIABLES part,
          dceMode, handler, state, done, doneOf, step, saved, awaits, timeouts, errors, redo,
          dials, wire, rx, real, linked, late, both, mixup,
          bridge_link, addr, mac, checks, making, events, upd, clients, napt, leases, kept, raced,
          exhausted, lateCheck,
          http, config_status, s_sta_got_ip_flag, flagOf, timers, timerHandler, webTimer,
          connect_count, group, bitOf, attempt, answered, ipEvents, avail, maxTries, tries, last,
          list, failed, target, elapsed, ota, boot, okOf, stale, crossed, undefined, noHead,
          noGroup, posts,
          wifi_prov_status, starter, session, mgr, queue, handle, armed, timerTask, retries,
          connects, aborted, met

Mod == INSTANCE Modem
Net == INSTANCE BridgeNetif
Web == INSTANCE WebServer WITH handler <- timerHandler, timerTask <- webTimer
Prov == INSTANCE WifiProv WITH late <- met

ASSUME BridgeAssumption ==
    Mod!ModemAssumption /\ Net!NetifAssumption /\ Web!WebAssumption /\ Prov!ProvAssumption

modemVars == << dceMode, handler, state, done, doneOf, step, saved, awaits, timeouts, errors, redo,
                dials, wire, rx, real, linked, late, both, mixup >>

netVars == << bridge_link, addr, mac, checks, making, events, upd, clients, napt, leases, kept,
              raced, exhausted, lateCheck >>

webVars == << http, config_status, s_sta_got_ip_flag, flagOf, timers, timerHandler, webTimer,
              connect_count, group, bitOf, attempt, answered, ipEvents, avail, maxTries, tries, last,
              list, failed, target, elapsed, ota, boot, okOf, stale, crossed, undefined, noHead,
              noGroup, posts >>

provVars == << wifi_prov_status, starter, session, mgr, queue, handle, armed, timerTask, retries,
               connects, aborted, met >>

allVars == << part, modemVars, netVars, webVars, provVars >>

MCInit ==
    /\ part \in {"modem", "netifs", "web", "prov"}
    /\ Mod!Init /\ Net!Init /\ Web!Init /\ Prov!Init

WebMoves == part = "web" /\ UNCHANGED << part, modemVars, netVars, provVars >>
ProvMoves == part = "prov" /\ UNCHANGED << part, modemVars, netVars, webVars >>

MCNext ==
    \/ part = "modem" /\ Mod!Next /\ UNCHANGED << part, netVars, webVars, provVars >>
    \/ part = "netifs" /\ Net!Next /\ UNCHANGED << part, modemVars, webVars, provVars >>
    \/ WebMoves /\ Web!Next
    \/ ProvMoves /\ Prov!Next

\* The fairness of WebServer and of WifiProv.
MCSpec ==
    /\ MCInit /\ [][MCNext]_allVars
    /\ WF_allVars(WebMoves /\ ~Web!Broken /\ (Web!Direct \/ Web!Filter))
    /\ WF_allVars(WebMoves /\ ~Web!Broken /\ Web!Timer)
    /\ WF_allVars(ProvMoves /\ ~aborted /\ Prov!Starts)
    /\ WF_allVars(ProvMoves /\ ~aborted /\ Prov!Stopped)
    /\ WF_allVars(ProvMoves /\ ~aborted /\ Prov!PostsEnd)
    /\ WF_allVars(ProvMoves /\ ~aborted /\ Prov!event_handler)
    /\ WF_allVars(ProvMoves /\ ~aborted /\ \E s \in armed : Prov!Expires(s))

\* A command ends with its own answer (Modem).
OwnAnswers == Mod!OwnAnswers

\* The driver and the modem agree on the mode (Modem).
ModesAgree == Mod!ModesAgree

\* Interfaces keep different segments and MAC addresses (BridgeNetif).
InterfacesApart == Net!InterfacesApart

\* A set-up that is connecting is watched by exactly one task or timer (WebServer).
SetupIsWatched == Web!SetupIsWatched

\* A set-up that is reported as connected is; a firmware that boots is whole (WebServer).
ReportsAreTrue == Web!ReportsAreTrue

\* Between provisioning sessions manager and timer are gone (WifiProv).
SessionsApart == Prov!SessionsApart

\* A set-up does not stay connecting for ever, and a provisioning session ends
\* (WebServer, WifiProv).
SetupsEnd == Web!SetupEnds /\ Prov!SessionEnds
=============================================================================
