----------------------------- MODULE BridgeNetif -----------------------------
(***************************************************************************)
(* The interfaces of the bridge and their address segments (bridge_common.c and  *)
(* bridge_wifi.c): the list bridge_link, which a task that creates interfaces and *)
(* the event task share without a lock, the search for a free segment and MAC   *)
(* address, and the update when an external interface gets an address.  The task *)
(* reads the list, sets an address, and only then adds the interface.  Phones join *)
(* the soft AP and take a lease in its segment; when it moves they are sent away. *)
(***************************************************************************)
EXTENDS Integers, Sequences, SequencesExt, FiniteSets

CONSTANTS
    Servers,      \* data forwarding interfaces, with a DHCP server
    SoftAp,       \* the one of them that is the soft AP
    Externals,    \* stations; the modem is not in the list
    Thirds,       \* third octets the search goes through (4 .. 254)
    OtherThirds,  \* third octets in another network
    Refusals,     \* what a custom check may refuse: sets of third octets
    MaxLeases,    \* bound of the model: leases and joins
    MaxChecks     \* bound of the model: custom checks
MacByte == 4      \* values of a byte of a MAC address; 256 in the code
Nobody == "none"

NetifAssumption ==
    /\ SoftAp \in Servers /\ Servers \cap Externals = {} /\ IsFiniteSet(Servers) /\ IsFiniteSet(Externals)
    /\ Nobody \notin Servers /\ Cardinality(Servers) <= MacByte   \* a search for a MAC address succeeds
    /\ Thirds \cup OtherThirds \subseteq Nat \ {0} /\ IsFiniteSet(Thirds) /\ Refusals \subseteq SUBSET Thirds

Netifs == Servers \cup Externals

VARIABLES
    bridge_link,       \* interfaces, oldest first
    addr, mac,         \* of every interface
    checks,            \* custom_check_list, newest first
    making,            \* the interface under creation, "none" if there is none
    events,            \* GOT_IP events, by the external, and stations that join the soft AP
    upd,               \* conflict_update: [pc, for, pos, used]
    clients, napt,     \* segments that clients of the soft AP have a lease in; it translates
    leases,
    kept,              \* a deauthentication failed (history)
    raced, exhausted, lateCheck  \* an address changed while an interface was being made,
                       \* a search failed, a check came after a server (history)

netVars == << bridge_link, addr, mac, checks, making, events, upd, clients, napt, leases, kept,
              raced, exhausted, lateCheck >>

\* An address is its first two octets, and the third.
Home == "192.168"
NoAddr == [net |-> "0.0", third |-> 0]
Addresses == {NoAddr} \cup [net : {Home}, third : Thirds] \cup [net : {"10.0"}, third : OtherThirds]
SameSegment(a, b) == a = b

Resting == [pc |-> "rest", for |-> Nobody, pos |-> 0, used |-> FALSE]
BaseMac == << 0, 0, MacByte - 1 >>
ApMac == [BaseMac EXCEPT ![3] = (@ + 1) % MacByte]   \* the driver counts within the byte

Init ==
    /\ bridge_link = << >>
    /\ addr = [n \in Netifs |-> NoAddr]
    /\ mac = [n \in Netifs |-> << >>]
    /\ checks = << >> /\ making = Nobody
    /\ events = << >> /\ upd = Resting
    /\ clients = {} /\ napt = FALSE /\ kept = FALSE
    /\ leases = 0 /\ raced = FALSE /\ exhausted = FALSE /\ lateCheck = FALSE

Listed == ToSet(bridge_link)

-----------------------------------------------------------------------------
(* Searches *)

\* Only the third octet is compared here.
esp_bridge_netif_network_segment_is_used(t) == \E n \in Listed : addr[n].third = t

Passes(t) == \A c \in 1 .. Len(checks) : t \notin checks[c]

\* esp_bridge_netif_request_ip: the first segment that neither an interface nor a
\* check refuses.
Free == {t \in Thirds : ~esp_bridge_netif_network_segment_is_used(t) /\ Passes(t)}
request_ip == [net |-> Home, third |-> CHOOSE t \in Free : \A u \in Free : t <= u]

\* esp_bridge_netif_request_mac: a byte below is counted up unless the next is at its
\* end, so that a carry counts for less and not for more.
NextMac(m) ==
    << IF m[3] # MacByte - 1 /\ m[2] # MacByte - 1 THEN (m[1] + 1) % MacByte ELSE m[1],
       IF m[3] # MacByte - 1 THEN (m[2] + 1) % MacByte ELSE m[2],
       (m[3] + 1) % MacByte >>
NthMac[n \in 0 .. MacByte] == IF n = 0 THEN BaseMac ELSE NextMac(NthMac[n - 1])
mac_is_used(m) == \E n \in Listed : mac[n] = m
request_mac ==
    NthMac[CHOOSE n \in 0 .. MacByte : /\ ~mac_is_used(NthMac[n])
                                       /\ \A k \in 0 .. n - 1 : mac_is_used(NthMac[k])]

-----------------------------------------------------------------------------
(* The task that creates interfaces *)

esp_bridge_network_segment_check_register(refused) ==
    /\ Len(checks) < MaxChecks
    /\ checks' = << refused >> \o checks
    /\ lateCheck' = (lateCheck \/ \E n \in Servers : addr[n] # NoAddr)
    /\ UNCHANGED << bridge_link, addr, mac, making, events, upd, clients, napt, leases, kept, raced,
                    exhausted >>

\* That the search failed is ignored: the address is then what the structure held.
Address(n, otherwise) ==
    IF Free # {}
    THEN addr' = [addr EXCEPT ![n] = request_ip] /\ UNCHANGED exhausted
    ELSE addr' = [addr EXCEPT ![n] = otherwise] /\ exhausted' = TRUE

\* esp_bridge_create_netif
Create(n) ==
    /\ n # SoftAp /\ making = Nobody /\ n \notin Listed
    /\ making' = n
    /\ Address(n, NoAddr)
    /\ mac' = [mac EXCEPT ![n] = request_mac]
    /\ UNCHANGED << bridge_link, checks, events, upd, clients, napt, leases, kept, raced, lateCheck >>

\* esp_bridge_create_softap_netif, up to its place in the list.  Its structure is not
\* initialised, and the driver has set its MAC address.
CreateSoftap(a) ==
    /\ making = Nobody /\ SoftAp \notin Listed
    /\ Free # {} => a = NoAddr
    /\ making' = SoftAp
    /\ Address(SoftAp, a)
    /\ mac' = [mac EXCEPT ![SoftAp] = ApMac]
    /\ UNCHANGED << bridge_link, checks, events, upd, clients, napt, leases, kept, raced, lateCheck >>

\* _esp_bridge_netif_list_add; the soft AP is switched on after that.
AddToList ==
    /\ making # Nobody
    /\ bridge_link' = Append(bridge_link, making)
    /\ making' = Nobody
    /\ UNCHANGED << addr, mac, checks, events, upd, clients, napt, leases, kept, raced, exhausted,
                    lateCheck >>

\* esp_bridge_create_station_netif: no address yet.
CreateExternal(n) ==
    /\ making = Nobody /\ n \notin Listed
    /\ bridge_link' = Append(bridge_link, n)
    /\ mac' = [mac EXCEPT ![n] = BaseMac]
    /\ UNCHANGED << addr, checks, making, events, upd, clients, napt, leases, kept, raced, exhausted,
                    lateCheck >>

-----------------------------------------------------------------------------
(* Externals get and lose addresses *)

Lease(n, a) ==
    /\ n \in Listed /\ leases < MaxLeases
    /\ addr' = [addr EXCEPT ![n] = a]
    /\ events' = Append(events, n)
    /\ leases' = leases + 1
    /\ raced' = (raced \/ making # Nobody)
    /\ UNCHANGED << bridge_link, mac, checks, making, upd, clients, napt, kept, exhausted, lateCheck >>

Disconnected(n) ==
    /\ n \in Listed
    /\ addr' = [addr EXCEPT ![n] = NoAddr]
    /\ UNCHANGED << bridge_link, mac, checks, making, events, upd, clients, napt, leases, kept, raced,
                    exhausted, lateCheck >>

\* A phone joins the soft AP and takes a lease in its segment.
Join ==
    /\ SoftAp \in Listed /\ addr[SoftAp] # NoAddr /\ leases < MaxLeases
    /\ clients' = clients \cup {addr[SoftAp]}
    /\ events' = Append(events, SoftAp)
    /\ leases' = leases + 1
    /\ UNCHANGED << bridge_link, addr, mac, checks, making, upd, napt, kept, raced, exhausted, lateCheck >>

-----------------------------------------------------------------------------
(* The event task: ip_event_sta_got_ip_handler and                           *)
(* esp_bridge_netif_network_segment_conflict_update                           *)

GotIp ==
    /\ upd.pc = "rest" /\ events # << >> /\ Head(events) \in Externals
    /\ events' = Tail(events)
    /\ upd' = [pc |-> "scan", for |-> Head(events), pos |-> 1, used |-> FALSE]
    /\ UNCHANGED << bridge_link, addr, mac, checks, making, clients, napt, leases, kept, raced,
                    exhausted, lateCheck >>

\* wifi_event_ap_start_handler: a station that joins has the name server offered and
\* translation of addresses switched on.
Joined ==
    /\ upd.pc = "rest" /\ events # << >> /\ Head(events) = SoftAp
    /\ events' = Tail(events)
    /\ napt' = TRUE
    /\ UNCHANGED << bridge_link, addr, mac, checks, making, upd, clients, leases, kept, raced,
                    exhausted, lateCheck >>

\* The answer of the last check alone counts, and is kept while there is no check.
Used(p) == IF checks = << >> THEN upd.used ELSE addr[p].third \in checks[Len(checks)]

\* Only servers are moved, and not the interface itself.
Skipped(p) == p = upd.for \/ p \notin Servers
InConflict_ownOnly(p) == Used(p)
InConflict(p) == SameSegment(addr[p], addr[upd.for]) \/ Used(p)

Scan ==
    /\ upd.pc = "scan"
    /\ IF upd.pos > Len(bridge_link)
       THEN upd' = Resting /\ UNCHANGED << addr, raced, exhausted >>
       ELSE LET p == bridge_link[upd.pos] IN
            IF Skipped(p)
            THEN upd' = [upd EXCEPT !.pos = upd.pos + 1] /\ UNCHANGED << addr, raced, exhausted >>
            ELSE IF ~InConflict(p)
            THEN /\ upd' = [upd EXCEPT !.pos = upd.pos + 1, !.used = Used(p)]
                 /\ UNCHANGED << addr, raced, exhausted >>
            ELSE \* the first interface that is moved ends the update
                 IF Free = {}
                 THEN upd' = Resting /\ exhausted' = TRUE /\ UNCHANGED << addr, raced >>
                 ELSE /\ upd' = IF p = SoftAp THEN [upd EXCEPT !.pc = "moved"] ELSE Resting
                      /\ addr' = [addr EXCEPT ![p] = request_ip]
                      /\ raced' = (raced \/ making # Nobody) /\ UNCHANGED exhausted
    /\ UNCHANGED << bridge_link, mac, checks, making, events, clients, napt, leases, kept, lateCheck >>

\* softap_netif_dhcp_status_change_cb, whose answer is not looked at.
Deauth(works) ==
    /\ upd.pc = "moved"
    /\ upd' = Resting
    /\ clients' = IF works THEN {} ELSE clients
    /\ kept' = (kept \/ ~works)
    /\ UNCHANGED << bridge_link, addr, mac, checks, making, events, napt, leases, raced, exhausted,
                    lateCheck >>

Next ==
    \/ \E r \in Refusals : esp_bridge_network_segment_check_register(r)
    \/ \E n \in Servers : Create(n)
    \/ AddToList \/ Join \/ Joined
    \/ \E a \in Addresses : CreateSoftap(a)
    \/ \E works \in BOOLEAN : Deauth(works)
    \/ \E n \in Externals :
          CreateExternal(n) \/ Disconnected(n) \/ \E a \in Addresses \ {NoAddr} : Lease(n, a)
    \/ GotIp \/ Scan

-----------------------------------------------------------------------------
(* Properties *)

\* When every event has been handled, no server shares its segment with another
\* interface, and each passes the custom checks, although an update moves one server
\* only and keeps the last verdict only.  This needs that no address changed between
\* the search of an interface and its place in the list, that no search failed, and
\* that no check came after a server.
Settled == events = << >> /\ upd = Resting
SegmentsApart ==
    ~raced /\ ~exhausted /\ ~lateCheck /\ Settled =>
        \A p \in Listed \cap Servers :
            /\ \A q \in Listed \ {p} : addr[q] # NoAddr => ~SameSegment(addr[p], addr[q])
            /\ Passes(addr[p].third)

\* A MAC address that was asked for differs from those listed before (and not from that
\* of a station that is created later).
MacsDiffer ==
    \A i, j \in 1 .. Len(bridge_link) :
        i < j /\ bridge_link[j] \in Servers \ {SoftAp} => mac[bridge_link[i]] # mac[bridge_link[j]]

\* Then also every client of the soft AP has a lease in its segment, unless sending the
\* clients away failed, and their addresses are translated.
ClientsFollow ==
    Settled => /\ ~kept => \A c \in clients : c = addr[SoftAp]
               /\ clients # {} => napt

InterfacesApart == SegmentsApart /\ MacsDiffer /\ ClientsFollow
=============================================================================
