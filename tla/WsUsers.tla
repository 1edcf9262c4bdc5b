------------------------------- MODULE WsUsers -------------------------------
(***************************************************************************)
(* The users of the web socket (main/t3ch_httpd.c): the list awuausers with a   *)
(* semaphore per slot, the requests and the queued answers, both handled by the  *)
(* task of the server, and wua_task, which pings, sends the info loop and the    *)
(* log, and removes users that lag.  Neither task locks the list.  A user is its *)
(* connection: hash and fd are one value.                                   *)
(***************************************************************************)
EXTENDS Integers, Sequences

CONSTANTS
    Fds,          \* connections
    None,
    WUA_MAX,
    MaxWork,      \* bound of the model: queued answers; a ping is dropped beyond it
    MaxRequests   \* bound of the model: requests and ages of users since the start

WsAssumption ==
    None \notin Fds /\ WUA_MAX \in Nat \ {0} /\ MaxWork \in Nat /\ MaxRequests \in Nat

VARIABLES
    open,         \* connections of the server
    users,        \* awuausers: [id, age, loops]; age 1 calls for a ping, 2 is WUA_MAX_LAG
    wua_pos,
    sem,          \* xSemaphoreSend: "none", "free" or "taken"
    work,         \* answers queued with httpd_queue_work
    srv,          \* task of the server: [pc, i]
    wt,           \* wua_task: [pc, i]
    members,      \* users that are logged in, oldest first (history)
    clean,        \* every deletion so far was of one of the last two (history)
    leaked,       \* slots whose semaphore an info loop kept (history)
    requests

wsVars == << open, users, wua_pos, sem, work, srv, wt, members, clean, leaked, requests >>

Places == 0 .. WUA_MAX - 1
Nobody == [id |-> None, age |-> 0, loops |-> {}]
SrvIdle == [pc |-> "idle", i |-> 0]
WtStart == [pc |-> "check", i |-> 0]

Init ==
    /\ open = {} /\ users = [p \in Places |-> Nobody] /\ wua_pos = 0
    /\ sem = [p \in Places |-> "none"]
    /\ work = << >> /\ srv = SrvIdle /\ wt = WtStart
    /\ members = << >> /\ clean = TRUE /\ leaked = {} /\ requests = 0

-----------------------------------------------------------------------------
(* The list *)

\* wua_geti, -1 when there is no such user
wua_geti(id) ==
    IF \E p \in Places : p < wua_pos /\ users[p].id = id
    THEN CHOOSE p \in Places : /\ p < wua_pos /\ users[p].id = id
                               /\ \A q \in Places : q < p => users[q].id # id
    ELSE -1

\* wua_del: only the entry after it moves down, and the position goes down
\* whether or not there was an entry.  The closing of the connection is only
\* triggered: it is a Disconnect, at any later time.
UsersAfterDel_none(pos) == users
UsersAfterDel(pos) ==
    IF pos \in Places /\ pos + 1 < WUA_MAX THEN [users EXCEPT ![pos] = users[pos + 1]] ELSE users

\* The users that are logged in, without one that leaves.
Without(id) ==
    IF \E n \in 1 .. Len(members) : members[n] = id
    THEN LET n == CHOOSE n \in 1 .. Len(members) : members[n] = id
         IN  [k \in 1 .. Len(members) - 1 |-> members[IF k < n THEN k ELSE k + 1]]
    ELSE members

wua_del(pos) ==
    /\ users' = UsersAfterDel(pos)
    /\ wua_pos' = wua_pos - 1
    /\ members' = IF pos \in Places THEN Without(users[pos].id) ELSE members
    /\ clean' = (clean /\ pos \in wua_pos - 2 .. wua_pos - 1 /\ pos >= 0)

Touch(p) == users' = [users EXCEPT ![p].age = 0]

-----------------------------------------------------------------------------
(* Requests: wss_handler *)

Connect(f) ==
    /\ f \notin open
    /\ open' = open \cup {f}
    /\ UNCHANGED << users, wua_pos, sem, work, srv, wt, members, clean, leaked, requests >>

Disconnect(f) ==
    /\ f \in open
    /\ open' = open \ {f}
    /\ UNCHANGED << users, wua_pos, sem, work, srv, wt, members, clean, leaked, requests >>

Asks(f) == srv.pc = "idle" /\ f \in open /\ requests < MaxRequests /\ requests' = requests + 1

\* wua_add and the answer to the login.
HasRoom == wua_pos < WUA_MAX - 1

Login(f) ==
    /\ Asks(f)
    /\ IF wua_geti(f) >= 0 \/ ~HasRoom
       THEN UNCHANGED << users, wua_pos, sem, work, members, leaked >>
       ELSE /\ wua_pos' = wua_pos + 1
            /\ IF wua_pos >= 0
               THEN /\ sem' = [sem EXCEPT ![wua_pos] = "free"]
                    /\ users' = [users EXCEPT ![wua_pos] = [id |-> f, age |-> 0, loops |-> {}]]
                    /\ leaked' = leaked \ {wua_pos}
               ELSE UNCHANGED << sem, users, leaked >>
            /\ members' = Append(members, f)
            /\ work' = Append(work, f)
    /\ UNCHANGED << open, srv, wt, clean >>

\* A request of a known user is a sign of life; l is the loop it starts.
Alive(p, l) == users' = [users EXCEPT ![p].age = 0, ![p].loops = users[p].loops \cup l]
Queue(f) == work' = Append(work, f)

Success(f) ==
    /\ Asks(f)
    /\ IF wua_geti(f) >= 0 THEN Alive(wua_geti(f), {}) ELSE UNCHANGED users
    /\ UNCHANGED << open, wua_pos, sem, work, srv, wt, members, clean, leaked >>

\* The answer to a ping; the server closes the connection of a handler that fails.
Pong(f) ==
    /\ Asks(f)
    /\ IF wua_geti(f) >= 0 THEN Alive(wua_geti(f), {}) /\ UNCHANGED open
                           ELSE open' = open \ {f} /\ UNCHANGED users
    /\ UNCHANGED << wua_pos, sem, work, srv, wt, members, clean, leaked >>

\* infoLoop and log_view start a loop of wua_task, or an answer that it failed.
StartLoop(f, loop) ==
    /\ Asks(f)
    /\ IF wua_geti(f) >= 0 THEN Alive(wua_geti(f), {loop}) /\ UNCHANGED work
                           ELSE Queue(f) /\ UNCHANGED users
    /\ UNCHANGED << open, wua_pos, sem, srv, wt, members, clean, leaked >>

\* time_set, version and wifi_view are answered whether the user is known or not.
Answered(f) ==
    /\ Asks(f)
    /\ IF wua_geti(f) >= 0 THEN Alive(wua_geti(f), {}) ELSE UNCHANGED users
    /\ Queue(f)
    /\ UNCHANGED << open, wua_pos, sem, srv, wt, members, clean, leaked >>

\* time_sync and what is not known are answered without a look at the user.
OnlyAnswered(f) ==
    /\ Asks(f) /\ Queue(f)
    /\ UNCHANGED << open, users, wua_pos, sem, srv, wt, members, clean, leaked >>

Logout(f) ==
    /\ Asks(f)
    /\ wua_del(wua_geti(f))
    /\ UNCHANGED << open, sem, work, srv, wt, leaked >>

\* debug_wua_del names any position.
DebugDelete(f, pos) ==
    /\ Asks(f)
    /\ wua_del(pos)
    /\ UNCHANGED << open, sem, work, srv, wt, leaked >>

-----------------------------------------------------------------------------
(* Queued answers: ws_task_version, ws_task_wifiview, ws_task_login, ws_task_any *)

\* The index is looked up first; the semaphore at -1 is memory outside of the
\* array: nothing is sent, or the device panics.
AnswerBegins ==
    /\ srv.pc = "idle" /\ work # << >>
    /\ work' = Tail(work)
    /\ LET p == wua_geti(Head(work)) IN
       srv' = IF p >= 0 THEN [pc |-> "wait", i |-> p] ELSE SrvIdle
    /\ UNCHANGED << open, users, wua_pos, sem, wt, members, clean, leaked, requests >>

Panic ==
    /\ srv.pc = "idle" /\ work # << >> /\ wua_geti(Head(work)) < 0
    /\ open' = {} /\ users' = [p \in Places |-> Nobody] /\ wua_pos' = 0
    /\ sem' = [p \in Places |-> "none"]
    /\ work' = << >> /\ srv' = SrvIdle /\ wt' = WtStart
    /\ members' = << >> /\ clean' = TRUE /\ leaked' = {}
    /\ UNCHANGED requests

AnswerWaits ==
    /\ srv.pc = "wait"
    /\ IF sem[srv.i] = "free"
       THEN sem' = [sem EXCEPT ![srv.i] = "taken"] /\ srv' = [srv EXCEPT !.pc = "send"]
       ELSE srv' = SrvIdle /\ UNCHANGED sem
    /\ UNCHANGED << open, users, wua_pos, work, wt, members, clean, leaked, requests >>

Give_kept(p) == sem
Give(p) == [sem EXCEPT ![p] = "free"]

AnswerSends ==
    /\ srv.pc = "send"
    /\ IF users[srv.i].id \in open THEN Touch(srv.i) ELSE UNCHANGED users
    /\ sem' = Give(srv.i)
    /\ srv' = SrvIdle
    /\ UNCHANGED << open, wua_pos, work, wt, members, clean, leaked, requests >>

-----------------------------------------------------------------------------
(* wua_task *)

At(pc) == wt.pc = pc /\ wt.i < wua_pos /\ wt.i \in Places
Then(pc) == wt' = [wt EXCEPT !.pc = pc]

Ages ==
    /\ requests < MaxRequests /\ requests' = requests + 1
    /\ \E p \in Places : /\ p < wua_pos /\ users[p].age < 2
                         /\ users' = [users EXCEPT ![p].age = users[p].age + 1]
    /\ UNCHANGED << open, wua_pos, sem, work, srv, wt, members, clean, leaked >>

Restarts ==
    /\ wt.pc = "check" /\ wt.i >= wua_pos /\ wt.i > 0
    /\ wt' = WtStart
    /\ UNCHANGED << open, users, wua_pos, sem, work, srv, members, clean, leaked, requests >>

\* A user that lags is deleted; the rest of the turn goes on with its slot.
Check ==
    /\ At("check")
    /\ IF users[wt.i].age = 2
       THEN wua_del(wt.i) /\ UNCHANGED work
       ELSE /\ work' = IF users[wt.i].age = 1 /\ Len(work) < MaxWork
                    THEN Append(work, users[wt.i].id) ELSE work
            /\ UNCHANGED << users, wua_pos, members, clean >>
    /\ Then("info")
    /\ UNCHANGED << open, sem, srv, leaked, requests >>

Info ==
    /\ wt.pc = "info"
    /\ IF "info" \in users[wt.i].loops /\ sem[wt.i] = "free"
       THEN sem' = [sem EXCEPT ![wt.i] = "taken"] /\ Then("infosend")
       ELSE UNCHANGED sem /\ Then("log")
    /\ UNCHANGED << open, users, wua_pos, work, srv, members, clean, leaked, requests >>

\* A send that fails leaves the loop over the users without giving the semaphore.
InfoSend ==
    /\ wt.pc = "infosend"
    /\ IF users[wt.i].id \in open
       THEN Touch(wt.i) /\ sem' = Give(wt.i) /\ Then("log") /\ UNCHANGED leaked
       ELSE /\ wt' = WtStart /\ leaked' = leaked \cup {wt.i}
            /\ UNCHANGED << users, sem >>
    /\ UNCHANGED << open, wua_pos, work, srv, members, clean, requests >>

\* The log (see LogRing): one send, the semaphore is given even if it was not taken.
Log ==
    /\ wt.pc = "log"
    /\ IF "log" \in users[wt.i].loops
       THEN IF sem[wt.i] = "free"
            THEN sem' = [sem EXCEPT ![wt.i] = "taken"] /\ Then("logsend") /\ UNCHANGED leaked
            ELSE /\ sem' = Give(wt.i) /\ leaked' = leaked \ {wt.i}
                 /\ wt' = [pc |-> "check", i |-> wt.i + 1]
       ELSE wt' = [pc |-> "check", i |-> wt.i + 1] /\ UNCHANGED << sem, leaked >>
    /\ UNCHANGED << open, users, wua_pos, work, srv, members, clean, requests >>

LogSend ==
    /\ wt.pc = "logsend"
    /\ IF users[wt.i].id \in open THEN Touch(wt.i) ELSE UNCHANGED users
    /\ sem' = Give(wt.i)
    /\ wt' = [pc |-> "check", i |-> wt.i + 1]
    /\ UNCHANGED << open, wua_pos, work, srv, members, clean, leaked, requests >>

Next ==
    \/ \E f \in Fds :
          \/ Connect(f) \/ Disconnect(f) \/ Login(f) \/ Logout(f)
          \/ Success(f) \/ Pong(f) \/ Answered(f) \/ OnlyAnswered(f)
          \/ \E loop \in {"info", "log"} : StartLoop(f, loop)
          \/ \E pos \in Places : DebugDelete(f, pos)
    \/ AnswerBegins \/ Panic \/ AnswerWaits \/ AnswerSends
    \/ Ages \/ Restarts \/ Check \/ Info \/ InfoSend \/ Log \/ LogSend

-----------------------------------------------------------------------------
(* Properties *)

\* As long as only one of the last two users has been deleted at a time, the list
\* holds the users that are logged in, in their order and once each.
ListIsExact ==
    clean => /\ wua_pos = Len(members)
             /\ \A n \in 1 .. Len(members) : users[n - 1].id = members[n]

\* A semaphore that is taken belongs to a send that goes on, or an info loop whose
\* send failed kept it: then the user of the slot is cut off, until the log of the
\* slot or a new login gives it back.
TakenIsSending ==
    \A p \in Places : sem[p] = "taken" =>
        \/ srv.pc = "send" /\ srv.i = p
        \/ wt.pc \in {"infosend", "logsend"} /\ wt.i = p
        \/ p \in leaked
=============================================================================
