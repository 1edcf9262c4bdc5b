------------------------------- MODULE LogRing -------------------------------
(***************************************************************************)
(* The log of the application (main/t3ch_log.c): t3ch_log queues lines,        *)
(* t3ch_log_task numbers them and keeps the last ones in an array, and one      *)
(* viewer in wua_task (main/t3ch_httpd.c) reads the array without a lock, first  *)
(* the old lines from the newest down, then the new ones as they come.  A line   *)
(* is its id; the text, which is also shared, is left out.                    *)
(***************************************************************************)
EXTENDS Integers, Sequences, FiniteSets

CONSTANTS
    LOG_SIZE,
    QueueLen,    \* length of log_qh
    MaxLines     \* bound of the model: lines that are logged

ASSUME LogAssumption == LOG_SIZE \in Nat \ {0, 1} /\ QueueLen \in Nat /\ MaxLines \in Nat

VARIABLES
    queued,              \* lines in log_qh
    lpc, si,             \* t3ch_log_task, index of its loop in t3ch_log_del
    log,                 \* ids in the array
    LOG_POS, log_cnt,
    vpc, i, batch,       \* the viewer: index and lines of t3ch_log_gen_old, _new
    fromPos, log_lastid,
    shown,               \* lines sent to the browser (history)
    raced,               \* the array moved under a reader (history)
    failed,              \* old lines could not be sent (history)
    begun,               \* log_cnt when the old lines were begun (history)
    repeated             \* old lines sent that had been shown (history)

task == << queued, lpc, si, log, LOG_POS, log_cnt >>
repeats == << begun, repeated >>
hist == << shown, raced, failed, repeats >>
vars == << task, vpc, i, batch, fromPos, log_lastid, hist >>

Slots == 0 .. LOG_SIZE - 1

Init ==
    /\ queued = 0 /\ lpc = "idle" /\ si = 0
    /\ log = [k \in Slots |-> 0] /\ LOG_POS = 0 /\ log_cnt = 1
    /\ vpc = "off" /\ i = 0 /\ batch = << >> /\ fromPos = 0 /\ log_lastid = 0
    /\ shown = {} /\ raced = FALSE /\ failed = FALSE
    /\ begun = log_cnt /\ repeated = 0

-----------------------------------------------------------------------------
(* t3ch_log and t3ch_log_task *)

\* A line that finds the queue full is dropped.
Logged ==
    /\ queued < QueueLen
    /\ log_cnt + queued + (IF lpc = "idle" THEN 0 ELSE 1) <= MaxLines
    /\ queued' = queued + 1
    /\ UNCHANGED << lpc, si, log, LOG_POS, log_cnt, vpc, i, batch, fromPos, log_lastid, hist >>

Full == LOG_POS >= LOG_SIZE - 1

Receive ==
    /\ lpc = "idle" /\ queued > 0
    /\ queued' = queued - 1
    /\ si' = 0
    /\ lpc' = IF Full THEN "shift" ELSE "append"
    /\ UNCHANGED << log, LOG_POS, log_cnt, vpc, i, batch, fromPos, log_lastid, hist >>

Walking == vpc \in {"oldtake", "newwalk", "newtake"}

\* What is in memory after the array, taken for an id.
Beyond == {0, MaxLines + 1}

\* t3ch_log_del(0); its last assignment reads past the array.
PosAfterDel_kept == LOG_POS
PosAfterDel == LOG_POS - 1

Shift ==
    /\ lpc = "shift"
    /\ IF si < LOG_SIZE - 1 THEN log' = [log EXCEPT ![si] = log[si + 1]]
                            ELSE \E x \in Beyond : log' = [log EXCEPT ![si] = x]
    /\ IF si < LOG_SIZE - 1
       THEN si' = si + 1 /\ UNCHANGED << lpc, LOG_POS >>
       ELSE si' = 0 /\ lpc' = "append" /\ LOG_POS' = PosAfterDel
    /\ raced' = (raced \/ Walking)
    /\ UNCHANGED << queued, log_cnt, vpc, i, batch, fromPos, log_lastid, shown, failed,
                    repeats >>

AppendLine ==
    /\ lpc = "append"
    /\ log' = [log EXCEPT ![LOG_POS] = log_cnt]
    /\ LOG_POS' = LOG_POS + 1
    /\ log_cnt' = log_cnt + 1
    /\ lpc' = "idle"
    /\ UNCHANGED << queued, si, vpc, i, batch, fromPos, log_lastid, hist >>

-----------------------------------------------------------------------------
(* The viewer *)

\* wss_handler, log_view: from now on wua_task serves this user.  As long as
\* nothing has been shown each pass starts with the old lines.
Pass == IF log_lastid' = 0 THEN "old" ELSE "new"

View ==
    /\ vpc = "off"
    /\ vpc' = "old"
    /\ UNCHANGED << task, i, batch, fromPos, log_lastid, hist >>

\* t3ch_log_gen_old, from the end of the array.
OldStart == LOG_POS - fromPos - 1

OldBegin ==
    /\ vpc = "old"
    /\ IF OldStart < 0 \/ log[IF OldStart < 0 THEN 0 ELSE OldStart] <= 0
       THEN vpc' = "new" /\ UNCHANGED << i, batch >>
       ELSE vpc' = "oldtake" /\ i' = OldStart /\ batch' = << >>
    /\ raced' = (raced \/ lpc = "shift")
    /\ begun' = IF fromPos = 0 THEN log_cnt ELSE begun
    /\ UNCHANGED << task, fromPos, log_lastid, shown, failed, repeated >>

\* One line at least, and the others as far as LOG_DATA holds them.
OldTake(full) ==
    /\ vpc = "oldtake"
    /\ batch' = Append(batch, log[i])
    /\ IF i = 0 \/ full THEN vpc' = "oldsend" /\ UNCHANGED i
                        ELSE i' = i - 1 /\ UNCHANGED vpc
    /\ UNCHANGED << task, fromPos, log_lastid, hist >>

\* json_log_lastid: the ids up to the first that is smaller than the one before.
Rising == {n \in 1 .. Len(batch) : \A m \in 1 .. n - 1 : batch[m] <= batch[m + 1]}
LastId == IF batch = << >> THEN 0 ELSE batch[Cardinality(Rising)]
IdAfter == IF LastId > log_lastid THEN LastId ELSE log_lastid

Sent == {batch[n] : n \in 1 .. Len(batch)}

FromPosAfter_offByOne == fromPos + Len(batch) + 1
FromPosAfter == fromPos + Len(batch)

\* The semaphore is not got (the lines are read again), or the send fails (wua_task
\* goes on to the new lines), or the lines are sent.
OldSend(res) ==
    /\ vpc = "oldsend"
    /\ \/ /\ res = "busy"
          /\ vpc' = "old"
          /\ UNCHANGED << fromPos, log_lastid, shown, failed, repeated >>
       \/ /\ res = "fail"
          /\ vpc' = "new" /\ failed' = TRUE
          /\ UNCHANGED << fromPos, log_lastid, shown, repeated >>
       \/ /\ res = "ok"
          /\ vpc' = IF LastId = 0 THEN "new" ELSE "old"
          /\ fromPos' = FromPosAfter
          /\ log_lastid' = IdAfter
          /\ shown' = shown \cup Sent
          /\ repeated' = repeated + Cardinality(Sent \cap shown)
          /\ UNCHANGED failed
    /\ UNCHANGED << task, i, batch, raced, begun >>

\* t3ch_log_gen_new; with an empty array it reads before it and shows nothing.
NewBegin ==
    /\ vpc = "new"
    /\ IF LOG_POS = 0 \/ log[IF LOG_POS = 0 THEN 0 ELSE LOG_POS - 1] <= log_lastid
       THEN /\ UNCHANGED << log_lastid, i, batch >>
            /\ vpc' = Pass /\ fromPos' = 0
       ELSE /\ vpc' = "newwalk" /\ i' = LOG_POS - 1 /\ batch' = << >>
            /\ UNCHANGED << fromPos, log_lastid >>
    /\ raced' = (raced \/ lpc = "shift")
    /\ UNCHANGED << task, shown, failed, repeats >>

\* Down to the oldest line that the viewer does not have.
OlderIsNew == i >= 1 /\ log[IF i >= 1 THEN i - 1 ELSE 0] > log_lastid

NewWalk ==
    /\ vpc = "newwalk"
    /\ IF OlderIsNew THEN i' = i - 1 /\ UNCHANGED vpc
                     ELSE vpc' = "newtake" /\ UNCHANGED i
    /\ UNCHANGED << task, batch, fromPos, log_lastid, hist >>

NewTake(full) ==
    /\ vpc = "newtake"
    /\ LET stop == batch # << >> /\ (log[i] <= log_lastid \/ full)
       IN  /\ batch' = IF stop THEN batch ELSE Append(batch, log[i])
           /\ IF stop \/ i = 0 THEN vpc' = "newsend" /\ UNCHANGED i
                               ELSE vpc' = "newwalk" /\ i' = i - 1
    /\ UNCHANGED << task, fromPos, log_lastid, hist >>

NewSend(res) ==
    /\ vpc = "newsend"
    /\ IF res = "ok"
       THEN log_lastid' = IdAfter /\ shown' = shown \cup Sent
       ELSE UNCHANGED << log_lastid, shown >>
    /\ IF res = "fail" THEN vpc' = Pass /\ fromPos' = 0
                       ELSE vpc' = "new" /\ UNCHANGED fromPos
    /\ UNCHANGED << task, i, batch, raced, failed, repeats >>

Viewer == \/ View \/ OldBegin \/ NewBegin \/ NewWalk
          \/ \E full \in BOOLEAN : OldTake(full) \/ NewTake(full)
          \/ \E res \in {"ok", "busy", "fail"} : OldSend(res) \/ NewSend(res)

-----------------------------------------------------------------------------

Next == Logged \/ Receive \/ Shift \/ AppendLine \/ Viewer

Spec == Init /\ [][Next]_vars

-----------------------------------------------------------------------------
(* Properties *)

\* Between two lines the array holds the last ones that were logged, in order
\* and without a hole, however often it has been shifted.
IdsAccount ==
    lpc = "idle" =>
        /\ LOG_POS = IF log_cnt <= LOG_SIZE THEN log_cnt - 1 ELSE LOG_SIZE - 1
        /\ \A k \in 0 .. LOG_POS - 1 : log[k] = log_cnt - LOG_POS + k

\* Once the old lines are through, every line that is still kept and not newer
\* than the last one shown has been shown, although lines were added between two
\* messages (but not while the array was read) and whatever of the new was not sent.
NothingSkipped ==
    (vpc \in {"new", "newwalk", "newtake", "newsend"} /\ lpc = "idle" /\ ~ raced /\ ~ failed)
        => \A k \in 0 .. LOG_POS - 1 : log[k] <= log_lastid => log[k] \in shown

\* A line that was shown is never offered again as a new one.
NewOnce == (vpc = "newsend" /\ ~ raced) => Sent \cap shown = {}

\* The pages of old lines are counted from an end that moves: a line that is appended
\* between two of them can bring one old line twice, and nothing else does.
OldRepeatsAccount == ~ raced => repeated <= log_cnt - begun

\* The viewer shows every kept line, a new one once and an old one once but for the
\* lines appended while the old ones were sent.
ViewIsExact == NothingSkipped /\ NewOnce /\ OldRepeatsAccount
=============================================================================
